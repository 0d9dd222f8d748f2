------------------------ MODULE PolicyReviewProofs ------------------------
(***************************************************************************)
(* What PolicyReview says of pairs of evaluate_policy calls, for any        *)
(* alerts, evidence, policy sets and modes.                                *)
(***************************************************************************)
EXTENDS PolicyReview, AutomationProofs

ReviewInv ==
  /\ alert \in Alert /\ action \in ActionName
  /\ policies \in Seq(Policy) /\ mode \in AnyMode

\* An alert of which more is known, and nothing else is different.
Stronger(a, b) ==
  /\ a.identified = b.identified /\ a.rule_id = b.rule_id /\ a.tactic = b.tactic
  /\ a.host_id = b.host_id /\ a.source = b.source
  /\ a.level \leq b.level /\ (b.level \leq 16 \/ b.level = a.level)
  /\ \/ b.confidence = a.confidence
     \/ /\ b.confidence.kind = "number"
        /\ a.confidence.kind = "number" => a.confidence.percent < b.confidence.percent
        /\ a.confidence.kind # "nan"
  /\ EvidenceKeys(a) \subseteq EvidenceKeys(b)
  /\ CarriesMarker(a) <=> CarriesMarker(b)
  /\ a.evidence.kind = "other" <=> b.evidence.kind = "other"

\* Learning more keeps an alert an alert, and makes it a stronger one.
LEMMA LearningStrengthens ==
  ASSUME ReviewInv, LearnMore
  PROVE  alert' \in Alert /\ Stronger(alert, alert')
<1>1. CASE RaiseLevel
  <2>1. PICK l \in Levels : alert.level < l /\ l \leq 16 /\ alert' = [alert EXCEPT !.level = l]
    BY <1>1 DEF RaiseLevel
  <2>2. l \in Int
    BY BoundsAssumption
  <2>3. alert' \in Alert
    BY <2>1, <2>2 DEF ReviewInv, Alert
  <2>4. /\ alert'.level = l /\ alert'.confidence = alert.confidence
        /\ alert'.evidence = alert.evidence /\ alert'.identified = alert.identified
        /\ alert'.rule_id = alert.rule_id /\ alert'.tactic = alert.tactic
        /\ alert'.host_id = alert.host_id /\ alert'.source = alert.source
    BY <2>1 DEF ReviewInv, Alert
  <2>5. alert.level \in Int
    BY DEF ReviewInv, Alert
  <2>6. QED
    BY <2>1, <2>2, <2>3, <2>4, <2>5 DEF Stronger, EvidenceKeys, CarriesMarker
<1>2. CASE RaiseConfidence
  <2>1. PICK p \in Percents :
          /\ alert.confidence.kind = "number" => alert.confidence.percent < p
          /\ alert.confidence.kind # "nan"
          /\ alert' = [alert EXCEPT !.confidence = [kind |-> "number", percent |-> p]]
    BY <1>2 DEF RaiseConfidence
  <2>2. p \in Int
    BY BoundsAssumption
  <2>3. alert' \in Alert
    BY <2>1, <2>2 DEF ReviewInv, Alert
  <2>4. /\ alert'.confidence = [kind |-> "number", percent |-> p]
        /\ alert'.level = alert.level
        /\ alert'.evidence = alert.evidence /\ alert'.identified = alert.identified
        /\ alert'.rule_id = alert.rule_id /\ alert'.tactic = alert.tactic
        /\ alert'.host_id = alert.host_id /\ alert'.source = alert.source
    BY <2>1 DEF ReviewInv, Alert
  <2>5. alert.level \in Int
    BY DEF ReviewInv, Alert
  <2>6. QED
    BY <2>1, <2>2, <2>3, <2>4, <2>5 DEF Stronger, EvidenceKeys, CarriesMarker
<1>3. CASE AddEvidence
  <2> DEFINE evidence(k) == [kind |-> "mapping", keys |-> EvidenceKeys(alert) \cup {k},
                             marker |-> CarriesMarker(alert)]
  <2>1. PICK k \in Keys : /\ alert.evidence.kind # "other"
                          /\ alert' = [alert EXCEPT !.evidence = evidence(k)]
    BY <1>3 DEF AddEvidence
  <2>2. /\ alert.evidence.kind \in {"number", "none", "mapping", "other"}
        /\ alert.evidence.keys \in SUBSET STRING /\ alert.evidence.marker \in BOOLEAN
        /\ alert.level \in Int
    BY DEF ReviewInv, Alert
  <2>3. EvidenceKeys(alert) \cup {k} \in SUBSET STRING
    BY <2>2, BoundsAssumption DEF EvidenceKeys
  <2>4. CarriesMarker(alert) \in BOOLEAN
    BY <2>2 DEF CarriesMarker
  <2>5. /\ evidence(k) \in [kind : {"none", "mapping", "other"}, keys : SUBSET STRING,
                            marker : BOOLEAN]
        /\ evidence(k).kind = "mapping" /\ evidence(k).keys = EvidenceKeys(alert) \cup {k}
        /\ evidence(k).marker = CarriesMarker(alert)
    BY <2>3, <2>4
  <2> HIDE DEF evidence
  <2>6. /\ alert'.evidence = evidence(k) /\ alert'.level = alert.level
        /\ alert'.confidence = alert.confidence /\ alert'.identified = alert.identified
        /\ alert'.rule_id = alert.rule_id /\ alert'.tactic = alert.tactic
        /\ alert'.host_id = alert.host_id /\ alert'.source = alert.source
        /\ alert' \in Alert
    BY <2>1, <2>5 DEF ReviewInv, Alert
  <2>7. /\ EvidenceKeys(alert') = EvidenceKeys(alert) \cup {k}
        /\ CarriesMarker(alert') = CarriesMarker(alert)
    BY <2>4, <2>5, <2>6 DEF EvidenceKeys, CarriesMarker
  <2>8. QED
    BY <2>1, <2>2, <2>5, <2>6, <2>7 DEF Stronger
<1>4. QED
  BY <1>1, <1>2, <1>3 DEF LearnMore

\* The policy that is picked depends on the rule and the tactic alone.
LEMMA SamePolicyIsPicked ==
  ASSUME NEW a, NEW b, NEW act, NEW set \in Seq(Policy),
         a.rule_id = b.rule_id, a.tactic = b.tactic
  PROVE  FirstPolicy(a, act, set) = FirstPolicy(b, act, set)
<1>1. \A p : Matches(p, a) <=> Matches(p, b)
  BY DEF Matches
<1> DEFINE i == FirstPolicy(a, act, set)
           j == FirstPolicy(b, act, set)
<1>2. \/ /\ i = 0
         /\ \A k \in 1 .. Len(set) : ~ (Matches(set[k], a) /\ set[k].action = act)
      \/ /\ i \in 1 .. Len(set) /\ Matches(set[i], a) /\ set[i].action = act
         /\ \A k \in 1 .. i - 1 : ~ (Matches(set[k], a) /\ set[k].action = act)
  BY FirstPolicyApplies
<1>3. \/ /\ j = 0
         /\ \A k \in 1 .. Len(set) : ~ (Matches(set[k], b) /\ set[k].action = act)
      \/ /\ j \in 1 .. Len(set) /\ Matches(set[j], b) /\ set[j].action = act
         /\ \A k \in 1 .. j - 1 : ~ (Matches(set[k], b) /\ set[k].action = act)
  BY FirstPolicyApplies
<1> HIDE DEF i, j
<1>4. Len(set) \in Nat
  OBVIOUS
<1>5. i = j
  BY <1>1, <1>2, <1>3, <1>4
<1>6. QED
  BY <1>5 DEF i, j

\* A stronger alert passes every gate a weaker one passes.
LEMMA GatesAreMonotone ==
  ASSUME NEW a \in Alert, NEW b \in Alert, Stronger(a, b), NEW p \in Policy, ~ GateFails(p, a)
  PROVE  ~ GateFails(p, b)
<1>1. /\ a.level \in Int /\ b.level \in Int
      /\ a.confidence.kind \in {"number", "nan", "none"} /\ a.confidence.percent \in Int
      /\ b.confidence.kind \in {"number", "nan", "none"} /\ b.confidence.percent \in Int
  BY DEF Alert
<1>2. p.min_level \in Int /\ p.min_confidence \in Int
  BY DEF Policy, PolicyFields
<1>3. ~ ConfidenceGateFails(p, b)
  BY <1>1, <1>2 DEF Stronger, GateFails, ConfidenceGateFails
<1>4. QED
  BY <1>1, <1>2, <1>3 DEF Stronger, GateFails

\* Within the policies, a stronger alert is not answered less.
LEMMA ApplyPolicyIsMonotone ==
  ASSUME NEW a \in Alert, NEW b \in Alert, Stronger(a, b),
         NEW act, NEW set \in Seq(Policy), NEW gm \in GlobalModes
  PROVE  Rank[ApplyPolicy(a, act, set, gm).mode] \leq Rank[ApplyPolicy(b, act, set, gm).mode]
<1> DEFINE i == FirstPolicy(a, act, set)
           answer(x, p) == IF GateFails(p, x) THEN "record"
                           ELSE Preview(CapToTier(p.mode, act), gm)
<1>1. i = FirstPolicy(b, act, set)
  BY SamePolicyIsPicked DEF Stronger
<1>2. CASE i = 0
  <2>1. /\ ApplyPolicy(a, act, set, gm).mode = Preview(DefaultTierMode(act), gm)
        /\ ApplyPolicy(b, act, set, gm).mode = Preview(DefaultTierMode(act), gm)
    BY <1>1, <1>2 DEF ApplyPolicy, Decide
  <2>2. Preview(DefaultTierMode(act), gm) \in PolicyModes
    BY ModesCapped DEF PolicyModes
  <2>3. QED
    BY <2>1, <2>2 DEF PolicyModes, Rank
<1>3. CASE i # 0
  <2> DEFINE p == set[i]
  <2>1. p \in Policy
    BY <1>3, FirstPolicyApplies
  <2>2. /\ ApplyPolicy(a, act, set, gm).mode = answer(a, p)
        /\ ApplyPolicy(b, act, set, gm).mode = answer(b, p)
    BY <1>1, <1>3 DEF ApplyPolicy, Decide
  <2> HIDE DEF p
  <2>3. GateFails(p, b) => GateFails(p, a)
    BY <2>1, GatesAreMonotone
  <2>4. Preview(CapToTier(p.mode, act), gm) \in PolicyModes
    BY <2>1, PolicyTyped, ModesCapped
  <2>5. QED
    BY <2>2, <2>3, <2>4 DEF PolicyModes, Rank
<1>4. QED
  BY <1>2, <1>3

LEMMA HigherStaysOut ==
  ASSUME NEW x \in Int, NEW y \in Int, x \leq y, y \leq 16 \/ y = x, y \notin 0 .. 16
  PROVE  x \notin 0 .. 16
  OBVIOUS

\* A stronger alert is not answered less, whatever is asked of it.
THEOREM EvaluatePolicyIsMonotone ==
  ASSUME NEW a \in Alert, NEW b \in Alert, Stronger(a, b),
         NEW act \in ActionName, NEW set \in Seq(Policy), NEW m
  PROVE  Rank[EvaluatePolicy(a, act, set, m).mode] \leq Rank[EvaluatePolicy(b, act, set, m).mode]
<1> DEFINE gm == ClosedMode(m)
<1>1. gm \in GlobalModes
  BY ClosedModeIsClosed
<1>2. Malformed(b) => Malformed(a)
  <2>1. a.level \in Int /\ b.level \in Int
    BY DEF Alert
  <2>2. a.level \leq b.level /\ (b.level \leq 16 \/ b.level = a.level)
    BY Zenon DEF Stronger
  <2>3. ~ b.identified => ~ a.identified
    BY Zenon DEF Stronger
  <2>4. b.evidence.kind = "other" => a.evidence.kind = "other"
    BY DEF Stronger
  <2>5. QED
    BY <2>3, <2>4, HigherStaysOut, <2>1, <2>2, Zenon DEF Malformed
<1>3. CarriesMarker(a) <=> CarriesMarker(b)
  BY DEF Stronger
<1>4. CASE Malformed(a)
  <2>1. EvaluatePolicy(a, act, set, m).mode = "denied"
    BY <1>4 DEF EvaluatePolicy, Decide
  <2>2. EvaluatePolicy(b, act, set, m).mode \in DecisionModes
    BY DecisionGuardrails DEF Guarded, Decision
  <2>3. QED
    BY <2>1, <2>2 DEF DecisionModes, PolicyModes, Rank
<1>5. CASE ~ Malformed(a) /\ ~ Acceptable(a, act)
  <2>1. EvaluatePolicy(a, act, set, m) = EvaluatePolicy(b, act, set, m)
    BY <1>2, <1>3, <1>5 DEF EvaluatePolicy, Acceptable
  <2>2. EvaluatePolicy(b, act, set, m).mode \in DecisionModes
    BY DecisionGuardrails DEF Guarded, Decision
  <2>3. QED
    BY <2>1, <2>2 DEF DecisionModes, PolicyModes, Rank
<1>6. CASE Acceptable(a, act)
  <2>1. /\ EvaluatePolicy(a, act, set, m) = ApplyPolicy(a, act, set, gm)
        /\ EvaluatePolicy(b, act, set, m) = ApplyPolicy(b, act, set, gm)
    BY <1>2, <1>3, <1>6 DEF EvaluatePolicy, Acceptable
  <2>2. QED
    BY <1>1, <2>1, ApplyPolicyIsMonotone
<1>7. QED
  BY <1>4, <1>5, <1>6

-----------------------------------------------------------------------------
(* The global mode.                                                        *)

\* The decision in a mode other than enforce, from the decision in enforce.
Previewed(e) ==
  [e EXCEPT !.mode = IF @ = "approval" THEN "simulate" ELSE @, !.global_mode = "simulate"]

\* What it does to a decision, field by field.
LEMMA PreviewedFields ==
  ASSUME NEW e, NEW id, NEW act, NEW md, NEW sim, NEW aut, NEW cooldown,
         e = [policy_id |-> id, action |-> act, mode |-> md, global_mode |-> "enforce",
              simulate |-> sim, auto_execute |-> aut, cooldown |-> cooldown]
  PROVE  Previewed(e)
           = [policy_id |-> id, action |-> act,
              mode |-> IF md = "approval" THEN "simulate" ELSE md, global_mode |-> "simulate",
              simulate |-> sim, auto_execute |-> aut, cooldown |-> cooldown]
<1> DEFINE shown == IF md = "approval" THEN "simulate" ELSE md
           f == [e EXCEPT !.mode = shown]
<1>1. e.mode = md
  OBVIOUS
<1>2. Previewed(e) = [e EXCEPT !.mode = shown, !.global_mode = "simulate"]
  BY <1>1, Zenon DEF Previewed
<1> HIDE DEF shown
<1>3. [e EXCEPT !.mode = shown, !.global_mode = "simulate"] = [f EXCEPT !.global_mode = "simulate"]
  OBVIOUS
<1>4. f = [policy_id |-> id, action |-> act, mode |-> shown, global_mode |-> "enforce",
           simulate |-> sim, auto_execute |-> aut, cooldown |-> cooldown]
  OBVIOUS
<1> HIDE DEF f
<1>5. [f EXCEPT !.global_mode = "simulate"]
        = [policy_id |-> id, action |-> act, mode |-> shown, global_mode |-> "simulate",
           simulate |-> sim, auto_execute |-> aut, cooldown |-> cooldown]
  BY <1>4
<1>6. QED
  BY <1>2, <1>3, <1>5 DEF shown

\* One decision under the two modes.
LEMMA DecidePreviewed ==
  ASSUME NEW id, NEW act, NEW cooldown, NEW md
  PROVE  Decide(id, act, Preview(md, "simulate"), "simulate", cooldown)
           = Previewed(Decide(id, act, md, "enforce", cooldown))
<1> DEFINE e == Decide(id, act, md, "enforce", cooldown)
           shown == IF md = "approval" THEN "simulate" ELSE md
           sim == md \in {"simulate", "approval"}
           aut == (md = "auto")
<1>1. e = [policy_id |-> id, action |-> act, mode |-> md, global_mode |-> "enforce",
           simulate |-> sim, auto_execute |-> aut, cooldown |-> cooldown]
  BY DEF Decide
<1>2. Preview(md, "simulate") = shown
  BY DEF Preview
<1>3. sim = (shown \in {"simulate", "approval"}) /\ aut = (shown = "auto")
  OBVIOUS
<1> HIDE DEF e, shown, sim, aut
<1>4. Previewed(e) = [policy_id |-> id, action |-> act, mode |-> shown,
                      global_mode |-> "simulate", simulate |-> sim, auto_execute |-> aut,
                      cooldown |-> cooldown]
  BY <1>1, PreviewedFields DEF shown
<1>5. Decide(id, act, shown, "simulate", cooldown)
        = [policy_id |-> id, action |-> act, mode |-> shown, global_mode |-> "simulate",
           simulate |-> sim, auto_execute |-> aut, cooldown |-> cooldown]
  BY <1>3, Zenon DEF Decide
<1>6. QED
  BY <1>2, <1>4, <1>5, Zenon DEF e

\* A decision that is not an approval differs in the mode it was taken under.
LEMMA DecideUnpreviewed ==
  ASSUME NEW id, NEW act, NEW cooldown, NEW md, md # "approval"
  PROVE  Decide(id, act, md, "simulate", cooldown)
           = Previewed(Decide(id, act, md, "enforce", cooldown))
<1>1. Preview(md, "simulate") = md
  BY DEF Preview
<1>2. QED
  BY <1>1, DecidePreviewed, Zenon

\* Whatever the request, the mode previews approvals and does nothing else.
THEOREM ModeOnlyPreviews ==
  ASSUME NEW a, NEW act, NEW set \in Seq(Policy), NEW m, m # "enforce"
  PROVE  EvaluatePolicy(a, act, set, m) = Previewed(EvaluatePolicy(a, act, set, "enforce"))
<1>1. ClosedMode(m) = "simulate" /\ ClosedMode("enforce") = "enforce"
  BY DEF ClosedMode, GlobalModes, DEFAULT_GLOBAL_MODE
<1>2. ApplyPolicy(a, act, set, "simulate") = Previewed(ApplyPolicy(a, act, set, "enforce"))
  <2> DEFINE i == FirstPolicy(a, act, set)
  <2>1. CASE i = 0
    <3>1. Preview(DefaultTierMode(act), "enforce") = DefaultTierMode(act)
      BY DEF Preview
    <3>2. QED
      BY <2>1, <3>1, DecidePreviewed, Zenon DEF ApplyPolicy
  <2>2. CASE i # 0 /\ GateFails(set[i], a)
    <3>1. \A gm : ApplyPolicy(a, act, set, gm)
                   = Decide(set[i].policy_id, act, "record", gm, set[i].cooldown)
      BY <2>2 DEF ApplyPolicy
    <3>2. "record" # "approval"
      OBVIOUS
    <3>3. QED
      BY <3>1, <3>2, DecideUnpreviewed, Zenon
  <2>3. CASE i # 0 /\ ~ GateFails(set[i], a)
    <3> DEFINE md == CapToTier(set[i].mode, act)
    <3>1. \A gm : ApplyPolicy(a, act, set, gm)
                   = Decide(set[i].policy_id, act, Preview(md, gm), gm, set[i].cooldown)
      BY <2>3 DEF ApplyPolicy
    <3>2. Preview(md, "enforce") = md
      BY DEF Preview
    <3> HIDE DEF md
    <3>3. QED
      BY <3>1, <3>2, DecidePreviewed, Zenon
  <2>4. QED
    BY <2>1, <2>2, <2>3
<1>3. CASE Acceptable(a, act)
  BY <1>1, <1>2, <1>3 DEF EvaluatePolicy, Acceptable
<1>4. CASE ~ Acceptable(a, act)
  <2>1. PICK id \in {"validation", "default-tier", "loop-guard"}, md \in {"denied", "record"} :
          /\ EvaluatePolicy(a, act, set, m) = Decide(id, act, md, ClosedMode(m), 0)
          /\ EvaluatePolicy(a, act, set, "enforce") = Decide(id, act, md, ClosedMode("enforce"), 0)
    BY <1>4, Zenon DEF EvaluatePolicy, Acceptable
  <2>2. md # "approval"
    OBVIOUS
  <2>3. QED
    <3>1. EvaluatePolicy(a, act, set, m) = Decide(id, act, md, "simulate", 0)
      BY <1>1, <2>1
    <3>2. EvaluatePolicy(a, act, set, "enforce") = Decide(id, act, md, "enforce", 0)
      BY <1>1, <2>1
    <3>3. Decide(id, act, md, "simulate", 0) = Previewed(Decide(id, act, md, "enforce", 0))
      BY <2>2, DecideUnpreviewed
    <3>4. QED
      BY <3>1, <3>2, <3>3, Zenon
<1>5. QED
  BY <1>3, <1>4

-----------------------------------------------------------------------------
(* Policies for other actions.                                             *)

\* What an insertion leaves where.
LEMMA Insertion ==
  ASSUME NEW set \in Seq(Policy), NEW i \in 1 .. Len(set) + 1, NEW p \in Policy
  PROVE  LET t == InsertAt(set, i, p) IN
         /\ t \in Seq(Policy) /\ Len(t) = Len(set) + 1 /\ t[i] = p
         /\ \A x \in 1 .. i - 1 : t[x] = set[x]
         /\ \A x \in i + 1 .. Len(set) + 1 : t[x] = set[x - 1]
<1> DEFINE before == SubSeq(set, 1, i - 1)
           after == SubSeq(set, i, Len(set))
<1>1. /\ before \in Seq(Policy) /\ Len(before) = i - 1
      /\ \A x \in 1 .. i - 1 : before[x] = set[x]
  OBVIOUS
<1>2. /\ after \in Seq(Policy) /\ Len(after) = Len(set) - i + 1
      /\ \A x \in 1 .. Len(set) - i + 1 : after[x] = set[i + x - 1]
  OBVIOUS
<1>3. InsertAt(set, i, p) = (before \o <<p>>) \o after
  BY DEF InsertAt
<1>4. Len(set) \in Nat
  OBVIOUS
<1> HIDE DEF before, after
<1> DEFINE most == before \o <<p>>
<1>5. /\ most \in Seq(Policy) /\ Len(most) = i /\ most[i] = p
      /\ \A x \in 1 .. i - 1 : most[x] = set[x]
  BY <1>1
<1> HIDE DEF most
<1> DEFINE t == most \o after
<1>6. t \in Seq(Policy) /\ Len(t) = Len(set) + 1
  BY <1>2, <1>4, <1>5
<1>7. \A x \in 1 .. i : t[x] = most[x]
  BY <1>2, <1>5
<1>8. ASSUME NEW x \in i + 1 .. Len(set) + 1 PROVE t[x] = set[x - 1]
  <2>1. t[x] = after[x - i]
    BY <1>2, <1>4, <1>5
  <2>2. x - i \in 1 .. Len(set) - i + 1 /\ i + (x - i) - 1 = x - 1
    BY <1>4
  <2>3. QED
    BY <1>2, <2>1, <2>2
<1>9. t = InsertAt(set, i, p)
  BY <1>3 DEF most
<1> HIDE DEF t
<1>10. QED
  BY <1>4, <1>5, <1>6, <1>7, <1>8, <1>9

\* The policy that is picked is the same one, wherever it now stands.
LEMMA ForeignPolicyIsPassed ==
  ASSUME NEW a, NEW act, NEW set \in Seq(Policy), NEW i \in 1 .. Len(set) + 1,
         NEW p \in Policy, p.action # act
  PROVE  LET t == InsertAt(set, i, p)
             j == FirstPolicy(a, act, set)
             k == FirstPolicy(a, act, t)
         IN  (j = 0 <=> k = 0) /\ (j # 0 => t[k] = set[j])
<1> DEFINE t == InsertAt(set, i, p)
           j == FirstPolicy(a, act, set)
           k == FirstPolicy(a, act, t)
           Hit(x) == Matches(x, a) /\ x.action = act
<1>1. /\ t \in Seq(Policy) /\ Len(t) = Len(set) + 1 /\ t[i] = p
      /\ \A x \in 1 .. i - 1 : t[x] = set[x]
      /\ \A x \in i + 1 .. Len(set) + 1 : t[x] = set[x - 1]
  BY Insertion
<1>2. \/ j = 0 /\ \A x \in 1 .. Len(set) : ~ Hit(set[x])
      \/ j \in 1 .. Len(set) /\ Hit(set[j]) /\ \A x \in 1 .. j - 1 : ~ Hit(set[x])
  BY FirstPolicyApplies
<1>10. t \in Seq(Policy)
  BY <1>1
<1> HIDE DEF t
<1>3. \/ k = 0 /\ \A x \in 1 .. Len(t) : ~ Hit(t[x])
      \/ k \in 1 .. Len(t) /\ Hit(t[k]) /\ \A x \in 1 .. k - 1 : ~ Hit(t[x])
  BY <1>10, FirstPolicyApplies
<1>4. ~ Hit(p) /\ Len(set) \in Nat
  OBVIOUS
<1> HIDE DEF j, k, Hit
<1>5. CASE j = 0
  <2>1. \A x \in 1 .. Len(t) : ~ Hit(t[x])
    <3>1. SUFFICES ASSUME NEW x \in 1 .. Len(t) PROVE ~ Hit(t[x])
      OBVIOUS
    <3>2. CASE x < i
      BY <1>1, <1>2, <1>4, <1>5, <3>2
    <3>3. CASE x = i
      BY <1>1, <1>4, <3>3
    <3>4. CASE x > i
      <4>1. x \in i + 1 .. Len(set) + 1 /\ x - 1 \in 1 .. Len(set)
        BY <1>1, <1>4, <3>4
      <4>2. QED
        BY <1>1, <1>2, <1>5, <4>1
    <3>5. QED
      BY <1>4, <3>2, <3>3, <3>4
  <2>2. QED
    BY <1>3, <1>5, <2>1 DEF t, j, k
<1>6. CASE j # 0
  <2> DEFINE jj == IF j < i THEN j ELSE j + 1
  <2>1. j \in 1 .. Len(set) /\ Hit(set[j]) /\ \A x \in 1 .. j - 1 : ~ Hit(set[x])
    BY <1>2, <1>6
  <2>2. jj \in 1 .. Len(t) /\ t[jj] = set[j]
    <3>1. CASE j < i
      BY <1>1, <1>4, <2>1, <3>1
    <3>2. CASE ~ (j < i)
      <4>1. j + 1 \in i + 1 .. Len(set) + 1 /\ (j + 1) - 1 = j
        BY <1>4, <2>1, <3>2
      <4>2. QED
        BY <1>1, <1>4, <2>1, <3>2, <4>1
    <3>3. QED
      BY <3>1, <3>2
  <2>3. ASSUME NEW x \in 1 .. jj - 1 PROVE ~ Hit(t[x])
    <3>1. CASE x < i
      <4>1. x \in 1 .. i - 1 /\ x \in 1 .. j - 1
        BY <1>4, <2>1, <2>3, <3>1
      <4>2. QED
        BY <1>1, <2>1, <4>1
    <3>2. CASE x = i
      BY <1>1, <1>4, <3>2
    <3>3. CASE x > i
      <4>1. x \in i + 1 .. Len(set) + 1 /\ x - 1 \in 1 .. j - 1
        BY <1>4, <2>1, <2>3, <3>3
      <4>2. QED
        BY <1>1, <2>1, <4>1
    <3>4. QED
      BY <2>1, <2>3, <3>1, <3>2, <3>3
  <2> HIDE DEF jj
  <2>4. k = jj
    <3>1. Len(t) \in Nat
      BY <1>1
    <3>2. Hit(t[jj])
      BY <2>1, <2>2
    <3>3. QED
      BY <1>3, <2>2, <2>3, <3>1, <3>2
  <2>5. jj # 0
    BY <2>2
  <2>6. QED
    BY <1>6, <2>2, <2>4, <2>5 DEF t, j, k
<1>7. QED
  BY <1>5, <1>6

\* Whatever the request, a policy for another action changes nothing.
THEOREM ForeignPolicyChangesNothing ==
  ASSUME NEW a, NEW act, NEW set \in Seq(Policy), NEW i \in 1 .. Len(set) + 1,
         NEW p \in Policy, p.action # act, NEW m
  PROVE  EvaluatePolicy(a, act, InsertAt(set, i, p), m) = EvaluatePolicy(a, act, set, m)
<1>1. ASSUME NEW gm
      PROVE  ApplyPolicy(a, act, InsertAt(set, i, p), gm) = ApplyPolicy(a, act, set, gm)
  BY ForeignPolicyIsPassed DEF ApplyPolicy
<1>2. QED
  BY <1>1 DEF EvaluatePolicy

-----------------------------------------------------------------------------
(* The review.                                                             *)

LEMMA ReviewInductive ==
  ASSUME ReviewInv, [Next]_vars
  PROVE  ReviewInv'
<1>1. CASE LearnMore
  <2>1. alert' \in Alert
    BY <1>1, LearningStrengthens
  <2>2. QED
    BY <1>1, <2>1 DEF LearnMore, ReviewInv, AnyMode
<1>2. CASE SwitchMode
  BY <1>2 DEF SwitchMode, ReviewInv, AnyMode
<1>3. CASE AddForeignPolicy
  <2>1. PICK p \in ExtraPolicies, i \in 1 .. Len(policies) + 1 :
          policies' = InsertAt(policies, i, p)
    BY <1>3 DEF AddForeignPolicy
  <2>2. p \in Policy
    BY BoundsAssumption
  <2>3. policies' \in Seq(Policy)
    BY <2>1, <2>2, Insertion DEF ReviewInv
  <2>4. QED
    BY <1>3, <2>3 DEF AddForeignPolicy, ReviewInv, AnyMode
<1>4. CASE UNCHANGED vars
  BY <1>4 DEF vars, ReviewInv, AnyMode
<1>5. QED
  BY <1>1, <1>2, <1>3, <1>4 DEF Next

LEMMA ReviewAlways == Spec => []ReviewInv
<1>1. Init => ReviewInv
  BY BoundsAssumption DEF Init, ReviewInv
<1>2. QED
  BY <1>1, ReviewInductive, PTL DEF Spec

\* Every review asks a sound question and gets a decision.
THEOREM ReviewIsTyped == Spec => []ReviewTypeOK
<1>1. ReviewInv => ReviewTypeOK
  <2>1. ReviewInv => Verdict(alert, mode) \in Decision
    BY DecisionGuardrails DEF ReviewInv, Verdict, Guarded
  <2>2. QED
    BY <2>1 DEF ReviewInv, ReviewTypeOK
<1>2. QED
  BY <1>1, ReviewAlways, PTL

\* Knowing more about an alert never weakens the answer.
THEOREM StrongerIsNeverLess == Spec => StrongerAlertNeverAnsweredLess
<1>1. ReviewInv => (LearnMore => Rank[Verdict(alert, mode).mode]
                                   \leq Rank[EvaluatePolicy(alert', action, policies, mode).mode])
  <2>1. SUFFICES ASSUME ReviewInv, LearnMore
                 PROVE  Rank[Verdict(alert, mode).mode]
                          \leq Rank[EvaluatePolicy(alert', action, policies, mode).mode]
    OBVIOUS
  <2>2. PICK b : b = alert'
    OBVIOUS
  <2>3. b \in Alert /\ Stronger(alert, b)
    BY <2>1, <2>2, LearningStrengthens
  <2>4. Rank[EvaluatePolicy(alert, action, policies, mode).mode]
          \leq Rank[EvaluatePolicy(b, action, policies, mode).mode]
    BY <2>1, <2>3, EvaluatePolicyIsMonotone DEF ReviewInv
  <2>5. QED
    BY <2>2, <2>4 DEF Verdict
<1>2. QED
  BY <1>1, ReviewAlways, PTL DEF StrongerAlertNeverAnsweredLess

\* A switch of the global mode previews approvals, and changes nothing else.
THEOREM SwitchOnlyPreviews == Spec => ModeSwitchOnlyPreviews
<1> DEFINE Only == LET e == Verdict(alert, "enforce")
                       s == Verdict(alert, mode')
                   IN  mode' # "enforce" =>
                         s = [e EXCEPT !.mode = IF @ = "approval" THEN "simulate" ELSE @,
                                       !.global_mode = "simulate"]
<1>1. ReviewInv => (SwitchMode => Only)
  <2>1. SUFFICES ASSUME ReviewInv PROVE Only
    OBVIOUS
  <2>2. PICK m : m = mode'
    OBVIOUS
  <2>3. m # "enforce" => EvaluatePolicy(alert, action, policies, m)
                           = Previewed(EvaluatePolicy(alert, action, policies, "enforce"))
    BY <2>1, ModeOnlyPreviews DEF ReviewInv
  <2>4. QED
    BY <2>2, <2>3 DEF Verdict, Previewed
<1> HIDE DEF Only
<1>2. QED
  BY <1>1, ReviewAlways, PTL DEF ModeSwitchOnlyPreviews, Only

\* A policy for another action has no say, wherever it is put.
THEOREM ForeignPoliciesHaveNoSay == Spec => ForeignPolicyHasNoSay
<1>1. ReviewInv => (AddForeignPolicy =>
                      EvaluatePolicy(alert, action, policies', mode) = Verdict(alert, mode))
  <2>1. SUFFICES ASSUME ReviewInv, AddForeignPolicy
                 PROVE  EvaluatePolicy(alert, action, policies', mode) = Verdict(alert, mode)
    OBVIOUS
  <2>2. PICK p \in ExtraPolicies, i \in 1 .. Len(policies) + 1 :
          p.action # action /\ policies' = InsertAt(policies, i, p)
    BY <2>1 DEF AddForeignPolicy
  <2>3. p \in Policy
    BY BoundsAssumption
  <2>4. EvaluatePolicy(alert, action, InsertAt(policies, i, p), mode)
          = EvaluatePolicy(alert, action, policies, mode)
    BY <2>1, <2>2, <2>3, ForeignPolicyChangesNothing DEF ReviewInv
  <2>5. QED
    BY <2>2, <2>4 DEF Verdict
<1>2. QED
  BY <1>1, ReviewAlways, PTL DEF ForeignPolicyHasNoSay
=============================================================================
