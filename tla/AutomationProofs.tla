-------------------------- MODULE AutomationProofs --------------------------
(***************************************************************************)
(* Theorems about evaluate_policy and derive_response_status, for every    *)
(* alert, action, policy set and global mode.                              *)
(***************************************************************************)
EXTENDS Automation, WellFoundedInduction, TLAPS

-----------------------------------------------------------------------------
(* Selecting the first element of a sequence.                              *)

LEMMA NatMin ==
  ASSUME NEW S, S \subseteq Nat, S # {}
  PROVE  Min(S) \in S /\ \A y \in S : Min(S) \leq y
<1>1. \E x \in S : \A y \in S : ~ (<<y, x>> \in OpToRel(<, Nat))
  BY NatLessThanWellFounded, WFMin, Zenon
<1>2. PICK x \in S : \A y \in S : ~ (<<y, x>> \in OpToRel(<, Nat))
  BY <1>1
<1>3. ASSUME NEW y \in S PROVE x \leq y
  <2>1. ~ (<<y, x>> \in {ss \in Nat \X Nat : ss[1] < ss[2]})
    BY <1>2, <1>3 DEF OpToRel
  <2>2. <<y, x>> \in Nat \X Nat
    BY <1>3
  <2>3. ~ (y < x)
    BY <2>1, <2>2
  <2> QED
    BY <2>3, <1>3
<1> QED
  BY <1>3 DEF Min

\* The policy evaluate_policy picks applies, and no earlier one does.
LEMMA FirstPolicyApplies ==
  ASSUME NEW alert, NEW action, NEW policies \in Seq(Policy)
  PROVE  LET i == FirstPolicy(alert, action, policies) IN
         \/ /\ i = 0
            /\ \A j \in 1 .. Len(policies) :
                 ~ (Matches(policies[j], alert) /\ policies[j].action = action)
         \/ /\ i \in 1 .. Len(policies)
            /\ Matches(policies[i], alert) /\ policies[i].action = action
            /\ \A j \in 1 .. i - 1 :
                 ~ (Matches(policies[j], alert) /\ policies[j].action = action)
<1> DEFINE Applies(p) == Matches(p, alert) /\ p.action = action
           I == {j \in 1 .. Len(policies) : Applies(policies[j])}
           i == FirstPolicy(alert, action, policies)
<1>1. i = IF I # {} THEN Min(I) ELSE 0
  BY DEF FirstPolicy, SelectInSeq
<1>2. CASE I = {}
  BY <1>1, <1>2
<1>3. CASE I # {}
  <2>1. I \subseteq Nat
    OBVIOUS
  <2>2. i \in I /\ \A y \in I : i \leq y
    BY <1>1, <1>3, <2>1, NatMin
  <2>3. i \in 1 .. Len(policies) /\ Applies(policies[i])
    BY <2>2
  <2>4. ASSUME NEW j \in 1 .. i - 1 PROVE ~ Applies(policies[j])
    <3>1. j \in 1 .. Len(policies) /\ ~ (i \leq j)
      BY <2>3
    <3> QED
      BY <2>2, <3>1
  <2> QED
    BY <2>3, <2>4
<1> QED
  BY <1>2, <1>3

LEMMA PolicyTyped ==
  ASSUME NEW p \in Policy
  PROVE  /\ p.mode \in PolicyModes
         /\ p.policy_id \in DeciderId
         /\ p.cooldown \in Nat
<1>1. p \in PolicyFields
  BY DEF Policy
<1> QED
  BY <1>1 DEF PolicyFields, DeciderId

-----------------------------------------------------------------------------
(* Decisions.                                                              *)

LEMMA ModesCapped ==
  ASSUME NEW m \in PolicyModes, NEW action, NEW gm \in GlobalModes
  PROVE  /\ Preview(CapToTier(m, action), gm) \in PolicyModes
         /\ Preview(CapToTier(m, action), gm) = "auto"
              => ClassifyTier(action) = "AUTO_SAFE"
         /\ Preview(CapToTier(m, action), gm) = "approval" => gm = "enforce"
         /\ Preview(DefaultTierMode(action), gm) \in PolicyModes
         /\ Preview(DefaultTierMode(action), gm) = "auto"
              => ClassifyTier(action) = "AUTO_SAFE"
         /\ Preview(DefaultTierMode(action), gm) = "approval" => gm = "enforce"
BY DEF Preview, CapToTier, DefaultTierMode, PolicyModes, GlobalModes

LEMMA ClosedModeIsClosed ==
  ASSUME NEW global_mode
  PROVE  /\ ClosedMode(global_mode) \in GlobalModes
         /\ ClosedMode(global_mode) = "enforce" => global_mode = "enforce"
BY DEF ClosedMode, GlobalModes, DEFAULT_GLOBAL_MODE

\* The guardrails of the module docstring, said of one decision: it is well
\* formed, auto is for AUTO_SAFE actions, an approval is staged only in global
\* mode enforce, and only a sound request for a closed action is answered.
Guarded(d, alert, action, global_mode) ==
  /\ d \in Decision
  /\ d.simulate = (d.mode \in {"simulate", "approval"})
  /\ d.auto_execute = (d.mode = "auto")
  /\ d.mode = "auto" => ClassifyTier(action) = "AUTO_SAFE"
  /\ d.mode = "approval" => global_mode = "enforce"
  /\ d.mode \in {"simulate", "approval", "auto"} =>
       action \in ClosedActions /\ ~ Malformed(alert) /\ ~ CarriesMarker(alert)

Acceptable(alert, action) ==
  /\ ~ Malformed(alert) /\ action # NoAction
  /\ action \in ClosedActions /\ ~ CarriesMarker(alert)

LEMMA DecideIsGuarded ==
  ASSUME NEW alert, NEW action \in ActionName, NEW global_mode,
         NEW gm \in GlobalModes, gm = "enforce" => global_mode = "enforce",
         NEW id \in DeciderId, NEW m \in DecisionModes, NEW cooldown \in Nat,
         m = "auto" => ClassifyTier(action) = "AUTO_SAFE",
         m = "approval" => gm = "enforce",
         m \in {"denied", "record"} \/ Acceptable(alert, action)
  PROVE  Guarded(Decide(id, action, m, gm, cooldown), alert, action, global_mode)
BY DEF Guarded, Decide, Decision, DecisionModes, PolicyModes, Acceptable

\* What ApplyPolicy decides once the request itself is acceptable.
LEMMA ApplyPolicyIsGuarded ==
  ASSUME NEW alert, NEW action \in ActionName, NEW policies \in Seq(Policy),
         NEW global_mode, NEW gm \in GlobalModes,
         gm = "enforce" => global_mode = "enforce", Acceptable(alert, action)
  PROVE  Guarded(ApplyPolicy(alert, action, policies, gm), alert, action, global_mode)
<1> DEFINE i == FirstPolicy(alert, action, policies)
<1>2. CASE i = 0
  <2> DEFINE m == Preview(DefaultTierMode(action), gm)
  <2>1. ApplyPolicy(alert, action, policies, gm)
          = Decide("default-tier", action, m, gm, DEFAULT_TIER_COOLDOWN_SECONDS)
    BY <1>2 DEF ApplyPolicy
  <2>2. /\ m \in DecisionModes
        /\ m = "auto" => ClassifyTier(action) = "AUTO_SAFE"
        /\ m = "approval" => gm = "enforce"
    BY ModesCapped DEF DecisionModes, PolicyModes
  <2>3. DEFAULT_TIER_COOLDOWN_SECONDS \in Nat /\ "default-tier" \in DeciderId
    BY DEF DEFAULT_TIER_COOLDOWN_SECONDS, DeciderId
  <2> HIDE DEF m
  <2> QED
    BY <2>1, <2>2, <2>3, DecideIsGuarded
<1>3. CASE i # 0
  <2> DEFINE p == policies[i]
             m == IF GateFails(p, alert) THEN "record"
                  ELSE Preview(CapToTier(p.mode, action), gm)
  <2>1. p \in Policy
    BY <1>3, FirstPolicyApplies
  <2>2. ApplyPolicy(alert, action, policies, gm)
          = Decide(p.policy_id, action, m, gm, p.cooldown)
    BY <1>3 DEF ApplyPolicy
  <2>3. p.mode \in PolicyModes /\ p.policy_id \in DeciderId /\ p.cooldown \in Nat
    BY <2>1, PolicyTyped
  <2>4. /\ m \in DecisionModes
        /\ m = "auto" => ClassifyTier(action) = "AUTO_SAFE"
        /\ m = "approval" => gm = "enforce"
    BY <2>3, ModesCapped DEF DecisionModes, PolicyModes
  <2> HIDE DEF m, p
  <2> QED
    BY <2>2, <2>3, <2>4, DecideIsGuarded
<1> QED
  BY <1>2, <1>3

\* The guardrails hold for every alert, action, policy set and global mode: no
\* policy configuration can lift them (automation.py:11-28, 228-305).
THEOREM DecisionGuardrails ==
  ASSUME NEW alert, NEW action \in ActionName, NEW policies \in Seq(Policy),
         NEW global_mode
  PROVE  Guarded(EvaluatePolicy(alert, action, policies, global_mode),
                 alert, action, global_mode)
<1> DEFINE gm == ClosedMode(global_mode)
<1>1. gm \in GlobalModes /\ (gm = "enforce" => global_mode = "enforce")
  BY ClosedModeIsClosed
<1>2. CASE Acceptable(alert, action)
  <2>1. EvaluatePolicy(alert, action, policies, global_mode)
          = ApplyPolicy(alert, action, policies, gm)
    BY <1>2 DEF EvaluatePolicy, Acceptable
  <2> HIDE DEF gm
  <2> QED
    BY <1>1, <1>2, <2>1, ApplyPolicyIsGuarded
<1>3. CASE ~ Acceptable(alert, action)
  <2>1. \E id \in {"validation", "default-tier", "loop-guard"}, m \in {"denied", "record"} :
          EvaluatePolicy(alert, action, policies, global_mode) = Decide(id, action, m, gm, 0)
    BY <1>3 DEF EvaluatePolicy, Acceptable
  <2>2. PICK id \in {"validation", "default-tier", "loop-guard"}, m \in {"denied", "record"} :
          EvaluatePolicy(alert, action, policies, global_mode) = Decide(id, action, m, gm, 0)
    BY <2>1
  <2>3. m \in DecisionModes /\ id \in DeciderId /\ m # "auto" /\ m # "approval"
    BY DEF DecisionModes, PolicyModes, DeciderId
  <2> HIDE DEF gm
  <2> QED
    BY <1>1, <2>2, <2>3, DecideIsGuarded
<1> QED
  BY <1>2, <1>3

\* An alert passes every gate of a policy; a confidence that is NaN passes the
\* one for confidences, and is all that does besides a number that is high enough.
PassesGates(policy, alert) ==
  /\ Matches(policy, alert)
  /\ policy.min_level <= alert.level /\ alert.level \in 0 .. 16
  /\ policy.min_confidence # NoMinimum =>
       \/ alert.confidence.kind = "nan"
       \/ alert.confidence.kind = "number" /\ policy.min_confidence <= alert.confidence.percent
  /\ policy.required \subseteq EvidenceKeys(alert)
  /\ alert.source \in policy.sources
  /\ policy.hosts # {} => alert.host_id \in policy.hosts

\* Nothing is previewed, staged or started past the gates: either no policy for the
\* action matches the alert and the tier decides, or the alert passes every gate of
\* the first one that does, whatever later ones would say (automation.py:207-226,
\* 271-305).  A NaN confidence is the only exception, and it is explicit.
THEOREM GatesAreKept ==
  ASSUME NEW alert \in Alert, NEW action \in ActionName, NEW policies \in Seq(Policy),
         NEW global_mode,
         EvaluatePolicy(alert, action, policies, global_mode).mode
           \in {"simulate", "approval", "auto"}
  PROVE  LET d == EvaluatePolicy(alert, action, policies, global_mode)
             ForIt(j) == Matches(policies[j], alert) /\ policies[j].action = action
         IN \/ /\ \A j \in 1 .. Len(policies) : ~ ForIt(j)
               /\ d.policy_id = "default-tier"
            \/ \E i \in 1 .. Len(policies) :
                 /\ ForIt(i) /\ \A j \in 1 .. i - 1 : ~ ForIt(j)
                 /\ PassesGates(policies[i], alert)
                 /\ d.policy_id = policies[i].policy_id /\ policies[i].mode # "record"
<1>. DEFINE d == EvaluatePolicy(alert, action, policies, global_mode)
            gm == ClosedMode(global_mode)
            i == FirstPolicy(alert, action, policies)
            ForIt(j) == Matches(policies[j], alert) /\ policies[j].action = action
<1>1. Acceptable(alert, action) /\ d = ApplyPolicy(alert, action, policies, gm)
  BY DEF EvaluatePolicy, Acceptable, Decide
<1>2. CASE i = 0
  <2>1. d.policy_id = "default-tier"
    BY <1>1, <1>2 DEF ApplyPolicy, Decide
  <2>. QED
    BY <1>2, <2>1, FirstPolicyApplies
<1>3. CASE i # 0
  <2>1. i \in 1 .. Len(policies) /\ ForIt(i) /\ \A j \in 1 .. i - 1 : ~ ForIt(j)
    BY <1>3, FirstPolicyApplies
  <2>2. PICK p \in Policy : p = policies[i]
    BY <2>1
  <2>3. d = Decide(p.policy_id, action,
                   IF GateFails(p, alert) THEN "record" ELSE Preview(CapToTier(p.mode, action), gm),
                   gm, p.cooldown)
    BY <1>1, <1>3, <2>2 DEF ApplyPolicy
  <2>4. ~ GateFails(p, alert) /\ d.policy_id = p.policy_id
    BY <2>3 DEF Decide
  <2>5. p.mode # "record"
    BY <2>3, <2>4 DEF Decide, CapToTier, Preview
  <2>6. PassesGates(p, alert)
    <3>1. /\ alert.level \in Int /\ alert.level \in 0 .. 16
          /\ alert.confidence.kind \in {"number", "nan", "none"}
          /\ alert.confidence.percent \in Int
      BY <1>1 DEF Alert, Acceptable, Malformed
    <3>2. p.min_level \in Int /\ p.min_confidence \in Int
      BY DEF Policy, PolicyFields
    <3>. QED
      BY <2>1, <2>2, <2>4, <3>1, <3>2 DEF PassesGates, GateFails, ConfidenceGateFails
  <2>. QED
    BY <2>1, <2>2, <2>4, <2>5, <2>6
<1>. QED
  BY <1>2, <1>3

-----------------------------------------------------------------------------
(* Statuses.                                                               *)

\* The derived status is one of the items' statuses, and none of theirs comes
\* earlier in the order of precedence.
LEMMA StatusIsStrongest ==
  ASSUME NEW items, NEW item \in items, NEW k \in 1 .. 7,
         ItemStatus(item) = Precedence[k]
  PROVE  \E i \in 1 .. k, it \in items :
           /\ DeriveResponseStatus(items, "open") = Precedence[i]
           /\ ItemStatus(it) = Precedence[i]
<1> DEFINE found == {ItemStatus(it) : it \in items}
           I == {i \in 1 .. Len(Precedence) : Precedence[i] \in found}
<1>1. Len(Precedence) = 7
  BY DEF Precedence
<1>2. k \in I
  BY <1>1
<1>3. I \subseteq Nat /\ I # {}
  BY <1>2
<1>4. Min(I) \in I /\ Min(I) \leq k
  BY <1>2, <1>3, NatMin
<1>5. SelectInSeq(Precedence, LAMBDA s : s \in found) = Min(I)
  BY <1>3 DEF SelectInSeq
<1>6. Min(I) # 0 /\ Min(I) \in 1 .. k
  BY <1>1, <1>4
<1>7. DeriveResponseStatus(items, "open") = Precedence[Min(I)]
  BY <1>5, <1>6 DEF DeriveResponseStatus
<1>8. PICK it \in items : ItemStatus(it) = Precedence[Min(I)]
  BY <1>4
<1> QED
  BY <1>6, <1>7, <1>8

\* A containment that was sent, however it ended, keeps the incident among the
\* four statuses that say so, whatever the other items are.
THEOREM SentContainmentShows ==
  ASSUME NEW items, NEW item \in items,
         item.action \in CONTAINMENT_ACTIONS,
         item.command \in {"AUTHORIZED", "DISPATCHED", "ACCEPTED", "SUCCEEDED",
                           "FAILED", "REJECTED", "INDETERMINATE", "EXPIRED"}
  PROVE  DeriveResponseStatus(items, "open") \in
           {"contained", "containment_unverified", "containment_failed",
            "response_executing"}
<1>1. PICK k \in 1 .. 4 : ItemStatus(item) = Precedence[k]
  BY DEF ItemStatus, Precedence
<1>2. PICK i \in 1 .. k : DeriveResponseStatus(items, "open") = Precedence[i]
  BY <1>1, StatusIsStrongest
<1>3. i \in {1, 2, 3, 4}
  BY <1>2
<1> QED
  BY <1>2, <1>3 DEF Precedence

\* "contained" comes from an item that is.
LEMMA ContainedHasItem ==
  ASSUME NEW items, DeriveResponseStatus(items, "open") = "contained"
  PROVE  \E it \in items : ItemStatus(it) = "contained"
<1> DEFINE found == {ItemStatus(it) : it \in items}
           I == {i \in 1 .. Len(Precedence) : Precedence[i] \in found}
<1>1. Len(Precedence) = 7 /\ I \subseteq 1 .. 7
  BY DEF Precedence
<1>2. CASE I = {}
  <2>1. SelectInSeq(Precedence, LAMBDA s : s \in found) = 0
    BY <1>2 DEF SelectInSeq
  <2> QED
    BY <2>1 DEF DeriveResponseStatus
<1>3. CASE I # {}
  <2>1. Min(I) \in I
    BY <1>1, <1>3, NatMin
  <2>2. SelectInSeq(Precedence, LAMBDA s : s \in found) = Min(I)
    BY <1>3 DEF SelectInSeq
  <2>3. DeriveResponseStatus(items, "open") = Precedence[Min(I)]
    BY <1>1, <2>1, <2>2 DEF DeriveResponseStatus
  <2> QED
    BY <2>1, <2>3
<1> QED
  BY <1>2, <1>3
=============================================================================
