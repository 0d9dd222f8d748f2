---------------------------- MODULE PolicyReview ----------------------------
(***************************************************************************)
(* One alert and its translated action, reviewed under changes: the        *)
(* detection learns more about the alert, the operator switches the global *)
(* mode, somebody adds a policy for another action.  A step compares the   *)
(* decision evaluate_policy takes before the change with the one it takes  *)
(* after, over every reachable combination of alert, action, policy set    *)
(* and mode: the properties here are about pairs of calls.                 *)
(***************************************************************************)
EXTENDS Automation

CONSTANTS
  Levels,          \* the alert levels considered, 17 standing for a bad one
  Percents,        \* the confidence values considered
  Keys,            \* the evidence keys considered
  FirstAlerts,     \* the alerts a review starts from
  Candidates,      \* the command actions considered, NoAction included
  PolicySets,      \* the policy sets a review starts from
  ExtraPolicies,   \* the policies that may be added
  MaxPolicies      \* bound on the length of the policy set

VARIABLES alert, action, policies, mode

vars == <<alert, action, policies, mode>>

ASSUME BoundsAssumption ==
  /\ FirstAlerts \subseteq Alert
  /\ Levels \subseteq Int /\ Percents \subseteq 0 .. 100 /\ Keys \subseteq STRING
  /\ Candidates \subseteq ActionName
  /\ PolicySets \subseteq Seq(Policy) /\ ExtraPolicies \subseteq Policy
  /\ MaxPolicies \in Nat

AnyMode == GlobalModes \cup {"misconfigured"}

Verdict(a, m) == EvaluatePolicy(a, action, policies, m)

Init ==
  /\ alert \in FirstAlerts
  /\ action \in Candidates
  /\ policies \in PolicySets
  /\ mode \in AnyMode

\* A higher level, a first or a higher confidence, or one more evidence key.
RaiseLevel ==
  \E l \in Levels :
    /\ alert.level < l /\ l \leq 16
    /\ alert' = [alert EXCEPT !.level = l]

RaiseConfidence ==
  \E p \in Percents :
    /\ alert.confidence.kind = "number" => alert.confidence.percent < p
    /\ alert.confidence.kind # "nan"
    /\ alert' = [alert EXCEPT !.confidence = [kind |-> "number", percent |-> p]]

AddEvidence ==
  \E k \in Keys \ EvidenceKeys(alert) :
    /\ alert.evidence.kind # "other"
    /\ alert' = [alert EXCEPT !.evidence =
                   [kind |-> "mapping", keys |-> EvidenceKeys(alert) \cup {k},
                    marker |-> CarriesMarker(alert)]]

LearnMore ==
  /\ RaiseLevel \/ RaiseConfidence \/ AddEvidence
  /\ UNCHANGED <<action, policies, mode>>

SwitchMode ==
  /\ mode' \in AnyMode \ {mode}
  /\ UNCHANGED <<alert, action, policies>>

AddForeignPolicy ==
  /\ Len(policies) < MaxPolicies
  /\ \E p \in ExtraPolicies, i \in 1 .. Len(policies) + 1 :
       /\ p.action # action
       /\ policies' = InsertAt(policies, i, p)
  /\ UNCHANGED <<alert, action, mode>>

Next == LearnMore \/ SwitchMode \/ AddForeignPolicy

Spec == Init /\ [][Next]_vars

-----------------------------------------------------------------------------
ReviewTypeOK ==
  /\ alert \in Alert
  /\ mode \in AnyMode
  /\ Verdict(alert, mode) \in Decision

Rank == [denied |-> 0, record |-> 1, simulate |-> 2, approval |-> 3, auto |-> 4]

\* Knowing more about an alert never weakens the answer: no level, confidence
\* or evidence key that is added turns a response back into a record.  A gate
\* that misread an absent value as passing, or that took part in choosing the
\* policy, would (automation.py:207-225, 274-305).
StrongerAlertNeverAnsweredLess ==
  [][LearnMore => Rank[Verdict(alert, mode).mode]
                    \leq Rank[EvaluatePolicy(alert', action, policies, mode).mode]]_vars

\* The global mode decides between staging and previewing an approval and
\* nothing else: it neither blocks read-only collection nor unblocks what a
\* gate, a guardrail or the tier held back, and a misconfigured mode is the
\* mode simulate (automation.py:24-27, 241-243, 284-286, 302-304).
ModeSwitchOnlyPreviews ==
  [][SwitchMode =>
       LET e == Verdict(alert, "enforce")
           s == Verdict(alert, mode')
       IN mode' # "enforce" =>
            s = [e EXCEPT !.mode = IF @ = "approval" THEN "simulate" ELSE @,
                          !.global_mode = "simulate"]]_vars

\* A policy for another action has no say, wherever it stands in the set: the
\* action comes from the translation alone, and a policy whose criteria match
\* the alert neither takes it over nor shadows the policy that applies
\* (automation.py:13-15, 274-280).
ForeignPolicyHasNoSay ==
  [][AddForeignPolicy =>
       EvaluatePolicy(alert, action, policies', mode) = Verdict(alert, mode)]_vars

\* What automation.py:21-23 says of the confidence gate: unless the alert
\* carries a confidence known to reach the minimum of the deciding policy, the
\* decision is demoted to record.
ConfidenceGateHolds ==
  \A i \in DOMAIN policies :
    LET p == policies[i]
        d == Verdict(alert, mode)
    IN d.policy_id = p.policy_id /\ p.min_confidence # NoMinimum
         => \/ d.mode \in {"record", "denied"}
            \/ /\ alert.confidence.kind = "number"
               /\ alert.confidence.percent \geq p.min_confidence
=============================================================================
