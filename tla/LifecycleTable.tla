-------------------------- MODULE LifecycleTable --------------------------
(***************************************************************************)
(* lifecycle.py: the states of one response action and the transitions     *)
(* is_legal_transition allows.  Constant level: the module holds the rule,  *)
(* its users hold the state.                                               *)
(***************************************************************************)

Terminal == {"SUCCEEDED", "FAILED", "REJECTED", "INDETERMINATE",
             "CANCELLED", "EXPIRED"}

ResponseActionState ==
  {"PENDING", "AUTHORIZED", "DISPATCHED", "ACCEPTED"} \cup Terminal

\* What an agent may report of a command it was sent.
Reported == {"SUCCEEDED", "FAILED", "REJECTED", "INDETERMINATE"}

\* Mutant: a cancel is let through while a poll is under way.
LateCancelTransitions ==
  [s \in ResponseActionState |->
     CASE s = "PENDING"    -> {"AUTHORIZED", "CANCELLED"}
       [] s = "AUTHORIZED" -> {"DISPATCHED", "CANCELLED"}
       [] s = "DISPATCHED" -> {"ACCEPTED", "CANCELLED"} \cup Reported
       [] s = "ACCEPTED"   -> Reported
       [] OTHER            -> {}]

\* Mutant: a command that could not be sent is failed where it stands.
UnsentFailureTransitions ==
  [s \in ResponseActionState |->
     CASE s = "PENDING"    -> {"AUTHORIZED", "CANCELLED"}
       [] s = "AUTHORIZED" -> {"DISPATCHED", "CANCELLED", "FAILED"}
       [] s = "DISPATCHED" -> {"ACCEPTED"} \cup Reported
       [] s = "ACCEPTED"   -> Reported
       [] OTHER            -> {}]

LegalTransitions ==
  [s \in ResponseActionState |->
     CASE s = "PENDING"    -> {"AUTHORIZED", "CANCELLED"}
       [] s = "AUTHORIZED" -> {"DISPATCHED", "CANCELLED"}
       [] s = "DISPATCHED" -> {"ACCEPTED"} \cup Reported
       [] s = "ACCEPTED"   -> Reported
       [] OTHER            -> {}]

\* Mutant: the sweep is asked before the terminal states are.
ExpiredFirstTransition(current, requested) ==
  requested = "EXPIRED" \/ requested \in LegalTransitions[current]

\* Mutant: the table alone, without the sweep.
TableOnlyTransition(current, requested) ==
  current \notin Terminal /\ requested \in LegalTransitions[current]

IsLegalTransition(current, requested) ==
  /\ current \notin Terminal
  /\ requested = "EXPIRED" \/ requested \in LegalTransitions[current]
=============================================================================
