----------------------------- MODULE Lifecycle -----------------------------
(***************************************************************************)
(* The response lifecycle as lifecycle.py promises it to every consumer:   *)
(* each response action starts PENDING and takes only legal transitions.   *)
(* It is the abstract specification; ResponseFlow, with Manager's two      *)
(* tables and the agents, is shown to implement it.                        *)
(***************************************************************************)
EXTENDS LifecycleTable

CONSTANT Responses   \* the response actions of one deployment

VARIABLE state       \* state[r]: the lifecycle state of r

Init == state = [r \in Responses |-> "PENDING"]

Move(r, s) ==
  /\ IsLegalTransition(state[r], s)
  /\ state' = [state EXCEPT ![r] = s]

Expire(r) == Move(r, "EXPIRED")

Next == \E r \in Responses, s \in ResponseActionState : Move(r, s)

Spec == Init /\ [][Next]_state

\* A bounded authorization/dispatch/acceptance window lapses in the end: the
\* sweep to EXPIRED is the only transition anybody has to take.
FairSpec == Spec /\ \A r \in Responses : WF_state(Expire(r))

TypeOK == state \in [Responses -> ResponseActionState]
=============================================================================
