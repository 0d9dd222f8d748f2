--------------------------- MODULE LifecycleTrace ---------------------------
(***************************************************************************)
(* The lifecycle with a history variable: the states each response has     *)
(* been in.  It lets a state predicate speak of what happened before, which *)
(* the transition table alone (one step) cannot.                           *)
(***************************************************************************)
EXTENDS Lifecycle

VARIABLE visited     \* visited[r]: every state r has been in

tvars == <<state, visited>>

TInit ==
  /\ Init
  /\ visited = [r \in Responses |-> {"PENDING"}]

TMove(r, s) ==
  /\ Move(r, s)
  /\ visited' = [visited EXCEPT ![r] = @ \cup {s}]

TNext == \E r \in Responses, s \in ResponseActionState : TMove(r, s)

TSpec == TInit /\ [][TNext]_tvars
           /\ \A r \in Responses : WF_tvars(TMove(r, "EXPIRED"))

-----------------------------------------------------------------------------
\* Types of the lifecycle and of its history.
TTypeOK ==
  /\ TypeOK
  /\ visited \in [Responses -> SUBSET ResponseActionState]

\* A response that was ever dispatched is never reported CANCELLED, on any
\* path: "cancelled" tells an operator that no agent ever saw the command
\* (lifecycle.py:90-125, the CANCELLED edges).
CancelledNeverDispatched ==
  \A r \in Responses :
    "CANCELLED" \in visited[r] => visited[r] \cap {"DISPATCHED", "ACCEPTED"} = {}

\* Nothing an agent says is recorded for a command that nobody authorized and
\* sent: every path to a reported outcome, however many optional steps it
\* skips, went through AUTHORIZED and DISPATCHED (lifecycle.py:90-115).
OutcomeHasProvenance ==
  \A r \in Responses :
    visited[r] \cap (Reported \cup {"ACCEPTED"}) # {}
      => {"AUTHORIZED", "DISPATCHED"} \subseteq visited[r]

\* A response ends once: a late result, a late cancel and the expiry sweep
\* cannot leave two terminal verdicts behind (lifecycle.py:116-138).
OneVerdict ==
  \A r \in Responses : \A s, t \in visited[r] \cap Terminal : s = t

\* The three together, strengthened until every step preserves them: where a
\* response stands tells where it has been.
TraceInv ==
  /\ TTypeOK
  /\ CancelledNeverDispatched
  /\ OutcomeHasProvenance
  /\ \A r \in Responses :
       /\ visited[r] \cap Terminal = {state[r]} \cap Terminal
       /\ state[r] \in {"PENDING", "AUTHORIZED"}
            => visited[r] \cap {"DISPATCHED", "ACCEPTED"} = {}
       /\ state[r] \in {"AUTHORIZED", "DISPATCHED", "ACCEPTED"}
            => "AUTHORIZED" \in visited[r]
       /\ state[r] \in {"DISPATCHED", "ACCEPTED"} => "DISPATCHED" \in visited[r]

\* Every response ends even if no analyst and no agent ever acts: whatever
\* state it waits in, the sweep to EXPIRED applies (lifecycle.py:116-118, 136).
EventuallySettled ==
  \A r \in Responses : <>(state[r] \in Terminal)
=============================================================================
