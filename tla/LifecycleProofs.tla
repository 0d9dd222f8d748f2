--------------------------- MODULE LifecycleProofs ---------------------------
(***************************************************************************)
(* Theorems about the lifecycle, for every set of responses.  One inductive *)
(* invariant (TraceInv) carries the three path properties.                  *)
(***************************************************************************)
EXTENDS LifecycleTrace, TLAPS

\* The states before a command can have been dispatched, and after.
BeforeDispatch == {"PENDING", "AUTHORIZED", "CANCELLED"}

\* A terminal state has no way out (lifecycle.py:116-124, 134-135).
LEMMA TerminalIsFinal ==
  ASSUME NEW s \in Terminal, NEW t
  PROVE  ~ IsLegalTransition(s, t)
BY DEF IsLegalTransition

\* The transitions, one by one: what IsLegalTransition says of two states.
LEMMA LegalSteps ==
  ASSUME NEW s \in ResponseActionState, NEW t \in ResponseActionState,
         IsLegalTransition(s, t)
  PROVE  \/ t = "EXPIRED" /\ s \notin Terminal
         \/ s = "PENDING" /\ t \in {"AUTHORIZED", "CANCELLED"}
         \/ s = "AUTHORIZED" /\ t \in {"DISPATCHED", "CANCELLED"}
         \/ s = "DISPATCHED" /\ t \in Reported \cup {"ACCEPTED"}
         \/ s = "ACCEPTED" /\ t \in Reported
BY DEF IsLegalTransition, LegalTransitions, ResponseActionState, Terminal, Reported

\* Once a command can have been dispatched, no transition leads back to a state
\* that says it was not (lifecycle.py:90-125).
THEOREM NoWayBackBeforeDispatch ==
  ASSUME NEW s \in ResponseActionState \ BeforeDispatch,
         NEW t \in ResponseActionState, IsLegalTransition(s, t)
  PROVE  t \notin BeforeDispatch
BY LegalSteps DEF BeforeDispatch, ResponseActionState, Terminal, Reported

-----------------------------------------------------------------------------
LEMMA TraceInit == TInit => TraceInv
<1> SUFFICES ASSUME TInit PROVE TraceInv
  OBVIOUS
<1>1. TTypeOK
  BY DEF TInit, Init, TTypeOK, TypeOK, ResponseActionState
<1>2. \A r \in Responses : state[r] = "PENDING" /\ visited[r] = {"PENDING"}
  BY DEF TInit, Init
<1> QED
  BY <1>1, <1>2 DEF TraceInv, CancelledNeverDispatched, OutcomeHasProvenance,
                    Reported, Terminal

LEMMA TraceStep == TraceInv /\ [TNext]_tvars => TraceInv'
<1> SUFFICES ASSUME TraceInv, [TNext]_tvars PROVE TraceInv'
  OBVIOUS
<1>1. CASE UNCHANGED tvars
  BY <1>1 DEF tvars, TraceInv, TTypeOK, TypeOK, CancelledNeverDispatched,
              OutcomeHasProvenance
<1>2. ASSUME NEW r \in Responses, NEW s \in ResponseActionState, TMove(r, s)
      PROVE  TraceInv'
  <2> USE DEF TTypeOK, TypeOK
  <2>1. /\ state \in [Responses -> ResponseActionState]
        /\ visited \in [Responses -> SUBSET ResponseActionState]
    BY DEF TraceInv
  <2>2. /\ state' = [state EXCEPT ![r] = s]
        /\ visited' = [visited EXCEPT ![r] = visited[r] \cup {s}]
        /\ IsLegalTransition(state[r], s)
    BY <1>2 DEF TMove, Move
  <2>3. \/ s = "EXPIRED" /\ state[r] \notin Terminal
        \/ state[r] = "PENDING" /\ s \in {"AUTHORIZED", "CANCELLED"}
        \/ state[r] = "AUTHORIZED" /\ s \in {"DISPATCHED", "CANCELLED"}
        \/ state[r] = "DISPATCHED" /\ s \in Reported \cup {"ACCEPTED"}
        \/ state[r] = "ACCEPTED" /\ s \in Reported
    BY <2>1, <2>2, LegalSteps
  <2>4. TTypeOK'
    BY <2>1, <2>2
  <2>5. state'[r] = s /\ visited'[r] = visited[r] \cup {s}
    BY <2>1, <2>2
  <2>6. \A q \in Responses \ {r} : state'[q] = state[q] /\ visited'[q] = visited[q]
    BY <2>1, <2>2
  <2>7. visited[r] \cap Terminal = {}
    BY <2>2, TerminalIsFinal DEF TraceInv
  <2>8. CancelledNeverDispatched'
    BY <2>3, <2>5, <2>6, <2>7
       DEF TraceInv, CancelledNeverDispatched, Reported, Terminal
  <2>9. OutcomeHasProvenance'
    BY <2>3, <2>5, <2>6, <2>7
       DEF TraceInv, OutcomeHasProvenance, Reported, Terminal
  <2>10. ASSUME NEW q \in Responses
         PROVE  /\ visited'[q] \cap Terminal = {state'[q]} \cap Terminal
                /\ state'[q] \in {"PENDING", "AUTHORIZED"}
                     => visited'[q] \cap {"DISPATCHED", "ACCEPTED"} = {}
                /\ state'[q] \in {"AUTHORIZED", "DISPATCHED", "ACCEPTED"}
                     => "AUTHORIZED" \in visited'[q]
                /\ state'[q] \in {"DISPATCHED", "ACCEPTED"} => "DISPATCHED" \in visited'[q]
    <3>1. CASE q = r
      BY <2>3, <2>5, <2>7, <3>1 DEF TraceInv, Reported, Terminal
    <3>2. CASE q # r
      BY <2>6, <3>2 DEF TraceInv
    <3> QED
      BY <3>1, <3>2
  <2> QED
    BY <2>4, <2>8, <2>9, <2>10 DEF TraceInv
<1> QED
  BY <1>1, <1>2 DEF TNext

\* The strengthened invariant holds on every path of the lifecycle.
THEOREM TraceInvariant == TSpec => []TraceInv
<1>1. TInit => TraceInv
  BY TraceInit
<1>2. TraceInv /\ [TNext]_tvars => TraceInv'
  BY TraceStep
<1> QED
  BY <1>1, <1>2, PTL DEF TSpec

\* A response that was dispatched is never reported CANCELLED.
THEOREM CancelledIsNeverDispatched == TSpec => []CancelledNeverDispatched
<1>1. TraceInv => CancelledNeverDispatched
  BY DEF TraceInv
<1> QED
  BY <1>1, TraceInvariant, PTL

\* No outcome is recorded for a command nobody authorized and sent.
THEOREM OutcomesHaveProvenance == TSpec => []OutcomeHasProvenance
<1>1. TraceInv => OutcomeHasProvenance
  BY DEF TraceInv
<1> QED
  BY <1>1, TraceInvariant, PTL

\* A response never has two terminal verdicts.
THEOREM OnlyOneVerdict == TSpec => []OneVerdict
<1>1. TraceInv => OneVerdict
  BY DEF TraceInv, OneVerdict
<1> QED
  BY <1>1, TraceInvariant, PTL

\* The history variable constrains nothing: the traced lifecycle implements the
\* lifecycle.
THEOREM TraceImplementsLifecycle == TSpec => Spec
<1>1. TInit => Init
  BY DEF TInit
<1>2. [TNext]_tvars => [Next]_state
  BY DEF TNext, TMove, Next, tvars
<1> QED
  BY <1>1, <1>2, PTL DEF TSpec, Spec
=============================================================================
