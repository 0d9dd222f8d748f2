\* Two responses: enough for one to move while the other waits or has ended.
CONSTANT Responses = {r1, r2}
SPECIFICATION TSpec
INVARIANTS
  TraceInv
  CancelledNeverDispatched
  OutcomeHasProvenance
  OneVerdict
PROPERTY EventuallySettled
CHECK_DEADLOCK FALSE
