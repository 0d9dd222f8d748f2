------------------------- MODULE ResponseFlowProofs -------------------------
(***************************************************************************)
(* Safety of ResponseFlow for any responses, analysts, roles, alerts and    *)
(* policies.  FlowInv is inductive: it is split per response (Sound), each *)
(* handler touches one response, and a response no handler touches keeps    *)
(* its part (Untouched).                                                   *)
(***************************************************************************)
EXTENDS ResponseFlow, AutomationProofs

\* Nothing about response q changes.
Same(q) ==
  /\ request'[q] = request[q] /\ decision'[q] = decision[q]
  /\ decidedIn'[q] = decidedIn[q] /\ row'[q] = row[q] /\ cmd'[q] = cmd[q]
  /\ approver'[q] = approver[q] /\ sent'[q] = sent[q] /\ agent'[q] = agent[q]
  /\ effect'[q] = effect[q] /\ result'[q] = result[q]

LEMMA Untouched ==
  ASSUME NEW q \in Responses, Sound(q), Same(q)
  PROVE  Sound(q)'
<1>1. IsAuthorized(q)' = IsAuthorized(q) /\ StagedProperly(q)' = StagedProperly(q)
  BY DEF Same, IsAuthorized, AuthorizedByTier, AuthorizedByAnalyst, StagedProperly, May
<1> QED
  BY <1>1 DEF Sound, Same, TablesAgree, AuthorityKept, WireOrder, ReportsAreTrue, May

\* What authorizes a response is written before its command exists.
LEMMA AuthorityUntouched ==
  ASSUME NEW r \in Responses, UNCHANGED managerVars
  PROVE  /\ IsAuthorized(r)' = IsAuthorized(r)
         /\ StagedProperly(r)' = StagedProperly(r)
BY DEF IsAuthorized, AuthorizedByTier, AuthorizedByAnalyst, StagedProperly, May,
       managerVars

\* Only the combined role holds both permissions (access.py:26-46).
LEMMA OnlyAnalystHoldsBoth ==
  ASSUME NEW a, May(a, "REQUEST"), May(a, "DECIDE")
  PROVE  RoleOf[a] = "analyst"
<1>1. /\ "REQUEST" \in PermissionsFor(RoleOf[a])
      /\ "DECIDE" \in PermissionsFor(RoleOf[a])
  BY DEF May
<1>2. RoleOf[a] \in DOMAIN PermissionTable
  BY <1>1 DEF PermissionsFor
<1>3. DOMAIN PermissionTable = {"triage_admin", "viewer", "responder", "approver",
                                "analyst", "artifact_admin"}
  BY DEF PermissionTable
<1> QED
  BY <1>1, <1>2, <1>3 DEF PermissionsFor, PermissionTable

\* A cell of the commands table moves along a legal transition and stays typed.
LEMMA CommandMoves ==
  ASSUME TypeOK, NEW r \in Responses, NEW s \in ResponseActionState \ {"PENDING"},
         MoveCommand(r, s)
  PROVE  /\ cmd' \in [Responses -> CmdStates]
         /\ cmd'[r] = s /\ cmd[r] # "NONE"
         /\ \A q \in Responses \ {r} : cmd'[q] = cmd[q]
         /\ cmd[r] \in ResponseActionState \ {"PENDING"} /\ IsLegalTransition(cmd[r], s)
BY DEF TypeOK, MoveCommand, CmdStates

LEMMA LegalMoves ==
  ASSUME NEW s \in ResponseActionState, NEW t \in ResponseActionState,
         IsLegalTransition(s, t)
  PROVE  /\ s \notin Terminal
         /\ \/ t = "EXPIRED"
            \/ s = "PENDING" /\ t \in {"AUTHORIZED", "CANCELLED"}
            \/ s = "AUTHORIZED" /\ t \in {"DISPATCHED", "CANCELLED"}
            \/ s = "DISPATCHED" /\ t \in Reported \cup {"ACCEPTED"}
            \/ s = "ACCEPTED" /\ t \in Reported
BY DEF IsLegalTransition, LegalTransitions, ResponseActionState, Terminal, Reported

-----------------------------------------------------------------------------
LEMMA FlowInit == Init => FlowInv
<1> SUFFICES ASSUME Init PROVE FlowInv
  OBVIOUS
<1>1. NoDecision \in Decision
  BY DEF NoDecision, Decide, Decision, DeciderId, ActionName, DecisionModes,
         PolicyModes, GlobalModes, DEFAULT_GLOBAL_MODE
<1>2. NoResult \in Report
  BY DEF NoResult, NoEvidence, Report, Evidence, Stages, Outcomes
<1>3. TypeOK
  BY <1>1, <1>2 DEF Init, TypeOK, NoRequest, ActionName, AnyMode, RowStates,
                    CmdStates, AgentStates
<1>4. ASSUME NEW r \in Responses PROVE Sound(r)
  BY DEF Init, Sound, TablesAgree, AuthorityKept, WireOrder, ReportsAreTrue, Reported
<1> QED
  BY <1>3, <1>4 DEF FlowInv

LEMMA SetModeStep == FlowInv /\ SetMode => FlowInv'
<1> SUFFICES ASSUME FlowInv, SetMode PROVE FlowInv'
  OBVIOUS
<1>1. TypeOK'
  BY DEF FlowInv, TypeOK, SetMode, managerVars, agentVars
<1>2. \A q \in Responses : Same(q)
  BY DEF SetMode, managerVars, agentVars, Same
<1> QED
  BY <1>1, <1>2, Untouched DEF FlowInv

LEMMA OnAlertCreatedStep ==
  ASSUME FlowInv, NEW r \in Responses, OnAlertCreated(r)
  PROVE  FlowInv'
<1> PICK c \in Cases :
      LET d == EvaluatePolicy(c.alert, c.action, Policies, mode) IN
      /\ request' = [request EXCEPT ![r] =
           [origin |-> "alert", by |-> "nobody", action |-> c.action,
            malformed |-> Malformed(c.alert), marker |-> CarriesMarker(c.alert)]]
      /\ decision'  = [decision EXCEPT ![r] = d]
      /\ decidedIn' = [decidedIn EXCEPT ![r] = mode]
      /\ row' = [row EXCEPT ![r] = RowFor(d)]
      /\ cmd' = [cmd EXCEPT ![r] = IF d.auto_execute THEN "AUTHORIZED" ELSE cmd[r]]
      /\ approver' = [approver EXCEPT ![r] = IF d.auto_execute THEN "system" ELSE approver[r]]
  BY DEF OnAlertCreated
<1> DEFINE d == EvaluatePolicy(c.alert, c.action, Policies, mode)
<1>1. c.action \in ActionName /\ c.alert \in Alert
  BY FlowAssumption
<1>2. Guarded(d, c.alert, c.action, mode)
  BY <1>1, DecisionGuardrails, FlowAssumption
<1>3. TypeOK /\ Sound(r)
  BY DEF FlowInv
<1>4. row[r] = "NONE" /\ cmd[r] = "NONE"
  BY <1>3 DEF OnAlertCreated, Sound, TablesAgree
<1>5. UNCHANGED <<mode, sent, agentVars>>
  BY DEF OnAlertCreated
<1> HIDE DEF d
<1>6. Malformed(c.alert) \in BOOLEAN /\ CarriesMarker(c.alert) \in BOOLEAN
  BY DEF Malformed, CarriesMarker
<1>7. d \in Decision /\ d.auto_execute \in BOOLEAN
  BY <1>2 DEF Guarded, Decision
<1>8. RowFor(d) \in RowStates
  BY <1>7 DEF RowFor, RowStates
<1>9. TypeOK'
  <2>1. request' \in [Responses ->
          [origin : {"none", "alert", "manual"}, by : Analysts \cup {"nobody"},
           action : ActionName, malformed : BOOLEAN, marker : BOOLEAN]]
    BY <1>1, <1>3, <1>6 DEF TypeOK
  <2>2. /\ decision' \in [Responses -> Decision]
        /\ decidedIn' \in [Responses -> AnyMode \cup {"none"}]
        /\ row' \in [Responses -> RowStates]
        /\ approver' \in [Responses -> Analysts \cup {"system", "nobody"}]
    BY <1>3, <1>7, <1>8 DEF TypeOK, d
  <2>3. cmd' \in [Responses -> CmdStates]
    BY <1>3 DEF TypeOK, CmdStates, ResponseActionState
  <2> QED
    BY <1>3, <1>5, <2>1, <2>2, <2>3 DEF TypeOK, agentVars
<1>10. \A q \in Responses \ {r} : Same(q)
  BY <1>3, <1>5 DEF TypeOK, Same, agentVars
<1>11. /\ request'[r].origin = "alert" /\ request'[r].by = "nobody"
       /\ request'[r].action = c.action
       /\ request'[r].malformed = Malformed(c.alert)
       /\ request'[r].marker = CarriesMarker(c.alert)
       /\ decidedIn'[r] = mode /\ row'[r] = RowFor(d)
       /\ cmd'[r] = IF d.auto_execute THEN "AUTHORIZED" ELSE "NONE"
       /\ d.auto_execute => approver'[r] = "system"
       /\ sent'[r] = sent[r] /\ agent'[r] = agent[r] /\ effect'[r] = effect[r]
       /\ result'[r] = result[r]
  BY <1>3, <1>4, <1>5 DEF TypeOK, agentVars, d
<1>12. ~ sent[r] /\ agent[r] = "none" /\ ~ effect[r]
  BY <1>3, <1>4 DEF Sound, WireOrder, Reported, TypeOK
<1>13. Sound(r)'
  <2>1. TablesAgree(r)'
    BY <1>7, <1>11 DEF TablesAgree, RowFor
  <2>2. AuthorityKept(r)'
    <3>1. CASE d.auto_execute
      <4>1. d.mode = "auto"
        BY <1>2, <3>1 DEF Guarded
      <4>2. /\ c.action \in ClosedActions /\ ClassifyTier(c.action) = "AUTO_SAFE"
            /\ ~ Malformed(c.alert) /\ ~ CarriesMarker(c.alert)
        BY <1>2, <4>1 DEF Guarded
      <4>3. approver'[r] = "system" /\ row'[r] = "AUTHORIZED"
        BY <1>11, <3>1 DEF RowFor
      <4> QED
        BY <1>11, <4>2, <4>3 DEF AuthorityKept, IsAuthorized, AuthorizedByTier
    <3>2. CASE ~ d.auto_execute
      <4>1. cmd'[r] = "NONE"
        BY <1>11, <3>2
      <4>2. row'[r] = "PENDING" => d.mode = "approval"
        BY <1>11, <3>2 DEF RowFor
      <4>3. d.mode = "approval" =>
              /\ c.action \in ClosedActions /\ mode = "enforce"
              /\ ~ Malformed(c.alert) /\ ~ CarriesMarker(c.alert)
        BY <1>2 DEF Guarded
      <4> QED
        BY <1>11, <4>1, <4>2, <4>3, FlowAssumption DEF AuthorityKept, StagedProperly
    <3> QED
      BY <3>1, <3>2
  <2>3. WireOrder(r)'
    BY <1>11, <1>12 DEF WireOrder
  <2>4. ReportsAreTrue(r)'
    BY <1>11, <1>12 DEF ReportsAreTrue, Reported
  <2> QED
    BY <2>1, <2>2, <2>3, <2>4 DEF Sound
<1> QED
  BY <1>9, <1>10, <1>13, Untouched DEF FlowInv

LEMMA ManualRequestStep ==
  ASSUME FlowInv, NEW r \in Responses, ManualRequest(r)
  PROVE  FlowInv'
<1> PICK a \in Analysts, x \in ManualActions :
      /\ May(a, "REQUEST")
      /\ request' = [request EXCEPT ![r] =
           [origin |-> "manual", by |-> a, action |-> x, malformed |-> FALSE,
            marker |-> FALSE]]
  BY DEF ManualRequest
<1>1. TypeOK /\ Sound(r)
  BY DEF FlowInv
<1>2. /\ row[r] = "NONE" /\ row' = [row EXCEPT ![r] = "PENDING"]
      /\ decidedIn' = [decidedIn EXCEPT ![r] = mode]
      /\ UNCHANGED <<mode, decision, approver, cmd, sent, agentVars>>
  BY DEF ManualRequest
<1>3. x \in ClosedActions /\ x \in ActionName
  BY FlowAssumption DEF ActionName
<1>4. TypeOK'
  BY <1>1, <1>2, <1>3 DEF TypeOK, RowStates, agentVars
<1>5. \A q \in Responses \ {r} : Same(q)
  BY <1>1, <1>2 DEF TypeOK, Same, agentVars
<1>6. /\ request'[r] = [origin |-> "manual", by |-> a, action |-> x,
                        malformed |-> FALSE, marker |-> FALSE]
      /\ row'[r] = "PENDING" /\ cmd'[r] = "NONE"
      /\ sent'[r] = sent[r] /\ agent'[r] = agent[r] /\ effect'[r] = effect[r]
      /\ result'[r] = result[r]
  BY <1>1, <1>2 DEF TypeOK, Sound, TablesAgree, agentVars
<1>7. Sound(r)'
  BY <1>1, <1>2, <1>3, <1>6
     DEF Sound, TablesAgree, AuthorityKept, StagedProperly, WireOrder, ReportsAreTrue,
         May, agentVars, Reported
<1> QED
  BY <1>4, <1>5, <1>7, Untouched DEF FlowInv

LEMMA AuthorizeStep ==
  ASSUME FlowInv, NEW r \in Responses, Authorize(r)
  PROVE  FlowInv'
<1> PICK a \in Analysts :
      May(a, "DECIDE") /\ approver' = [approver EXCEPT ![r] = a]
  BY DEF Authorize
<1>1. TypeOK /\ Sound(r)
  BY DEF FlowInv
<1>2. /\ row[r] = "PENDING"
      /\ row' = [row EXCEPT ![r] = "AUTHORIZED"]
      /\ cmd' = [cmd EXCEPT ![r] = "AUTHORIZED"]
      /\ UNCHANGED <<mode, request, decision, decidedIn, sent, agentVars>>
  BY DEF Authorize
<1>3. TypeOK'
  BY <1>1, <1>2 DEF TypeOK, RowStates, CmdStates, ResponseActionState, agentVars
<1>4. \A q \in Responses \ {r} : Same(q)
  BY <1>1, <1>2 DEF TypeOK, Same, agentVars
<1>5. /\ row'[r] = "AUTHORIZED" /\ cmd'[r] = "AUTHORIZED" /\ approver'[r] = a
      /\ cmd[r] = "NONE"
  BY <1>1, <1>2 DEF TypeOK, Sound, TablesAgree
<1>6. a # "system" /\ a # "nobody"
  BY FlowAssumption
<1>7. a = request[r].by => RoleOf[a] = "analyst"
  BY <1>1, <1>2, OnlyAnalystHoldsBoth DEF Sound, AuthorityKept
<1>8. AuthorityKept(r)'
  <2>1. /\ request[r].action \in ClosedActions
        /\ ~ request[r].malformed /\ ~ request[r].marker
        /\ StagedProperly(r)
    BY <1>1, <1>2 DEF Sound, AuthorityKept
  <2>2. AuthorizedByAnalyst(r)'
    BY <1>2, <1>5, <1>7 DEF AuthorizedByAnalyst, May
  <2>3. StagedProperly(r)'
    BY <1>2, <2>1 DEF StagedProperly, May
  <2> QED
    BY <1>2, <1>5, <2>1, <2>2, <2>3 DEF AuthorityKept, IsAuthorized
<1>9. TablesAgree(r)' /\ WireOrder(r)' /\ ReportsAreTrue(r)'
  BY <1>1, <1>2, <1>5
     DEF Sound, TablesAgree, WireOrder, ReportsAreTrue, agentVars, Reported
<1> QED
  BY <1>3, <1>4, <1>8, <1>9, Untouched DEF FlowInv, Sound

\* Declining and expiring a pending row both end it, without a command.
LEMMA PendingRowEnds ==
  ASSUME FlowInv, NEW r \in Responses, NEW s \in {"REJECTED", "EXPIRED"},
         row[r] = "PENDING", row' = [row EXCEPT ![r] = s],
         UNCHANGED <<mode, managerVars, cmd, sent, agentVars>>
  PROVE  FlowInv'
<1>1. TypeOK /\ Sound(r)
  BY DEF FlowInv
<1>2. TypeOK'
  BY <1>1 DEF TypeOK, RowStates, managerVars, agentVars
<1>3. \A q \in Responses \ {r} : Same(q)
  BY <1>1 DEF TypeOK, Same, managerVars, agentVars
<1>4. row'[r] = s
  BY <1>1 DEF TypeOK
<1>5. Sound(r)'
  BY <1>1, <1>4, AuthorityUntouched
     DEF Sound, TablesAgree, AuthorityKept, WireOrder, ReportsAreTrue, managerVars, agentVars
<1> QED
  BY <1>2, <1>3, <1>5, Untouched DEF FlowInv

\* A command that moves, with the wire, keeps what holds of its authority.
LEMMA CommandStep ==
  ASSUME FlowInv, NEW r \in Responses, NEW s \in ResponseActionState \ {"PENDING"},
         MoveCommand(r, s), UNCHANGED <<mode, managerVars, row, agentVars>>,
         sent' \in [Responses -> BOOLEAN],
         \A q \in Responses \ {r} : sent'[q] = sent[q],
         WireOrder(r)', ReportsAreTrue(r)'
  PROVE  FlowInv'
<1>1. TypeOK /\ Sound(r)
  BY DEF FlowInv
<1>2. /\ cmd' \in [Responses -> CmdStates] /\ cmd'[r] = s /\ cmd[r] # "NONE"
      /\ \A q \in Responses \ {r} : cmd'[q] = cmd[q]
  BY <1>1, CommandMoves
<1>3. TypeOK'
  BY <1>1, <1>2 DEF TypeOK, managerVars, agentVars
<1>4. \A q \in Responses \ {r} : Same(q)
  BY <1>2 DEF Same, managerVars, agentVars
<1>5. s # "NONE"
  BY DEF ResponseActionState, Terminal
<1>6. TablesAgree(r)' /\ AuthorityKept(r)'
  BY <1>1, <1>2, <1>5, AuthorityUntouched
     DEF Sound, TablesAgree, AuthorityKept, May, managerVars
<1> QED
  BY <1>3, <1>4, <1>6, Untouched DEF FlowInv, Sound

LEMMA CancelStep ==
  ASSUME FlowInv, NEW r \in Responses, Cancel(r)
  PROVE  FlowInv'
<1>1. TypeOK /\ Sound(r)
  BY DEF FlowInv
<1>2. MoveCommand(r, "CANCELLED") /\ UNCHANGED <<mode, managerVars, row, sent, agentVars>>
  BY DEF Cancel
<1>3. "CANCELLED" \in ResponseActionState \ {"PENDING"}
  BY DEF ResponseActionState, Terminal
<1>4. cmd'[r] = "CANCELLED" /\ cmd[r] = "AUTHORIZED"
  <2>1. /\ cmd'[r] = "CANCELLED" /\ IsLegalTransition(cmd[r], "CANCELLED")
        /\ cmd[r] \in ResponseActionState \ {"PENDING"}
    BY <1>1, <1>2, <1>3, CommandMoves
  <2>2. cmd[r] \in {"PENDING", "AUTHORIZED"}
    BY <1>3, <2>1, LegalMoves DEF Reported
  <2> QED
    BY <2>1, <2>2
<1>5. ~ sent[r]
  BY <1>1, <1>4 DEF Sound, WireOrder, Reported
<1>6. WireOrder(r)' /\ ReportsAreTrue(r)'
  BY <1>1, <1>2, <1>4, <1>5 DEF Sound, WireOrder, ReportsAreTrue, Reported, agentVars
<1> QED
  BY <1>1, <1>2, <1>3, <1>6, CommandStep DEF TypeOK

LEMMA PollStep ==
  ASSUME FlowInv, NEW r \in Responses, Poll(r)
  PROVE  FlowInv'
<1>1. TypeOK /\ Sound(r)
  BY DEF FlowInv
<1>2. /\ MoveCommand(r, "DISPATCHED") /\ UNCHANGED <<mode, managerVars, row, agentVars>>
      /\ sent' = [sent EXCEPT ![r] = TRUE]
  BY DEF Poll
<1>3. "DISPATCHED" \in ResponseActionState \ {"PENDING"}
  BY DEF ResponseActionState
<1>4. cmd'[r] = "DISPATCHED"
  BY <1>1, <1>2, <1>3, CommandMoves
<1>5. /\ sent' \in [Responses -> BOOLEAN] /\ sent'[r]
      /\ \A q \in Responses \ {r} : sent'[q] = sent[q]
  BY <1>1, <1>2 DEF TypeOK
<1>6. WireOrder(r)' /\ ReportsAreTrue(r)'
  BY <1>1, <1>2, <1>4, <1>5 DEF Sound, WireOrder, ReportsAreTrue, Reported, agentVars
<1> QED
  BY <1>2, <1>3, <1>5, <1>6, CommandStep

LEMMA AcceptStep ==
  ASSUME FlowInv, NEW r \in Responses, Accept(r)
  PROVE  FlowInv'
<1>1. TypeOK /\ Sound(r)
  BY DEF FlowInv
<1>2. /\ MoveCommand(r, "ACCEPTED") /\ agent[r] # "none"
      /\ UNCHANGED <<mode, managerVars, row, sent, agentVars>>
  BY DEF Accept
<1>3. "ACCEPTED" \in ResponseActionState \ {"PENDING"}
  BY DEF ResponseActionState
<1>4. cmd'[r] = "ACCEPTED"
  BY <1>1, <1>2, <1>3, CommandMoves
<1>5. WireOrder(r)' /\ ReportsAreTrue(r)'
  BY <1>1, <1>2, <1>4 DEF Sound, WireOrder, ReportsAreTrue, Reported, agentVars
<1> QED
  BY <1>1, <1>2, <1>3, <1>5, CommandStep DEF TypeOK

LEMMA SubmitResultStep ==
  ASSUME FlowInv, NEW r \in Responses, SubmitResult(r)
  PROVE  FlowInv'
<1> DEFINE s == OutcomeState[result[r].outcome]
<1>1. TypeOK /\ Sound(r)
  BY DEF FlowInv
<1>2. /\ MoveCommand(r, s) /\ agent[r] = "reported" /\ ValidResult(result[r])
      /\ UNCHANGED <<mode, managerVars, row, sent, agentVars>>
  BY DEF SubmitResult
<1>3. result[r].outcome \in Outcomes
  BY <1>1 DEF TypeOK, Report
<1>4. s \in Reported
  BY <1>3 DEF Outcomes, OutcomeState, Reported
<1>5. s \in ResponseActionState \ {"PENDING"}
  BY <1>4 DEF ResponseActionState, Terminal, Reported
<1>6. result'[r] = result[r] /\ agent'[r] = agent[r]
  BY <1>2 DEF agentVars
<1>7. s = OutcomeState[result'[r].outcome]
  BY <1>6
<1> HIDE DEF s
<1>8. cmd'[r] = s
  BY <1>1, <1>2, <1>5, CommandMoves
<1>9. WireOrder(r)' 
  BY <1>1, <1>2, <1>4, <1>8 DEF Sound, WireOrder, agentVars
<1>10. ReportsAreTrue(r)'
  BY <1>1, <1>2, <1>6, <1>7, <1>8 DEF Sound, ReportsAreTrue, agentVars
<1> QED
  BY <1>1, <1>2, <1>5, <1>9, <1>10, CommandStep DEF TypeOK

LEMMA ExpireCommandStep ==
  ASSUME FlowInv, NEW r \in Responses, ExpireCommand(r)
  PROVE  FlowInv'
<1>1. TypeOK /\ Sound(r)
  BY DEF FlowInv
<1>2. MoveCommand(r, "EXPIRED") /\ UNCHANGED <<mode, managerVars, row, sent, agentVars>>
  BY DEF ExpireCommand
<1>3. "EXPIRED" \in ResponseActionState \ {"PENDING"}
  BY DEF ResponseActionState, Terminal
<1>4. cmd'[r] = "EXPIRED"
  BY <1>1, <1>2, <1>3, CommandMoves
<1>5. WireOrder(r)' /\ ReportsAreTrue(r)'
  BY <1>1, <1>2, <1>4 DEF Sound, WireOrder, ReportsAreTrue, Reported, agentVars
<1> QED
  BY <1>1, <1>2, <1>3, <1>5, CommandStep DEF TypeOK

-----------------------------------------------------------------------------
(* The agent.                                                              *)

\* The agent never touches Manager's tables.
LEMMA AgentStep ==
  ASSUME FlowInv, NEW r \in Responses,
         UNCHANGED <<mode, managerVars, row, cmd, sent>>,
         agent' \in [Responses -> AgentStates], effect' \in [Responses -> BOOLEAN],
         result' \in [Responses -> Report],
         \A q \in Responses \ {r} :
           agent'[q] = agent[q] /\ effect'[q] = effect[q] /\ result'[q] = result[q],
         WireOrder(r)', ReportsAreTrue(r)'
  PROVE  FlowInv'
<1>1. TypeOK /\ Sound(r)
  BY DEF FlowInv
<1>2. TypeOK'
  BY <1>1 DEF TypeOK, managerVars
<1>3. \A q \in Responses \ {r} : Same(q)
  BY DEF Same, managerVars
<1>4. TablesAgree(r)' /\ AuthorityKept(r)'
  BY <1>1, AuthorityUntouched DEF Sound, TablesAgree, AuthorityKept, May, managerVars
<1> QED
  BY <1>2, <1>3, <1>4, Untouched DEF FlowInv, Sound

LEMMA AgentReceiveStep ==
  ASSUME FlowInv, NEW r \in Responses, AgentReceive(r)
  PROVE  FlowInv'
<1>1. TypeOK /\ Sound(r)
  BY DEF FlowInv
<1>2. /\ sent[r] /\ agent[r] = "none" /\ agent' = [agent EXCEPT ![r] = "intent"]
      /\ UNCHANGED <<mode, managerVars, row, cmd, sent, effect, result>>
  BY DEF AgentReceive
<1>3. /\ agent' \in [Responses -> AgentStates] /\ agent'[r] = "intent"
      /\ \A q \in Responses \ {r} : agent'[q] = agent[q]
  BY <1>1, <1>2 DEF TypeOK, AgentStates
<1>4. WireOrder(r)' /\ ReportsAreTrue(r)'
  BY <1>1, <1>2, <1>3 DEF Sound, WireOrder, ReportsAreTrue, Reported
<1> QED
  BY <1>1, <1>2, <1>3, <1>4, AgentStep DEF TypeOK

LEMMA AgentInitiateStep ==
  ASSUME FlowInv, NEW r \in Responses, AgentInitiate(r)
  PROVE  FlowInv'
<1>1. TypeOK /\ Sound(r)
  BY DEF FlowInv
<1>2. PICK e \in BOOLEAN :
        /\ agent[r] = "intent" /\ agent' = [agent EXCEPT ![r] = "initiated"]
        /\ effect' = [effect EXCEPT ![r] = e]
        /\ UNCHANGED <<mode, managerVars, row, cmd, sent, result>>
  BY DEF AgentInitiate
<1>3. /\ agent' \in [Responses -> AgentStates] /\ agent'[r] = "initiated"
      /\ effect' \in [Responses -> BOOLEAN]
      /\ \A q \in Responses \ {r} : agent'[q] = agent[q] /\ effect'[q] = effect[q]
  BY <1>1, <1>2 DEF TypeOK, AgentStates
<1>4. WireOrder(r)' /\ ReportsAreTrue(r)'
  BY <1>1, <1>2, <1>3 DEF Sound, WireOrder, ReportsAreTrue, Reported
<1> QED
  BY <1>1, <1>2, <1>3, <1>4, AgentStep DEF TypeOK

LEMMA AgentReportStep ==
  ASSUME FlowInv, NEW r \in Responses, AgentReport(r)
  PROVE  FlowInv'
<1>1. TypeOK /\ Sound(r)
  BY DEF FlowInv
<1>2. /\ agent[r] \in {"intent", "initiated"}
      /\ agent' = [agent EXCEPT ![r] = "reported"]
      /\ UNCHANGED <<mode, managerVars, row, cmd, sent, effect>>
  BY DEF AgentReport
<1>3. PICK seen \in BOOLEAN, verified \in BOOLEAN, outcome \in Outcomes,
           execution \in {"absent", "given"} :
        /\ seen => agent[r] = "initiated" /\ effect[r]
        /\ verified => seen
        /\ result' = [result EXCEPT ![r] =
             [schema |-> "2", outcome |-> outcome, correlated |-> TRUE,
              execution |-> execution,
              evidence |->
                IF execution = "absent" THEN NoEvidence
                ELSE [stage |-> IF agent[r] = "initiated" THEN "completion" ELSE "identity",
                      action_initiated |-> (agent[r] = "initiated"),
                      completion_observed |-> seen, native_error |-> FALSE],
              verified |-> verified]]
  BY DEF AgentReport
<1> DEFINE e == IF execution = "absent" THEN NoEvidence
                ELSE [stage |-> IF agent[r] = "initiated" THEN "completion" ELSE "identity",
                      action_initiated |-> (agent[r] = "initiated"),
                      completion_observed |-> seen, native_error |-> FALSE]
           m == [schema |-> "2", outcome |-> outcome, correlated |-> TRUE,
                 execution |-> execution, evidence |-> e, verified |-> verified]
<1>4. e \in Evidence
  <2>1. CASE execution = "absent"
    BY <2>1 DEF NoEvidence, Evidence, Stages
  <2>2. CASE execution # "absent"
    BY <2>2 DEF Evidence, Stages
  <2> QED
    BY <2>1, <2>2
<1>5. execution = "given" =>
        e.completion_observed = seen /\ e.action_initiated = (agent[r] = "initiated")
  OBVIOUS
<1>6. result' = [result EXCEPT ![r] = m]
  BY <1>3
<1> HIDE DEF e
<1>7. m \in Report
  BY <1>4 DEF Report
<1>8. /\ m.verified = verified /\ m.execution = execution /\ m.evidence = e
  OBVIOUS
<1> HIDE DEF m
<1>9. /\ result' \in [Responses -> Report] /\ result'[r] = m
      /\ agent' \in [Responses -> AgentStates] /\ agent'[r] = "reported"
      /\ \A q \in Responses \ {r} : agent'[q] = agent[q] /\ result'[q] = result[q]
  BY <1>1, <1>2, <1>6, <1>7 DEF TypeOK, AgentStates
<1>10. effect[r] => agent[r] = "initiated"
  BY <1>1, <1>2 DEF Sound, WireOrder
<1>11. cmd[r] \notin Reported
  BY <1>1, <1>2 DEF Sound, ReportsAreTrue
<1>12. WireOrder(r)'
  BY <1>1, <1>2, <1>9 DEF Sound, WireOrder
<1>13. ReportsAreTrue(r)'
  BY <1>2, <1>3, <1>5, <1>8, <1>9, <1>10, <1>11 DEF ReportsAreTrue
<1> QED
  BY <1>1, <1>2, <1>9, <1>12, <1>13, AgentStep DEF TypeOK

-----------------------------------------------------------------------------
LEMMA FlowStep == FlowInv /\ [Next]_vars => FlowInv'
<1> SUFFICES ASSUME FlowInv, [Next]_vars PROVE FlowInv'
  OBVIOUS
<1>1. CASE UNCHANGED vars
  <2>1. TypeOK'
    BY <1>1 DEF FlowInv, TypeOK, vars, managerVars, agentVars
  <2>2. \A q \in Responses : Same(q)
    BY <1>1 DEF vars, managerVars, agentVars, Same
  <2> QED
    BY <2>1, <2>2, Untouched DEF FlowInv
<1>2. CASE SetMode
  BY <1>2, SetModeStep
<1>3. ASSUME NEW r \in Responses, Create(r) PROVE FlowInv'
  BY <1>3, OnAlertCreatedStep, ManualRequestStep DEF Create
<1>4. ASSUME NEW r \in Responses, Manage(r) PROVE FlowInv'
  <2>1. CASE Decline(r)
    BY <2>1, PendingRowEnds DEF Decline
  <2>2. CASE ExpireRow(r)
    BY <2>2, PendingRowEnds DEF ExpireRow
  <2> QED
    BY <1>4, <2>1, <2>2, AuthorizeStep, CancelStep, PollStep, AcceptStep,
       SubmitResultStep, ExpireCommandStep DEF Manage, Expire
<1>5. ASSUME NEW r \in Responses, Execute(r) PROVE FlowInv'
  BY <1>5, AgentReceiveStep, AgentInitiateStep, AgentReportStep DEF Execute
<1> QED
  BY <1>1, <1>2, <1>3, <1>4, <1>5 DEF Next

\* The inductive invariant, type correctness included.
THEOREM FlowInvariant == Spec => []FlowInv
<1>1. Init => FlowInv
  BY FlowInit
<1>2. FlowInv /\ [Next]_vars => FlowInv'
  BY FlowStep
<1> QED
  BY <1>1, <1>2, PTL DEF Spec

-----------------------------------------------------------------------------
\* What reaches an agent was authorized, whatever policies, alerts, analysts and
\* mode changes there are: by the tier, or by an analyst for an alert decided under
\* enforce, or by an analyst for another's or the same analyst's request, in any mode.
THEOREM ExecutionAuthorized == Spec => []ExecutionIsAuthorized
<1>1. FlowInv => ExecutionIsAuthorized
  <2> SUFFICES ASSUME FlowInv, NEW r \in Responses, sent[r] PROVE IsAuthorized(r)
    BY DEF ExecutionIsAuthorized
  <2>1. cmd[r] # "NONE"
    BY DEF FlowInv, Sound, WireOrder, Reported
  <2> QED
    BY <2>1 DEF FlowInv, Sound, AuthorityKept
<1> QED
  BY <1>1, FlowInvariant, PTL

\* How far the violation of ContainmentNeedsEnforce reaches: an action that is not
\* AUTO_SAFE and that left while enforce was not set when it was asked for is what an
\* analyst asked for, and no alert's doing; an analyst holding DECIDE approved it
\* (automation.py:26-27, docs/AUTOMATED_RESPONSE.md:58-60).
THEOREM OnlyRequestsPassTheMode ==
  Spec => [](\A r \in Responses :
               /\ sent[r] /\ decidedIn[r] # "enforce"
               /\ ClassifyTier(request[r].action) # "AUTO_SAFE"
               => /\ request[r].origin = "manual"
                  /\ request[r].by \in Analysts /\ May(request[r].by, "REQUEST")
                  /\ approver[r] \in Analysts /\ May(approver[r], "DECIDE"))
<1>1. ExecutionIsAuthorized =>
        \A r \in Responses :
          /\ sent[r] /\ decidedIn[r] # "enforce"
          /\ ClassifyTier(request[r].action) # "AUTO_SAFE"
          => /\ request[r].origin = "manual"
             /\ request[r].by \in Analysts /\ May(request[r].by, "REQUEST")
             /\ approver[r] \in Analysts /\ May(approver[r], "DECIDE")
  BY DEF ExecutionIsAuthorized, IsAuthorized, AuthorizedByTier, AuthorizedByAnalyst,
         StagedProperly
<1> QED
  BY <1>1, ExecutionAuthorized, PTL

\* What is reported as cancelled never reached an agent.
THEOREM CancelledNeverReachedAgent == Spec => []CancelledNeverRan
<1>1. FlowInv => CancelledNeverRan
  <2> SUFFICES ASSUME FlowInv, NEW r \in Created, Canonical(r) = "CANCELLED"
               PROVE  ~ sent[r] /\ agent[r] = "none" /\ ~ effect[r]
    BY DEF CancelledNeverRan
  <2>1. r \in Responses /\ Sound(r) /\ TypeOK
    BY DEF FlowInv, Created
  <2>2. cmd[r] \in {"NONE", "CANCELLED"}
    BY DEF Canonical
  <2>3. ~ sent[r]
    BY <2>1, <2>2 DEF Sound, WireOrder, Reported
  <2>4. agent[r] = "none"
    BY <2>1, <2>3 DEF Sound, WireOrder
  <2> QED
    BY <2>1, <2>3, <2>4 DEF Sound, WireOrder
<1> QED
  BY <1>1, FlowInvariant, PTL

\* The recorded outcome agrees with the evidence it came with.
THEOREM EvidenceDecidesOutcome == Spec => []EvidenceDecides
<1>1. FlowInv => EvidenceDecides
  <2> SUFFICES ASSUME FlowInv, NEW r \in Created, agent[r] = "reported",
                      result[r].execution = "given"
               PROVE  /\ cmd[r] = "SUCCEEDED" => effect[r]
                      /\ cmd[r] \in {"FAILED", "REJECTED"} => ~ effect[r]
    BY DEF EvidenceDecides
  <2>1. r \in Responses /\ Sound(r) /\ TypeOK
    BY DEF FlowInv, Created
  <2>2. /\ result[r].evidence.completion_observed => effect[r]
        /\ effect[r] => result[r].evidence.action_initiated
    BY <2>1 DEF Sound, ReportsAreTrue
  <2>3. cmd[r] \in Reported =>
          /\ cmd[r] = OutcomeState[result[r].outcome]
          /\ result[r].outcome \in OutcomesFor(result[r].evidence)
    BY <2>1 DEF Sound, ReportsAreTrue, ValidResult, EvidenceAgrees
  <2>4. result[r].outcome \in Outcomes
    BY <2>1 DEF TypeOK, Report
  <2>5. cmd[r] = "SUCCEEDED" => effect[r]
    BY <2>2, <2>3, <2>4 DEF Reported, OutcomeState, OutcomesFor, Outcomes
  <2>6. cmd[r] \in {"FAILED", "REJECTED"} => ~ effect[r]
    BY <2>2, <2>3, <2>4 DEF Reported, OutcomeState, OutcomesFor, Outcomes
  <2> QED
    BY <2>5, <2>6
<1> QED
  BY <1>1, FlowInvariant, PTL

\* The incident's status never hides a containment that took effect.
THEOREM StatusShowsExecution == Spec => []StatusNeverHidesExecution
<1>1. FlowInv => StatusNeverHidesExecution
  <2> SUFFICES ASSUME FlowInv, NEW r \in Created, IsContainment(r), effect[r]
               PROVE  Status \in {"contained", "containment_unverified",
                                  "containment_failed", "response_executing"}
    BY DEF StatusNeverHidesExecution
  <2>1. r \in Responses /\ Sound(r)
    BY DEF FlowInv, Created
  <2>2. cmd[r] \in {"DISPATCHED", "ACCEPTED", "EXPIRED"} \cup Reported
    BY <2>1 DEF Sound, WireOrder
  <2>3. /\ Item(r) \in {Item(q) : q \in Created}
        /\ Item(r).action \in CONTAINMENT_ACTIONS /\ Item(r).command = cmd[r]
    BY DEF Item, IsContainment
  <2>4. Item(r).command \in {"AUTHORIZED", "DISPATCHED", "ACCEPTED", "SUCCEEDED",
                             "FAILED", "REJECTED", "INDETERMINATE", "EXPIRED"}
    BY <2>2, <2>3 DEF Reported
  <2> QED
    BY <2>3, <2>4, SentContainmentShows DEF Status
<1> QED
  BY <1>1, FlowInvariant, PTL

\* A containment whose own status is simulated, pending or merely recorded never left for
\* an agent, however it was previewed before: where derive_response_status reads commands,
\* it keeps simulated and executed apart (automation.py:337-349).
THEOREM SimulatedContainmentNeverRan ==
  Spec => [](\A r \in Created :
               /\ IsContainment(r)
               /\ ItemStatus(Item(r)) \in {"simulated_containment", "response_recorded",
                                           "awaiting_approval"}
               => ~ sent[r] /\ agent[r] = "none" /\ ~ effect[r])
<1>1. FlowInv => \A r \in Created :
                   /\ IsContainment(r)
                   /\ ItemStatus(Item(r)) \in {"simulated_containment", "response_recorded",
                                               "awaiting_approval"}
                   => ~ sent[r] /\ agent[r] = "none" /\ ~ effect[r]
  <2> SUFFICES ASSUME FlowInv, NEW r \in Created, IsContainment(r),
                      ItemStatus(Item(r)) \in {"simulated_containment", "response_recorded",
                                              "awaiting_approval"}
               PROVE  ~ sent[r] /\ agent[r] = "none" /\ ~ effect[r]
    OBVIOUS
  <2>1. r \in Responses /\ Sound(r) /\ TypeOK
    BY DEF FlowInv, Created
  <2>2. Item(r).action \in CONTAINMENT_ACTIONS /\ Item(r).command = cmd[r]
    BY DEF Item, IsContainment
  <2>3. cmd[r] \notin {"DISPATCHED", "ACCEPTED", "EXPIRED"} \cup Reported
    BY <2>2 DEF ItemStatus, Reported
  <2>4. ~ sent[r]
    BY <2>1, <2>3 DEF Sound, WireOrder
  <2> QED
    BY <2>1, <2>4 DEF Sound, WireOrder
<1> QED
  BY <1>1, FlowInvariant, PTL

\* "contained" is said only of a containment that took effect.
THEOREM ContainedMeansContained == Spec => []ContainedIsReal
<1>1. FlowInv => ContainedIsReal
  <2> SUFFICES ASSUME FlowInv, Status = "contained"
               PROVE  \E r \in Created : IsContainment(r) /\ effect[r]
    BY DEF ContainedIsReal
  <2> DEFINE items == {Item(q) : q \in Created}
  <2>1. PICK it \in items : ItemStatus(it) = "contained"
    BY ContainedHasItem DEF Status
  <2>2. PICK r \in Created : it = Item(r)
    BY <2>1
  <2>3. /\ Item(r).action \in CONTAINMENT_ACTIONS
        /\ Item(r).verified
    BY <2>1, <2>2 DEF ItemStatus
  <2>4. r \in Responses /\ Sound(r)
    BY DEF FlowInv, Created
  <2>5. agent[r] = "reported" /\ result[r].verified
    BY <2>3 DEF Item
  <2> QED
    BY <2>3, <2>4, <2>5 DEF Item, IsContainment, Sound, ReportsAreTrue
<1> QED
  BY <1>1, FlowInvariant, PTL

\* A command that succeeded is frozen, with everything its item is made of.
LEMMA SucceededIsFrozen ==
  ASSUME FlowInv, [Next]_vars, NEW r \in Responses, cmd[r] = "SUCCEEDED"
  PROVE  Item(r)' = Item(r) /\ row'[r] # "NONE"
<1>1. TypeOK /\ Sound(r)
  BY DEF FlowInv
<1>2. row[r] = "AUTHORIZED" /\ agent[r] = "reported"
  BY <1>1 DEF Sound, TablesAgree, ReportsAreTrue, Reported
<1>3. \A s : ~ MoveCommand(r, s)
  BY DEF MoveCommand, IsLegalTransition, Terminal
<1>4. ~ Create(r) /\ ~ Execute(r) /\ ~ Manage(r)
  BY <1>2, <1>3 DEF Create, OnAlertCreated, ManualRequest, Execute, AgentReceive,
     AgentInitiate, AgentReport, Manage, Authorize, Decline, Cancel, Poll, Accept,
     SubmitResult, Expire, ExpireRow, ExpireCommand
<1> DEFINE Kept == /\ request'[r] = request[r] /\ decision'[r] = decision[r]
                   /\ row'[r] = row[r] /\ cmd'[r] = cmd[r]
                   /\ agent'[r] = agent[r] /\ result'[r] = result[r]
<1>5. ASSUME UNCHANGED vars \/ SetMode PROVE Kept
  BY <1>5 DEF vars, SetMode, managerVars, agentVars
<1>6. ASSUME NEW q \in Responses \ {r}, Create(q) PROVE Kept
  <2>1. CASE OnAlertCreated(q)
    BY <1>1, <2>1 DEF OnAlertCreated, TypeOK, agentVars
  <2>2. CASE ManualRequest(q)
    BY <1>1, <2>2 DEF ManualRequest, TypeOK, agentVars
  <2> QED
    BY <1>6, <2>1, <2>2 DEF Create
<1>7. ASSUME NEW q \in Responses \ {r}, Manage(q) PROVE Kept
  <2>1. CASE Authorize(q)
    BY <1>1, <2>1 DEF Authorize, TypeOK, agentVars
  <2>2. CASE Decline(q) \/ ExpireRow(q)
    BY <1>1, <2>2 DEF Decline, ExpireRow, TypeOK, managerVars, agentVars
  <2>3. CASE Cancel(q) \/ Poll(q) \/ Accept(q) \/ SubmitResult(q) \/ ExpireCommand(q)
    BY <1>1, <2>3 DEF Cancel, Poll, Accept, SubmitResult, ExpireCommand, MoveCommand,
       TypeOK, managerVars, agentVars
  <2> QED
    BY <1>7, <2>1, <2>2, <2>3 DEF Manage, Expire
<1>8. ASSUME NEW q \in Responses \ {r}, Execute(q) PROVE Kept
  BY <1>1, <1>8 DEF Execute, AgentReceive, AgentInitiate, AgentReport, TypeOK, managerVars
<1>9. Kept
  BY <1>4, <1>5, <1>6, <1>7, <1>8 DEF Next
<1> QED
  BY <1>2, <1>9 DEF Item

\* Once the incident is contained, no step of anybody takes the verdict back.
THEOREM ContainedStaysContained == Spec => ContainedIsStable
<1>1. FlowInv /\ [Next]_vars => (Status = "contained" => Status' = "contained")
  <2> SUFFICES ASSUME FlowInv, [Next]_vars, Status = "contained"
               PROVE  Status' = "contained"
    OBVIOUS
  <2>1. PICK r \in Created : ItemStatus(Item(r)) = "contained"
    BY ContainedHasItem DEF Status
  <2>2. r \in Responses /\ Item(r).command = "SUCCEEDED"
    BY <2>1 DEF ItemStatus, Created
  <2>3. cmd[r] = "SUCCEEDED"
    BY <2>2 DEF Item
  <2>4. Item(r)' = Item(r) /\ row'[r] # "NONE"
    BY <2>2, <2>3, SucceededIsFrozen
  <2> DEFINE after == {Item(q)' : q \in Created'}
  <2>5. Item(r) \in after
    BY <2>2, <2>4 DEF Created
  <2>6. ItemStatus(Item(r)) = Precedence[1]
    BY <2>1 DEF Precedence
  <2>7. Status' = DeriveResponseStatus(after, "open")
    BY DEF Status
  <2> HIDE DEF after
  <2>8. PICK i \in 1 .. 1 : DeriveResponseStatus(after, "open") = Precedence[i]
    BY <2>5, <2>6, StatusIsStrongest
  <2> QED
    BY <2>7, <2>8 DEF Precedence
<1> QED
  BY <1>1, FlowInvariant, PTL DEF Spec, ContainedIsStable

-----------------------------------------------------------------------------
(* The two tables implement the lifecycle.                                 *)

LEMMA SameRule ==
  ASSUME NEW s, NEW t
  PROVE  LC!IsLegalTransition(s, t) <=> IsLegalTransition(s, t)
BY DEF LC!IsLegalTransition, IsLegalTransition, LC!Terminal, Terminal,
       LC!LegalTransitions, LegalTransitions, LC!ResponseActionState,
       ResponseActionState, LC!Reported, Reported

\* A handler that changes one response along a legal transition, or not at all,
\* is a lifecycle step or a stutter.
LEMMA CanonicalStep ==
  ASSUME NEW r \in Responses,
         \A q \in Responses \ {r} : row'[q] = row[q] /\ cmd'[q] = cmd[q],
         Canonical(r)' \in ResponseActionState,
         Canonical(r)' = Canonical(r) \/ IsLegalTransition(Canonical(r), Canonical(r)')
  PROVE  [LC!Next]_CanonicalState
<1>1. \A q \in Responses \ {r} : Canonical(q)' = Canonical(q)
  BY DEF Canonical
<1>2. CASE Canonical(r)' = Canonical(r)
  BY <1>1, <1>2 DEF CanonicalState
<1>3. CASE IsLegalTransition(Canonical(r), Canonical(r)')
  <2>1. CanonicalState' = [CanonicalState EXCEPT ![r] = Canonical(r)']
    BY <1>1 DEF CanonicalState
  <2>2. LC!IsLegalTransition(CanonicalState[r], Canonical(r)')
    BY <1>3, SameRule DEF CanonicalState
  <2>3. LC!Move(r, Canonical(r)')
    BY <2>1, <2>2 DEF LC!Move
  <2>4. Canonical(r)' \in LC!ResponseActionState
    BY DEF LC!ResponseActionState, ResponseActionState, LC!Terminal, Terminal
  <2> QED
    BY <2>3, <2>4 DEF LC!Next
<1> QED
  BY <1>2, <1>3

\* A move of the commands table is the same move of the lifecycle.
LEMMA CommandMoveRefines ==
  ASSUME FlowInv, NEW r \in Responses, NEW s \in ResponseActionState \ {"PENDING"},
         MoveCommand(r, s), UNCHANGED row
  PROVE  [LC!Next]_CanonicalState
<1>1. /\ cmd'[r] = s /\ cmd[r] # "NONE"
      /\ \A q \in Responses \ {r} : cmd'[q] = cmd[q]
      /\ IsLegalTransition(cmd[r], s)
  BY CommandMoves DEF FlowInv
<1>2. s # "NONE"
  BY DEF ResponseActionState, Terminal
<1>3. Canonical(r) = cmd[r] /\ Canonical(r)' = s
  BY <1>1, <1>2 DEF Canonical
<1> QED
  BY <1>1, <1>3, CanonicalStep

\* A change of the response_actions row, with the command it may create.
LEMMA RowMoveRefines ==
  ASSUME FlowInv, NEW r \in Responses,
         row[r] \in {"NONE", "PENDING"},
         NEW s, row' = [row EXCEPT ![r] = s],
         \A q \in Responses \ {r} : cmd'[q] = cmd[q],
         \/ s = "AUTHORIZED" /\ cmd'[r] = "AUTHORIZED"
         \/ s \in {"PENDING", "REJECTED"} /\ cmd'[r] = cmd[r]
         \/ s = "EXPIRED" /\ cmd'[r] = cmd[r]
  PROVE  [LC!Next]_CanonicalState
<1>1. TypeOK /\ cmd[r] = "NONE"
  BY DEF FlowInv, Sound, TablesAgree
<1>2. row'[r] = s /\ \A q \in Responses \ {r} : row'[q] = row[q]
  BY <1>1 DEF TypeOK
<1>3. Canonical(r) = "PENDING"
  BY <1>1 DEF Canonical
<1>4. Canonical(r)' \in {"PENDING", "AUTHORIZED", "CANCELLED", "EXPIRED"}
  BY <1>1, <1>2 DEF Canonical
<1>5. /\ Canonical(r)' \in ResponseActionState
      /\ Canonical(r)' = "PENDING" \/ IsLegalTransition("PENDING", Canonical(r)')
  BY <1>4 DEF ResponseActionState, Terminal, IsLegalTransition, LegalTransitions, Reported
<1> QED
  BY <1>2, <1>3, <1>5, CanonicalStep

\* Every handler of Manager and of the agents is a legal lifecycle step or
\* leaves the lifecycle alone.
THEOREM FlowRefinesLifecycle == Spec => RefinesLifecycle
<1>1. Init => LC!Init
  BY DEF Init, LC!Init, Canonical, CanonicalState
<1>2. FlowInv /\ [Next]_vars => [LC!Next]_CanonicalState
  <2> SUFFICES ASSUME FlowInv, [Next]_vars
               PROVE  [LC!Next]_CanonicalState
    OBVIOUS
  <2>1. CASE row' = row /\ cmd' = cmd
    BY <2>1 DEF Canonical, CanonicalState
  <2>2. ASSUME NEW r \in Responses, OnAlertCreated(r)
        PROVE  [LC!Next]_CanonicalState
    <3>1. PICK d : /\ row[r] = "NONE" /\ row' = [row EXCEPT ![r] = RowFor(d)]
                   /\ cmd' = [cmd EXCEPT ![r] = IF d.auto_execute THEN "AUTHORIZED" ELSE cmd[r]]
      BY <2>2 DEF OnAlertCreated
    <3>2. /\ cmd'[r] = IF d.auto_execute THEN "AUTHORIZED" ELSE cmd[r]
          /\ \A q \in Responses \ {r} : cmd'[q] = cmd[q]
      BY <3>1 DEF FlowInv, TypeOK
    <3> QED
      BY <3>1, <3>2, RowMoveRefines DEF RowFor
  <2>3. ASSUME NEW r \in Responses, ManualRequest(r)
        PROVE  [LC!Next]_CanonicalState
    BY <2>3, RowMoveRefines DEF ManualRequest
  <2>4. ASSUME NEW r \in Responses, Authorize(r)
        PROVE  [LC!Next]_CanonicalState
    <3>1. cmd'[r] = "AUTHORIZED" /\ \A q \in Responses \ {r} : cmd'[q] = cmd[q]
      BY <2>4 DEF Authorize, FlowInv, TypeOK
    <3> QED
      BY <2>4, <3>1, RowMoveRefines DEF Authorize
  <2>5. ASSUME NEW r \in Responses, Decline(r) \/ ExpireRow(r)
        PROVE  [LC!Next]_CanonicalState
    BY <2>5, RowMoveRefines DEF Decline, ExpireRow
  <2>6. ASSUME NEW r \in Responses,
               Cancel(r) \/ Poll(r) \/ Accept(r) \/ SubmitResult(r) \/ ExpireCommand(r)
        PROVE  [LC!Next]_CanonicalState
    <3>1. result[r].outcome \in Outcomes
      BY DEF FlowInv, TypeOK, Report
    <3>2. OutcomeState[result[r].outcome] \in Reported
      BY <3>1 DEF Outcomes, OutcomeState, Reported
    <3>3. PICK s \in {"CANCELLED", "DISPATCHED", "ACCEPTED", "EXPIRED"} \cup Reported :
            MoveCommand(r, s) /\ UNCHANGED row
      BY <2>6, <3>2 DEF Cancel, Poll, Accept, SubmitResult, ExpireCommand
    <3>4. s \in ResponseActionState \ {"PENDING"}
      BY DEF ResponseActionState, Terminal, Reported
    <3> QED
      BY <3>3, <3>4, CommandMoveRefines
  <2>7. CASE UNCHANGED vars \/ SetMode
    BY <2>1, <2>7 DEF vars, SetMode
  <2>8. ASSUME NEW r \in Responses, Execute(r)
        PROVE  [LC!Next]_CanonicalState
    BY <2>1, <2>8 DEF Execute, AgentReceive, AgentInitiate, AgentReport
  <2> QED
    BY <2>2, <2>3, <2>4, <2>5, <2>6, <2>7, <2>8 DEF Next, Create, Manage, Expire
<1> QED
  BY <1>1, <1>2, FlowInvariant, PTL DEF Spec, RefinesLifecycle, LC!Spec

-----------------------------------------------------------------------------
(* What Settles rests on.                                                  *)

\* The guards of the sweep, in the one table and in the other.
MaySweep(r) ==
  row[r] = "PENDING" \/ (cmd[r] # "NONE" /\ IsLegalTransition(cmd[r], "EXPIRED"))

\* No response is ever in a state that the sweep cannot end: whatever analysts, agents
\* and messages did, it has ended or can lapse (lifecycle.py:116-118, 136).
THEOREM SweepIsNeverStuck ==
  Spec => [](\A r \in Created : Canonical(r) \in Terminal \/ MaySweep(r))
<1>1. FlowInv => \A r \in Created : Canonical(r) \in Terminal \/ MaySweep(r)
  <2> SUFFICES ASSUME FlowInv, NEW r \in Created, Canonical(r) \notin Terminal
               PROVE  MaySweep(r)
    OBVIOUS
  <2>1. /\ cmd[r] \in CmdStates /\ row[r] \in RowStates \ {"NONE"}
        /\ (cmd[r] # "NONE" <=> row[r] = "AUTHORIZED")
    BY DEF FlowInv, TypeOK, Sound, TablesAgree, Created
  <2>2. CASE cmd[r] = "NONE"
    <3>1. row[r] \in {"PENDING", "REJECTED", "EXPIRED"}
      BY <2>1, <2>2 DEF RowStates
    <3>2. row[r] \notin {"REJECTED", "EXPIRED"}
      BY <2>2 DEF Canonical, Terminal
    <3>. QED
      BY <3>1, <3>2 DEF MaySweep
  <2>3. CASE cmd[r] # "NONE"
    <3>1. cmd[r] \in ResponseActionState \ Terminal
      BY <2>1, <2>3 DEF Canonical, CmdStates
    <3>2. IsLegalTransition(cmd[r], "EXPIRED")
      BY <3>1 DEF IsLegalTransition, LegalTransitions, ResponseActionState, Terminal
    <3>. QED
      BY <2>3, <3>2 DEF MaySweep
  <2>. QED
    BY <2>2, <2>3
<1>. QED
  BY <1>1, FlowInvariant, PTL

\* The sweep steps only where one of its guards holds, never on a response that has
\* ended, and one step of it ends the response, in whichever table it is found
\* (lifecycle.py:34-39, 116-118).
THEOREM SweepSettles ==
  ASSUME FlowInv, NEW r \in Responses, Expire(r)
  PROVE  /\ MaySweep(r) /\ Canonical(r) \notin Terminal
         /\ Canonical(r)' = "EXPIRED" /\ Canonical(r)' \in Terminal
<1>1. /\ cmd[r] \in CmdStates /\ row \in [Responses -> RowStates]
      /\ (cmd[r] # "NONE" <=> row[r] = "AUTHORIZED")
  BY DEF FlowInv, TypeOK, Sound, TablesAgree
<1>2. "EXPIRED" \in Terminal /\ "PENDING" \notin Terminal
  BY DEF Terminal
<1>3. CASE ExpireRow(r)
  <2>1. row[r] = "PENDING" /\ row'[r] = "EXPIRED" /\ cmd'[r] = cmd[r]
    BY <1>1, <1>3 DEF ExpireRow
  <2>2. cmd[r] = "NONE"
    BY <1>1, <2>1
  <2>. QED
    BY <1>2, <2>1, <2>2 DEF Canonical, MaySweep
<1>4. CASE ExpireCommand(r)
  <2>1. TypeOK /\ "EXPIRED" \in ResponseActionState \ {"PENDING"}
    BY DEF FlowInv, ResponseActionState, Terminal
  <2>2. /\ cmd'[r] = "EXPIRED" /\ cmd[r] # "NONE" /\ cmd[r] \in ResponseActionState
        /\ IsLegalTransition(cmd[r], "EXPIRED")
    BY <1>4, <2>1, CommandMoves DEF ExpireCommand
  <2>3. cmd[r] \notin Terminal
    BY <2>1, <2>2, LegalMoves
  <2>. QED
    BY <1>2, <2>2, <2>3 DEF Canonical, MaySweep
<1>. QED
  BY <1>3, <1>4 DEF Expire
=============================================================================
