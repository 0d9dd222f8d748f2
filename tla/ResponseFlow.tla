---------------------------- MODULE ResponseFlow ----------------------------
(***************************************************************************)
(* The library in use: Panopticon Manager answering alerts and analysts,   *)
(* endpoint agents executing what was dispatched, results coming back or   *)
(* not.  Every decision is taken by the library's own operators:           *)
(* EvaluatePolicy, PermissionsFor, IsLegalTransition, ValidResult and       *)
(* DeriveResponseStatus.  Manager and the agents are outside src/; their    *)
(* handlers are modelled from the two-table mapping in lifecycle.py:16-54   *)
(* and the consumer contract in docs/AUTOMATED_RESPONSE.md.                 *)
(*                                                                         *)
(* A handler is one transaction (they serialize through the database write *)
(* lock); the wire, the agent and the expiry sweep interleave freely.  A    *)
(* dispatched command may be lost or delivered late, an agent may be        *)
(* interrupted at any point, a result may be lost, late or repeated.        *)
(***************************************************************************)
EXTENDS Automation, LifecycleTable

CONSTANTS
  Responses,     \* the response actions of one incident
  Analysts,      \* the enrolled analysts
  RoleOf,        \* RoleOf[a]: the role of analyst a
  Cases,         \* [alert, action]: the alerts, each with its translated action
  ManualActions, \* what analysts ask for on their own
  Policies       \* the policy set Manager passes to evaluate_policy

AnyMode == GlobalModes \cup {"misconfigured"}

ASSUME FlowAssumption ==
  /\ Cases \subseteq [alert : Alert, action : ActionName]
  /\ ManualActions \subseteq ClosedActions
  /\ Policies \in Seq(Policy)
  /\ Analysts \subseteq STRING /\ {"system", "nobody"} \cap Analysts = {}
  /\ DOMAIN RoleOf = Analysts

VARIABLES
  mode,       \* PANOPTICON_RESPONSE_MODE
  request,    \* request[r]: what was asked, by an alert or an analyst
  decision,   \* decision[r]: the immutable policy decision
  decidedIn,  \* decidedIn[r]: history, the mode set when r was asked for
  row,        \* row[r]: response_actions.lifecycle_state, NONE before it exists
  cmd,        \* cmd[r]: commands.lifecycle_state, NONE before it exists
  approver,   \* approver[r]: who authorized the command
  sent,       \* sent[r]: the command has left for the agent
  agent,      \* agent[r]: the agent's inbox entry for the command
  effect,     \* effect[r]: ground truth, the action took effect on the host
  result      \* result[r]: the message the agent committed to report

managerVars == <<request, decision, decidedIn, approver>>
agentVars   == <<agent, effect, result>>
vars == <<mode, managerVars, row, cmd, sent, agentVars>>

-----------------------------------------------------------------------------
RowStates == {"NONE", "PENDING", "AUTHORIZED", "REJECTED", "EXPIRED"}
CmdStates == {"NONE"} \cup (ResponseActionState \ {"PENDING"})
AgentStates == {"none", "intent", "initiated", "reported"}

OutcomeState == [succeeded |-> "SUCCEEDED", failed |-> "FAILED",
                 rejected |-> "REJECTED", indeterminate |-> "INDETERMINATE"]

NoRequest  == [origin |-> "none", by |-> "nobody", action |-> NoAction, malformed |-> FALSE,
               marker |-> FALSE]
NoDecision == Decide("default-tier", NoAction, "record", DEFAULT_GLOBAL_MODE, 0)

\* What a report says of the execution when it carries no evidence.
NoEvidence == [stage |-> "preflight", action_initiated |-> FALSE,
               completion_observed |-> FALSE, native_error |-> FALSE]
NoResult   == [schema |-> "2", outcome |-> "rejected", correlated |-> TRUE,
               execution |-> "absent", evidence |-> NoEvidence, verified |-> FALSE]

Report ==
  [schema : {"2"}, outcome : Outcomes, correlated : {TRUE},
   execution : {"absent", "given"}, evidence : Evidence, verified : BOOLEAN]

May(a, permission) == permission \in PermissionsFor(RoleOf[a])

Init ==
  /\ mode \in AnyMode
  /\ request   = [r \in Responses |-> NoRequest]
  /\ decision  = [r \in Responses |-> NoDecision]
  /\ decidedIn = [r \in Responses |-> "none"]
  /\ row       = [r \in Responses |-> "NONE"]
  /\ cmd       = [r \in Responses |-> "NONE"]
  /\ approver  = [r \in Responses |-> "nobody"]
  /\ sent      = [r \in Responses |-> FALSE]
  /\ agent     = [r \in Responses |-> "none"]
  /\ effect    = [r \in Responses |-> FALSE]
  /\ result    = [r \in Responses |-> NoResult]

-----------------------------------------------------------------------------
(* Manager: creating a response.                                           *)

\* The operator restarts Manager with another PANOPTICON_RESPONSE_MODE.
SetMode ==
  /\ mode' \in AnyMode \ {mode}
  /\ UNCHANGED <<managerVars, row, cmd, sent, agentVars>>

\* Mutant: whatever asks for a preview is staged.
StagedPreview(d) ==
  IF d.auto_execute THEN "AUTHORIZED"
  ELSE IF d.simulate THEN "PENDING"
  ELSE "REJECTED"

\* The row each execution mode leaves behind.
RowFor(d) ==
  IF d.auto_execute THEN "AUTHORIZED"
  ELSE IF d.mode = "approval" THEN "PENDING"
  ELSE "REJECTED"

\* Manager's on_alert_created, inside the detection transaction: decide, and
\* stage or, for an auto decision, authorize the command at once.
OnAlertCreated(r) ==
  /\ row[r] = "NONE"
  /\ \E c \in Cases :
       LET d == EvaluatePolicy(c.alert, c.action, Policies, mode) IN
       /\ request' = [request EXCEPT ![r] =
            [origin |-> "alert", by |-> "nobody", action |-> c.action,
             malformed |-> Malformed(c.alert), marker |-> CarriesMarker(c.alert)]]
       /\ decision'  = [decision EXCEPT ![r] = d]
       /\ decidedIn' = [decidedIn EXCEPT ![r] = mode]
       /\ row' = [row EXCEPT ![r] = RowFor(d)]
       /\ cmd' = [cmd EXCEPT ![r] = IF d.auto_execute THEN "AUTHORIZED" ELSE @]
       /\ approver' = [approver EXCEPT ![r] = IF d.auto_execute THEN "system" ELSE @]
  /\ UNCHANGED <<mode, sent, agentVars>>

\* An analyst asks for an action: it always awaits an explicit approval.  No
\* part of the library that answers a request reads the global mode.
ManualRequest(r) ==
  /\ row[r] = "NONE"
  /\ \E a \in Analysts, x \in ManualActions :
       /\ May(a, "REQUEST")
       /\ request' = [request EXCEPT ![r] =
            [origin |-> "manual", by |-> a, action |-> x, malformed |-> FALSE,
             marker |-> FALSE]]
  /\ decidedIn' = [decidedIn EXCEPT ![r] = mode]
  /\ row' = [row EXCEPT ![r] = "PENDING"]
  /\ UNCHANGED <<mode, decision, approver, cmd, sent, agentVars>>

-----------------------------------------------------------------------------
(* Manager: the two tables.                                                *)

\* The pending row is translated into a commands row.
Authorize(r) ==
  /\ row[r] = "PENDING"
  /\ \E a \in Analysts :
       /\ May(a, "DECIDE")
       /\ approver' = [approver EXCEPT ![r] = a]
  /\ row' = [row EXCEPT ![r] = "AUTHORIZED"]
  /\ cmd' = [cmd EXCEPT ![r] = "AUTHORIZED"]
  /\ UNCHANGED <<mode, request, decision, decidedIn, sent, agentVars>>

\* A pending row declined is stored as REJECTED, the lifecycle's CANCELLED.
Decline(r) ==
  /\ row[r] = "PENDING"
  /\ \E a \in Analysts : May(a, "DECIDE")
  /\ row' = [row EXCEPT ![r] = "REJECTED"]
  /\ UNCHANGED <<mode, managerVars, cmd, sent, agentVars>>

\* Mutant: the row is updated without asking the library.
ForceCommand(r, s) ==
  /\ cmd[r] # "NONE"
  /\ cmd' = [cmd EXCEPT ![r] = s]

\* The commands row moves where the library allows, and nowhere else.
MoveCommand(r, s) ==
  /\ cmd[r] # "NONE"
  /\ IsLegalTransition(cmd[r], s)
  /\ cmd' = [cmd EXCEPT ![r] = s]

Cancel(r) ==
  /\ MoveCommand(r, "CANCELLED")
  /\ UNCHANGED <<mode, managerVars, row, sent, agentVars>>

\* The agent polls; from here on the command may reach it at any time.
Poll(r) ==
  /\ MoveCommand(r, "DISPATCHED")
  /\ sent' = [sent EXCEPT ![r] = TRUE]
  /\ UNCHANGED <<mode, managerVars, row, agentVars>>

\* POST .../accept, the optional acknowledgement.
Accept(r) ==
  /\ agent[r] # "none"
  /\ MoveCommand(r, "ACCEPTED")
  /\ UNCHANGED <<mode, managerVars, row, sent, agentVars>>

\* A result the contract accepts, submitted once, again, or too late.
SubmitResult(r) ==
  /\ agent[r] = "reported"
  /\ ValidResult(result[r])
  /\ MoveCommand(r, OutcomeState[result[r].outcome])
  /\ UNCHANGED <<mode, managerVars, row, sent, agentVars>>

\* The sweep over lapsed windows, in either table.
ExpireRow(r) ==
  /\ row[r] = "PENDING"
  /\ row' = [row EXCEPT ![r] = "EXPIRED"]
  /\ UNCHANGED <<mode, managerVars, cmd, sent, agentVars>>

ExpireCommand(r) ==
  /\ MoveCommand(r, "EXPIRED")
  /\ UNCHANGED <<mode, managerVars, row, sent, agentVars>>

Expire(r) == ExpireRow(r) \/ ExpireCommand(r)

-----------------------------------------------------------------------------
(* The endpoint agent.  Redelivery of a command it has an inbox entry for  *)
(* is ignored, so receiving happens once.                                  *)

AgentReceive(r) ==
  /\ sent[r]
  /\ agent[r] = "none"
  /\ agent' = [agent EXCEPT ![r] = "intent"]
  /\ UNCHANGED <<mode, managerVars, row, cmd, sent, effect, result>>

\* The native action is called; it may or may not take effect.
AgentInitiate(r) ==
  /\ agent[r] = "intent"
  /\ agent' = [agent EXCEPT ![r] = "initiated"]
  /\ \E e \in BOOLEAN : effect' = [effect EXCEPT ![r] = e]
  /\ UNCHANGED <<mode, managerVars, row, cmd, sent, result>>

\* The agent commits a report, after a refusal, an execution or a restart.
\* Its evidence, when it gives any, and its "verified:" observation are true;
\* the outcome it names is its own reading and may contradict them.
AgentReport(r) ==
  /\ agent[r] \in {"intent", "initiated"}
  /\ agent' = [agent EXCEPT ![r] = "reported"]
  /\ \E seen, verified \in BOOLEAN, outcome \in Outcomes,
        execution \in {"absent", "given"} :
       /\ seen => agent[r] = "initiated" /\ effect[r]
       /\ verified => seen
       /\ result' = [result EXCEPT ![r] =
            [schema |-> "2", outcome |-> outcome, correlated |-> TRUE,
             execution |-> execution,
             evidence |->
               IF execution = "absent" THEN NoEvidence
               ELSE [stage |-> IF agent[r] = "initiated" THEN "completion" ELSE "identity",
                     action_initiated |-> (agent[r] = "initiated"),
                     completion_observed |-> seen, native_error |-> FALSE],
             verified |-> verified]]
  /\ UNCHANGED <<mode, managerVars, row, cmd, sent, effect>>

-----------------------------------------------------------------------------
Create(r)  == OnAlertCreated(r) \/ ManualRequest(r)
Manage(r)  == Authorize(r) \/ Decline(r) \/ Cancel(r) \/ Poll(r) \/ Accept(r)
                \/ SubmitResult(r) \/ Expire(r)
Execute(r) == AgentReceive(r) \/ AgentInitiate(r) \/ AgentReport(r)

Next == SetMode \/ \E r \in Responses : Create(r) \/ Manage(r) \/ Execute(r)

Spec == Init /\ [][Next]_vars

\* Only the sweep is bound to act: analysts, agents and the wire may not.
FairSpec == Spec /\ \A r \in Responses : WF_vars(Expire(r))

-----------------------------------------------------------------------------
(* What the incident reports, and the lifecycle the tables stand for.      *)

Created == {r \in Responses : row[r] # "NONE"}

Item(r) ==
  [action |-> request[r].action, lifecycle_state |-> row[r], command |-> cmd[r],
   verified |-> agent[r] = "reported" /\ result[r].verified,
   simulated |-> decision[r].simulate]

Status == DeriveResponseStatus({Item(r) : r \in Created}, "open")

\* The single lifecycle state the two tables encode (lifecycle.py:16-39).
Canonical(r) ==
  IF cmd[r] # "NONE" THEN cmd[r]
  ELSE CASE row[r] = "REJECTED" -> "CANCELLED"
         [] row[r] = "EXPIRED"  -> "EXPIRED"
         [] OTHER               -> "PENDING"

CanonicalState == [r \in Responses |-> Canonical(r)]

IsContainment(r) == request[r].action \in CONTAINMENT_ACTIONS

-----------------------------------------------------------------------------
(* Properties.                                                             *)

\* The types, Manager's two-table domains (lifecycle.py:25-29) among them.
TypeOK ==
  /\ mode \in AnyMode
  /\ request \in [Responses ->
       [origin : {"none", "alert", "manual"}, by : Analysts \cup {"nobody"},
        action : ActionName, malformed : BOOLEAN, marker : BOOLEAN]]
  /\ decision \in [Responses -> Decision]
  /\ decidedIn \in [Responses -> AnyMode \cup {"none"}]
  /\ row \in [Responses -> RowStates]
  /\ cmd \in [Responses -> CmdStates]
  /\ approver \in [Responses -> Analysts \cup {"system", "nobody"}]
  /\ sent \in [Responses -> BOOLEAN]
  /\ agent \in [Responses -> AgentStates]
  /\ effect \in [Responses -> BOOLEAN]
  /\ result \in [Responses -> Report]

\* By the tier alone: an automatic decision on an alert.
AuthorizedByTier(r) ==
  /\ approver[r] = "system"
  /\ request[r].origin = "alert"
  /\ ClassifyTier(request[r].action) = "AUTO_SAFE"

\* By an analyst who may decide, and decides on a request of the same analyst's
\* only in the combined role.
AuthorizedByAnalyst(r) ==
  /\ approver[r] \in Analysts /\ May(approver[r], "DECIDE")
  /\ approver[r] = request[r].by => RoleOf[approver[r]] = "analyst"

\* What may be approved: an alert decided under enforce, or a request of an
\* analyst who may request, in whatever mode.
StagedProperly(r) ==
  \/ request[r].origin = "alert" /\ decidedIn[r] = "enforce"
  \/ /\ request[r].origin = "manual"
     /\ request[r].by \in Analysts /\ May(request[r].by, "REQUEST")

IsAuthorized(r) ==
  /\ request[r].action \in ClosedActions
  /\ ~ request[r].malformed /\ ~ request[r].marker
  /\ AuthorizedByTier(r) \/ (AuthorizedByAnalyst(r) /\ StagedProperly(r))

\* A command that left for an agent carries a closed action, asked for neither
\* by a malformed alert nor by one about the executor itself.  Unless an alert
\* asked for an AUTO_SAFE action, an analyst holding DECIDE approved it, and
\* either an alert asked and was decided while the operator had set enforce, or
\* an analyst holding REQUEST did; only the combined role decides on its own
\* request (automation.py:11-28, access.py:26-46; for requests, catalog.py:40
\* and docs/RESPONSE_OPERATIONS_PLAN.md:25, 53).  The mode holds back no request:
\* ContainmentNeedsEnforce, below, says what the documents promise there.
ExecutionIsAuthorized == \A r \in Responses : sent[r] => IsAuthorized(r)

\* What docs/AUTOMATED_RESPONSE.md:58-60 says ("enforce is required for any real
\* containment, and even then an analyst must approve each action"), as does
\* automation.py:26-27: a containment that left for an agent was asked for, by
\* an alert or by an analyst, while the operator had set enforce.
ContainmentNeedsEnforce ==
  \A r \in Responses : sent[r] /\ IsContainment(r) => decidedIn[r] = "enforce"

\* What is reported as cancelled never reached an agent and never will: a
\* declined row, a cancelled command, and both against a poll that is already
\* under way (lifecycle.py:29-39, 94-96).
CancelledNeverRan ==
  \A r \in Created :
    Canonical(r) = "CANCELLED" => ~ sent[r] /\ agent[r] = "none" /\ ~ effect[r]

\* While the incident is open its status never hides a containment that took
\* effect, whatever the other responses did, however the result was lost, late
\* or contradicted: it reads as executing, failed or (un)verified, never as
\* pending, simulated, recorded or detected (automation.py:332-362).
StatusNeverHidesExecution ==
  (\E r \in Created : IsContainment(r) /\ effect[r])
    => Status \in {"contained", "containment_unverified",
                   "containment_failed", "response_executing"}

\* "contained" is said only of a containment that took effect: not of a
\* preview, an unverified success or another action's verified success
\* (automation.py:327-329, 337-340).
ContainedIsReal ==
  Status = "contained" => \E r \in Created : IsContainment(r) /\ effect[r]

\* Once "contained", always: no later response, failure, expiry or late
\* result takes the verdict back while the incident is open
\* (automation.py:351-361, lifecycle.py:116-124).
ContainedIsStable == [][Status = "contained" => Status' = "contained"]_vars

\* The outcome Manager records agrees with the evidence it came with, however
\* the agent read its own facts: success was observed, a failure or a refusal
\* means the host was not touched (contract.py:172-192).
EvidenceDecides ==
  \A r \in Created :
    agent[r] = "reported" /\ result[r].execution = "given" =>
      /\ cmd[r] = "SUCCEEDED" => effect[r]
      /\ cmd[r] \in {"FAILED", "REJECTED"} => ~ effect[r]

\* The inductive invariant, one part per concern.  The commands row exists
\* exactly while the other row says so; a command that exists, or a pending
\* row that may become one, has its authority; the wire, the agent and the
\* effect come in that order; a report is true to what happened.
TablesAgree(r) == cmd[r] # "NONE" <=> row[r] = "AUTHORIZED"

AuthorityKept(r) ==
  /\ cmd[r] # "NONE" => IsAuthorized(r)
  /\ row[r] = "PENDING" =>
       /\ request[r].action \in ClosedActions
       /\ ~ request[r].malformed /\ ~ request[r].marker
       /\ StagedProperly(r)
       /\ request[r].by \in Analysts => May(request[r].by, "REQUEST")

WireOrder(r) ==
  /\ sent[r] => cmd[r] \in {"DISPATCHED", "ACCEPTED", "EXPIRED"} \cup Reported
  /\ agent[r] # "none" => sent[r]
  /\ effect[r] => agent[r] \in {"initiated", "reported"}

ReportsAreTrue(r) ==
  /\ agent[r] = "reported" =>
       /\ result[r].verified => effect[r]
       /\ result[r].execution = "given" =>
            /\ result[r].evidence.completion_observed => effect[r]
            /\ effect[r] => result[r].evidence.action_initiated
  /\ cmd[r] \in Reported =>
       /\ agent[r] = "reported" /\ ValidResult(result[r])
       /\ cmd[r] = OutcomeState[result[r].outcome]

Sound(r) == TablesAgree(r) /\ AuthorityKept(r) /\ WireOrder(r) /\ ReportsAreTrue(r)

FlowInv == TypeOK /\ \A r \in Responses : Sound(r)

\* The two tables and their handlers implement the lifecycle, step by step.
LC == INSTANCE Lifecycle WITH state <- CanonicalState

\* lifecycle.py:16-39: every handler is a legal lifecycle step or none at all.
RefinesLifecycle == LC!Spec

\* Every created response settles, even if every analyst and agent is silent
\* (lifecycle.py:8, 116-118, 136).
Settles ==
  \A r \in Responses : (r \in Created) ~> (Canonical(r) \in Terminal)

\* What docs/AUTOMATED_RESPONSE.md:87-88 says of derive_response_status: it
\* keeps simulated and executed apart, so an action that ran is not reported
\* as simulated.
SimulatedMeansNotExecuted ==
  \A r \in Created :
    ItemStatus(Item(r)) = "simulated_containment" => ~ effect[r]
=============================================================================
