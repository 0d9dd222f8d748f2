------------------------- MODULE ResponseContract -------------------------
(***************************************************************************)
(* The closed vocabulary of the response engine and the rules every        *)
(* consumer shares: the seven actions and their tiers (contract.py,        *)
(* policy.py), the analyst roles (access.py) and what a CommandResult must  *)
(* say to be accepted (contract.py).  Constant level: no state.            *)
(*                                                                         *)
(* An identifier, a detail or a correlation is left out; a field that may  *)
(* be None and is only tested for being None is a Boolean.                  *)
(***************************************************************************)

ClosedActions == {"KILL_PROCESS", "COLLECT_PROCESS_INFO",
            "COLLECT_NETWORK_CONNECTIONS", "COLLECT_FILE",
            "QUARANTINE_FILE", "ISOLATE_HOST", "RELEASE_HOST_ISOLATION"}

\* Stands for Python's None where an action is optional.
NoAction == "no action"

-----------------------------------------------------------------------------
Tiers == {"AUTO_SAFE", "ANALYST_APPROVAL"}

\* The rows of _TIERS that are AUTO_SAFE; every other row is ANALYST_APPROVAL.
AutoSafeRows == {"COLLECT_PROCESS_INFO", "COLLECT_NETWORK_CONNECTIONS"}

\* _TIERS.get(action, ANALYST_APPROVAL): a name outside the table included.
ClassifyTier(action) ==
  IF action \in AutoSafeRows THEN "AUTO_SAFE" ELSE "ANALYST_APPROVAL"

-----------------------------------------------------------------------------
Permissions == {"REQUEST", "DECIDE", "INVESTIGATE", "ARTIFACT_READ",
                "ARTIFACT_SCOPE_MANAGE", "TRIAGE_MANAGE"}

PermissionTable ==
  [triage_admin   |-> {"TRIAGE_MANAGE"},
   viewer         |-> {},
   responder      |-> {"REQUEST", "INVESTIGATE", "ARTIFACT_READ"},
   approver       |-> {"DECIDE", "INVESTIGATE", "ARTIFACT_READ"},
   analyst        |-> {"REQUEST", "DECIDE", "INVESTIGATE", "ARTIFACT_READ"},
   artifact_admin |-> {"ARTIFACT_READ", "ARTIFACT_SCOPE_MANAGE"}]

\* A role nobody declared holds no permission.
PermissionsFor(role) ==
  IF role \in DOMAIN PermissionTable THEN PermissionTable[role] ELSE {}

-----------------------------------------------------------------------------
Schemas  == {"1", "2"}
Outcomes == {"succeeded", "failed", "rejected", "indeterminate"}

Stages == {"preflight", "boot", "open", "identity", "image", "critical",
           "protection", "liveness", "initiate", "completion"}

\* ProcessExecutionEvidence; native_error says whether a code is given.
Evidence == [stage : Stages, action_initiated : BOOLEAN,
             completion_observed : BOOLEAN, native_error : BOOLEAN]

\* CommandResult.  execution: "absent" (the field is not set), "null" (set to
\* None) or "given", in which case evidence is read.
Result == [schema : Schemas, outcome : Outcomes, correlated : BOOLEAN,
           execution : {"absent", "null", "given"}, evidence : Evidence]

\* The outcome the facts dictate: one value, or a choice between the two
\* outcomes that mean the action was never initiated.
OutcomesFor(e) ==
  IF e.completion_observed THEN {"succeeded"}
  ELSE IF e.action_initiated THEN {"indeterminate"}
  ELSE {"failed", "rejected"}

\* Mutant: the outcome is not compared with the facts.
EvidenceOnlyConsistent(e, outcome) ==
  /\ e.action_initiated <=> (e.stage = "completion")
  /\ e.completion_observed => e.action_initiated
  /\ e.native_error => outcome \in {"failed", "indeterminate"}

\* The part of CommandResult.versioned_outcome that reads the evidence.
EvidenceAgrees(e, outcome) ==
  /\ e.action_initiated <=> (e.stage = "completion")
  /\ outcome \in OutcomesFor(e)
  /\ e.completion_observed => e.action_initiated
  /\ e.native_error => outcome \in {"failed", "indeterminate"}

\* CommandResult.versioned_outcome raises exactly when this is FALSE.
ValidResult(m) ==
  /\ m.outcome = "indeterminate" => m.schema = "2"
  /\ m.schema = "2" => m.correlated
  /\ m.execution # "absent" =>
       /\ m.schema = "2"
       /\ m.execution = "given"
       /\ EvidenceAgrees(m.evidence, m.outcome)
=============================================================================
