------------------------------- MODULE Triage -------------------------------
(***************************************************************************)
(* triage.py: which collection an alert starts on its own, which one waits  *)
(* for an analyst and which one is skipped, under the policy of its rule,   *)
(* the endpoint's capability report and the budgets.  Constant level.      *)
(*                                                                         *)
(*   - The reason of a decision is left out, and with it the order of the   *)
(*     checks that all end in "skip".                                      *)
(*   - The entries of a policy are a function of the action and the asset   *)
(*     class: the validator refuses a second entry for the same pair.      *)
(*   - A path is the platform whose absolute form it has, whether its       *)
(*     length is legal, and what its parts contain.                        *)
(***************************************************************************)
EXTENDS Integers

CONSTANTS MaxActiveGlobal,  \* MAX_ACTIVE_GLOBAL
          Reservation       \* ARTIFACT_RESERVATION_BYTES, in the unit of the byte budgets

ASSUME TriageAssumption == MaxActiveGlobal \in Nat \ {0} /\ Reservation \in Nat \ {0}

CollectActions == {"COLLECT_PROCESS_INFO", "COLLECT_NETWORK_CONNECTIONS", "COLLECT_FILE"}
AssetClasses   == {"standard", "critical", "unknown"}
Verdicts       == {"auto_dispatch", "require_approval", "skip"}

-----------------------------------------------------------------------------
\* What an exact native path never contains.
AmbiguousMarks ==
  {"control", "wildcard", "surrogate", "foreign separator", "empty part", "dot part"}
ForbiddenMarks ==
  [linux   |-> AmbiguousMarks,
   windows |-> AmbiguousMarks \cup {"reserved character", "trailing dot", "device name"}]

NoFile == [root |-> "none", length |-> "zero", marks |-> {}]

\* ApprovedFile.exact_native_path accepts.
ApprovedFile(platform, path) ==
  /\ path.length = "legal"
  /\ path.root = platform
  /\ path.marks \cap ForbiddenMarks[platform] = {}

-----------------------------------------------------------------------------
(* The policy.                                                             *)

CollectionBudget ==
  [max_actions_per_alert : 1 .. 3,
   max_bytes_per_alert : Reservation .. 3 * Reservation,
   endpoint_window : Nat \ {0},
   max_actions_per_endpoint_window : 1 .. 64,
   max_bytes_per_endpoint_window : Reservation .. 64 * Reservation,
   max_active_per_endpoint : 1 .. 8,
   workflow_ttl : Nat \ {0}]

\* ActionPolicy.enforce_automation_boundary accepts.
ValidEntry(action, asset, entry) ==
  /\ asset # "standard" => entry.decision # "auto_dispatch"
  /\ action = "COLLECT_FILE" /\ entry.decision = "auto_dispatch" <=> entry.files # {}
  /\ \A f \in entry.files : ApprovedFile(f.platform, f.path)

\* AutoTriagePolicy accepts.
ValidPolicy(policy) ==
  /\ policy.entries # << >>
  /\ policy.budget \in CollectionBudget
  /\ \A c \in DOMAIN policy.entries : ValidEntry(c[1], c[2], policy.entries[c])

Entry(decision) == [decision |-> decision, files |-> {}]

\* default_policy: the explicit matrix, disabled.
DefaultPolicy(budget) ==
  [enabled |-> FALSE, budget |-> budget,
   entries |-> [c \in CollectActions \X AssetClasses |->
      IF c[2] = "standard" /\ c[1] # "COLLECT_FILE"
      THEN Entry("auto_dispatch") ELSE Entry("require_approval")]]

-----------------------------------------------------------------------------
(* The decision.                                                           *)

\* The endpoint can, and by its own last report may, run the action now.
Capable(endpoint, action) ==
  /\ endpoint.recent
  /\ action \in endpoint.implemented /\ action \in endpoint.allowed
  /\ endpoint.mode = "enforce"
  /\ endpoint.channel /\ endpoint.gate /\ endpoint.artifacts

\* ask: the action, the asset class, and what the alert says of the target.
TargetKnown(entry, ask, endpoint) ==
  /\ ask.action = "COLLECT_PROCESS_INFO" => ask.verified
  /\ ask.action = "COLLECT_FILE" =>
       /\ ApprovedFile(endpoint.platform, ask.file)
       /\ entry.decision = "auto_dispatch" =>
            [platform |-> endpoint.platform, path |-> ask.file] \in entry.files

\* Mutants: the bytes to come are not counted; a budget is used up only when it
\* is used up exactly.
SpentBudget(budget, usage) ==
  /\ usage.actions_for_alert < budget.max_actions_per_alert
  /\ usage.bytes_for_alert < budget.max_bytes_per_alert
  /\ usage.actions_in_window < budget.max_actions_per_endpoint_window
  /\ usage.bytes_in_window < budget.max_bytes_per_endpoint_window
  /\ usage.active_for_endpoint < budget.max_active_per_endpoint
  /\ usage.active_global < MaxActiveGlobal
ExactBudget(budget, usage) ==
  /\ usage.actions_for_alert # budget.max_actions_per_alert
  /\ usage.bytes_for_alert + Reservation <= budget.max_bytes_per_alert
  /\ usage.actions_in_window # budget.max_actions_per_endpoint_window
  /\ usage.bytes_in_window + Reservation <= budget.max_bytes_per_endpoint_window
  /\ usage.active_for_endpoint # budget.max_active_per_endpoint
  /\ usage.active_global # MaxActiveGlobal

\* There is room for one action more, with its full reservation.
WithinBudget(budget, usage) ==
  /\ usage.actions_for_alert < budget.max_actions_per_alert
  /\ usage.bytes_for_alert + Reservation <= budget.max_bytes_per_alert
  /\ usage.actions_in_window < budget.max_actions_per_endpoint_window
  /\ usage.bytes_in_window + Reservation <= budget.max_bytes_per_endpoint_window
  /\ usage.active_for_endpoint < budget.max_active_per_endpoint
  /\ usage.active_global < MaxActiveGlobal

Applies(policy, ask, endpoint, usage) ==
  LET cell == <<ask.action, ask.asset>> IN
  /\ policy.enabled
  /\ cell \in DOMAIN policy.entries
  /\ policy.entries[cell].decision # "skip"
  /\ Capable(endpoint, ask.action)
  /\ TargetKnown(policy.entries[cell], ask, endpoint)
  /\ WithinBudget(policy.budget, usage)

\* Mutant: the policy is believed about the asset class.
TrustingEvaluate(policy, ask, endpoint, usage) ==
  IF ~ Applies(policy, ask, endpoint, usage) THEN "skip"
  ELSE policy.entries[<<ask.action, ask.asset>>].decision

\* evaluate.  The asset class decides even over a policy nobody validated.
Evaluate(policy, ask, endpoint, usage) ==
  IF ~ Applies(policy, ask, endpoint, usage) THEN "skip"
  ELSE IF ask.asset # "standard" THEN "require_approval"
  ELSE policy.entries[<<ask.action, ask.asset>>].decision
=============================================================================
