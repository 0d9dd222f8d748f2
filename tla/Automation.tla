----------------------------- MODULE Automation -----------------------------
(***************************************************************************)
(* automation.py: the policy that decides which alert gets which action in *)
(* which execution mode, and the status derived from an incident's         *)
(* actions.  Both are pure functions of their arguments.                   *)
(*                                                                         *)
(* The data is cut down to what the decisions tell apart:                  *)
(*   - alert.identified: alert_id, rule_id and host_id are non-blank       *)
(*     strings and the alert is an object;                                 *)
(*   - alert.level is an integer; a level of another type is represented   *)
(*     by one outside 0..16, which is refused in the same way;             *)
(*   - alert.confidence has a kind (a number, NaN, or none at all) and, if  *)
(*     a number, a value in percent;                                       *)
(*   - alert.evidence has a kind (none, a mapping, something else), the    *)
(*     keys with a non-empty value, and whether any string nested in it    *)
(*     carries the response executor's marker;                             *)
(*   - the reasons of a decision, which nothing reads back, are left out.  *)
(***************************************************************************)
EXTENDS Integers, Sequences, SequencesExt, ResponseContract

CONSTANT PrefixesOf   \* PrefixesOf[id]: the declared prefixes rule id starts with

PolicyModes   == {"record", "simulate", "approval", "auto"}
DecisionModes == PolicyModes \cup {"denied"}
GlobalModes   == {"simulate", "enforce"}

DEFAULT_GLOBAL_MODE           == "simulate"
DEFAULT_TIER_COOLDOWN_SECONDS == 300
CONTAINMENT_ACTIONS == {"KILL_PROCESS", "QUARANTINE_FILE", "ISOLATE_HOST"}

NoMinimum == -1   \* a policy without min_confidence

PolicyFields ==
  [policy_id : STRING, rule_ids : SUBSET STRING, rule_prefixes : SUBSET STRING,
   tactics : SUBSET STRING, action : ClosedActions, mode : PolicyModes,
   min_level : Int, min_confidence : Int, required : SUBSET STRING,
   sources : SUBSET STRING, hosts : SUBSET STRING, cooldown : Nat]

\* ResponsePolicy, with the bounds its fields are validated against.
Policy ==
  {p \in PolicyFields : /\ p.min_level \in 0 .. 16
                        /\ p.min_confidence \in NoMinimum .. 100
                        /\ p.cooldown \leq 86400}

Alert ==
  [identified : BOOLEAN, rule_id : STRING, tactic : STRING, host_id : STRING,
   level : Int, source : STRING,
   confidence : [kind : {"number", "nan", "none"}, percent : Int],
   evidence : [kind : {"none", "mapping", "other"},
               keys : SUBSET STRING, marker : BOOLEAN]]

\* What a translation may hand over: any name, the closed ones and None among
\* them; and the ids evaluate_policy gives the decisions no policy took.
ActionName == STRING \cup ClosedActions \cup {NoAction}
DeciderId  == STRING \cup {"validation", "default-tier", "loop-guard"}

Decision ==
  [policy_id : DeciderId, action : ActionName, mode : DecisionModes,
   global_mode : GlobalModes, simulate : BOOLEAN, auto_execute : BOOLEAN,
   cooldown : Nat]

-----------------------------------------------------------------------------
(* The policy set shipped with the package.                                *)

DefaultPolicy(id, rules, prefixes, action, mode, level, confidence, required, cooldown) ==
  [policy_id |-> id, rule_ids |-> rules, rule_prefixes |-> prefixes,
   tactics |-> {}, action |-> action, mode |-> mode, min_level |-> level,
   min_confidence |-> confidence, required |-> required,
   sources |-> {"rule", "stateful", "correlation"}, hosts |-> {},
   cooldown |-> cooldown]

DEFAULT_POLICIES == <<
  DefaultPolicy("contain-download-cradle", {"DET-PROC-012"}, {},
    "KILL_PROCESS", "approval", 12, 80, {"process.command_line"}, 300),
  DefaultPolicy("contain-reverse-shell", {"DET-LNX-001"}, {},
    "KILL_PROCESS", "approval", 12, 85, {"process.command_line"}, 300),
  DefaultPolicy("contain-credential-theft", {}, {"DET-CRED-"},
    "KILL_PROCESS", "approval", 12, 80, {}, 300),
  DefaultPolicy("investigate-process",
    {"DET-PS-010", "DET-INJ-010", "DET-INJ-011", "DET-CRED-010"}, {},
    "COLLECT_PROCESS_INFO", "auto", 0, NoMinimum, {}, 60),
  DefaultPolicy("isolate-exfiltration", {"DET-EXFIL-001"}, {},
    "ISOLATE_HOST", "approval", 12, NoMinimum, {}, 300) >>

-----------------------------------------------------------------------------
(* One alert against one policy.                                           *)

Malformed(alert) ==
  \/ ~ alert.identified
  \/ alert.level \notin 0 .. 16
  \/ alert.evidence.kind = "other"

\* PolicyMatch.matches: any listed criterion is enough.
Matches(policy, alert) ==
  \/ alert.rule_id \in policy.rule_ids
  \/ \E p \in policy.rule_prefixes : p \in PrefixesOf[alert.rule_id]
  \/ alert.tactic \in policy.tactics

EvidenceKeys(alert) ==
  IF alert.evidence.kind = "mapping" THEN alert.evidence.keys ELSE {}

CarriesMarker(alert) ==
  alert.evidence.kind = "mapping" /\ alert.evidence.marker

\* Mutant: a missing confidence is passed over.
MissingConfidencePasses(policy, alert) ==
  /\ policy.min_confidence # NoMinimum
  /\ alert.confidence.kind = "number"
  /\ alert.confidence.percent < policy.min_confidence

\* NaN compares false with every minimum, so it does not fail this gate.
ConfidenceGateFails(policy, alert) ==
  /\ policy.min_confidence # NoMinimum
  /\ \/ alert.confidence.kind = "none"
     \/ /\ alert.confidence.kind = "number"
        /\ alert.confidence.percent < policy.min_confidence

\* _gate_failures returns a non-empty list.
GateFails(policy, alert) ==
  \/ alert.level < policy.min_level
  \/ ConfidenceGateFails(policy, alert)
  \/ ~ (policy.required \subseteq EvidenceKeys(alert))
  \/ alert.source \notin policy.sources
  \/ policy.hosts # {} /\ alert.host_id \notin policy.hosts

-----------------------------------------------------------------------------
(* evaluate_policy.                                                        *)

\* Mutant: the mode is stored as configured.
OpenMode(global_mode) == global_mode

\* A misconfigured global mode behaves as the safe default.
ClosedMode(global_mode) ==
  IF global_mode \in GlobalModes THEN global_mode ELSE DEFAULT_GLOBAL_MODE

\* Mutant: the policy has its way.
UncappedMode(mode, action) == mode

\* The guardrail no policy can lift: auto only for an AUTO_SAFE action.
CapToTier(mode, action) ==
  IF mode = "auto" /\ ClassifyTier(action) # "AUTO_SAFE" THEN "approval" ELSE mode

\* Mutant: simulate previews automatic collections as well.
PreviewEverything(mode, global_mode) ==
  IF mode \in {"approval", "auto"} /\ global_mode = "simulate" THEN "simulate" ELSE mode

\* In global mode simulate an approval is previewed, not staged.
Preview(mode, global_mode) ==
  IF mode = "approval" /\ global_mode = "simulate" THEN "simulate" ELSE mode

\* The inner function decide; the global mode is already closed.
Decide(policy_id, action, mode, global_mode, cooldown) ==
  [policy_id |-> policy_id, action |-> action, mode |-> mode,
   global_mode |-> global_mode, simulate |-> mode \in {"simulate", "approval"},
   auto_execute |-> (mode = "auto"), cooldown |-> cooldown]

DefaultTierMode(action) ==
  IF ClassifyTier(action) = "AUTO_SAFE" THEN "auto" ELSE "approval"

\* Mutant: the first policy that matches, whatever its action.
FirstMatch(alert, action, policies) ==
  SelectInSeq(policies, LAMBDA p : Matches(p, alert))

\* The index of the first policy that applies, 0 when none does.
FirstPolicy(alert, action, policies) ==
  SelectInSeq(policies, LAMBDA p : Matches(p, alert) /\ p.action = action)

\* What is left of evaluate_policy once the request itself is acceptable.
ApplyPolicy(alert, action, policies, gm) ==
  LET i == FirstPolicy(alert, action, policies) IN
  IF i = 0 THEN
    Decide("default-tier", action, Preview(DefaultTierMode(action), gm), gm,
           DEFAULT_TIER_COOLDOWN_SECONDS)
  ELSE LET policy == policies[i] IN
    Decide(policy.policy_id, action,
           IF GateFails(policy, alert) THEN "record"
           ELSE Preview(CapToTier(policy.mode, action), gm),
           gm, policy.cooldown)

EvaluatePolicy(alert, action, policies, global_mode) ==
  LET gm == ClosedMode(global_mode) IN
  IF Malformed(alert) THEN Decide("validation", action, "denied", gm, 0)
  ELSE IF action = NoAction THEN Decide("default-tier", action, "record", gm, 0)
  ELSE IF action \notin ClosedActions THEN Decide("validation", action, "denied", gm, 0)
  ELSE IF CarriesMarker(alert) THEN Decide("loop-guard", action, "denied", gm, 0)
  ELSE ApplyPolicy(alert, action, policies, gm)

-----------------------------------------------------------------------------
(* derive_response_status.  An item carries the action, the two lifecycle  *)
(* states, whether the result detail starts with VERIFIED_PREFIX, and      *)
(* whether the simulation adapter ran.                                     *)

\* Mutant: a preview that ran is looked at before the command.
PreviewFirstStatus(item) ==
  LET containment == item.action \in CONTAINMENT_ACTIONS IN
  IF item.simulated THEN "simulated_containment"
  ELSE IF containment /\ item.command = "SUCCEEDED" THEN
    IF item.verified THEN "contained" ELSE "containment_unverified"
  ELSE IF containment /\ item.command \in {"FAILED", "REJECTED", "INDETERMINATE", "EXPIRED"}
    THEN "containment_failed"
  ELSE IF containment /\ item.command \in {"AUTHORIZED", "DISPATCHED", "ACCEPTED"}
    THEN "response_executing"
  ELSE IF containment /\ item.lifecycle_state = "PENDING" THEN "awaiting_approval"
  ELSE "response_recorded"

\* Mutant: success is containment, verified or not.
UnverifiedCounts(item) ==
  LET containment == item.action \in CONTAINMENT_ACTIONS IN
  IF containment /\ item.command = "SUCCEEDED" THEN "contained"
  ELSE IF containment /\ item.command \in {"FAILED", "REJECTED", "INDETERMINATE", "EXPIRED"}
    THEN "containment_failed"
  ELSE IF containment /\ item.command \in {"AUTHORIZED", "DISPATCHED", "ACCEPTED"}
    THEN "response_executing"
  ELSE IF containment /\ item.lifecycle_state = "PENDING" THEN "awaiting_approval"
  ELSE IF item.simulated THEN "simulated_containment"
  ELSE "response_recorded"

ItemStatus(item) ==
  LET containment == item.action \in CONTAINMENT_ACTIONS IN
  IF containment /\ item.command = "SUCCEEDED" THEN
    IF item.verified THEN "contained" ELSE "containment_unverified"
  ELSE IF containment /\ item.command \in {"FAILED", "REJECTED", "INDETERMINATE", "EXPIRED"}
    THEN "containment_failed"
  ELSE IF containment /\ item.command \in {"AUTHORIZED", "DISPATCHED", "ACCEPTED"}
    THEN "response_executing"
  ELSE IF containment /\ item.lifecycle_state = "PENDING" THEN "awaiting_approval"
  ELSE IF item.simulated THEN "simulated_containment"
  ELSE "response_recorded"

\* Mutant: the failure is shown first.
FailureFirst ==
  <<"containment_failed", "contained", "containment_unverified",
    "response_executing", "awaiting_approval", "simulated_containment",
    "response_recorded">>

Precedence ==
  <<"contained", "containment_unverified", "containment_failed",
    "response_executing", "awaiting_approval", "simulated_containment",
    "response_recorded">>

DeriveResponseStatus(items, incident_status) ==
  IF incident_status \in {"resolved", "false_positive"} THEN "resolved"
  ELSE LET found == {ItemStatus(item) : item \in items}
           i == SelectInSeq(Precedence, LAMBDA s : s \in found)
       IN IF i = 0 THEN "detected" ELSE Precedence[i]
=============================================================================
