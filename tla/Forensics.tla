----------------------------- MODULE Forensics -----------------------------
(***************************************************************************)
(* forensics.py: one forensic case.  A collection is planned under the      *)
(* policy and the asset class of the moment, staged as a command, approved, *)
(* planned again and sent; what the agents deliver is admitted as evidence  *)
(* of the command it answers, or refused.                                  *)
(*                                                                         *)
(* The requests and the policies are Python objects whose nested values can *)
(* change after they were validated, or that were never validated at all    *)
(* (forensics.py:149-150): both variables range over such objects.  Staging, *)
(* approval, dispatch and admission are Manager's, outside src/, as          *)
(* docs/FORENSIC_DOMAIN.md:127-150 requires them.                           *)
(*                                                                         *)
(* An identifier is left out unless a manifest is matched by it.            *)
(***************************************************************************)
EXTENDS Recommendation, Triage, SequencesExt

CONSTANTS
  Requests, Policies,  \* the objects a caller may pass, valid or not
  Agent, Host, Correlation,  \* the case
  Hosts,               \* the hosts that answer as Agent: Host and its clones
  Artifacts,           \* artifact identities
  MaxContent,          \* the largest content of an artifact (1048576)
  MaxEvidence,         \* the references a context may hold (32)
  MaxCommands          \* bound: commands of the case

ASSUME ForensicsAssumption ==
  Host \in Hosts /\ MaxContent \in Nat \ {0} /\ MaxEvidence \in Nat /\ MaxCommands \in Nat

VARIABLES
  request, policy,  \* the objects the caller holds now
  asset,            \* the class of the endpoint, in Manager's registry
  commands,         \* what was staged, in order; a command id is its index
  evidence          \* ForensicContext.evidence: [record, manifest]

vars == <<request, policy, asset, commands, evidence>>

-----------------------------------------------------------------------------
(* Requests and policies.                                                  *)

CollectionKinds ==
  [COLLECT_PROCESS_INFO |-> "process_snapshot",
   COLLECT_NETWORK_CONNECTIONS |-> "network_snapshot", COLLECT_FILE |-> "file_metadata"]

\* Stand for None.
NoProcess == [pid |-> Absent, ticks |-> Absent, boot |-> NoBoot]
NoPath    == [platform |-> "none", path |-> NoFile]

\* ProcessIdentity accepts.
ValidIdentity(process) ==
  /\ PositiveWithin(process.pid, "int", Max32)
  /\ PositiveWithin(process.ticks, "int", Max64)
  /\ process.boot = NoBoot \/ process.boot.form = "digest"

\* ForensicCollectionRequest accepts.
ValidRequest(r) ==
  /\ r.action \in CollectActions
  /\ r.process # NoProcess <=> r.action = "COLLECT_PROCESS_INFO"
  /\ r.file # NoPath <=> r.action = "COLLECT_FILE"
  /\ r.process # NoProcess => ValidIdentity(r.process)
  /\ r.file # NoPath => /\ r.file.platform \in DOMAIN ForbiddenMarks
                        /\ ApprovedFile(r.file.platform, r.file.path)

\* ForensicCollectionPolicy accepts; unique: neither list repeats an action.
ValidCollectionPolicy(p) ==
  p.unique /\ p.allowed \subseteq CollectActions /\ p.require_approval \subseteq CollectActions

\* Mutant: an object is believed to be as valid as when it was built.
OnceValidated(r, p, class) == class \in AssetClasses

\* plan_forensic_collection validates everything again and does not raise.
Accepts(r, p, class) ==
  ValidRequest(r) /\ ValidCollectionPolicy(p) /\ class \in AssetClasses

-----------------------------------------------------------------------------
(* The plan.                                                               *)

\* The command's target; with a boot the start time is a decimal text.
ProcessCollectionTarget(r) ==
  IF r.process.boot = NoBoot
  THEN Translate(r.action, [pid |-> r.process.pid, ticks |-> r.process.ticks], NoContext).target
  ELSE [EmptyTarget EXCEPT !.keys = {"pid", "start_time_ticks", "boot_id"},
          !.pid = r.process.pid, !.ticks = Value("text", r.process.ticks.n),
          !.boot = r.process.boot]

CollectionTarget(r) ==
  IF r.process # NoProcess THEN ProcessCollectionTarget(r)
  ELSE IF r.file # NoPath THEN [EmptyTarget EXCEPT !.keys = {"path"}, !.path = r.file.path.length]
  ELSE EmptyTarget

\* Mutant: an action the policy does not list needs no approval.
ListedTier(r, p, class) ==
  IF class # "standard" \/ r.action \in p.require_approval THEN "ANALYST_APPROVAL" ELSE "AUTO_SAFE"

EffectiveTier(r, p, class) ==
  IF class # "standard" \/ r.action \in p.require_approval
  THEN "ANALYST_APPROVAL" ELSE ClassifyTier(r.action)

\* Mutant: the asset class is asked before the policy.
AssetFirst(r, p, class) ==
  IF class # "standard" THEN "require_approval"
  ELSE IF ~ p.enabled \/ r.action \notin p.allowed THEN "skip"
  ELSE IF EffectiveTier(r, p, class) = "ANALYST_APPROVAL" THEN "require_approval"
  ELSE "recommend"

PlanDecision(r, p, class) ==
  IF ~ p.enabled \/ r.action \notin p.allowed THEN "skip"
  ELSE IF EffectiveTier(r, p, class) = "ANALYST_APPROVAL" THEN "require_approval"
  ELSE "recommend"

\* plan_forensic_collection, where it does not raise.
Plan(r, p, class) ==
  [request |-> r, decision |-> PlanDecision(r, p, class),
   tier |-> EffectiveTier(r, p, class),
   schema |-> IF r.process.boot = NoBoot THEN "1" ELSE "2", target |-> CollectionTarget(r)]

Plans == {Plan(r, p, class) : r \in Requests, p \in Policies, class \in AssetClasses}

-----------------------------------------------------------------------------
(* Evidence.                                                               *)

Kinds == Range(CollectionKinds) \cup {"execution_report"}

Scope(host, id) ==
  [agent_id |-> Agent, host_id |-> host, command_id |-> id, correlation_id |-> Correlation]

\* ArtifactManifest accepts: the fields somebody compares.
ValidManifest(m) == m.kind \in Kinds /\ m.content_bytes \in 1 .. MaxContent

\* Mutant: a kind that any collection produces will do.
ScopeOnly(m, action, scope) ==
  ValidManifest(m) /\ m.scope = scope

\* validate_evidence_metadata accepts.
ValidateEvidence(m, action, scope) ==
  /\ ValidManifest(m)
  /\ m.scope = scope
  /\ m.kind = CollectionKinds[action]

\* ForensicContext.consistent_evidence_scope accepts.
ValidContext(references) ==
  /\ Len(references) <= MaxEvidence
  /\ \A i \in DOMAIN references :
       /\ references[i].manifest.scope.agent_id = Agent
       /\ references[i].manifest.scope.host_id = Host
  /\ \A i, j \in DOMAIN references :
       references[i].manifest.artifact_id = references[j].manifest.artifact_id => i = j

-----------------------------------------------------------------------------
(* The case.                                                               *)

Init ==
  /\ request \in Requests /\ policy \in Policies /\ asset \in AssetClasses
  /\ commands = << >> /\ evidence = << >>

\* The caller holds another object, or the same one changed.
ChangeRequest ==
  /\ request' \in Requests \ {request}
  /\ UNCHANGED <<policy, asset, commands, evidence>>
ChangePolicy ==
  /\ policy' \in Policies \ {policy}
  /\ UNCHANGED <<request, asset, commands, evidence>>
Reclassify ==
  /\ asset' \in AssetClasses \ {asset}
  /\ UNCHANGED <<request, policy, commands, evidence>>

\* A plan that is not skip becomes a command that waits.
Stage ==
  /\ Len(commands) < MaxCommands
  /\ Accepts(request, policy, asset)
  /\ ValidContext(evidence)
  /\ LET plan == Plan(request, policy, asset) IN
       /\ plan.decision # "skip"
       /\ commands' = Append(commands, [plan |-> plan, approved |-> FALSE, sent |-> FALSE])
  /\ UNCHANGED <<request, policy, asset, evidence>>

Approve(id) ==
  /\ ~ commands[id].sent /\ ~ commands[id].approved
  /\ commands' = [commands EXCEPT ![id].approved = TRUE]
  /\ UNCHANGED <<request, policy, asset, evidence>>

\* Manager plans the command's request again before it sends it.
Dispatch(id) ==
  LET r == commands[id].plan.request IN
  /\ ~ commands[id].sent
  /\ Accepts(r, policy, asset)
  /\ Plan(r, policy, asset).decision # "skip"
  /\ commands[id].approved \/ Plan(r, policy, asset).tier = "AUTO_SAFE"
  /\ commands' = [commands EXCEPT ![id].sent = TRUE]
  /\ UNCHANGED <<request, policy, asset, evidence>>

Manifests ==
  [artifact_id : Artifacts, kind : Kinds, content_bytes : {0, 1, MaxContent + 1},
   scope : {Scope(h, id) : h \in Hosts, id \in 1 .. MaxCommands}]

\* What a host that runs as Agent may deliver for a command sent to it, at any
\* time, in any order and any number of times.
Deliverable ==
  {m \in Manifests : \E id \in DOMAIN commands :
                       commands[id].sent /\ m.scope.command_id = id}

\* Manager admits a manifest as evidence of the command it takes it to answer.
Admit(id, m) ==
  LET references == Append(evidence, [record |-> id, manifest |-> m]) IN
  /\ ValidateEvidence(m, commands[id].plan.request.action, Scope(Host, id))
  /\ ValidContext(references)
  /\ evidence' = references
  /\ UNCHANGED <<request, policy, asset, commands>>

Next ==
  \/ ChangeRequest \/ ChangePolicy \/ Reclassify
  \/ Stage
  \/ \E id \in DOMAIN commands :
       \/ Approve(id) \/ Dispatch(id)
       \/ \E m \in Deliverable : Admit(id, m)

Spec == Init /\ [][Next]_vars

-----------------------------------------------------------------------------
(* Properties.                                                             *)

\* The types.
CaseTypeOK ==
  /\ request \in Requests /\ policy \in Policies /\ asset \in AssetClasses
  /\ commands \in Seq([plan : Plans, approved : BOOLEAN, sent : BOOLEAN])
  /\ evidence \in Seq([record : Nat, manifest : Manifests])

\* Whatever happened to the request since it was validated, a staged command is
\* a collection that Command accepts under the schema of its plan, and its tier is
\* at least the one classify_tier gives its action (forensics.py:152, 160-177).
PlansAreDispatchable ==
  \A id \in DOMAIN commands : LET plan == commands[id].plan IN
    /\ plan.request.action \in CollectActions
    /\ ValidCommand(plan.schema, plan.request.action, plan.target, TRUE)
    /\ plan.tier = "AUTO_SAFE" => ClassifyTier(plan.request.action) = "AUTO_SAFE"

CaseInv == CaseTypeOK /\ PlansAreDispatchable

\* What is sent without an analyst is read-only by its tier and sits on a
\* standard endpoint, and the policy in force when it leaves neither forbids it nor
\* wants it approved, whatever the policy was when it was staged.
UnattendedIsReadOnly ==
  [][ \A id \in DOMAIN commands :
        ~ commands[id].sent /\ commands'[id].sent /\ ~ commands[id].approved =>
          LET action == commands[id].plan.request.action IN
          /\ ClassifyTier(action) = "AUTO_SAFE" /\ asset = "standard"
          /\ policy.enabled
          /\ action \in policy.allowed \ policy.require_approval ]_vars

PlanRank == [skip |-> 0, require_approval |-> 1, recommend |-> 2]

\* How far the request gets: a plan that raises is no plan.
Strength == IF Accepts(request, policy, asset)
            THEN PlanRank[PlanDecision(request, policy, asset)] ELSE 0

Stricter(p, q) ==
  /\ p.enabled => q.enabled
  /\ p.allowed \subseteq q.allowed
  /\ q.require_approval \subseteq p.require_approval
  /\ q.unique

\* A stricter policy, or an asset that is not standard any more, never gets a
\* request further than before (forensics.py:96, 176-188).
StricterNeverWeaker ==
  [][ /\ request' = request
      /\ asset' \in {asset, "critical", "unknown"}
      /\ ValidCollectionPolicy(policy) /\ Stricter(policy', policy)
      => Strength' <= Strength ]_vars

\* Each piece of evidence was produced by the host of the case, for the very
\* command it is filed under, which was sent, and is what that command collects;
\* and none counts twice, however often it is delivered (forensics.py:66-75, 220-224).
EvidenceOfItsCommand ==
  /\ \A i \in DOMAIN evidence : LET e == evidence[i] IN
       /\ e.record \in DOMAIN commands /\ commands[e.record].sent
       /\ e.manifest.scope.command_id = e.record /\ e.manifest.scope.host_id = Host
       /\ e.manifest.kind = CollectionKinds[commands[e.record].plan.request.action]
  /\ \A i, j \in DOMAIN evidence :
       evidence[i].manifest.artifact_id = evidence[j].manifest.artifact_id => i = j
=============================================================================
