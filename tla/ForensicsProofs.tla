-------------------------- MODULE ForensicsProofs --------------------------
(***************************************************************************)
(* What the plans and the evidence of a case promise, for every set of      *)
(* requests and policies a caller may hold, every width and every number of *)
(* commands, hosts and artifacts.                                          *)
(***************************************************************************)
EXTENDS Forensics, TLAPS

\* The target of a process collection, in both schemas.
LEMMA ProcessTargetIsLegal ==
  ASSUME NEW r, ValidRequest(r), r.process # NoProcess
  PROVE  ValidCommand(IF r.process.boot = NoBoot THEN "1" ELSE "2", r.action,
                      CollectionTarget(r), TRUE)
<1>1. r.action = "COLLECT_PROCESS_INFO" /\ r.action \in ProcessActions /\ ValidIdentity(r.process)
  BY DEF ValidRequest, ProcessActions
<1>2. CASE r.process.boot = NoBoot
  <2> DEFINE rec == [pid |-> r.process.pid, ticks |-> r.process.ticks]
  <2>1. CollectionTarget(r) = Translate(r.action, rec, NoContext).target
    BY <1>2 DEF CollectionTarget, ProcessCollectionTarget
  <2>2. LegacyProcess(rec)
    BY <1>1 DEF LegacyProcess, ValidIdentity, PositiveWithin
  <2>3. Translate(r.action, rec, NoContext) = ProcessTranslation(r.action, rec, NoContext)
    <3>1. /\ "COLLECT_PROCESS_INFO" \in DOMAIN CommandFor
          /\ CommandFor["COLLECT_PROCESS_INFO"] = "COLLECT_PROCESS_INFO"
      BY DEF CommandFor
    <3>2. QED
      BY <1>1, <3>1 DEF Translate
  <2> HIDE DEF rec
  <2>6. NoContext.given = FALSE
    BY DEF NoContext
  <2>7. ProcessTranslation(r.action, rec, NoContext) = Mapped(r.action, LegacyTarget(rec))
    BY <2>2, <2>6 DEF ProcessTranslation
  <2>4. CollectionTarget(r) = LegacyTarget(rec)
    BY <2>1, <2>3, <2>7 DEF Mapped
  <2> USE DEF rec
  <2>5. QED
    BY <1>1, <1>2, <2>4 DEF ValidCommand, LegacyTarget, EmptyTarget, ValidIdentity, PositiveWithin
<1>3. CASE r.process.boot # NoBoot
  <2>1. CollectionTarget(r) =
          [EmptyTarget EXCEPT !.keys = {"pid", "start_time_ticks", "boot_id"},
             !.pid = r.process.pid, !.ticks = Value("text", r.process.ticks.n),
             !.boot = r.process.boot]
    BY <1>3 DEF CollectionTarget, ProcessCollectionTarget
  <2>2. QED
    BY <1>1, <1>3, <2>1 DEF ValidCommand, EmptyTarget, ValidIdentity, PositiveWithin, Value
<1>4. QED
  BY <1>2, <1>3

\* The target of the other two collections.
LEMMA OtherTargetIsLegal ==
  ASSUME NEW r, ValidRequest(r), r.process = NoProcess
  PROVE  ValidCommand("1", r.action, CollectionTarget(r), TRUE)
<1>1. CASE r.file # NoPath
  <2>1. CollectionTarget(r) = [EmptyTarget EXCEPT !.keys = {"path"}, !.path = r.file.path.length]
    BY <1>1 DEF CollectionTarget
  <2>2. r.action = "COLLECT_FILE" /\ r.file.path.length = "legal"
    BY <1>1 DEF ValidRequest, ApprovedFile
  <2>3. QED
    BY <2>1, <2>2 DEF ValidCommand, EmptyTarget, ProcessActions, FileActions
<1>2. CASE r.file = NoPath
  <2>1. CollectionTarget(r) = EmptyTarget
    BY <1>2 DEF CollectionTarget
  <2>2. r.action = "COLLECT_NETWORK_CONNECTIONS"
    BY <1>2 DEF ValidRequest, CollectActions
  <2>3. QED
    BY <2>1, <2>2 DEF ValidCommand, EmptyTarget, ProcessActions, FileActions
<1>3. QED
  BY <1>1, <1>2

\* A plan that does not raise is a command the contract accepts, with a tier that
\* classify_tier does not exceed: for every request, policy and asset class.
THEOREM AcceptedPlanIsDispatchable ==
  ASSUME NEW r, NEW p, NEW class, Accepts(r, p, class)
  PROVE  LET plan == Plan(r, p, class) IN
         /\ plan.request.action \in CollectActions
         /\ ValidCommand(plan.schema, plan.request.action, plan.target, TRUE)
         /\ plan.tier = "AUTO_SAFE" => ClassifyTier(plan.request.action) = "AUTO_SAFE"
<1> DEFINE plan == Plan(r, p, class)
<1>1. ValidRequest(r) /\ r.action \in CollectActions
  BY DEF Accepts, ValidRequest
<1>2. /\ plan.request = r /\ plan.target = CollectionTarget(r)
      /\ plan.tier = EffectiveTier(r, p, class)
      /\ plan.schema = IF r.process.boot = NoBoot THEN "1" ELSE "2"
  BY DEF Plan
<1>3. ValidCommand(plan.schema, r.action, plan.target, TRUE)
  <2>1. CASE r.process # NoProcess
    BY <1>1, <1>2, <2>1, ProcessTargetIsLegal
  <2>2. CASE r.process = NoProcess
    <3>1. r.process.boot = NoBoot
      BY <2>2 DEF NoProcess
    <3>2. QED
      BY <1>1, <1>2, <2>2, <3>1, OtherTargetIsLegal
  <2>3. QED
    BY <2>1, <2>2
<1>4. plan.tier = "AUTO_SAFE" => ClassifyTier(r.action) = "AUTO_SAFE"
  BY <1>2 DEF EffectiveTier
<1>5. QED
  BY <1>1, <1>2, <1>3, <1>4

-----------------------------------------------------------------------------
(* The case.                                                               *)

Command == [plan : Plans, approved : BOOLEAN, sent : BOOLEAN]

\* A step keeps every plan, and what was sent stays sent.
Grows ==
  /\ DOMAIN commands \subseteq DOMAIN commands'
  /\ \A id \in DOMAIN commands : commands'[id].plan = commands[id].plan
  /\ \A id \in DOMAIN commands : commands[id].sent => commands'[id].sent

\* A new command comes from a plan that did not raise.
LEMMA StageKeeps ==
  ASSUME CaseInv, Stage
  PROVE  CaseInv' /\ Grows
<1> DEFINE plan == Plan(request, policy, asset)
           new == [plan |-> plan, approved |-> FALSE, sent |-> FALSE]
<1>1. /\ Accepts(request, policy, asset)
      /\ commands' = Append(commands, new)
      /\ UNCHANGED <<request, policy, asset, evidence>>
  BY DEF Stage
<1>2. new \in Command
  BY DEF CaseInv, CaseTypeOK, Command, Plans
<1>3. commands \in Seq(Command)
  BY DEF CaseInv, CaseTypeOK, Command
<1>4. new.plan = plan
  OBVIOUS
<1>5. /\ plan.request.action \in CollectActions
      /\ ValidCommand(plan.schema, plan.request.action, plan.target, TRUE)
      /\ plan.tier = "AUTO_SAFE" => ClassifyTier(plan.request.action) = "AUTO_SAFE"
  BY <1>1, AcceptedPlanIsDispatchable
<1> HIDE DEF new, plan
<1>6. /\ commands' \in Seq(Command) /\ DOMAIN commands' = DOMAIN commands \cup {Len(commands) + 1}
      /\ commands'[Len(commands) + 1] = new
      /\ \A id \in DOMAIN commands : commands'[id] = commands[id]
  BY <1>1, <1>2, <1>3
<1>7. CaseTypeOK'
  BY <1>1, <1>6 DEF CaseInv, CaseTypeOK, Command
<1>8. PlansAreDispatchable'
  <2>1. ASSUME NEW id \in DOMAIN commands'
        PROVE  /\ commands'[id].plan.request.action \in CollectActions
               /\ ValidCommand(commands'[id].plan.schema, commands'[id].plan.request.action,
                               commands'[id].plan.target, TRUE)
               /\ commands'[id].plan.tier = "AUTO_SAFE" =>
                    ClassifyTier(commands'[id].plan.request.action) = "AUTO_SAFE"
    <3>1. CASE id \in DOMAIN commands
      BY <1>6, <3>1 DEF CaseInv, PlansAreDispatchable
    <3>2. CASE id = Len(commands) + 1
      BY <1>4, <1>5, <1>6, <3>2
    <3>3. QED
      BY <1>6, <3>1, <3>2
  <2>2. QED
    BY <2>1 DEF PlansAreDispatchable
<1>9. QED
  BY <1>6, <1>7, <1>8 DEF CaseInv, Grows

\* Approving and sending leave the plan alone.
LEMMA MarkKeeps ==
  ASSUME CaseInv, NEW id \in DOMAIN commands, Approve(id) \/ Dispatch(id)
  PROVE  CaseInv' /\ Grows
<1>1. commands \in Seq(Command)
  BY DEF CaseInv, CaseTypeOK, Command
<1>2. PICK c \in Command : /\ commands' = [commands EXCEPT ![id] = c]
                           /\ c.plan = commands[id].plan
                           /\ commands[id].sent => c.sent
  <2>1. commands[id] \in Command
    BY <1>1
  <2>2. CASE Approve(id)
    <3>1. [commands[id] EXCEPT !.approved = TRUE] \in Command
      BY <2>1 DEF Command
    <3>2. QED
      BY <2>1, <2>2, <3>1 DEF Approve, Command
  <2>3. CASE Dispatch(id)
    <3>1. [commands[id] EXCEPT !.sent = TRUE] \in Command
      BY <2>1 DEF Command
    <3>2. QED
      BY <2>1, <2>3, <3>1 DEF Dispatch, Command
  <2>4. QED
    BY <2>2, <2>3
<1>3. UNCHANGED <<request, policy, asset, evidence>>
  BY DEF Approve, Dispatch
<1>4. /\ commands' \in Seq(Command) /\ DOMAIN commands' = DOMAIN commands
      /\ \A i \in DOMAIN commands : commands'[i] = IF i = id THEN c ELSE commands[i]
  BY <1>1, <1>2
<1>5. CaseTypeOK'
  BY <1>3, <1>4 DEF CaseInv, CaseTypeOK, Command
<1>6. /\ \A i \in DOMAIN commands : commands'[i].plan = commands[i].plan
      /\ \A i \in DOMAIN commands : commands[i].sent => commands'[i].sent
  BY <1>2, <1>4
<1>7. PlansAreDispatchable'
  <2>1. ASSUME NEW i \in DOMAIN commands'
        PROVE  /\ commands'[i].plan.request.action \in CollectActions
               /\ ValidCommand(commands'[i].plan.schema, commands'[i].plan.request.action,
                               commands'[i].plan.target, TRUE)
               /\ commands'[i].plan.tier = "AUTO_SAFE" =>
                    ClassifyTier(commands'[i].plan.request.action) = "AUTO_SAFE"
    <3>1. i \in DOMAIN commands /\ commands'[i].plan = commands[i].plan
      BY <1>4, <1>6, <2>1
    <3>2. QED
      BY <3>1 DEF CaseInv, PlansAreDispatchable
  <2>2. QED
    BY <2>1 DEF PlansAreDispatchable
<1>8. QED
  BY <1>4, <1>5, <1>6, <1>7 DEF CaseInv, Grows

\* Evidence is appended, and nothing else changes.
LEMMA AdmitKeeps ==
  ASSUME CaseInv, NEW id \in DOMAIN commands, NEW m \in Deliverable, Admit(id, m)
  PROVE  CaseInv' /\ Grows
<1>1. UNCHANGED <<request, policy, asset, commands>>
  BY DEF Admit
<1>2. evidence' = Append(evidence, [record |-> id, manifest |-> m])
  BY DEF Admit
<1>3. m \in Manifests /\ id \in Nat
  BY DEF Deliverable, CaseInv, CaseTypeOK
<1>4. evidence' \in Seq([record : Nat, manifest : Manifests])
  BY <1>2, <1>3 DEF CaseInv, CaseTypeOK
<1>5. CaseTypeOK' /\ PlansAreDispatchable'
  BY <1>1, <1>4 DEF CaseInv, CaseTypeOK, PlansAreDispatchable
<1>6. QED
  BY <1>1, <1>5 DEF CaseInv, Grows

LEMMA StepKeeps ==
  ASSUME CaseInv, [Next]_vars
  PROVE  CaseInv' /\ Grows
<1>1. CASE ChangeRequest \/ ChangePolicy \/ Reclassify \/ UNCHANGED vars
  <2>1. /\ request' \in Requests /\ policy' \in Policies /\ asset' \in AssetClasses
        /\ commands' = commands /\ evidence' = evidence
    BY <1>1 DEF ChangeRequest, ChangePolicy, Reclassify, vars, CaseInv, CaseTypeOK
  <2>2. QED
    BY <2>1 DEF CaseInv, CaseTypeOK, PlansAreDispatchable, Grows
<1>2. QED
  BY <1>1, StageKeeps, MarkKeeps, AdmitKeeps DEF Next

\* Every command of a case can be dispatched, whatever its request was changed
\* into before or after it was planned.
THEOREM CaseInvariant == Spec => []CaseInv
<1>1. Init => CaseInv
  BY DEF Init, CaseInv, CaseTypeOK, PlansAreDispatchable
<1>2. CaseInv /\ [Next]_vars => CaseInv'
  BY StepKeeps
<1>3. QED
  BY <1>1, <1>2, PTL DEF Spec

-----------------------------------------------------------------------------
(* Evidence.                                                               *)

EvidenceInv == CaseInv /\ EvidenceOfItsCommand

\* What is admitted answers the command it is filed under.
LEMMA AdmittedIsOfItsCommand ==
  ASSUME EvidenceInv, NEW id \in DOMAIN commands, NEW m \in Deliverable, Admit(id, m)
  PROVE  EvidenceOfItsCommand'
<1> DEFINE new == [record |-> id, manifest |-> m]
<1>1. /\ commands' = commands /\ evidence' = Append(evidence, new)
      /\ ValidateEvidence(m, commands[id].plan.request.action, Scope(Host, id))
      /\ ValidContext(evidence')
  BY DEF Admit
<1>2. evidence \in Seq([record : Nat, manifest : Manifests]) /\ new \in [record : Nat, manifest : Manifests]
  BY DEF EvidenceInv, CaseInv, CaseTypeOK, Deliverable
<1>3. /\ m.scope.command_id = id /\ m.scope.host_id = Host
      /\ m.kind = CollectionKinds[commands[id].plan.request.action]
  BY <1>1 DEF ValidateEvidence, Scope
<1>4. commands[id].sent
  BY <1>3 DEF Deliverable
<1>5. new.record = id /\ new.manifest = m
  OBVIOUS
<1> HIDE DEF new
<1>6. /\ DOMAIN evidence' = DOMAIN evidence \cup {Len(evidence) + 1}
      /\ evidence'[Len(evidence) + 1] = new
      /\ \A i \in DOMAIN evidence : evidence'[i] = evidence[i]
  BY <1>1, <1>2
<1>7. ASSUME NEW i \in DOMAIN evidence'
      PROVE  /\ evidence'[i].record \in DOMAIN commands'
             /\ commands'[evidence'[i].record].sent
             /\ evidence'[i].manifest.scope.command_id = evidence'[i].record
             /\ evidence'[i].manifest.scope.host_id = Host
             /\ evidence'[i].manifest.kind =
                  CollectionKinds[commands'[evidence'[i].record].plan.request.action]
  <2>1. CASE i \in DOMAIN evidence
    BY <1>1, <1>6, <2>1 DEF EvidenceInv, EvidenceOfItsCommand
  <2>2. CASE i = Len(evidence) + 1
    BY <1>1, <1>3, <1>4, <1>5, <1>6, <2>2
  <2>3. QED
    BY <1>6, <2>1, <2>2
<1>8. QED
  BY <1>1, <1>7 DEF EvidenceOfItsCommand, ValidContext

\* Evidence stays evidence of its command while the case goes on.
LEMMA EvidenceStays ==
  ASSUME EvidenceInv, Grows, evidence' = evidence
  PROVE  EvidenceOfItsCommand'
<1>1. ASSUME NEW i \in DOMAIN evidence'
      PROVE  /\ evidence'[i].record \in DOMAIN commands'
             /\ commands'[evidence'[i].record].sent
             /\ evidence'[i].manifest.scope.command_id = evidence'[i].record
             /\ evidence'[i].manifest.scope.host_id = Host
             /\ evidence'[i].manifest.kind =
                  CollectionKinds[commands'[evidence'[i].record].plan.request.action]
  <2>1. i \in DOMAIN evidence /\ evidence[i].record \in DOMAIN commands
    BY DEF EvidenceInv, EvidenceOfItsCommand
  <2>2. commands'[evidence[i].record].plan = commands[evidence[i].record].plan
    BY <1>1, <2>1 DEF Grows
  <2>3. QED
    BY <2>1, <2>2 DEF EvidenceInv, EvidenceOfItsCommand, Grows
<1>2. QED
  BY <1>1 DEF EvidenceInv, EvidenceOfItsCommand

\* Every piece of evidence in a case was produced by its host for the command it
\* is filed under, and none counts twice.
THEOREM EvidenceIsOfItsCommand == Spec => []EvidenceOfItsCommand
<1>1. Init => EvidenceInv
  BY DEF Init, EvidenceInv, CaseInv, CaseTypeOK, PlansAreDispatchable, EvidenceOfItsCommand
<1>2. EvidenceInv /\ [Next]_vars => EvidenceInv'
  <2>1. SUFFICES ASSUME EvidenceInv, [Next]_vars PROVE EvidenceInv'
    OBVIOUS
  <2>2. CaseInv' /\ Grows
    BY <2>1, StepKeeps DEF EvidenceInv
  <2>3. CASE \E id \in DOMAIN commands : \E m \in Deliverable : Admit(id, m)
    BY <2>1, <2>2, <2>3, AdmittedIsOfItsCommand DEF EvidenceInv
  <2>4. CASE ~ \E id \in DOMAIN commands : \E m \in Deliverable : Admit(id, m)
    <3>1. evidence' = evidence
      BY <2>1, <2>4 DEF Next, ChangeRequest, ChangePolicy, Reclassify, Stage, Approve, Dispatch, vars
    <3>2. QED
      BY <2>1, <2>2, <3>1, EvidenceStays DEF EvidenceInv
  <2>5. QED
    BY <2>3, <2>4
<1>3. EvidenceInv => EvidenceOfItsCommand
  BY DEF EvidenceInv
<1>4. QED
  BY <1>1, <1>2, <1>3, PTL DEF Spec

-----------------------------------------------------------------------------
(* Tiers.                                                                  *)

\* What leaves without an analyst is read-only, on a standard endpoint, and
\* wanted without approval by the policy in force.
THEOREM UnattendedAreReadOnly == Spec => UnattendedIsReadOnly
<1> DEFINE Fits(id) ==
      ~ commands[id].sent /\ commands'[id].sent /\ ~ commands[id].approved =>
        LET action == commands[id].plan.request.action IN
        /\ ClassifyTier(action) = "AUTO_SAFE" /\ asset = "standard"
        /\ policy.enabled
        /\ action \in policy.allowed \ policy.require_approval
<1>1. ASSUME CaseInv, [Next]_vars, NEW id \in DOMAIN commands PROVE Fits(id)
  <2>1. commands \in Seq(Command)
    BY <1>1 DEF CaseInv, CaseTypeOK, Command
  <2>2. SUFFICES ASSUME ~ commands[id].sent, commands'[id].sent, ~ commands[id].approved
                 PROVE  LET action == commands[id].plan.request.action IN
                        /\ ClassifyTier(action) = "AUTO_SAFE" /\ asset = "standard"
                        /\ policy.enabled
                        /\ action \in policy.allowed \ policy.require_approval
    OBVIOUS
  <2>3. Dispatch(id)
    <3>1. CASE Stage
      <4>1. PICK c : commands' = Append(commands, c)
        BY <3>1 DEF Stage
      <4>2. commands'[id] = commands[id]
        BY <2>1, <4>1
      <4>3. QED
        BY <2>2, <4>2
    <3>2. ASSUME NEW i \in DOMAIN commands, Approve(i) PROVE FALSE
      <4>1. commands'[id].sent = commands[id].sent
        BY <2>1, <3>2 DEF Approve, Command
      <4>2. QED
        BY <2>2, <4>1
    <3>3. ASSUME NEW i \in DOMAIN commands, Dispatch(i), i # id PROVE FALSE
      <4>1. commands'[id] = commands[id]
        BY <2>1, <3>3 DEF Dispatch
      <4>2. QED
        BY <2>2, <4>1
    <3>4. QED
      BY <1>1, <2>2, <3>1, <3>2, <3>3
         DEF Next, ChangeRequest, ChangePolicy, Reclassify, Admit, vars
  <2>4. LET r == commands[id].plan.request IN
        /\ Plan(r, policy, asset).decision # "skip"
        /\ Plan(r, policy, asset).tier = "AUTO_SAFE"
    BY <2>2, <2>3 DEF Dispatch
  <2>5. QED
    BY <2>4 DEF Plan, PlanDecision, EffectiveTier
<1>2. CaseInv /\ [Next]_vars => [\A id \in DOMAIN commands : Fits(id)]_vars
  BY <1>1
<1>3. QED
  BY <1>2, CaseInvariant, PTL DEF Spec, UnattendedIsReadOnly

\* A stricter policy or a more sensitive asset never gets a request further:
\* for every request and any two policies.
THEOREM StrictnessIsMonotone == Spec => StricterNeverWeaker
<1> DEFINE Weaker ==
      /\ request' = request
      /\ asset' \in {asset, "critical", "unknown"}
      /\ ValidCollectionPolicy(policy) /\ Stricter(policy', policy)
      => Strength' <= Strength
<1>1. ASSUME NEW r, NEW p, NEW q, NEW c, NEW d, d \in {c, "critical", "unknown"},
             ValidCollectionPolicy(p), Stricter(q, p), Accepts(r, q, d), c \in AssetClasses
      PROVE  PlanRank[PlanDecision(r, q, d)] <= PlanRank[PlanDecision(r, p, c)]
  BY <1>1 DEF Stricter, PlanDecision, EffectiveTier, PlanRank
<1>2. ASSUME CaseInv PROVE Weaker
  <2>1. SUFFICES ASSUME request' = request, asset' \in {asset, "critical", "unknown"},
                        ValidCollectionPolicy(policy), Stricter(policy', policy)
                 PROVE  Strength' <= Strength
    OBVIOUS
  <2>2. asset \in AssetClasses
    BY <1>2 DEF CaseInv, CaseTypeOK
  <2>3. Strength \in Nat
    BY DEF Strength, PlanRank, PlanDecision
  <2>4. CASE Accepts(request', policy', asset')
    <3>1. Accepts(request, policy, asset)
      BY <2>1, <2>2, <2>4 DEF Accepts
    <3>2. PICK q, d : q = policy' /\ d = asset'
      OBVIOUS
    <3>3. PlanRank[PlanDecision(request, q, d)] <= PlanRank[PlanDecision(request, policy, asset)]
      BY <1>1, <2>1, <2>2, <2>4, <3>2
    <3>4. QED
      BY <2>1, <2>4, <3>1, <3>2, <3>3 DEF Strength
  <2>5. CASE ~ Accepts(request', policy', asset')
    BY <2>3, <2>5 DEF Strength
  <2>6. QED
    BY <2>4, <2>5
<1>3. CaseInv => [Weaker]_vars
  BY <1>2
<1>4. QED
  BY <1>3, CaseInvariant, PTL DEF Spec, StricterNeverWeaker
=============================================================================
