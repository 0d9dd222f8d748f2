# Response engine: TLA+ specifications, model checking and proofs

`response_engine` is a library of pure decisions: which alert gets which of
seven closed actions, in which mode, on which target, through which lifecycle,
and what the incident then reports. It keeps no state; Panopticon Manager and the
endpoint agents do. A decision taken alone is easy to test. What is hard is what
the decisions promise *together*, over time, while analysts, agents, the expiry
sweep and the host itself move: that is what these modules model, TLC checks and
TLAPS proves.

## 1. Inventory

| Part | State it keeps | Operations | What makes it correct |
|---|---|---|---|
| `lifecycle.py` | none (each response's state is the consumer's) | `is_legal_transition` | one terminal verdict; nothing reported that was not sent; cancelled means never sent; everything can lapse |
| `automation.py` | none; the default policy set | `evaluate_policy`, `derive_response_status` | no policy, alert or mode lifts a guardrail; more evidence never weakens an answer; the status neither hides an execution nor invents a containment |
| `policy.py` | the tier table | `classify_tier` | nothing outside two read-only actions is ever automatic |
| `access.py` | the permission table | `permissions_for` | who may request and who may decide are told apart; unknown roles may nothing |
| `contract.py` | none | `Command`, `CommandResult` validation | targets are closed; an outcome agrees with its evidence |
| `recommendation.py`, `linux_identity.py` | none | `translate_recommendation`, `linux_endpoint_context`, `verified_linux_subject` | only the process instance that was observed is ever a target |
| `triage.py` | none (budgets are counted by Manager) | `evaluate`, `default_policy` | budgets hold under concurrency; no automatic collection outside the allowlist |
| `forensics.py` | none | `plan_forensic_collection`, `validate_evidence_metadata` | a tier is only ever strengthened; evidence belongs to its command |
| `signing.py`, `artifacts.py` | none | canonical signing bytes | the framing is injective; the declared schema is the one executed |
| `catalog.py` | none | `action_catalog` | display metadata only |

**Interaction.** The detection engine raises an alert with a recommendation.
Manager translates it (`translate_recommendation`), decides (`evaluate_policy`), and
either stages a `response_actions` row for an analyst or, for an automatic decision,
writes a `commands` row at once. Analysts approve, decline or cancel with the
permissions of `access.py`. An agent polls its command, may acknowledge it, acts,
and reports a `CommandResult`; a sweep expires what waited too long. Each write to
a lifecycle column is checked by `is_legal_transition`, and the incident's status
is derived from all its responses with `derive_response_status`.

Beside responses there are collections. A rule's triage policy says which of three
read-only collections an alert starts on its own; Manager counts what was used,
asks `evaluate`, and reserves. An analyst's forensic case plans the same
collections with `plan_forensic_collection`, plans again when the command is sent,
and admits the artifacts that answer it. Manager signs every command with
`signing_input`; agents sign every artifact with `artifact_signing_input`.

**Hard behaviours.** A cancel against a poll; a late result against the sweep; a
lost, repeated or contradictory report; an agent interrupted between intent and
report; several responses collapsed into one status; the mode switched between
decision and approval; pids used again and hosts rebooted while a command waits;
retained identity proofs that no longer agree with themselves; budgets counted
before somebody else spends them; a plan made under a policy, an asset class or a
request object that changed since; artifacts delivered twice or by a clone; a signed
envelope that is encoded again on its way. `PROJECT.json`
lists them all, with the line where each bites.

## 2. Modules

| Module | Models | Level |
|---|---|---|
| `LifecycleTable` | `lifecycle.py`: states, transition table, `is_legal_transition` | constant |
| `Lifecycle` | what the lifecycle promises any consumer: the abstract specification | state |
| `LifecycleTrace` | the same with a history of the states visited | state |
| `ResponseContract` | closed actions, tiers, permissions, `CommandResult` validation | constant |
| `Automation` | `evaluate_policy`, `derive_response_status`, default policies | constant |
| `PolicyReview` | pairs of `evaluate_policy` calls one change apart | state |
| `ResponseFlow` | Manager's two tables, analysts, wire, agents, around the library's operators | state |
| `Recommendation` | translation, identity proofs, `Command` validation | constant |
| `ProcessTarget` | a host with pid reuse and reboots, and one response travelling to it | state |
| `Triage` | `triage.py`: validators, default policy, `evaluate` | constant |
| `AutoTriage` | Manager's counts, reservations and clock around `evaluate`, rules sharing endpoints | state |
| `Forensics` | `forensics.py` and the manifest of `artifacts.py`, in one case from plan to evidence | state |
| `Signing` | `signing_input` over the targets of `Recommendation`, and the way of a signed command | state |
| `Framing` | the bytes of `signing.py` and `artifacts.py`, over the states of `Signing` | state |
| `MC...` | values for TLC | |
| `...Proofs` | theorems about the module of that name | |

`ResponseFlow` composes `Automation`, `ResponseContract` and `LifecycleTable`, and
is shown to implement `Lifecycle` through the mapping of `lifecycle.py:16-46`:
`Canonical(r)` is the state of the `commands` row where there is one, and
otherwise that of the `response_actions` row, in which REJECTED means CANCELLED.

`AutoTriage` composes `Triage` with the tables of Manager; `Forensics` composes
`Recommendation` (targets, `Command`, the legacy translation), `Triage` (actions, classes,
native paths) and `ResponseContract` (tiers); `Signing` takes its targets and the command contract
from `Recommendation`.

An operator whose comment begins with "Mutant" is a deliberately wrong version of
the definition that follows it. It is used to confirm that a property fails when
the code is wrong in that way, and by nothing else.

### Correspondence

*Data.* An identifier, a label, a reason or a detail is left out or is one value of
a small set. A percent stands for a confidence, a set of names for the keys with a
non-empty value in the evidence, `PrefixesOf[id]` for `str.startswith`. A JSON
field in `Recommendation` is its type and number, so that a boolean, a decimal
string and an integer stay apart; `Max32` and `Max64` are the two integer widths.
SHA-256 is injective: a digest is the tuple that is hashed. The native digest
frames its fields by length, and the Linux one separates them with `|`, which only
the host, the first field, may contain; both framings are therefore injective too.

*Control.* One operator or action for each function or handler, with its guards in
the order of the code. `ResponseFlow`:

| Action | Handler |
|---|---|
| `SetMode` | the operator changes `PANOPTICON_RESPONSE_MODE` |
| `OnAlertCreated` | evaluates the policy in the detection transaction; writes the decision, the row, and for an automatic decision the command |
| `ManualRequest` | an analyst with REQUEST asks; always awaits approval, whatever the mode |
| `Authorize`, `Decline`, `Cancel` | an analyst with DECIDE, or a cancel before dispatch |
| `Poll`, `Accept`, `SubmitResult` | the agent-facing endpoints |
| `ExpireRow`, `ExpireCommand` | the sweep, in each table |
| `AgentReceive`, `AgentInitiate`, `AgentReport` | inbox intent, native action, committed result |

Manager and the agents are not in this repository. Their handlers are modelled
from what this code and its docs say of them, and `PROJECT.json` marks them
external; every decision inside a handler is an operator translated from `src/`.
`effect[r]` is the ground truth on the host, which no component reads;
`decidedIn[r]` is history: the mode that was set when the response was asked for. A sent command that is never received, a report
that is never submitted, one submitted late or repeatedly are all behaviours: none
of those actions is bound to happen, and each stays possible until it does.

*Facts about agents that are assumed.* A report's evidence and its `verified:`
prefix are true of the host (`docs/AUTOMATED_RESPONSE.md` calls `verified:` the
endpoint's own observation); the outcome it names may be anything. A report without
evidence may be wrong in either direction. A result is of schema 2, the only one
that carries evidence. The native action is called at most once per command.

`ProcessTarget`: `Start`, `Exit`, `Reboot` are the host; `Detect` raises the alert on
any process seen so far, dead or alive, with a Linux context, a native one, or none;
`Damage` changes one field of the retained context, to a value of another kind or to whatever the
proof of another process seen so far has there, Linux or native; `Stage` and `Authorize` translate,
the second reading the retained context again (`linux_identity.py:67`); `Kill` is an
agent that compares the running process with the whole target.

`AutoTriage`, where a job is one collection an alert may start:

| Action | Handler |
|---|---|
| `Begin`, `Finish` | one Manager transaction: it counts (`BudgetUsage`), then evaluates and writes the reservation; also for an approval, which evaluates again |
| `Decline`, `Complete`, `NewAlert` | an analyst declines; the artifact arrives with its real size or the agent gives up; an alert is closed and another takes its place |
| `SetPolicy`, `Reported`, `Reclassify` | a policy revision, a capability report, an asset class changes |
| `Tick` | time, also while a transaction is under way: windows move on, workflows lapse |

*Bytes.* What counts against a byte limit is the number of elements of a set with one element for
each reserved or delivered byte unit (`Bytes`), so a sum over collections is a cardinality.

*Assumed of Manager:* count and write happen under the database write lock
(`docs/RESPONSE_OPERATIONS_PLAN.md:55`); without it, two transactions on one count overrun
a budget, which is the mutant `SharedLock`. A reservation is counted until the artifact's
size is known, and what lapsed stays counted.

`Forensics`: `ChangeRequest` and `ChangePolicy` replace the caller's objects by other ones,
valid or not (pydantic does not validate nested mutation); `Stage` plans and stores;
`Approve`; `Dispatch` plans the stored request again under what is in force
(`docs/FORENSIC_DOMAIN.md:127-150`); `Admit` validates a manifest against the command it is
taken to answer. Nothing removes a manifest from `Deliverable`: it may be late,
repeated, reordered or lost.

`Signing`: `Authorize` signs an envelope; `Carry` replaces the envelope beside its
signature by any other; `Execute` is an agent that computes the signing input again,
compares, and runs a command identity once. A signature is the input it was made of, a time its
second, whether it has a fraction, and its notation. `Framing` takes the same states
to bytes. A byte string is a sequence of tokens: a domain line, a field name with its colon,
or a character, digits, colons and newlines among them. A text is such a sequence too, so it
may contain whatever looks like a piece of a frame; a length counts tokens and is written as
its decimal digits, as every number is (`Decimal`, for `str(...)`).

## 3. Runs

| Run | Question | Bounds |
|---|---|---|
| `lifecycle` | what does a state tell about the past; does every response end? | 2 responses: one moves while the other waits or has ended; 324 states |
| `policy_review` | what can one change to an alert, the mode or the policy set do to the decision? | 3 rules (one matched by id and by prefix, one by nothing), levels below, at and outside the gate and the range, confidences on both sides and NaN, default, empty and hostile policy sets of up to `MaxPolicies` policies; 373,000 states |
| `confidence_gate` | does the confidence gate hold as documented? *violated* | the same |
| `response_flow` | one response, every case, role, mode and report | 1 response: the properties concern one response, and responses share only the mode; 8,200 states |
| `incident` | the status of two responses that interleave | 2 responses, one analyst, the alerts that lead to an approval, a preview or a collection; 1,307,000 states |
| `simulated` | are simulated and executed kept apart? *violated* | 1 response |
| `manual_containment` | does every containment need `enforce`? *violated* | 1 response, one analyst |
| `process_target` | does a response reach only the process it is about? | pid used again within a boot, same pid and ticks after a reboot, 2 damaged fields; 1,448,000 states |
| `auto_triage` | do the budgets hold with shared endpoints, changing policies and silent agents? | 2 alerts of 2 rules on one endpoint, one of them collecting twice; 3 revisions, one unvalidated; 2 reports; the installation's limit below the endpoint's widest; budgets at, and half a reservation short of, what is used; 155,574 states |
| `forensics` | is what is planned, sent and admitted always what policy, class and command allow? | 7 requests and 5 policies, some changed after validation; 2 commands, 2 artifacts, a clone; 450,765 states |
| `signing` | does a signature mean one command, in the fields and in the bytes? | 3 actions, 11 targets, every other field changed once, 6 times, 48 pairs of identifiers made of newlines and a field name; 60,061 states |
| `legacy_reboot` | does `start_time_ticks` prevent pid reuse? *violated* | no damage |

Why the bounds are enough. A status is a maximum over items, so two items show
every pair that could hide one another. Two boots with two process starts each are
the smallest world with both kinds of reuse: later start in the same boot, same
start in another. Moving a context to another process takes several fields at once: the process
with the same pid and ticks differs in the boot, which a context carries twice, and in the
digest, so three damaged fields make a native context pass for it (TLC finds that with
`MaxFaults = 3`) and five a Linux one. Two is what any context withstands.
The endpoint is the only thing rules share besides the global limit, so two rules on
one endpoint show every way they interfere; the ages stop at `Horizon`, which no
window exceeds. `Carry` needs no second signed command to swap envelopes: the set it
takes them from contains every other one. The 48 pairs contain two that coincide
as soon as the length is left out.
Unbounded quantities are cut by `MaxSigned`, `MaxCommands`, `MaxPolicies`, `MaxClock`, `MaxBoots` and `MaxFaults`,
each a guard. `Levels` and `Percents` keep one value on each side of every
comparison. Deadlock is checked except where the system really stops:
`LifecycleTrace` when every response has ended, `ProcessTarget` when its bounds are used up.

**Properties worth arguing about.** `StatusNeverHidesExecution`: with a lost result
and a pending sibling, an isolated host still shows as executing or failed.
`CancelledNeverRan`: the row that says cancelled, in either table and under either
spelling, was never sent. `ContainedIsStable`: nothing takes a verified verdict back.
`StrongerAlertNeverAnsweredLess` and `ForeignPolicyHasNoSay` compare two calls.
`CollectionsWithinBudget`: no rule sees another rule's alerts, yet they share limits.
`OnlyRestricts` compares verdicts before and after any step, also under a revision
that lowered a limit below what is used. `StricterNeverWeaker` does so for plans.
`EvidenceOfItsCommand`: nothing from a clone, from another command or twice.
`ExecutedIsAuthorized`: the signing input leaves out the type of every number and the
declared schema, and no command can change in either under its signature.
`OnlyTheAccusedDies`: the canonical path survives reuse, reboot and any two damaged fields.

**Fairness.** Only the expiry sweep is fair (`WF` on the transitions to EXPIRED):
windows are bounded and the sweep runs on a clock (`lifecycle.py:116-118`). No
analyst, agent or message is ever assumed to act. `EventuallySettled` and `Settles`
need nothing else, which is the point of the ANY -> EXPIRED rule. `AutoTriage`
assumes `WF` on `Tick`, that time passes, and nothing of agents or analysts:
`LimitsRecover` says that a limit that was reached is left again all the same.

## 4. Where documents and code differ

Where a theorem says how far a disagreement reaches, it is named: the disagreement goes no further.

1. `automation.py:215`. A NaN confidence is a float that is below no minimum; it
   passes the gate that `automation.py:21-23` says a confidence must satisfy. `GatesAreKept`: it
   is the only way past a gate.
2. `automation.py:347`. For an action that is not a containment the command is never
   looked at: approved, executed and reported, it still reads as
   `simulated_containment` (`docs/AUTOMATED_RESPONSE.md:87-88` keeps the two apart).
   `SimulatedContainmentNeverRan`: a containment that reads so never left for an agent.
3. `recommendation.py:102`. A schema-1 target has no boot; with ticks since boot
   (`docs/adr/002`) a reboot can bring back the same pair, against
   `contract.py:58-61`. The canonical path does not have this problem
   (`OnlyTheAccusedDies`), nor has the legacy one within a boot (`ReusedPidIsSafe`).
4. `automation.py:302`. The global mode is read by `evaluate_policy` alone, which is asked about
   alerts. An analyst's own request for a containment is answered by `permissions_for` and
   `is_legal_transition`, and leaves once it is approved, in `simulate` too;
   `docs/AUTOMATED_RESPONSE.md:58-60` says that `enforce` is required for any real
   containment, `automation.py:26-27` that real execution needs it. What the documents say of
   manual requests themselves is an explicit approval (`docs/RESPONSE_OPERATIONS_PLAN.md:25, 53`,
   `catalog.py:40`). If Manager checks the mode there, it does so by itself.
   `OnlyRequestsPassTheMode`: nothing an alert asked for passes the mode so, and nothing at all
   passes the approval.
5. `recommendation.py:92-102, 129-132`. A pid that is not positive and a path over 4096
   characters are translated, and `Command` then refuses them (`contract.py:106-117`), against
   `recommendation.py:71-73` ("or None if no command can safely be produced"). No run is spent
   on it: `RefusedTranslations` proves which translations these are, and that there are no others.

Noted without a run, since no text says otherwise: an alert with the executor's
marker and no translated action is recorded, not denied (line 260 is before 266);
RELEASE_HOST_ISOLATION after a containment leaves the incident `contained`;
`host_id` may have 128 characters in `signing.py:65` and 256 in `artifacts.py:22`;
the check of `signing.py:86` follows from the command contract that precedes it, and guards
against a change there (the contract alone fixes the schema of a boot);
a mode switched back to `simulate` after a decision stops nothing that was decided,
as decisions are immutable; `contained` outranks a pending sibling; a containment that took effect and whose
result never came reads as `containment_failed`.

## 5. Proofs

The theorems hold for any sets of responses, analysts, roles, cases, manual actions
and policies, under the assumption each module states of its constants. `FlowAssumption`:
the cases are alerts with action names, the policies satisfy the validators, analysts are
not called "system" or "nobody". `BoundsAssumption`, `SigningAssumption` and
`ForensicsAssumption` are typings of the same kind, `FramingAssumption` says that a manifest
has a text for every field. `AutoTriageAssumption` makes the set of
jobs finite, since jobs are counted; no other constant has to be.

`AutomationProofs`. `DecisionGuardrails`: every decision of `EvaluatePolicy` is typed,
automatic only for an AUTO_SAFE closed action, an approval only in enforce, denied or
recorded for what is malformed or carries the marker. It goes through one lemma
per stage: the mode cap, the first policy, the gates. `StatusIsStrongest`: the derived status
is at least as high in `Precedence` as any item's, which rests on the least index
`SelectInSeq` chooses; `SentContainmentShows` and `ContainedHasItem` are the two
directions used below. `GatesAreKept`: what is previewed, staged or started was decided by
the first policy that matches, whose every gate the alert passes, or by the tier when none matches.

`LifecycleProofs`. `TraceInv` strengthens the three history properties with what each
current state implies about the past; neither `CancelledNeverDispatched` nor `OneVerdict` is
inductive alone. `NoWayBackBeforeDispatch` is the fact about the table it turns on.

`ResponseFlowProofs`. `FlowInv` is inductive: `TablesAgree` (a command exists exactly
while its row says AUTHORIZED), `AuthorityKept` (the authority a command or a pending
row carries), `WireOrder` (sent, then received, then in effect), `ReportsAreTrue`. The
proof has one step per action, and responses that do not move are handled once. From it follow
`ExecutionIsAuthorized` (by the tier, or by an analyst for an alert decided under `enforce` or
for a request), `CancelledNeverRan`, `EvidenceDecides`; with the lemmas
on the status, `StatusNeverHidesExecution`, `ContainedIsReal` and `ContainedIsStable`
(a succeeded command is frozen with everything its item is made of); and
`FlowRefinesLifecycle`, each handler being a legal transition of one response or a stutter.
`SweepIsNeverStuck` and `SweepSettles` are what `Settles` rests on besides fairness: every response
that has not ended can be swept, in one table or the other, and one step of the sweep ends it.

`PolicyReviewProofs`. Three theorems about pairs of `EvaluatePolicy` calls hold for any
alerts, policies and modes, and give the action properties of `PolicyReview`:
`EvaluatePolicyIsMonotone` (the policy picked depends on rule and tactic alone, the
gates are monotone, and a malformed alert is answered least),
`ModeOnlyPreviews`, and `ForeignPolicyChangesNothing`, where the first applying policy
moves by at most one place when another is inserted.

`ProcessTargetProofs`. For any processes, reboots and clocks, and whatever damage puts into a
field. The argument of `OnlyTheAccusedDies` counts. The invariant keeps (`ContextOK`) that a
context differs from the one the accused had in at most as many fields as were damaged, and that
the recommendation, which nothing damages, carries the accused's pid and start. A context that
passes the checks names them too (`DamageKeepsPidAndStart`, for any number of faults), so only
the boot can be wrong. If it is, its two boot fields and its digest are (`NativeElsewhere`), and for
a Linux context its native boot and its record as well (`LinuxElsewhere`), as digests are
injective: `Limit` is two faults in general and four for a context that is still a
Linux one (`LinuxWithstandsFour`). Within a boot no number of faults is
enough (`ReusedPidIsSafe`).
`GenuineIsKept` is the converse: nothing undamaged is refused. `RefusedTranslations` states the
border between the translation and the contract as an equivalence.

`TriageProofs`. A limit is not inductive by itself: `CountsHold` says that what a
transaction counted, collections and bytes, still bounds what there is when it writes, because
the lock leaves only time between, and time only frees. `Reserved` bounds what an artifact may
turn out to be by what was reserved for it. With both, `TriageInv` is inductive for any finite
set of jobs and any revisions: `LimitsAreKept` and `BytesAreKept`. `EvaluateOnlyRestricts`, about
two calls of `evaluate`, needs no invariant and gives `VerdictsOnlyRestrict`, since a collection
that starts elsewhere only adds to what is counted; `WritingOnlyRestricts` says that a
transaction that writes is such a step. `UnattendedStaysBounded` holds for policies nobody
validated, and `DefaultGrantsNoFile` says what the policy everybody starts with can do.

`ForensicsProofs`. `AcceptedPlanIsDispatchable`: whatever objects are passed, what the planner
does not refuse is a closed collection that `Command` accepts. With it `CaseInv` is
inductive; the other three follow from it step by step.

`SigningProofs`. `SigningIsInjective` on signable envelopes: the command contract fixes, by
schema and action, which target fields there are and of which type
(`ContractFixesShape`), so what the input omits is determined. `ExecutedWasAuthorized` then
needs only that every signature was made of an authorized envelope.

The bytes (`CommandBytesDetermineInput`, `ArtifactBytesDetermineManifest`,
`CommandBytesAreNoManifest`, `BytesTellTheFields`). Two frames with the same names and the same
bytes are compared field by field. A numeral holds digits and no colon, so the first colon
ends it in both; different numbers have different numerals (`NumeralsDiffer`), so the
lengths agree; the values end where their lengths say, so they agree, and the rest of the two
frames agrees again. Values are read back into fields with the same fact about numerals. The
domain lines keep commands and manifests apart. The inductions, over numbers and over
the fields of a frame, are about sets of naturals (`Induction`, derived from the
well-foundedness of `<` on them), as no operator can be passed to a theorem.

**Only model-checked.** Liveness: `EventuallySettled`, `Settles` and `LimitsRecover`, since the
prover has no ENABLED or fairness reasoning; `SweepIsNeverStuck` and `SweepSettles` are the part of
`Settles` that is safety. Every other property of a passing run is a theorem. The violations that
runs find are counterexamples and need no proof.

## 6. Not modelled

- **Cooldown and duplicate suppression** (`docs/AUTOMATED_RESPONSE.md`) and durable
  redelivery are Manager's; this library only returns `cooldown`, and says nothing of how
  they race with each other. Roles that change between a request and an approval likewise.
- **Keys, their custody and ES256** are outside the library (`signing.py:1`); so is the native
  implementation that agents compare with.
- **`catalog.py`** holds labels for a user interface, **`__init__.py`** exports.
- **Texts**: serialization, field lengths other than the ones a property needs, regular
  expressions, reasons of decisions; the parsing of RFC 3339 beyond what its result
  keeps; UTF-8. The manifests' own patterns (`artifacts.py:20-31`) restrict characters nobody compares.
- **`MAX_CAMPAIGN_ACTIONS`** is a constant only Manager reads.
