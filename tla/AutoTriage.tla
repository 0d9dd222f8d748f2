----------------------------- MODULE AutoTriage -----------------------------
(***************************************************************************)
(* Automatic triage at work: Manager counts what an alert, an endpoint and  *)
(* the whole installation already used, asks Evaluate, and writes the       *)
(* collection it may start.  Rules share the endpoints they collect from;   *)
(* meanwhile time passes, collections end or lapse, reports, asset classes  *)
(* and policy revisions change, and analysts approve or decline.            *)
(*                                                                         *)
(* evaluate has no state and reads its usage as an argument                 *)
(* (triage.py:123-129): the counting, the reservation and the clock are     *)
(* Manager's, outside src/.  Its transactions hold the database write lock  *)
(* (docs/RESPONSE_OPERATIONS_PLAN.md:55) from the count to the write.       *)
(***************************************************************************)
EXTENDS Triage, FiniteSets

CONSTANTS
  Jobs,        \* [alert, rule, endpoint, action, verified, file]: what may be collected
  Revisions,   \* the policies a rule may be given, in any order
  Reports,     \* the capability reports an endpoint may send
  Horizon      \* bound: an age no window reaches

\* A revision need not be valid, but its limits and its decisions are typed.
ASSUME AutoTriageAssumption ==
  /\ IsFiniteSet(Jobs)
  /\ Revisions # {} /\ Horizon \in Nat
  /\ \A p \in Revisions :
       /\ p.budget \in CollectionBudget /\ p.budget.endpoint_window <= Horizon
       /\ \A c \in DOMAIN p.entries : p.entries[c].decision \in Verdicts

Endpoints == {j.endpoint : j \in Jobs}
Rules     == {j.rule : j \in Jobs}

VARIABLES
  policy,   \* policy[rule]: the revision in force
  report,   \* report[e]: the capability report of endpoint e
  asset,    \* asset[e]: its class in Manager's registry
  job,      \* job[j]: how far the collection is
  txn       \* the transactions between their count and their write

vars == <<policy, report, asset, job, txn>>

-----------------------------------------------------------------------------
\* age: ticks since the dispatch; left: ticks until the workflow lapses; bytes:
\* what is reserved, then what was delivered.
Idle    == [stage |-> "none", age |-> 0, left |-> 0, bytes |-> 0]
Pending == [Idle EXCEPT !.stage = "pending"]
Running(ttl) == [stage |-> "running", age |-> 0, left |-> ttl, bytes |-> Reservation]

Dispatched == {j \in Jobs : job[j].stage \in {"running", "over"}}
OfAlert(a) == {j \in Dispatched : j.alert = a}
Active     == {j \in Jobs : job[j].stage = "running"}
ActiveOn(e) == {j \in Active : j.endpoint = e}
InWindow(e, window) == {j \in Dispatched : j.endpoint = e /\ job[j].age < window}

\* The bytes that count for the collections of S: an element for each byte.
Bytes(S) == Cardinality({b \in S \X (1 .. Reservation) : b[2] <= job[b[1]].bytes})

\* Mutant: each rule counts its own collections only.
UsageOfRule(j, budget) ==
  LET window == {k \in InWindow(j.endpoint, budget.endpoint_window) : k.rule = j.rule} IN
  [actions_for_alert |-> Cardinality(OfAlert(j.alert)),
   bytes_for_alert |-> Bytes(OfAlert(j.alert)),
   actions_in_window |-> Cardinality(window), bytes_in_window |-> Bytes(window),
   active_for_endpoint |-> Cardinality({k \in ActiveOn(j.endpoint) : k.rule = j.rule}),
   active_global |-> Cardinality(Active)]

\* BudgetUsage, as Manager counts it before it evaluates job j.
Usage(j, budget) ==
  LET window == InWindow(j.endpoint, budget.endpoint_window) IN
  [actions_for_alert |-> Cardinality(OfAlert(j.alert)),
   bytes_for_alert |-> Bytes(OfAlert(j.alert)),
   actions_in_window |-> Cardinality(window), bytes_in_window |-> Bytes(window),
   active_for_endpoint |-> Cardinality(ActiveOn(j.endpoint)),
   active_global |-> Cardinality(Active)]

Verdict(j, usage) ==
  Evaluate(policy[j.rule],
    [action |-> j.action, asset |-> asset[j.endpoint], verified |-> j.verified,
     file |-> j.file],
    report[j.endpoint], usage)

Init ==
  /\ policy \in [Rules -> Revisions]
  /\ report \in [Endpoints -> Reports]
  /\ asset \in [Endpoints -> AssetClasses]
  /\ job = [j \in Jobs |-> Idle]
  /\ txn = {}

-----------------------------------------------------------------------------
(* Manager: counting, deciding, reserving.                                 *)

\* Mutant: a second transaction may count before the first has written.
SharedLock == Cardinality(txn) < 2

\* The write lock is free.
LockIsFree == txn = {}

\* Mutant: the age is kept for ever, and a workflow never lapses.
AgedOnly(r) ==
  IF r.stage \in {"running", "over"} /\ r.age < Horizon THEN [r EXCEPT !.age = @ + 1] ELSE r

\* The transaction counts: for an alert not triaged yet, or for a pending
\* collection that an analyst approves.
Begin(j) ==
  /\ LockIsFree
  /\ job[j].stage \in {"none", "pending"}
  /\ txn' = txn \cup {[job |-> j, usage |-> Usage(j, policy[j.rule].budget)]}
  /\ UNCHANGED <<policy, report, asset, job>>

\* What the verdict makes of the collection: an approval evaluates again, and
\* may only still be refused (docs/FLAGSHIP_RESPONSE_PLAN.md).
Outcome(j, verdict) ==
  CASE verdict = "skip" -> Idle
    [] verdict = "require_approval" /\ job[j].stage = "none" -> Pending
    [] OTHER -> Running(policy[j.rule].budget.workflow_ttl)

\* It decides, and writes.
Finish(t) ==
  /\ job' = [job EXCEPT ![t.job] = Outcome(t.job, Verdict(t.job, t.usage))]
  /\ txn' = txn \ {t}
  /\ UNCHANGED <<policy, report, asset>>

Decline(j) ==
  /\ LockIsFree
  /\ job[j].stage = "pending"
  /\ job' = [job EXCEPT ![j] = Idle]
  /\ UNCHANGED <<policy, report, asset, txn>>

\* The artifact arrives, with the bytes it really has, or the agent gives up.
Complete(j) ==
  /\ LockIsFree
  /\ job[j].stage = "running"
  /\ \E n \in 0 .. Reservation :
       job' = [job EXCEPT ![j] = [@ EXCEPT !.stage = "over", !.left = 0, !.bytes = n]]
  /\ UNCHANGED <<policy, report, asset, txn>>

\* An alert whose collections are all over and outside every window is closed;
\* a new one takes its name.
NewAlert(a) ==
  /\ LockIsFree
  /\ OfAlert(a) # {}
  /\ \A j \in OfAlert(a) : job[j].stage = "over" /\ job[j].age = Horizon
  /\ job' = [j \in Jobs |-> IF j.alert = a THEN Idle ELSE job[j]]
  /\ UNCHANGED <<policy, report, asset, txn>>

-----------------------------------------------------------------------------
(* What changes around the triage.                                         *)

SetPolicy(r) ==
  /\ LockIsFree
  /\ \E p \in Revisions \ {policy[r]} : policy' = [policy EXCEPT ![r] = p]
  /\ UNCHANGED <<report, asset, job, txn>>

\* A report arrives, or the last one is not recent any more.
Reported(e) ==
  /\ LockIsFree
  /\ \E c \in Reports \ {report[e]} : report' = [report EXCEPT ![e] = c]
  /\ UNCHANGED <<policy, asset, job, txn>>

Reclassify(e) ==
  /\ LockIsFree
  /\ \E c \in AssetClasses \ {asset[e]} : asset' = [asset EXCEPT ![e] = c]
  /\ UNCHANGED <<policy, report, job, txn>>

\* One tick older: a workflow whose time is up lapses, its bytes stay counted.
Aged(r) ==
  IF r.stage \notin {"running", "over"} THEN r
  ELSE [r EXCEPT !.age = IF @ < Horizon THEN @ + 1 ELSE @,
                 !.left = IF @ > 0 THEN @ - 1 ELSE @,
                 !.stage = IF r.left <= 1 THEN "over" ELSE @]

\* Time passes, also while a transaction is under way.
Tick ==
  /\ job' = [j \in Jobs |-> Aged(job[j])]
  /\ UNCHANGED <<policy, report, asset, txn>>

Next ==
  \/ \E j \in Jobs : Begin(j) \/ Decline(j) \/ Complete(j)
  \/ \E t \in txn : Finish(t)
  \/ \E j \in Jobs : NewAlert(j.alert)
  \/ \E r \in Rules : SetPolicy(r)
  \/ \E e \in Endpoints : Reported(e) \/ Reclassify(e)
  \/ Tick

Spec == Init /\ [][Next]_vars

\* Only time is bound to pass: no agent answers, no analyst decides.
FairSpec == Spec /\ WF_vars(Tick)

-----------------------------------------------------------------------------
(* Properties.                                                             *)

JobState == [stage : {"none", "pending", "running", "over"}, age : 0 .. Horizon,
             left : Nat, bytes : 0 .. Reservation]

\* The types; one transaction holds the lock.
TypeOK ==
  /\ policy \in [Rules -> Revisions] /\ report \in [Endpoints -> Reports]
  /\ asset \in [Endpoints -> AssetClasses] /\ job \in [Jobs -> JobState]
  /\ \A t \in txn : t.job \in Jobs /\ job[t.job].stage \in {"none", "pending"}
  /\ \A t, u \in txn : t = u

\* What the transaction counted is at least what there is.
StillBounds(t, budget) ==
  /\ {t.usage.actions_for_alert, t.usage.actions_in_window, t.usage.active_for_endpoint,
      t.usage.active_global, t.usage.bytes_for_alert, t.usage.bytes_in_window} \subseteq Nat
  /\ Cardinality(OfAlert(t.job.alert)) <= t.usage.actions_for_alert
  /\ Cardinality(InWindow(t.job.endpoint, budget.endpoint_window))
       <= t.usage.actions_in_window
  /\ Cardinality(ActiveOn(t.job.endpoint)) <= t.usage.active_for_endpoint
  /\ Cardinality(Active) <= t.usage.active_global
  /\ Bytes(OfAlert(t.job.alert)) <= t.usage.bytes_for_alert
  /\ Bytes(InWindow(t.job.endpoint, budget.endpoint_window)) <= t.usage.bytes_in_window

\* What a transaction counted still bounds what there is when it writes: until
\* then only time passes, and time only frees (triage.py:123-129, 205).
CountsHold == \A t \in txn : StillBounds(t, policy[t.job.rule].budget)

\* The limits are never overrun, whoever shares the endpoint: the collections of
\* an alert, those of an endpoint within a window wherever the window begins, those
\* under way there, and those under way anywhere.  Revisions may differ, so
\* what there is fits one of them (triage.py:205-225).
CollectionsWithinBudget ==
  /\ \A j \in Jobs : \E p \in Revisions :
       Cardinality(OfAlert(j.alert)) <= p.budget.max_actions_per_alert
  /\ \A e \in Endpoints : \E p \in Revisions :
       /\ Cardinality(InWindow(e, p.budget.endpoint_window))
            <= p.budget.max_actions_per_endpoint_window
       /\ Cardinality(ActiveOn(e)) <= p.budget.max_active_per_endpoint
  /\ Cardinality(Active) <= MaxActiveGlobal

\* Nor are the bytes, though nobody knows how large an artifact will be when
\* its collection starts (triage.py:33-35, 207-219).
BytesWithinBudget ==
  /\ \A j \in Jobs : \E p \in Revisions :
       Bytes(OfAlert(j.alert)) <= p.budget.max_bytes_per_alert
  /\ \A e \in Endpoints : \E p \in Revisions :
       Bytes(InWindow(e, p.budget.endpoint_window)) <= p.budget.max_bytes_per_endpoint_window

\* A collection keeps its full reservation as long as it is under way.
Reserved == \A j \in Active : job[j].bytes = Reservation

\* Together they are inductive.
TriageInv ==
  TypeOK /\ Reserved /\ CountsHold /\ CollectionsWithinBudget /\ BytesWithinBudget

\* What starts without an analyst starts on a standard endpoint that enforces
\* its policy, even under a policy nobody validated, and a file among it was
\* listed by its exact path (triage.py:152, 200-203, 229-231).
UnattendedIsBounded ==
  [][ \A j \in Jobs :
        job[j].stage = "none" /\ job'[j].stage = "running" =>
          /\ asset[j.endpoint] = "standard" /\ report[j.endpoint].mode = "enforce"
          /\ j.action = "COLLECT_FILE" =>
               \E f \in policy[j.rule].entries[<<j.action, "standard">>].files :
                 f = [platform |-> report[j.endpoint].platform, path |-> j.file] ]_vars

\* The verdict a job would get now.
CurrentVerdict(j) == Verdict(j, Usage(j, policy[j.rule].budget))

Rank == [skip |-> 0, require_approval |-> 1, auto_dispatch |-> 2]

\* More is used and the endpoint offers less, under the same policy and class.
OffersLess(c, d) ==
  /\ c.platform = d.platform
  /\ c.implemented \subseteq d.implemented /\ c.allowed \subseteq d.allowed
  /\ c.mode \in {d.mode, "off", "dry_run"}
  /\ c.recent => d.recent
  /\ c.channel => d.channel
  /\ c.gate => d.gate
  /\ c.artifacts => d.artifacts
UsesMore(u, v) == \A f \in DOMAIN v : u[f] >= v[f]

Restricts(j) ==
  /\ policy'[j.rule] = policy[j.rule] /\ asset'[j.endpoint] = asset[j.endpoint]
  /\ OffersLess(report'[j.endpoint], report[j.endpoint])
  /\ UsesMore(Usage(j, policy[j.rule].budget)', Usage(j, policy[j.rule].budget))

\* Capability and budget may only restrict: no other collection that starts, and
\* nothing an endpoint loses, turns a verdict into a stronger one
\* (triage.py:152, tests/test_triage.py:110).
OnlyRestricts ==
  [][ \A j \in Jobs : job[j].stage \in {"none", "pending"} /\ Restricts(j) =>
        Rank[CurrentVerdict(j)'] <= Rank[CurrentVerdict(j)] ]_vars

\* A limit that is reached is left again with every agent silent: workflows
\* lapse and windows move on (triage.py:38, 42).
LimitsRecover ==
  /\ []<>(Cardinality(Active) < MaxActiveGlobal)
  /\ \A e \in Endpoints :
       /\ []<>(\E p \in Revisions :
                 Cardinality(ActiveOn(e)) < p.budget.max_active_per_endpoint)
       /\ []<>(\E p \in Revisions :
                 Cardinality(InWindow(e, p.budget.endpoint_window))
                   < p.budget.max_actions_per_endpoint_window)
=============================================================================
