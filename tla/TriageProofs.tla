---------------------------- MODULE TriageProofs ----------------------------
(***************************************************************************)
(* Proofs about the triage decision and the budgets around it.             *)
(***************************************************************************)
EXTENDS AutoTriage, FiniteSetTheorems, TLAPS

\* Every count is the cardinality of a set of jobs.
LEMMA JobSetsAreFinite ==
  ASSUME NEW S, S \subseteq Jobs
  PROVE  IsFiniteSet(S) /\ Cardinality(S) \in Nat
BY FS_Subset, FS_CardinalityType, AutoTriageAssumption

LEMMA FewerJobs ==
  ASSUME NEW S, S \subseteq Jobs, NEW T, T \subseteq S
  PROVE  Cardinality(T) <= Cardinality(S)
BY FS_Subset, JobSetsAreFinite

LEMMA OneJobMore ==
  ASSUME NEW S, S \subseteq Jobs, NEW j \in Jobs, NEW T, T \subseteq S \cup {j}
  PROVE  Cardinality(T) <= Cardinality(S) + 1
<1>1. S \cup {j} \subseteq Jobs
  OBVIOUS
<1>2. Cardinality(T) <= Cardinality(S \cup {j})
  BY <1>1, FewerJobs
<1>3. Cardinality(S \cup {j}) = IF j \in S THEN Cardinality(S) ELSE Cardinality(S) + 1
  BY FS_AddElement, JobSetsAreFinite
<1>. QED
  BY <1>1, <1>2, <1>3, JobSetsAreFinite

LEMMA CountedSets ==
  ASSUME NEW a, NEW e, NEW w
  PROVE  /\ OfAlert(a) \subseteq Jobs /\ InWindow(e, w) \subseteq Jobs
         /\ ActiveOn(e) \subseteq Jobs /\ Active \subseteq Jobs
BY DEF OfAlert, InWindow, ActiveOn, Active, Dispatched

-----------------------------------------------------------------------------
(* Bytes: the cardinality of a set of job and unit pairs.                  *)

Units(S, f) == {b \in S \X (1 .. Reservation) : b[2] <= f[b[1]].bytes}

LEMMA BytesAreUnits ==
  ASSUME NEW a, NEW e, NEW w
  PROVE  /\ Bytes(OfAlert(a)) = Cardinality(Units(OfAlert(a), job))
         /\ Bytes(InWindow(e, w)) = Cardinality(Units(InWindow(e, w), job))
         /\ Bytes(OfAlert(a))' = Cardinality(Units(OfAlert(a)', job'))
         /\ Bytes(InWindow(e, w))' = Cardinality(Units(InWindow(e, w)', job'))
BY DEF Bytes, Units

LEMMA UnitsAreFinite ==
  ASSUME NEW S, S \subseteq Jobs, NEW f
  PROVE  IsFiniteSet(Units(S, f)) /\ Cardinality(Units(S, f)) \in Nat
<1>1. IsFiniteSet(1 .. Reservation)
  BY FS_Interval, TriageAssumption
<1>2. IsFiniteSet(S \X (1 .. Reservation))
  BY <1>1, FS_Product, JobSetsAreFinite
<1>3. Units(S, f) \subseteq S \X (1 .. Reservation)
  BY DEF Units
<1>. QED
  BY <1>2, <1>3, FS_Subset, FS_CardinalityType

\* Fewer jobs, none of them larger, have no more bytes.
LEMMA FewerUnits ==
  ASSUME NEW S, S \subseteq Jobs, NEW T, T \subseteq S, NEW f, NEW g,
         \A j \in T : f[j].bytes \in Int /\ g[j].bytes \in Int /\ g[j].bytes <= f[j].bytes
  PROVE  Cardinality(Units(T, g)) <= Cardinality(Units(S, f))
<1>1. Units(T, g) \subseteq Units(S, f)
  BY TriageAssumption DEF Units
<1>. QED
  BY <1>1, UnitsAreFinite, FS_Subset

\* One job more adds a reservation at most, whatever its own bytes were.
LEMMA OneReservationMore ==
  ASSUME NEW S, S \subseteq Jobs, NEW k \in Jobs, NEW T, T \subseteq S \cup {k},
         NEW f, NEW g,
         \A j \in T : j # k =>
           f[j].bytes \in Int /\ g[j].bytes \in Int /\ g[j].bytes <= f[j].bytes
  PROVE  Cardinality(Units(T, g)) <= Cardinality(Units(S, f)) + Reservation
<1>. DEFINE own == {k} \X (1 .. Reservation)
<1>1. IsFiniteSet(own) /\ Cardinality(own) = Reservation
  <2>1. IsFiniteSet(1 .. Reservation) /\ Cardinality(1 .. Reservation) = Reservation
    BY FS_Interval, TriageAssumption
  <2>2. IsFiniteSet({k}) /\ Cardinality({k}) = 1
    BY FS_Singleton
  <2>3. IsFiniteSet(own) /\ Cardinality(own) = Cardinality({k}) * Cardinality(1 .. Reservation)
    BY <2>1, <2>2, FS_Product
  <2>. QED
    BY <2>1, <2>2, <2>3, TriageAssumption
<1>2. Units(T, g) \subseteq Units(S, f) \cup own
  BY TriageAssumption DEF Units
<1>3. IsFiniteSet(Units(S, f)) /\ Cardinality(Units(S, f)) \in Nat
  BY UnitsAreFinite
<1>. HIDE DEF own
<1>4. /\ IsFiniteSet(Units(S, f) \cup own)
      /\ Cardinality(Units(S, f) \cup own)
           = Cardinality(Units(S, f)) + Cardinality(own) - Cardinality(Units(S, f) \cap own)
  BY <1>1, <1>3, FS_Union
<1>5. Cardinality(Units(S, f) \cap own) \in Nat
  BY <1>1, <1>3, FS_Intersection, FS_CardinalityType
<1>6. /\ Cardinality(Units(T, g)) <= Cardinality(Units(S, f) \cup own)
      /\ Cardinality(Units(T, g)) \in Nat
  BY <1>2, <1>4, FS_Subset, FS_CardinalityType
<1>. QED
  BY <1>1, <1>3, <1>4, <1>5, <1>6, TriageAssumption

\* The bytes are natural numbers, now and after the step.
LEMMA BytesAreNat ==
  ASSUME NEW a, NEW e, NEW w
  PROVE  /\ Bytes(OfAlert(a)) \in Nat /\ Bytes(InWindow(e, w)) \in Nat
         /\ Bytes(OfAlert(a))' \in Nat /\ Bytes(InWindow(e, w))' \in Nat
<1>1. OfAlert(a)' \subseteq Jobs /\ InWindow(e, w)' \subseteq Jobs
  BY DEF OfAlert, InWindow, Dispatched
<1>. QED
  BY <1>1, CountedSets, BytesAreUnits, UnitsAreFinite

-----------------------------------------------------------------------------
(* Steps that add nothing to a count.                                      *)

\* Nothing is dispatched, nothing becomes younger or larger.
NothingStarts ==
  \A j \in Jobs :
    /\ job'[j].stage \in {"running", "over"} =>
         /\ job[j].stage \in {"running", "over"} /\ job[j].age <= job'[j].age
         /\ job'[j].bytes <= job[j].bytes
    /\ job'[j].stage = "running" => job[j].stage = "running"

LEMMA SetsShrink ==
  ASSUME NothingStarts, job \in [Jobs -> JobState], job' \in [Jobs -> JobState],
         NEW a, NEW e, NEW w \in Nat
  PROVE  /\ OfAlert(a)' \subseteq OfAlert(a) /\ InWindow(e, w)' \subseteq InWindow(e, w)
         /\ ActiveOn(e)' \subseteq ActiveOn(e) /\ Active' \subseteq Active
<1>1. \A j \in Jobs : job[j].age \in Nat /\ job'[j].age \in Nat
  BY AutoTriageAssumption DEF JobState
<1>. QED
  BY <1>1 DEF NothingStarts, OfAlert, InWindow, ActiveOn, Active, Dispatched

LEMMA CountsShrink ==
  ASSUME NothingStarts, job \in [Jobs -> JobState], job' \in [Jobs -> JobState],
         NEW a, NEW e, NEW w \in Nat
  PROVE  /\ Cardinality(OfAlert(a))' <= Cardinality(OfAlert(a))
         /\ Cardinality(InWindow(e, w))' <= Cardinality(InWindow(e, w))
         /\ Cardinality(ActiveOn(e))' <= Cardinality(ActiveOn(e))
         /\ Cardinality(Active)' <= Cardinality(Active)
BY SetsShrink, CountedSets, FewerJobs

LEMMA BytesShrink ==
  ASSUME NothingStarts, job \in [Jobs -> JobState], job' \in [Jobs -> JobState],
         NEW a, NEW e, NEW w \in Nat
  PROVE  /\ Bytes(OfAlert(a))' <= Bytes(OfAlert(a))
         /\ Bytes(InWindow(e, w))' <= Bytes(InWindow(e, w))
<1>1. \A j \in Dispatched' :
        job[j].bytes \in Int /\ job'[j].bytes \in Int /\ job'[j].bytes <= job[j].bytes
  BY DEF NothingStarts, Dispatched, JobState
<1>2. OfAlert(a)' \subseteq Dispatched' /\ InWindow(e, w)' \subseteq Dispatched'
  BY DEF OfAlert, InWindow
<1>3. OfAlert(a)' \subseteq OfAlert(a) /\ InWindow(e, w)' \subseteq InWindow(e, w)
  BY SetsShrink
<1>4. Cardinality(Units(OfAlert(a)', job')) <= Cardinality(Units(OfAlert(a), job))
  BY <1>1, <1>2, <1>3, CountedSets, FewerUnits
<1>5. Cardinality(Units(InWindow(e, w)', job')) <= Cardinality(Units(InWindow(e, w), job))
  BY <1>1, <1>2, <1>3, CountedSets, FewerUnits
<1>. QED
  BY <1>4, <1>5, BytesAreUnits

\* The counts are natural numbers, now and after the step.
LEMMA CountsAreNat ==
  ASSUME NEW a, NEW e, NEW w
  PROVE  /\ Cardinality(OfAlert(a)) \in Nat /\ Cardinality(InWindow(e, w)) \in Nat
         /\ Cardinality(ActiveOn(e)) \in Nat /\ Cardinality(Active) \in Nat
         /\ Cardinality(OfAlert(a))' \in Nat /\ Cardinality(InWindow(e, w))' \in Nat
         /\ Cardinality(ActiveOn(e))' \in Nat /\ Cardinality(Active)' \in Nat
<1>1. /\ OfAlert(a)' \subseteq Jobs /\ InWindow(e, w)' \subseteq Jobs
      /\ ActiveOn(e)' \subseteq Jobs /\ Active' \subseteq Jobs
  BY DEF OfAlert, InWindow, ActiveOn, Active, Dispatched
<1>. QED
  BY <1>1, CountedSets, JobSetsAreFinite

LEMMA ActiveIsNat == Cardinality(Active) \in Nat /\ Cardinality(Active)' \in Nat
<1>1. Active \subseteq Jobs /\ Active' \subseteq Jobs
  BY DEF Active
<1>. QED
  BY <1>1, JobSetsAreFinite

\* The limits of a revision are numbers.
LEMMA LimitsAreNat ==
  ASSUME NEW p \in Revisions
  PROVE  /\ p.budget.max_actions_per_alert \in Nat
         /\ p.budget.max_actions_per_endpoint_window \in Nat
         /\ p.budget.max_active_per_endpoint \in Nat
         /\ p.budget.endpoint_window \in Nat /\ p.budget.endpoint_window > 0
         /\ p.budget.workflow_ttl \in Nat
         /\ 1 <= p.budget.max_actions_per_alert
         /\ 1 <= p.budget.max_actions_per_endpoint_window
         /\ 1 <= p.budget.max_active_per_endpoint
         /\ p.budget.max_bytes_per_alert \in Nat
         /\ p.budget.max_bytes_per_endpoint_window \in Nat
<1>1. p.budget \in CollectionBudget
  BY AutoTriageAssumption
<1>2. /\ p.budget.max_bytes_per_alert \in Nat
      /\ p.budget.max_bytes_per_endpoint_window \in Nat
  BY <1>1, TriageAssumption DEF CollectionBudget
<1>. QED
  BY <1>1, <1>2 DEF CollectionBudget

LEMMA BudgetsStayKept ==
  ASSUME NothingStarts, job \in [Jobs -> JobState], job' \in [Jobs -> JobState],
         CollectionsWithinBudget
  PROVE  CollectionsWithinBudget'
<1>1. ASSUME NEW j \in Jobs
      PROVE  \E p \in Revisions :
               Cardinality(OfAlert(j.alert))' <= p.budget.max_actions_per_alert
  <2>1. PICK p \in Revisions : Cardinality(OfAlert(j.alert)) <= p.budget.max_actions_per_alert
    BY DEF CollectionsWithinBudget
  <2>2. Cardinality(OfAlert(j.alert))' <= Cardinality(OfAlert(j.alert))
    BY CountsShrink
  <2>. QED
    BY <2>1, <2>2, CountsAreNat, LimitsAreNat
<1>2. ASSUME NEW e \in Endpoints
      PROVE  \E p \in Revisions :
               /\ Cardinality(InWindow(e, p.budget.endpoint_window))'
                    <= p.budget.max_actions_per_endpoint_window
               /\ Cardinality(ActiveOn(e))' <= p.budget.max_active_per_endpoint
  <2>1. PICK p \in Revisions :
               /\ Cardinality(InWindow(e, p.budget.endpoint_window))
                    <= p.budget.max_actions_per_endpoint_window
               /\ Cardinality(ActiveOn(e)) <= p.budget.max_active_per_endpoint
    BY DEF CollectionsWithinBudget
  <2>2. /\ Cardinality(InWindow(e, p.budget.endpoint_window))'
             <= Cardinality(InWindow(e, p.budget.endpoint_window))
        /\ Cardinality(ActiveOn(e))' <= Cardinality(ActiveOn(e))
    BY CountsShrink, LimitsAreNat
  <2>. QED
    BY <2>1, <2>2, CountsAreNat, LimitsAreNat
<1>3. Cardinality(Active)' <= MaxActiveGlobal
  <2>1. Cardinality(Active)' <= Cardinality(Active)
    BY CountsShrink, LimitsAreNat, AutoTriageAssumption
  <2>. QED
    BY <2>1, ActiveIsNat, TriageAssumption DEF CollectionsWithinBudget
<1>. QED
  BY <1>1, <1>2, <1>3 DEF CollectionsWithinBudget, Endpoints

LEMMA BytesStayKept ==
  ASSUME NothingStarts, job \in [Jobs -> JobState], job' \in [Jobs -> JobState],
         BytesWithinBudget
  PROVE  BytesWithinBudget'
<1>1. ASSUME NEW j \in Jobs
      PROVE  \E p \in Revisions : Bytes(OfAlert(j.alert))' <= p.budget.max_bytes_per_alert
  <2>1. PICK p \in Revisions : Bytes(OfAlert(j.alert)) <= p.budget.max_bytes_per_alert
    BY DEF BytesWithinBudget
  <2>2. Bytes(OfAlert(j.alert))' <= Bytes(OfAlert(j.alert))
    BY BytesShrink
  <2>3. /\ Bytes(OfAlert(j.alert)) \in Nat /\ Bytes(OfAlert(j.alert))' \in Nat
        /\ p.budget.max_bytes_per_alert \in Nat
    BY BytesAreNat, LimitsAreNat
  <2>. QED
    BY <2>1, <2>2, <2>3
<1>2. ASSUME NEW e \in Endpoints
      PROVE  \E p \in Revisions : Bytes(InWindow(e, p.budget.endpoint_window))'
                                   <= p.budget.max_bytes_per_endpoint_window
  <2>1. PICK p \in Revisions : Bytes(InWindow(e, p.budget.endpoint_window))
                                 <= p.budget.max_bytes_per_endpoint_window
    BY DEF BytesWithinBudget
  <2>2. Bytes(InWindow(e, p.budget.endpoint_window))'
          <= Bytes(InWindow(e, p.budget.endpoint_window))
    BY BytesShrink, LimitsAreNat
  <2>3. /\ Bytes(InWindow(e, p.budget.endpoint_window)) \in Nat
        /\ Bytes(InWindow(e, p.budget.endpoint_window))' \in Nat
        /\ p.budget.max_bytes_per_endpoint_window \in Nat
    BY BytesAreNat, LimitsAreNat
  <2>. QED
    BY <2>1, <2>2, <2>3
<1>. QED
  BY <1>1, <1>2 DEF BytesWithinBudget, Endpoints

-----------------------------------------------------------------------------
(* The decision.                                                           *)

\* Whatever the policy, a verdict other than skip found room for one more.
LEMMA NoVerdictWithoutRoom ==
  ASSUME NEW p, NEW ask, NEW endpoint, NEW usage, Evaluate(p, ask, endpoint, usage) # "skip"
  PROVE  WithinBudget(p.budget, usage)
BY DEF Evaluate, Applies

\* Less capability and more usage never lead to a stronger verdict, for any
\* policy, validated or not, as long as its entries hold verdicts
\* (triage.py:142-237).
THEOREM EvaluateOnlyRestricts ==
  ASSUME NEW p, NEW ask, NEW c, NEW d, NEW u, NEW v,
         \A cell \in DOMAIN p.entries : p.entries[cell].decision \in Verdicts,
         OffersLess(c, d),
         WithinBudget(p.budget, u) => WithinBudget(p.budget, v)
  PROVE  Rank[Evaluate(p, ask, c, u)] <= Rank[Evaluate(p, ask, d, v)]
<1>1. CASE ~ Applies(p, ask, c, u)
  <2>1. Evaluate(p, ask, c, u) = "skip"
    BY <1>1 DEF Evaluate
  <2>2. Evaluate(p, ask, d, v) \in Verdicts
    BY DEF Evaluate, Applies, Verdicts
  <2>. QED
    BY <2>1, <2>2 DEF Rank, Verdicts
<1>2. CASE Applies(p, ask, c, u)
  <2>1. Capable(c, ask.action) => Capable(d, ask.action)
    <3>1. c.mode = "enforce" => d.mode = "enforce"
      BY DEF OffersLess
    <3>. QED
      BY <3>1 DEF Capable, OffersLess
  <2>2. TargetKnown(p.entries[<<ask.action, ask.asset>>], ask, c)
          => TargetKnown(p.entries[<<ask.action, ask.asset>>], ask, d)
    BY DEF TargetKnown, OffersLess
  <2>3. Applies(p, ask, d, v)
    BY <1>2, <2>1, <2>2 DEF Applies
  <2>4. Evaluate(p, ask, c, u) = Evaluate(p, ask, d, v)
    BY <1>2, <2>3 DEF Evaluate
  <2>5. Evaluate(p, ask, d, v) \in Verdicts
    BY DEF Evaluate, Applies, Verdicts
  <2>. QED
    BY <2>4, <2>5 DEF Rank, Verdicts
<1>. QED
  BY <1>1, <1>2

-----------------------------------------------------------------------------
(* The invariant.                                                          *)

LEMMA InitTriage == Init => TriageInv
<1>. SUFFICES ASSUME Init PROVE TriageInv
  OBVIOUS
<1>1. TypeOK
  BY AutoTriageAssumption, TriageAssumption DEF Init, TypeOK, Idle, JobState
<1>2. CountsHold
  BY DEF Init, CountsHold
<1>3. CollectionsWithinBudget
  <2>1. \A j \in Jobs : job[j].stage = "none"
    BY DEF Init, Idle
  <2>2. /\ \A a : OfAlert(a) = {}
        /\ \A e, w : InWindow(e, w) = {} /\ ActiveOn(e) = {}
        /\ Active = {}
    BY <2>1 DEF OfAlert, InWindow, ActiveOn, Active, Dispatched
  <2>3. Cardinality({}) = 0
    BY FS_EmptySet
  <2>4. PICK p : p \in Revisions
    BY AutoTriageAssumption
  <2>5. /\ 0 <= p.budget.max_actions_per_alert
        /\ 0 <= p.budget.max_actions_per_endpoint_window
        /\ 0 <= p.budget.max_active_per_endpoint /\ 0 <= MaxActiveGlobal
    BY <2>4, LimitsAreNat, TriageAssumption
  <2>. QED
    BY <2>2, <2>3, <2>4, <2>5 DEF CollectionsWithinBudget
<1>4. Reserved /\ BytesWithinBudget
  <2>1. \A j \in Jobs : job[j].stage = "none"
    BY DEF Init, Idle
  <2>2. Active = {} /\ (\A a : OfAlert(a) = {}) /\ (\A e, w : InWindow(e, w) = {})
    BY <2>1 DEF OfAlert, InWindow, Active, Dispatched
  <2>3. Units({}, job) = {}
    BY DEF Units
  <2>4. (\A a : Bytes(OfAlert(a)) = 0) /\ (\A e, w : Bytes(InWindow(e, w)) = 0)
    BY <2>2, <2>3, BytesAreUnits, FS_EmptySet
  <2>5. PICK p : p \in Revisions
    BY AutoTriageAssumption
  <2>6. 0 <= p.budget.max_bytes_per_alert /\ 0 <= p.budget.max_bytes_per_endpoint_window
    BY <2>5, LimitsAreNat
  <2>. QED
    BY <2>2, <2>4, <2>5, <2>6 DEF Reserved, BytesWithinBudget
<1>. QED
  BY <1>1, <1>2, <1>3, <1>4 DEF TriageInv

\* Where no transaction is left there is nothing to hold.
LEMMA NoTransaction == ASSUME txn' = {} PROVE CountsHold'
BY DEF CountsHold

\* A tick frees, and never under-counts what a transaction still holds.
LEMMA TickShrinks ==
  ASSUME TypeOK, Tick
  PROVE  /\ NothingStarts /\ job' \in [Jobs -> JobState]
         /\ \A j \in Jobs : job'[j].bytes = job[j].bytes
<1>1. ASSUME NEW j \in Jobs
      PROVE  /\ job'[j] \in JobState
             /\ job'[j].stage \in {"running", "over"} =>
                  job[j].stage \in {"running", "over"} /\ job[j].age <= job'[j].age
             /\ job'[j].stage = "running" => job[j].stage = "running"
             /\ job'[j].bytes = job[j].bytes
  <2>1. job'[j] = Aged(job[j]) /\ job[j] \in JobState
    BY DEF Tick, TypeOK
  <2>2. CASE job[j].stage \notin {"running", "over"}
    BY <2>1, <2>2 DEF Aged, JobState
  <2>3. CASE job[j].stage \in {"running", "over"}
    <3>1. /\ job'[j].age = IF job[j].age < Horizon THEN job[j].age + 1 ELSE job[j].age
          /\ job'[j].left = IF job[j].left > 0 THEN job[j].left - 1 ELSE job[j].left
          /\ job'[j].stage = IF job[j].left <= 1 THEN "over" ELSE job[j].stage
          /\ job'[j].bytes = job[j].bytes
          /\ job'[j] = [stage |-> job'[j].stage, age |-> job'[j].age,
                         left |-> job'[j].left, bytes |-> job'[j].bytes]
      BY <2>1, <2>3 DEF Aged, JobState
    <3>2. /\ job'[j].age \in 0 .. Horizon /\ job[j].age <= job'[j].age
          /\ job'[j].left \in Nat
      BY <2>1, <3>1, AutoTriageAssumption DEF JobState
    <3>3. job'[j].stage \in {"running", "over"}
      BY <2>3, <3>1
    <3>. QED
      BY <2>1, <2>3, <3>1, <3>2, <3>3 DEF JobState
  <2>. QED
    BY <2>2, <2>3
<1>2. \A j \in Jobs : job[j].bytes \in Int
  BY DEF TypeOK, JobState
<1>. QED
  BY <1>1, <1>2 DEF NothingStarts, Tick

LEMMA TickKeeps == ASSUME TriageInv, Tick PROVE TriageInv'
<1>. USE DEF TriageInv
<1>1. /\ NothingStarts /\ job' \in [Jobs -> JobState]
      /\ \A j \in Jobs : job'[j].bytes = job[j].bytes
  BY TickShrinks
<1>2. TypeOK'
  <2>1. \A t \in txn : job'[t.job].stage = job[t.job].stage
    BY DEF Tick, TypeOK, Aged
  <2>. QED
    BY <1>1, <2>1 DEF TypeOK, Tick
<1>3. CountsHold'
  <2>1. ASSUME NEW t \in txn, NEW p \in Revisions, StillBounds(t, p.budget)
        PROVE  StillBounds(t, p.budget)'
    <3>1. /\ Cardinality(OfAlert(t.job.alert))' <= Cardinality(OfAlert(t.job.alert))
          /\ Cardinality(InWindow(t.job.endpoint, p.budget.endpoint_window))'
               <= Cardinality(InWindow(t.job.endpoint, p.budget.endpoint_window))
          /\ Cardinality(ActiveOn(t.job.endpoint))' <= Cardinality(ActiveOn(t.job.endpoint))
          /\ Cardinality(Active)' <= Cardinality(Active)
      BY <1>1, CountsShrink, LimitsAreNat DEF TypeOK
    <3>2. /\ Bytes(OfAlert(t.job.alert))' <= Bytes(OfAlert(t.job.alert))
          /\ Bytes(InWindow(t.job.endpoint, p.budget.endpoint_window))'
               <= Bytes(InWindow(t.job.endpoint, p.budget.endpoint_window))
      BY <1>1, BytesShrink, LimitsAreNat DEF TypeOK
    <3>. QED
      BY <2>1, <3>1, <3>2, CountsAreNat, ActiveIsNat, BytesAreNat DEF StillBounds
  <2>2. \A t \in txn : policy[t.job.rule] \in Revisions
    BY DEF TypeOK, Rules
  <2>. QED
    BY <2>1, <2>2 DEF CountsHold, Tick
<1>4. CollectionsWithinBudget' /\ BytesWithinBudget'
  BY <1>1, BudgetsStayKept, BytesStayKept DEF TypeOK
<1>5. Reserved'
  BY <1>1 DEF NothingStarts, Reserved, Active
<1>. QED
  BY <1>2, <1>3, <1>4, <1>5

\* A step under a free lock that starts nothing.
LEMMA QuietStepKeeps ==
  ASSUME TriageInv, LockIsFree, txn' = txn, NothingStarts, TypeOK', Reserved'
  PROVE  TriageInv'
<1>1. CountsHold'
  BY NoTransaction DEF LockIsFree
<1>2. CollectionsWithinBudget' /\ BytesWithinBudget'
  BY BudgetsStayKept, BytesStayKept DEF TriageInv, TypeOK
<1>. QED
  BY <1>1, <1>2 DEF TriageInv

LEMMA BeginKeeps == ASSUME TriageInv, NEW j \in Jobs, Begin(j) PROVE TriageInv'
<1>. USE DEF TriageInv
<1>. DEFINE u == Usage(j, policy[j.rule].budget)
<1>1. txn' = {[job |-> j, usage |-> u]}
  BY DEF Begin, LockIsFree
<1>2. TypeOK'
  BY <1>1 DEF TypeOK, Begin
<1>3. CountsHold'
  <2>1. /\ u.actions_for_alert = Cardinality(OfAlert(j.alert))
        /\ u.actions_in_window =
             Cardinality(InWindow(j.endpoint, policy[j.rule].budget.endpoint_window))
        /\ u.active_for_endpoint = Cardinality(ActiveOn(j.endpoint))
        /\ u.active_global = Cardinality(Active)
        /\ u.bytes_for_alert = Bytes(OfAlert(j.alert))
        /\ u.bytes_in_window = Bytes(InWindow(j.endpoint, policy[j.rule].budget.endpoint_window))
    BY DEF Usage
  <2>2. UNCHANGED <<policy, job>>
    BY DEF Begin
  <2>3. /\ OfAlert(j.alert)' = OfAlert(j.alert) /\ ActiveOn(j.endpoint)' = ActiveOn(j.endpoint)
        /\ Active' = Active
        /\ InWindow(j.endpoint, policy[j.rule].budget.endpoint_window)'
             = InWindow(j.endpoint, policy[j.rule].budget.endpoint_window)
        /\ Bytes(OfAlert(j.alert))' = Bytes(OfAlert(j.alert))
        /\ Bytes(InWindow(j.endpoint, policy[j.rule].budget.endpoint_window))'
             = Bytes(InWindow(j.endpoint, policy[j.rule].budget.endpoint_window))
    BY <2>2 DEF OfAlert, InWindow, ActiveOn, Active, Dispatched, Bytes
  <2>4. \A t \in txn' : t.job = j /\ t.usage = u
    BY <1>1
  <2>. HIDE DEF u
  <2>. QED
    BY <2>1, <2>2, <2>3, <2>4, CountsAreNat, ActiveIsNat, BytesAreNat
       DEF CountsHold, StillBounds
<1>4. NothingStarts
  BY AutoTriageAssumption DEF NothingStarts, Begin, TypeOK, JobState
<1>5. CollectionsWithinBudget' /\ BytesWithinBudget'
  BY <1>2, <1>4, BudgetsStayKept, BytesStayKept DEF TypeOK
<1>6. Reserved'
  BY DEF Begin, Reserved, Active
<1>. QED
  BY <1>2, <1>3, <1>5, <1>6

\* The transaction writes: the one place where a count grows.
LEMMA FinishKeeps == ASSUME TriageInv, NEW t \in txn, Finish(t) PROVE TriageInv'
<1>. USE DEF TriageInv
<1>. DEFINE j == t.job
            verdict == Verdict(j, t.usage)
<1>1. PICK p \in Revisions : p = policy[j.rule]
  BY DEF TypeOK, Rules
<1>2. /\ j \in Jobs /\ job[j].stage \in {"none", "pending"} /\ txn' = {}
      /\ job' = [job EXCEPT ![j] = Outcome(j, verdict)]
      /\ policy' = policy /\ report' = report /\ asset' = asset
  BY DEF Finish, TypeOK
<1>3. Outcome(j, verdict) \in {Idle, Pending, Running(p.budget.workflow_ttl)}
  BY <1>1 DEF Outcome
<1>4. {Idle, Pending, Running(p.budget.workflow_ttl)} \subseteq JobState
  BY LimitsAreNat, AutoTriageAssumption, TriageAssumption
     DEF Idle, Pending, Running, JobState
<1>5. TypeOK'
  BY <1>2, <1>3, <1>4 DEF TypeOK
<1>6. CountsHold'
  BY <1>2, NoTransaction
<1>7. CASE Outcome(j, verdict) \in {Idle, Pending}
  <2>1. job'[j].stage \in {"none", "pending"}
    BY <1>2, <1>7 DEF Idle, Pending, TypeOK
  <2>2. NothingStarts
    BY <1>2, <2>1, AutoTriageAssumption DEF NothingStarts, TypeOK, JobState
  <2>3. Reserved'
    BY <1>2, <2>1 DEF Reserved, Active, TypeOK
  <2>. QED
    BY <1>5, <1>6, <2>2, <2>3, BudgetsStayKept, BytesStayKept DEF TypeOK
<1>8. CASE Outcome(j, verdict) = Running(p.budget.workflow_ttl)
  <2>1. verdict # "skip"
    BY <1>8 DEF Outcome, Idle, Running
  <2>2. WithinBudget(p.budget, t.usage)
    BY <1>1, <2>1, NoVerdictWithoutRoom DEF Verdict
  <2>3. StillBounds(t, p.budget)
    BY <1>1 DEF CountsHold
  <2>4. \A k \in Jobs : k # j => job'[k] = job[k]
    BY <1>2 DEF TypeOK
  <2>5. ASSUME NEW a, NEW e, NEW w \in Nat
        PROVE  /\ OfAlert(a)' \subseteq OfAlert(a) \cup {j}
               /\ InWindow(e, w)' \subseteq InWindow(e, w) \cup {j}
               /\ ActiveOn(e)' \subseteq ActiveOn(e) \cup {j}
               /\ Active' \subseteq Active \cup {j}
               /\ a # j.alert => OfAlert(a)' \subseteq OfAlert(a)
               /\ e # j.endpoint =>
                    InWindow(e, w)' \subseteq InWindow(e, w) /\ ActiveOn(e)' \subseteq ActiveOn(e)
    BY <2>4 DEF OfAlert, InWindow, ActiveOn, Active, Dispatched
  <2>6. \A k \in Jobs : \E q \in Revisions :
          Cardinality(OfAlert(k.alert))' <= q.budget.max_actions_per_alert
    <3>1. TAKE k \in Jobs
    <3>2. CASE k.alert = j.alert
      <4>1. Cardinality(OfAlert(k.alert))' <= Cardinality(OfAlert(k.alert)) + 1
        BY <1>2, <2>5, CountedSets, OneJobMore
      <4>2. Cardinality(OfAlert(k.alert)) < p.budget.max_actions_per_alert
        BY <2>2, <2>3, <3>2, CountsAreNat, LimitsAreNat DEF StillBounds, WithinBudget
      <4>. QED
        BY <4>1, <4>2, CountsAreNat, LimitsAreNat
    <3>3. CASE k.alert # j.alert
      <4>1. PICK q \in Revisions : Cardinality(OfAlert(k.alert)) <= q.budget.max_actions_per_alert
        BY DEF CollectionsWithinBudget
      <4>2. Cardinality(OfAlert(k.alert))' <= Cardinality(OfAlert(k.alert))
        BY <2>5, <3>3, CountedSets, FewerJobs
      <4>. QED
        BY <4>1, <4>2, CountsAreNat, LimitsAreNat
    <3>. QED
      BY <3>2, <3>3
  <2>7. \A e \in Endpoints : \E q \in Revisions :
          /\ Cardinality(InWindow(e, q.budget.endpoint_window))'
               <= q.budget.max_actions_per_endpoint_window
          /\ Cardinality(ActiveOn(e))' <= q.budget.max_active_per_endpoint
    <3>1. TAKE e \in Endpoints
    <3>2. CASE e = j.endpoint
      <4>1. /\ Cardinality(InWindow(e, p.budget.endpoint_window))'
                 <= Cardinality(InWindow(e, p.budget.endpoint_window)) + 1
            /\ Cardinality(ActiveOn(e))' <= Cardinality(ActiveOn(e)) + 1
        BY <1>2, <2>5, CountedSets, OneJobMore, LimitsAreNat
      <4>2. /\ Cardinality(InWindow(e, p.budget.endpoint_window))
                 < p.budget.max_actions_per_endpoint_window
            /\ Cardinality(ActiveOn(e)) < p.budget.max_active_per_endpoint
        BY <2>2, <2>3, <3>2, CountsAreNat, LimitsAreNat DEF StillBounds, WithinBudget
      <4>. QED
        BY <4>1, <4>2, CountsAreNat, LimitsAreNat
    <3>3. CASE e # j.endpoint
      <4>1. PICK q \in Revisions :
              /\ Cardinality(InWindow(e, q.budget.endpoint_window))
                   <= q.budget.max_actions_per_endpoint_window
              /\ Cardinality(ActiveOn(e)) <= q.budget.max_active_per_endpoint
        BY DEF CollectionsWithinBudget
      <4>2. /\ Cardinality(InWindow(e, q.budget.endpoint_window))'
                 <= Cardinality(InWindow(e, q.budget.endpoint_window))
            /\ Cardinality(ActiveOn(e))' <= Cardinality(ActiveOn(e))
        BY <2>5, <3>3, CountedSets, FewerJobs, LimitsAreNat
      <4>3. /\ Cardinality(InWindow(e, q.budget.endpoint_window))'
                 <= q.budget.max_actions_per_endpoint_window
            /\ Cardinality(ActiveOn(e))' <= q.budget.max_active_per_endpoint
        BY <4>1, <4>2, CountsAreNat, LimitsAreNat
      <4>. QED
        BY <4>3
    <3>. QED
      BY <3>2, <3>3
  <2>8. Cardinality(Active)' <= MaxActiveGlobal
    <3>1. Cardinality(Active)' <= Cardinality(Active) + 1
      <4>1. Active' \subseteq Active \cup {j}
        BY <2>4 DEF Active
      <4>. QED
        BY <1>2, <4>1, OneJobMore DEF Active
    <3>2. Cardinality(Active) < MaxActiveGlobal
      BY <2>2, <2>3, ActiveIsNat, TriageAssumption DEF StillBounds, WithinBudget
    <3>. QED
      BY <3>1, <3>2, ActiveIsNat, TriageAssumption
  <2>9. BytesWithinBudget'
    <3>1. ASSUME NEW a, NEW e, NEW w \in Nat
          PROVE  /\ Bytes(OfAlert(a))' <= Bytes(OfAlert(a)) + Reservation
                 /\ Bytes(InWindow(e, w))' <= Bytes(InWindow(e, w)) + Reservation
                 /\ a # j.alert => Bytes(OfAlert(a))' <= Bytes(OfAlert(a))
                 /\ e # j.endpoint => Bytes(InWindow(e, w))' <= Bytes(InWindow(e, w))
      <4>1. \A k \in Jobs : k # j =>
              job[k].bytes \in Int /\ job'[k].bytes \in Int /\ job'[k].bytes <= job[k].bytes
        BY <2>4 DEF TypeOK, JobState
      <4>2. /\ OfAlert(a)' \subseteq OfAlert(a) \cup {j}
            /\ InWindow(e, w)' \subseteq InWindow(e, w) \cup {j}
            /\ OfAlert(a)' \subseteq Jobs /\ InWindow(e, w)' \subseteq Jobs
            /\ OfAlert(a) \subseteq Jobs /\ InWindow(e, w) \subseteq Jobs
        BY <1>2, <2>5, CountedSets
      <4>3. /\ Cardinality(Units(OfAlert(a)', job'))
                 <= Cardinality(Units(OfAlert(a), job)) + Reservation
            /\ Cardinality(Units(InWindow(e, w)', job'))
                 <= Cardinality(Units(InWindow(e, w), job)) + Reservation
        BY <1>2, <4>1, <4>2, OneReservationMore
      <4>4. ASSUME a # j.alert
            PROVE  Cardinality(Units(OfAlert(a)', job')) <= Cardinality(Units(OfAlert(a), job))
        <5>1. OfAlert(a)' \subseteq OfAlert(a) /\ j \notin OfAlert(a)
          BY <2>5, <4>4 DEF OfAlert
        <5>. QED
          BY <4>1, <4>2, <5>1, FewerUnits
      <4>5. ASSUME e # j.endpoint
            PROVE  Cardinality(Units(InWindow(e, w)', job'))
                     <= Cardinality(Units(InWindow(e, w), job))
        <5>1. InWindow(e, w)' \subseteq InWindow(e, w) /\ j \notin InWindow(e, w)
          BY <2>5, <4>5 DEF InWindow
        <5>. QED
          BY <4>1, <4>2, <5>1, FewerUnits
      <4>. QED
        BY <4>3, <4>4, <4>5, BytesAreUnits
    <3>2. /\ Bytes(OfAlert(j.alert)) + Reservation <= p.budget.max_bytes_per_alert
          /\ Bytes(InWindow(j.endpoint, p.budget.endpoint_window)) + Reservation
               <= p.budget.max_bytes_per_endpoint_window
      BY <2>2, <2>3, BytesAreNat, LimitsAreNat, TriageAssumption DEF StillBounds, WithinBudget
    <3>3. ASSUME NEW k \in Jobs
          PROVE  \E q \in Revisions : Bytes(OfAlert(k.alert))' <= q.budget.max_bytes_per_alert
      <4>1. CASE k.alert = j.alert
        <5>1. Bytes(OfAlert(k.alert))' <= Bytes(OfAlert(k.alert)) + Reservation
          BY <3>1
        <5>. QED
          BY <3>2, <4>1, <5>1, BytesAreNat, LimitsAreNat, TriageAssumption
      <4>2. CASE k.alert # j.alert
        <5>1. PICK q \in Revisions : Bytes(OfAlert(k.alert)) <= q.budget.max_bytes_per_alert
          BY DEF BytesWithinBudget
        <5>2. Bytes(OfAlert(k.alert))' <= Bytes(OfAlert(k.alert))
          BY <3>1, <4>2
        <5>. QED
          BY <5>1, <5>2, BytesAreNat, LimitsAreNat
      <4>. QED
        BY <4>1, <4>2
    <3>4. ASSUME NEW e \in Endpoints
          PROVE  \E q \in Revisions : Bytes(InWindow(e, q.budget.endpoint_window))'
                                       <= q.budget.max_bytes_per_endpoint_window
      <4>1. CASE e = j.endpoint
        <5>1. Bytes(InWindow(e, p.budget.endpoint_window))'
                <= Bytes(InWindow(e, p.budget.endpoint_window)) + Reservation
          BY <3>1, LimitsAreNat
        <5>. QED
          BY <3>2, <4>1, <5>1, BytesAreNat, LimitsAreNat, TriageAssumption
      <4>2. CASE e # j.endpoint
        <5>1. PICK q \in Revisions : Bytes(InWindow(e, q.budget.endpoint_window))
                                       <= q.budget.max_bytes_per_endpoint_window
          BY DEF BytesWithinBudget
        <5>2. Bytes(InWindow(e, q.budget.endpoint_window))'
                <= Bytes(InWindow(e, q.budget.endpoint_window))
          BY <3>1, <4>2, LimitsAreNat
        <5>. QED
          BY <5>1, <5>2, BytesAreNat, LimitsAreNat
      <4>. QED
        BY <4>1, <4>2
    <3>. QED
      BY <3>3, <3>4 DEF BytesWithinBudget, Endpoints
  <2>10. Reserved'
    BY <1>2, <1>8, <2>4 DEF Reserved, Active, TypeOK, Running
  <2>. QED
    BY <1>5, <1>6, <2>6, <2>7, <2>8, <2>9, <2>10 DEF CollectionsWithinBudget, Endpoints
<1>. QED
  BY <1>3, <1>7, <1>8

LEMMA TriageStep == TriageInv /\ [Next]_vars => TriageInv'
<1>. SUFFICES ASSUME TriageInv, [Next]_vars PROVE TriageInv'
  OBVIOUS
<1>. USE AutoTriageAssumption, TriageAssumption DEF TriageInv
<1>1. ASSUME NEW j \in Jobs, Begin(j) PROVE TriageInv'
  BY <1>1, BeginKeeps
<1>2. ASSUME NEW j \in Jobs, Decline(j) PROVE TriageInv'
  <2>1. NothingStarts /\ TypeOK' /\ Reserved'
    BY <1>2 DEF Decline, Reserved, Active, LockIsFree, NothingStarts, TypeOK, JobState, Idle
  <2>. QED
    BY <1>2, <2>1, QuietStepKeeps DEF Decline
<1>3. ASSUME NEW j \in Jobs, Complete(j) PROVE TriageInv'
  <2>1. PICK n \in 0 .. Reservation :
          job' = [job EXCEPT ![j] = [@ EXCEPT !.stage = "over", !.left = 0, !.bytes = n]]
    BY <1>3 DEF Complete
  <2>. DEFINE r == [job[j] EXCEPT !.stage = "over", !.left = 0, !.bytes = n]
  <2>5. r \in JobState /\ r.stage = "over" /\ r.age = job[j].age /\ r.bytes = n
    BY <1>3 DEF TypeOK, JobState
  <2>6. job' = [job EXCEPT ![j] = r]
    BY <2>1
  <2>. HIDE DEF r
  <2>2. /\ \A k \in Jobs \ {j} : job'[k] = job[k]
        /\ job'[j].stage = "over" /\ job'[j].age = job[j].age
        /\ job'[j].bytes = n /\ job' \in [Jobs -> JobState]
    BY <1>3, <2>5, <2>6 DEF TypeOK
  <2>7. n <= job[j].bytes
    BY <1>3 DEF Complete, Reserved, Active
  <2>8. Reserved'
    BY <2>2 DEF Reserved, Active
  <2>3. NothingStarts
    BY <1>3, <2>2, <2>7 DEF NothingStarts, Complete, TypeOK, JobState
  <2>4. TypeOK'
    BY <1>3, <2>2 DEF TypeOK, Complete, LockIsFree
  <2>. QED
    BY <1>3, <2>3, <2>4, <2>8, QuietStepKeeps DEF Complete
<1>4. ASSUME NEW t \in txn, Finish(t) PROVE TriageInv'
  BY <1>4, FinishKeeps
<1>5. ASSUME NEW a, NewAlert(a) PROVE TriageInv'
  <2>1. NothingStarts /\ TypeOK' /\ Reserved'
    BY <1>5 DEF NewAlert, Reserved, Active, LockIsFree, NothingStarts, TypeOK, JobState, Idle
  <2>. QED
    BY <1>5, <2>1, QuietStepKeeps DEF NewAlert
<1>6. ASSUME \/ \E r \in Rules : SetPolicy(r)
             \/ \E e \in Endpoints : Reported(e) \/ Reclassify(e)
      PROVE TriageInv'
  <2>1. LockIsFree /\ txn' = txn /\ job' = job
    BY <1>6 DEF SetPolicy, Reported, Reclassify
  <2>2. TypeOK'
    BY <1>6 DEF SetPolicy, Reported, Reclassify, TypeOK, LockIsFree
  <2>3. NothingStarts
    BY <2>1 DEF NothingStarts, TypeOK, JobState
  <2>4. Reserved'
    BY <2>1 DEF Reserved, Active
  <2>. QED
    BY <2>1, <2>2, <2>3, <2>4, QuietStepKeeps
<1>7. CASE Tick
  BY <1>7, TickKeeps
<1>8. CASE UNCHANGED vars
  <2>1. UNCHANGED <<policy, report, asset, job, txn>>
    BY <1>8 DEF vars
  <2>2. TypeOK' /\ Reserved'
    BY <2>1 DEF TypeOK, Reserved, Active
  <2>3. CollectionsWithinBudget'
    BY <2>1 DEF CollectionsWithinBudget, OfAlert, InWindow, ActiveOn, Active, Dispatched
  <2>4. BytesWithinBudget'
    BY <2>1 DEF BytesWithinBudget, Bytes, OfAlert, InWindow, Dispatched
  <2>5. CountsHold'
    BY <2>1 DEF CountsHold, StillBounds, Bytes, OfAlert, InWindow, ActiveOn, Active, Dispatched
  <2>. QED
    BY <2>2, <2>3, <2>4, <2>5
<1>. QED
  BY <1>1, <1>2, <1>3, <1>4, <1>5, <1>6, <1>7, <1>8 DEF Next

\* Whatever the jobs, the revisions and their budgets, however many rules share
\* an endpoint: what was counted under the lock bounds what is there when the
\* collection is written (triage.py:123-129, 205-225).
THEOREM TriageInvariant == Spec => []TriageInv
BY InitTriage, TriageStep, PTL DEF Spec

\* No limit on the number of collections, of an alert, of an endpoint or of the whole
\* installation, is ever overrun (triage.py:207, 213-214, 221-225).
THEOREM LimitsAreKept == Spec => []CollectionsWithinBudget
<1>1. TriageInv => CollectionsWithinBudget
  BY DEF TriageInv
<1>. QED
  BY <1>1, TriageInvariant, PTL

\* Nor is a limit of bytes: the reservation that the verdict demands room for covers
\* whatever an artifact turns out to be (triage.py:33-35, 207-219).
THEOREM BytesAreKept == Spec => []BytesWithinBudget
<1>1. TriageInv => BytesWithinBudget
  BY DEF TriageInv
<1>. QED
  BY <1>1, TriageInvariant, PTL

-----------------------------------------------------------------------------
(* What starts on its own.                                                 *)

\* Only the write of a transaction starts a collection nobody was asked about.
LEMMA OnlyFinishStarts ==
  ASSUME TypeOK, [Next]_vars, NEW j \in Jobs, job[j].stage = "none", job'[j].stage = "running"
  PROVE  \E t \in txn : Finish(t) /\ t.job = j
<1>1. job[j] \in JobState
  BY DEF TypeOK
<1>2. ~ Tick
  BY DEF Tick, Aged
<1>3. ASSUME NEW k \in Jobs PROVE ~ Begin(k) /\ ~ Decline(k) /\ ~ Complete(k)
  <2>1. ~ Begin(k)
    BY DEF Begin
  <2>2. ~ Decline(k)
    BY DEF Decline, TypeOK, Idle
  <2>3. ~ Complete(k)
    <3>1. SUFFICES ASSUME Complete(k) PROVE FALSE
      OBVIOUS
    <3>2. k # j
      BY <3>1 DEF Complete
    <3>. QED
      BY <3>1, <3>2 DEF Complete, TypeOK
  <2>. QED
    BY <2>1, <2>2, <2>3
<1>4. \A a : ~ NewAlert(a)
  BY DEF NewAlert, Idle
<1>5. /\ \A r \in Rules : ~ SetPolicy(r)
      /\ \A e \in Endpoints : ~ Reported(e) /\ ~ Reclassify(e)
  BY DEF SetPolicy, Reported, Reclassify
<1>6. ~ UNCHANGED vars
  BY DEF vars
<1>7. PICK t \in txn : Finish(t)
  BY <1>2, <1>3, <1>4, <1>5, <1>6 DEF Next
<1>8. t.job = j
  BY <1>7 DEF Finish, TypeOK
<1>. QED
  BY <1>7, <1>8

\* Evaluate answers auto_dispatch only within every bound.
LEMMA AutoDispatchIsBounded ==
  ASSUME NEW p, NEW ask, NEW endpoint, NEW usage,
         \A cell \in DOMAIN p.entries : p.entries[cell].decision \in Verdicts,
         Evaluate(p, ask, endpoint, usage) \notin {"skip", "require_approval"}
  PROVE  /\ ask.asset = "standard" /\ endpoint.mode = "enforce"
         /\ ask.action = "COLLECT_FILE" =>
              [platform |-> endpoint.platform, path |-> ask.file]
                \in p.entries[<<ask.action, "standard">>].files
<1>1. Applies(p, ask, endpoint, usage) /\ ask.asset = "standard"
  BY DEF Evaluate
<1>2. p.entries[<<ask.action, "standard">>].decision = "auto_dispatch"
  BY <1>1 DEF Evaluate, Applies, Verdicts
<1>3. endpoint.mode = "enforce"
  BY <1>1 DEF Applies, Capable
<1>4. TargetKnown(p.entries[<<ask.action, "standard">>], ask, endpoint)
  BY <1>1 DEF Applies
<1>. QED
  BY <1>1, <1>2, <1>3, <1>4 DEF TargetKnown

\* Nothing starts unattended but on a standard, enforcing endpoint and, a file,
\* from the list, whatever policies, reports and classes come and go
\* (triage.py:152, 200-203, 229-231).
THEOREM UnattendedStaysBounded == Spec => UnattendedIsBounded
<1>1. ASSUME TypeOK, [Next]_vars, NEW j \in Jobs, job[j].stage = "none",
             job'[j].stage = "running"
      PROVE  /\ asset[j.endpoint] = "standard" /\ report[j.endpoint].mode = "enforce"
             /\ j.action = "COLLECT_FILE" =>
                  \E f \in policy[j.rule].entries[<<j.action, "standard">>].files :
                    f = [platform |-> report[j.endpoint].platform, path |-> j.file]
  <2>1. PICK t \in txn : Finish(t) /\ t.job = j
    BY <1>1, OnlyFinishStarts
  <2>2. job'[j] = Outcome(j, Verdict(j, t.usage))
    BY <1>1, <2>1 DEF Finish, TypeOK
  <2>3. Verdict(j, t.usage) \notin {"skip", "require_approval"}
    <3>1. Idle.stage = "none" /\ Pending.stage = "pending"
      BY DEF Idle, Pending
    <3>. QED
      BY <1>1, <2>2, <3>1 DEF Outcome
  <2>4. policy[j.rule] \in Revisions
    BY <1>1 DEF TypeOK, Rules
  <2>5. PICK ask : /\ ask.action = j.action /\ ask.asset = asset[j.endpoint]
                   /\ ask.file = j.file
                   /\ Verdict(j, t.usage) = Evaluate(policy[j.rule], ask, report[j.endpoint], t.usage)
    <3>1. WITNESS [action |-> j.action, asset |-> asset[j.endpoint], verified |-> j.verified,
                   file |-> j.file]
    <3>. QED
      BY DEF Verdict
  <2>6. \A cell \in DOMAIN policy[j.rule].entries :
          policy[j.rule].entries[cell].decision \in Verdicts
    BY <2>4, AutoTriageAssumption
  <2>7. Evaluate(policy[j.rule], ask, report[j.endpoint], t.usage)
          \notin {"skip", "require_approval"}
    BY <2>3, <2>5
  <2>8. /\ ask.asset = "standard" /\ report[j.endpoint].mode = "enforce"
        /\ ask.action = "COLLECT_FILE" =>
             [platform |-> report[j.endpoint].platform, path |-> ask.file]
               \in policy[j.rule].entries[<<ask.action, "standard">>].files
    BY <2>6, <2>7, AutoDispatchIsBounded
  <2>. QED
    BY <2>5, <2>8
<1>2. TriageInv /\ [Next]_vars =>
        [ \A j \in Jobs :
            job[j].stage = "none" /\ job'[j].stage = "running" =>
              /\ asset[j.endpoint] = "standard" /\ report[j.endpoint].mode = "enforce"
              /\ j.action = "COLLECT_FILE" =>
                   \E f \in policy[j.rule].entries[<<j.action, "standard">>].files :
                     f = [platform |-> report[j.endpoint].platform, path |-> j.file] ]_vars
  BY <1>1 DEF TriageInv
<1>. QED
  BY <1>2, TriageInvariant, PTL DEF Spec, UnattendedIsBounded

-----------------------------------------------------------------------------
(* What other collections and a weaker endpoint do to a verdict.           *)

\* What is counted is a number, now and after the step.
LEMMA UsageIsNat ==
  ASSUME NEW j \in Jobs, NEW budget, NEW f \in DOMAIN Usage(j, budget)
  PROVE  Usage(j, budget)[f] \in Nat /\ Usage(j, budget)'[f] \in Nat
<1>1. f \in {"actions_for_alert", "bytes_for_alert", "actions_in_window", "bytes_in_window",
              "active_for_endpoint", "active_global"}
  BY DEF Usage
<1>2. /\ Cardinality(OfAlert(j.alert)) \in Nat /\ Cardinality(OfAlert(j.alert))' \in Nat
      /\ Cardinality(InWindow(j.endpoint, budget.endpoint_window)) \in Nat
      /\ Cardinality(InWindow(j.endpoint, budget.endpoint_window))' \in Nat
      /\ Cardinality(ActiveOn(j.endpoint)) \in Nat
      /\ Cardinality(ActiveOn(j.endpoint))' \in Nat
  BY CountsAreNat
<1>3. /\ Bytes(OfAlert(j.alert)) \in Nat /\ Bytes(OfAlert(j.alert))' \in Nat
      /\ Bytes(InWindow(j.endpoint, budget.endpoint_window)) \in Nat
      /\ Bytes(InWindow(j.endpoint, budget.endpoint_window))' \in Nat
  BY BytesAreNat
<1>. QED
  BY <1>1, <1>2, <1>3, ActiveIsNat DEF Usage

\* Where more is used, there is room only if there was room.
LEMMA MoreUsageLessRoom ==
  ASSUME NEW p \in Revisions, NEW u, NEW v, WithinBudget(p.budget, u),
         \A f \in {"actions_for_alert", "bytes_for_alert", "actions_in_window",
                   "bytes_in_window", "active_for_endpoint", "active_global"} :
           u[f] \in Nat /\ v[f] \in Nat /\ u[f] >= v[f]
  PROVE  WithinBudget(p.budget, v)
<1>1. /\ p.budget.max_actions_per_alert \in Nat
      /\ p.budget.max_actions_per_endpoint_window \in Nat
      /\ p.budget.max_active_per_endpoint \in Nat
      /\ p.budget.max_bytes_per_alert \in Nat
      /\ p.budget.max_bytes_per_endpoint_window \in Nat
  BY LimitsAreNat
<1>. QED
  BY <1>1, TriageAssumption DEF WithinBudget

\* The verdict after a step that restricts it.
LEMMA RestrictedVerdict ==
  ASSUME TriageInv, NEW j \in Jobs, Restricts(j)
  PROVE  Rank[CurrentVerdict(j)'] <= Rank[CurrentVerdict(j)]
<1>1. PICK p \in Revisions : p = policy[j.rule] /\ p = policy'[j.rule]
  BY DEF TriageInv, TypeOK, Rules, Restricts
<1>2. PICK u, v : u = Usage(j, p.budget)' /\ v = Usage(j, p.budget)
  OBVIOUS
<1>3. DOMAIN Usage(j, p.budget) = {"actions_for_alert", "bytes_for_alert",
        "actions_in_window", "bytes_in_window", "active_for_endpoint", "active_global"}
  BY DEF Usage
<1>4. Usage(j, policy[j.rule].budget) = v /\ Usage(j, policy[j.rule].budget)' = u
  <2>1. Usage(j, policy[j.rule].budget)' = Usage(j, p.budget)'
    BY <1>1 DEF Usage
  <2>. QED
    BY <1>1, <1>2, <2>1
<1>5. \A f \in DOMAIN v : u[f] >= v[f]
  BY <1>4 DEF Restricts, UsesMore
<1>6. \A f \in DOMAIN v : u[f] \in Nat /\ v[f] \in Nat
  BY <1>2, UsageIsNat
<1>7. WithinBudget(p.budget, u) => WithinBudget(p.budget, v)
  BY <1>2, <1>3, <1>5, <1>6, MoreUsageLessRoom
<1>8. PICK ask, c, d :
        /\ ask = [action |-> j.action, asset |-> asset[j.endpoint],
                  verified |-> j.verified, file |-> j.file]
        /\ c = report'[j.endpoint] /\ d = report[j.endpoint]
  OBVIOUS
<1>9. OffersLess(c, d) /\ asset'[j.endpoint] = asset[j.endpoint]
  BY <1>8 DEF Restricts
<1>10. CurrentVerdict(j) = Evaluate(p, ask, d, v)
  BY <1>1, <1>4, <1>8 DEF CurrentVerdict, Verdict
<1>11. CurrentVerdict(j)' = Evaluate(p, ask, c, u)
  BY <1>1, <1>4, <1>8, <1>9 DEF CurrentVerdict, Verdict
<1>12. \A cell \in DOMAIN p.entries : p.entries[cell].decision \in Verdicts
  BY AutoTriageAssumption
<1>13. Rank[Evaluate(p, ask, c, u)] <= Rank[Evaluate(p, ask, d, v)]
  BY <1>7, <1>9, <1>12, EvaluateOnlyRestricts
<1>. QED
  BY <1>10, <1>11, <1>13

\* A collection that starts, on whatever endpoint and for whatever rule, and whatever
\* an endpoint loses, never turns the verdict of another one into a stronger one
\* (triage.py:152, 205-225).
THEOREM VerdictsOnlyRestrict == Spec => OnlyRestricts
<1>1. TriageInv =>
        [ \A j \in Jobs : job[j].stage \in {"none", "pending"} /\ Restricts(j) =>
            Rank[CurrentVerdict(j)'] <= Rank[CurrentVerdict(j)] ]_vars
  BY RestrictedVerdict
<1>. QED
  BY <1>1, TriageInvariant, PTL DEF OnlyRestricts

\* The steps OnlyRestricts is about do happen: whatever a transaction writes for one
\* collection, no verdict on another becomes stronger (triage.py:205-225).
THEOREM WritingOnlyRestricts ==
  ASSUME TriageInv, NEW t \in txn, Finish(t), NEW j \in Jobs, j # t.job
  PROVE  Rank[CurrentVerdict(j)'] <= Rank[CurrentVerdict(j)]
<1>1. PICK p \in Revisions : p = policy[j.rule] /\ p = policy'[j.rule]
  BY DEF TriageInv, TypeOK, Rules, Finish
<1>2. /\ \A k \in Jobs : k # t.job => job'[k] = job[k]
      /\ t.job \in Jobs /\ job[t.job].stage \in {"none", "pending"}
      /\ job \in [Jobs -> JobState]
  BY DEF Finish, TriageInv, TypeOK
<1>3. ASSUME NEW a, NEW e, NEW w
      PROVE  /\ OfAlert(a) \subseteq OfAlert(a)' /\ InWindow(e, w) \subseteq InWindow(e, w)'
             /\ ActiveOn(e) \subseteq ActiveOn(e)' /\ Active \subseteq Active'
             /\ OfAlert(a)' \subseteq Jobs /\ InWindow(e, w)' \subseteq Jobs
             /\ ActiveOn(e)' \subseteq Jobs /\ Active' \subseteq Jobs
  BY <1>2 DEF OfAlert, InWindow, ActiveOn, Active, Dispatched
<1>4. ASSUME NEW a, NEW e, NEW w
      PROVE  /\ Cardinality(OfAlert(a)) <= Cardinality(OfAlert(a))'
             /\ Cardinality(InWindow(e, w)) <= Cardinality(InWindow(e, w))'
             /\ Cardinality(ActiveOn(e)) <= Cardinality(ActiveOn(e))'
             /\ Cardinality(Active) <= Cardinality(Active)'
  BY <1>3, FewerJobs
<1>5. ASSUME NEW a, NEW e, NEW w
      PROVE  /\ Bytes(OfAlert(a)) <= Bytes(OfAlert(a))'
             /\ Bytes(InWindow(e, w)) <= Bytes(InWindow(e, w))'
  <2>1. \A k \in Dispatched :
          job'[k].bytes \in Int /\ job[k].bytes \in Int /\ job[k].bytes <= job'[k].bytes
    BY <1>2 DEF Dispatched, JobState
  <2>2. OfAlert(a) \subseteq Dispatched /\ InWindow(e, w) \subseteq Dispatched
    BY DEF OfAlert, InWindow
  <2>3. /\ Cardinality(Units(OfAlert(a), job)) <= Cardinality(Units(OfAlert(a)', job'))
        /\ Cardinality(Units(InWindow(e, w), job)) <= Cardinality(Units(InWindow(e, w)', job'))
    BY <1>3, <2>1, <2>2, FewerUnits
  <2>. QED
    BY <2>3, BytesAreUnits
<1>6. UsesMore(Usage(j, p.budget)', Usage(j, p.budget))
  <2>1. PICK w : w = p.budget.endpoint_window
    OBVIOUS
  <2>2. /\ Cardinality(OfAlert(j.alert)) \in Nat /\ Cardinality(OfAlert(j.alert))' \in Nat
        /\ Cardinality(InWindow(j.endpoint, w)) \in Nat
        /\ Cardinality(InWindow(j.endpoint, w))' \in Nat
        /\ Cardinality(ActiveOn(j.endpoint)) \in Nat
        /\ Cardinality(ActiveOn(j.endpoint))' \in Nat
    BY CountsAreNat
  <2>3. /\ Bytes(OfAlert(j.alert)) \in Nat /\ Bytes(OfAlert(j.alert))' \in Nat
        /\ Bytes(InWindow(j.endpoint, w)) \in Nat /\ Bytes(InWindow(j.endpoint, w))' \in Nat
    BY BytesAreNat
  <2>4. /\ Cardinality(OfAlert(j.alert)) <= Cardinality(OfAlert(j.alert))'
        /\ Cardinality(InWindow(j.endpoint, w)) <= Cardinality(InWindow(j.endpoint, w))'
        /\ Cardinality(ActiveOn(j.endpoint)) <= Cardinality(ActiveOn(j.endpoint))'
        /\ Cardinality(Active) <= Cardinality(Active)'
    BY <1>4
  <2>5. /\ Bytes(OfAlert(j.alert)) <= Bytes(OfAlert(j.alert))'
        /\ Bytes(InWindow(j.endpoint, w)) <= Bytes(InWindow(j.endpoint, w))'
    BY <1>5
  <2>. QED
    BY <2>1, <2>2, <2>3, <2>4, <2>5, ActiveIsNat DEF UsesMore, Usage
<1>7. Restricts(j)
  <2>1. OffersLess(report[j.endpoint], report[j.endpoint])
    BY DEF OffersLess
  <2>2. Usage(j, policy[j.rule].budget)' = Usage(j, p.budget)'
    BY <1>1 DEF Usage
  <2>. QED
    BY <1>1, <1>6, <2>1, <2>2 DEF Restricts, Finish
<1>. QED
  BY <1>7, RestrictedVerdict

-----------------------------------------------------------------------------
(* The default policy.                                                     *)

\* The default policy is valid and starts nothing; enabled, it starts at most the two actions
\* without a file, on a standard endpoint, and grants no file path
\* (triage.py:240-258).
THEOREM DefaultGrantsNoFile ==
  ASSUME NEW budget \in CollectionBudget, NEW ask, NEW endpoint, NEW usage
  PROVE  LET p == DefaultPolicy(budget)
             q == [p EXCEPT !.enabled = TRUE]
         IN /\ ValidPolicy(p) /\ ValidPolicy(q)
            /\ Evaluate(p, ask, endpoint, usage) = "skip"
            /\ Evaluate(q, ask, endpoint, usage) = "auto_dispatch"
                 => ask.asset = "standard" /\ ask.action \in CollectActions \ {"COLLECT_FILE"}
<1>. DEFINE p == DefaultPolicy(budget)
            q == [p EXCEPT !.enabled = TRUE]
            Cells == CollectActions \X AssetClasses
<1>1. /\ p.enabled = FALSE /\ q.enabled = TRUE /\ p.budget = budget /\ q.budget = budget
      /\ p.entries = q.entries /\ DOMAIN p.entries = Cells
      /\ \A c \in Cells : p.entries[c] = IF c[2] = "standard" /\ c[1] # "COLLECT_FILE"
                                          THEN Entry("auto_dispatch")
                                          ELSE Entry("require_approval")
  BY DEF DefaultPolicy
<1>2. p.entries # << >>
  <2>1. <<"COLLECT_FILE", "standard">> \in DOMAIN p.entries
    BY <1>1 DEF CollectActions, AssetClasses
  <2>. QED
    BY <2>1
<1>3. ASSUME NEW c \in Cells PROVE ValidEntry(c[1], c[2], p.entries[c])
  BY <1>1, <1>3 DEF ValidEntry, Entry
<1>4. ValidPolicy(p) /\ ValidPolicy(q)
  BY <1>1, <1>2, <1>3 DEF ValidPolicy
<1>5. Evaluate(p, ask, endpoint, usage) = "skip"
  BY <1>1 DEF Evaluate, Applies
<1>6. ASSUME Evaluate(q, ask, endpoint, usage) = "auto_dispatch"
      PROVE  ask.asset = "standard" /\ ask.action \in CollectActions \ {"COLLECT_FILE"}
  <2>1. /\ Applies(q, ask, endpoint, usage) /\ ask.asset = "standard"
        /\ q.entries[<<ask.action, ask.asset>>].decision = "auto_dispatch"
    BY <1>6 DEF Evaluate
  <2>2. <<ask.action, ask.asset>> \in Cells
    BY <1>1, <2>1 DEF Applies
  <2>3. ask.action # "COLLECT_FILE"
    BY <1>1, <2>1, <2>2 DEF Entry
  <2>. QED
    BY <2>1, <2>2, <2>3
<1>. QED
  BY <1>4, <1>5, <1>6
=============================================================================
