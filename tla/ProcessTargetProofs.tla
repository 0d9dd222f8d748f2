------------------------ MODULE ProcessTargetProofs ------------------------
(***************************************************************************)
(* The command of an alert with an endpoint context kills the accused       *)
(* process or none, for any number of processes and reboots, as long as no  *)
(* more fields of the context are damaged than the checks withstand.  The   *)
(* argument counts: a context that proves a process of another boot differs *)
(* from the accused's in its two boots and its digest, and a Linux one      *)
(* in its record and its native boot as well; so many fields were damaged,  *)
(* whatever the damage put in their place.                                 *)
(***************************************************************************)
EXTENDS ProcessTarget, TLAPS

-----------------------------------------------------------------------------
(* Translations.                                                           *)

\* The file actions and the process actions are disjoint, and none is None.
LEMMA ActionsDiffer ==
  /\ NoAction \notin ProcessActions /\ NoAction \notin FileActions
  /\ FileActions \cap ProcessActions = {}
  BY DEF NoAction, ProcessActions, FileActions

\* A translation to a process action took one of the two paths, and only the one
\* that the context asks for.
LEMMA ProcessPaths ==
  ASSUME NEW wish, NEW rec, NEW c, c.given \in BOOLEAN,
         Translate(wish, rec, c).action \in ProcessActions
  PROVE  /\ c.given => /\ ProvenProcess(c) /\ NamesProcess(c, rec)
                       /\ Translate(wish, rec, c).target = CanonicalTarget(c)
         /\ ~ c.given => /\ LegacyProcess(rec)
                         /\ Translate(wish, rec, c).target = LegacyTarget(rec)
<1>1. wish \in DOMAIN CommandFor
  BY ActionsDiffer DEF Translate, Nothing
<1> DEFINE action == CommandFor[wish]
<1>2. action \in ProcessActions
  BY <1>1, ActionsDiffer DEF Translate, FileTranslation, Mapped, Nothing
<1>3. Translate(wish, rec, c) = ProcessTranslation(action, rec, c)
  BY <1>1, <1>2 DEF Translate
<1> HIDE DEF action
<1>4. QED
  BY <1>3, ActionsDiffer DEF ProcessTranslation, Mapped, Nothing

\* Every other translation has no target, or the path it was given.
LEMMA OtherPaths ==
  ASSUME NEW wish, NEW rec, NEW c,
         Translate(wish, rec, c).action \notin ProcessActions,
         Translate(wish, rec, c).action # NoAction
  PROVE  LET t == Translate(wish, rec, c) IN
         /\ t.target.keys \in {{}, {"path"}}
         /\ rec.file = "legal" => ValidCommand("1", t.action, t.target, TRUE)
<1>1. wish \in DOMAIN CommandFor
  BY DEF Translate, Nothing
<1> DEFINE action == CommandFor[wish]
<1>2. CASE action \in ProcessActions
  <2>1. Translate(wish, rec, c) = ProcessTranslation(action, rec, c)
    BY <1>1, <1>2 DEF Translate
  <2>2. QED
    BY <1>2, <2>1 DEF ProcessTranslation, Mapped, Nothing
<1>3. CASE action \notin ProcessActions /\ action \in FileActions
  <2>1. Translate(wish, rec, c) = FileTranslation(action, rec)
    BY <1>1, <1>3 DEF Translate
  <2> HIDE DEF action
  <2> DEFINE target == [EmptyTarget EXCEPT !.keys = {"path"}, !.path = rec.file]
  <2>2. target.keys = {"path"} /\ target.path = rec.file
    BY DEF EmptyTarget
  <2> HIDE DEF target
  <2>3. Translate(wish, rec, c) # Nothing
    BY DEF Nothing
  <2>4. Translate(wish, rec, c) = [action |-> action, target |-> target]
    BY <2>1, <2>3 DEF FileTranslation, Mapped, target
  <2>5. QED
    BY <1>3, <2>2, <2>4 DEF ValidCommand
<1>4. CASE action \notin ProcessActions /\ action \notin FileActions
  <2>1. Translate(wish, rec, c) = Mapped(action, EmptyTarget)
    BY <1>1, <1>4 DEF Translate
  <2> HIDE DEF action
  <2>2. QED
    BY <1>4, <2>1 DEF Mapped, EmptyTarget, ValidCommand
<1>5. QED
  BY <1>2, <1>3, <1>4

-----------------------------------------------------------------------------
(* Contexts.                                                               *)

NativeEntity(p) == EntityHash("native", Host, Boot("digest", p.boot), p.pid, p.ticks)
LinuxEntity(p)  == EntityHash("linux", Host, Boot("uuid", p.boot), p.pid, p.ticks)
RecordOf(p)     == RecordHash(Sensor, Boot("uuid", p.boot), 1)

\* The fields of a context.
WellFormed(c) ==
  /\ c = [given |-> c.given, model |-> c.model, record_id |-> c.record_id, agent |-> c.agent,
          host |-> c.host, boot |-> c.boot, subject_boot |-> c.subject_boot,
          exact |-> c.exact, pid |-> c.pid, ticks |-> c.ticks, entity |-> c.entity,
          proof |-> c.proof]
  /\ c.proof = [given |-> c.proof.given, boot_uuid |-> c.proof.boot_uuid,
                sensor |-> c.proof.sensor, seq |-> c.proof.seq]
  /\ c.given \in BOOLEAN
  /\ c.given => c.ticks = Value(c.ticks.kind, c.ticks.n)

\* The fields that name the boot of p and do not agree with it: in the subject,
\* and in the record behind it.
Off(x, S) == IF x \in S THEN 0 ELSE 1
SubjectOff(c, p) ==
  Off(c.boot, {Boot("digest", p.boot)}) + Off(c.subject_boot, {Boot("digest", p.boot)})
    + Off(c.entity, {NativeEntity(p), LinuxEntity(p)})
RecordOff(c, p) ==
  Off(c.record_id, {RecordOf(p)}) + Off(c.proof.boot_uuid, {Boot("uuid", p.boot)})

IsLinux(c) == c.model = "linux_endpoint_v1"

\* After n damages no more than n fields disagree with p.
ContextOK(c, p, n) ==
  /\ WellFormed(c)
  /\ c.given => /\ SubjectOff(c, p) <= n
                /\ IsLinux(c) => SubjectOff(c, p) + RecordOff(c, p) <= n

\* What the checks withstand: of five fields of a Linux context, all but one.
Limit(c) == IF IsLinux(c) THEN 4 ELSE Withstood

LEMMA OffIsBit == \A x, S : Off(x, S) \in {0, 1}
BY DEF Off

\* A digest tells its boot.
LEMMA DigestsAreInjective ==
  /\ \A s, t, b, d, m, n : RecordHash(s, b, m) = RecordHash(t, d, n) => b = d
  /\ \A s, b, n : RecordHash(s, b, n) # NoHash
  /\ \A g, h, a, b, k, l, m, n, x, y :
       EntityHash(x, g, a, k, m) = EntityHash(y, h, b, l, n) => x = y /\ a = b
<1>1. ASSUME NEW s, NEW t, NEW b, NEW d, NEW m, NEW n, RecordHash(s, b, m) = RecordHash(t, d, n)
      PROVE  b = d
  BY <1>1 DEF RecordHash
<1>2. ASSUME NEW s, NEW b, NEW n PROVE RecordHash(s, b, n) # NoHash
  BY DEF RecordHash, NoHash
<1>3. ASSUME NEW g, NEW h, NEW a, NEW b, NEW k, NEW l, NEW m, NEW n, NEW x, NEW y,
             EntityHash(x, g, a, k, m) = EntityHash(y, h, b, l, n)
      PROVE  x = y /\ a = b
  BY <1>3 DEF EntityHash
<1>4. QED
  BY <1>1, <1>2, <1>3

\* A Linux subject that rebuilds itself sits in the boot of its record, and both
\* its digests say so.
LEMMA VerifiedBoot ==
  ASSUME NEW c, c.given, VerifiedLinuxSubject(c)
  PROVE  /\ c.boot = BootDigest(c.proof.boot_uuid) /\ c.proof.boot_uuid.form = "uuid"
         /\ c.entity = EntityHash("linux", c.host, c.proof.boot_uuid, c.pid.n, c.ticks.n)
         /\ c.record_id = RecordHash(c.proof.sensor, c.proof.boot_uuid, c.proof.seq.n)
<1> DEFINE r == [event |-> TRUE, observed |-> TRUE, id |-> c.record_id,
                 seq |-> c.proof.seq, host |-> c.host, boot |-> c.proof.boot_uuid,
                 sensor |-> c.proof.sensor, pid |-> c.pid,
                 ticks |-> Value("int", c.ticks.n), entity |-> c.entity]
<1>1. c = LinuxEndpointContext(r, c.agent)
  BY DEF VerifiedLinuxSubject
<1>2. /\ r.id = c.record_id /\ r.seq = c.proof.seq /\ r.host = c.host
      /\ r.boot = c.proof.boot_uuid /\ r.sensor = c.proof.sensor /\ r.pid = c.pid
      /\ r.ticks.n = c.ticks.n /\ r.entity = c.entity
  BY DEF Value
<1> HIDE DEF r
<1>3. ConsistentRecord(r, c.agent)
  <2>1. NoContext.given = FALSE
    BY DEF NoContext
  <2>2. ASSUME ~ ConsistentRecord(r, c.agent) PROVE FALSE
    <3>1. c = NoContext
      BY <1>1, <2>2 DEF LinuxEndpointContext
    <3>2. QED
      BY <2>1, <3>1
  <2>3. QED
    BY <2>2
<1>4. c.boot = BootDigest(r.boot)
  BY <1>1, <1>3 DEF LinuxEndpointContext, ContextOf
<1>5. /\ r.boot.form = "uuid" /\ r.id = RecordHash(r.sensor, r.boot, r.seq.n)
      /\ r.entity = EntityHash("linux", r.host, r.boot, r.pid.n, r.ticks.n)
  BY <1>3 DEF ConsistentRecord
<1>6. QED
  BY <1>2, <1>4, <1>5

\* A native subject in another boot than p's has three fields that p's has not.
LEMMA NativeElsewhere ==
  ASSUME NEW c, NEW p \in Process, c.boot # Boot("digest", p.boot), c.subject_boot = c.boot,
         c.entity = EntityHash("native", c.host, c.boot, c.pid.n, c.ticks.n)
  PROVE  SubjectOff(c, p) = 3
<1>1. c.entity # NativeEntity(p)
  BY DigestsAreInjective DEF NativeEntity
<1>2. c.entity # LinuxEntity(p)
  <2>1. "linux" # "native"
    OBVIOUS
  <2>2. QED
    BY <2>1, DigestsAreInjective DEF LinuxEntity
<1>3. QED
  BY <1>1, <1>2 DEF SubjectOff, Off

\* A Linux subject in another boot than p's has five.
LEMMA LinuxElsewhere ==
  ASSUME NEW c, NEW p \in Process, c.boot # Boot("digest", p.boot), c.subject_boot = c.boot,
         c.given, VerifiedLinuxSubject(c)
  PROVE  SubjectOff(c, p) = 3 /\ RecordOff(c, p) = 2
<1>1. /\ c.boot = BootDigest(c.proof.boot_uuid)
      /\ c.entity = EntityHash("linux", c.host, c.proof.boot_uuid, c.pid.n, c.ticks.n)
      /\ c.record_id = RecordHash(c.proof.sensor, c.proof.boot_uuid, c.proof.seq.n)
  BY VerifiedBoot
<1>2. c.proof.boot_uuid # Boot("uuid", p.boot)
  BY <1>1 DEF BootDigest, Boot
<1>3. c.entity # LinuxEntity(p)
  BY <1>1, <1>2, DigestsAreInjective DEF LinuxEntity
<1>4. c.entity # NativeEntity(p)
  <2>1. "linux" # "native"
    OBVIOUS
  <2>2. QED
    BY <1>1, <2>1, DigestsAreInjective DEF NativeEntity
<1>5. c.record_id # RecordOf(p)
  BY <1>1, <1>2, DigestsAreInjective DEF RecordOf
<1>6. QED
  BY <1>2, <1>3, <1>4, <1>5 DEF SubjectOff, RecordOff, Off

\* What proves a process proves one of p's boot, unless too much is damaged.
LEMMA ProvenBoot ==
  ASSUME NEW c, NEW p \in Process, NEW n \in Nat, ContextOK(c, p, n), c.given,
         ProvenProcess(c), n <= Limit(c)
  PROVE  c.boot = Boot("digest", p.boot)
<1> SUFFICES ASSUME c.boot # Boot("digest", p.boot) PROVE FALSE
  OBVIOUS
<1>1. c.subject_boot = c.boot
  BY DEF ProvenProcess
<1>2. CASE IsLinux(c)
  <2>1. SubjectOff(c, p) = 3 /\ RecordOff(c, p) = 2
    BY <1>1, <1>2, LinuxElsewhere DEF ProvenProcess, IsLinux
  <2>2. SubjectOff(c, p) + RecordOff(c, p) <= n /\ n <= 4
    BY <1>2 DEF ContextOK, Limit
  <2>3. QED
    BY <2>1, <2>2
<1>3. CASE ~ IsLinux(c)
  <2>1. SubjectOff(c, p) = 3
    BY <1>1, <1>3, NativeElsewhere DEF ProvenProcess, IsLinux
  <2>2. SubjectOff(c, p) <= n /\ n <= 2
    BY <1>3 DEF ContextOK, Limit, Withstood
  <2>3. QED
    BY <2>1, <2>2
<1>4. QED
  BY <1>2, <1>3

\* A target that names a process by the pid and the start time of p, in some boot.
IsLike(target, p) ==
  /\ target.keys = {"pid", "start_time_ticks", "boot_id"}
  /\ target.pid = Value("int", p.pid) /\ target.ticks = Value("text", p.ticks)
  /\ target.boot.form = "digest"

\* What is proven has the accused's pid and start time, whichever fields were
\* damaged, and its boot while the checks withstand the damage.
LEMMA ProvenNamesTheAccused ==
  ASSUME NEW c, NEW p \in Process, NEW rec \in RecommendationsOf(p), NEW n \in Nat,
         ContextOK(c, p, n), c.given, ProvenProcess(c), NamesProcess(c, rec)
  PROVE  /\ IsLike(CanonicalTarget(c), p)
         /\ n <= Limit(c) => CanonicalTarget(c).boot = Boot("digest", p.boot)
<1>1. n <= Limit(c) => c.boot = Boot("digest", p.boot)
  BY ProvenBoot
<1>2. c.pid = Value("int", p.pid)
  <2>1. rec.pid \in {Value("int", p.pid), Value("int", 0), Value("bool", 1)}
    BY DEF RecommendationsOf
  <2>2. c.pid.kind = "int" /\ 0 < c.pid.n /\ c.pid = rec.pid
    BY DEF ProvenProcess, PositiveWithin, NamesProcess
  <2>3. QED
    BY <2>1, <2>2 DEF Value
<1>3. c.ticks = Value("text", p.ticks)
  <2>1. rec.ticks \in {Value("int", p.ticks), Absent}
    BY DEF RecommendationsOf
  <2>2. c.ticks.kind = "text" /\ rec.ticks = Value("int", c.ticks.n)
    BY DEF ProvenProcess, PositiveWithin, NamesProcess
  <2>3. c.ticks.n = p.ticks
    BY <2>1, <2>2 DEF Value, Absent
  <2>4. QED
    BY <2>2, <2>3 DEF ContextOK, WellFormed
<1> DEFINE t == CanonicalTarget(c)
<1>4. /\ t.keys = {"pid", "start_time_ticks", "boot_id"}
      /\ t.pid = c.pid /\ t.ticks = c.ticks /\ t.boot = c.boot
  BY DEF CanonicalTarget, EmptyTarget
<1>5. c.boot.form = "digest"
  BY DEF ProvenProcess
<1>6. QED
  BY <1>1, <1>2, <1>3, <1>4, <1>5 DEF IsLike

-----------------------------------------------------------------------------
(* The sensor's contexts, and what damage makes of them.                   *)

LEMMA GenuineContexts ==
  ASSUME NEW p \in Process, NEW c \in ContextsOf(p)
  PROVE  ContextOK(c, p, 0)
<1>1. CASE c = NativeContext(p)
  <2>1. /\ c.given = TRUE /\ c.ticks = Value("text", p.ticks) /\ c.entity = NativeEntity(p)
        /\ c.boot = Boot("digest", p.boot) /\ c.subject_boot = Boot("digest", p.boot)
        /\ c.model = "other"
    BY <1>1 DEF NativeContext, NoContext, NativeEntity
  <2>2. WellFormed(c)
    BY <1>1 DEF NativeContext, NoContext, NoProof, WellFormed, Value
  <2>3. SubjectOff(c, p) = 0 /\ ~ IsLinux(c)
    BY <2>1 DEF SubjectOff, Off, IsLinux
  <2>4. QED
    BY <2>2, <2>3 DEF ContextOK
<1>2. CASE c = NoContext
  BY <1>2 DEF ContextOK, WellFormed, NoContext, NoProof
<1>3. CASE c = LinuxEndpointContext(SensorRecord(p), Agent) /\ c # NoContext
  <2> DEFINE r == SensorRecord(p)
  <2>1. c = ContextOf(r, Agent, Value("text", r.ticks.n))
    BY <1>3 DEF LinuxEndpointContext
  <2>2. r.id = RecordOf(p) /\ r.entity = LinuxEntity(p) /\ r.boot = Boot("uuid", p.boot)
    BY DEF SensorRecord, RecordOf, LinuxEntity
  <2> HIDE DEF r
  <2>3. /\ c.given = TRUE /\ c.record_id = r.id /\ c.entity = r.entity
        /\ c.ticks = Value("text", r.ticks.n) /\ c.boot = BootDigest(r.boot)
        /\ c.subject_boot = BootDigest(r.boot) /\ c.proof.boot_uuid = r.boot
    BY <2>1 DEF ContextOf
  <2>4. WellFormed(c)
    BY <2>1 DEF ContextOf, WellFormed, Value
  <2>5. BootDigest(r.boot) = Boot("digest", p.boot)
    BY <2>2 DEF BootDigest, Boot
  <2>6. SubjectOff(c, p) = 0 /\ RecordOff(c, p) = 0
    BY <2>2, <2>3, <2>5 DEF SubjectOff, RecordOff, Off
  <2>7. QED
    BY <2>4, <2>6 DEF ContextOK
<1>4. QED
  BY <1>1, <1>2, <1>3 DEF ContextsOf

\* A field is changed, and the others are not.
Agree(c, d, fields) ==
  /\ "boot" \in fields => d.boot = c.boot
  /\ "subject_boot" \in fields => d.subject_boot = c.subject_boot
  /\ "entity" \in fields => d.entity = c.entity
  /\ "record_id" \in fields => d.record_id = c.record_id
  /\ "boot_uuid" \in fields => d.proof.boot_uuid = c.proof.boot_uuid

Counted == {"boot", "subject_boot", "entity", "record_id", "boot_uuid"}

LEMMA MoreDamage ==
  ASSUME NEW c, NEW p, NEW n \in Nat, ContextOK(c, p, 0)
  PROVE  ContextOK(c, p, n)
<1>1. SubjectOff(c, p) \in Nat /\ RecordOff(c, p) \in Nat
  BY OffIsBit DEF SubjectOff, RecordOff
<1>2. QED
  BY <1>1 DEF ContextOK

\* What differs in one counted field disagrees in one more at most.
LEMMA OneMore ==
  ASSUME NEW c, NEW d, NEW p, NEW n \in Nat, ContextOK(c, p, n), c.given,
         WellFormed(d), d.given, IsLinux(d) => IsLinux(c),
         NEW f, Agree(c, d, Counted \ {f})
  PROVE  ContextOK(d, p, n + 1)
<1> DEFINE B(x) == Off(x.boot, {Boot("digest", p.boot)})
           S(x) == Off(x.subject_boot, {Boot("digest", p.boot)})
           E(x) == Off(x.entity, {NativeEntity(p), LinuxEntity(p)})
           R(x) == Off(x.record_id, {RecordOf(p)})
           U(x) == Off(x.proof.boot_uuid, {Boot("uuid", p.boot)})
<1>1. \A x \in {c, d} : /\ B(x) \in {0, 1} /\ S(x) \in {0, 1} /\ E(x) \in {0, 1}
                        /\ R(x) \in {0, 1} /\ U(x) \in {0, 1}
  BY OffIsBit
<1>2. /\ f # "boot" => B(d) = B(c)
      /\ f # "subject_boot" => S(d) = S(c)
      /\ f # "entity" => E(d) = E(c)
      /\ f # "record_id" => R(d) = R(c)
      /\ f # "boot_uuid" => U(d) = U(c)
  BY DEF Agree, Counted
<1>3. /\ SubjectOff(c, p) = B(c) + S(c) + E(c) /\ RecordOff(c, p) = R(c) + U(c)
      /\ SubjectOff(d, p) = B(d) + S(d) + E(d) /\ RecordOff(d, p) = R(d) + U(d)
  BY DEF SubjectOff, RecordOff
<1> HIDE DEF B, S, E, R, U
<1>4. /\ SubjectOff(d, p) <= SubjectOff(c, p) + 1
      /\ SubjectOff(d, p) + RecordOff(d, p) <= SubjectOff(c, p) + RecordOff(c, p) + 1
      /\ SubjectOff(c, p) \in Nat /\ RecordOff(c, p) \in Nat
      /\ SubjectOff(d, p) \in Nat /\ RecordOff(d, p) \in Nat
  BY <1>1, <1>2, <1>3
<1>5. /\ SubjectOff(c, p) <= n
      /\ IsLinux(c) => SubjectOff(c, p) + RecordOff(c, p) <= n
  BY DEF ContextOK
<1>6. QED
  BY <1>4, <1>5 DEF ContextOK

\* Whatever damage puts in its place, it changes one field, and no context to
\* a Linux one.
LEMMA DamagedContexts ==
  ASSUME NEW c, NEW p \in Process, NEW n \in Nat, ContextOK(c, p, n), c.given,
         NEW d \in Damaged(c)
  PROVE  ContextOK(d, p, n + 1) /\ d.given /\ (IsLinux(d) => IsLinux(c))
<1> DEFINE Fields(x) == [given |-> x.given, model |-> x.model, record_id |-> x.record_id,
                         agent |-> x.agent, host |-> x.host, boot |-> x.boot,
                         subject_boot |-> x.subject_boot, exact |-> x.exact, pid |-> x.pid,
                         ticks |-> x.ticks, entity |-> x.entity, proof |-> x.proof]
           Proof(x) == [given |-> x.given, boot_uuid |-> x.boot_uuid,
                        sensor |-> x.sensor, seq |-> x.seq]
<1>1. c = Fields(c) /\ c.proof = Proof(c.proof) /\ c.ticks = Value(c.ticks.kind, c.ticks.n)
  BY DEF ContextOK, WellFormed
<1>2. ASSUME NEW b, d \in {[c EXCEPT !.boot = b], [c EXCEPT !.subject_boot = b],
                           [c EXCEPT !.entity = b], [c EXCEPT !.record_id = b],
                           [c EXCEPT !.pid = b], [c EXCEPT !.host = b], [c EXCEPT !.exact = b],
                           [c EXCEPT !.agent = b]}
      PROVE  ContextOK(d, p, n + 1) /\ d.given /\ (IsLinux(d) => IsLinux(c))
  <2>1. d = Fields(d)
    BY <1>1, <1>2
  <2>2. d.given = c.given /\ d.ticks = c.ticks /\ d.proof = c.proof /\ d.model = c.model
    BY <1>1, <1>2
  <2>3. \E f : Agree(c, d, Counted \ {f})
    <3>1. CASE d = [c EXCEPT !.boot = b]
      <4>1. Agree(c, d, Counted \ {"boot"})
        BY <1>1, <3>1 DEF Agree
      <4>2. QED
        BY <4>1
    <3>2. CASE d = [c EXCEPT !.subject_boot = b]
      <4>1. Agree(c, d, Counted \ {"subject_boot"})
        BY <1>1, <3>2 DEF Agree
      <4>2. QED
        BY <4>1
    <3>3. CASE d = [c EXCEPT !.entity = b]
      <4>1. Agree(c, d, Counted \ {"entity"})
        BY <1>1, <3>3 DEF Agree
      <4>2. QED
        BY <4>1
    <3>4. CASE d \in {[c EXCEPT !.record_id = b], [c EXCEPT !.pid = b], [c EXCEPT !.host = b],
                      [c EXCEPT !.exact = b], [c EXCEPT !.agent = b]}
      <4>1. Agree(c, d, Counted \ {"record_id"})
        BY <1>1, <3>4 DEF Agree
      <4>2. QED
        BY <4>1
    <3>5. QED
      BY <1>2, <3>1, <3>2, <3>3, <3>4
  <2>4. WellFormed(d) /\ d.given /\ (IsLinux(d) => IsLinux(c))
    BY <1>1, <2>1, <2>2 DEF WellFormed, ContextOK, IsLinux
  <2>5. QED
    BY <2>3, <2>4, OneMore
<1>3. ASSUME NEW b, d = [c EXCEPT !.proof = b], b = Proof(b)
      PROVE  ContextOK(d, p, n + 1) /\ d.given /\ (IsLinux(d) => IsLinux(c))
  <2>1. d = Fields(d)
    BY <1>1, <1>3
  <2>2. d.given = c.given /\ d.ticks = c.ticks /\ d.proof = b /\ d.model = c.model
    BY <1>1, <1>3
  <2>3. Agree(c, d, Counted \ {"boot_uuid"})
    BY <1>1, <1>3 DEF Agree
  <2>4. WellFormed(d) /\ d.given /\ (IsLinux(d) => IsLinux(c))
    BY <1>1, <1>3, <2>1, <2>2 DEF WellFormed, ContextOK, IsLinux
  <2>5. QED
    BY <2>3, <2>4, OneMore
<1>4. ASSUME d = [c EXCEPT !.model = "other"]
      PROVE  ContextOK(d, p, n + 1) /\ d.given /\ (IsLinux(d) => IsLinux(c))
  <2>1. d = Fields(d)
    BY <1>1, <1>4
  <2>2. d.given = c.given /\ d.ticks = c.ticks /\ d.proof = c.proof /\ d.model = "other"
    BY <1>1, <1>4
  <2>3. Agree(c, d, Counted \ {"model"})
    BY <1>1, <1>4 DEF Agree
  <2>4. WellFormed(d) /\ d.given /\ ~ IsLinux(d)
    BY <1>1, <2>1, <2>2 DEF WellFormed, ContextOK, IsLinux
  <2>5. QED
    BY <2>3, <2>4, OneMore
<1>5. ASSUME NEW k, NEW m, d = [c EXCEPT !.ticks = Value(k, m)]
      PROVE  ContextOK(d, p, n + 1) /\ d.given /\ (IsLinux(d) => IsLinux(c))
  <2>1. d = Fields(d)
    BY <1>1, <1>5
  <2>2. /\ d.given = c.given /\ d.ticks = Value(k, m) /\ d.proof = c.proof
        /\ d.model = c.model
    BY <1>1, <1>5
  <2>3. Agree(c, d, Counted \ {"ticks"})
    BY <1>1, <1>5 DEF Agree
  <2>4. WellFormed(d) /\ d.given /\ (IsLinux(d) => IsLinux(c))
    BY <1>1, <2>1, <2>2 DEF WellFormed, ContextOK, IsLinux, Value
  <2>5. QED
    BY <2>3, <2>4, OneMore
<1>6. ASSUME NEW b, d \in {[c EXCEPT !.proof.boot_uuid = b], [c EXCEPT !.proof.sensor = b],
                           [c EXCEPT !.proof.seq = b]}
      PROVE  \E q : d = [c EXCEPT !.proof = q] /\ q = Proof(q)
  <2>1. \E q : /\ d = [c EXCEPT !.proof = q]
               /\ q \in {[c.proof EXCEPT !.boot_uuid = b], [c.proof EXCEPT !.sensor = b],
                        [c.proof EXCEPT !.seq = b]}
    BY <1>6
  <2>2. QED
    BY <1>1, <2>1
<1> HIDE DEF Fields, Proof
<1>7. \/ \E b : d \in {[c EXCEPT !.boot = b], [c EXCEPT !.subject_boot = b],
                     [c EXCEPT !.entity = b], [c EXCEPT !.record_id = b],
                     [c EXCEPT !.pid = b], [c EXCEPT !.host = b], [c EXCEPT !.exact = b],
                     [c EXCEPT !.agent = b]}
      \/ \E b : d \in {[c EXCEPT !.proof.boot_uuid = b], [c EXCEPT !.proof.sensor = b],
                     [c EXCEPT !.proof.seq = b]}
      \/ d = [c EXCEPT !.model = "other"]
      \/ \E k, m : d = [c EXCEPT !.ticks = Value(k, m)]
  BY DEF Damaged, Absent
<1>8. QED
  BY <1>2, <1>3, <1>4, <1>5, <1>6, <1>7

-----------------------------------------------------------------------------
(* The inductive invariant.                                                *)

WorldTyped ==
  /\ boot \in 1 .. MaxBoots /\ clock \in 0 .. MaxClock
  /\ alive \subseteq seen /\ seen \subseteq Process /\ killed \subseteq Process
  /\ faults \in 0 .. MaxFaults

\* A raised alert after n damages of its context.
RaisedOK(a, n) ==
  /\ a = [raised |-> TRUE, accused |-> a.accused, wish |-> a.wish, rec |-> a.rec,
          context |-> a.context]
  /\ a.accused \in seen /\ a.rec \in RecommendationsOf(a.accused)
  /\ ContextOK(a.context, a.accused, n)
  /\ a.context.given => a.rec.file = "legal"

\* What the target of a response says of its alert after n damages: the boot is
\* the accused's while the checks withstand them.
TargetOK(action, target, a, n) ==
  /\ action \in ProcessActions =>
       IF a.context.given
       THEN /\ IsLike(target, a.accused)
            /\ n <= Limit(a.context) => target.boot = Boot("digest", a.accused.boot)
       ELSE LegacyProcess(a.rec) /\ target = LegacyTarget(a.rec)
  /\ action \notin ProcessActions => target.keys \in {{}, {"path"}}
  /\ a.context.given => ValidCommand(SchemaOf(target), action, target, TRUE)

CommandOK ==
  /\ command.stage \in {"none", "staged", "authorized", "executed"}
  /\ IF command.stage = "none" THEN command.action = NoAction /\ command.target = EmptyTarget
     ELSE alert.raised /\ TargetOK(command.action, command.target, alert, faults)

\* A victim has the accused's pid and start time; with a context that is not
\* damaged too much it is the accused.
KilledOK ==
  \A p \in killed :
    /\ alert.raised
    /\ p.pid = alert.accused.pid /\ p.ticks = alert.accused.ticks
    /\ alert.context.given /\ faults <= Limit(alert.context) => p = alert.accused

WorldInv ==
  WorldTyped /\ alert.raised \in BOOLEAN /\ (alert.raised => RaisedOK(alert, faults))
    /\ CommandOK /\ KilledOK

\* A process fits the widths.
LEMMA ProcessFits ==
  ASSUME NEW p \in Process
  PROVE  p.pid \in 1 .. Max32 /\ p.ticks \in 1 .. Max64
<1>1. p.pid \in Pids /\ p.ticks \in 1 .. MaxClock
  BY DEF Process
<1>2. p.pid \in 1 .. Max32
  BY <1>1, WorldAssumption
<1>3. p.ticks \in 1 .. Max64
  <2>1. MaxClock \in 0 .. Max64 /\ Max64 \in Nat
    BY WorldAssumption, WidthAssumption
  <2>2. QED
    BY <1>1, <2>1
<1>4. QED
  BY <1>2, <1>3

\* A target that names a process is legal under schema 2.
LEMMA NamedIsDispatchable ==
  ASSUME NEW p \in Process, NEW target, IsLike(target, p), NEW action \in ProcessActions
  PROVE  ValidCommand(SchemaOf(target), action, target, TRUE)
<1>1. SchemaOf(target) = "2"
  BY DEF SchemaOf, IsLike
<1>2. /\ 0 < p.pid /\ p.pid <= Max32 /\ 0 < p.ticks /\ p.ticks <= Max64
  BY ProcessFits, WidthAssumption
<1>3. PositiveWithin(target.pid, "int", Max32) /\ PositiveWithin(target.ticks, "text", Max64)
  BY <1>2 DEF IsLike, PositiveWithin, Value
<1>4. target.boot.form = "digest"
  BY DEF IsLike
<1>5. QED
  BY <1>1, <1>3, <1>4 DEF ValidCommand, IsLike

\* What is translated for a raised alert says what a target may say of it.
LEMMA TranslationOK ==
  ASSUME NEW a, NEW n \in Nat, RaisedOK(a, n), seen \subseteq Process,
         Translate(a.wish, a.rec, a.context).action # NoAction
  PROVE  LET t == Translate(a.wish, a.rec, a.context) IN TargetOK(t.action, t.target, a, n)
<1> DEFINE t == Translate(a.wish, a.rec, a.context)
<1>1. a.context.given \in BOOLEAN /\ a.accused \in Process
  BY DEF RaisedOK, ContextOK, WellFormed
<1>2. CASE t.action \in ProcessActions
  <2>1. /\ a.context.given => /\ ProvenProcess(a.context) /\ NamesProcess(a.context, a.rec)
                              /\ t.target = CanonicalTarget(a.context)
        /\ ~ a.context.given => LegacyProcess(a.rec) /\ t.target = LegacyTarget(a.rec)
    BY <1>1, <1>2, ProcessPaths
  <2>2. a.context.given =>
          /\ IsLike(t.target, a.accused)
          /\ n <= Limit(a.context) => t.target.boot = Boot("digest", a.accused.boot)
    BY <1>1, <2>1, ProvenNamesTheAccused DEF RaisedOK
  <2>3. a.context.given => ValidCommand(SchemaOf(t.target), t.action, t.target, TRUE)
    BY <1>1, <1>2, <2>2, NamedIsDispatchable
  <2>4. QED
    BY <1>1, <1>2, <2>1, <2>2, <2>3 DEF TargetOK
<1>3. CASE t.action \notin ProcessActions
  <2>1. /\ t.target.keys \in {{}, {"path"}}
        /\ a.rec.file = "legal" => ValidCommand("1", t.action, t.target, TRUE)
    BY <1>3, OtherPaths
  <2>2. SchemaOf(t.target) = "1"
    BY <2>1 DEF SchemaOf
  <2>3. QED
    BY <1>3, <2>1, <2>2 DEF TargetOK, RaisedOK
<1>4. QED
  BY <1>2, <1>3

\* The process that an agent kills, in both kinds of target.
LEMMA TargetNames ==
  ASSUME NEW a, NEW n \in Nat, RaisedOK(a, n), seen \subseteq Process, NEW target,
         TargetOK("KILL_PROCESS", target, a, n), NEW p \in Process, IsTarget(p, target)
  PROVE  /\ p.pid = a.accused.pid /\ p.ticks = a.accused.ticks
         /\ a.context.given /\ n <= Limit(a.context) => p = a.accused
<1>1. a.accused \in Process /\ a.context.given \in BOOLEAN
  BY DEF RaisedOK, ContextOK, WellFormed
<1>2. "KILL_PROCESS" \in ProcessActions
  BY DEF ProcessActions
<1>3. CASE a.context.given
  <2>1. /\ IsLike(target, a.accused)
        /\ n <= Limit(a.context) => target.boot = Boot("digest", a.accused.boot)
    BY <1>2, <1>3 DEF TargetOK
  <2>2. /\ p.pid = a.accused.pid /\ p.ticks = a.accused.ticks
        /\ n <= Limit(a.context) => p.boot = a.accused.boot
    BY <2>1 DEF IsLike, IsTarget, Value, Boot
  <2>3. QED
    BY <1>1, <2>2 DEF Process
<1>4. CASE ~ a.context.given
  <2>1. LegacyProcess(a.rec) /\ target = LegacyTarget(a.rec)
    BY <1>2, <1>4 DEF TargetOK
  <2>2. target.pid = a.rec.pid /\ target.ticks = a.rec.ticks
    BY <2>1 DEF LegacyTarget, EmptyTarget
  <2>3. /\ a.rec.pid \in {Value("int", a.accused.pid), Value("int", 0), Value("bool", 1)}
        /\ a.rec.ticks \in {Value("int", a.accused.ticks), Absent}
    BY DEF RaisedOK, RecommendationsOf
  <2>4. a.rec.pid = Value("int", p.pid) /\ a.rec.ticks.n = p.ticks /\ p.pid > 0
    BY <2>2, ProcessFits, WidthAssumption DEF IsTarget
  <2>5. p.pid = a.accused.pid
    BY <2>3, <2>4 DEF Value
  <2>6. p.ticks = a.accused.ticks
    BY <2>1, <2>3, <2>4 DEF Value, Absent, LegacyProcess
  <2>7. QED
    BY <1>4, <2>5, <2>6
<1>5. QED
  BY <1>1, <1>3, <1>4

\* The host goes on; the response does not notice.
LEMMA HostKeeps ==
  ASSUME WorldInv, WorldTyped', seen \subseteq seen',
         UNCHANGED <<alert, command, killed, faults>>
  PROVE  WorldInv'
<1>1. alert.raised => RaisedOK(alert, faults)'
  BY DEF WorldInv, RaisedOK
<1>2. CommandOK'
  BY DEF WorldInv, CommandOK, TargetOK
<1>3. KilledOK'
  BY DEF WorldInv, KilledOK
<1>4. QED
  BY <1>1, <1>2, <1>3 DEF WorldInv

LEMMA StartKeeps ==
  ASSUME WorldInv, NEW pid \in Pids, Start(pid)
  PROVE  WorldInv'
<1> DEFINE p == [boot |-> boot, pid |-> pid, ticks |-> clock + 1]
<1>1. p \in Process /\ clock + 1 \in 0 .. MaxClock
  <2>1. clock + 1 \in 1 .. MaxClock
    BY WorldAssumption DEF WorldInv, WorldTyped, Start
  <2>2. QED
    BY <2>1 DEF Process, WorldInv, WorldTyped
<1>2. /\ clock' = clock + 1 /\ alive' = alive \cup {p} /\ seen' = seen \cup {p}
      /\ UNCHANGED <<boot, alert, command, killed, faults>>
  BY DEF Start
<1>3. WorldTyped'
  BY <1>1, <1>2 DEF WorldInv, WorldTyped
<1>4. QED
  BY <1>2, <1>3, HostKeeps

LEMMA DetectKeeps ==
  ASSUME WorldInv, NEW p \in seen, Detect(p)
  PROVE  WorldInv'
<1>1. PICK wish \in Wishes, c \in ContextsOf(p), rec \in RecommendationsOf(p) :
        /\ c.given => rec.host # "LAB-2" /\ rec.file = "legal"
        /\ alert' = [raised |-> TRUE, accused |-> p, wish |-> wish, rec |-> rec, context |-> c]
  BY DEF Detect
<1>2. ~ alert.raised /\ UNCHANGED <<boot, clock, alive, seen, command, killed, faults>>
  BY DEF Detect, world
<1>3. ContextOK(c, p, faults)
  <2>1. ContextOK(c, p, 0) /\ faults \in Nat
    BY GenuineContexts, WorldAssumption DEF WorldInv, WorldTyped
  <2>2. QED
    BY <2>1, MoreDamage
<1>4. RaisedOK(alert, faults)'
  BY <1>1, <1>2, <1>3 DEF RaisedOK
<1>5. command.stage = "none" /\ killed = {}
  BY <1>2 DEF WorldInv, CommandOK, KilledOK
<1>6. CommandOK' /\ KilledOK'
  BY <1>2, <1>5 DEF WorldInv, CommandOK, KilledOK
<1>7. WorldTyped' /\ alert'.raised \in BOOLEAN
  BY <1>1, <1>2 DEF WorldInv, WorldTyped
<1>8. QED
  BY <1>4, <1>6, <1>7 DEF WorldInv

LEMMA DamageKeeps ==
  ASSUME WorldInv, Damage
  PROVE  WorldInv'
<1>1. PICK c \in Damaged(alert.context) : alert' = [alert EXCEPT !.context = c]
  BY DEF Damage
<1>2. /\ alert.raised /\ alert.context.given /\ faults < MaxFaults /\ faults' = faults + 1
      /\ UNCHANGED <<boot, clock, alive, seen, command, killed>>
  BY DEF Damage, world
<1>3. RaisedOK(alert, faults) /\ alert.accused \in Process /\ faults \in Nat
  BY <1>2, WorldAssumption DEF WorldInv, RaisedOK, WorldTyped
<1>4. /\ ContextOK(c, alert.accused, faults + 1) /\ c.given
      /\ IsLinux(c) => IsLinux(alert.context)
  BY <1>2, <1>3, DamagedContexts DEF RaisedOK
\* More damage, and a limit that is not higher: what holds within it held before.
<1>5. faults + 1 <= Limit(c) => faults <= Limit(alert.context)
  BY <1>3, <1>4 DEF Limit, Withstood
<1>6. /\ alert' = [raised |-> TRUE, accused |-> alert.accused, wish |-> alert.wish,
                   rec |-> alert.rec, context |-> c]
  <2>1. PICK a, w, r, d : alert = [raised |-> TRUE, accused |-> a, wish |-> w, rec |-> r,
                                   context |-> d]
    BY <1>3 DEF RaisedOK
  <2>2. alert.accused = a /\ alert.wish = w /\ alert.rec = r
    BY <2>1
  <2>3. alert' = [raised |-> TRUE, accused |-> a, wish |-> w, rec |-> r, context |-> c]
    BY <1>1, <2>1
  <2>4. QED
    BY <2>2, <2>3
<1>7. RaisedOK(alert, faults)'
  BY <1>2, <1>3, <1>4, <1>6 DEF RaisedOK
<1>8. CommandOK'
  BY <1>2, <1>4, <1>6, <1>5 DEF WorldInv, CommandOK, TargetOK
<1>9. KilledOK'
  BY <1>2, <1>4, <1>6, <1>5 DEF WorldInv, KilledOK
<1>10. WorldTyped'
  BY <1>2, WorldAssumption DEF WorldInv, WorldTyped
<1>11. QED
  BY <1>6, <1>7, <1>8, <1>9, <1>10 DEF WorldInv

LEMMA StageKeeps ==
  ASSUME WorldInv, Stage
  PROVE  WorldInv'
<1>1. /\ alert.raised /\ Translation.action # NoAction
      /\ command' = [stage |-> "staged", action |-> Translation.action,
                     target |-> Translation.target]
      /\ UNCHANGED <<boot, clock, alive, seen, alert, killed, faults>>
  BY DEF Stage, world
<1>2. TargetOK(Translation.action, Translation.target, alert, faults)
  BY <1>1, TranslationOK, WorldAssumption DEF WorldInv, WorldTyped, Translation
<1> DEFINE action == Translation.action
           target == Translation.target
<1>3. command'.stage = "staged" /\ command'.action = action /\ command'.target = target
  BY <1>1
<1>4. TargetOK(action, target, alert, faults)
  BY <1>2
<1> HIDE DEF action, target
<1>5. CommandOK'
  BY <1>1, <1>3, <1>4 DEF CommandOK, TargetOK
<1>6. WorldTyped' /\ RaisedOK(alert, faults)' /\ KilledOK'
  BY <1>1 DEF WorldInv, WorldTyped, RaisedOK, KilledOK
<1>7. QED
  BY <1>1, <1>5, <1>6 DEF WorldInv

LEMMA AuthorizeKeeps ==
  ASSUME WorldInv, Authorize
  PROVE  WorldInv'
<1>1. /\ command.stage = "staged" /\ command' = [command EXCEPT !.stage = "authorized"]
      /\ UNCHANGED <<boot, clock, alive, seen, alert, killed, faults>>
  BY DEF Authorize, world
<1>2. command'.stage = "authorized" /\ command'.action = command.action
      /\ command'.target = command.target
  BY <1>1 DEF WorldInv, CommandOK
<1>3. CommandOK'
  BY <1>1, <1>2 DEF WorldInv, CommandOK, TargetOK
<1>4. WorldTyped' /\ (alert.raised => RaisedOK(alert, faults)') /\ KilledOK'
  BY <1>1 DEF WorldInv, WorldTyped, RaisedOK, KilledOK
<1>5. QED
  BY <1>1, <1>3, <1>4 DEF WorldInv

LEMMA KillKeeps ==
  ASSUME WorldInv, NEW p \in alive, Kill(p)
  PROVE  WorldInv'
<1>1. /\ command.stage = "authorized" /\ command.action = "KILL_PROCESS"
      /\ IsTarget(p, command.target)
      /\ command' = [command EXCEPT !.stage = "executed"]
      /\ killed' = killed \cup {p} /\ alive' = alive \ {p}
      /\ UNCHANGED <<boot, clock, seen, alert, faults>>
  BY DEF Kill
<1>2. alert.raised /\ RaisedOK(alert, faults) /\ p \in Process
  BY <1>1 DEF WorldInv, CommandOK, WorldTyped
<1>3. TargetOK("KILL_PROCESS", command.target, alert, faults)
  BY <1>1 DEF WorldInv, CommandOK
<1>4. /\ p.pid = alert.accused.pid /\ p.ticks = alert.accused.ticks
      /\ alert.context.given /\ faults <= Limit(alert.context) => p = alert.accused
  BY <1>1, <1>2, <1>3, TargetNames, WorldAssumption DEF WorldInv, WorldTyped
<1>5. command'.stage = "executed" /\ command'.action = command.action
      /\ command'.target = command.target
  BY <1>1 DEF WorldInv, CommandOK
<1>6. CommandOK'
  BY <1>1, <1>5 DEF WorldInv, CommandOK, TargetOK
<1>7. KilledOK'
  BY <1>1, <1>2, <1>4 DEF WorldInv, KilledOK
<1>8. WorldTyped' /\ RaisedOK(alert, faults)'
  BY <1>1, <1>2 DEF WorldInv, WorldTyped, RaisedOK
<1>9. QED
  BY <1>1, <1>2, <1>6, <1>7, <1>8 DEF WorldInv

\* One step of the world or of the response.
LEMMA StepKeeps ==
  ASSUME WorldInv, [Next]_vars
  PROVE  WorldInv'
<1>1. ASSUME NEW p \in alive, Exit(p) PROVE WorldInv'
  <2>1. alive' = alive \ {p} /\ UNCHANGED <<boot, clock, seen, alert, command, killed, faults>>
    BY <1>1 DEF Exit
  <2>2. WorldTyped'
    BY <2>1 DEF WorldInv, WorldTyped
  <2>3. QED
    BY <2>1, <2>2, HostKeeps
<1>2. ASSUME Reboot PROVE WorldInv'
  <2>1. /\ boot < MaxBoots /\ boot' = boot + 1 /\ clock' = 0 /\ alive' = {}
        /\ UNCHANGED <<seen, alert, command, killed, faults>>
    BY <1>2 DEF Reboot
  <2>2. boot' \in 1 .. MaxBoots /\ 0 \in 0 .. MaxClock
    BY <2>1, WorldAssumption, WidthAssumption DEF WorldInv, WorldTyped
  <2>3. WorldTyped'
    BY <2>1, <2>2 DEF WorldInv, WorldTyped
  <2>4. QED
    BY <2>1, <2>3, HostKeeps
<1>3. ASSUME UNCHANGED vars PROVE WorldInv'
  <2>1. UNCHANGED <<boot, clock, alive, seen, alert, command, killed, faults>>
    BY <1>3 DEF vars, world
  <2>2. WorldTyped'
    BY <2>1 DEF WorldInv, WorldTyped
  <2>3. QED
    BY <2>1, <2>2, HostKeeps
<1>4. QED
  BY <1>1, <1>2, <1>3, StartKeeps, DetectKeeps, DamageKeeps, StageKeeps, AuthorizeKeeps,
     KillKeeps DEF Next

LEMMA InitIsTyped == Init => WorldInv
<1> SUFFICES ASSUME Init PROVE WorldInv
  OBVIOUS
<1>1. WorldTyped
  BY WorldAssumption, WidthAssumption DEF Init, WorldTyped
<1>2. CommandOK /\ alert.raised = FALSE
  BY DEF Init, CommandOK, NoCommand, NoAlert
<1>3. KilledOK
  BY DEF Init, KilledOK
<1>4. QED
  BY <1>1, <1>2, <1>3 DEF WorldInv

LEMMA WorldInvariant == Spec => []WorldInv
  BY InitIsTyped, StepKeeps, PTL DEF Spec

\* The keys of a target that is not canonical.
LEMMA TargetKeys ==
  /\ \A rec : LegacyTarget(rec).keys = {"pid", "start_time_ticks"}
  /\ EmptyTarget.keys = {}
  BY DEF LegacyTarget, EmptyTarget

-----------------------------------------------------------------------------
(* The theorems.                                                           *)

\* The types of the world and of the response.
THEOREM WorldIsTyped == Spec => []WorldTypeOK
<1>1. WorldInv => WorldTypeOK
  <2> SUFFICES ASSUME WorldInv PROVE WorldTypeOK
    OBVIOUS
  <2>1. command.target.keys \subseteq {"pid", "start_time_ticks", "boot_id", "path"}
    BY TargetKeys DEF WorldInv, CommandOK, TargetOK, IsLike
  <2>2. QED
    BY <2>1 DEF WorldInv, WorldTyped, CommandOK, WorldTypeOK
<1>2. QED
  BY <1>1, WorldInvariant, PTL

\* An alert with an endpoint context kills the process it accuses or none, however
\* often pids come back, while at most two fields of the context are damaged: no two
\* fields, whatever is put in them, move a proof to another process
\* (recommendation.py:29-60).
THEOREM TheAccusedAlone == Spec => []OnlyTheAccusedDies
<1>1. WorldInv => OnlyTheAccusedDies
  <2>1. WorldInv /\ faults <= Withstood => faults <= Limit(alert.context)
    BY WorldAssumption DEF WorldInv, WorldTyped, Limit, Withstood
  <2>2. QED
    BY <2>1 DEF WorldInv, KilledOK, OnlyTheAccusedDies
<1>2. QED
  BY <1>1, WorldInvariant, PTL

\* A context that still claims to be a Linux record's withstands four: its boot is in
\* five fields, which all have to agree (linux_identity.py:46-63, 66-93).
THEOREM LinuxWithstandsFour ==
  Spec => [](/\ alert.raised /\ alert.context.given
             /\ alert.context.model = "linux_endpoint_v1" /\ faults <= 4
             => killed \subseteq {alert.accused})
<1>1. WorldInv =>
        (/\ alert.raised /\ alert.context.given
         /\ alert.context.model = "linux_endpoint_v1" /\ faults <= 4
         => killed \subseteq {alert.accused})
  BY DEF WorldInv, KilledOK, Limit, IsLinux
<1>2. QED
  BY <1>1, WorldInvariant, PTL

\* However much is damaged, the victim has the pid and the start time that the alert
\* names: at worst another boot's process of the same pid and ticks dies
\* (recommendation.py:43-57).
THEOREM DamageKeepsPidAndStart ==
  Spec => [](\A p \in killed : p.pid = alert.accused.pid /\ p.ticks = alert.accused.ticks)
<1>1. WorldInv => \A p \in killed : p.pid = alert.accused.pid /\ p.ticks = alert.accused.ticks
  BY DEF WorldInv, KilledOK
<1>2. QED
  BY <1>1, WorldInvariant, PTL

\* Within one boot the pid and the start time are enough.
THEOREM ReuseIsSafe == Spec => []ReusedPidIsSafe
<1>1. WorldInv => ReusedPidIsSafe
  <2> SUFFICES ASSUME WorldInv, NEW p \in killed, p.boot = alert.accused.boot
               PROVE  p = alert.accused
    BY DEF ReusedPidIsSafe
  <2>1. p \in Process /\ alert.accused \in Process
    BY DEF WorldInv, WorldTyped, KilledOK, RaisedOK
  <2>2. p.pid = alert.accused.pid /\ p.ticks = alert.accused.ticks
    BY DEF WorldInv, KilledOK
  <2>3. QED
    BY <2>1, <2>2 DEF Process
<1>2. QED
  BY <1>1, WorldInvariant, PTL

\* The weaker target is for alerts without a context only.
THEOREM LegacyIsForLegacy == Spec => []NoLegacyFallback
<1>1. WorldInv => NoLegacyFallback
  <2> SUFFICES ASSUME WorldInv, command.action \in ProcessActions
               PROVE  "boot_id" \in command.target.keys <=> alert.context.given
    BY DEF NoLegacyFallback
  <2>1. alert.raised /\ TargetOK(command.action, command.target, alert, faults) /\ RaisedOK(alert, faults)
    BY ActionsDiffer DEF WorldInv, CommandOK
  <2>2. CASE alert.context.given
    BY <2>1, <2>2 DEF TargetOK, IsLike
  <2>3. CASE ~ alert.context.given
    BY <2>1, <2>3, TargetKeys DEF TargetOK
  <2>4. QED
    BY <2>1, <2>2, <2>3 DEF RaisedOK, ContextOK, WellFormed
<1>2. QED
  BY <1>1, WorldInvariant, PTL

\* What the canonical path translates, the contract accepts.
THEOREM CanonicalIsAccepted == Spec => []CanonicalIsDispatchable
<1>1. WorldInv => CanonicalIsDispatchable
  BY DEF WorldInv, CommandOK, TargetOK, CanonicalIsDispatchable, Dispatchable
<1>2. QED
  BY <1>1, WorldInvariant, PTL

-----------------------------------------------------------------------------
(* A genuine proof is translated: the checks can be met.                   *)

\* A process as it is written in a genuine context.
Describes(c, p) ==
  /\ c.host = Host /\ c.exact /\ c.boot = Boot("digest", p.boot) /\ c.subject_boot = c.boot
  /\ c.pid = Value("int", p.pid) /\ c.ticks = Value("text", p.ticks)

\* The sensor's record is consistent, and the subject made of it rebuilds itself.
LEMMA LinuxIsProven ==
  ASSUME NEW p \in Process, NEW c, c = LinuxEndpointContext(SensorRecord(p), Agent)
  PROVE  Describes(c, p) /\ ProvenProcess(c)
<1> DEFINE r == SensorRecord(p)
<1>1. /\ 0 < p.pid /\ p.pid <= Max32 /\ 0 < p.ticks /\ p.ticks <= Max64 /\ 1 <= Max64
  BY ProcessFits, WidthAssumption
<1>2. r = [event |-> TRUE, observed |-> TRUE, host |-> Host, boot |-> Boot("uuid", p.boot),
           sensor |-> Sensor, pid |-> Value("int", p.pid), ticks |-> Value("int", p.ticks),
           seq |-> Value("int", 1),
           entity |-> EntityHash("linux", Host, Boot("uuid", p.boot), p.pid, p.ticks),
           id |-> RecordHash(Sensor, Boot("uuid", p.boot), 1)]
  BY DEF SensorRecord
<1> HIDE DEF r
<1>3. ConsistentRecord(r, Agent)
  <2>1. /\ PositiveWithin(r.pid, "int", Max32) /\ PositiveWithin(r.ticks, "int", Max64)
        /\ PositiveWithin(r.seq, "int", Max64)
    BY <1>1, <1>2 DEF PositiveWithin, Value
  <2>2. /\ r.entity = EntityHash("linux", r.host, r.boot, r.pid.n, r.ticks.n)
        /\ r.id = RecordHash(r.sensor, r.boot, r.seq.n)
    BY <1>2 DEF Value
  <2>3. r.boot.form = "uuid" /\ r.event /\ r.observed
    BY <1>2 DEF Boot
  <2>4. Agent # "" /\ r.host # "" /\ r.sensor # ""
    BY <1>2 DEF Host, Sensor, Agent
  <2>5. QED
    BY <2>1, <2>2, <2>3, <2>4 DEF ConsistentRecord
<1>4. c = ContextOf(r, Agent, Value("text", r.ticks.n))
  BY <1>3 DEF LinuxEndpointContext, r
<1>5. /\ c.agent = Agent /\ c.host = r.host /\ c.boot = BootDigest(r.boot)
      /\ c.subject_boot = c.boot /\ c.exact = TRUE /\ c.pid = r.pid
      /\ c.ticks = Value("text", r.ticks.n) /\ c.entity = r.entity /\ c.record_id = r.id
      /\ c.model = "linux_endpoint_v1" /\ c.proof.given = TRUE
      /\ c.proof.boot_uuid = r.boot /\ c.proof.seq = r.seq /\ c.proof.sensor = r.sensor
  BY <1>4 DEF ContextOf
<1>6. Describes(c, p)
  BY <1>2, <1>5 DEF Describes, BootDigest, Boot, Value
<1>7. c.ticks.kind = "text" /\ c.ticks.n = p.ticks /\ c.pid.kind = "int" /\ c.pid.n = p.pid
      /\ c.boot.form = "digest"
  BY <1>6 DEF Describes, Value, Boot
<1>8. VerifiedLinuxSubject(c)
  <2> DEFINE s == [event |-> TRUE, observed |-> TRUE, id |-> c.record_id,
                   seq |-> c.proof.seq, host |-> c.host, boot |-> c.proof.boot_uuid,
                   sensor |-> c.proof.sensor, pid |-> c.pid,
                   ticks |-> Value("int", c.ticks.n), entity |-> c.entity]
  <2>1. s = r
    <3>1. s.id = r.id /\ s.seq = r.seq /\ s.host = r.host /\ s.boot = r.boot
          /\ s.sensor = r.sensor /\ s.pid = r.pid /\ s.entity = r.entity
          /\ s.event = r.event /\ s.observed = r.observed
      BY <1>2, <1>5
    <3>2. s.ticks = r.ticks
      BY <1>2, <1>7
    <3>3. s = [event |-> s.event, observed |-> s.observed, host |-> s.host, boot |-> s.boot,
               sensor |-> s.sensor, pid |-> s.pid, ticks |-> s.ticks, seq |-> s.seq,
               entity |-> s.entity, id |-> s.id]
      OBVIOUS
    <3>4. r = [event |-> r.event, observed |-> r.observed, host |-> r.host, boot |-> r.boot,
               sensor |-> r.sensor, pid |-> r.pid, ticks |-> r.ticks, seq |-> r.seq,
               entity |-> r.entity, id |-> r.id]
      BY <1>2
    <3> HIDE DEF s
    <3>5. QED
      BY <3>1, <3>2, <3>3, <3>4
  <2>2. c = LinuxEndpointContext(s, c.agent)
    <3> HIDE DEF s
    <3>1. QED
      BY <1>5, <2>1 DEF r
  <2>3. QED
    BY <1>1, <1>5, <1>7, <2>2 DEF VerifiedLinuxSubject
<1>9. ProvenProcess(c)
  <2>1. PositiveWithin(c.pid, "int", Max32) /\ PositiveWithin(c.ticks, "text", Max64)
    BY <1>1, <1>7 DEF PositiveWithin
  <2>2. c.host # ""
    BY <1>2, <1>5 DEF Host
  <2>3. QED
    BY <1>5, <1>7, <1>8, <2>1, <2>2 DEF ProvenProcess
<1>10. QED
  BY <1>6, <1>9

LEMMA NativeIsProven ==
  ASSUME NEW p \in Process, NEW c, c = NativeContext(p)
  PROVE  Describes(c, p) /\ ProvenProcess(c)
<1>1. /\ 0 < p.pid /\ p.pid <= Max32 /\ 0 < p.ticks /\ p.ticks <= Max64
  BY ProcessFits, WidthAssumption
<1>2. /\ c.host = Host /\ c.boot = Boot("digest", p.boot) /\ c.subject_boot = c.boot
      /\ c.exact = TRUE /\ c.pid = Value("int", p.pid) /\ c.ticks = Value("text", p.ticks)
      /\ c.entity = EntityHash("native", Host, Boot("digest", p.boot), p.pid, p.ticks)
      /\ c.model = "other"
  BY DEF NativeContext, NoContext
<1>3. /\ PositiveWithin(c.pid, "int", Max32) /\ PositiveWithin(c.ticks, "text", Max64)
      /\ c.pid.n = p.pid /\ c.ticks.n = p.ticks /\ c.boot.form = "digest"
  BY <1>1, <1>2 DEF PositiveWithin, Value, Boot
<1>4. c.host # ""
  BY <1>2 DEF Host
<1>5. ProvenProcess(c)
  BY <1>2, <1>3, <1>4 DEF ProvenProcess
<1>6. QED
  BY <1>2, <1>5 DEF Describes

\* Until a field is damaged, the context is the one that was retained.
GenuineOK ==
  alert.raised /\ faults = 0 =>
    /\ alert.context \in ContextsOf(alert.accused)
    /\ alert.context.given => alert.rec.host # "LAB-2"

LEMMA GenuineKeeps ==
  ASSUME WorldInv, GenuineOK, [Next]_vars
  PROVE  GenuineOK'
<1>1. ASSUME NEW p \in seen, Detect(p) PROVE GenuineOK'
  <2>1. PICK wish \in Wishes, c \in ContextsOf(p), rec \in RecommendationsOf(p) :
          /\ c.given => rec.host # "LAB-2" /\ rec.file = "legal"
          /\ alert' = [raised |-> TRUE, accused |-> p, wish |-> wish, rec |-> rec, context |-> c]
    BY <1>1 DEF Detect
  <2>2. alert'.accused = p /\ alert'.context = c /\ alert'.rec = rec
    BY <2>1
  <2>3. c \in ContextsOf(alert'.accused)
    BY <2>2
  <2>4. alert'.context \in ContextsOf(alert'.accused)
    BY <2>2, <2>3
  <2>5. ContextsOf(alert'.accused) = ContextsOf(alert.accused)'
    BY DEF ContextsOf, LinuxEndpointContext, NativeContext, SensorRecord
  <2>6. QED
    BY <2>1, <2>2, <2>4, <2>5 DEF GenuineOK
<1>2. ASSUME Damage PROVE GenuineOK'
  BY <1>2 DEF Damage, GenuineOK, WorldInv, WorldTyped
<1>3. ASSUME UNCHANGED <<alert, faults>> PROVE GenuineOK'
  BY <1>3 DEF GenuineOK, ContextsOf, LinuxEndpointContext, NativeContext, SensorRecord
<1>4. QED
  <2>1. (\E p \in seen : Detect(p)) \/ Damage \/ UNCHANGED <<alert, faults>>
    BY DEF Next, vars, world, Start, Exit, Kill, Reboot, Stage, Authorize
  <2>2. QED
    BY <1>1, <1>2, <1>3, <2>1

\* The checks on a context can be met: a genuine one is translated.
THEOREM GenuineIsKept == Spec => []GenuineIsTranslated
<1>1. Init => GenuineOK
  BY DEF Init, NoAlert, GenuineOK
<1>2. WorldInv /\ GenuineOK => GenuineIsTranslated
  <2> SUFFICES ASSUME WorldInv, GenuineOK, alert.raised, faults = 0, alert.context.given,
                      alert.rec.pid = Value("int", alert.accused.pid),
                      alert.rec.ticks = Value("int", alert.accused.ticks),
                      alert.wish \in ProcessWishes
               PROVE  Translation.action # NoAction
    BY DEF GenuineIsTranslated
  <2> DEFINE c == alert.context
             p == alert.accused
             rec == alert.rec
  <2>1. p \in Process /\ rec \in RecommendationsOf(p) /\ rec.host # "LAB-2"
    BY DEF WorldInv, WorldTyped, RaisedOK, GenuineOK
  <2>2. c # NoContext
    <3>1. NoContext.given = FALSE
      BY DEF NoContext
    <3>2. QED
      BY <3>1
  <2>3. Describes(c, p) /\ ProvenProcess(c)
    BY <2>1, <2>2, LinuxIsProven, NativeIsProven DEF GenuineOK, ContextsOf
  <2>4. rec.host \in {"absent", c.host}
    BY <2>1, <2>3 DEF RecommendationsOf, Describes
  <2>5. NamesProcess(c, rec)
    BY <2>3, <2>4 DEF NamesProcess, Describes, Value
  <2>6. PICK action \in ProcessActions :
          Translation = ProcessTranslation(action, rec, c)
    BY DEF Translation, Translate, ProcessWishes, CommandFor, ProcessActions
  <2>7. Translation.action = action
    BY <2>3, <2>5, <2>6 DEF ProcessTranslation, Mapped
  <2>8. QED
    BY <2>7, ActionsDiffer
<1>3. QED
  BY <1>1, <1>2, GenuineKeeps, WorldInvariant, PTL DEF Spec

-----------------------------------------------------------------------------
(* What the Command contract makes of a translation.                       *)

\* recommendation.py:71-73 promises a command, "or None if no command can safely be
\* produced".  Exactly which translations the contract refuses all the same: a process
\* named by a pid that is not positive, without a context, and a path that is too long.
\* Every other one is accepted, under the schema its target implies
\* (recommendation.py:71-132, contract.py:78-120).
THEOREM RefusedTranslations ==
  ASSUME NEW wish, NEW rec, NEW c, c.given \in BOOLEAN,
         rec.pid.n \in Int, rec.file \in {"absent", "empty", "legal", "long"},
         Translate(wish, rec, c).action # NoAction
  PROVE  LET t == Translate(wish, rec, c) IN
         ValidCommand(SchemaOf(t.target), t.action, t.target, TRUE)
           <=> /\ t.action \in ProcessActions /\ ~ c.given => 0 < rec.pid.n
               /\ t.action \in FileActions => rec.file # "long"
<1>. DEFINE t == Translate(wish, rec, c)
<1>1. t.action \in ProcessActions =>
        /\ c.given => /\ ProvenProcess(c) /\ NamesProcess(c, rec)
                      /\ t.target = CanonicalTarget(c)
        /\ ~ c.given => LegacyProcess(rec) /\ t.target = LegacyTarget(rec)
  BY ProcessPaths
<1>2. CASE t.action \in ProcessActions /\ c.given
  <2>1. ProvenProcess(c) /\ t.target = CanonicalTarget(c)
    BY <1>1, <1>2, Zenon
  <2>2. /\ t.target.keys = {"pid", "start_time_ticks", "boot_id"}
        /\ t.target.pid = c.pid /\ t.target.ticks = c.ticks /\ t.target.boot = c.boot
    BY <2>1 DEF CanonicalTarget, EmptyTarget
  <2>3. SchemaOf(t.target) = "2"
    BY <2>2 DEF SchemaOf
  <2>4. t.action \notin FileActions
    BY <1>2, ActionsDiffer
  <2>. QED
    BY <1>2, <2>1, <2>2, <2>3, <2>4 DEF ValidCommand, ProvenProcess
<1>3. CASE t.action \in ProcessActions /\ ~ c.given
  <2>1. LegacyProcess(rec) /\ t.target = LegacyTarget(rec)
    BY <1>1, <1>3, Zenon
  <2>2. /\ t.target.keys = {"pid", "start_time_ticks"}
        /\ t.target.pid = rec.pid /\ t.target.ticks = rec.ticks
    BY <2>1 DEF LegacyTarget, EmptyTarget
  <2>3. SchemaOf(t.target) = "1"
    BY <2>2 DEF SchemaOf
  <2>4. t.action \notin FileActions
    BY <1>3, ActionsDiffer
  <2>. QED
    BY <1>3, <2>1, <2>2, <2>3, <2>4 DEF ValidCommand, LegacyProcess
<1>4. CASE t.action \notin ProcessActions
  <2>1. wish \in DOMAIN CommandFor
    BY DEF Translate, Nothing
  <2>2. PICK action : action = CommandFor[wish]
    OBVIOUS
  <2>3. CASE action \in ProcessActions
    <3>1. t = ProcessTranslation(action, rec, c)
      BY <2>1, <2>2, <2>3 DEF Translate
    <3>. QED
      BY <1>4, <2>3, <3>1 DEF ProcessTranslation, Mapped, Nothing
  <2>4. CASE action \in FileActions
    <3>1. t = FileTranslation(action, rec)
      BY <2>1, <2>2, <2>4, ActionsDiffer DEF Translate
    <3>2. /\ rec.file \in {"legal", "long"} /\ t.action = action
          /\ t.target = [EmptyTarget EXCEPT !.keys = {"path"}, !.path = rec.file]
      BY <3>1 DEF FileTranslation, Mapped, Nothing
    <3>3. t.target.keys = {"path"} /\ t.target.path = rec.file
      BY <3>2 DEF EmptyTarget
    <3>4. SchemaOf(t.target) = "1"
      BY <3>3 DEF SchemaOf
    <3>. QED
      BY <1>4, <2>4, <3>2, <3>3, <3>4 DEF ValidCommand
  <2>5. CASE action \notin ProcessActions /\ action \notin FileActions
    <3>1. t = Mapped(action, EmptyTarget)
      BY <2>1, <2>2, <2>5 DEF Translate
    <3>2. t.action = action /\ t.target.keys = {}
      BY <3>1 DEF Mapped, EmptyTarget
    <3>3. SchemaOf(t.target) = "1"
      BY <3>2 DEF SchemaOf
    <3>. QED
      BY <1>4, <2>5, <3>2, <3>3 DEF ValidCommand
  <2>. QED
    BY <2>3, <2>4, <2>5
<1>. QED
  BY <1>2, <1>3, <1>4
=============================================================================
