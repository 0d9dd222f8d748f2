--------------------------- MODULE Recommendation ---------------------------
(***************************************************************************)
(* recommendation.py, linux_identity.py and the Command validator of       *)
(* contract.py: how a recommendation becomes the target of a command, and   *)
(* which commands the contract accepts.  Constant level: pure functions.    *)
(*                                                                         *)
(*   - A field read from JSON is a Value: its type and, for a number or a   *)
(*     canonical decimal string, the number.  A field that is not there,    *)
(*     or of a type nobody asks for, is Absent.                            *)
(*   - A boot identity is a native uuid, the boot_<hex> digest, or neither. *)
(*   - A SHA-256 digest is the tuple of what is hashed.  The hashed texts   *)
(*     separate their fields: lengths in one, and in the other a "|" that   *)
(*     no field right of the first one can contain.                        *)
(*   - A path is absent, empty, of a legal length, or too long.            *)
(***************************************************************************)
EXTENDS Integers, ResponseContract

CONSTANTS Max32, Max64   \* the widths: 0xFFFFFFFF and 0xFFFFFFFFFFFFFFFF

ASSUME WidthAssumption == Max32 \in Nat /\ Max64 \in Nat /\ 0 < Max32 /\ Max32 \leq Max64

ProcessActions == {"KILL_PROCESS", "COLLECT_PROCESS_INFO"}
FileActions    == {"COLLECT_FILE", "QUARANTINE_FILE"}

Value(kind, n) == [kind |-> kind, n |-> n]
Absent == Value("absent", 0)

PositiveWithin(v, kind, max) == v.kind = kind /\ 0 < v.n /\ v.n \leq max

Boot(form, n) == [form |-> form, n |-> n]
NoBoot == Boot("absent", 0)
BootDigest(boot) == Boot("digest", boot.n)

EntityHash(scheme, host, boot, pid, ticks) == <<scheme, host, boot, pid, ticks>>
RecordHash(sensor, boot, seq) == <<sensor, boot, seq>>
NoHash == <<>>

-----------------------------------------------------------------------------
(* linux_identity.py.                                                      *)

NoProof   == [given |-> FALSE, boot_uuid |-> NoBoot, sensor |-> "", seq |-> Absent]
NoContext ==
  [given |-> FALSE, model |-> "other", record_id |-> NoHash, agent |-> "", host |-> "",
   boot |-> NoBoot, subject_boot |-> NoBoot, exact |-> FALSE, pid |-> Absent,
   ticks |-> Absent, entity |-> NoHash, proof |-> NoProof]

\* The record names one process instance and agrees with its own digests.
\* record.event: it is a process.exec event of schema 1.0; record.observed: its
\* identity was observed, not inferred.
ConsistentRecord(record, agent) ==
  /\ agent # "" /\ record.host # "" /\ record.sensor # ""
  /\ record.event /\ record.observed
  /\ record.boot.form = "uuid"
  /\ PositiveWithin(record.pid, "int", Max32)
  /\ PositiveWithin(record.ticks, "int", Max64)
  /\ PositiveWithin(record.seq, "int", Max64)
  /\ record.entity = EntityHash("linux", record.host, record.boot, record.pid.n, record.ticks.n)
  /\ record.id = RecordHash(record.sensor, record.boot, record.seq.n)

ContextOf(record, agent, ticks) ==
  [given |-> TRUE, model |-> "linux_endpoint_v1", record_id |-> record.id,
   agent |-> agent, host |-> record.host, boot |-> BootDigest(record.boot),
   subject_boot |-> BootDigest(record.boot), exact |-> TRUE,
   pid |-> record.pid, ticks |-> ticks, entity |-> record.entity,
   proof |-> [given |-> TRUE, boot_uuid |-> record.boot,
              sensor |-> record.sensor, seq |-> record.seq]]

\* Mutant: the start time is kept as a number.
NumericTicksContext(record, agent) ==
  IF ConsistentRecord(record, agent) THEN ContextOf(record, agent, record.ticks) ELSE NoContext

\* linux_endpoint_context.
LinuxEndpointContext(record, agent) ==
  IF ConsistentRecord(record, agent)
  THEN ContextOf(record, agent, Value("text", record.ticks.n))
  ELSE NoContext

\* Mutant: the proof is there, so it is believed.
ProofIsPresent(context) ==
  context.proof.given /\ context.ticks.kind = "text" /\ context.ticks.n > 0

\* verified_linux_subject: rebuilding the context from its own proof gives it back.
VerifiedLinuxSubject(context) ==
  /\ context.proof.given
  /\ context.ticks.kind = "text" /\ context.ticks.n > 0
  /\ context = LinuxEndpointContext(
       [event |-> TRUE, observed |-> TRUE, id |-> context.record_id,
        seq |-> context.proof.seq, host |-> context.host,
        boot |-> context.proof.boot_uuid, sensor |-> context.proof.sensor,
        pid |-> context.pid, ticks |-> Value("int", context.ticks.n),
        entity |-> context.entity], context.agent)

-----------------------------------------------------------------------------
(* recommendation.py.                                                      *)

EmptyTarget == [keys |-> {}, pid |-> Absent, ticks |-> Absent, boot |-> NoBoot,
                path |-> "absent"]
Nothing == [action |-> NoAction, target |-> EmptyTarget]   \* returned None

Mapped(action, target) == [action |-> action, target |-> target]

\* The context proves one native process instance.
ProvenProcess(context) ==
  /\ context.host # ""
  /\ context.boot.form = "digest" /\ context.subject_boot = context.boot
  /\ context.exact
  /\ PositiveWithin(context.pid, "int", Max32)
  /\ PositiveWithin(context.ticks, "text", Max64)
  /\ IF context.model = "linux_endpoint_v1" THEN VerifiedLinuxSubject(context)
     ELSE context.entity = EntityHash("native", context.host, context.boot,
                                      context.pid.n, context.ticks.n)

\* Mutant: the recommendation's start time is not compared.
NamesPid(context, rec) ==
  rec.pid = context.pid /\ rec.host \in {"absent", context.host}

\* The recommendation names exactly the process of the context; one without a
\* host names the context's.
NamesProcess(context, rec) ==
  /\ rec.pid = context.pid
  /\ rec.ticks = Value("int", context.ticks.n)
  /\ rec.host \in {"absent", context.host}

\* Mutants: the whole subject is copied; the start time is sent as a number.
WholeSubjectTarget(context) ==
  [EmptyTarget EXCEPT !.keys = {"pid", "start_time_ticks", "boot_id", "entity_id"},
                      !.pid = context.pid, !.ticks = context.ticks, !.boot = context.boot]
NumericTarget(context) ==
  [EmptyTarget EXCEPT !.keys = {"pid", "start_time_ticks", "boot_id"}, !.pid = context.pid,
                      !.ticks = Value("int", context.ticks.n), !.boot = context.boot]

CanonicalTarget(context) ==
  [EmptyTarget EXCEPT !.keys = {"pid", "start_time_ticks", "boot_id"},
                      !.pid = context.pid, !.ticks = context.ticks, !.boot = context.boot]

\* What a recommendation without an endpoint context must carry.
LegacyProcess(rec) == rec.pid.kind = "int" /\ rec.ticks.kind = "int" /\ rec.ticks.n > 0

LegacyTarget(rec) ==
  [EmptyTarget EXCEPT !.keys = {"pid", "start_time_ticks"},
                      !.pid = rec.pid, !.ticks = rec.ticks]

\* Mutant: a proof that fails is treated like one that is absent.
FallbackTranslation(action, rec, context) ==
  IF context.given /\ ProvenProcess(context) /\ NamesProcess(context, rec)
  THEN Mapped(action, CanonicalTarget(context))
  ELSE IF LegacyProcess(rec) THEN Mapped(action, LegacyTarget(rec)) ELSE Nothing

\* context.given is FALSE when the argument is None.
ProcessTranslation(action, rec, context) ==
  IF context.given
  THEN IF ProvenProcess(context) /\ NamesProcess(context, rec)
       THEN Mapped(action, CanonicalTarget(context)) ELSE Nothing
  ELSE IF LegacyProcess(rec) THEN Mapped(action, LegacyTarget(rec)) ELSE Nothing

FileTranslation(action, rec) ==
  IF rec.file \in {"legal", "long"}
  THEN Mapped(action, [EmptyTarget EXCEPT !.keys = {"path"}, !.path = rec.file])
  ELSE Nothing

\* The recommendation vocabulary that is translated at all.
CommandFor ==
  [TERMINATE_PROCESS |-> "KILL_PROCESS", COLLECT_PROCESS_INFO |-> "COLLECT_PROCESS_INFO",
   COLLECT_NETWORK_CONNECTIONS |-> "COLLECT_NETWORK_CONNECTIONS",
   QUARANTINE_FILE |-> "QUARANTINE_FILE", ISOLATE_HOST |-> "ISOLATE_HOST"]

\* translate_recommendation.
Translate(wish, rec, context) ==
  IF wish \notin DOMAIN CommandFor THEN Nothing
  ELSE LET action == CommandFor[wish] IN
    IF action \in ProcessActions THEN ProcessTranslation(action, rec, context)
    ELSE IF action \in FileActions THEN FileTranslation(action, rec)
    ELSE Mapped(action, EmptyTarget)

-----------------------------------------------------------------------------
\* Command.enforce_closed_target_schema accepts; aware: the expiry has a zone.
ValidCommand(schema, action, target, aware) ==
  IF schema = "2" THEN
    /\ aware
    /\ action \in ProcessActions
    /\ target.keys = {"pid", "start_time_ticks", "boot_id"}
    /\ PositiveWithin(target.pid, "int", Max32)
    /\ PositiveWithin(target.ticks, "text", Max64)
    /\ target.boot.form = "digest"
  ELSE IF action \in ProcessActions THEN
    /\ target.keys = {"pid", "start_time_ticks"}
    /\ \A v \in {target.pid, target.ticks} : v.kind = "int" /\ v.n > 0
  ELSE IF action \in FileActions THEN target.keys = {"path"} /\ target.path = "legal"
  ELSE target.keys = {}
=============================================================================
