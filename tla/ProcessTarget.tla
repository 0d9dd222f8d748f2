--------------------------- MODULE ProcessTarget ---------------------------
(***************************************************************************)
(* One response on a living host: processes start and exit, their pids are  *)
(* used again, the host reboots, while an alert is translated, its command  *)
(* waits for an analyst and its agent acts on whatever runs by then.  The   *)
(* retained identity proof may be damaged before it is read, and is read    *)
(* twice: when the response is staged and when it is authorized             *)
(* (linux_identity.py:67).                                                 *)
(*                                                                         *)
(* The host, the Manager and the agent are outside src/: the agent acts     *)
(* only on a process that matches its whole target (contract.py:58-65).     *)
(* Start times count from the boot, as Linux does (docs/adr/002), and       *)
(* advance between two processes that use the same pid.                    *)
(***************************************************************************)
EXTENDS Recommendation, FiniteSets

CONSTANTS
  Pids, MaxClock, MaxBoots,   \* bounds: pids, process starts per boot, boots
  MaxFaults,                  \* bound: damaged fields of the retained proof
  Wishes                      \* the recommendation strings an alert carries

ASSUME WorldAssumption ==
  /\ Pids \subseteq 1 .. Max32 /\ MaxClock \in 0 .. Max64
  /\ MaxBoots \in Nat \ {0} /\ MaxFaults \in Nat

Host   == "LAB-1"
Agent  == "agent-1"
Sensor == "sensor-1"

VARIABLES
  boot, clock,  \* the current boot, and the ticks since then
  alive,        \* the running processes
  seen,         \* every process the sensor observed
  alert,        \* the alert: the process it is about, and what Manager retained
  command,      \* the response: its stage, action and target
  killed,       \* the processes the command was executed on
  faults        \* how many fields of the retained proof were damaged

world == <<boot, clock, alive, seen>>
vars  == <<world, alert, command, killed, faults>>

-----------------------------------------------------------------------------
ProcessWishes == {"TERMINATE_PROCESS", "COLLECT_PROCESS_INFO"}

Process == [boot : 1 .. MaxBoots, pid : Pids, ticks : 1 .. MaxClock]

NoAlert   == [raised |-> FALSE]
NoCommand == [stage |-> "none", action |-> NoAction, target |-> EmptyTarget]

\* The sensor's record of a process.
SensorRecord(p) ==
  LET uuid == Boot("uuid", p.boot) IN
  [event |-> TRUE, observed |-> TRUE, host |-> Host, boot |-> uuid, sensor |-> Sensor,
   pid |-> Value("int", p.pid), ticks |-> Value("int", p.ticks), seq |-> Value("int", 1),
   entity |-> EntityHash("linux", Host, uuid, p.pid, p.ticks),
   id |-> RecordHash(Sensor, uuid, 1)]

\* The context of a Windows record, which carries its own native digest.
NativeContext(p) ==
  LET digest == Boot("digest", p.boot) IN
  [NoContext EXCEPT !.given = TRUE, !.agent = Agent, !.host = Host, !.boot = digest,
     !.subject_boot = digest, !.exact = TRUE, !.pid = Value("int", p.pid),
     !.ticks = Value("text", p.ticks),
     !.entity = EntityHash("native", Host, digest, p.pid, p.ticks)]

ContextsOf(p) ==
  {LinuxEndpointContext(SensorRecord(p), Agent), NativeContext(p), NoContext}

\* What the detection engine recommends of p: with or without the host, and
\* the pid as the telemetry has it, possibly as a zero or a boolean.
RecommendationsOf(p) ==
  [pid : {Value("int", p.pid), Value("int", 0), Value("bool", 1)},
   ticks : {Value("int", p.ticks), Absent},
   host : {"absent", Host, "LAB-2"}, file : {"absent", "empty", "legal", "long"}]


\* The contexts that differ from c in one field.  A digest may be replaced by the
\* one of any process the sensor observed, Linux or native.
Damaged(c) ==
  LET boots    == {Boot(f, n) : f \in {"digest", "uuid"}, n \in 1 .. MaxBoots}
      numbers  == {Value(k, n) : k \in {"int", "text"}, n \in 0 .. MaxClock} \cup {Absent}
      digests  == {SensorRecord(p).entity : p \in seen} \cup {NativeContext(p).entity : p \in seen}
      records  == {SensorRecord(p).id : p \in seen} \cup {NoHash}
  IN ( {[c EXCEPT !.boot = b] : b \in boots}
       \cup {[c EXCEPT !.subject_boot = b] : b \in boots}
       \cup {[c EXCEPT !.proof.boot_uuid = b] : b \in boots}
       \cup {[c EXCEPT !.pid = v] : v \in numbers}
       \cup {[c EXCEPT !.ticks = v] : v \in numbers}
       \cup {[c EXCEPT !.entity = d] : d \in digests}
       \cup {[c EXCEPT !.record_id = i] : i \in records}
       \cup {[c EXCEPT !.host = "LAB-2"], [c EXCEPT !.exact = FALSE],
             [c EXCEPT !.model = "other"], [c EXCEPT !.agent = "agent-2"],
             [c EXCEPT !.proof.sensor = "sensor-2"], [c EXCEPT !.proof.seq = Value("int", 2)]} ) \ {c}

-----------------------------------------------------------------------------
Init ==
  /\ boot = 1 /\ clock = 0
  /\ alive = {} /\ seen = {} /\ killed = {}
  /\ alert = NoAlert /\ command = NoCommand /\ faults = 0

\* The host.  A pid is free once its process has exited.
Start(pid) ==
  /\ clock < MaxClock
  /\ \A p \in alive : p.pid # pid
  /\ clock' = clock + 1
  /\ LET p == [boot |-> boot, pid |-> pid, ticks |-> clock + 1] IN
       alive' = alive \cup {p} /\ seen' = seen \cup {p}
  /\ UNCHANGED <<boot, alert, command, killed, faults>>

Exit(p) ==
  /\ alive' = alive \ {p}
  /\ UNCHANGED <<boot, clock, seen, alert, command, killed, faults>>

Reboot ==
  /\ boot < MaxBoots
  /\ boot' = boot + 1 /\ clock' = 0 /\ alive' = {}
  /\ UNCHANGED <<seen, alert, command, killed, faults>>

\* The detection is raised on an observed process, dead or alive by now.  It
\* names a host and a file freely where there is no context, and otherwise the
\* own host or none.
Detect(p) ==
  /\ ~ alert.raised
  /\ \E wish \in Wishes, context \in ContextsOf(p), rec \in RecommendationsOf(p) :
       /\ context.given => rec.host # "LAB-2" /\ rec.file = "legal"
       /\ alert' = [raised |-> TRUE, accused |-> p, wish |-> wish, rec |-> rec,
                    context |-> context]
  /\ UNCHANGED <<world, command, killed, faults>>

\* One field of what Manager retained is damaged or mixed up; only a wish about
\* a process has the proof read again.
Damage ==
  /\ alert.raised /\ alert.context.given
  /\ alert.wish \in ProcessWishes
  /\ faults < MaxFaults
  /\ faults' = faults + 1
  /\ \E c \in Damaged(alert.context) : alert' = [alert EXCEPT !.context = c]
  /\ UNCHANGED <<world, command, killed>>

Translation == Translate(alert.wish, alert.rec, alert.context)

\* Manager stages the translation, if there is one.
Stage ==
  /\ alert.raised /\ command.stage = "none"
  /\ Translation.action # NoAction
  /\ command' = [stage |-> "staged", action |-> Translation.action,
                 target |-> Translation.target]
  /\ UNCHANGED <<world, alert, killed, faults>>

\* A target bound to a boot goes out as a schema-2 command.
SchemaOf(target) == IF "boot_id" \in target.keys THEN "2" ELSE "1"

Dispatchable(c) == ValidCommand(SchemaOf(c.target), c.action, c.target, TRUE)

\* The analyst approves: the proof is read again, and the contract decides.
Authorize ==
  /\ command.stage = "staged"
  /\ Translation = Mapped(command.action, command.target)
  /\ Dispatchable(command)
  /\ command' = [command EXCEPT !.stage = "authorized"]
  /\ UNCHANGED <<world, alert, killed, faults>>

\* The agent looks at the running process and compares it with the target.
IsTarget(p, target) ==
  /\ target.pid = Value("int", p.pid)
  /\ target.ticks.n = p.ticks
  /\ "boot_id" \in target.keys => target.boot = Boot("digest", p.boot)

Kill(p) ==
  /\ command.stage = "authorized"
  /\ command.action = "KILL_PROCESS"
  /\ IsTarget(p, command.target)
  /\ command' = [command EXCEPT !.stage = "executed"]
  /\ killed' = killed \cup {p}
  /\ alive' = alive \ {p}
  /\ UNCHANGED <<boot, clock, seen, alert, faults>>

Next ==
  \/ \E pid \in Pids : Start(pid)
  \/ \E p \in alive : Exit(p) \/ Kill(p)
  \/ Reboot
  \/ \E p \in seen : Detect(p)
  \/ Damage \/ Stage \/ Authorize

Spec == Init /\ [][Next]_vars

-----------------------------------------------------------------------------
(* Properties.                                                             *)

\* The types of the world and of the response.
WorldTypeOK ==
  /\ boot \in 1 .. MaxBoots /\ clock \in 0 .. MaxClock
  /\ alive \subseteq seen /\ seen \subseteq Process /\ killed \subseteq Process
  /\ command.stage \in {"none", "staged", "authorized", "executed"}
  /\ command.target.keys \subseteq {"pid", "start_time_ticks", "boot_id", "path"}
  /\ faults \in 0 .. MaxFaults

\* How many damaged fields the checks withstand in any context: another process
\* of the same pid and start time differs in its boot, which a context carries
\* twice, and in its digest.
Withstood == 2

\* An alert with an endpoint context leads to the death of the process it is
\* about and of no other: however often the pid was used again, whether the
\* host rebooted and the same pid came back with the same start time, whichever
\* two fields of the retained proof were damaged, or taken from the proof of
\* another process, before or between its two readings
\* (recommendation.py:29-60, linux_identity.py:46-49, 66-93).
OnlyTheAccusedDies ==
  alert.raised /\ alert.context.given /\ faults <= Withstood => killed \subseteq {alert.accused}

\* A pid-and-start-time target is exact while the host has not rebooted since:
\* a pid used again is told apart (recommendation.py:84-102).
ReusedPidIsSafe ==
  killed # {} => \A p \in killed : p.boot = alert.accused.boot => p = alert.accused

\* A context that proves nothing, or less than it did, is never answered with
\* the weaker pid-and-start-time target instead (recommendation.py:78-81).
NoLegacyFallback ==
  command.action \in ProcessActions =>
    ("boot_id" \in command.target.keys <=> alert.context.given)

\* Whatever the canonical path translates, the Command contract accepts: a
\* staged response cannot die at dispatch over a width, a type or a key
\* (recommendation.py:29-42, 60 against contract.py:78-102).
CanonicalIsDispatchable ==
  command.stage # "none" /\ alert.context.given => Dispatchable(command)

\* An undamaged proof of the process the recommendation names is translated:
\* the checks do not contradict each other, nor the rebuilt context the one it
\* is compared with (linux_identity.py:47-63, 75-93, recommendation.py:29-60).
GenuineIsTranslated ==
  alert.raised /\ faults = 0 /\ alert.context.given
    /\ alert.rec.pid = Value("int", alert.accused.pid)
    /\ alert.rec.ticks = Value("int", alert.accused.ticks)
    /\ alert.wish \in ProcessWishes
  => Translation.action # NoAction

\* contract.py:58-61 and recommendation.py:85-87: start_time_ticks prevents
\* killing the wrong process after the pid was recycled.
PidReuseRejected == killed # {} => killed \subseteq {alert.accused}
=============================================================================
