------------------------------ MODULE Signing ------------------------------
(***************************************************************************)
(* signing.py: Manager signs the command it authorizes; the envelope is     *)
(* stored, joined and encoded again on its way; the agent that receives it   *)
(* computes the signing input once more and executes what verifies.        *)
(*                                                                         *)
(*   - The signing input is the record of its fields: Framing shows that    *)
(*     the bytes determine them.  A signature is the input it was made of.  *)
(*   - Identifiers and file names are texts: sequences of characters.       *)
(*   - A time is its whole second, whether it has a fraction, and its       *)
(*     notation.  target.path says how long a path is, file which it is.    *)
(*   - Keys and their custody are left out.  The agent computes the same    *)
(*     function in native code (signing.py:1, 47): its side is external.    *)
(***************************************************************************)
EXTENDS Recommendation, FiniteSets, Sequences

CONSTANTS
  Characters,   \* what texts are made of
  Envelopes,    \* the envelopes that can be on the way, signable or not
  LegalHosts,   \* the host identities of 1 to 128 characters
  MaxSigned     \* bound: commands signed

VARIABLES
  authorized,   \* the envelopes Manager signed
  wire,         \* the messages: an envelope and a signature
  executed      \* the envelopes agents executed

vars == <<authorized, wire, executed>>

-----------------------------------------------------------------------------
(* What an envelope is.                                                    *)

Time == [second : Int, fraction : BOOLEAN, notation : {"Z", "offset", "naive", "other"}]

Field == [kind : {"int", "text", "bool", "absent"}, n : Int]

\* A field is there when its key is.
Target ==
  {t \in [keys : SUBSET {"pid", "start_time_ticks", "boot_id", "path"},
          pid : Field, ticks : Field,
          boot : [form : {"digest", "uuid", "absent"}, n : Nat],
          path : {"absent", "empty", "legal", "long"}] :
     /\ "pid" \in t.keys \/ t.pid = Absent
     /\ "start_time_ticks" \in t.keys \/ t.ticks = Absent
     /\ "boot_id" \in t.keys <=> t.boot # NoBoot
     /\ "path" \in t.keys \/ t.path = "absent"}

\* Whether an envelope has the shape of one; closed: it has every key and no other.
Typed(e) ==
  /\ e = [closed |-> e.closed, schema |-> e.schema, command_id |-> e.command_id,
          correlation_id |-> e.correlation_id, agent_id |-> e.agent_id,
          host_id |-> e.host_id, action |-> e.action, created_at |-> e.created_at,
          expires_at |-> e.expires_at, target |-> e.target, file |-> e.file]
  /\ e.closed \in BOOLEAN /\ e.schema \in {"1", "2"}
  /\ {e.command_id, e.correlation_id, e.agent_id, e.host_id, e.file} \subseteq Seq(Characters)
  /\ e.created_at \in Time /\ e.expires_at \in Time /\ e.target \in Target
  /\ e.target.path = "absent" => e.file = << >>

ASSUME SigningAssumption == MaxSigned \in Nat /\ \A e \in Envelopes : Typed(e)

-----------------------------------------------------------------------------
(* signing_input.                                                          *)

\* epoch_seconds does not raise: the time is aware, and not before 1970.
ValidTime(t) == t.notation \in {"Z", "offset"} /\ t.second >= 0

EpochSeconds(t) == t.second

\* _unsigned: the number, whatever its type; 0 where there is none.
Unsigned(field) == field.n

ImpliedSchema(target) == IF target.boot # NoBoot THEN "2" ELSE "1"

\* Mutant: the command contract is not asked.
EnvelopeOnly(e) ==
  /\ e.closed /\ e.host_id \in LegalHosts
  /\ e.schema = ImpliedSchema(e.target)
  /\ ValidTime(e.created_at) /\ ValidTime(e.expires_at)

\* signing_input does not raise.
Signable(e) ==
  /\ e.closed /\ e.host_id \in LegalHosts
  /\ e.action \in ClosedActions
  /\ ValidCommand(e.schema, e.action, e.target, e.expires_at.notation # "naive")
  /\ e.schema = ImpliedSchema(e.target)
  /\ ValidTime(e.created_at) /\ ValidTime(e.expires_at)

\* Mutant: a time is signed as it is written.
WrittenInput(e) ==
  [schema |-> ImpliedSchema(e.target), command_id |-> e.command_id,
   correlation_id |-> e.correlation_id, agent_id |-> e.agent_id, host_id |-> e.host_id,
   action |-> e.action, created_at |-> e.created_at, expires_at |-> e.expires_at,
   pid |-> Unsigned(e.target.pid), ticks |-> Unsigned(e.target.ticks),
   boot |-> e.target.boot, path |-> e.file]

\* signing_input.
SigningInput(e) ==
  [schema |-> ImpliedSchema(e.target), command_id |-> e.command_id,
   correlation_id |-> e.correlation_id, agent_id |-> e.agent_id, host_id |-> e.host_id,
   action |-> e.action, created_at |-> EpochSeconds(e.created_at),
   expires_at |-> EpochSeconds(e.expires_at),
   pid |-> Unsigned(e.target.pid), ticks |-> Unsigned(e.target.ticks),
   boot |-> e.target.boot, path |-> e.file]

-----------------------------------------------------------------------------
(* The way of a command.                                                   *)

Init == authorized = {} /\ wire = {} /\ executed = {}

Authorize(e) ==
  /\ Cardinality(authorized) < MaxSigned
  /\ Signable(e)
  /\ authorized' = authorized \cup {e}
  /\ wire' = wire \cup {[envelope |-> e, signature |-> SigningInput(e)]}
  /\ UNCHANGED executed

\* What arrives is not what was sent: fields of another row, another encoding of
\* a time or a number, a field that was lost.
Carry(w, e) ==
  /\ wire' = (wire \ {w}) \cup {[w EXCEPT !.envelope = e]}
  /\ UNCHANGED <<authorized, executed>>

Verifies(w) == Signable(w.envelope) /\ SigningInput(w.envelope) = w.signature

\* The agent executes a command identity once.
Execute(w) ==
  /\ Verifies(w)
  /\ \A x \in executed : x.command_id # w.envelope.command_id
  /\ executed' = executed \cup {w.envelope}
  /\ UNCHANGED <<authorized, wire>>

Next ==
  \/ \E e \in Envelopes : Authorize(e)
  \/ \E w \in wire : Execute(w) \/ \E e \in Envelopes : Carry(w, e)

Spec == Init /\ [][Next]_vars

-----------------------------------------------------------------------------
(* Properties.                                                             *)

\* Everything an envelope says, up to the notation of its times.
Meaning(e) ==
  [e EXCEPT !.created_at = EpochSeconds(e.created_at), !.expires_at = EpochSeconds(e.expires_at)]

\* What an agent executes says what an authorized envelope says, to the type of
\* every target field and the schema that is declared, although the input leaves
\* both out (signing.py:67-76, 86-101).
ExecutedIsAuthorized ==
  \A x \in executed : \E e \in authorized : Meaning(x) = Meaning(e)

\* Encoding the times again never costs a command its signature, as long as they
\* are times: a fraction that was cut, an offset written as Z (signing.py:14-28).
NotationIsFree ==
  \A w \in wire, e \in authorized :
    /\ w.signature = SigningInput(e)
    /\ Meaning(w.envelope) = Meaning(e)
    /\ {w.envelope.created_at.notation, w.envelope.expires_at.notation} \subseteq {"Z", "offset"}
    => Verifies(w)
=============================================================================
