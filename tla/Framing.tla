------------------------------ MODULE Framing ------------------------------
(***************************************************************************)
(* The bytes that are signed: signing.py frames the fields of a command,    *)
(* artifacts.py those of a manifest.                                       *)
(*                                                                         *)
(* A byte string is a sequence of tokens: a domain line, a name with its    *)
(* colon, or a character, digits and colons among them.  A text of Signing  *)
(* is such a sequence, so a value may contain whatever looks like a part of *)
(* a frame.                                                                *)
(***************************************************************************)
EXTENDS Signing, SequencesExt

CONSTANT Manifests   \* the manifests: a text for every field

CommandFields ==
  <<"schema_version", "command_id", "correlation_id", "agent_id", "host_id", "action",
    "created_at", "expires_at", "pid", "start_time_ticks", "boot_id", "path">>

FIELDS ==
  <<"schema_version", "artifact_id", "agent_id", "host_id", "command_id", "correlation_id",
    "kind", "media_type", "content_bytes", "sha256", "produced_at_unix", "algorithm", "key_id">>

ASSUME FramingAssumption == \A m \in Manifests : m \in [ToSet(FIELDS) -> Seq(Characters)]

Digits == <<"0", "1", "2", "3", "4", "5", "6", "7", "8", "9">>

\* str of a number.
Decimal[n \in Nat] ==
  IF n < 10 THEN <<Digits[n + 1]>> ELSE Append(Decimal[n \div 10], Digits[(n % 10) + 1])

\* Mutant: the value is not preceded by its length.
BareField(name, value) == <<name>> \o value \o <<"\n">>

\* _field: name:length:value\n.
FramedField(name, value) ==
  <<name>> \o Decimal[Len(value)] \o <<":">> \o value \o <<"\n">>

\* The loops of signing_input and artifact_signing_input.
Frame(domain, names, values) ==
  <<domain>> \o FlattenSeq([i \in DOMAIN names |-> FramedField(names[i], values[i])])

\* What is written for the signing input.
CommandValues(input) ==
  << <<input.schema>>, input.command_id, input.correlation_id, input.agent_id,
     input.host_id, <<input.action>>, Decimal[input.created_at], Decimal[input.expires_at],
     Decimal[input.pid], Decimal[input.ticks],
     IF input.boot = NoBoot THEN << >> ELSE <<input.boot.form>> \o Decimal[input.boot.n],
     input.path >>

CommandBytes(input) == Frame("panopticon-command-auth/1", CommandFields, CommandValues(input))

ArtifactBytes(m) ==
  Frame("panopticon-response-artifact-auth/2", FIELDS, [i \in DOMAIN FIELDS |-> m[FIELDS[i]]])

\* The bytes tell every field, whatever the texts contain: an envelope that has
\* the bytes of an authorized command has its signing input, and no manifest has
\* them (signing.py:31-33, 102-107, artifacts.py:51-58).
BytesDetermineFields ==
  \A e \in authorized : LET bytes == CommandBytes(SigningInput(e)) IN
    /\ \A w \in wire :
         /\ Signable(w.envelope)
         /\ CommandBytes(SigningInput(w.envelope)) = bytes
         => SigningInput(w.envelope) = SigningInput(e)
    /\ \A m \in Manifests : ArtifactBytes(m) # bytes
=============================================================================
