----------------------------- MODULE MCSigning -----------------------------
(* Envelopes for Signing: three commands, and what they may turn into on    *)
(* their way.                                                              *)
EXTENDS Framing

\* The longer ones look like a part of a frame.
MCCharacters ==
  {"a1", "a2", "c1", "c2", "f1", "f2", "h1", "h2", "r1", "r2", "1", "too long",
   "\n", "correlation_id"}

MCTime(second) == [second |-> second, fraction |-> FALSE, notation |-> "Z"]
MCTimes ==
  {MCTime(1), MCTime(2), MCTime(-1), [MCTime(1) EXCEPT !.fraction = TRUE],
   [MCTime(1) EXCEPT !.notation = "offset"], [MCTime(1) EXCEPT !.notation = "naive"]}

MCNumbered == [EmptyTarget EXCEPT !.keys = {"pid", "start_time_ticks"},
                 !.pid = Value("int", 1), !.ticks = Value("int", 1)]
MCBooted(ticks) == [MCNumbered EXCEPT !.keys = @ \cup {"boot_id"},
                                      !.ticks = ticks, !.boot = Boot("digest", 1)]
MCFile == [EmptyTarget EXCEPT !.keys = {"path"}, !.path = "legal"]

\* Another type, another start time, a pid of zero, no target, a boot of the
\* other form, a path beyond its length.
MCTargets ==
  {MCNumbered, [MCNumbered EXCEPT !.ticks = Value("text", 1)],
   [MCNumbered EXCEPT !.ticks = Value("int", 2)],
   [MCNumbered EXCEPT !.pid = Value("int", 0)], [MCNumbered EXCEPT !.pid = Value("bool", 1)],
   MCBooted(Value("text", 1)), MCBooted(Value("int", 1)),
   [MCBooted(Value("text", 1)) EXCEPT !.boot = Boot("uuid", 1)],
   EmptyTarget, MCFile, [MCFile EXCEPT !.path = "long"]}

MCEnvelope ==
  [closed |-> TRUE, schema |-> "1", command_id |-> <<"c1">>, correlation_id |-> <<"r1">>,
   agent_id |-> <<"a1">>, host_id |-> <<"h1">>, action |-> "KILL_PROCESS",
   created_at |-> MCTime(1), expires_at |-> MCTime(1), target |-> MCNumbered,
   file |-> << >>]

\* Every target with every action and schema, and one other field changed.
MCBodies ==
  {[MCEnvelope EXCEPT !.schema = s, !.action = a, !.target = t,
                      !.file = IF t.path = "absent" THEN << >> ELSE <<"f1">>] :
     s \in {"1", "2"}, a \in {"KILL_PROCESS", "COLLECT_FILE", "ISOLATE_HOST"}, t \in MCTargets}

MCChanged(e) ==
  {e, [e EXCEPT !.closed = FALSE], [e EXCEPT !.command_id = <<"c2">>],
   [e EXCEPT !.correlation_id = <<"r2">>], [e EXCEPT !.agent_id = <<"a2">>],
   [e EXCEPT !.host_id = <<"h2">>], [e EXCEPT !.host_id = <<"too long">>]}
  \cup {[e EXCEPT !.expires_at = t] : t \in MCTimes}
  \cup {[e EXCEPT !.created_at = t] : t \in MCTimes}
  \cup (IF e.file = << >> THEN {} ELSE {[e EXCEPT !.file = <<"f2">>]})

\* Two identifiers, next to each other in the frame, that look like a part of it.
MCTexts == UNION {[1..n -> {"\n", "correlation_id"}] : n \in 1..3}
MCForged == {t \in MCTexts \X MCTexts : Len(t[1]) + Len(t[2]) = 4}

MCForgedEnvelopes ==
  {[MCEnvelope EXCEPT !.action = "ISOLATE_HOST", !.target = EmptyTarget,
                      !.command_id = t[1], !.correlation_id = t[2]] : t \in MCForged}

MCManifest(command_id, correlation_id) ==
  [f \in ToSet(FIELDS) |-> CASE f = "command_id" -> command_id
                             [] f = "correlation_id" -> correlation_id
                             [] OTHER -> <<"1">>]
MCManifests == {MCManifest(<<"c1">>, <<"r1">>), MCManifest(<<"\n">>, <<"\n", "\n", "\n">>)}

MCLegalHosts == {<<"h1">>, <<"h2">>}

MCEnvelopes ==
  MCForgedEnvelopes \cup MCBodies \cup UNION {MCChanged(e) : e \in {b \in MCBodies :
                         ValidCommand(b.schema, b.action, b.target, TRUE)}}
=============================================================================
