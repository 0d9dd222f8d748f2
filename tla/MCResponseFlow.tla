--------------------------- MODULE MCResponseFlow ---------------------------
(* Values for ResponseFlow: one alert per execution mode the policies lead   *)
(* to, an approver, a responder and one analyst with the combined role.      *)
EXTENDS ResponseFlow

MCPrefixesOf == [x \in {"DET-PROC-012", "DET-PS-010", "DET-OTHER-001"} |-> {}]

MCAnalysts == {"ana", "apo", "rex"}
MCRoleOf == [ana |-> "analyst", apo |-> "approver", rex |-> "responder"]

MCAlert(rule, level, marker) ==
  [identified |-> TRUE, rule_id |-> rule, tactic |-> "none", host_id |-> "LAB-1",
   level |-> level, source |-> "rule",
   confidence |-> [kind |-> "number", percent |-> 95],
   evidence |-> [kind |-> "mapping", keys |-> {"process.command_line"},
                 marker |-> marker]]

MCCase(alert, action) == [alert |-> alert, action |-> action]

\* A strong alert (approval or, in simulate mode, a preview), one about the
\* executor itself, one below its level gate, one that is malformed; a
\* collection a policy answers, and actions no policy names.
MCKill    == MCCase(MCAlert("DET-PROC-012", 13, FALSE), "KILL_PROCESS")
MCLoop    == MCCase(MCAlert("DET-PROC-012", 13, TRUE), "KILL_PROCESS")
MCWeak    == MCCase(MCAlert("DET-PROC-012", 11, FALSE), "KILL_PROCESS")
MCBad     == MCCase(MCAlert("DET-PROC-012", 17, FALSE), "KILL_PROCESS")
MCCollect == MCCase(MCAlert("DET-PS-010", 5, FALSE), "COLLECT_PROCESS_INFO")
MCOthers  == {MCCase(MCAlert("DET-OTHER-001", 5, FALSE), x) :
                x \in {"COLLECT_NETWORK_CONNECTIONS", "QUARANTINE_FILE",
                       "RUN_SCRIPT", NoAction}}

MCCases == {MCKill, MCLoop, MCWeak, MCBad, MCCollect} \cup MCOthers
MCFewCases == {MCKill, MCCollect}

\* A policy that asks for approval of a read-only collection, and one that
\* asks for the automatic kill it cannot have.
MCAskCollect ==
  DefaultPolicy("ask-collect", {"DET-PS-010"}, {}, "COLLECT_PROCESS_INFO",
                "approval", 0, NoMinimum, {}, 60)
MCAutoKill ==
  DefaultPolicy("auto-kill", {"DET-PROC-012"}, {}, "KILL_PROCESS",
                "auto", 12, 80, {}, 300)

MCCustomPolicies == <<MCAskCollect, MCAutoKill>>
MCManual == {"ISOLATE_HOST"}

MCOneAnalyst == {"ana"}
MCOneRole == [ana |-> "analyst"]
=============================================================================
