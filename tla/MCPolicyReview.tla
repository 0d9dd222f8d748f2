--------------------------- MODULE MCPolicyReview ---------------------------
(* Values for PolicyReview: the rules of the default policies that overlap   *)
(* (DET-CRED-010 is matched by an id and by a prefix), one rule no policy    *)
(* names, levels and confidences on both sides of every gate.               *)
EXTENDS PolicyReview

MCRules == {"DET-PROC-012", "DET-CRED-010", "DET-OTHER-001"}

MCPrefixesOf ==
  [r \in MCRules |-> IF r = "DET-CRED-010" THEN {"DET-CRED-"} ELSE {}]

MCLevels   == {11, 12, 17}
MCPercents == {79, 80}
MCKeys     == {"process.command_line"}

\* Every rule, from the weakest alert: no confidence or NaN, no evidence; a
\* level that is too low or out of range; carrying the marker or not.
MCFirstAlerts ==
  [identified : {TRUE}, rule_id : MCRules, tactic : {"Execution"},
   host_id : {"LAB-1", "LAB-2"}, level : {11, 17}, source : {"rule", "model"},
   confidence : [kind : {"none", "nan"}, percent : {0}],
   evidence : {[kind |-> "none",    keys |-> {}, marker |-> FALSE],
               [kind |-> "mapping", keys |-> {}, marker |-> FALSE],
               [kind |-> "mapping", keys |-> {}, marker |-> TRUE],
               [kind |-> "other",   keys |-> {}, marker |-> FALSE]}]
  \cup
  [identified : {FALSE}, rule_id : {"DET-PROC-012"}, tactic : {"Execution"},
   host_id : {"LAB-1"}, level : {11}, source : {"rule"},
   confidence : [kind : {"none"}, percent : {0}],
   evidence : {[kind |-> "none", keys |-> {}, marker |-> FALSE]}]

MCCandidates ==
  {"KILL_PROCESS", "COLLECT_PROCESS_INFO", "ISOLATE_HOST", "RUN_SCRIPT", NoAction}

\* Policies by tactic and host scope, an auto policy for a disruptive action,
\* and an approval policy for a read-only one.
MCScoped(id, act, md) ==
  [DefaultPolicy(id, {}, {}, act, md, 12, NoMinimum, {}, 60)
     EXCEPT !.tactics = {"Execution"}, !.hosts = {"LAB-1"}]

MCAutoKill    == MCScoped("auto-kill", "KILL_PROCESS", "auto")
MCAskCollect  == MCScoped("ask-collect", "COLLECT_PROCESS_INFO", "approval")
MCWatchIsolate == MCScoped("watch-isolate", "ISOLATE_HOST", "record")

MCPolicySets ==
  {DEFAULT_POLICIES, <<>>, <<MCAutoKill, MCAskCollect>>}

MCExtraPolicies == {MCAutoKill, MCAskCollect, MCWatchIsolate}
=============================================================================
