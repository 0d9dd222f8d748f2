---------------------------- MODULE MCForensics ----------------------------
(* Requests and policies for Forensics, some of them changed after they were *)
(* validated; two hosts answer under one agent identity.                    *)
EXTENDS Forensics

MCProcess == [pid |-> Value("int", 1), ticks |-> Value("int", 2), boot |-> NoBoot]
MCPath    == [platform |-> "linux", path |-> [root |-> "linux", length |-> "legal", marks |-> {}]]

MCRequest(action, process, file) == [action |-> action, process |-> process, file |-> file]

MCValid ==
  {MCRequest("COLLECT_NETWORK_CONNECTIONS", NoProcess, NoPath),
   MCRequest("COLLECT_PROCESS_INFO", MCProcess, NoPath),
   MCRequest("COLLECT_PROCESS_INFO", [MCProcess EXCEPT !.boot = Boot("digest", 1)], NoPath),
   MCRequest("COLLECT_FILE", NoProcess, MCPath)}

\* Another action, a start time beyond its width, a path that got too long.
MCChanged ==
  {MCRequest("KILL_PROCESS", MCProcess, NoPath),
   MCRequest("COLLECT_PROCESS_INFO",
     [MCProcess EXCEPT !.boot = Boot("digest", 1), !.ticks = Value("int", 3)], NoPath),
   MCRequest("COLLECT_FILE", NoProcess, [MCPath EXCEPT !.path.length = "long"])}

MCRequests == MCValid \cup MCChanged

ASSUME \A r \in MCRequests : ValidRequest(r) <=> r \in MCValid

MCPolicy(enabled, allowed, require) ==
  [enabled |-> enabled, allowed |-> allowed, require_approval |-> require, unique |-> TRUE]

\* The default, enabled; two that ask for less approval; two changed ones.
MCPolicies ==
  {MCPolicy(FALSE, CollectActions, CollectActions),
   MCPolicy(TRUE, CollectActions, {}),
   MCPolicy(TRUE, CollectActions \ {"COLLECT_FILE"}, {"COLLECT_PROCESS_INFO"}),
   MCPolicy(TRUE, CollectActions \cup {"KILL_PROCESS"}, {}),
   [MCPolicy(TRUE, CollectActions, {}) EXCEPT !.unique = FALSE]}
=============================================================================
