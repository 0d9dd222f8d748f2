--------------------------- MODULE MCProcessTarget ---------------------------
(* Values for ProcessTarget: one width for pids and one for ticks that the   *)
(* bounded world stays below, and every recommendation string there is, one  *)
(* the engine does not translate included.                                  *)
EXTENDS ProcessTarget

MCAllWishes ==
  ProcessWishes \cup {"COLLECT_NETWORK_CONNECTIONS", "QUARANTINE_FILE",
                        "ISOLATE_HOST", "BLOCK_FIREWALL_IP"}
=============================================================================
