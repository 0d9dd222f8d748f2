---------------------------- MODULE MCAutoTriage ----------------------------
(* Values for AutoTriage.  Two rules share an endpoint; one of them also      *)
(* collects twice for an alert.  The unit of bytes is half a reservation.   *)
EXTENDS AutoTriage

MCPath == [root |-> "linux", length |-> "legal", marks |-> {}]

MCJob(alert, rule, endpoint, action) ==
  [alert |-> alert, rule |-> rule, endpoint |-> endpoint, action |-> action,
   verified |-> TRUE, file |-> IF action = "COLLECT_FILE" THEN MCPath ELSE NoFile]

MCShared ==
  {MCJob("a1", "r1", "e1", "COLLECT_NETWORK_CONNECTIONS"),
   MCJob("a1", "r1", "e1", "COLLECT_FILE"),
   MCJob("a2", "r2", "e1", "COLLECT_PROCESS_INFO")}

MCBudget(actions, bytes, active, frequency) ==
  [max_actions_per_alert |-> actions, max_bytes_per_alert |-> bytes,
   endpoint_window |-> 2, max_actions_per_endpoint_window |-> frequency,
   max_bytes_per_endpoint_window |-> bytes, max_active_per_endpoint |-> active,
   workflow_ttl |-> 1]

MCEnabled(budget) == [DefaultPolicy(budget) EXCEPT !.enabled = TRUE]

\* A file listed by its path; one collection at a time.
MCListed ==
  [MCEnabled(MCBudget(1, 5, 1, 3)) EXCEPT !.entries[<<"COLLECT_FILE", "standard">>] =
     [decision |-> "auto_dispatch", files |-> {[platform |-> "linux", path |-> MCPath]}]]

\* Built without validation: automatic everywhere.
MCUnvalidated ==
  [MCEnabled(MCBudget(2, 5, 3, 3)) EXCEPT !.entries =
     [c \in CollectActions \X AssetClasses |-> Entry("auto_dispatch")]]

MCRevisions == {MCEnabled(MCBudget(2, 5, 3, 1)), MCListed, MCUnvalidated}

\* The validators accept what they should, and refuse the last one.
ASSUME ValidPolicy(MCListed) /\ ~ ValidPolicy(MCUnvalidated)
ASSUME ValidPolicy(DefaultPolicy(MCBudget(1, 3, 1, 1)))

MCReport ==
  [platform |-> "linux", recent |-> TRUE, mode |-> "enforce", channel |-> TRUE,
   gate |-> TRUE, artifacts |-> TRUE, implemented |-> CollectActions,
   allowed |-> CollectActions]
MCReports == {MCReport, [MCReport EXCEPT !.mode = "dry_run", !.allowed = {}]}
=============================================================================
