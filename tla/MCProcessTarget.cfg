\* Two boots of two process starts: the pid is used again within a boot and,
\* with the same start time, after the reboot.  Two damaged fields.
CONSTANTS
  Max32 = 2
  Max64 = 2
  Pids = {1}
  MaxClock = 2
  MaxBoots = 2
  MaxFaults = 2
  Wishes <- MCAllWishes
SPECIFICATION Spec
INVARIANTS
  WorldTypeOK
  OnlyTheAccusedDies
  ReusedPidIsSafe
  NoLegacyFallback
  CanonicalIsDispatchable
  GenuineIsTranslated
CHECK_DEADLOCK FALSE
