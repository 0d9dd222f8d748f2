\* The same pid and start time after a reboot, without a proof of the boot.
CONSTANTS
  Max32 = 2
  Max64 = 2
  Pids = {1}
  MaxClock = 2
  MaxBoots = 2
  MaxFaults = 0
  Wishes <- MCAllWishes
SPECIFICATION Spec
INVARIANT PidReuseRejected
CHECK_DEADLOCK FALSE
