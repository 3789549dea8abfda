\* Two slots, reused; kill, stop and continue sent to a process and to nobody.
CONSTANTS
  MAX_PROCS = 2
  MaxPid = 3
  MaxAt = 0
  MaxExec = 0
  FramesAtBoot = 9
  Sigs = {9, 18, 19}
  MaxCalls = 3
SPECIFICATION SigSpec
INVARIANTS   BoundedWait
PROPERTIES PicksRunnable
