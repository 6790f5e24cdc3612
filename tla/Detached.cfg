SPECIFICATION FairHost
CONSTANTS
  Setups <- Spawns
  Kernels <- SomeKernels
  Limits <- SomeLimits
  Runs = 2
  Kills = 2
CHECK_DEADLOCK FALSE
INVARIANT DetachedRuns
