SPECIFICATION Spec
CONSTANTS
  a = a
  b = b
  Units = {a}
  Configs <- Services
  Order <- Levels
  Pids = {1, 2, 3}
  Burst = 2
  Requests = {"start", "stop", "restart", "reset-failed"}
  Exits = {"Success", "Failure", "Signalled"}
INVARIANTS
  TypeOK
  ProcessesAreKnown
  WaitsAreBounded
  DeadlinesBelong
PROPERTIES
  StopSticks
  FollowsTable
