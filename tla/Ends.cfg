SPECIFICATION FairSpec
CONSTANTS
  a = a
  b = b
  Units = {a, b}
  Configs <- Ending
  Order <- Levels
  Pids = {1, 2}
  Burst = 1
  Requests = {"start", "restart", "reset-failed"}
  Exits = {"Success", "Failure"}
PROPERTIES
  StopEnds
  StartIsAnswered
