SPECIFICATION Spec
CONSTANTS
  a = a
  b = b
  Units = {a}
  Configs <- PostFile
  Order <- Levels
  Pids = {1, 2}
  Burst = 0
  Requests = {"start"}
  Exits = {"Success", "Failure"}
INVARIANT
  RestartIsComing
