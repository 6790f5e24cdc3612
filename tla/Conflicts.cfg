SPECIFICATION Spec
CONSTANTS
  a = a
  b = b
  Units = {a, b}
  Configs <- PreparedFile
  Order <- Levels
  Pids = {1, 2, 3}
  Burst = 0
  Requests = {"start"}
  Exits = {"Success", "Failure"}
INVARIANT
  ConflictsExclude
