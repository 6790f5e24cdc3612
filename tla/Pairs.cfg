SPECIFICATION Spec
CONSTANTS
  a = a
  b = b
  Units = {a, b}
  Configs <- Pairs
  Order <- Levels
  Pids = {1, 2}
  Burst = 0
  Requests = {"start", "stop", "reset-failed"}
  Exits = {"Success", "Failure"}
INVARIANTS
  NeverTwice
PROPERTIES
  FailureSticks
