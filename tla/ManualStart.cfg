SPECIFICATION Spec
CONSTANTS
  a = a
  b = b
  Units = {a}
  Configs <- PlainFile
  Order <- Levels
  Pids = {1, 2}
  Burst = 1
  Requests = {"start"}
  Exits = {"Success", "Failure"}
PROPERTY
  ManualStartProceeds
