SPECIFICATION FairBoot
CONSTANTS
  a = a
  b = b
  t = t
  Units = {a, b, t}
  TargetUnits = {t}
  Configs <- Boots
  Levels <- Schedule
  Order <- Flat
  Pids = {1, 2}
  Burst = 2
  Requests = {"stop"}
  Exits = {"Success", "Failure"}
INVARIANTS
  TargetMeansReached
  NothingLeftRunning
PROPERTIES
  RequiresReady
  BothEnd
