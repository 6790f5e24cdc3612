SPECIFICATION FairEvents
CONSTANTS
  a = a
  b = b
  Services = {a, b}
  Datagrams <- Sent
  Queue = 1
  Buffer = 1
  Instances = 1
  Backlog = 1
  Reports = 1
  Refresh = 1
  Cooldown = 2
  IdleTimeout = 2
  Restarts = 1
  Operator = 1
  Consoles <- SomeConsoles
  Typed <- SomeInput
  Today = 5
  Gettys = 2
  Errands <- SomeErrands
  Swaps = 1
  IoErrors = 2
CHECK_DEADLOCK FALSE
INVARIANTS
  LoginIsSound
  TreesAreSafe
PROPERTIES
  EventsSettle
  IdleMeansQuiet
