SPECIFICATION FairDaemon
CONSTANTS
  Clients = {1, 2}
  Visits <- Requests
  CONTROL_QUEUE = 1
  Threads = {1, 2}
  PipeSize = 2
  ReadSize = 2
  Children = 1
  Sets = 1
  TicksPerSecond = 3
  Timeouts = {1, 2}
  Late = 1
  Feeds = 1
CHECK_DEADLOCK FALSE
INVARIANTS
  ControlIsTrue
  PowerIsSafe
  NoStrayWrite
PROPERTIES
  DaemonResponds
