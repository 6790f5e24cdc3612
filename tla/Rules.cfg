SPECIFICATION Spec
CONSTANTS
  Names = {1, 2, 3, 4}
  Target = 2
  MaxRefs = 3
  MaxLine = 5
  MaxName = 5
  MaxFile = 4
  MaxBytes = 12
  MaxWords = 4
  MaxText = 6
  MaxFrame = 9
  MaxOptions = 4
  MaxPath = 5
  MAX_PENDING_LINE = 3
  RING_MAX_BYTES = 8
  RING_MAX_LINE = 3
  LINE_OVERHEAD = 2
  RATE_WINDOW_MS = 3
  RATE_BURST = 2
  MaxStream = 6
  MaxPushes = 5
  MaxFlood = 7
  MaxRows = 3
  MaxArgs = 3
  MIN_LOG_FILE_MAX_BYTES = 3
  MAX_LOG_KEEP = 3
  LogUnits = {"a", "b"}
  Captured = 4
  Widest = 3
  LOG_QUEUE_MAX_LINES = 2
  LOG_QUEUE_MAX_BYTES = 3
  LOG_DRAIN_MAX_LINES = 2
  LOG_DRAIN_MAX_BYTES = 3
  LOG_MAX_BYTES = 2
  LogKeeps = {0, 1, 3}
  FlushPasses = 4
  WideSizes = {3}
  Failures = 1
  \* A short clock. Base 8 with MaxU64 = 20 has a jitter and makes both the factor 2^n and the
  \* sum saturate; base 0 has neither.
  Bases = {0, 8}
  Bursts = {0, 1, 2, 3}
  Intervals = {0, 3}
  MaxU64 = 20
  MaxTime = 5
  MaxFailures = 4
  \* One unit, as the queue keeps units apart, and a clock on which requests of one source
  \* can coincide.
  QueueUnits = {web}
  MaxClock = 2
  web = web
  store = store
  inst = inst
  UnitNames <- Sorted
  Instances = {inst}
  Order <- RequiredFirst
  Histories <- Changes
  MaxJobs = 1
  MaxStrays = 1
CHECK_DEADLOCK FALSE
INVARIANTS
  WindowBounded
  WindowOrdered
  VerdictIsExact
  HolderPrevails
  EffectsAreMeant
  DirectoryDecides
  ListenerIsHeld
  PlanIsRight
  TextIsRead
  ProtocolIsRight
  FstabIsRight
  LogsAreRight
  DropIsRight
PROPERTIES
  ImplementsBreaker
  OneDefinition
