\* Two events in flight, four events, a limit of two rows, IMMEDIATELY and LAZY.
CONSTANTS
  alice = alice
  bob = bob
  h1 = h1
  h2 = h2
  NoEvent = NoEvent
  MissingTag = "missing"
  Ev <- MCEvents
  Authors <- MCAuthors
  Handlers <- MCHandlers
  PriorityChoices <- MCPriorities
  Modes = {"IMMEDIATELY", "LAZY"}
  Paths = {"ingest", "publish"}
  MaxSize = 2
  Strategy = "FIFO"
  BatchSize = 1
  MaxArrivals = 3
  MaxMishaps = 1
SPECIFICATION FairSpec
INVARIANTS
  TypeOK
  NothingUnverified
  NewestKept
  SoftLimit
PROPERTIES
  DestroysWithReason
  NoDowngrade
  PendingDrained
CHECK_DEADLOCK FALSE
