\* Prompt sources, asynchronous ones, and some on timers; the sink may be dropped
\* on the way, onValue may throw.
CONSTANTS
  Running = Running
  End = End
  NoValue = NoValue
  Modulus = 8
  Timings = {"prompt", "late", "timer"}
  InitSources <- MCSources
  InitSinks = {"Drain", "Reduce", "AbortNow"}
  KeepSink = FALSE
  MayThrow = TRUE
  MaxRetries = 1
  MaxRequests = 12
  MaxTimers = 5
  TimeMax = 9
  IntMax = 1
  MaxClock = 2
  Delays = {0, 1}
SPECIFICATION TimedFairSpec
INVARIANTS
  TypeOK
  OneOutstandingRequest
  ValuesInOrder
  DoneMeansEverything
  OverWhenPullReturns
  PromptReduceIsAlive
  NeverStalls
  NoStreamLeftBehind
PROPERTIES
  QuietWhenOver
  ProtocolSpec
  StreamEnds
\* A stream that is over stops.
CHECK_DEADLOCK FALSE
