\* A Reduce nobody keeps, on a source that answers from a timer's callback.
CONSTANTS
  Running = Running
  End = End
  NoValue = NoValue
  Modulus = 8
  Timings = {"timer"}
  InitSources <- MCSources
  InitSinks = {"Reduce"}
  KeepSink = FALSE
  MayThrow = FALSE
  MaxRetries = 0
  MaxRequests = 12
  MaxTimers = 5
  TimeMax = 9
  IntMax = 1
  MaxClock = 2
  Delays = {0, 1}
SPECIFICATION TimedFairSpec
INVARIANTS
  ReduceOutlivesStream
\* A stream that is over stops.
CHECK_DEADLOCK FALSE
