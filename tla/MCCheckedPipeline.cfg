\* Sinks and sources watched by a checker, answers at once or later, and a source
\* that may invoke a callback twice.
CONSTANTS
  Running = Running
  End = End
  NoValue = NoValue
  Modulus = 8
  Timings = {"late"}
  InitSources <- MCSources
  InitSinks = {"Drain", "Reduce", "AbortNow"}
  KeepSink = TRUE
  MayThrow = FALSE
  MaxRetries = 0
  MaxRequests = 8
  MaxFaults = 1
SPECIFICATION CheckedFairSpec
INVARIANTS
  VerdictIsRight
  EagerShieldsSink
PROPERTIES
  VerdictComes
\* A stream that is over stops.
CHECK_DEADLOCK FALSE
