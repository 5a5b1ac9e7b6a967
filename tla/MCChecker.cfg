\* Sinks that pass a callback, or a null one when they do not care for the answer.
CONSTANTS
  Running = Running
  Ends = {End, Error}
  NullCallbacks = TRUE
  MaxInvocations = 2
  MaxEvents = 5
SPECIFICATION Spec
SYMMETRY EndSymmetry
INVARIANTS
  TypeOK
  CleanMeansConforming
  ConformingMeansClean
  LatestIsAllAnswered
  FirstEndSticks
PROPERTIES
  TerminateVerdict
  CleanStepsFollowProtocol
  NullCallbackIsReported
\* A stream may fall silent, and MaxEvents ends it.
CHECK_DEADLOCK FALSE
