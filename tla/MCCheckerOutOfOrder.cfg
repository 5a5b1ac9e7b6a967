\* The report of callbacks out of order, to sinks that pass a null callback.
CONSTANTS
  Running = Running
  Ends = {End}
  NullCallbacks = TRUE
  MaxInvocations = 2
  MaxEvents = 4
SPECIFICATION Spec
INVARIANTS
  OutOfOrderIsTrue
\* A stream may fall silent, and MaxEvents ends it.
CHECK_DEADLOCK FALSE
