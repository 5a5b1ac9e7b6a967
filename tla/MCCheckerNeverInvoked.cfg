\* Terminate's report of callbacks that were never invoked.
CONSTANTS
  Running = Running
  Ends = {End}
  NullCallbacks = FALSE
  MaxInvocations = 2
  MaxEvents = 4
SPECIFICATION Spec
INVARIANTS
  NeverInvokedIsTrue
\* A stream may fall silent, and MaxEvents ends it.
CHECK_DEADLOCK FALSE
