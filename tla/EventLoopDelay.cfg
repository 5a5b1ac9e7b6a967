\* One one-time timer, created when the loop has not looked at the clock for
\* some time.
CONSTANTS
  MaxTimers = 1
  TimeMax = 9
  IntMax = 2
  MaxClock = 4
  Types = {"ONE_TIME"}
  Delays = {0, 1, 2}
SPECIFICATION Spec
INVARIANTS
  WaitsForDelay
\* User code is not obliged to do anything.
CHECK_DEADLOCK FALSE
