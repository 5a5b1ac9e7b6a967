\* One interval timer.
CONSTANTS
  MaxTimers = 1
  TimeMax = 9
  IntMax = 2
  MaxClock = 4
  Types = {"REPEATED"}
  Delays = {0, 1, 2}
SPECIFICATION Spec
INVARIANTS
  IntervalWaitsForDelay
\* User code is not obliged to do anything.
CHECK_DEADLOCK FALSE
