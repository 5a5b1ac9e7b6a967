\* Two timers, one-time and intervals, with delays of 0 and 2 ms, longer than the
\* longest poll, and one that overflows the time.
CONSTANTS
  MaxTimers = 2
  TimeMax = 9
  IntMax = 1
  MaxClock = 2
  Types = {"ONE_TIME", "REPEATED"}
  Delays = {0, 2, 9}
SPECIFICATION FairSpec
INVARIANTS
  TypeOK
  NoUseAfterFree
  NotBeforeItIsDue
  ShorterIsFirst
PROPERTIES
  QuietAfterStop
  DestroyAfterRunSucceeds
  ContractSpec
  TimersAreCalled
  RunReturns
\* User code is not obliged to do anything.
CHECK_DEADLOCK FALSE
