\* The client Drain is: each next is called at most once, nothing throws.
CONSTANTS
  OneShot = TRUE
  MayThrow = FALSE
  MaxRequests = 24
SPECIFICATION FairSpec
INVARIANTS
  ExactlyOnce
PROPERTIES
  EveryNextIsServed
  ContractSpec
\* An idle looper waits for its client, which may never call next again.
CHECK_DEADLOCK FALSE
