\* Any client: calls next as often as it likes, from anywhere, and may throw.
CONSTANTS
  OneShot = FALSE
  MayThrow = TRUE
  MaxRequests = 8
SPECIFICATION Spec
INVARIANTS
  TypeOK
  StackBounded
  NoLostNext
  NoSpuriousIteration
PROPERTIES
  WedgedIsSilent
\* An idle looper waits for its client, which may never call next again.
CHECK_DEADLOCK FALSE
