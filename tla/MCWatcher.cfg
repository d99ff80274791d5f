\* Every kind, two targets that change once, windows of two and six ticks, a client that gives up after two.
SPECIFICATION Spec
CONSTANTS
  Kinds <- AllKinds
  NumTargets = 2
  Windows = {2, 6}
  ClientTimeout = 2
  MaxLeaks = 2
  MaxChanges = 1
  MaxTime = 7
INVARIANTS
  TypeOK
  BlamesTheFaulty
  NoShutdownNoise
  FailsClosed
  RoundIsBounded
PROPERTY
  Exits
