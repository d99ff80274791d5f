\* One agent over six workloads, two ticks to the second.
SPECIFICATION Spec
CONSTANTS
  Workloads <- MCWorkloads
  Supported <- MCSupported
  Second = 2
  MaxTime = 9
  MaxDispatched = 10
INVARIANTS
  TypeOK
  CountersAgree
  LeakAccounting
  VerbsPinnedToPositions
  BurstIsBounded
PROPERTIES
  BurstCycle
  Drains
