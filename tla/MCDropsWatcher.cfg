\* Four drops, two restarts, a tolerance of one.
SPECIFICATION Spec
CONSTANTS
  OldDrops = 2
  Threshold = 1
  MaxDrops = 4
  MaxRestarts = 2
INVARIANTS
  TypeOK
  GrowthIsReal
  EveryDropAccounted
