\* Schedules whose recover_at is not after at_offset.
SPECIFICATION Spec
CONSTANTS
  i1 = i1
  i2 = i2
  Injectors <- MCInjectors
  Schedules <- MCInvertedSchedules
  Duration = 2
  MaxTime = 3
INVARIANT
  RevertedIfRecoverAtSet
