\* Two injectors, six kinds of block, every moment of cancellation.
SPECIFICATION Spec
CONSTANTS
  i1 = i1
  i2 = i2
  Injectors <- MCInjectors
  Schedules <- MCSchedules
  Duration = 2
  MaxTime = 3
INVARIANTS
  TypeOK
  NoSilentFault
  HealedByExit
  WindowKept
PROPERTIES
  JournalIsFinal
  Drains
  ImplementsFaultWindow
