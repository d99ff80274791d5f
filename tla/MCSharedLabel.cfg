\* Two invariant blocks with one label.
SPECIFICATION Spec
CONSTANTS
  a1 = a1
  i1 = i1
  w1 = w1
  w2 = w2
  w3 = w3
  leak = leak
  health = health
  typo = typo
  Agents <- MCAgents
  Injectors <- MCInjectors
  Schedules <- MCSchedules
  Watchers <- MCTwoWatchers
  Names <- MCNames
  Kinds <- MCKinds
  KindOf <- MCTwoKinds
  NameOf <- MCSharedLabel
  BadParams <- MCNoneBad
  Duration = 1
  MaxTime = 1
  MaxOps = 1
  MaxBreaches = 2
INVARIANT
  BreachesCountedOnce
