\* Gauges and histograms of one and two series, five blocks.
SPECIFICATION Spec
CONSTANTS
  Word = Word
  Braced = Braced
  Junk = Junk
  Keys <- MCKeys
  EndsInLe <- MCEndsInLe
  Boundaries <- MCBoundaries
  Exports <- MCExports
  Limits <- MCLimits
INVARIANTS
  TypeOK
  LastLineWins
  ZombieVerdictIsTheSum
  SlaVerdictIsTheLastSeries
