\* A label whose key ends in le, before the le of the buckets.
SPECIFICATION Spec
CONSTANTS
  Word = Word
  Braced = Braced
  Junk = Junk
  Keys <- MCKeys
  EndsInLe <- MCEndsInLe
  Boundaries <- MCBoundaries
  Exports <- MCExports
  Limits <- MCLimits
INVARIANT
  OtherLabelsIgnored
