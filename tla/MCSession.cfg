\* Two invocations on one report path, at the same time or one after the other.
SPECIFICATION Spec
CONSTANTS
  Invocations = {p1, p2}
  Earlier = earlier
  None = none
  Flags <- MCFlags
INVARIANTS
  TypeOK
  ReportNeverTorn
  ChurnIsDeliberate
PROPERTIES
  ExitCodeTellsReport
  Ends
