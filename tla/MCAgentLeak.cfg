\* One workload with one resource, as in the header of agent.go.
SPECIFICATION Spec
CONSTANTS
  Workloads <- MCOneKind
  Supported <- MCSupported
  Second = 2
  MaxTime = 6
  MaxDispatched = 8
INVARIANT
  LeavesSimilarCount
