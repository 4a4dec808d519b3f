SPECIFICATION MCSpec
CONSTANTS
  Processes = {p1, p2}
  N = 2
  Exposure <- MCExposure
  Cap = 3
  Expires = 1
  MaxTime = 2
  MaxFailures = 1
  NoRef = NoRef
  MaxRuns = 3
  MaxUnanswered = 2
INVARIANTS
  LedgerIsSafe
  ReservedWithinCap
  AccessRevokedWhenReported
  ClusterIsOneShot
PROPERTIES
  FinalizedIsStable
SYMMETRY ProcessesAlike
