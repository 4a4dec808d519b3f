SPECIFICATION MCSpec
CONSTANTS
  None = None
  Clients = {c1, p1, x1, x2}
  Callers = {c1}
  Publishers = {p1}
  Workers = {x1, x2}
  Bundles <- MCBundles
  MaxTime = 2
  MaxFaults = 2
  MaxStarts = 3
  IntentExpiry = 2
  DispatchTime = 2
  Tools = {t1, t2}
  Operations = {"a", "b"}
  MaxBreaks = 2
  Nil = Nil
  Retrievers = {x1, x2}
  Retrievals = {"r1", "r2"}
  Rows <- MCRows
  Keys <- MCKeys
  Agency = "own"
  Ttls = {1}
  FreshTtl = 3
  FreshCount = 2
  Limit = 1
  Skew = 0
  MaxClock = 3
  MaxMishaps = 1
  Actions <- MCActions
  Ops = {x1, x2}
  Requests <- MCRequests
  RunOf <- MCRunOf
  FreshLease = 3
  MaxLease = 2
  MaxFence = 2
SYMMETRY Symmetry
INVARIANTS
  RecoveredIsAudited
  HandoffIsBacked
  NoSilentExposure
  AppliedWhileInactive
  SelectionsAreSnapshots
  SpendIsBacked
  SourcesWereCurrent
CHECK_DEADLOCK FALSE
