SPECIFICATION CeremonySpec
CONSTANTS
  Targets = 1
  Duration = 2
  Lag = 1
  NotAfter = 8
  CleanupExpires = 11
  CleanupReserve = 2
  MaxLosses = 1
INVARIANT
  EveryCrashBoundaryResumes
CHECK_DEADLOCK FALSE
