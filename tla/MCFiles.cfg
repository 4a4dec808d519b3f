SPECIFICATION MCSpec
CONSTANTS
  p1 = p1
  p2 = p2
  p3 = p3
  Process <- Processes
  Want <- Wanted
  None = None
  Attempts = 8
  MaxFaults = 2
  Workers = {p, q}
  MaxStarts = 3
  MaxHour = 1
  Expiry = 0
  Targets = 1
  Duration = 2
  Lag = 1
  NotAfter = 8
  CleanupExpires = 12
  CleanupReserve = 2
  MaxLosses = 2
SYMMETRY MCSymmetry
CHECK_DEADLOCK FALSE
INVARIANTS
  SuccessIsDurable
  SentOnce
  ReceiptIsBacked
  CeremonyIsOneShot
  TerminalReceiptIsTrue
PROPERTIES
  RefusalIsJustified
