SPECIFICATION MCSpec
CONSTANTS
  Runs <- MCRuns
  Approvals <- MCApprovals
  Job <- MCJob
  ApprovalOf <- MCApprovalOf
  None = None
  Cap = 4
  MaxFaults = 2
  Reserve = 1
  Age = 1
  MaxTime = 2
  QueryRuns <- MCQueryRuns
  CommandOf <- QueryCommand
  NoRun = NoRun
  MaxQueryFaults = 2
CHECK_DEADLOCK FALSE
INVARIANTS
  ReceiptsAreTrue
  OneTokenPerEffect
  BudgetIsKept
  QueryReceiptsAreTrue
