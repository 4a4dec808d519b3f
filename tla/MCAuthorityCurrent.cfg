SPECIFICATION MCSpec
CONSTANTS
  Keys = {"k1"}
  Key <- MCKey
  Envelopes = {"s1"}
  Env <- MCEnv
  EvidenceIds = {"e1"}
  Agencies = {"a"}
  Instants = {0}
  ObservationSkew = 0
  Clients = {c1, c2}
  Actions = {"a1", "a2"}
  Action <- MCAction
  Resources = {"q1"}
  Runs = {"run1"}
  Proposals = {"p1", "p2", "p3"}
  Prop <- MCProp
  Ops = {"o1", "o2", "o3"}
  Requests = {"r1", "r2", "r3", "r4"}
  Req <- MCReq
  CallsInScope <- AllCallsInScope
  MaxInt8 = 2
  MaxTime = 2
  NoOp = NoOp
  NoReq = NoReq
  NoRun = NoRun
  Scenarios = {"current"}
INVARIANTS
  CurrentAtDatabaseNow
