SPECIFICATION MCSpec
CONSTANTS
  Keys = {"k1", "k2"}
  Key <- EvKey
  Envelopes = {"s1", "s2", "s3", "s4", "s5"}
  Env <- EvEnv
  EvidenceIds = {"e1", "e2", "e3"}
  Agencies = {"a", "b"}
  Instants = {0, 2, 3, 4}
  ObservationSkew = 1
  Clients = {c1, c2}
  Actions = {"a1", "a2"}
  Action <- MCAction
  Resources = {"q1"}
  Runs = {"run1"}
  Proposals = {"p1", "p2", "p3"}
  Prop <- MCProp
  Ops = {"o1", "o2", "o3"}
  Requests = {"r1", "r2", "r3", "r4"}
  Req <- MCReq
  CallsInScope <- AllCallsInScope
  MaxInt8 = 2
  MaxTime = 2
  NoOp = NoOp
  NoReq = NoReq
  NoRun = NoRun
  Scenarios = {"effect", "authorize", "cold", "evidence"}
INVARIANTS
  AuditAgreesWithSpend
  ContradictionsNeverBothAdmissible
PROPERTIES
  ImplementsFencedAuthority
  VerdictsStick
SYMMETRY CallersAlike
