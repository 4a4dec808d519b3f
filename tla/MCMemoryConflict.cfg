SPECIFICATION MCSpec
CONSTANTS
  Records = {"e1", "e2", "e3", "e4"}
  Rec <- MCRec
  Incidents = {"i1"}
  Agencies = {"a", "b"}
  Agents = {"g1", "g2"}
  Resources = {"q1", "q2"}
  LeaseKeys = {"k1"}
  LeaseKey <- MCLeaseKey
  Ops = {"o1", "o2", "o3"}
  Requests = {"r1", "r2", "r3"}
  Req <- MCReq
  EvidenceSets <- MCEvidenceSets
  MaxTime = 3
  MaxCheckpoints = 2
  NoOp = NoOp
  Scenarios = {"conflict"}
INVARIANTS
  ContradictionsNeverAuthorize
