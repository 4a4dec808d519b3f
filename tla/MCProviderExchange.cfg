SPECIFICATION MCSpec
CONSTANTS
  Orders <- MCOrders
  OrderOf <- MCOrderOf
  Legacy = {}
  Grants = {"h1", "h2", "h3"}
  Callers = {"g1", "g2"}
  Results = {r1, r2}
  NoResult = NoResult
  MaxTime = 4
  Skew = 1
  MaxAge = 2
  Boots = {"b1", "b2"}
  Roles = {"authorizer", "source"}
  UserOf <- MCUserOf
  Policy <- MCPolicy
  Retired <- MCRetired
  Internal = {"inner"}
  Roots = {"root1", "root2"}
INVARIANTS
  LedgerIsSound
  AckLossStopsTheExchange
  CapabilitiesFollowPolicy
PROPERTIES
  ImplementsOneShotEffect
  SettledByTheCadence
  OperationQueueDrains
