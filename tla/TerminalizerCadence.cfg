SPECIFICATION MCSpec
CONSTANTS
  Orders <- MCOrders
  OrderOf <- MCOrderOf
  Legacy = {}
  Grants = {"h1"}
  Callers = {"g1"}
  Results = {r1}
  NoResult = NoResult
  MaxTime = 4
  Skew = 1
  MaxAge = 2
  Boots = {"b1"}
  Roles = {"authorizer", "source"}
  UserOf <- MCUserOf
  Policy <- MCPolicy
  Retired <- MCRetired
  Internal = {"inner"}
  Roots = {"root1", "root2"}
PROPERTY
  EventuallySettled
