SPECIFICATION MCSpec
CONSTANTS
  a = a
  b = b
  a2 = a2
  Pair = {a, b}
  Client = {a, b, a2}
  Owner <- MCOwner
  Calls = 3
  MaxCancels = 1
  u1 = u1
  u2 = u2
  User = {u1, u2}
  Community = {c1, c2, c3}
  Request = {r1, r2}
  Granted = {"owner", "admin", "user"}
  MaxCommunities <- MCPlans
  MaxCalls = 4
SYMMETRY Interchangeable
INVARIANTS Mutual CrossedRequests OwnerKept PlanBound
CHECK_DEADLOCK FALSE
