SPECIFICATION Spec
CONSTANTS
  u1 = u1
  u2 = u2
  c1 = c1
  c2 = c2
  c3 = c3
  User = {u1, u2}
  Conn = {c1, c2, c3}
  Owner <- MCOwner
  Friends <- MCFriends
  MaxIncidents = 1
SYMMETRY MCSymmetry
INVARIANTS OnlineIsConnected HeardIsTrue
CHECK_DEADLOCK FALSE
