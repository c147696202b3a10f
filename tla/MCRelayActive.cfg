SPECIFICATION Spec
CONSTANTS
  c1 = c1
  c2 = c2
  c3 = c3
  i1 = i1
  i2 = i2
  u1 = u1
  Conn = {c1, c2}
  ClientId = {i1, i2}
  User = {u1}
  NoConn = NoConn
  NoUser = NoUser
  SendCap = 1
  MaxFrames = 1
  TotalFrames = 2
INVARIANTS ActiveIsRegistered
CHECK_DEADLOCK FALSE
