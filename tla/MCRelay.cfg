SPECIFICATION AppSpec
CONSTANTS
  c1 = c1
  c2 = c2
  c3 = c3
  i1 = i1
  i2 = i2
  u1 = u1
  Conn = {c1, c2, c3}
  ClientId = {i1, i2}
  User = {u1}
  NoConn = NoConn
  NoUser = NoUser
  SendCap = 2
  MaxFrames = 3
  TotalFrames = 2
INVARIANTS TypeOK RegistrySound NoMisdelivery NoTrace InOrder
PROPERTIES ImplementsLink TeardownEnds
CHECK_DEADLOCK FALSE
