SPECIFICATION Spec
CONSTANTS
  Call = {c1, c2, c3, c4}
  First = first
  ResetCode = {r1}
  VerifyCode = {v1}
  LockAt = 2
  BanAt = 3
SYMMETRY Interchangeable
INVARIANT CountStartsAgain
CHECK_DEADLOCK FALSE
