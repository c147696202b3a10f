SPECIFICATION Spec
CONSTANTS
  u1 = u1
  u2 = u2
  User = {u1, u2}
  Invite = {i1}
  Token = {k1, k2}
  Blank = blank
  NoInvite = noinvite
  Request = {r1, r2}
  Trusted <- MCTrusted
  Lifetime = 1
  MaxTime = 2
  Limit = 1
INVARIANTS TypeOK AnnouncedIsSession
PROPERTIES EndedForGood InvitesSettle
CHECK_DEADLOCK FALSE
