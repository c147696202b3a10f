SPECIFICATION Spec
CONSTANTS
  r1 = r1
  r2 = r2
  user = user
  Request <- Requests
  MaxLogins = 2
  MaxTokens = 3
  MaxRestarts = 1
  MaxFaults = 1
SYMMETRY Screens
CHECK_DEADLOCK FALSE
INVARIANTS TypeOK NobodyForgotten Recoverable LeftForGood
