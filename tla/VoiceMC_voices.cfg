\* Two users who come, go and come back while they are called.
SPECIFICATION FairSpec
CONSTANTS
  a1 = a1
  a2 = a2
  b = b
  Clients = {a1, a2, b}
  Users = {a1, b}
  UserId <- MCUserId
  MaxCandidates = 1
  MaxLeaving = 2
INVARIANT TypeOK
INVARIANT OneCaller
PROPERTY AllConnected
CHECK_DEADLOCK FALSE
