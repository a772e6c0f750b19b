\* A teacher and two students, or three of a demo class; one may come back.
SPECIFICATION MCSpec
CONSTANTS
  t1 = t1
  t2 = t2
  s1 = s1
  s2 = s2
  s3 = s3
  u = u
  NoUser = NoUser
  NoClient = NoClient
  Clients = {t1, s1, s2, s3}
  Teachers = {t1}
  Students = {s1, s2, s3}
  AllTeachers = FALSE
  Users = {t1, s2, u}
  UserId <- ComeBackIds
  MaxInFlight = 2
SYMMETRY ComeBackSymmetry
INVARIANT ConflictInFlight
INVARIANT SettledHolder
INVARIANT ReplyFirst
INVARIANT ControllerHasTools
CHECK_DEADLOCK FALSE
