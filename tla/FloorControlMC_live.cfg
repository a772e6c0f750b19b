\* A teacher who answers questions and a student, either of whom may vanish.
SPECIFICATION AnsweringSpec
CONSTANTS
  t1 = t1
  t2 = t2
  s1 = s1
  s2 = s2
  s3 = s3
  u = u
  NoUser = NoUser
  NoClient = NoClient
  Clients = {t1, s1}
  Teachers = {t1}
  Students = {s1}
  AllTeachers = FALSE
  Users = {t1, s1}
  UserId <- OwnIds
  MaxInFlight = 3
INVARIANT TypeOK
PROPERTY ConflictsEnd
PROPERTY GoneForgotten
PROPERTY ApplicationHeard
CHECK_DEADLOCK FALSE
