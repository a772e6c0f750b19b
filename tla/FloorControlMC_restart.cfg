\* The teacher's session on two connections, and two students.
SPECIFICATION Spec
CONSTANTS
  t1 = t1
  t2 = t2
  s1 = s1
  s2 = s2
  s3 = s3
  u = u
  NoUser = NoUser
  NoClient = NoClient
  Clients = {t1, t2, s1, s2}
  Teachers = {t1, t2}
  Students = {s1, s2}
  AllTeachers = FALSE
  Users = {t1, s1, s2}
  UserId <- RestartIds
  MaxInFlight = 1
INVARIANT NoDeletedUser
INVARIANT OneStudentControls
INVARIANT ConflictInFlight
INVARIANT SettledHolder
SYMMETRY StudentSymmetry
CHECK_DEADLOCK FALSE
