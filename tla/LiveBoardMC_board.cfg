\* A teacher and a student with two elements, two looks and one new page.
CONSTANTS
  t = t
  s1 = s1
  s2 = s2
  nobody = nobody
  noclient = noclient
  Clients = {t, s1}
  Teachers = {t}
  Students = {s1}
  AllTeachers = FALSE
  Users = {t, s1}
  UserId <- MCUserId
  NoUser = nobody
  NoClient = noclient
  MaxInFlight = 2
  NewPages = {1}
  Usages <- MCUsages
  Uuids = {1, 2}
  Looks = {1, 2}
  MaxCopies = 2
SPECIFICATION Spec
INVARIANT TypeOK
INVARIANT BoardsAgree
INVARIANT SameElements
INVARIANT NoneMultiplied
PROPERTY ImplementsFloor
CHECK_DEADLOCK FALSE
