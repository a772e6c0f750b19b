\* Lessons of four actions with two elements, two looks and two pages.
SPECIFICATION Spec
CONSTANTS
  p1 = p1
  p2 = p2
  e1 = e1
  e2 = e2
  a = a
  b = b
  None = None
  Uuids = {e1, e2}
  Looks = {a, b}
  PageIds = {p1, p2}
  MaxCopies = 1
  FirstTimes = {0}
  Usages <- MCUsages
  MaxActions = 4
  MaxTime = 3
INVARIANT TypeOK
INVARIANT PlayedAsRecorded
INVARIANT RerecordKeepsPast
INVARIANT SoundFollows
SYMMETRY Symmetry
CHECK_DEADLOCK FALSE
