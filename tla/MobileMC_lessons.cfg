\* One class's lessons, played and downloaded in three ways.
SPECIFICATION FairSpec
CONSTANTS
  c1 = c1
  k1 = k1
  k2 = k2
  None = None
  Classes = {c1}
  Kes = {k1, k2}
  LessonsOf <- OneClass
  IndexOf <- Positions
  Usages <- MCUsages
  MaxRequests = 1
  MaxDownloads = 1
  MaxRestarts = 1
INVARIANT TypeOK
PROPERTIES KeepsOffline DoneListsWhole DialogEnds LessonArrives
CHECK_DEADLOCK FALSE
