\* Two slides presented on two pages.
SPECIFICATION Spec
CONSTANTS
  p1 = p1
  p2 = p2
  Actions <- MCActions
  PageIds = {p1, p2}
  Sizes = {1, 2}
  Usages <- MCUsages
  Uuids <- MCUuids
  Looks <- MCLooks
  MaxCopies = 3
INVARIANT TypeOK
INVARIANT LessonShowsSlide
PROPERTY PageMendsPeer
CHECK_DEADLOCK FALSE
