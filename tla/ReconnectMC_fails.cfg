\* Three failures of the network and two applications.
SPECIFICATION FairSpec
CONSTANTS
  MaxFailures = 3
  MaxApplies = 2
INVARIANT TypeOK
INVARIANT AtMostDoubled
INVARIANT UserHasSocket
PROPERTY Rejoins
CHECK_DEADLOCK FALSE
