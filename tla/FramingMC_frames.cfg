\* Either end reads; the server has a second connection.
SPECIFICATION MCSpec
CONSTANTS
  AtServer = TRUE
  Bodies <- SmallBodies
  MaxFrames = 4
  MaxConnections = 2
  ClientConnections = 1
INVARIANTS TypeOK InFrame
PROPERTY ImplementsLink
CHECK_DEADLOCK FALSE
