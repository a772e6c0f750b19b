\* A client that loses its connection and connects again.
SPECIFICATION MCSpec
CONSTANTS
  AtServer = TRUE
  Bodies <- SmallBodies
  MaxFrames = 2
  MaxConnections = 2
  ClientConnections = 2
INVARIANT RetryDelivers
CHECK_DEADLOCK FALSE
