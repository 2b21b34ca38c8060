\* Programs end and start again; both hosts transmit for ever.
SPECIFICATION BusySpec
CONSTANTS
  Client = Client
  Server = Server
  PipeCap = 1
  SockCap = 1
  Backlog = 1
  MaxRuns = 4
INVARIANTS
  TypeOK
  QueueInOrder
PROPERTIES
  HopelessForGood
  LosesOnlyItsRoom
  SpinsForever
  FirstIsServed
  HopelessJams
CHECK_DEADLOCK FALSE
