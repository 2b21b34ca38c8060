\* Three usable slots, and data for each of them and one more.
SPECIFICATION Spec
CONSTANTS
  MaxConn = 4
  MaxInt = 9
  Data = {d1, d2, d3, d4}
  NULL = NULL
INVARIANTS
  TypeOK
  SlotsSpent
  DataAccounted
PROPERTIES
  ImplementsMap
CHECK_DEADLOCK FALSE
