\* Is an empty hole reused?
SPECIFICATION Spec
CONSTANTS
  MaxConn = 4
  MaxInt = 9
  Data = {d1, d2}
  NULL = NULL
INVARIANTS
  HolesAreReused
CHECK_DEADLOCK FALSE
