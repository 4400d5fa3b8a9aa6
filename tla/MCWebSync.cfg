SPECIFICATION LiveSpec
CONSTANTS
  x = x  y = y  v = v  w = w
  Ids = {x, y}  Values = {v, w}  Absent = Absent
  Rooms = {"projects", "project"}  Source = "project"
  None = None  Resync = Resync
  PageSize = 1  MaxChanges = 2  MaxTroubles = 2
CHECK_DEADLOCK FALSE
INVARIANTS TypeOK Current
PROPERTIES ComesToRest
