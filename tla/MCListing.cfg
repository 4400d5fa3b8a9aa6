SPECIFICATION Spec
CONSTANTS
  Items = {1, 2, 3}
  Comments = {1, 2, 3}
  Titles = {1, 2}
  Ranks = {0, 4}
  Parts = {"title", "size"}
  Nobody = Nobody  NotHeld = NotHeld
  Category <- Task
  Initial <- Todo
  Patches <- Edits
  Found <- Board
  Queries <- Asked
  Limit = 1
  MaxWrites = 2  MaxSeq = 20  MaxLost = 0
CHECK_DEADLOCK FALSE
INVARIANTS TypeOK Steady HandledOnce GateAgrees
