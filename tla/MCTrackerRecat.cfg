SPECIFICATION Spec
CONSTANTS
  i1 = i1  i2 = i2  i3 = i3
  task = task  bug = bug  todo = todo  done = done  size = size  v = v
  Zero = Zero  NotHeld = NotHeld  Keep = Keep  Clear = Clear
  Nobody = Nobody  NoItem = NoItem  NoType = NoType
  Items = {i1, i2}
  Types = {task}
  Statuses = {todo, done}
  Fields = {}
  Values = {v}
  Catalog <- RecatCatalog
  MaxVersion = 3
SYMMETRY Symmetry
INVARIANTS SettledBelow
