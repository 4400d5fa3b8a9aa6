SPECIFICATION Spec
CONSTANTS
  p1 = p1  p2 = p2  n1 = n1  n2 = n2  r1 = r1  r2 = r2  c1 = c1  c2 = c2
  starter = starter
  Projects = {p1, p2}  Names = {n1, n2}  Roots = {r1, r2}  Claimable = {r1, r2}  Existing = {r1, r2}
  Types = {starter}  Starter = starter
  Callers = {c1, c2}
  NoRecord = NoRecord  NoDir = NoDir  Unmarked = Unmarked  Idle = Idle
  Keep = Keep  Closed = Closed
  MaxCalls = 4  MaxCrashes = 1
CHECK_DEADLOCK FALSE
SYMMETRY Symmetry
INVARIANTS TypeOK Removable Kept NewsIsCurrent Restartable
PROPERTIES RecordGoesLast
