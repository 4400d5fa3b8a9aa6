SPECIFICATION Spec
CONSTANTS
  k1 = k1  k2 = k2  a = a
  Keys = {k1, k2}
  Vals = {a}
  Absent = Absent  NoOp = NoOp  Garbage = Garbage
  MaxEvents = 2
  MaxSeq = 3
CHECK_DEADLOCK FALSE
INVARIANTS OnlyAGap
