SPECIFICATION Spec
CONSTANTS
  i1 = i1  i2 = i2  m1 = m1  m2 = m2  m3 = m3  e1 = e1  e2 = e2  t1 = t1  t2 = t2
  Items = {i1, i2}
  Parts = {"field"}
  Statuses = {"todo", "done"}  Initial = "todo"
  Words = {"w"}
  Texts = {t1, t2}
  Comments = {m1, m2, m3}
  Kinds = {"blocks"}
  Editors = {e1, e2}
  NoWord = "none"  Nobody = Nobody  NoReply = NoReply
  Unborn = Unborn  Gone = Gone  NoCopy = NoCopy
  MaxSeq = 5  MaxLost = 1  MaxVersion = 2
SYMMETRY Symmetry
CHECK_DEADLOCK FALSE
INVARIANTS TypeOK Threads LinkedOnce FeedTells
PROPERTIES NothingOverwritten
