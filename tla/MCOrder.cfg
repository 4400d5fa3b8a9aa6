CONSTANTS
  Base = 4
  NoRank = NoRank
  i1 = i1
  i2 = i2
  i3 = i3
  Items = {i1, i2, i3}
  Nobody = Nobody
  MaxLen = 2
SYMMETRY Symmetry
SPECIFICATION OrderSpec
INVARIANT OrderTypeOK
PROPERTIES CreateGoesLast RoomyDropLands
