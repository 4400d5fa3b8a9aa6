SPECIFICATION Spec
CONSTANTS
  p = p  q = q  a = a  ab = ab  d = d  s1 = s1  s2 = s2
  Keys = {a, ab}  Docs = {d}  NoDoc = NoDoc
  Inside <- OnePath
  Cmds = {p, q}  Wishes = {1, 2}
  Plans <- ThePlans
  Sockets = {s1, s2}  NoSocket = NoSocket  NoJob = NoJob
  NotSeen = NotSeen  Board = Board
  Limit = 1  MaxSends = 3  MaxCrashes = 1
CHECK_DEADLOCK FALSE
SYMMETRY Symmetry
INVARIANTS TypeOK AtMostOnce TwiceIfUnknown AnswersAreTrue 
PROPERTIES ImplementsKeyValue
