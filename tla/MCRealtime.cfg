SPECIFICATION LiveSpec
CONSTANTS
  c1 = c1  r1 = r1  r2 = r2
  Conns = {c1}  Rooms = {r1, r2}
  RoomLists <- TwoRooms
  Backlog = 2  Outbound = 2
  Resync = Resync  NoJob = NoJob  NoConn = NoConn
  MaxSeq = 5
CHECK_DEADLOCK FALSE
INVARIANTS TypeOK NoSilentLoss NeverUsedOnceClosed QueueShape
PROPERTIES Heard
