SPECIFICATION Spec
CONSTANTS
  Conn = {c1, c2, c3}
  RoomId = {r1}
  NoConn = NoConn
  NoRoom = NoRoom
  MaxConnections = 3
  MAX_HANDSHAKE_FORWARDS = 1
INVARIANTS TypeOK CapacityExact RoomShape SlotsAreMembers NoOrphans ToldTheTruth
PROPERTIES NoSlotStolen WaitsEnd
