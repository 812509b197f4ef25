CONSTANTS
    Client = {c1}
    RealID = {u1}
    TestID = {t1}
    NoID = NoID
    Room = {r1}
    NoRoom = NoRoom
    MaxRoomUser = 1
    Input <- Logins
    Workers = 2
    MaxConn = 2
    MaxPackets = 2
SPECIFICATION Spec
SYMMETRY Symmetry
INVARIANT StalePacketInvalidated
CHECK_DEADLOCK FALSE
