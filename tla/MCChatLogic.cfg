CONSTANTS
    Client = {c1, c2}
    RealID = {u1, u2}
    TestID = {t1}
    NoID = NoID
    Room = {r1}
    NoRoom = NoRoom
    MaxRoomUser = 2
    Input <- AllRequests
    Workers = 2
    MaxConn = 2
    MaxPackets = 2
SPECIFICATION SpecUsers
SYMMETRY Symmetry
INVARIANT NoDuplicateLogin
INVARIANT CountWithinDictionary
INVARIANT ChatReachesRoom
INVARIANT OwnsDictionaryEntry
INVARIANT AnsweredOnce
INVARIANT TaskAfterDisconnect
INVARIANT RoomStateListed
CHECK_DEADLOCK FALSE
