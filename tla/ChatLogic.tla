----------------------------- MODULE ChatLogic -----------------------------
(***************************************************************************)
(* The server behind the network layer (PacketManager, UserManager, User,  *)
(* RoomManager, Room and the login round trip through RedisManager).       *)
(*                                                                         *)
(* IOCP workers put received packets into a user's ring, queue a task for  *)
(* the user, and queue system packets when a connection opens or closes.   *)
(* One logic thread swaps both queues out, handles the system packets,     *)
(* then the tasks (each drains its user's ring), then the login results    *)
(* that the Redis thread has produced, and starts again.                   *)
(*                                                                         *)
(* A user object belongs to a session index and outlives connections; its  *)
(* generation token is meant to tell the users of an index apart.  The     *)
(* connection numbers carried by packets, tasks and results below are      *)
(* history: the program does not have them and no guard reads them.        *)
(* Packets are whole here; PacketFraming is about their bytes.             *)
(***************************************************************************)
EXTENDS Integers, Sequences, FiniteSets

CONSTANTS Client,       \* session indices
          RealID,       \* user ids checked by Redis
          TestID,       \* ids that start with "test_user"
          NoID,         \* the empty user id
          Room,         \* valid room numbers
          NoRoom,       \* a room number out of range (-1)
          MaxRoomUser,  \* maxRoomUserCount
          Input,        \* the requests clients send
          Workers,      \* IOCP worker threads (MAX_WORKERTHREAD)
          MaxConn,      \* bound: connections accepted
          MaxPackets    \* bound: packets received

ASSUME ClientAssumption == IsFiniteSet(Client)
ASSUME IdAssumption ==
    /\ IsFiniteSet(RealID \cup TestID)
    /\ RealID \cap TestID = {} /\ NoID \notin RealID \cup TestID
ASSUME RoomAssumption == NoRoom \notin Room /\ MaxRoomUser \in Nat \ {0}
ASSUME WorkersAssumption == Workers \in Nat \ {0}
ASSUME BoundAssumption == MaxConn \in Nat /\ MaxPackets \in Nat

ID == RealID \cup TestID
None == "none"
ASSUME NoneAssumption == None \notin Client

MaxUserCnt == Cardinality(Client)    \* UserManager::Init(maxClient)

Conn == 1..MaxConn

Request ==
    [type : {"LOGIN"}, arg : ID] \cup [type : {"ROOM_ENTER"}, arg : Room \cup {NoRoom}]
    \cup [type : {"ROOM_LEAVE", "ROOM_CHAT", "OTHER"}, arg : {None}]

ASSUME InputAssumption == Input \subseteq Request

VARIABLES
    \* User, one per index
    mUserID, mCurDomainState, roomIndex, mGeneration,
    mPacketDataBuffer,                        \* whole packets in the ring
    \* UserManager, Room
    mUserIDDictionary, mCurrentUserCnt,
    mUserList,                                \* room -> how often it lists a user
    mCurrentUserCount,
    \* PacketManager's double-buffered queues, RedisManager's queues
    mSystemWriteBuffer, mSystemReadBuffer, mWriteBuffer, mReadBuffer,
    mRequestTask, mResponseTask,
    \* the logic thread: where it is and the task it works on
    pc, task,
    \* network side: open connection of an index (0: none), connections so far,
    \* packets so far, receives that workers are busy with
    conn, opened, received, recv,
    \* history: requests not yet answered, connections whose end was handled,
    \* what the last step sent
    owed, ended, out

userVars  == <<mUserID, mCurDomainState, roomIndex>>
roomVars  == <<mUserList, mCurrentUserCount>>
dictVars  == <<mUserIDDictionary, mCurrentUserCnt>>
dataVars  == <<mWriteBuffer, mReadBuffer>>
sysVars   == <<mSystemWriteBuffer, mSystemReadBuffer>>
redisVars == <<mRequestTask, mResponseTask>>
netVars   == <<conn, opened, received, recv>>
vars == <<userVars, mGeneration, mPacketDataBuffer, dictVars, roomVars, sysVars,
          dataVars, redisVars, pc, task, netVars, owed, ended, out>>

SysPacket == [type : {"CONNECT", "DISCONNECT"}, client : Client, conn : Conn]
Packet    == [req : Request, conn : Conn]
Task      == [client : Client, gen : Nat, conn : Conn]
RedisReq  == [client : Client, id : RealID, conn : Conn]
RedisRes  == [client : Client, id : RealID, conn : Conn, ok : BOOLEAN]
Recv      == [client : Client, conn : Conn, stored : BOOLEAN]

\* what a step sends: the response to a request, of which kind and result, the
\* connection that asked, the users a room notice goes to, the MySQL record
Silent == [to |-> None, kind |-> None, result |-> None, conn |-> 0,
           notice |-> [c \in Client |-> 0], event |-> << >>]

Reply(i, k, kind, result) ==
    [Silent EXCEPT !.to = i, !.conn = k, !.kind = kind, !.result = result]

NoTask == [client |-> None, gen |-> 0, conn |-> 0]

Init ==
    /\ mUserID = [i \in Client |-> NoID]
    /\ mCurDomainState = [i \in Client |-> "NONE"]
    /\ roomIndex = [i \in Client |-> NoRoom]
    /\ mGeneration = [i \in Client |-> 0]
    /\ mPacketDataBuffer = [i \in Client |-> << >>]
    /\ mUserIDDictionary = [id \in ID |-> None]
    /\ mCurrentUserCnt = 0
    /\ mUserList = [r \in Room |-> [i \in Client |-> 0]]
    /\ mCurrentUserCount = [r \in Room |-> 0]
    /\ mSystemWriteBuffer = << >> /\ mSystemReadBuffer = << >>
    /\ mWriteBuffer = << >> /\ mReadBuffer = << >>
    /\ mRequestTask = << >> /\ mResponseTask = << >>
    /\ pc = "wait" /\ task = NoTask
    /\ conn = [i \in Client |-> 0] /\ opened = 0 /\ received = 0 /\ recv = {}
    /\ owed = [i \in Client |-> 0] /\ ended = {} /\ out = Silent

-----------------------------------------------------------------------------
\* IOCP workers and clients

\* the logic thread keeps PacketManager::mLock while it erases queued tasks; the
\* other critical sections of mLock are single steps
mLockFree == pc # "erasing"

\* ChatServer::OnConnect for a new connection of a free index
OnConnect(i) ==
    /\ conn[i] = 0 /\ opened < MaxConn /\ mLockFree
    /\ opened' = opened + 1
    /\ conn' = [conn EXCEPT ![i] = opened']
    /\ mSystemWriteBuffer' = Append(mSystemWriteBuffer,
            [type |-> "CONNECT", client |-> i, conn |-> opened'])
    /\ out' = Silent
    /\ UNCHANGED <<userVars, mGeneration, mPacketDataBuffer, dictVars, roomVars,
                   mSystemReadBuffer, dataVars, redisVars, pc, task, received,
                   recv, owed, ended>>

\* ChatServer::OnClose; the index goes back to the free list afterwards
OnClose(i) ==
    /\ conn[i] # 0 /\ mLockFree
    /\ conn' = [conn EXCEPT ![i] = 0]
    /\ mSystemWriteBuffer' = Append(mSystemWriteBuffer,
            [type |-> "DISCONNECT", client |-> i, conn |-> conn[i]])
    /\ out' = Silent
    /\ UNCHANGED <<userVars, mGeneration, mPacketDataBuffer, dictVars, roomVars,
                   mSystemReadBuffer, dataVars, redisVars, pc, task, opened,
                   received, recv, owed, ended>>

\* a worker picks up a completed receive; a connection has one at a time, and
\* another worker may close the connection before this one is done with it
RecvCompletes(i) ==
    /\ conn[i] # 0 /\ received < MaxPackets
    /\ Cardinality(recv) < Workers
    /\ \A m \in recv : m.conn # conn[i]
    /\ recv' = recv \cup {[client |-> i, conn |-> conn[i], stored |-> FALSE]}
    /\ received' = received + 1
    /\ out' = Silent
    /\ UNCHANGED <<userVars, mGeneration, mPacketDataBuffer, dictVars, roomVars,
                   sysVars, dataVars, redisVars, pc, task, conn, opened, owed, ended>>

\* User::SetPacketData of the request received, under the user's ring mutex
SetPacketData(m, req) ==
    /\ ~m.stored
    /\ mPacketDataBuffer' = [mPacketDataBuffer EXCEPT ![m.client] =
                                Append(@, [req |-> req, conn |-> m.conn])]
    /\ recv' = (recv \ {m}) \cup {[m EXCEPT !.stored = TRUE]}
    /\ out' = Silent
    /\ UNCHANGED <<userVars, mGeneration, dictVars, roomVars, sysVars, dataVars,
                   redisVars, pc, task, conn, opened, received, owed, ended>>

\* EnqueuePacketData, under mLock, stamps the task with the user's generation
EnqueuePacketData(m) ==
    /\ m.stored /\ mLockFree
    /\ mWriteBuffer' = Append(mWriteBuffer,
            [client |-> m.client, gen |-> mGeneration[m.client], conn |-> m.conn])
    /\ recv' = recv \ {m}
    /\ out' = Silent
    /\ UNCHANGED <<userVars, mGeneration, mPacketDataBuffer, dictVars, roomVars,
                   sysVars, mReadBuffer, redisVars, pc, task, conn, opened,
                   received, owed, ended>>

-----------------------------------------------------------------------------
\* The Redis thread checks the password of one request and posts the result

RedisTaskProcess(ok) ==
    /\ mRequestTask # << >>
    /\ LET t == Head(mRequestTask) IN
       mResponseTask' = Append(mResponseTask,
            [client |-> t.client, id |-> t.id, conn |-> t.conn, ok |-> ok])
    /\ mRequestTask' = Tail(mRequestTask)
    /\ out' = Silent
    /\ UNCHANGED <<userVars, mGeneration, mPacketDataBuffer, dictVars, roomVars,
                   sysVars, dataVars, pc, task, netVars, owed, ended>>

-----------------------------------------------------------------------------
\* Handlers.  Each gives the user, dictionary, room and Redis state it leaves
\* and what it sends; i is the client index, k the connection that asked.

\* UserManager::Adduser of an id that is not registered
RegisterUser(id, i) ==
    /\ mUserIDDictionary' = [mUserIDDictionary EXCEPT ![id] = i]
    /\ mUserID' = [mUserID EXCEPT ![i] = id]
    /\ mCurDomainState' = [mCurDomainState EXCEPT ![i] = "LOGIN"]

\* "test_user" ids skip Redis; the result of Adduser is not looked at
ProcessTestLogin(i, id, k) ==
    /\ id \in TestID
    /\ mUserID' = [mUserID EXCEPT ![i] = id]
    /\ mCurDomainState' = [mCurDomainState EXCEPT ![i] = "LOGIN"]
    /\ mUserIDDictionary' = [mUserIDDictionary EXCEPT ![id] = IF @ = None THEN i ELSE @]
    /\ out' = Reply(i, k, "LOGIN", "NONE")
    /\ UNCHANGED <<roomIndex, mCurrentUserCnt, roomVars, redisVars>>

\* mutant: no return after the refusal, the request goes to Redis as well
LoginAlreadyFallsThrough(i, id, k) ==
    /\ id \in RealID
    /\ mUserIDDictionary[id] # None
    /\ mRequestTask' = Append(mRequestTask, [client |-> i, id |-> id, conn |-> k])
    /\ out' = Reply(i, k, "LOGIN", "LOGIN_USER_ALREADY")
    /\ UNCHANGED <<userVars, dictVars, roomVars, mResponseTask>>

LoginAlready(i, id, k) ==
    /\ id \in RealID
    /\ mUserIDDictionary[id] # None
    /\ out' = Reply(i, k, "LOGIN", "LOGIN_USER_ALREADY")
    /\ UNCHANGED <<userVars, dictVars, roomVars, redisVars>>

LoginAllUsed(i, id, k) ==
    /\ id \in RealID
    /\ mUserIDDictionary[id] = None
    /\ mCurrentUserCnt >= MaxUserCnt
    /\ out' = Reply(i, k, "LOGIN", "LOGIN_USER_USED_ALL_OBJ")
    /\ UNCHANGED <<userVars, dictVars, roomVars, redisVars>>

LoginToRedis(i, id, k) ==
    /\ id \in RealID
    /\ mUserIDDictionary[id] = None
    /\ mCurrentUserCnt < MaxUserCnt
    /\ mRequestTask' = Append(mRequestTask, [client |-> i, id |-> id, conn |-> k])
    /\ out' = [Silent EXCEPT !.conn = k]
    /\ UNCHANGED <<userVars, dictVars, roomVars, mResponseTask>>

ProcessLogin(i, id, k) ==
    \/ ProcessTestLogin(i, id, k)
    \/ LoginAlready(i, id, k)
    \/ LoginAllUsed(i, id, k)
    \/ LoginToRedis(i, id, k)

\* Room::EnterUser
EnterUser(r, i) ==
    /\ mUserList' = [mUserList EXCEPT ![r][i] = @ + 1]
    /\ mCurrentUserCount' = [mCurrentUserCount EXCEPT ![r] = @ + 1]
    /\ roomIndex' = [roomIndex EXCEPT ![i] = r]
    /\ mCurDomainState' = [mCurDomainState EXCEPT ![i] = "ROOM"]

EnterRefused(i, r) ==
    CASE mCurDomainState[i] # "LOGIN" -> "ENTER_ROOM_INVALID_USER_STATUS"
      [] r \notin Room                -> "ROOM_INVALID_INDEX"
      [] mCurrentUserCount[r] >= MaxRoomUser -> "ENTER_ROOM_FULL_USER"

MayEnter(i, r) ==
    /\ mCurDomainState[i] = "LOGIN"
    /\ r \in Room
    /\ mCurrentUserCount[r] < MaxRoomUser

ProcessEnterRoom(i, r, k) ==
    /\ \/ /\ MayEnter(i, r)
          /\ EnterUser(r, i)
          /\ out' = [Reply(i, k, "ROOM_ENTER", "NONE") EXCEPT
                        !.notice = mUserList'[r],
                        !.event = <<"ENTER", mUserID[i], r>>]
       \/ /\ ~MayEnter(i, r)
          /\ out' = Reply(i, k, "ROOM_ENTER", EnterRefused(i, r))
          /\ UNCHANGED <<roomVars, roomIndex, mCurDomainState>>
    /\ UNCHANGED <<mUserID, dictVars, redisVars>>

\* Room::LeaveUser: list::remove takes out every entry of the user, the count
\* goes down by one whatever was removed
RemoveFromRoom(r, i) ==
    /\ mUserList' = [mUserList EXCEPT ![r][i] = 0]
    /\ mCurrentUserCount' = [mCurrentUserCount EXCEPT ![r] = @ - 1]

\* mutant: the domain state is not set back to LOGIN
LeaveKeepsState(i, k) ==
    LET r == roomIndex[i] IN
    /\ \/ r \in Room /\ RemoveFromRoom(r, i)
       \/ r \notin Room /\ UNCHANGED roomVars
    /\ out' = Reply(i, k, "ROOM_LEAVE", IF r \in Room THEN "NONE" ELSE "ROOM_INVALID_INDEX")
    /\ UNCHANGED <<userVars, dictVars, redisVars>>

ProcessLeaveRoom(i, k) ==
    LET r == roomIndex[i] IN
    /\ \/ /\ r \in Room
          /\ mCurDomainState' = [mCurDomainState EXCEPT ![i] = "LOGIN"]
          /\ RemoveFromRoom(r, i)
          /\ out' = [Reply(i, k, "ROOM_LEAVE", "NONE") EXCEPT
                        !.notice = mUserList'[r],
                        !.event = <<"LEAVE", mUserID[i], r>>]
       \/ /\ r \notin Room
          /\ out' = Reply(i, k, "ROOM_LEAVE", "ROOM_INVALID_INDEX")
          /\ UNCHANGED <<roomVars, mCurDomainState>>
    /\ UNCHANGED <<mUserID, roomIndex, dictVars, redisVars>>

\* mutant: SendToAllUser called with skip_ set for the sender
ChatSkipsSender(i, k) ==
    /\ out' = IF mCurDomainState[i] = "ROOM"
              THEN [Reply(i, k, "ROOM_CHAT", "NONE") EXCEPT
                      !.notice = [mUserList[roomIndex[i]] EXCEPT ![i] = 0]]
              ELSE Reply(i, k, "ROOM_CHAT", "ENTER_ROOM_INVALID_USER_STATUS")
    /\ UNCHANGED <<userVars, dictVars, roomVars, redisVars>>

ProcessRoomChatMessage(i, k) ==
    LET r == roomIndex[i] IN
    /\ out' = CASE mCurDomainState[i] # "ROOM" ->
                     Reply(i, k, "ROOM_CHAT", "ENTER_ROOM_INVALID_USER_STATUS")
                [] mCurDomainState[i] = "ROOM" /\ r \notin Room ->
                     Reply(i, k, "ROOM_CHAT", "CHAT_ROOM_INVALID_ROOM_NUMBER")
                [] OTHER ->
                     [Reply(i, k, "ROOM_CHAT", "NONE") EXCEPT
                        !.notice = mUserList[r],
                        !.event = <<"CHAT", mUserID[i], r>>]
    /\ UNCHANGED <<userVars, dictVars, roomVars, redisVars>>

\* SYS_PONG, a login request of the wrong size, an id without a handler
ProcessOther(k) ==
    /\ out' = [Silent EXCEPT !.conn = k]
    /\ UNCHANGED <<userVars, dictVars, roomVars, redisVars>>

\* mutant: Adduser overwrites an entry instead of inserting a new one
DBResultOverwrites(res) ==
    /\ \/ /\ res.ok
          /\ RegisterUser(res.id, res.client)
          /\ mCurrentUserCnt' = mCurrentUserCnt
                + (IF mUserIDDictionary[res.id] = None THEN 1 ELSE 0)
       \/ /\ ~res.ok
          /\ UNCHANGED <<mUserID, mCurDomainState, dictVars>>
    /\ out' = Reply(res.client, res.conn, "LOGIN",
                    IF res.ok THEN "NONE" ELSE "LOGIN_USER_INVALID_PW")
    /\ UNCHANGED <<roomIndex, roomVars>>

\* mutant: the user is counted before the result of Adduser is known
DBResultCountsFirst(res) ==
    /\ \/ /\ mUserIDDictionary[res.id] = None
          /\ RegisterUser(res.id, res.client)
       \/ /\ mUserIDDictionary[res.id] # None
          /\ UNCHANGED <<mUserID, mCurDomainState, mUserIDDictionary>>
    /\ mCurrentUserCnt' = mCurrentUserCnt + 1
    /\ out' = Reply(res.client, res.conn, "LOGIN", "NONE")
    /\ UNCHANGED <<roomIndex, roomVars>>

ProcessLoginDBResult(res) ==
    LET i == res.client
        added == res.ok /\ mUserIDDictionary[res.id] = None
    IN
    /\ \/ /\ added
          /\ RegisterUser(res.id, i)
          /\ mCurrentUserCnt' = mCurrentUserCnt + 1
          /\ out' = [Reply(i, res.conn, "LOGIN", "NONE") EXCEPT
                        !.event = <<"LOGIN", res.id, NoRoom>>]
       \/ /\ ~added
          /\ out' = Reply(i, res.conn, "LOGIN",
                          IF res.ok THEN "LOGIN_USER_USED_ALL_OBJ"
                                    ELSE "LOGIN_USER_INVALID_PW")
          /\ UNCHANGED <<mUserID, mCurDomainState, dictVars>>
    /\ UNCHANGED <<roomIndex, roomVars>>

-----------------------------------------------------------------------------
\* The logic thread, PacketManager::ProcessPacket

\* wait for work, then swap both pairs of buffers under mLock
SwapBuffers ==
    /\ pc = "wait"
    /\ mSystemWriteBuffer # << >> \/ mWriteBuffer # << >> \/ mResponseTask # << >>
    /\ mSystemReadBuffer' = mSystemWriteBuffer /\ mSystemWriteBuffer' = << >>
    /\ mReadBuffer' = mWriteBuffer /\ mWriteBuffer' = << >>
    /\ pc' = "system"
    /\ out' = Silent
    /\ UNCHANGED <<userVars, mGeneration, mPacketDataBuffer, dictVars, roomVars,
                   redisVars, task, netVars, owed, ended>>

\* the handler of a CONNECT packet changes nothing (its Clear is commented out)
ProcessUserConnect ==
    /\ pc = "system" /\ mSystemReadBuffer # << >>
    /\ Head(mSystemReadBuffer).type = "CONNECT"
    /\ mSystemReadBuffer' = Tail(mSystemReadBuffer)
    /\ out' = Silent
    /\ UNCHANGED <<userVars, mGeneration, mPacketDataBuffer, dictVars, roomVars,
                   mSystemWriteBuffer, dataVars, redisVars, pc, task, netVars,
                   owed, ended>>

\* ClearConnectionInfo takes mLock ...
ProcessUserDisconnect ==
    /\ pc = "system" /\ mSystemReadBuffer # << >>
    /\ Head(mSystemReadBuffer).type = "DISCONNECT"
    /\ pc' = "erasing"
    /\ out' = Silent
    /\ UNCHANGED <<userVars, mGeneration, mPacketDataBuffer, dictVars, roomVars,
                   sysVars, dataVars, redisVars, task, netVars, owed, ended>>

\* the queued tasks of the index that is being disconnected
OwnTasks == {n \in DOMAIN mWriteBuffer :
                mWriteBuffer[n].client = Head(mSystemReadBuffer).client}

\* ... drops the index's queued tasks one by one ...
EraseTask(n) ==
    /\ pc = "erasing"
    /\ n \in OwnTasks /\ \A m \in OwnTasks : n <= m
    /\ mWriteBuffer' = [m \in 1..(Len(mWriteBuffer) - 1) |->
                            mWriteBuffer[IF m < n THEN m ELSE m + 1]]
    /\ out' = Silent
    /\ UNCHANGED <<userVars, mGeneration, mPacketDataBuffer, dictVars, roomVars,
                   sysVars, mReadBuffer, redisVars, pc, task, netVars, owed, ended>>

\* ... and releases mLock
EraseDone ==
    /\ pc = "erasing" /\ OwnTasks = {}
    /\ pc' = "erased"
    /\ out' = Silent
    /\ UNCHANGED <<userVars, mGeneration, mPacketDataBuffer, dictVars, roomVars,
                   sysVars, dataVars, redisVars, task, netVars, owed, ended>>

\* mutant: User::Clear without the reset of the user id
ClearKeepsUserID ==
    /\ pc = "erased"
    /\ LET i == Head(mSystemReadBuffer).client IN
       /\ mUserIDDictionary' = [id \in ID |-> IF id = mUserID[i] THEN None
                                              ELSE mUserIDDictionary[id]]
       /\ mCurDomainState' = [mCurDomainState EXCEPT ![i] = "NONE"]
       /\ mPacketDataBuffer' = [mPacketDataBuffer EXCEPT ![i] = << >>]
    /\ pc' = "cleared"
    /\ out' = Silent
    /\ UNCHANGED <<mUserID, roomIndex, roomVars, mGeneration, mCurrentUserCnt, sysVars,
                   dataVars, redisVars, task, netVars, owed, ended>>

\* second part: leave the room and, for a user that is logged in, DeleteUserInfo
\* up to User::Clear, which empties the ring under the ring mutex
ClearUser ==
    /\ pc = "erased"
    /\ LET i == Head(mSystemReadBuffer).client IN
       /\ IF mCurDomainState[i] = "ROOM" /\ roomIndex[i] \in Room
          THEN RemoveFromRoom(roomIndex[i], i)
          ELSE UNCHANGED roomVars
       /\ \/ /\ mCurDomainState[i] # "NONE"
             /\ mUserIDDictionary' = [id \in ID |-> IF id = mUserID[i] THEN None
                                                    ELSE mUserIDDictionary[id]]
             /\ mUserID' = [mUserID EXCEPT ![i] = NoID]
             /\ mCurDomainState' = [mCurDomainState EXCEPT ![i] = "NONE"]
             /\ mPacketDataBuffer' = [mPacketDataBuffer EXCEPT ![i] = << >>]
             /\ pc' = "cleared"
             /\ UNCHANGED <<mSystemReadBuffer, ended>>
          \/ /\ mCurDomainState[i] = "NONE"
             /\ mSystemReadBuffer' = Tail(mSystemReadBuffer)
             /\ ended' = ended \cup {Head(mSystemReadBuffer).conn}
             /\ pc' = "system"
             /\ UNCHANGED <<mUserIDDictionary, mUserID, mCurDomainState, mPacketDataBuffer>>
    /\ out' = Silent
    /\ UNCHANGED <<roomIndex, mGeneration, mCurrentUserCnt, mSystemWriteBuffer,
                   dataVars, redisVars, task, netVars, owed>>

\* the rest of DeleteUserInfo: IncrementGeneration, DecreaseUserCnt
DeleteUserInfo ==
    /\ pc = "cleared"
    /\ mGeneration' = [mGeneration EXCEPT ![Head(mSystemReadBuffer).client] = @ + 1]
    /\ mCurrentUserCnt' = IF mCurrentUserCnt > 0 THEN mCurrentUserCnt - 1
                                                 ELSE mCurrentUserCnt
    /\ mSystemReadBuffer' = Tail(mSystemReadBuffer)
    /\ ended' = ended \cup {Head(mSystemReadBuffer).conn}
    /\ pc' = "system"
    /\ out' = Silent
    /\ UNCHANGED <<userVars, mPacketDataBuffer, mUserIDDictionary, roomVars,
                   mSystemWriteBuffer, dataVars, redisVars, task, netVars, owed>>

\* mutant: a round goes on to the tasks before all system packets are handled
NextStageEarly ==
    /\ \/ pc = "system" /\ pc' = "tasks"
       \/ pc = "tasks" /\ mReadBuffer = << >> /\ pc' = "redis"
       \/ pc = "redis" /\ mResponseTask = << >> /\ pc' = "wait"
    /\ out' = Silent
    /\ UNCHANGED <<userVars, mGeneration, mPacketDataBuffer, dictVars, roomVars,
                   sysVars, dataVars, redisVars, task, netVars, owed, ended>>

\* from the system packets to the tasks, from the tasks to the login results,
\* and back to waiting
NextStage ==
    /\ \/ pc = "system" /\ mSystemReadBuffer = << >> /\ pc' = "tasks"
       \/ pc = "tasks" /\ mReadBuffer = << >> /\ pc' = "redis"
       \/ pc = "redis" /\ mResponseTask = << >> /\ pc' = "wait"
    /\ out' = Silent
    /\ UNCHANGED <<userVars, mGeneration, mPacketDataBuffer, dictVars, roomVars,
                   sysVars, dataVars, redisVars, task, netVars, owed, ended>>

\* the next task: skipped if the user's generation has moved on
TakeTask ==
    /\ pc = "tasks" /\ mReadBuffer # << >>
    /\ LET t == Head(mReadBuffer) IN
       \/ t.gen # mGeneration[t.client] /\ UNCHANGED <<pc, task>>
       \/ t.gen = mGeneration[t.client] /\ pc' = "drain" /\ task' = t
    /\ mReadBuffer' = Tail(mReadBuffer)
    /\ out' = Silent
    /\ UNCHANGED <<userVars, mGeneration, mPacketDataBuffer, dictVars, roomVars,
                   sysVars, mWriteBuffer, redisVars, netVars, owed, ended>>

\* the GetPacket loop of a task: dispatch the user's packets until none is left.
\* Clients send the ids of client packets, or one without a handler; the ids of
\* the server's own packets (connected, disconnected, result of a login), whose
\* handlers are in the same table, are no input here
ProcessRecvPacket ==
    /\ pc = "drain"
    /\ mPacketDataBuffer[task.client] # << >>
    /\ LET i == task.client
           p == Head(mPacketDataBuffer[i])
       IN
       /\ mPacketDataBuffer' = [mPacketDataBuffer EXCEPT ![i] = Tail(@)]
       /\ \/ p.req.type = "LOGIN"      /\ ProcessLogin(i, p.req.arg, p.conn)
          \/ p.req.type = "ROOM_ENTER" /\ ProcessEnterRoom(i, p.req.arg, p.conn)
          \/ p.req.type = "ROOM_LEAVE" /\ ProcessLeaveRoom(i, p.conn)
          \/ p.req.type = "ROOM_CHAT"  /\ ProcessRoomChatMessage(i, p.conn)
          \/ p.req.type = "OTHER"      /\ ProcessOther(p.conn)
       /\ owed' = [owed EXCEPT ![i] = @ + (IF p.req.type = "OTHER" THEN 0 ELSE 1)
                                        - (IF out'.to = i THEN 1 ELSE 0)]
    /\ UNCHANGED <<mGeneration, sysVars, dataVars, pc, task, netVars, ended>>

FinishTask ==
    /\ pc = "drain"
    /\ mPacketDataBuffer[task.client] = << >>
    /\ pc' = "tasks" /\ task' = NoTask
    /\ out' = Silent
    /\ UNCHANGED <<userVars, mGeneration, mPacketDataBuffer, dictVars, roomVars,
                   sysVars, dataVars, redisVars, netVars, owed, ended>>

TakeResponseTask ==
    /\ pc = "redis" /\ mResponseTask # << >>
    /\ mResponseTask' = Tail(mResponseTask)
    /\ ProcessLoginDBResult(Head(mResponseTask))
    /\ owed' = [owed EXCEPT ![Head(mResponseTask).client] =
                    @ - (IF out'.to = Head(mResponseTask).client THEN 1 ELSE 0)]
    /\ UNCHANGED <<mGeneration, mPacketDataBuffer, sysVars, dataVars, mRequestTask,
                   pc, task, netVars, ended>>

Network ==
    \/ \E i \in Client : OnConnect(i) \/ OnClose(i) \/ RecvCompletes(i)
    \/ \E m \in recv, req \in Input : SetPacketData(m, req)
    \/ \E m \in recv : EnqueuePacketData(m)

Logic ==
    \/ SwapBuffers
    \/ ProcessUserConnect
    \/ ProcessUserDisconnect
    \/ \E n \in DOMAIN mWriteBuffer : EraseTask(n)
    \/ EraseDone
    \/ ClearUser
    \/ DeleteUserInfo
    \/ NextStage
    \/ TakeTask
    \/ ProcessRecvPacket
    \/ FinishTask
    \/ TakeResponseTask

Next == Network \/ Logic \/ \E ok \in BOOLEAN : RedisTaskProcess(ok)

Spec == Init /\ [][Next]_vars

-----------------------------------------------------------------------------
UsersTypeOK ==
    /\ mUserID \in [Client -> ID \cup {NoID}]
    /\ mCurDomainState \in [Client -> {"NONE", "LOGIN", "ROOM"}]
    /\ roomIndex \in [Client -> Room \cup {NoRoom}]
    /\ mGeneration \in [Client -> Nat]
    /\ mPacketDataBuffer \in [Client -> Seq(Packet)]

RegistryTypeOK ==
    /\ mUserIDDictionary \in [ID -> Client \cup {None}]
    /\ mCurrentUserCnt \in Nat
    /\ mUserList \in [Room -> [Client -> Nat]]
    /\ mCurrentUserCount \in [Room -> Int]

QueuesTypeOK ==
    /\ mSystemWriteBuffer \in Seq(SysPacket) /\ mSystemReadBuffer \in Seq(SysPacket)
    /\ mWriteBuffer \in Seq(Task) /\ mReadBuffer \in Seq(Task)
    /\ mRequestTask \in Seq(RedisReq) /\ mResponseTask \in Seq(RedisRes)

LogicTypeOK ==
    /\ pc \in {"wait", "system", "erasing", "erased", "cleared", "tasks", "drain", "redis"}
    /\ task \in Task \cup {NoTask} /\ (pc = "drain" => task \in Task)
    /\ pc \in {"erasing", "erased", "cleared"} => mSystemReadBuffer # << >>

NetworkTypeOK ==
    /\ conn \in [Client -> 0..MaxConn] /\ opened \in 0..MaxConn
    /\ received \in 0..MaxPackets /\ recv \subseteq Recv
    /\ owed \in [Client -> Int] /\ ended \subseteq Conn

\* Users, rooms, queues and histories keep their types, and the logic thread has
\* the task or the system packet that its stage works on (PacketManager.cpp:247-294).
TypeOK ==
    UsersTypeOK /\ RegistryTypeOK /\ QueuesTypeOK /\ LogicTypeOK /\ NetworkTypeOK

Registered == {id \in ID : mUserIDDictionary[id] # None}

\* A user logged in under an id that Redis checks owns that id's entry in the
\* dictionary.  UserManager::FindUserIndexByID and Adduser tell a duplicate
\* login by that entry alone (UserManager.h:58-89, 113-127), while re-logins,
\* late login results and disconnects change ids and entries separately.
OwnsDictionaryEntry ==
    \A i \in Client : mUserID[i] \in RealID => mUserIDDictionary[mUserID[i]] = i

\* No two session indices are ever logged in under the same id that Redis
\* checks, whatever the order of requests, login results and disconnects
\* (README.md:12; PacketManager.cpp:512-526, 563-606).
NoDuplicateLogin ==
    \A i, j \in Client : i # j /\ mUserID[i] \in RealID => mUserID[i] # mUserID[j]

\* The user counter that ProcessLogin compares with the maximum never exceeds
\* the number of registered ids, so a login is refused as "all objects used"
\* only when that many ids are registered (PacketManager.cpp:529-535,
\* UserManager.h:43-56; DeleteUserInfo is between its two steps in "cleared").
CountWithinDictionary ==
    mCurrentUserCnt <= Cardinality(Registered) + (IF pc = "cleared" THEN 1 ELSE 0)

\* A user in the ROOM state is in the list of the room it thinks it is in
\* (Room.h:36-68; the two are changed by different objects).
RoomStateListed ==
    \A i \in Client : mCurDomainState[i] = "ROOM" =>
        roomIndex[i] \in Room /\ mUserList[roomIndex[i]][i] >= 1

\* An accepted chat message is sent to every user that is in the sender's room,
\* the sender included (PacketManager.cpp:780-836, Room.h:110-128).
ChatReachesRoom ==
    (out.kind = "ROOM_CHAT" /\ out.result = "NONE") =>
        \A j \in Client : (mCurDomainState[j] = "ROOM" /\ roomIndex[j] = roomIndex[out.to])
                          => out.notice[j] >= 1

Pending(i) == {n \in DOMAIN mRequestTask : mRequestTask[n].client = i}
Unread(i) == {n \in DOMAIN mResponseTask : mResponseTask[n].client = i}

\* Every request is answered exactly once: what an index has asked and not been
\* told yet is exactly what waits in the Redis queues, on all paths through the
\* handlers (PacketManager.cpp:467-836).
AnsweredOnce ==
    \A i \in Client : owed[i] = Cardinality(Pending(i)) + Cardinality(Unread(i))

Queued(s) == s \in {mSystemWriteBuffer[n] : n \in DOMAIN mSystemWriteBuffer}
                   \cup {mSystemReadBuffer[n] : n \in DOMAIN mSystemReadBuffer}

\* When the logic thread works on a task, the ends of all earlier connections of
\* that index have been handled: the two queues are swapped together and system
\* packets go first (PacketManager.cpp:226-251).
TaskAfterDisconnect ==
    pc = "drain" => \A k \in Conn : k < task.conn =>
        ~Queued([type |-> "DISCONNECT", client |-> task.client, conn |-> k])

-----------------------------------------------------------------------------
\* A statement of the documentation that the code does not keep

\* README.md:238-239: the generation token follows the life cycle of the client
\* object and invalidates the packets of earlier ones, so the packet being
\* handled never belongs to a connection whose end has been handled
\* (PacketManager.cpp:268-291).
StalePacketInvalidated ==
    pc = "drain" => out.conn \notin ended
=============================================================================
