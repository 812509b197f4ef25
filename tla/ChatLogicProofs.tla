-------------------------- MODULE ChatLogicProofs --------------------------
(***************************************************************************)
(* Theorems about ChatLogic for any number of session indices, ids, rooms, *)
(* workers, connections and packets.  Types and the order of connections   *)
(* first.  Logins: an id that Redis checks is never in use twice, the user *)
(* counter never runs ahead of the registered ids, and every request is    *)
(* answered once, the ones that take the way through Redis included.       *)
(* Rooms: the domain state and the room number kept by a user agree with   *)
(* the user lists kept by the rooms, and chat goes to all of the room.     *)
(***************************************************************************)
EXTENDS ChatLogic, FiniteSetTheorems, TLAPS

-----------------------------------------------------------------------------
\* Queues: a push, a pop and an erase keep the type of the elements

\* Pushing to a queue (mWriteBuffer.push_back and the like) keeps its type.
LEMMA PushType ==
    ASSUME NEW S, NEW s \in Seq(S), NEW e \in S
    PROVE  Append(s, e) \in Seq(S)
OBVIOUS

\* The front of a queue that is not empty, and what is left behind it, have its type.
LEMMA PopType ==
    ASSUME NEW S, NEW s \in Seq(S), s # << >>
    PROVE  Head(s) \in S /\ Tail(s) \in Seq(S)
OBVIOUS

\* Erasing one element of a queue keeps its type (PacketManager.cpp:610-626).
LEMMA EraseType ==
    ASSUME NEW S, NEW s \in Seq(S), NEW n \in DOMAIN s
    PROVE  [m \in 1..(Len(s) - 1) |-> s[IF m < n THEN m ELSE m + 1]] \in Seq(S)
<1>1. Len(s) \in Nat /\ DOMAIN s = 1..Len(s) /\ Len(s) >= 1
  OBVIOUS
<1>2. ASSUME NEW m \in 1..(Len(s) - 1)
      PROVE  s[IF m < n THEN m ELSE m + 1] \in S
  BY <1>1, <1>2
<1>3. QED
  BY <1>1, <1>2

-----------------------------------------------------------------------------
\* Type correctness

\* The state that PacketManager::Init leaves has the types (PacketManager.cpp:14-92).
LEMMA InitTypeOK == Init => TypeOK
BY NoneAssumption, BoundAssumption
   DEF Init, TypeOK, UsersTypeOK, RegistryTypeOK, QueuesTypeOK, LogicTypeOK,
       NetworkTypeOK, NoTask, ID

\* IOCP workers keep the types (ChatServer.h:22-43).
LEMMA NetworkKeepsTypes ==
    ASSUME TypeOK, Network
    PROVE  TypeOK'
<1> USE DEF userVars, roomVars, dictVars, dataVars, sysVars, redisVars, netVars
<1>1. ASSUME NEW i \in Client, OnConnect(i) PROVE TypeOK'
  <2>1. opened' \in Conn /\ opened' \in 0..MaxConn
    BY <1>1, BoundAssumption DEF TypeOK, NetworkTypeOK, OnConnect, Conn
  <2>2. [type |-> "CONNECT", client |-> i, conn |-> opened'] \in SysPacket
    BY <2>1 DEF SysPacket
  <2>3. mSystemWriteBuffer' \in Seq(SysPacket)
    BY <1>1, <2>2, PushType DEF TypeOK, QueuesTypeOK, OnConnect
  <2>4. UsersTypeOK' /\ RegistryTypeOK' /\ LogicTypeOK'
    BY <1>1 DEF TypeOK, OnConnect, UsersTypeOK, RegistryTypeOK, LogicTypeOK
  <2>5. QueuesTypeOK'
    BY <1>1, <2>3 DEF TypeOK, OnConnect, QueuesTypeOK
  <2>6. NetworkTypeOK'
    BY <1>1, <2>1 DEF TypeOK, OnConnect, NetworkTypeOK
  <2>7. QED
    BY <2>4, <2>5, <2>6 DEF TypeOK
<1>2. ASSUME NEW i \in Client, OnClose(i) PROVE TypeOK'
  <2>1. conn[i] \in Conn /\ 0 \in 0..MaxConn
    BY <1>2, BoundAssumption DEF TypeOK, NetworkTypeOK, OnClose, Conn
  <2>2. [type |-> "DISCONNECT", client |-> i, conn |-> conn[i]] \in SysPacket
    BY <2>1 DEF SysPacket
  <2>3. mSystemWriteBuffer' \in Seq(SysPacket)
    BY <1>2, <2>2, PushType DEF TypeOK, QueuesTypeOK, OnClose
  <2>4. UsersTypeOK' /\ RegistryTypeOK' /\ LogicTypeOK'
    BY <1>2 DEF TypeOK, OnClose, UsersTypeOK, RegistryTypeOK, LogicTypeOK
  <2>5. QueuesTypeOK'
    BY <1>2, <2>3 DEF TypeOK, OnClose, QueuesTypeOK
  <2>6. NetworkTypeOK'
    BY <1>2, <2>1 DEF TypeOK, OnClose, NetworkTypeOK
  <2>7. QED
    BY <2>4, <2>5, <2>6 DEF TypeOK
<1>3. ASSUME NEW i \in Client, RecvCompletes(i) PROVE TypeOK'
  <2>1. conn[i] \in Conn /\ received' \in 0..MaxPackets
    BY <1>3, BoundAssumption DEF TypeOK, NetworkTypeOK, RecvCompletes, Conn
  <2>2. [client |-> i, conn |-> conn[i], stored |-> FALSE] \in Recv
    BY <2>1 DEF Recv
  <2>3. UsersTypeOK' /\ RegistryTypeOK' /\ QueuesTypeOK' /\ LogicTypeOK'
    BY <1>3 DEF TypeOK, RecvCompletes, UsersTypeOK, RegistryTypeOK, QueuesTypeOK,
                LogicTypeOK
  <2>4. NetworkTypeOK'
    BY <1>3, <2>1, <2>2 DEF TypeOK, RecvCompletes, NetworkTypeOK
  <2>5. QED
    BY <2>3, <2>4 DEF TypeOK
<1>4. ASSUME NEW m \in recv, NEW req \in Input, SetPacketData(m, req) PROVE TypeOK'
  <2>1. m \in Recv /\ [m EXCEPT !.stored = TRUE] \in Recv
    BY DEF TypeOK, NetworkTypeOK, Recv
  <2>2. m.client \in Client /\ m.conn \in Conn
    BY <2>1 DEF Recv
  <2>3. [req |-> req, conn |-> m.conn] \in Packet
    BY <2>2, InputAssumption DEF Packet
  <2>4. Append(mPacketDataBuffer[m.client], [req |-> req, conn |-> m.conn]) \in Seq(Packet)
    BY <2>2, <2>3, PushType DEF TypeOK, UsersTypeOK
  <2>5. UsersTypeOK'
    BY <1>4, <2>2, <2>4 DEF TypeOK, SetPacketData, UsersTypeOK
  <2>6. RegistryTypeOK' /\ QueuesTypeOK' /\ LogicTypeOK'
    BY <1>4 DEF TypeOK, SetPacketData, RegistryTypeOK, QueuesTypeOK, LogicTypeOK
  <2>7. NetworkTypeOK'
    BY <1>4, <2>1 DEF TypeOK, SetPacketData, NetworkTypeOK
  <2>8. QED
    BY <2>5, <2>6, <2>7 DEF TypeOK
<1>5. ASSUME NEW m \in recv, EnqueuePacketData(m) PROVE TypeOK'
  <2>1. m.client \in Client /\ m.conn \in Conn
    BY DEF TypeOK, NetworkTypeOK, Recv
  <2>2. [client |-> m.client, gen |-> mGeneration[m.client], conn |-> m.conn] \in Task
    BY <2>1 DEF Task, TypeOK, UsersTypeOK
  <2>3. mWriteBuffer' \in Seq(Task)
    BY <1>5, <2>2, PushType DEF TypeOK, QueuesTypeOK, EnqueuePacketData
  <2>4. UsersTypeOK' /\ RegistryTypeOK' /\ LogicTypeOK'
    BY <1>5 DEF TypeOK, EnqueuePacketData, UsersTypeOK, RegistryTypeOK, LogicTypeOK
  <2>5. QueuesTypeOK'
    BY <1>5, <2>3 DEF TypeOK, EnqueuePacketData, QueuesTypeOK
  <2>6. NetworkTypeOK'
    BY <1>5 DEF TypeOK, EnqueuePacketData, NetworkTypeOK
  <2>7. QED
    BY <2>4, <2>5, <2>6 DEF TypeOK
<1>6. QED
  BY <1>1, <1>2, <1>3, <1>4, <1>5 DEF Network

\* The Redis thread keeps the types (RedisManager.h:109-165).
LEMMA RedisKeepsTypes ==
    ASSUME TypeOK, NEW ok \in BOOLEAN, RedisTaskProcess(ok)
    PROVE  TypeOK'
<1> USE DEF userVars, roomVars, dictVars, dataVars, sysVars, netVars
<1> DEFINE t == Head(mRequestTask)
<1>1. t \in RedisReq /\ Tail(mRequestTask) \in Seq(RedisReq)
  BY PopType DEF TypeOK, QueuesTypeOK, RedisTaskProcess
<1>2. [client |-> t.client, id |-> t.id, conn |-> t.conn, ok |-> ok] \in RedisRes
  BY <1>1 DEF RedisReq, RedisRes
<1>3. mResponseTask' \in Seq(RedisRes) /\ mRequestTask' \in Seq(RedisReq)
  BY <1>1, <1>2, PushType DEF TypeOK, QueuesTypeOK, RedisTaskProcess
<1>4. UsersTypeOK' /\ RegistryTypeOK' /\ LogicTypeOK' /\ NetworkTypeOK'
  BY DEF TypeOK, RedisTaskProcess, UsersTypeOK, RegistryTypeOK, LogicTypeOK, NetworkTypeOK
<1>5. QueuesTypeOK'
  BY <1>3 DEF TypeOK, RedisTaskProcess, QueuesTypeOK
<1>6. QED
  BY <1>4, <1>5 DEF TypeOK

\* the state the handlers change
HandlerTypeOK ==
    /\ mUserID \in [Client -> ID \cup {NoID}]
    /\ mCurDomainState \in [Client -> {"NONE", "LOGIN", "ROOM"}]
    /\ roomIndex \in [Client -> Room \cup {NoRoom}]
    /\ RegistryTypeOK

\* A login request keeps the types (PacketManager.cpp:467-561).
LEMMA ProcessLoginType ==
    ASSUME TypeOK, NEW i \in Client, NEW id \in ID, NEW k \in Conn, ProcessLogin(i, id, k)
    PROVE  HandlerTypeOK' /\ mRequestTask' \in Seq(RedisReq) /\ UNCHANGED mResponseTask
<1> USE DEF TypeOK, UsersTypeOK, RegistryTypeOK, QueuesTypeOK, HandlerTypeOK,
            userVars, roomVars, dictVars, redisVars
<1>1. CASE ProcessTestLogin(i, id, k)
  BY <1>1 DEF ProcessTestLogin
<1>2. CASE LoginAlready(i, id, k)
  BY <1>2 DEF LoginAlready
<1>3. CASE LoginAllUsed(i, id, k)
  BY <1>3 DEF LoginAllUsed
<1>4. CASE LoginToRedis(i, id, k)
  <2>1. [client |-> i, id |-> id, conn |-> k] \in RedisReq
    BY <1>4 DEF LoginToRedis, RedisReq
  <2>2. mRequestTask' \in Seq(RedisReq)
    BY <1>4, <2>1, PushType DEF LoginToRedis
  <2>3. QED
    BY <1>4, <2>2 DEF LoginToRedis
<1>5. QED
  BY <1>1, <1>2, <1>3, <1>4 DEF ProcessLogin

\* Entering and leaving keep the types of the room tables (Room.h:36-68).
LEMMA RoomTablesType ==
    ASSUME TypeOK, NEW i \in Client, NEW r \in Room,
           \/ EnterUser(r, i)
           \/ RemoveFromRoom(r, i)
    PROVE  mUserList' \in [Room -> [Client -> Nat]] /\ mCurrentUserCount' \in [Room -> Int]
<1> USE DEF TypeOK, RegistryTypeOK
<1>1. mUserList[r] \in [Client -> Nat] /\ mCurrentUserCount[r] \in Int
  OBVIOUS
<1>2. CASE EnterUser(r, i)
  <2>1. [mUserList[r] EXCEPT ![i] = @ + 1] \in [Client -> Nat]
    BY <1>1
  <2>2. mUserList' = [mUserList EXCEPT ![r] = [mUserList[r] EXCEPT ![i] = @ + 1]]
    BY <1>2 DEF EnterUser
  <2>3. mCurrentUserCount' \in [Room -> Int]
    BY <1>1, <1>2 DEF EnterUser
  <2>4. QED
    BY <2>1, <2>2, <2>3
<1>3. CASE RemoveFromRoom(r, i)
  <2>1. [mUserList[r] EXCEPT ![i] = 0] \in [Client -> Nat]
    BY <1>1
  <2>2. mUserList' = [mUserList EXCEPT ![r] = [mUserList[r] EXCEPT ![i] = 0]]
    BY <1>3 DEF RemoveFromRoom
  <2>3. mCurrentUserCount' \in [Room -> Int]
    BY <1>1, <1>3 DEF RemoveFromRoom
  <2>4. QED
    BY <2>1, <2>2, <2>3
<1>4. QED
  BY <1>2, <1>3

\* A room request keeps the types (PacketManager.cpp:641-836).
LEMMA RoomRequestType ==
    ASSUME TypeOK, NEW i \in Client, NEW k \in Conn,
           \/ \E r \in Room \cup {NoRoom} : ProcessEnterRoom(i, r, k)
           \/ ProcessLeaveRoom(i, k)
           \/ ProcessRoomChatMessage(i, k)
           \/ ProcessOther(k)
    PROVE  HandlerTypeOK' /\ UNCHANGED redisVars
<1> USE DEF userVars, roomVars, dictVars, redisVars
<1> DEFINE typed == UsersTypeOK /\ RegistryTypeOK
<1>0. typed
  BY DEF TypeOK
<1>1. ASSUME NEW r \in Room \cup {NoRoom}, ProcessEnterRoom(i, r, k)
      PROVE  HandlerTypeOK' /\ UNCHANGED redisVars
  <2>1. CASE MayEnter(i, r)
    <3>1. r \in Room /\ EnterUser(r, i) /\ UNCHANGED <<mUserID, dictVars, redisVars>>
      BY <1>1, <2>1 DEF ProcessEnterRoom, MayEnter
    <3>2. mUserList' \in [Room -> [Client -> Nat]] /\ mCurrentUserCount' \in [Room -> Int]
      BY <3>1, RoomTablesType
    <3>3. /\ roomIndex' \in [Client -> Room \cup {NoRoom}]
          /\ mCurDomainState' \in [Client -> {"NONE", "LOGIN", "ROOM"}]
      BY <1>0, <3>1 DEF EnterUser, UsersTypeOK
    <3>4. QED
      BY <1>0, <3>1, <3>2, <3>3 DEF HandlerTypeOK, UsersTypeOK, RegistryTypeOK
  <2>2. CASE ~MayEnter(i, r)
    <3>1. UNCHANGED <<mUserID, roomIndex, mCurDomainState, dictVars, roomVars, redisVars>>
      BY <1>1, <2>2 DEF ProcessEnterRoom
    <3>2. QED
      BY <1>0, <3>1 DEF HandlerTypeOK, UsersTypeOK, RegistryTypeOK
  <2>3. QED
    BY <2>1, <2>2
<1>2. CASE ProcessLeaveRoom(i, k)
  <2> DEFINE r == roomIndex[i]
  <2>1. UNCHANGED <<mUserID, roomIndex, dictVars, redisVars>>
    BY <1>2 DEF ProcessLeaveRoom
  <2>2. CASE r \in Room
    <3>1. RemoveFromRoom(r, i) /\ mCurDomainState' = [mCurDomainState EXCEPT ![i] = "LOGIN"]
      BY <1>2, <2>2 DEF ProcessLeaveRoom
    <3>2. mUserList' \in [Room -> [Client -> Nat]] /\ mCurrentUserCount' \in [Room -> Int]
      BY <2>2, <3>1, RoomTablesType
    <3>3. mCurDomainState' \in [Client -> {"NONE", "LOGIN", "ROOM"}]
      BY <1>0, <3>1 DEF UsersTypeOK
    <3>4. QED
      BY <1>0, <2>1, <3>2, <3>3 DEF HandlerTypeOK, UsersTypeOK, RegistryTypeOK
  <2>3. CASE r \notin Room
    <3>1. UNCHANGED <<roomVars, mCurDomainState>>
      BY <1>2, <2>3 DEF ProcessLeaveRoom
    <3>2. QED
      BY <1>0, <2>1, <3>1 DEF HandlerTypeOK, UsersTypeOK, RegistryTypeOK
  <2>4. QED
    BY <2>2, <2>3
<1>3. CASE ProcessRoomChatMessage(i, k) \/ ProcessOther(k)
  <2>1. UNCHANGED <<userVars, dictVars, roomVars, redisVars>>
    BY <1>3 DEF ProcessRoomChatMessage, ProcessOther
  <2>2. QED
    BY <1>0, <2>1 DEF HandlerTypeOK, UsersTypeOK, RegistryTypeOK
<1>4. QED
  BY <1>1, <1>2, <1>3

\* A login result keeps the types (PacketManager.cpp:563-606).
LEMMA DBResultType ==
    ASSUME TypeOK, NEW res \in RedisRes, ProcessLoginDBResult(res)
    PROVE  HandlerTypeOK'
<1> USE DEF roomVars, dictVars
<1>1. res.client \in Client /\ res.id \in ID
  BY DEF RedisRes, ID
<1>2. UNCHANGED <<roomIndex, roomVars>>
  BY DEF ProcessLoginDBResult
<1>3. CASE res.ok /\ mUserIDDictionary[res.id] = None
  <2>1. RegisterUser(res.id, res.client) /\ mCurrentUserCnt' = mCurrentUserCnt + 1
    BY <1>3 DEF ProcessLoginDBResult
  <2>2. QED
    BY <1>1, <1>2, <2>1
       DEF TypeOK, UsersTypeOK, RegistryTypeOK, HandlerTypeOK, RegisterUser
<1>4. CASE ~(res.ok /\ mUserIDDictionary[res.id] = None)
  <2>1. UNCHANGED <<mUserID, mCurDomainState, dictVars>>
    BY <1>4 DEF ProcessLoginDBResult
  <2>2. QED
    BY <1>2, <2>1 DEF TypeOK, UsersTypeOK, RegistryTypeOK, HandlerTypeOK
<1>5. QED
  BY <1>3, <1>4
\* The logic thread's own bookkeeping keeps the types (PacketManager.cpp:184-347,
\* 403-415, 608-639).
LEMMA StagesKeepTypes ==
    ASSUME TypeOK,
           \/ SwapBuffers \/ ProcessUserConnect \/ ProcessUserDisconnect
           \/ (\E n \in DOMAIN mWriteBuffer : EraseTask(n)) \/ EraseDone
           \/ NextStage \/ TakeTask \/ FinishTask
    PROVE  TypeOK'
<1> USE DEF userVars, roomVars, dictVars, dataVars, sysVars, redisVars, netVars
<1>1. UsersTypeOK' /\ RegistryTypeOK' /\ NetworkTypeOK'
  BY DEF TypeOK, UsersTypeOK, RegistryTypeOK, NetworkTypeOK, SwapBuffers,
         ProcessUserConnect, ProcessUserDisconnect, EraseTask, EraseDone, NextStage,
         TakeTask, FinishTask
<1>2. CASE SwapBuffers
  BY <1>1, <1>2 DEF TypeOK, QueuesTypeOK, LogicTypeOK, SwapBuffers
<1>3. CASE ProcessUserConnect
  <2>1. Tail(mSystemReadBuffer) \in Seq(SysPacket)
    BY <1>3, PopType DEF TypeOK, QueuesTypeOK, ProcessUserConnect
  <2>2. QED
    BY <1>1, <1>3, <2>1 DEF TypeOK, QueuesTypeOK, LogicTypeOK, ProcessUserConnect
<1>4. CASE ProcessUserDisconnect
  BY <1>1, <1>4 DEF TypeOK, QueuesTypeOK, LogicTypeOK, ProcessUserDisconnect
<1>5. ASSUME NEW n \in DOMAIN mWriteBuffer, EraseTask(n)
      PROVE  TypeOK'
  <2>1. mWriteBuffer' \in Seq(Task)
    BY <1>5, EraseType DEF TypeOK, QueuesTypeOK, EraseTask
  <2>2. QED
    BY <1>1, <1>5, <2>1 DEF TypeOK, QueuesTypeOK, LogicTypeOK, EraseTask
<1>6. CASE EraseDone
  BY <1>1, <1>6 DEF TypeOK, QueuesTypeOK, LogicTypeOK, EraseDone
<1>7. CASE NextStage
  BY <1>1, <1>7 DEF TypeOK, QueuesTypeOK, LogicTypeOK, NextStage
<1>8. CASE TakeTask
  <2>1. Head(mReadBuffer) \in Task /\ Tail(mReadBuffer) \in Seq(Task)
    BY <1>8, PopType DEF TypeOK, QueuesTypeOK, TakeTask
  <2>2. QueuesTypeOK'
    BY <1>8, <2>1 DEF TypeOK, QueuesTypeOK, TakeTask
  <2>3. LogicTypeOK'
    BY <1>8, <2>1 DEF TypeOK, LogicTypeOK, TakeTask
  <2>4. QED
    BY <1>1, <2>2, <2>3 DEF TypeOK
<1>9. CASE FinishTask
  BY <1>1, <1>9 DEF TypeOK, QueuesTypeOK, LogicTypeOK, FinishTask
<1>10. QED
  BY <1>2, <1>3, <1>4, <1>5, <1>6, <1>7, <1>8, <1>9

\* While a disconnect is handled there is a system packet that names an index.
LEMMA DisconnectedClient ==
    ASSUME TypeOK, pc \in {"erasing", "erased", "cleared"}
    PROVE  /\ Head(mSystemReadBuffer) \in SysPacket
           /\ Tail(mSystemReadBuffer) \in Seq(SysPacket)
           /\ Head(mSystemReadBuffer).client \in Client
           /\ Head(mSystemReadBuffer).conn \in Conn
<1>1. Head(mSystemReadBuffer) \in SysPacket /\ Tail(mSystemReadBuffer) \in Seq(SysPacket)
  BY PopType DEF TypeOK, LogicTypeOK, QueuesTypeOK
<1>2. QED
  BY <1>1 DEF SysPacket

\* A disconnect keeps the types (PacketManager.cpp:608-639, UserManager.h:103-110).
LEMMA DisconnectKeepsTypes ==
    ASSUME TypeOK, ClearUser \/ DeleteUserInfo
    PROVE  TypeOK'
<1> USE DEF userVars, roomVars, dictVars, dataVars, sysVars, redisVars, netVars
<1> DEFINE i == Head(mSystemReadBuffer).client
<1>1. mSystemReadBuffer # << >>
  BY DEF TypeOK, LogicTypeOK, ClearUser, DeleteUserInfo
<1>2. Head(mSystemReadBuffer) \in SysPacket /\ Tail(mSystemReadBuffer) \in Seq(SysPacket)
  BY DisconnectedClient DEF ClearUser, DeleteUserInfo
<1>3. i \in Client /\ Head(mSystemReadBuffer).conn \in Conn
  BY DisconnectedClient DEF ClearUser, DeleteUserInfo
<1>4. CASE ClearUser
  <2>1. mUserList' \in [Room -> [Client -> Nat]] /\ mCurrentUserCount' \in [Room -> Int]
    <3>1. CASE mCurDomainState[i] = "ROOM" /\ roomIndex[i] \in Room
      BY <1>3, <1>4, <3>1, RoomTablesType DEF ClearUser
    <3>2. CASE ~(mCurDomainState[i] = "ROOM" /\ roomIndex[i] \in Room)
      <4>1. UNCHANGED roomVars
        BY <1>4, <3>2 DEF ClearUser
      <4>2. QED
        BY <4>1 DEF TypeOK, RegistryTypeOK
    <3>3. QED
      BY <3>1, <3>2
  <2>2. UNCHANGED <<roomIndex, mGeneration, mCurrentUserCnt, mSystemWriteBuffer,
                    dataVars, redisVars, task, netVars, owed>>
    BY <1>4 DEF ClearUser
  <2>3. CASE mCurDomainState[i] # "NONE"
    <3>1. /\ mUserIDDictionary' = [id \in ID |-> IF id = mUserID[i] THEN None
                                                 ELSE mUserIDDictionary[id]]
          /\ mUserID' = [mUserID EXCEPT ![i] = NoID]
          /\ mCurDomainState' = [mCurDomainState EXCEPT ![i] = "NONE"]
          /\ mPacketDataBuffer' = [mPacketDataBuffer EXCEPT ![i] = << >>]
          /\ pc' = "cleared"
          /\ UNCHANGED <<mSystemReadBuffer, ended>>
      BY <1>4, <2>3 DEF ClearUser
    <3>2. << >> \in Seq(Packet)
      OBVIOUS
    <3>3. UsersTypeOK'
      BY <2>2, <3>1, <3>2 DEF TypeOK, UsersTypeOK
    <3>4. mUserIDDictionary' \in [ID -> Client \cup {None}]
      BY <3>1 DEF TypeOK, RegistryTypeOK
    <3>5. QED
      BY <1>1, <2>1, <2>2, <3>1, <3>3, <3>4
         DEF TypeOK, RegistryTypeOK, QueuesTypeOK, LogicTypeOK, NetworkTypeOK
  <2>4. CASE mCurDomainState[i] = "NONE"
    <3>1. /\ mSystemReadBuffer' = Tail(mSystemReadBuffer)
          /\ ended' = ended \cup {Head(mSystemReadBuffer).conn}
          /\ pc' = "system"
          /\ UNCHANGED <<mUserIDDictionary, mUserID, mCurDomainState, mPacketDataBuffer>>
      BY <1>4, <2>4 DEF ClearUser
    <3>2. QED
      BY <1>2, <1>3, <2>1, <2>2, <3>1
         DEF TypeOK, UsersTypeOK, RegistryTypeOK, QueuesTypeOK, LogicTypeOK, NetworkTypeOK
  <2>5. QED
    BY <2>3, <2>4
<1>5. CASE DeleteUserInfo
  <2>1. UsersTypeOK' /\ RegistryTypeOK'
    BY <1>3, <1>5 DEF TypeOK, UsersTypeOK, RegistryTypeOK, DeleteUserInfo
  <2>2. QueuesTypeOK' /\ LogicTypeOK' /\ NetworkTypeOK'
    BY <1>2, <1>3, <1>5 DEF TypeOK, QueuesTypeOK, LogicTypeOK, NetworkTypeOK, DeleteUserInfo
  <2>3. QED
    BY <2>1, <2>2 DEF TypeOK
<1>6. QED
  BY <1>4, <1>5

\* Dispatching a packet keeps the types (PacketManager.cpp:274-294, 442-464).
LEMMA PacketKeepsTypes ==
    ASSUME TypeOK, ProcessRecvPacket
    PROVE  TypeOK'
<1> USE DEF userVars, roomVars, dictVars, dataVars, sysVars, redisVars, netVars
<1> DEFINE i == task.client
           p == Head(mPacketDataBuffer[i])
<1>1. i \in Client
  BY DEF TypeOK, LogicTypeOK, ProcessRecvPacket, Task
<1>2. p \in Packet /\ Tail(mPacketDataBuffer[i]) \in Seq(Packet)
  BY <1>1, PopType DEF TypeOK, UsersTypeOK, ProcessRecvPacket
<1>3. p.req \in Request /\ p.conn \in Conn
  BY <1>2 DEF Packet
<1>4. HandlerTypeOK' /\ mRequestTask' \in Seq(RedisReq) /\ UNCHANGED mResponseTask
  <2>1. CASE p.req.type = "LOGIN" /\ ProcessLogin(i, p.req.arg, p.conn)
    <3>1. p.req.arg \in ID
      BY <1>3, <2>1 DEF Request
    <3>2. QED
      BY <1>1, <1>3, <2>1, <3>1, ProcessLoginType
  <2>2. CASE p.req.type = "ROOM_ENTER" /\ ProcessEnterRoom(i, p.req.arg, p.conn)
    <3>1. p.req.arg \in Room \cup {NoRoom}
      BY <1>3, <2>2 DEF Request
    <3>2. HandlerTypeOK' /\ UNCHANGED redisVars
      BY <1>1, <1>3, <2>2, <3>1, RoomRequestType
    <3>3. QED
      BY <3>2 DEF TypeOK, QueuesTypeOK
  <2>3. CASE \/ ProcessLeaveRoom(i, p.conn)
             \/ ProcessRoomChatMessage(i, p.conn)
             \/ ProcessOther(p.conn)
    <3>1. HandlerTypeOK' /\ UNCHANGED redisVars
      BY <1>1, <1>3, <2>3, RoomRequestType
    <3>2. QED
      BY <3>1 DEF TypeOK, QueuesTypeOK
  <2>4. QED
    BY <2>1, <2>2, <2>3 DEF ProcessRecvPacket
<1>5. mPacketDataBuffer' \in [Client -> Seq(Packet)]
  BY <1>1, <1>2 DEF TypeOK, UsersTypeOK, ProcessRecvPacket
<1>6. owed' \in [Client -> Int]
  BY <1>1 DEF TypeOK, NetworkTypeOK, ProcessRecvPacket
<1>7. UNCHANGED <<mGeneration, sysVars, dataVars, pc, task, netVars, ended>>
  BY DEF ProcessRecvPacket
<1>8. QED
  BY <1>4, <1>5, <1>6, <1>7
     DEF TypeOK, HandlerTypeOK, UsersTypeOK, QueuesTypeOK, LogicTypeOK, NetworkTypeOK

\* Handling a login result keeps the types (PacketManager.cpp:319-327).
LEMMA ResultKeepsTypes ==
    ASSUME TypeOK, TakeResponseTask
    PROVE  TypeOK'
<1> USE DEF userVars, roomVars, dictVars, dataVars, sysVars, redisVars, netVars
<1> DEFINE res == Head(mResponseTask)
<1>1. res \in RedisRes /\ mResponseTask' \in Seq(RedisRes)
  BY PopType DEF TypeOK, QueuesTypeOK, TakeResponseTask
<1>2. HandlerTypeOK'
  BY <1>1, DBResultType DEF TakeResponseTask
<1>3. owed' \in [Client -> Int]
  BY <1>1 DEF TypeOK, NetworkTypeOK, TakeResponseTask, RedisRes
<1>4. UNCHANGED <<mGeneration, mPacketDataBuffer, sysVars, dataVars, mRequestTask,
                  pc, task, netVars, ended>>
  BY DEF TakeResponseTask
<1>5. QED
  BY <1>1, <1>2, <1>3, <1>4
     DEF TypeOK, HandlerTypeOK, UsersTypeOK, QueuesTypeOK, LogicTypeOK, NetworkTypeOK

\* Every step keeps the types.
LEMMA NextTypeOK ==
    ASSUME TypeOK, [Next]_vars
    PROVE  TypeOK'
<1>1. CASE Network
  BY <1>1, NetworkKeepsTypes
<1>2. CASE Logic
  BY <1>2, StagesKeepTypes, DisconnectKeepsTypes, PacketKeepsTypes, ResultKeepsTypes
     DEF Logic
<1>3. CASE \E ok \in BOOLEAN : RedisTaskProcess(ok)
  BY <1>3, RedisKeepsTypes
<1>4. CASE UNCHANGED vars
  BY <1>4 DEF vars, userVars, roomVars, dictVars, dataVars, sysVars, redisVars, netVars,
     TypeOK, UsersTypeOK, RegistryTypeOK, QueuesTypeOK, LogicTypeOK, NetworkTypeOK
<1>5. QED
  BY <1>1, <1>2, <1>3, <1>4 DEF Next

\* Users, rooms, queues and the logic thread's task keep their types in every
\* behaviour of the server, for any number of clients, ids, rooms and workers.
THEOREM TypeCorrectness == Spec => []TypeOK
<1>1. Init => TypeOK
  BY InitTypeOK
<1>2. TypeOK /\ [Next]_vars => TypeOK'
  BY NextTypeOK
<1>3. QED
  BY <1>1, <1>2, PTL DEF Spec

-----------------------------------------------------------------------------
\* What a queue holds

Elements(s) == {s[n] : n \in DOMAIN s}

\* A push adds one element to a queue.
LEMMA PushElements ==
    ASSUME NEW S, NEW s \in Seq(S), NEW e \in S
    PROVE  Elements(Append(s, e)) = Elements(s) \cup {e}
<1>1. DOMAIN s = 1..Len(s) /\ Len(s) \in Nat /\ DOMAIN Append(s, e) = 1..(Len(s) + 1)
  OBVIOUS
<1>2. \A n \in 1..Len(s) : Append(s, e)[n] = s[n]
  OBVIOUS
<1>3. Append(s, e)[Len(s) + 1] = e
  OBVIOUS
<1>4. QED
  BY <1>1, <1>2, <1>3 DEF Elements

\* A pop hands out an element of the queue and adds none.
LEMMA PopElements ==
    ASSUME NEW S, NEW s \in Seq(S), s # << >>
    PROVE  Head(s) \in Elements(s) /\ Elements(Tail(s)) \subseteq Elements(s)
<1>1. DOMAIN s = 1..Len(s) /\ Len(s) \in Nat /\ Len(s) >= 1
  OBVIOUS
<1>2. DOMAIN Tail(s) = 1..(Len(s) - 1) /\ \A n \in 1..(Len(s) - 1) : Tail(s)[n] = s[n + 1]
  OBVIOUS
<1>3. Head(s) = s[1]
  OBVIOUS
<1>4. QED
  BY <1>1, <1>2, <1>3 DEF Elements

\* An erase adds no element to a queue (PacketManager.cpp:610-626).
LEMMA EraseElements ==
    ASSUME NEW S, NEW s \in Seq(S), NEW n \in DOMAIN s
    PROVE  Elements([m \in 1..(Len(s) - 1) |-> s[IF m < n THEN m ELSE m + 1]]) \subseteq Elements(s)
<1>1. DOMAIN s = 1..Len(s) /\ Len(s) \in Nat
  OBVIOUS
<1>2. QED
  BY <1>1 DEF Elements

-----------------------------------------------------------------------------
\* The order of connections: tasks, system packets and connection numbers

\* a connection of index i that is not later than the present one
UpToPresent(i, k) == k <= opened /\ (conn[i] # 0 => k <= conn[i])

\* the end of no earlier connection of the task's index is still to be swapped in
Settled(t) ==
    \A k \in Conn : k < t.conn =>
        [type |-> "DISCONNECT", client |-> t.client, conn |-> k] \notin Elements(mSystemWriteBuffer)

\* receives and tasks are of the present or an earlier connection; those that the
\* logic thread has taken over are settled; the stages behind the system packets
\* have none left
ConnectionOrder ==
    /\ \A i \in Client : conn[i] <= opened
    /\ \A m \in recv : UpToPresent(m.client, m.conn)
    /\ \A t \in Elements(mWriteBuffer) \cup Elements(mReadBuffer) : UpToPresent(t.client, t.conn)
    /\ \A t \in Elements(mReadBuffer) : Settled(t)
    /\ pc = "drain" => UpToPresent(task.client, task.conn) /\ Settled(task)
    /\ pc \in {"wait", "tasks", "drain", "redis"} => mSystemReadBuffer = << >>

\* the state that ConnectionOrder is about
orderVars == <<conn, opened, recv, mWriteBuffer, mReadBuffer, mSystemWriteBuffer,
               mSystemReadBuffer, pc, task>>

\* Workers keep the order: a new connection is later than all others, and the end
\* of a connection is behind all tasks of earlier ones (ChatServer.h:22-43).
LEMMA NetworkKeepsOrder ==
    ASSUME TypeOK, ConnectionOrder, Network
    PROVE  ConnectionOrder'
<1> USE DEF dataVars, sysVars
<1>0. /\ opened \in Nat /\ conn \in [Client -> Nat] /\ \A i \in Client : conn[i] \in 0..MaxConn
      /\ \A m \in recv : m \in Recv /\ m.client \in Client /\ m.conn \in Conn /\ m.conn \in Nat
      /\ \A t \in Elements(mWriteBuffer) \cup Elements(mReadBuffer) :
            t.client \in Client /\ t.conn \in Conn /\ t.conn \in Nat
      /\ pc = "drain" => task.client \in Client /\ task.conn \in Nat
      /\ mSystemWriteBuffer \in Seq(SysPacket) /\ mWriteBuffer \in Seq(Task)
  <2>1. /\ opened \in Nat /\ conn \in [Client -> Nat] /\ \A i \in Client : conn[i] \in 0..MaxConn
        /\ mSystemWriteBuffer \in Seq(SysPacket) /\ mWriteBuffer \in Seq(Task)
        /\ mReadBuffer \in Seq(Task)
    BY BoundAssumption DEF TypeOK, NetworkTypeOK, QueuesTypeOK
  <2>2. \A k \in Conn : k \in Nat
    BY BoundAssumption DEF Conn
  <2>3. \A m \in recv : m \in Recv /\ m.client \in Client /\ m.conn \in Conn /\ m.conn \in Nat
    BY <2>2 DEF TypeOK, NetworkTypeOK, Recv
  <2>4. \A t \in Task : t.client \in Client /\ t.conn \in Conn /\ t.conn \in Nat
    BY <2>2 DEF Task
  <2>5. Elements(mWriteBuffer) \subseteq Task /\ Elements(mReadBuffer) \subseteq Task
    BY <2>1 DEF Elements
  <2>6. pc = "drain" => task \in Task
    BY DEF TypeOK, LogicTypeOK
  <2>7. QED
    BY <2>1, <2>3, <2>4, <2>5, <2>6
<1>1. ASSUME NEW i \in Client, OnConnect(i)
      PROVE  ConnectionOrder'
  <2>1. /\ opened' = opened + 1 /\ conn' = [conn EXCEPT ![i] = opened + 1]
        /\ UNCHANGED <<recv, mWriteBuffer, mReadBuffer, mSystemReadBuffer, pc, task>>
    BY <1>1 DEF OnConnect
  <2>2. [type |-> "CONNECT", client |-> i, conn |-> opened'] \in SysPacket
    BY <1>0, <1>1, <2>1, BoundAssumption DEF SysPacket, Conn, OnConnect
  <2>3. Elements(mSystemWriteBuffer') =
            Elements(mSystemWriteBuffer) \cup {[type |-> "CONNECT", client |-> i, conn |-> opened']}
    BY <1>0, <1>1, <2>2, PushElements DEF OnConnect
  <2>4. \A t : Settled(t) => Settled(t)'
    BY <2>3 DEF Settled
  <2>5. \A c \in Client, k \in Nat : UpToPresent(c, k) => UpToPresent(c, k)'
    BY <1>0, <2>1 DEF UpToPresent
  <2>6. \A c \in Client : conn'[c] <= opened'
    BY <1>0, <2>1 DEF ConnectionOrder
  <2>7. QED
    BY <1>0, <2>1, <2>4, <2>5, <2>6 DEF ConnectionOrder
<1>2. ASSUME NEW i \in Client, OnClose(i)
      PROVE  ConnectionOrder'
  <2>1. /\ conn[i] # 0 /\ conn' = [conn EXCEPT ![i] = 0]
        /\ UNCHANGED <<opened, recv, mWriteBuffer, mReadBuffer, mSystemReadBuffer, pc, task>>
    BY <1>2 DEF OnClose
  <2>2. [type |-> "DISCONNECT", client |-> i, conn |-> conn[i]] \in SysPacket
    BY <1>0, <2>1 DEF SysPacket, Conn
  <2>3. Elements(mSystemWriteBuffer') =
            Elements(mSystemWriteBuffer) \cup {[type |-> "DISCONNECT", client |-> i, conn |-> conn[i]]}
    BY <1>0, <1>2, <2>2, PushElements DEF OnClose
  <2>4. ASSUME NEW t, t.client \in Client, t.conn \in Nat, UpToPresent(t.client, t.conn), Settled(t)
        PROVE  Settled(t)'
    <3>1. SUFFICES ASSUME NEW k \in Conn, k < t.conn
                   PROVE  [type |-> "DISCONNECT", client |-> t.client, conn |-> k]
                            # [type |-> "DISCONNECT", client |-> i, conn |-> conn[i]]
      BY <2>3, <2>4 DEF Settled
    <3>2. t.client = i => conn[i] >= t.conn
      BY <1>0, <2>1, <2>4 DEF UpToPresent
    <3>3. QED
      BY <1>0, <2>4, <3>1, <3>2 DEF Conn
  <2>5. \A c \in Client, k \in Nat : UpToPresent(c, k) => UpToPresent(c, k)'
    BY <1>0, <2>1 DEF UpToPresent
  <2>6. \A c \in Client : conn'[c] <= opened'
    BY <1>0, <2>1 DEF ConnectionOrder
  <2>7. QED
    BY <1>0, <2>1, <2>4, <2>5, <2>6 DEF ConnectionOrder
<1>3. ASSUME NEW i \in Client, RecvCompletes(i)
      PROVE  ConnectionOrder'
  <2>1. /\ recv' = recv \cup {[client |-> i, conn |-> conn[i], stored |-> FALSE]}
        /\ UNCHANGED <<conn, opened, mWriteBuffer, mReadBuffer, mSystemWriteBuffer,
                       mSystemReadBuffer, pc, task>>
    BY <1>3 DEF RecvCompletes
  <2>2. UpToPresent(i, conn[i])
    BY <1>0 DEF ConnectionOrder, UpToPresent
  <2>3. QED
    BY <2>1, <2>2 DEF ConnectionOrder, UpToPresent, Settled
<1>4. ASSUME NEW m \in recv, NEW req \in Input, SetPacketData(m, req)
      PROVE  ConnectionOrder'
  <2>1. /\ recv' = (recv \ {m}) \cup {[m EXCEPT !.stored = TRUE]}
        /\ UNCHANGED <<conn, opened, mWriteBuffer, mReadBuffer, mSystemWriteBuffer,
                       mSystemReadBuffer, pc, task>>
    BY <1>4 DEF SetPacketData
  <2>2. [m EXCEPT !.stored = TRUE].client = m.client /\ [m EXCEPT !.stored = TRUE].conn = m.conn
    BY <1>0 DEF Recv
  <2>3. QED
    BY <2>1, <2>2 DEF ConnectionOrder, UpToPresent, Settled
<1>5. ASSUME NEW m \in recv, EnqueuePacketData(m)
      PROVE  ConnectionOrder'
  <2> DEFINE t == [client |-> m.client, gen |-> mGeneration[m.client], conn |-> m.conn]
  <2>1. /\ recv' = recv \ {m} /\ mWriteBuffer' = Append(mWriteBuffer, t)
        /\ UNCHANGED <<conn, opened, mReadBuffer, mSystemWriteBuffer, mSystemReadBuffer, pc, task>>
    BY <1>5 DEF EnqueuePacketData
  <2>2. t \in Task
    BY <1>0 DEF Task, TypeOK, UsersTypeOK
  <2>3. Elements(mWriteBuffer') = Elements(mWriteBuffer) \cup {t}
    BY <1>0, <2>1, <2>2, PushElements
  <2>4. UpToPresent(t.client, t.conn)
    BY DEF ConnectionOrder
  <2>5. QED
    BY <2>1, <2>3, <2>4 DEF ConnectionOrder, UpToPresent, Settled
<1>6. QED
  BY <1>1, <1>2, <1>3, <1>4, <1>5 DEF Network

\* The logic thread keeps the order: swapping both pairs of queues together
\* settles every task it takes over (PacketManager.cpp:226-251).
LEMMA LogicKeepsOrder ==
    ASSUME TypeOK, ConnectionOrder, Logic
    PROVE  ConnectionOrder'
<1> USE DEF dataVars, sysVars, netVars
<1>1. CASE SwapBuffers
  <2>1. /\ mReadBuffer' = mWriteBuffer /\ mWriteBuffer' = << >> /\ mSystemWriteBuffer' = << >>
        /\ pc' = "system" /\ UNCHANGED <<conn, opened, recv>>
    BY <1>1 DEF SwapBuffers
  <2>2. Elements(<< >>) = {}
    BY DEF Elements
  <2>3. QED
    BY <2>1, <2>2 DEF ConnectionOrder, UpToPresent, Settled
<1>2. CASE ProcessUserConnect \/ ProcessUserDisconnect \/ EraseDone \/ ClearUser \/ DeleteUserInfo
  <2>1. /\ UNCHANGED <<conn, opened, recv, mWriteBuffer, mReadBuffer, mSystemWriteBuffer>>
        /\ pc' \notin {"wait", "tasks", "drain", "redis"}
    BY <1>2 DEF ProcessUserConnect, ProcessUserDisconnect, EraseDone, ClearUser, DeleteUserInfo
  <2>2. QED
    BY <2>1 DEF ConnectionOrder, UpToPresent, Settled
<1>3. ASSUME NEW n \in DOMAIN mWriteBuffer, EraseTask(n)
      PROVE  ConnectionOrder'
  <2>1. Elements(mWriteBuffer') \subseteq Elements(mWriteBuffer)
    BY <1>3, EraseElements DEF EraseTask, TypeOK, QueuesTypeOK
  <2>2. UNCHANGED <<conn, opened, recv, mReadBuffer, mSystemWriteBuffer, mSystemReadBuffer, pc, task>>
    BY <1>3 DEF EraseTask
  <2>3. QED
    BY <2>1, <2>2 DEF ConnectionOrder, UpToPresent, Settled
<1>4. CASE NextStage
  <2>1. /\ UNCHANGED <<conn, opened, recv, mWriteBuffer, mReadBuffer, mSystemWriteBuffer,
                       mSystemReadBuffer>>
        /\ pc' # "drain" /\ (pc = "system" => mSystemReadBuffer = << >>)
        /\ pc \in {"system", "tasks", "redis"}
    BY <1>4 DEF NextStage
  <2>2. QED
    BY <2>1 DEF ConnectionOrder, UpToPresent, Settled
<1>5. CASE TakeTask
  <2>1. /\ Head(mReadBuffer) \in Elements(mReadBuffer)
        /\ Elements(Tail(mReadBuffer)) \subseteq Elements(mReadBuffer)
    BY <1>5, PopElements DEF TakeTask, TypeOK, QueuesTypeOK
  <2>2. /\ UNCHANGED <<conn, opened, recv, mWriteBuffer, mSystemWriteBuffer, mSystemReadBuffer>>
        /\ mReadBuffer' = Tail(mReadBuffer) /\ pc = "tasks"
        /\ \/ pc' = pc
           \/ pc' = "drain" /\ task' = Head(mReadBuffer)
    BY <1>5 DEF TakeTask
  <2>3. QED
    BY <2>1, <2>2 DEF ConnectionOrder, UpToPresent, Settled
<1>6. CASE ProcessRecvPacket \/ TakeResponseTask
  <2>1. UNCHANGED orderVars
    BY <1>6 DEF ProcessRecvPacket, TakeResponseTask, orderVars
  <2>2. QED
    BY <2>1 DEF ConnectionOrder, UpToPresent, Settled, orderVars
<1>7. CASE FinishTask
  <2>1. /\ UNCHANGED <<conn, opened, recv, mWriteBuffer, mReadBuffer, mSystemWriteBuffer,
                       mSystemReadBuffer>>
        /\ pc = "drain" /\ pc' = "tasks"
    BY <1>7 DEF FinishTask
  <2>2. QED
    BY <2>1 DEF ConnectionOrder, UpToPresent, Settled
<1>8. QED
  BY <1>1, <1>2, <1>3, <1>4, <1>5, <1>6, <1>7 DEF Logic

\* Every step keeps the order of connections.
LEMMA NextConnectionOrder ==
    ASSUME TypeOK, ConnectionOrder, [Next]_vars
    PROVE  ConnectionOrder'
<1>1. CASE (\E ok \in BOOLEAN : RedisTaskProcess(ok)) \/ UNCHANGED vars
  <2>1. UNCHANGED orderVars
    BY <1>1 DEF RedisTaskProcess, vars, orderVars, dataVars, sysVars, netVars
  <2>2. QED
    BY <2>1 DEF ConnectionOrder, UpToPresent, Settled, orderVars
<1>2. QED
  BY <1>1, NetworkKeepsOrder, LogicKeepsOrder DEF Next

\* Whatever connects, disconnects and sends meanwhile, the logic thread works on a
\* task only when the ends of all earlier connections of its index have been
\* handled (PacketManager.cpp:226-251).
THEOREM TaskAfterDisconnectHolds == Spec => []TaskAfterDisconnect
<1>1. Init => ConnectionOrder
  BY DEF Init, ConnectionOrder, UpToPresent, Settled, Elements
<1>2. TypeOK /\ ConnectionOrder /\ [Next]_vars => ConnectionOrder'
  BY NextConnectionOrder
<1>3. ConnectionOrder => TaskAfterDisconnect
  BY DEF ConnectionOrder, TaskAfterDisconnect, Settled, Queued, Elements
<1>4. QED
  BY <1>1, <1>2, <1>3, TypeCorrectness, PTL DEF Spec

-----------------------------------------------------------------------------
\* the state that says who is logged in
loginVars == <<mUserID, mUserIDDictionary, mCurrentUserCnt>>

-----------------------------------------------------------------------------
\* The only steps that change who is logged in: a test login, a login result
\* that is accepted, and the two halves of a disconnect.
LEMMA LoginSteps ==
    ASSUME TypeOK, [Next]_vars
    PROVE  \/ \E i \in Client, id \in ID, k \in Conn : ProcessTestLogin(i, id, k) /\ UNCHANGED pc
           \/ \E i \in Client, id \in RealID :
                 /\ mUserIDDictionary[id] = None /\ RegisterUser(id, i)
                 /\ mCurrentUserCnt' = mCurrentUserCnt + 1 /\ UNCHANGED pc
           \/ ClearUser
           \/ DeleteUserInfo
           \/ UNCHANGED loginVars /\ (pc = "cleared" <=> pc' = "cleared")
<1> USE DEF loginVars, userVars, dictVars
<1>1. CASE UNCHANGED vars
  BY <1>1 DEF vars
<1>2. CASE Network
  BY <1>2 DEF Network, OnConnect, OnClose, RecvCompletes, SetPacketData, EnqueuePacketData
<1>3. CASE \E ok \in BOOLEAN : RedisTaskProcess(ok)
  BY <1>3 DEF RedisTaskProcess
<1>4. CASE \/ SwapBuffers \/ ProcessUserConnect \/ ProcessUserDisconnect
           \/ (\E n \in DOMAIN mWriteBuffer : EraseTask(n)) \/ EraseDone
           \/ NextStage \/ TakeTask \/ FinishTask
  BY <1>4 DEF SwapBuffers, ProcessUserConnect, ProcessUserDisconnect, EraseTask,
              EraseDone, NextStage, TakeTask, FinishTask
<1>5. CASE ProcessRecvPacket
  <2> DEFINE i == task.client
             p == Head(mPacketDataBuffer[i])
  <2>1. UNCHANGED pc
    BY <1>5 DEF ProcessRecvPacket
  <2>2. i \in Client
    BY <1>5 DEF TypeOK, LogicTypeOK, ProcessRecvPacket, Task
  <2>3. p \in Packet
    BY <1>5, <2>2, PopType DEF TypeOK, UsersTypeOK, ProcessRecvPacket
  <2>4. p.req \in Request /\ p.conn \in Conn
    BY <2>3 DEF Packet
  <2>5. CASE p.req.type = "LOGIN" /\ ProcessLogin(i, p.req.arg, p.conn)
    <3>1. p.req.arg \in ID
      BY <2>4, <2>5 DEF Request
    <3>2. CASE ProcessTestLogin(i, p.req.arg, p.conn)
      BY <2>1, <2>2, <2>4, <3>1, <3>2
    <3>3. CASE ~ProcessTestLogin(i, p.req.arg, p.conn)
      BY <2>1, <2>5, <3>3 DEF ProcessLogin, LoginAlready, LoginAllUsed, LoginToRedis
    <3>4. QED
      BY <3>2, <3>3
  <2>6. CASE \/ ProcessEnterRoom(i, p.req.arg, p.conn)
             \/ ProcessLeaveRoom(i, p.conn)
             \/ ProcessRoomChatMessage(i, p.conn)
             \/ ProcessOther(p.conn)
    BY <2>1, <2>6 DEF ProcessEnterRoom, ProcessLeaveRoom, ProcessRoomChatMessage, ProcessOther
  <2>7. QED
    BY <1>5, <2>5, <2>6 DEF ProcessRecvPacket
<1>6. CASE TakeResponseTask
  <2> DEFINE res == Head(mResponseTask)
  <2>1. res \in RedisRes
    BY <1>6, PopType DEF TypeOK, QueuesTypeOK, TakeResponseTask
  <2>2. res.client \in Client /\ res.id \in RealID
    BY <2>1 DEF RedisRes
  <2>3. ProcessLoginDBResult(res) /\ UNCHANGED pc
    BY <1>6 DEF TakeResponseTask
  <2>4. CASE res.ok /\ mUserIDDictionary[res.id] = None
    BY <2>2, <2>3, <2>4 DEF ProcessLoginDBResult
  <2>5. CASE ~(res.ok /\ mUserIDDictionary[res.id] = None)
    BY <2>3, <2>5 DEF ProcessLoginDBResult
  <2>6. QED
    BY <2>4, <2>5
<1>7. QED
  BY <1>1, <1>2, <1>3, <1>4, <1>5, <1>6 DEF Next, Logic

-----------------------------------------------------------------------------
\* Every step keeps the ownership of dictionary entries.
LEMMA NextOwnsDictionaryEntry ==
    ASSUME TypeOK, OwnsDictionaryEntry, [Next]_vars
    PROVE  OwnsDictionaryEntry'
<1> USE DEF OwnsDictionaryEntry
<1>1. mUserID \in [Client -> ID \cup {NoID}] /\ mUserIDDictionary \in [ID -> Client \cup {None}]
  BY DEF TypeOK, UsersTypeOK, RegistryTypeOK
<1>2. CASE \E i \in Client, id \in ID, k \in Conn : ProcessTestLogin(i, id, k)
  BY <1>1, <1>2, IdAssumption DEF ProcessTestLogin, ID
<1>3. CASE \E i \in Client, id \in RealID : mUserIDDictionary[id] = None /\ RegisterUser(id, i)
  BY <1>1, <1>3, NoneAssumption DEF RegisterUser, ID
<1>4. CASE ClearUser
  <2> DEFINE i == Head(mSystemReadBuffer).client
  <2>1. CASE /\ mUserIDDictionary' = [id \in ID |-> IF id = mUserID[i] THEN None
                                                    ELSE mUserIDDictionary[id]]
             /\ mUserID' = [mUserID EXCEPT ![i] = NoID]
    <3>1. i \in Client
      BY <1>4, DisconnectedClient DEF ClearUser
    <3>2. QED
      BY <1>1, <2>1, <3>1, IdAssumption DEF ID
  <2>2. CASE UNCHANGED <<mUserIDDictionary, mUserID>>
    BY <2>2
  <2>3. QED
    BY <1>4, <2>1, <2>2 DEF ClearUser
<1>5. CASE DeleteUserInfo
  BY <1>5 DEF DeleteUserInfo, userVars
<1>6. CASE UNCHANGED loginVars
  BY <1>6 DEF loginVars
<1>7. QED
  BY <1>2, <1>3, <1>4, <1>5, <1>6, LoginSteps

\* A user logged in under an id that Redis checks always owns that id's entry
\* in the dictionary (UserManager.h:58-127).
THEOREM OwnershipHolds == Spec => []OwnsDictionaryEntry
<1>1. Init => OwnsDictionaryEntry
  BY IdAssumption DEF Init, OwnsDictionaryEntry, ID
<1>2. TypeOK /\ OwnsDictionaryEntry /\ [Next]_vars => OwnsDictionaryEntry'
  BY NextOwnsDictionaryEntry
<1>3. QED
  BY <1>1, <1>2, TypeCorrectness, PTL DEF Spec

\* No id that Redis checks is ever logged in twice, whatever the order of login
\* requests, late login results, re-logins and disconnects (PacketManager.cpp:
\* 512-526, 563-606): two users with one id would own the same entry.
THEOREM NoDuplicateLoginHolds == Spec => []NoDuplicateLogin
<1>1. OwnsDictionaryEntry => NoDuplicateLogin
  BY DEF OwnsDictionaryEntry, NoDuplicateLogin
<1>2. QED
  BY <1>1, OwnershipHolds, PTL

-----------------------------------------------------------------------------
\* The set of registered ids is finite, and losing at most one id takes at most
\* one from its size.
LEMMA RegisteredFinite == IsFiniteSet(Registered)
<1>1. IsFiniteSet(ID) /\ Registered \subseteq ID
  BY IdAssumption DEF ID, Registered
<1>2. QED
  BY <1>1, FS_Subset

\* A finite set that loses at most one element is smaller by at most one.
LEMMA CardinalityDrop ==
    ASSUME NEW S, NEW T, NEW x, IsFiniteSet(S), IsFiniteSet(T), S \ {x} \subseteq T
    PROVE  Cardinality(S) <= Cardinality(T) + 1
<1>1. /\ IsFiniteSet(S \ {x})
      /\ Cardinality(S) \in Nat /\ Cardinality(T) \in Nat /\ Cardinality(S \ {x}) \in Nat
  BY FS_CardinalityType, FS_RemoveElement
<1>2. Cardinality(S \ {x}) <= Cardinality(T)
  BY <1>1, FS_Subset
<1>3. Cardinality(S) <= Cardinality(S \ {x}) + 1
  BY <1>1, FS_RemoveElement
<1>4. QED
  BY <1>1, <1>2, <1>3

\* Every step keeps the counter within the dictionary.
LEMMA NextCountWithinDictionary ==
    ASSUME TypeOK, TypeOK', CountWithinDictionary, [Next]_vars
    PROVE  CountWithinDictionary'
<1> DEFINE n == Cardinality(Registered)
<1>1. /\ mUserIDDictionary \in [ID -> Client \cup {None}]
      /\ mCurrentUserCnt \in Nat /\ mCurrentUserCnt' \in Nat
  BY DEF TypeOK, RegistryTypeOK
<1>2. IsFiniteSet(Registered) /\ IsFiniteSet(Registered')
  <2>1. IsFiniteSet(ID) /\ Registered' \subseteq ID
    BY IdAssumption DEF ID, Registered
  <2>2. QED
    BY <2>1, RegisteredFinite, FS_Subset
<1>3. n \in Nat /\ n' \in Nat
  BY <1>2, FS_CardinalityType
<1>4. ASSUME NEW i \in Client, NEW id \in ID, NEW k \in Conn,
             ProcessTestLogin(i, id, k), UNCHANGED pc
      PROVE  CountWithinDictionary'
  <2>1. Registered \subseteq Registered' /\ UNCHANGED mCurrentUserCnt
    BY <1>1, <1>4, NoneAssumption DEF ProcessTestLogin, Registered
  <2>2. n <= n'
    BY <1>2, <2>1, FS_Subset
  <2>3. QED
    BY <1>1, <1>3, <1>4, <2>1, <2>2 DEF CountWithinDictionary
<1>5. ASSUME NEW i \in Client, NEW id \in RealID,
             mUserIDDictionary[id] = None, RegisterUser(id, i),
             mCurrentUserCnt' = mCurrentUserCnt + 1, UNCHANGED pc
      PROVE  CountWithinDictionary'
  <2>1. id \in ID /\ id \notin Registered /\ Registered' = Registered \cup {id}
    BY <1>1, <1>5, NoneAssumption DEF RegisterUser, Registered, ID
  <2>2. n' = n + 1
    BY <1>2, <2>1, FS_AddElement
  <2>3. QED
    BY <1>1, <1>3, <1>5, <2>2 DEF CountWithinDictionary
<1>6. CASE ClearUser
  <2> DEFINE i == Head(mSystemReadBuffer).client
  <2>1. pc = "erased" /\ UNCHANGED mCurrentUserCnt
    BY <1>6 DEF ClearUser
  <2>2. CASE pc' = "cleared"
    <3>1. Registered \ {mUserID[i]} \subseteq Registered'
      BY <1>1, <1>6, <2>2 DEF ClearUser, Registered
    <3>2. n <= n' + 1
      BY <1>2, <3>1, CardinalityDrop
    <3>3. QED
      BY <1>1, <1>3, <2>1, <2>2, <3>2 DEF CountWithinDictionary
  <2>3. CASE pc' = "system" /\ UNCHANGED mUserIDDictionary
    BY <1>3, <2>1, <2>3 DEF CountWithinDictionary, Registered
  <2>4. QED
    BY <1>6, <2>2, <2>3 DEF ClearUser
<1>7. CASE DeleteUserInfo
  <2>1. /\ pc = "cleared" /\ pc' = "system" /\ UNCHANGED mUserIDDictionary
        /\ mCurrentUserCnt' = IF mCurrentUserCnt > 0 THEN mCurrentUserCnt - 1
                                                     ELSE mCurrentUserCnt
    BY <1>7 DEF DeleteUserInfo
  <2>2. n' = n
    BY <2>1 DEF Registered
  <2>3. QED
    BY <1>1, <1>3, <2>1, <2>2 DEF CountWithinDictionary
<1>8. CASE UNCHANGED loginVars /\ (pc = "cleared" <=> pc' = "cleared")
  BY <1>8 DEF loginVars, CountWithinDictionary, Registered
<1>9. QED
  BY <1>4, <1>5, <1>6, <1>7, <1>8, LoginSteps

\* The counter that ProcessLogin compares with the maximum never exceeds the
\* number of registered ids (PacketManager.cpp:529-535, UserManager.h:43-56).
THEOREM CountWithinDictionaryHolds == Spec => []CountWithinDictionary
<1>1. Init => CountWithinDictionary
  <2>1. ASSUME Init PROVE Cardinality(Registered) \in Nat /\ mCurrentUserCnt = 0 /\ pc = "wait"
    BY <2>1, RegisteredFinite, FS_CardinalityType DEF Init
  <2>2. QED
    BY <2>1 DEF CountWithinDictionary
<1>2. TypeOK /\ TypeOK' /\ CountWithinDictionary /\ [Next]_vars => CountWithinDictionary'
  BY NextCountWithinDictionary
<1>3. QED
  BY <1>1, <1>2, TypeCorrectness, PTL DEF Spec

-----------------------------------------------------------------------------
\* Counting the entries of an index in a queue

\* the positions at which index i stands in a queue of records with a client
Of(q, i) == {n \in DOMAIN q : q[n].client = i}

\* The positions of an index in a queue are finitely many.
LEMMA OfFinite ==
    ASSUME NEW S, NEW q \in Seq(S), NEW i
    PROVE  IsFiniteSet(Of(q, i)) /\ Cardinality(Of(q, i)) \in Nat
<1>1. DOMAIN q = 1..Len(q) /\ Len(q) \in Nat
  OBVIOUS
<1>2. IsFiniteSet(DOMAIN q)
  BY <1>1, FS_Interval
<1>3. IsFiniteSet(Of(q, i))
  BY <1>2, FS_Subset DEF Of
<1>4. QED
  BY <1>3, FS_CardinalityType

\* A push adds one to the count of the index pushed and nothing to the others
\* (RedisManager.h: PushTask, PushResponse).
LEMMA PushCount ==
    ASSUME NEW S, NEW q \in Seq(S), NEW e \in S, NEW i
    PROVE  Cardinality(Of(Append(q, e), i)) =
               Cardinality(Of(q, i)) + (IF e.client = i THEN 1 ELSE 0)
<1>1. /\ DOMAIN q = 1..Len(q) /\ Len(q) \in Nat /\ Len(q) + 1 \notin DOMAIN q
      /\ DOMAIN Append(q, e) = 1..(Len(q) + 1)
  OBVIOUS
<1>2. /\ \A n \in 1..Len(q) : Append(q, e)[n] = q[n]
      /\ Append(q, e)[Len(q) + 1] = e
  OBVIOUS
<1>3. CASE e.client = i
  <2>1. Of(Append(q, e), i) = Of(q, i) \cup {Len(q) + 1} /\ Len(q) + 1 \notin Of(q, i)
    BY <1>1, <1>2, <1>3 DEF Of
  <2>2. QED
    BY <1>3, <2>1, OfFinite, FS_AddElement, ZenonT(60)
<1>4. CASE e.client # i
  <2>1. Of(Append(q, e), i) = Of(q, i)
    BY <1>1, <1>2, <1>4 DEF Of
  <2>2. QED
    BY <1>4, <2>1, OfFinite
<1>5. QED
  BY <1>3, <1>4

\* A pop takes one from the count of the index popped and nothing from the others
\* (RedisManager.h: TakeRequestTask, TakeResponseTask).
LEMMA PopCount ==
    ASSUME NEW S, NEW q \in Seq(S), q # << >>, NEW i
    PROVE  Cardinality(Of(Tail(q), i)) =
               Cardinality(Of(q, i)) - (IF Head(q).client = i THEN 1 ELSE 0)
<1> DEFINE rest == Of(q, i) \ {1}
           shift == [n \in Of(Tail(q), i) |-> n + 1]
<1>1. /\ DOMAIN q = 1..Len(q) /\ Len(q) \in Nat /\ Len(q) >= 1 /\ Head(q) = q[1]
      /\ Tail(q) \in Seq(S) /\ DOMAIN Tail(q) = 1..(Len(q) - 1)
      /\ \A n \in 1..(Len(q) - 1) : Tail(q)[n] = q[n + 1]
  OBVIOUS
<1>2. \A n \in Of(Tail(q), i) : n \in Nat /\ n + 1 \in rest
  BY <1>1 DEF Of
<1>3. ASSUME NEW m \in rest
      PROVE  m - 1 \in Of(Tail(q), i) /\ (m - 1) + 1 = m
  <2>1. m \in 2..Len(q) /\ q[m].client = i
    BY <1>1 DEF Of
  <2>2. m - 1 \in 1..(Len(q) - 1) /\ (m - 1) + 1 = m
    BY <1>1, <2>1
  <2>3. Tail(q)[m - 1] = q[m]
    BY <1>1, <2>2
  <2>4. QED
    BY <1>1, <2>1, <2>2, <2>3 DEF Of
<1>4. shift \in Bijection(Of(Tail(q), i), rest)
  <2>1. shift \in [Of(Tail(q), i) -> rest]
    BY <1>2
  <2>2. \A m, n \in Of(Tail(q), i) : shift[m] = shift[n] => m = n
    BY <1>2
  <2>3. \A m \in rest : \E n \in Of(Tail(q), i) : shift[n] = m
    BY <1>3
  <2> HIDE DEF rest, shift
  <2>4. QED
    BY <2>1, <2>2, <2>3 DEF Bijection, Injection, IsInjective, Surjection
<1>5. Cardinality(rest) = Cardinality(Of(Tail(q), i))
  <2>1. IsFiniteSet(Of(Tail(q), i))
    BY <1>1, OfFinite
  <2>2. ExistsBijection(Of(Tail(q), i), rest)
    BY <1>4 DEF ExistsBijection
  <2>3. QED
    BY <2>1, <2>2, FS_Bijection
<1>6. 1 \in Of(q, i) <=> Head(q).client = i
  BY <1>1 DEF Of
<1>7. Cardinality(rest) = IF 1 \in Of(q, i) THEN Cardinality(Of(q, i)) - 1
                                            ELSE Cardinality(Of(q, i))
  BY OfFinite, FS_RemoveElement
<1>8. QED
  BY <1>5, <1>6, <1>7, OfFinite

-----------------------------------------------------------------------------
\* Answers

\* A handler answers the client that asked, or, for a login that Redis has to
\* check, queues one request of that client, and does never both
\* (PacketManager.cpp:467-836).
LEMMA RequestAnswered ==
    ASSUME TypeOK, ProcessRecvPacket
    PROVE  LET i == task.client
               p == Head(mPacketDataBuffer[i])
           IN  /\ i \in Client /\ mResponseTask' = mResponseTask
               /\ \/ /\ p.req.type # "OTHER" /\ out'.to = i /\ mRequestTask' = mRequestTask
                  \/ /\ p.req.type # "OTHER" /\ out'.to # i
                     /\ \E e \in RedisReq : e.client = i /\ mRequestTask' = Append(mRequestTask, e)
                  \/ /\ p.req.type = "OTHER" /\ out'.to # i /\ mRequestTask' = mRequestTask
<1> DEFINE i == task.client
           p == Head(mPacketDataBuffer[i])
<1> USE DEF redisVars
<1>1. i \in Client
  BY DEF ProcessRecvPacket, TypeOK, LogicTypeOK, Task
<1>2. p \in Packet
  BY <1>1, PopType DEF ProcessRecvPacket, TypeOK, UsersTypeOK
<1>3. p.conn \in Conn
  BY <1>2 DEF Packet
<1>4. \A k, kind, result : Reply(i, k, kind, result).to = i
  BY DEF Reply, Silent
<1>5. \A k : [Silent EXCEPT !.conn = k].to # i
  BY <1>1, NoneAssumption DEF Silent
<1>6. CASE p.req.type = "LOGIN" /\ ProcessLogin(i, p.req.arg, p.conn)
  <2>1. CASE LoginToRedis(i, p.req.arg, p.conn)
    <3>1. [client |-> i, id |-> p.req.arg, conn |-> p.conn] \in RedisReq
      BY <1>1, <1>3, <2>1 DEF LoginToRedis, RedisReq
    <3>2. out' = [Silent EXCEPT !.conn = p.conn]
      BY <2>1 DEF LoginToRedis
    <3>3. out'.to # i
      BY <1>5, <3>2
    <3>4. mResponseTask' = mResponseTask
      BY <2>1 DEF LoginToRedis
    <3>5. mRequestTask' = Append(mRequestTask, [client |-> i, id |-> p.req.arg, conn |-> p.conn])
      BY <2>1 DEF LoginToRedis
    <3>6. QED
      BY <1>1, <1>6, <3>1, <3>3, <3>4, <3>5
  <2>2. CASE ~LoginToRedis(i, p.req.arg, p.conn)
    <3>1. out'.to = i
      BY <1>4, <1>6, <2>2 DEF ProcessLogin, ProcessTestLogin, LoginAlready, LoginAllUsed
    <3>2. mResponseTask' = mResponseTask /\ mRequestTask' = mRequestTask
      BY <1>6, <2>2 DEF ProcessLogin, ProcessTestLogin, LoginAlready, LoginAllUsed
    <3>3. QED
      BY <1>1, <1>6, <3>1, <3>2
  <2>3. QED
    BY <2>1, <2>2
<1>7. CASE p.req.type = "ROOM_ENTER" /\ ProcessEnterRoom(i, p.req.arg, p.conn)
  <2>1. out'.to = i
    BY <1>7 DEF ProcessEnterRoom, Reply, Silent
  <2>2. mResponseTask' = mResponseTask /\ mRequestTask' = mRequestTask
    BY <1>7 DEF ProcessEnterRoom
  <2>3. QED
    BY <1>1, <1>7, <2>1, <2>2
<1>8. CASE p.req.type = "ROOM_LEAVE" /\ ProcessLeaveRoom(i, p.conn)
  <2>1. out'.to = i
    BY <1>8 DEF ProcessLeaveRoom, Reply, Silent
  <2>2. mResponseTask' = mResponseTask /\ mRequestTask' = mRequestTask
    BY <1>8 DEF ProcessLeaveRoom
  <2>3. QED
    BY <1>1, <1>8, <2>1, <2>2
<1>9. CASE p.req.type = "ROOM_CHAT" /\ ProcessRoomChatMessage(i, p.conn)
  <2>1. out'.to = i
    BY <1>9 DEF ProcessRoomChatMessage, Reply, Silent
  <2>2. mResponseTask' = mResponseTask /\ mRequestTask' = mRequestTask
    BY <1>9 DEF ProcessRoomChatMessage
  <2>3. QED
    BY <1>1, <1>9, <2>1, <2>2
<1>10. CASE p.req.type = "OTHER" /\ ProcessOther(p.conn)
  BY <1>1, <1>5, <1>10 DEF ProcessOther
<1>11. QED
  BY <1>6, <1>7, <1>8, <1>9, <1>10 DEF ProcessRecvPacket

\* Every step keeps the account of an index: requests taken from its ring, answers
\* sent to it and requests in the two Redis queues (PacketManager.cpp:467-606).
LEMMA NextAnsweredOnce ==
    ASSUME TypeOK, AnsweredOnce, [Next]_vars
    PROVE  AnsweredOnce'
<1> USE DEF redisVars
<1>1. \A i : Pending(i) = Of(mRequestTask, i) /\ Unread(i) = Of(mResponseTask, i)
  BY DEF Pending, Unread, Of
<1>2. \A i : Pending(i)' = Of(mRequestTask', i) /\ Unread(i)' = Of(mResponseTask', i)
  BY DEF Pending, Unread, Of
<1>3. /\ mRequestTask \in Seq(RedisReq) /\ mResponseTask \in Seq(RedisRes)
      /\ owed \in [Client -> Int]
  BY DEF TypeOK, QueuesTypeOK, NetworkTypeOK
<1>4. \A i : Cardinality(Of(mRequestTask, i)) \in Nat /\ Cardinality(Of(mResponseTask, i)) \in Nat
  BY <1>3, OfFinite
<1>5. \A i \in Client : owed[i] = Cardinality(Of(mRequestTask, i)) + Cardinality(Of(mResponseTask, i))
  BY <1>1 DEF AnsweredOnce
<1>6. SUFFICES ASSUME NEW c \in Client
               PROVE  owed'[c] = Cardinality(Of(mRequestTask', c)) + Cardinality(Of(mResponseTask', c))
  BY <1>2 DEF AnsweredOnce
<1>7. CASE UNCHANGED <<owed, mRequestTask, mResponseTask>>
  BY <1>5, <1>7
<1>8. CASE ProcessRecvPacket
  <2> DEFINE i == task.client
             p == Head(mPacketDataBuffer[i])
  <2>1. i \in Client /\ mResponseTask' = mResponseTask
    BY <1>8, RequestAnswered
  <2>2. owed' = [owed EXCEPT ![i] = @ + (IF p.req.type = "OTHER" THEN 0 ELSE 1)
                                      - (IF out'.to = i THEN 1 ELSE 0)]
    BY <1>8 DEF ProcessRecvPacket
  <2>3. CASE mRequestTask' = mRequestTask /\ (p.req.type = "OTHER" <=> out'.to # i)
    <3>1. owed' = owed
      BY <1>3, <2>1, <2>2, <2>3
    <3>2. QED
      BY <1>5, <2>1, <2>3, <3>1
  <2>4. ASSUME p.req.type # "OTHER", out'.to # i,
               NEW e \in RedisReq, e.client = i, mRequestTask' = Append(mRequestTask, e)
        PROVE  owed'[c] = Cardinality(Of(mRequestTask', c)) + Cardinality(Of(mResponseTask', c))
    <3>1. owed'[c] = owed[c] + (IF c = i THEN 1 ELSE 0)
      BY <1>3, <2>1, <2>2, <2>4
    <3>2. Cardinality(Of(mRequestTask', c)) =
              Cardinality(Of(mRequestTask, c)) + (IF i = c THEN 1 ELSE 0)
      BY <1>3, <2>4, PushCount
    <3>3. QED
      BY <1>3, <1>4, <1>5, <2>1, <3>1, <3>2
  <2>5. QED
    BY <1>8, <2>3, <2>4, RequestAnswered
<1>9. CASE TakeResponseTask
  <2> DEFINE r == Head(mResponseTask)
  <2>1. mResponseTask # << >> /\ mResponseTask' = Tail(mResponseTask) /\ mRequestTask' = mRequestTask
    BY <1>9 DEF TakeResponseTask
  <2>2. r \in RedisRes /\ r.client \in Client
    <3>1. r \in RedisRes
      BY <1>3, <2>1, PopType
    <3>2. QED
      BY <3>1 DEF RedisRes
  <2>3. out'.to = r.client
    <3>1. ProcessLoginDBResult(r)
      BY <1>9 DEF TakeResponseTask
    <3>2. QED
      BY <3>1 DEF ProcessLoginDBResult, Reply, Silent
  <2>4. owed'[c] = owed[c] - (IF r.client = c THEN 1 ELSE 0)
    <3>1. owed' = [owed EXCEPT ![r.client] = @ - (IF out'.to = r.client THEN 1 ELSE 0)]
      BY <1>9 DEF TakeResponseTask
    <3>2. QED
      BY <1>3, <2>2, <2>3, <3>1
  <2>5. Cardinality(Of(mResponseTask', c)) =
            Cardinality(Of(mResponseTask, c)) - (IF r.client = c THEN 1 ELSE 0)
    BY <1>3, <2>1, PopCount
  <2>6. QED
    BY <1>3, <1>4, <1>5, <2>1, <2>4, <2>5
<1>10. ASSUME NEW ok \in BOOLEAN, RedisTaskProcess(ok)
       PROVE  owed'[c] = Cardinality(Of(mRequestTask', c)) + Cardinality(Of(mResponseTask', c))
  <2> DEFINE t == Head(mRequestTask)
             r == [client |-> t.client, id |-> t.id, conn |-> t.conn, ok |-> ok]
  <2>1. /\ mRequestTask # << >> /\ mRequestTask' = Tail(mRequestTask)
        /\ mResponseTask' = Append(mResponseTask, r) /\ owed' = owed
    BY <1>10 DEF RedisTaskProcess
  <2>2. t \in RedisReq
    BY <1>3, <2>1, PopType
  <2>3. r \in RedisRes /\ r.client = t.client
    BY <2>2 DEF RedisReq, RedisRes
  <2>4. Cardinality(Of(mRequestTask', c)) =
            Cardinality(Of(mRequestTask, c)) - (IF t.client = c THEN 1 ELSE 0)
    BY <1>3, <2>1, PopCount
  <2>5. Cardinality(Of(mResponseTask', c)) =
            Cardinality(Of(mResponseTask, c)) + (IF t.client = c THEN 1 ELSE 0)
    BY <1>3, <2>1, <2>3, PushCount
  <2>6. QED
    BY <1>3, <1>4, <1>5, <2>1, <2>4, <2>5
<1>11. CASE UNCHANGED vars
  BY <1>7, <1>11 DEF vars
<1>12. CASE Network
  BY <1>7, <1>12 DEF Network, OnConnect, OnClose, RecvCompletes, SetPacketData, EnqueuePacketData
<1>13. CASE Logic /\ ~ProcessRecvPacket /\ ~TakeResponseTask
  BY <1>7, <1>13 DEF Logic, SwapBuffers, ProcessUserConnect, ProcessUserDisconnect, EraseTask,
              EraseDone, ClearUser, DeleteUserInfo, NextStage, TakeTask, FinishTask
<1>14. QED
  BY <1>8, <1>9, <1>10, <1>11, <1>12, <1>13 DEF Next

\* Every request is answered exactly once, on all paths through the handlers and
\* the Redis round trip: what an index is owed is what waits in the two Redis
\* queues (PacketManager.cpp:467-836).
THEOREM AnsweredOnceHolds == Spec => []AnsweredOnce
<1>1. Init => AnsweredOnce
  <2>1. Init => \A i \in Client : Pending(i) = {} /\ Unread(i) = {} /\ owed[i] = 0
    BY DEF Init, Pending, Unread
  <2>2. QED
    BY <2>1, FS_EmptySet DEF AnsweredOnce
<1>2. TypeOK /\ AnsweredOnce /\ [Next]_vars => AnsweredOnce'
  BY NextAnsweredOnce
<1>3. QED
  BY <1>1, <1>2, TypeCorrectness, PTL DEF Spec

-----------------------------------------------------------------------------
\* Rooms

\* the state that says who is in which room
presenceVars == <<mCurDomainState, roomIndex, mUserList>>

-----------------------------------------------------------------------------
\* The only steps that change who is in a room: a login, entering, leaving, and
\* the first half of a disconnect.
LEMMA PresenceSteps ==
    ASSUME TypeOK, [Next]_vars
    PROVE  \/ \E i \in Client :
                 /\ mCurDomainState' = [mCurDomainState EXCEPT ![i] = "LOGIN"]
                 /\ UNCHANGED <<roomIndex, mUserList>>
           \/ \E i \in Client, r \in Room : EnterUser(r, i)
           \/ \E i \in Client, r \in Room :
                 /\ RemoveFromRoom(r, i) /\ UNCHANGED roomIndex
                 /\ mCurDomainState' = [mCurDomainState EXCEPT ![i] = "LOGIN"]
           \/ ClearUser
           \/ UNCHANGED presenceVars
<1> USE DEF presenceVars, userVars, roomVars
<1>1. CASE UNCHANGED vars
  BY <1>1 DEF vars
<1>2. CASE Network
  BY <1>2 DEF Network, OnConnect, OnClose, RecvCompletes, SetPacketData, EnqueuePacketData
<1>3. CASE \E ok \in BOOLEAN : RedisTaskProcess(ok)
  BY <1>3 DEF RedisTaskProcess
<1>4. CASE \/ SwapBuffers \/ ProcessUserConnect \/ ProcessUserDisconnect
           \/ (\E n \in DOMAIN mWriteBuffer : EraseTask(n)) \/ EraseDone
           \/ DeleteUserInfo \/ NextStage \/ TakeTask \/ FinishTask
  BY <1>4 DEF SwapBuffers, ProcessUserConnect, ProcessUserDisconnect, EraseTask,
              EraseDone, DeleteUserInfo, NextStage, TakeTask, FinishTask
<1>5. CASE ProcessRecvPacket
  <2> DEFINE i == task.client
             p == Head(mPacketDataBuffer[i])
  <2>1. i \in Client
    BY <1>5 DEF TypeOK, LogicTypeOK, ProcessRecvPacket, Task
  <2>2. CASE ProcessLogin(i, p.req.arg, p.conn)
    BY <2>1, <2>2 DEF ProcessLogin, ProcessTestLogin, LoginAlready, LoginAllUsed, LoginToRedis
  <2>3. CASE ProcessEnterRoom(i, p.req.arg, p.conn)
    BY <2>1, <2>3 DEF ProcessEnterRoom, MayEnter
  <2>4. CASE ProcessLeaveRoom(i, p.conn)
    BY <2>1, <2>4 DEF ProcessLeaveRoom
  <2>5. CASE ProcessRoomChatMessage(i, p.conn) \/ ProcessOther(p.conn)
    BY <2>5 DEF ProcessRoomChatMessage, ProcessOther
  <2>6. QED
    BY <1>5, <2>2, <2>3, <2>4, <2>5 DEF ProcessRecvPacket
<1>6. CASE TakeResponseTask
  <2> DEFINE res == Head(mResponseTask)
  <2>1. res \in RedisRes
    BY <1>6, PopType DEF TypeOK, QueuesTypeOK, TakeResponseTask
  <2>2. res.client \in Client
    BY <2>1 DEF RedisRes
  <2>3. ProcessLoginDBResult(res)
    BY <1>6 DEF TakeResponseTask
  <2>4. QED
    BY <2>2, <2>3 DEF ProcessLoginDBResult, RegisterUser
<1>7. QED
  BY <1>1, <1>2, <1>3, <1>4, <1>5, <1>6 DEF Next, Logic

-----------------------------------------------------------------------------
\* What a user believes about its room agrees with the room: one user at a time.
Listed(i) ==
    mCurDomainState[i] = "ROOM" => roomIndex[i] \in Room /\ mUserList[roomIndex[i]][i] >= 1

\* Taking one user out of a room leaves the entries of the others alone.
LEMMA RemoveKeepsOthers ==
    ASSUME TypeOK, NEW i \in Client, NEW r \in Room, RemoveFromRoom(r, i),
           NEW j \in Client, j # i, NEW q \in Room
    PROVE  mUserList'[q][j] = mUserList[q][j]
<1>1. mUserList \in [Room -> [Client -> Nat]]
  BY DEF TypeOK, RegistryTypeOK
<1>2. mUserList' = [mUserList EXCEPT ![r] = [mUserList[r] EXCEPT ![i] = 0]]
  BY DEF RemoveFromRoom
<1>3. QED
  BY <1>1, <1>2

\* Putting a user into a room lists it there and takes nobody out.
LEMMA EnterLists ==
    ASSUME TypeOK, NEW i \in Client, NEW r \in Room, EnterUser(r, i)
    PROVE  /\ mUserList'[r][i] >= 1
           /\ \A q \in Room, j \in Client : mUserList'[q][j] >= mUserList[q][j]
<1>1. mUserList \in [Room -> [Client -> Nat]]
  BY DEF TypeOK, RegistryTypeOK
<1>2. mUserList' = [mUserList EXCEPT ![r] = [mUserList[r] EXCEPT ![i] = mUserList[r][i] + 1]]
  BY DEF EnterUser
<1>3. mUserList'[r][i] >= 1
  BY <1>1, <1>2
<1>4. ASSUME NEW q \in Room, NEW j \in Client
      PROVE  mUserList'[q][j] >= mUserList[q][j]
  BY <1>1, <1>2
<1>5. QED
  BY <1>3, <1>4

\* Every step keeps users in the ROOM state listed.
LEMMA NextRoomStateListed ==
    ASSUME TypeOK, TypeOK', RoomStateListed, [Next]_vars
    PROVE  RoomStateListed'
<1> SUFFICES ASSUME NEW j \in Client PROVE Listed(j)'
  BY DEF RoomStateListed, Listed
<1>1. /\ mCurDomainState \in [Client -> {"NONE", "LOGIN", "ROOM"}]
      /\ roomIndex \in [Client -> Room \cup {NoRoom}]
      /\ mUserList \in [Room -> [Client -> Nat]]
      /\ mUserList' \in [Room -> [Client -> Nat]]
  BY DEF TypeOK, UsersTypeOK, RegistryTypeOK
<1>2. Listed(j)
  BY DEF RoomStateListed, Listed
<1>3. ASSUME NEW i \in Client,
             mCurDomainState' = [mCurDomainState EXCEPT ![i] = "LOGIN"],
             UNCHANGED <<roomIndex, mUserList>>
      PROVE  Listed(j)'
  BY <1>1, <1>2, <1>3 DEF Listed
<1>4. ASSUME NEW i \in Client, NEW r \in Room, EnterUser(r, i)
      PROVE  Listed(j)'
  <2>1. /\ roomIndex' = [roomIndex EXCEPT ![i] = r]
        /\ mCurDomainState' = [mCurDomainState EXCEPT ![i] = "ROOM"]
    BY <1>4 DEF EnterUser
  <2>2. CASE j = i
    BY <1>1, <1>4, <2>1, <2>2, EnterLists DEF Listed
  <2>3. CASE j # i
    <3>1. mCurDomainState'[j] = mCurDomainState[j] /\ roomIndex'[j] = roomIndex[j]
      BY <1>1, <2>1, <2>3
    <3>2. \A q \in Room : mUserList'[q][j] >= mUserList[q][j]
      BY <1>4, EnterLists
    <3>3. \A q \in Room : mUserList'[q][j] \in Nat /\ mUserList[q][j] \in Nat
      BY <1>1
    <3>4. QED
      BY <1>2, <3>1, <3>2, <3>3 DEF Listed
  <2>4. QED
    BY <2>2, <2>3
<1>5. ASSUME NEW i \in Client, NEW r \in Room, NEW state \in {"LOGIN", "NONE"},
             RemoveFromRoom(r, i), UNCHANGED roomIndex,
             mCurDomainState' = [mCurDomainState EXCEPT ![i] = state]
      PROVE  Listed(j)'
  <2>1. CASE j = i
    BY <1>1, <1>5, <2>1 DEF Listed
  <2>2. CASE j # i
    <3>1. mCurDomainState'[j] = mCurDomainState[j] /\ roomIndex'[j] = roomIndex[j]
      BY <1>1, <1>5, <2>2
    <3>2. \A q \in Room : mUserList'[q][j] = mUserList[q][j]
      BY <1>5, <2>2, RemoveKeepsOthers
    <3>3. QED
      BY <1>2, <3>1, <3>2 DEF Listed
  <2>3. QED
    BY <2>1, <2>2
<1>6. CASE ClearUser
  <2> DEFINE i == Head(mSystemReadBuffer).client
  <2>1. i \in Client /\ UNCHANGED roomIndex
    BY <1>6, DisconnectedClient DEF ClearUser
  <2>2. CASE mCurDomainState[i] = "ROOM" /\ roomIndex[i] \in Room
    <3>1. /\ RemoveFromRoom(roomIndex[i], i)
          /\ mCurDomainState' = [mCurDomainState EXCEPT ![i] = "NONE"]
      BY <1>6, <2>2 DEF ClearUser
    <3>2. QED
      BY <1>5, <2>1, <2>2, <3>1
  <2>3. CASE ~(mCurDomainState[i] = "ROOM" /\ roomIndex[i] \in Room)
    <3>1. /\ UNCHANGED mUserList
          /\ \/ mCurDomainState' = [mCurDomainState EXCEPT ![i] = "NONE"]
             \/ UNCHANGED mCurDomainState
      BY <1>6, <2>3 DEF ClearUser, roomVars
    <3>2. QED
      BY <1>1, <1>2, <2>1, <3>1 DEF Listed
  <2>4. QED
    BY <2>2, <2>3
<1>7. CASE UNCHANGED presenceVars
  BY <1>2, <1>7 DEF presenceVars, Listed
<1>8. QED
  BY <1>3, <1>4, <1>5, <1>6, <1>7, PresenceSteps

\* A user in the ROOM state is always in the list of the room it thinks it is in
\* (Room.h:36-68, PacketManager.cpp:641-778).
THEOREM RoomStateListedHolds == Spec => []RoomStateListed
<1>1. Init => RoomStateListed
  BY DEF Init, RoomStateListed
<1>2. TypeOK /\ TypeOK' /\ RoomStateListed /\ [Next]_vars => RoomStateListed'
  BY NextRoomStateListed
<1>3. QED
  BY <1>1, <1>2, TypeCorrectness, PTL DEF Spec

-----------------------------------------------------------------------------
\* Only the chat handler answers a chat request; every other step sends nothing
\* or answers something else.
LEMMA ChatAnswers ==
    ASSUME TypeOK, [Next]_vars
    PROVE  \/ \E i \in Client, k \in Conn : ProcessRoomChatMessage(i, k)
           \/ out'.kind # "ROOM_CHAT"
           \/ UNCHANGED <<out, mCurDomainState, roomIndex>>
<1> USE DEF Silent, Reply
<1>1. CASE UNCHANGED vars
  BY <1>1 DEF vars, userVars
<1>2. CASE Network
  <2>1. out' = Silent
    BY <1>2 DEF Network, OnConnect, OnClose, RecvCompletes, SetPacketData, EnqueuePacketData
  <2>2. QED
    BY <2>1 DEF None
<1>3. CASE \E ok \in BOOLEAN : RedisTaskProcess(ok)
  BY <1>3 DEF RedisTaskProcess, None
<1>4. CASE \/ SwapBuffers \/ ProcessUserConnect \/ ProcessUserDisconnect
           \/ (\E n \in DOMAIN mWriteBuffer : EraseTask(n)) \/ EraseDone \/ ClearUser
           \/ DeleteUserInfo \/ NextStage \/ TakeTask \/ FinishTask
  BY <1>4 DEF SwapBuffers, ProcessUserConnect, ProcessUserDisconnect, EraseTask, EraseDone,
              ClearUser, DeleteUserInfo, NextStage, TakeTask, FinishTask, None
<1>5. CASE ProcessRecvPacket
  <2> DEFINE i == task.client
             p == Head(mPacketDataBuffer[i])
  <2>1. i \in Client
    BY <1>5 DEF TypeOK, LogicTypeOK, ProcessRecvPacket, Task
  <2>2. p \in Packet
    BY <1>5, <2>1, PopType DEF TypeOK, UsersTypeOK, ProcessRecvPacket
  <2>3. p.conn \in Conn
    BY <2>2 DEF Packet
  <2>4. CASE ProcessLogin(i, p.req.arg, p.conn)
    BY <2>4 DEF ProcessLogin, ProcessTestLogin, LoginAlready, LoginAllUsed, LoginToRedis, None
  <2>5. CASE ProcessEnterRoom(i, p.req.arg, p.conn)
    BY <2>5 DEF ProcessEnterRoom
  <2>6. CASE ProcessLeaveRoom(i, p.conn)
    BY <2>6 DEF ProcessLeaveRoom
  <2>7. CASE ProcessOther(p.conn)
    BY <2>7 DEF ProcessOther, None
  <2>8. QED
    BY <1>5, <2>1, <2>3, <2>4, <2>5, <2>6, <2>7 DEF ProcessRecvPacket
<1>6. CASE TakeResponseTask
  <2>1. ProcessLoginDBResult(Head(mResponseTask))
    BY <1>6 DEF TakeResponseTask
  <2>2. out'.kind = "LOGIN"
    BY <2>1 DEF ProcessLoginDBResult
  <2>3. QED
    BY <2>2
<1>7. QED
  BY <1>1, <1>2, <1>3, <1>4, <1>5, <1>6 DEF Next, Logic

\* A chat message goes to the list of the sender's room, and everybody who is in
\* that room is in its list.
LEMMA NextChatReachesRoom ==
    ASSUME TypeOK, RoomStateListed, ChatReachesRoom, [Next]_vars
    PROVE  ChatReachesRoom'
<1>1. ASSUME NEW i \in Client, NEW k \in Conn, ProcessRoomChatMessage(i, k)
      PROVE  ChatReachesRoom'
  <2> DEFINE r == roomIndex[i]
  <2>1. UNCHANGED <<mCurDomainState, roomIndex>>
    BY <1>1 DEF ProcessRoomChatMessage, userVars
  <2>2. CASE mCurDomainState[i] # "ROOM" \/ r \notin Room
    <3>1. out'.result # "NONE"
      BY <1>1, <2>2 DEF ProcessRoomChatMessage, Reply, Silent
    <3>2. QED
      BY <3>1 DEF ChatReachesRoom
  <2>3. CASE mCurDomainState[i] = "ROOM" /\ r \in Room
    <3>1. out'.to = i /\ out'.notice = mUserList[r]
      BY <1>1, <2>3 DEF ProcessRoomChatMessage, Reply, Silent
    <3>2. QED
      BY <2>1, <3>1 DEF ChatReachesRoom, RoomStateListed
  <2>4. QED
    BY <2>2, <2>3
<1>2. CASE out'.kind # "ROOM_CHAT"
  BY <1>2 DEF ChatReachesRoom
<1>3. CASE UNCHANGED <<out, mCurDomainState, roomIndex>>
  BY <1>3 DEF ChatReachesRoom
<1>4. QED
  BY <1>1, <1>2, <1>3, ChatAnswers

\* An accepted chat message is sent to everybody in the sender's room, whoever
\* enters, leaves or disconnects around it (PacketManager.cpp:780-836,
\* Room.h:110-128).
THEOREM ChatReachesRoomHolds == Spec => []ChatReachesRoom
<1>1. Init => ChatReachesRoom
  BY DEF Init, ChatReachesRoom, Silent, None
<1>2. TypeOK /\ RoomStateListed /\ ChatReachesRoom /\ [Next]_vars => ChatReachesRoom'
  BY NextChatReachesRoom
<1>3. QED
  BY <1>1, <1>2, TypeCorrectness, RoomStateListedHolds, PTL DEF Spec
=============================================================================
