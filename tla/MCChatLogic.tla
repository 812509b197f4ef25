---------------------------- MODULE MCChatLogic ----------------------------
(***************************************************************************)
(* ChatLogic for TLC.  The run of the users starts from an empty server or *)
(* from one whose users have logged in and entered rooms, so that a few    *)
(* packets reach what is particular to each.                               *)
(***************************************************************************)
EXTENDS ChatLogic, TLC

Logins == {q \in Request : q.type = "LOGIN"}

AllRequests == Request

\* the server after the indices in on have been connected, have logged in under
\* the test id and, some of them, entered a room, all queues drained
LoggedIn(on) ==
    /\ \E number \in [Client -> 0..Cardinality(on)] :
          /\ \A i \in Client : number[i] = 0 <=> i \notin on
          /\ \A i, j \in on : i # j => number[i] # number[j]
          /\ conn = number
    /\ opened = Cardinality(on) /\ received = 0 /\ recv = {}
    /\ mUserID \in {id \in [Client -> TestID \cup {NoID}] : \A i \in Client : id[i] = NoID <=> i \notin on}
    /\ roomIndex \in {room \in [Client -> Room \cup {NoRoom}] : \A i \in Client \ on : room[i] = NoRoom}
    /\ mCurDomainState = [i \in Client |-> IF i \notin on THEN "NONE"
                                           ELSE IF roomIndex[i] = NoRoom THEN "LOGIN" ELSE "ROOM"]
    /\ mUserList = [r \in Room |-> [i \in Client |-> IF roomIndex[i] = r THEN 1 ELSE 0]]
    /\ mCurrentUserCount = [r \in Room |-> Cardinality({i \in Client : roomIndex[i] = r})]
    /\ \A r \in Room : mCurrentUserCount[r] <= MaxRoomUser
    /\ mGeneration = [i \in Client |-> 0]
    /\ mPacketDataBuffer = [i \in Client |-> << >>]
    /\ mUserIDDictionary \in [ID -> Client \cup {None}]
    /\ \A id \in ID : IF \E i \in Client : mUserID[i] = id
                      THEN mUserIDDictionary[id] # None /\ mUserID[mUserIDDictionary[id]] = id
                      ELSE mUserIDDictionary[id] = None
    /\ mCurrentUserCnt = 0
    /\ mSystemWriteBuffer = << >> /\ mSystemReadBuffer = << >>
    /\ mWriteBuffer = << >> /\ mReadBuffer = << >>
    /\ mRequestTask = << >> /\ mResponseTask = << >>
    /\ pc = "wait" /\ task = NoTask
    /\ owed = [i \in Client |-> 0] /\ ended = {} /\ out = Silent

SpecUsers == (Init \/ \E on \in SUBSET Client : LoggedIn(on)) /\ [][Next]_vars

Symmetry == Permutations(Client) \cup Permutations(RealID) \cup Permutations(TestID)
=============================================================================
