---------------------------- MODULE SessionProofs ----------------------------
(***************************************************************************)
(* Proofs about SessionLifecycle: types; the bound on pending accepts and  *)
(* that a connected session is never deaf, whatever fails; and, as long as *)
(* no socket call fails and no send is cancelled, that an index is in one  *)
(* place at a time and that the end of a connection is reported before its *)
(* index is used again.                                                    *)
(***************************************************************************)
EXTENDS SessionLifecycle, FiniteSetTheorems, TLAPS

-----------------------------------------------------------------------------
\* Where an index is

\* the stages in which a worker owns the index it works on
Holder  == {"post", "accept", "bind", "recv", "deliver", "rebind", "close", "closing",
            "onclose", "free"}
\* the stages among them in which the index is connected
Serving == {"bind", "recv", "deliver", "rebind", "close", "closing"}

Done(i)    == {e \in completions : e.client = i}
Reading(i) == {r \in reads : r.client = i}
Holding(i) == {w \in Worker : work[w].pc \in Holder /\ work[w].client = i}

\* no connection, and the end of the last one has been reported
Unused(i) == ~mIsConnected[i] /\ told[i] = mGeneration[i]
\* a connection whose end has not been reported
InUse(i) == mIsConnected[i] /\ told[i] = mGeneration[i] - 1

InFreeList(i) ==
    /\ \E n \in DOMAIN mFreeSessionList : FreeAt(i) = {n}
    /\ Waiting(i) = {} /\ Done(i) = {} /\ Reading(i) = {} /\ Holding(i) = {}
    /\ Unused(i)

InAccept(i) ==
    /\ \E r \in accepts : Waiting(i) = {r} /\ r.sock = m_socketClient[i]
    /\ FreeAt(i) = {} /\ Done(i) = {} /\ Reading(i) = {} /\ Holding(i) = {}
    /\ Unused(i)

InPort(i) ==
    /\ \E e \in completions :
         /\ Done(i) = {e} /\ e.sock = m_socketClient[i]
         /\ \/ e.op = "ACCEPT" /\ Unused(i)
            \/ e.op = "RECV" /\ InUse(i) /\ recvGeneration[i] = mGeneration[i]
    /\ FreeAt(i) = {} /\ Waiting(i) = {} /\ Reading(i) = {} /\ Holding(i) = {}

InRead(i) ==
    /\ \E r \in reads : Reading(i) = {r} /\ r.sock = m_socketClient[i]
    /\ FreeAt(i) = {} /\ Waiting(i) = {} /\ Done(i) = {} /\ Holding(i) = {}
    /\ InUse(i) /\ recvGeneration[i] = mGeneration[i]

HolderOK(i, j) ==
    /\ j.pc \in {"post", "accept", "free"} => Unused(i)
    /\ j.pc \in Serving => InUse(i)
    /\ j.pc = "onclose" => ~mIsConnected[i] /\ told[i] = mGeneration[i] - 1
    /\ j.pc \in Serving \cup {"accept"} => j.sock = m_socketClient[i] /\ j.sock # INVALID_SOCKET
    /\ j.pc = "recv" => recvGeneration[i] = mGeneration[i]

InWorker(i) ==
    /\ \E w \in Worker : Holding(i) = {w} /\ HolderOK(i, work[w])
    /\ FreeAt(i) = {} /\ Waiting(i) = {} /\ Done(i) = {} /\ Reading(i) = {}

Whereabouts(i) == InFreeList(i) \/ InAccept(i) \/ InPort(i) \/ InRead(i) \/ InWorker(i)

\* sockets belong to one session and are older than the next one created
SocketsDistinct ==
    /\ \A i \in Client : m_socketClient[i] <= created
    /\ \A i, j \in Client : m_socketClient[i] = m_socketClient[j]
                              /\ m_socketClient[i] # INVALID_SOCKET => i = j

\* mClientCnt lags behind the connected sessions by what workers are about to
\* add and to take off
ClientsCounted ==
    mClientCnt = Cardinality({i \in Client : mIsConnected[i]})
                 - Cardinality(At({"bind", "connected"}))
                 + Cardinality(At({"onclose", "free"}))

\* the inductive invariant behind the properties of a server without failures
IndexInv ==
    failed = 0 =>
      /\ \A i \in Client : Whereabouts(i)
      /\ SocketsDistinct
      /\ ClientsCounted
      /\ writes = {}

-----------------------------------------------------------------------------
\* Types

\* What an idle worker has is a job of stage "idle".
LEMMA IdleJob == Idle \in Job /\ Idle.pc = "idle"
  BY CountAssumption DEF Idle, Job, Pc, Client

\* A worker that goes on to another stage keeps the type of its job.
LEMMA GotoType ==
    ASSUME work \in [Worker -> Job], NEW w \in Worker, NEW pc \in Pc, Goto(w, pc)
    PROVE  work' \in [Worker -> Job]
<1>1. [work[w] EXCEPT !.pc = pc] \in Job
  BY DEF Job
<1>2. QED
  BY <1>1, IdleJob DEF Goto

\* A new socket is one of the sockets, and its accept an operation (IOCP.h:588-610).
LEMMA PostType ==
    ASSUME SessionsTypeOK, NEW i \in Client, PostImmediateAccept(i)
    PROVE  /\ created' \in 0..MaxSocket /\ created' \in Socket
           /\ m_socketClient' \in [Client -> Socket \cup {INVALID_SOCKET}]
           /\ accepts' \subseteq Operation /\ failed' \in 0..MaxFail
           /\ mIsConnected' \in [Client -> BOOLEAN] /\ mGeneration' \in [Client -> Nat]
           /\ recvGeneration' \in [Client -> Nat]
<1>1. created' \in 0..MaxSocket /\ created' \in Socket
  BY SocketBoundAssumption DEF SessionsTypeOK, PostImmediateAccept, Socket
<1>2. [client |-> i, sock |-> created'] \in Operation
  BY <1>1 DEF Operation
<1>3. failed' \in 0..MaxFail
  BY SocketBoundAssumption DEF SessionsTypeOK, PostImmediateAccept, Fails
<1>4. QED
  BY <1>1, <1>2, <1>3 DEF SessionsTypeOK, PostImmediateAccept

\* Taking an index off the free list leaves a list of indices (IOCP.h:256-274).
LEMMA PopListType ==
    ASSUME mFreeSessionList \in Seq(Client), mFreeSessionList # << >>, Pop
    PROVE  Top \in Client /\ mFreeSessionList' \in Seq(Client)
  BY DEF Pop, Top

\* Closing a handle turns operations in flight into completions.
LEMMA CloseHandleType ==
    ASSUME SessionsTypeOK, NEW s \in Socket \cup {INVALID_SOCKET}, CloseHandle(s)
    PROVE  reads' \subseteq Operation /\ writes' \subseteq Operation /\ completions' \subseteq Completion
<1>1. ASSUME NEW op \in {"RECV", "SEND"}, NEW r \in Operation, r.sock = s
      PROVE  [op |-> op, client |-> r.client, sock |-> s, zero |-> TRUE] \in Completion
  BY <1>1 DEF Operation, Completion
<1>2. reads \subseteq Operation /\ writes \subseteq Operation /\ completions \subseteq Completion
  BY DEF SessionsTypeOK
<1>3. reads' \subseteq reads /\ writes' \subseteq writes
  BY DEF CloseHandle
<1>4. ASSUME NEW e \in completions'
      PROVE  e \in Completion
  <2>1. \/ e \in completions
        \/ \E r \in reads : r.sock = s
             /\ e = [op |-> "RECV", client |-> r.client, sock |-> s, zero |-> TRUE]
        \/ \E r \in writes : r.sock = s
             /\ e = [op |-> "SEND", client |-> r.client, sock |-> s, zero |-> TRUE]
    BY <1>4 DEF CloseHandle
  <2>2. QED
    BY <1>1, <1>2, <2>1
<1>5. QED
  BY <1>2, <1>3, <1>4

\* Every step keeps the types.
LEMMA NextSessionsTypeOK ==
    ASSUME SessionsTypeOK, [Next]_vars
    PROVE  SessionsTypeOK'
<1> USE DEF sessionVars, listVars, ioVars
<1>1. CASE StartServer
  <2>1. toPost' \in 0..MAX_PENDING_ACCEPT
    BY <1>1, CountAssumption DEF StartServer, SessionsTypeOK
  <2>2. CASE mFreeSessionList # << >> /\ Pop /\ PostImmediateAccept(Top)
    <3>1. Top \in Client /\ mFreeSessionList' \in Seq(Client)
      BY <2>2, PopListType DEF SessionsTypeOK
    <3>2. QED
      BY <1>1, <2>1, <2>2, <3>1, PostType DEF StartServer, SessionsTypeOK
  <2>3. CASE mFreeSessionList = << >>
    BY <1>1, <2>1, <2>3 DEF StartServer, SessionsTypeOK
  <2>4. QED
    BY <1>1, <2>2, <2>3 DEF StartServer
<1>2. ASSUME NEW r \in accepts, ClientConnects(r)
      PROVE  SessionsTypeOK'
  <2>1. [op |-> "ACCEPT", client |-> r.client, sock |-> r.sock, zero |-> TRUE] \in Completion
    BY DEF SessionsTypeOK, Operation, Completion
  <2>2. QED
    BY <1>2, <2>1 DEF ClientConnects, Complete, SessionsTypeOK
<1>3. ASSUME NEW r \in reads, NEW zero \in BOOLEAN, RecvEnds(r, zero)
      PROVE  SessionsTypeOK'
  <2>1. [op |-> "RECV", client |-> r.client, sock |-> r.sock, zero |-> zero] \in Completion
    BY DEF SessionsTypeOK, Operation, Completion
  <2>2. QED
    BY <1>3, <2>1 DEF RecvEnds, Complete, SessionsTypeOK
<1>4. ASSUME NEW i \in Client, SendMsg(i)
      PROVE  SessionsTypeOK'
  <2>1. [client |-> i, sock |-> m_socketClient[i]] \in Operation
    BY <1>4 DEF SendMsg, SessionsTypeOK, Operation
  <2>2. failed' \in 0..MaxFail
    BY <1>4, SocketBoundAssumption DEF SendMsg, SessionsTypeOK, Fails
  <2>3. QED
    BY <1>4, <2>1, <2>2 DEF SendMsg, SessionsTypeOK
<1>5. ASSUME NEW r \in writes, SendFails(r)
      PROVE  SessionsTypeOK'
  <2>1. [op |-> "SEND", client |-> r.client, sock |-> r.sock, zero |-> TRUE] \in Completion
    BY DEF SessionsTypeOK, Operation, Completion
  <2>2. QED
    BY <1>5, <2>1 DEF SendFails, Complete, SessionsTypeOK
<1>6. ASSUME NEW w \in Worker, WorkerThread(w)
      PROVE  SessionsTypeOK'
  <2> DEFINE i == work[w].client
  <2>0. work[w] \in Job /\ i \in Client /\ work[w].then \in Pc
    BY DEF SessionsTypeOK, Job, Pc
  <2>1. ASSUME NEW e \in completions, TakeCompletion(w, e)
        PROVE  SessionsTypeOK'
    <3>1. [pc |-> CASE e.zero /\ e.op # "ACCEPT" -> "close"
                    [] e.op = "ACCEPT" -> "accept"
                    [] OTHER -> "recv",
           client |-> e.client, sock |-> e.sock,
           then |-> IF e.op = "ACCEPT" THEN "refill" ELSE "idle"] \in Job
      BY DEF SessionsTypeOK, Completion, Job, Pc
    <3>2. QED
      BY <2>1, <3>1 DEF TakeCompletion, SessionsTypeOK
  <2>2. CASE AcceptCompletion(w)
    <3>1. \E pc \in {"bind", "close"} : Goto(w, pc)
      BY <2>2 DEF AcceptCompletion
    <3>2. work' \in [Worker -> Job]
      BY <3>1, GotoType DEF SessionsTypeOK, Pc
    <3>3. failed' \in 0..MaxFail
      BY <2>2, SocketBoundAssumption DEF AcceptCompletion, Fails, SessionsTypeOK
    <3>4. mIsConnected' \in [Client -> BOOLEAN] /\ mGeneration' \in [Client -> Nat]
      <4>1. mIsConnected \in [Client -> BOOLEAN] /\ mGeneration \in [Client -> Nat]
        BY DEF SessionsTypeOK
      <4>2. \/ /\ mIsConnected' = [mIsConnected EXCEPT ![i] = TRUE]
               /\ mGeneration' = [mGeneration EXCEPT ![i] = @ + 1]
            \/ UNCHANGED <<mIsConnected, mGeneration>>
        BY <2>2 DEF AcceptCompletion
      <4>3. mIsConnected' \in [Client -> BOOLEAN]
        BY <4>1, <4>2
      <4>4. mGeneration' \in [Client -> Nat]
        BY <4>1, <4>2
      <4>5. QED
        BY <4>3, <4>4
    <3>5. QED
      BY <2>2, <3>2, <3>3, <3>4 DEF AcceptCompletion, SessionsTypeOK
  <2>3. CASE BindRecv(w)
    <3>1. \E pc \in {"connected", "close", "idle"} : Goto(w, pc)
      BY <2>3 DEF BindRecv
    <3>2. work' \in [Worker -> Job]
      BY <3>1, GotoType DEF SessionsTypeOK, Pc
    <3>3. m_socketClient[i] \in Socket \cup {INVALID_SOCKET}
      BY <2>0 DEF SessionsTypeOK
    <3>4. recvGeneration' \in [Client -> Nat]
      BY <2>0, <2>3 DEF BindRecv, SessionsTypeOK
    <3>5. /\ UNCHANGED <<listVars, mGeneration, toPost, accepts, created, told>>
      BY <2>3 DEF BindRecv
    <3>6. CASE /\ m_socketClient[i] # INVALID_SOCKET
               /\ reads' = reads \cup {[client |-> i, sock |-> m_socketClient[i]]}
               /\ UNCHANGED <<mIsConnected, m_socketClient, writes, completions, failed>>
      <4>1. [client |-> i, sock |-> m_socketClient[i]] \in Operation
        BY <2>0, <3>3, <3>6 DEF Operation
      <4>2. QED
        BY <3>2, <3>4, <3>5, <3>6, <4>1 DEF SessionsTypeOK
    <3>7. CASE (Fails \/ UNCHANGED failed) /\ CloseSession(i)
      <4>1. failed' \in 0..MaxFail
        BY <3>7, SocketBoundAssumption DEF Fails, SessionsTypeOK
      <4>2. reads' \subseteq Operation /\ writes' \subseteq Operation /\ completions' \subseteq Completion
        BY <3>3, <3>7, CloseHandleType DEF CloseSession
      <4>3. QED
        BY <2>0, <3>2, <3>4, <3>5, <3>7, <4>1, <4>2 DEF CloseSession, SessionsTypeOK
    <3>8. QED
      BY <2>3, <3>6, <3>7 DEF BindRecv
  <2>4. CASE OnConnect(w) \/ OnReceive(w) \/ OnClose(w) \/ CheckGeneration(w) \/ CheckConnected(w)
    <3>1. \E pc \in Pc : Goto(w, pc)
      BY <2>0, <2>4 DEF OnConnect, OnReceive, OnClose, CheckGeneration, CheckConnected, Pc
    <3>2. work' \in [Worker -> Job]
      BY <3>1, GotoType DEF SessionsTypeOK
    <3>3. mClientCnt \in Int /\ told \in [Client -> Nat]
      BY DEF SessionsTypeOK
    <3>4. mClientCnt' \in Int
      BY <2>4, <3>3 DEF OnConnect, OnReceive, OnClose, CheckGeneration, CheckConnected
    <3>5. told' \in [Client -> Nat]
      BY <2>0, <2>4, <3>3 DEF OnConnect, OnReceive, OnClose, CheckGeneration, CheckConnected
    <3>6. QED
      BY <2>4, <3>2, <3>4, <3>5
         DEF OnConnect, OnReceive, OnClose, CheckGeneration, CheckConnected, SessionsTypeOK
  <2>5. CASE PopFreeSessionIndex(w)
    <3>1. CASE mFreeSessionList # << >> /\ Pop
      <4>1. Top \in Client /\ mFreeSessionList' \in Seq(Client)
        BY <3>1, PopListType DEF SessionsTypeOK
      <4>2. [Idle EXCEPT !.pc = "post", !.client = Top] \in Job
        BY <4>1 DEF Idle, Job, Pc
      <4>3. QED
        BY <2>5, <3>1, <4>1, <4>2, IdleJob DEF PopFreeSessionIndex, SessionsTypeOK
    <3>2. CASE mFreeSessionList = << >>
      BY <2>5, <3>2, IdleJob DEF PopFreeSessionIndex, SessionsTypeOK
    <3>3. QED
      BY <2>5, <3>1, <3>2 DEF PopFreeSessionIndex
  <2>6. CASE RefillAccept(w)
    BY <2>0, <2>6, IdleJob, PostType DEF RefillAccept, SessionsTypeOK
  <2>7. CASE Closed(w)
    <3>1. work' \in [Worker -> Job]
      BY <2>7, GotoType DEF Closed, SessionsTypeOK, Pc
    <3>2. reads' \subseteq Operation /\ writes' \subseteq Operation /\ completions' \subseteq Completion
      BY <2>0, <2>7, CloseHandleType DEF Closed, CloseSession, SessionsTypeOK
    <3>3. QED
      BY <2>0, <2>7, <3>1, <3>2 DEF Closed, CloseSession, SessionsTypeOK
  <2>8. CASE PushFreeSessionIndex(w)
    <3>1. work' \in [Worker -> Job]
      BY <2>0, <2>8, GotoType DEF PushFreeSessionIndex, SessionsTypeOK
    <3>2. mFreeSessionList' \in Seq(Client) /\ mClientCnt' \in Int
      BY <2>0, <2>8 DEF PushFreeSessionIndex, SessionsTypeOK
    <3>3. QED
      BY <2>8, <3>1, <3>2 DEF PushFreeSessionIndex, SessionsTypeOK
  <2>9. QED
    BY <1>6, <2>1, <2>2, <2>3, <2>4, <2>5, <2>6, <2>7, <2>8 DEF WorkerThread
<1>7. CASE UNCHANGED vars
  BY <1>7 DEF vars, SessionsTypeOK
<1>8. QED
  BY <1>1, <1>2, <1>3, <1>4, <1>5, <1>6, <1>7 DEF Next, Environment

\* Sessions, the free list, operations in flight and workers keep their types in
\* every behaviour of the network layer, for any number of sessions, accepts and
\* workers (IOCP.h:256-274, 588-610).
THEOREM SessionsTypeCorrectness == Spec => []SessionsTypeOK
<1>1. Init => SessionsTypeOK
  <2>1. FreeListFilled \in Seq(Client)
    <3>1. FreeListFilled \in [1..maxClientCount -> Client]
      BY CountAssumption DEF FreeListFilled, Client
    <3>2. QED
      BY <3>1, CountAssumption
  <2>2. 0 \in 0..MAX_PENDING_ACCEPT /\ MAX_PENDING_ACCEPT \in 0..MAX_PENDING_ACCEPT
        /\ 0 \in 0..MaxSocket /\ 0 \in 0..MaxFail
    BY CountAssumption, SocketBoundAssumption
  <2>3. QED
    BY <2>1, <2>2, IdleJob DEF Init, SessionsTypeOK
<1>2. SessionsTypeOK /\ [Next]_vars => SessionsTypeOK'
  BY NextSessionsTypeOK
<1>3. QED
  BY <1>1, <1>2, PTL DEF Spec

-----------------------------------------------------------------------------
\* The bound on pending accepts

\* a job that has used up an accept and not replaced it yet
Replacing(j) ==
    \/ j.pc \in {"accept", "bind", "connected", "refill", "post"}
    \/ j.pc \in {"close", "closing", "onclose", "free"} /\ j.then = "refill"

Replacers  == {w \in Worker : Replacing(work[w])}
AcceptDone == {e \in completions : e.op = "ACCEPT"}

AcceptsInv ==
    /\ IsFiniteSet(accepts) /\ IsFiniteSet(AcceptDone)
    /\ toPost + Cardinality(accepts) + Cardinality(AcceptDone) + Cardinality(Replacers)
         <= MAX_PENDING_ACCEPT

\* Sets of workers are finite.
LEMMA WorkersFinite ==
    ASSUME NEW S \in SUBSET Worker
    PROVE  IsFiniteSet(S) /\ Cardinality(S) \in Nat
  BY WorkerAssumption, FS_Subset, FS_CardinalityType

\* One more element adds at most one, one less takes off one.
LEMMA CardinalityStep ==
    ASSUME NEW S, NEW x, IsFiniteSet(S)
    PROVE  /\ Cardinality(S) \in Nat
           /\ IsFiniteSet(S \cup {x}) /\ Cardinality(S \cup {x}) \in Nat
           /\ Cardinality(S \cup {x}) <= Cardinality(S) + 1
           /\ x \notin S => Cardinality(S \cup {x}) = Cardinality(S) + 1
           /\ IsFiniteSet(S \ {x}) /\ Cardinality(S \ {x}) \in Nat
           /\ Cardinality(S \ {x}) <= Cardinality(S)
           /\ x \in S => Cardinality(S \ {x}) = Cardinality(S) - 1
<1>1. Cardinality(S) \in Nat
  BY FS_CardinalityType
<1>2. /\ IsFiniteSet(S \cup {x})
      /\ Cardinality(S \cup {x}) = IF x \in S THEN Cardinality(S) ELSE Cardinality(S) + 1
  BY FS_AddElement
<1>3. /\ IsFiniteSet(S \ {x})
      /\ Cardinality(S \ {x}) = IF x \in S THEN Cardinality(S) - 1 ELSE Cardinality(S)
  BY FS_RemoveElement
<1>4. Cardinality(S \ {x}) \in Nat
  BY <1>3, FS_CardinalityType
<1>5. QED
  BY <1>1, <1>2, <1>3, <1>4

\* The job a worker goes on with.
LEMMA GotoJob ==
    ASSUME work \in [Worker -> Job], NEW w \in Worker, NEW pc \in Pc, Goto(w, pc)
    PROVE  \E j \in Job : /\ work' = [work EXCEPT ![w] = j] /\ j.pc = pc
                          /\ pc # "idle" => /\ j.client = work[w].client
                                            /\ j.sock = work[w].sock /\ j.then = work[w].then
<1>1. CASE pc = "idle"
  BY <1>1, IdleJob DEF Goto
<1>2. CASE pc # "idle"
  <2>1. [work[w] EXCEPT !.pc = pc] \in Job
    BY DEF Job
  <2>2. work' = [work EXCEPT ![w] = [work[w] EXCEPT !.pc = pc]]
    BY <1>2 DEF Goto
  <2>3. /\ [work[w] EXCEPT !.pc = pc].pc = pc
        /\ [work[w] EXCEPT !.pc = pc].client = work[w].client
        /\ [work[w] EXCEPT !.pc = pc].sock = work[w].sock
        /\ [work[w] EXCEPT !.pc = pc].then = work[w].then
    BY DEF Job
  <2>4. QED
    BY <2>1, <2>2, <2>3
<1>3. QED
  BY <1>1, <1>2

\* Apart from taking an accept off the port and posting a new one, a worker's
\* step leaves the accepts alone and starts no replacement (IOCP.h:456-610).
LEMMA ReplacementKept ==
    ASSUME SessionsTypeOK, NEW w \in Worker, WorkerThread(w), ~RefillAccept(w),
           \A e \in completions : TakeCompletion(w, e) => e.op # "ACCEPT"
    PROVE  /\ UNCHANGED <<toPost, accepts>> /\ AcceptDone' = AcceptDone
           /\ \E j \in Job : work' = [work EXCEPT ![w] = j] /\ (Replacing(j) => Replacing(work[w]))
<1> USE DEF sessionVars, listVars, ioVars
<1>0. /\ work \in [Worker -> Job] /\ work[w] \in Job /\ work[w].then \in {"idle", "refill"}
      /\ completions \subseteq Completion
  BY DEF SessionsTypeOK, Job
<1>1. ASSUME NEW e \in completions, TakeCompletion(w, e)
      PROVE  /\ UNCHANGED <<toPost, accepts>> /\ AcceptDone' = AcceptDone
             /\ \E j \in Job : work' = [work EXCEPT ![w] = j] /\ (Replacing(j) => Replacing(work[w]))
  <2> DEFINE j == [pc |-> IF e.zero THEN "close" ELSE "recv",
                   client |-> e.client, sock |-> e.sock, then |-> "idle"]
  <2>1. e.op # "ACCEPT"
    BY <1>1
  <2>2. j \in Job /\ ~Replacing(j)
    BY <1>0 DEF Completion, Job, Pc, Replacing
  <2>3. work' = [work EXCEPT ![w] = j]
    BY <1>1, <2>1 DEF TakeCompletion
  <2>4. AcceptDone' = AcceptDone /\ UNCHANGED <<toPost, accepts>>
    BY <1>1, <2>1 DEF TakeCompletion, AcceptDone
  <2> HIDE DEF j
  <2>5. QED
    BY <2>2, <2>3, <2>4
<1>2. ASSUME NEW i \in Client, CloseHandle(m_socketClient[i])
      PROVE  AcceptDone' = AcceptDone
  BY <1>2 DEF CloseHandle, AcceptDone
<1>3. ASSUME NEW pc \in Pc, Goto(w, pc), UNCHANGED <<toPost, accepts>>, AcceptDone' = AcceptDone,
             \/ pc \in {"idle", "recv", "deliver", "rebind"}
             \/ work[w].pc \in {"accept", "bind", "connected"} /\ pc \in {"bind", "connected", "refill"}
             \/ work[w].pc \in {"accept", "bind"} /\ pc = "close"
             \/ /\ work[w].pc \in {"close", "closing", "onclose", "free"}
                /\ pc \in {"closing", "onclose", "free"} \/ pc = work[w].then
      PROVE  /\ UNCHANGED <<toPost, accepts>> /\ AcceptDone' = AcceptDone
             /\ \E j \in Job : work' = [work EXCEPT ![w] = j] /\ (Replacing(j) => Replacing(work[w]))
  BY <1>0, <1>3, GotoJob DEF Replacing
<1>4. CASE AcceptCompletion(w)
  <2>1. \E pc \in {"bind", "close"} : Goto(w, pc)
    BY <1>4 DEF AcceptCompletion
  <2>2. /\ work[w].pc = "accept" /\ UNCHANGED <<toPost, accepts, completions>>
    BY <1>4 DEF AcceptCompletion
  <2>3. QED
    BY <1>3, <2>1, <2>2 DEF Pc, AcceptDone
<1>5. CASE BindRecv(w)
  <2>1. \/ work[w].pc = "bind" /\ \E pc \in {"connected", "close"} : Goto(w, pc)
        \/ Goto(w, "idle")
    BY <1>5 DEF BindRecv
  <2>2. UNCHANGED <<toPost, accepts>>
    BY <1>5 DEF BindRecv
  <2>3. AcceptDone' = AcceptDone
    <3>1. work[w].client \in Client
      BY <1>0 DEF Job
    <3>2. completions' = completions \/ CloseHandle(m_socketClient[work[w].client])
      BY <1>5 DEF BindRecv, CloseSession
    <3>3. QED
      BY <1>2, <3>1, <3>2 DEF AcceptDone
  <2>4. QED
    BY <1>3, <2>1, <2>2, <2>3 DEF Pc
<1>6. CASE OnConnect(w) \/ OnReceive(w) \/ CheckGeneration(w)
  <2>1. \/ work[w].pc = "connected" /\ Goto(w, "refill")
        \/ \E pc \in {"idle", "deliver", "rebind"} : Goto(w, pc)
    BY <1>6 DEF OnConnect, OnReceive, CheckGeneration
  <2>2. UNCHANGED <<toPost, accepts, completions>>
    BY <1>6 DEF OnConnect, OnReceive, CheckGeneration
  <2>3. QED
    BY <1>3, <2>1, <2>2 DEF Pc, AcceptDone
<1>7. CASE CheckConnected(w) \/ OnClose(w) \/ PushFreeSessionIndex(w)
  <2>1. /\ work[w].pc \in {"close", "onclose", "free"}
        /\ \E pc \in {"closing", "free", work[w].then} : Goto(w, pc)
    BY <1>7 DEF CheckConnected, OnClose, PushFreeSessionIndex
  <2>2. UNCHANGED <<toPost, accepts, completions>>
    BY <1>7 DEF CheckConnected, OnClose, PushFreeSessionIndex
  <2>3. AcceptDone' = AcceptDone
    BY <2>2 DEF AcceptDone
  <2>4. PICK pc \in {"closing", "free", work[w].then} : Goto(w, pc)
    BY <2>1
  <2>5. pc \in Pc
    BY <1>0 DEF Pc
  <2>6. QED
    BY <1>3, <2>1, <2>2, <2>3, <2>4, <2>5
<1>8. CASE Closed(w)
  <2>1. work[w].pc = "closing" /\ Goto(w, "onclose") /\ UNCHANGED <<toPost, accepts>>
    BY <1>8 DEF Closed
  <2>2. AcceptDone' = AcceptDone
    BY <1>0, <1>2, <1>8 DEF Closed, CloseSession, Job
  <2>3. QED
    BY <1>3, <2>1, <2>2 DEF Pc
<1>9. CASE PopFreeSessionIndex(w)
  <2>1. work[w].pc = "refill" /\ UNCHANGED <<toPost, accepts, completions>>
    BY <1>9 DEF PopFreeSessionIndex
  <2>2. \E j \in Job : work' = [work EXCEPT ![w] = j]
    <3>1. CASE mFreeSessionList # << >> /\ Pop
      <4>1. Top \in Client
        BY <3>1, PopListType DEF SessionsTypeOK
      <4>2. [Idle EXCEPT !.pc = "post", !.client = Top] \in Job
        BY <4>1 DEF Idle, Job, Pc
      <4>3. QED
        BY <1>9, <3>1, <4>2 DEF PopFreeSessionIndex
    <3>2. CASE mFreeSessionList = << >>
      BY <1>9, <3>2, IdleJob DEF PopFreeSessionIndex
    <3>3. QED
      BY <1>9, <3>1, <3>2 DEF PopFreeSessionIndex
  <2>3. QED
    BY <2>1, <2>2 DEF AcceptDone, Replacing
<1>10. QED
  BY <1>1, <1>4, <1>5, <1>6, <1>7, <1>8, <1>9 DEF WorkerThread

\* The sum of accepts to post, pending, completed and being replaced never grows.
LEMMA NextAcceptsInv ==
    ASSUME SessionsTypeOK, AcceptsInv, [Next]_vars
    PROVE  AcceptsInv'
<1> USE DEF sessionVars, listVars, ioVars
<1>0. /\ work \in [Worker -> Job] /\ toPost \in Nat /\ MAX_PENDING_ACCEPT \in Nat
      /\ IsFiniteSet(accepts) /\ IsFiniteSet(AcceptDone)
      /\ Cardinality(accepts) \in Nat /\ Cardinality(AcceptDone) \in Nat
      /\ IsFiniteSet(Replacers) /\ Cardinality(Replacers) \in Nat
      /\ toPost + Cardinality(accepts) + Cardinality(AcceptDone) + Cardinality(Replacers)
           <= MAX_PENDING_ACCEPT
  BY CountAssumption, WorkersFinite, FS_CardinalityType DEF SessionsTypeOK, AcceptsInv, Replacers
<1>1. ASSUME NEW i, PostImmediateAccept(i)
      PROVE  /\ IsFiniteSet(accepts') /\ Cardinality(accepts') \in Nat
             /\ Cardinality(accepts') <= Cardinality(accepts) + 1
  <2>1. accepts' = accepts \cup {[client |-> i, sock |-> created']} \/ accepts' = accepts
    BY <1>1 DEF PostImmediateAccept
  <2>2. \A x : /\ IsFiniteSet(accepts \cup {x}) /\ Cardinality(accepts \cup {x}) \in Nat
               /\ Cardinality(accepts \cup {x}) <= Cardinality(accepts) + 1
    BY <1>0, CardinalityStep
  <2>3. CASE accepts' = accepts
    BY <1>0, <2>3
  <2>4. CASE accepts' = accepts \cup {[client |-> i, sock |-> created']}
    <3>1. PICK x : accepts' = accepts \cup {x}
      BY <2>4
    <3>2. QED
      BY <2>2, <3>1
  <2>5. QED
    BY <2>1, <2>3, <2>4
<1>2. CASE StartServer
  <2>1. toPost > 0 /\ toPost' = toPost - 1 /\ UNCHANGED <<completions, work>>
    BY <1>2 DEF StartServer
  <2>2. /\ IsFiniteSet(accepts') /\ Cardinality(accepts') \in Nat
        /\ Cardinality(accepts') <= Cardinality(accepts) + 1
    <3>1. PostImmediateAccept(Top) \/ accepts' = accepts
      BY <1>2 DEF StartServer
    <3>2. QED
      BY <1>0, <1>1, <3>1
  <2>3. AcceptDone' = AcceptDone /\ Replacers' = Replacers
    BY <2>1 DEF AcceptDone, Replacers
  <2>4. QED
    BY <1>0, <2>1, <2>2, <2>3 DEF AcceptsInv
<1>3. ASSUME NEW r \in accepts, ClientConnects(r)
      PROVE  AcceptsInv'
  <2> DEFINE e == [op |-> "ACCEPT", client |-> r.client, sock |-> r.sock, zero |-> TRUE]
  <2>1. accepts' = accepts \ {r} /\ UNCHANGED <<toPost, work>>
    BY <1>3 DEF ClientConnects
  <2>2. AcceptDone' = AcceptDone \cup {e}
    BY <1>3 DEF ClientConnects, Complete, AcceptDone
  <2>3. Replacers' = Replacers
    BY <2>1 DEF Replacers
  <2> HIDE DEF e
  <2>4. /\ IsFiniteSet(accepts') /\ Cardinality(accepts') = Cardinality(accepts) - 1
        /\ IsFiniteSet(AcceptDone') /\ Cardinality(AcceptDone') \in Nat
        /\ Cardinality(AcceptDone') <= Cardinality(AcceptDone) + 1
    BY <1>0, <2>1, <2>2, CardinalityStep
  <2>5. QED
    BY <1>0, <2>1, <2>3, <2>4 DEF AcceptsInv
<1>4. CASE \/ \E r \in reads, zero \in BOOLEAN : RecvEnds(r, zero)
           \/ \E i \in Client : SendMsg(i)
           \/ \E r \in writes : SendFails(r)
           \/ UNCHANGED vars
  <2>1. UNCHANGED <<toPost, accepts, work>>
    BY <1>4 DEF RecvEnds, SendMsg, SendFails, vars
  <2>2. AcceptDone' = AcceptDone
    BY <1>4 DEF RecvEnds, SendMsg, SendFails, vars, Complete, AcceptDone
  <2>3. QED
    BY <1>0, <2>1, <2>2 DEF AcceptsInv, Replacers
<1>5. ASSUME NEW w \in Worker, WorkerThread(w)
      PROVE  AcceptsInv'
  <2>1. ASSUME NEW j, work' = [work EXCEPT ![w] = j]
        PROVE  Replacers' = IF Replacing(j) THEN Replacers \cup {w} ELSE Replacers \ {w}
    BY <1>0, <2>1 DEF Replacers
  <2>2. ASSUME NEW e \in completions, TakeCompletion(w, e), e.op = "ACCEPT"
        PROVE  AcceptsInv'
    <3> DEFINE j == [pc |-> "accept", client |-> e.client, sock |-> e.sock, then |-> "refill"]
    <3>1. AcceptDone' = AcceptDone \ {e} /\ e \in AcceptDone /\ UNCHANGED <<toPost, accepts>>
      BY <2>2 DEF TakeCompletion, AcceptDone
    <3>2. work' = [work EXCEPT ![w] = j] /\ Replacing(j)
      BY <2>2 DEF TakeCompletion, Replacing
    <3> HIDE DEF j
    <3>3. Replacers' = Replacers \cup {w}
      BY <2>1, <3>2
    <3>4. /\ IsFiniteSet(AcceptDone') /\ Cardinality(AcceptDone') = Cardinality(AcceptDone) - 1
          /\ Cardinality(Replacers') \in Nat /\ Cardinality(Replacers') <= Cardinality(Replacers) + 1
      BY <1>0, <3>1, <3>3, CardinalityStep
    <3>5. QED
      BY <1>0, <3>1, <3>4 DEF AcceptsInv
  <2>3. CASE RefillAccept(w)
    <3>1. /\ work[w].pc = "post" /\ work' = [work EXCEPT ![w] = Idle]
          /\ PostImmediateAccept(work[w].client) /\ UNCHANGED <<toPost, completions>>
      BY <2>3 DEF RefillAccept
    <3>2. ~Replacing(Idle) /\ w \in Replacers
      BY <3>1 DEF Replacing, Idle, Replacers
    <3>3. Replacers' = Replacers \ {w} /\ AcceptDone' = AcceptDone
      BY <2>1, <3>1, <3>2 DEF AcceptDone
    <3>4. Cardinality(Replacers') = Cardinality(Replacers) - 1
      BY <1>0, <3>2, <3>3, CardinalityStep
    <3>5. QED
      BY <1>0, <1>1, <3>1, <3>3, <3>4 DEF AcceptsInv
  <2>4. CASE ~RefillAccept(w) /\ \A e \in completions : TakeCompletion(w, e) => e.op # "ACCEPT"
    <3>1. PICK j \in Job : work' = [work EXCEPT ![w] = j] /\ (Replacing(j) => Replacing(work[w]))
      BY <1>5, <2>4, ReplacementKept
    <3>2. UNCHANGED <<toPost, accepts>> /\ AcceptDone' = AcceptDone
      BY <1>5, <2>4, ReplacementKept
    <3>3. Replacers' \in SUBSET Replacers
      BY <2>1, <3>1 DEF Replacers
    <3>4. Cardinality(Replacers') \in Nat /\ Cardinality(Replacers') <= Cardinality(Replacers)
      BY <1>0, <3>3, FS_Subset, FS_CardinalityType
    <3>5. QED
      BY <1>0, <3>2, <3>4 DEF AcceptsInv
  <2>5. QED
    BY <1>5, <2>2, <2>3, <2>4
<1>6. QED
  BY <1>2, <1>3, <1>4, <1>5 DEF Next, Environment

\* The accepts to post, pending, accepted or being replaced are never more than
\* MAX_PENDING_ACCEPT, whichever socket calls fail (IOCP.h:140-150, 482-508).
THEOREM AcceptsBoundedHolds == Spec => []AcceptsBounded
<1>1. Init => AcceptsInv
  <2>1. SUFFICES ASSUME Init PROVE AcceptsInv
    OBVIOUS
  <2>2. accepts = {} /\ AcceptDone = {} /\ Replacers = {} /\ toPost = MAX_PENDING_ACCEPT
    BY <2>1 DEF Init, AcceptDone, Replacers, Replacing, Idle
  <2>3. QED
    BY <2>2, CountAssumption, FS_EmptySet DEF AcceptsInv
<1>2. SessionsTypeOK /\ AcceptsInv /\ [Next]_vars => AcceptsInv'
  BY NextAcceptsInv
<1>3. SessionsTypeOK /\ AcceptsInv => AcceptsBounded
  <2>1. SUFFICES ASSUME SessionsTypeOK, AcceptsInv PROVE AcceptsBounded
    OBVIOUS
  <2> DEFINE A == At({"accept", "bind", "connected", "refill", "post"})
             C == {w \in At({"close", "closing", "onclose", "free"}) : work[w].then = "refill"}
  <2>2. Replacers = A \cup C /\ A \cap C = {} /\ A \in SUBSET Worker /\ C \in SUBSET Worker
    BY DEF Replacers, Replacing, At
  <2> HIDE DEF A, C
  <2>3. Cardinality(Replacers) = Cardinality(A) + Cardinality(C)
    <3>1. IsFiniteSet(A) /\ IsFiniteSet(C) /\ Cardinality(A) \in Nat /\ Cardinality(C) \in Nat
      BY <2>2, WorkersFinite
    <3>2. Cardinality(A \cup C) = Cardinality(A) + Cardinality(C) - Cardinality(A \cap C)
      BY <3>1, FS_Union
    <3>3. Cardinality(A \cap C) = 0
      BY <2>2, FS_EmptySet
    <3>4. QED
      BY <2>2, <3>1, <3>2, <3>3
  <2>4. /\ Cardinality(A) \in Nat /\ Cardinality(C) \in Nat /\ toPost \in Nat
        /\ Cardinality(accepts) \in Nat /\ Cardinality(AcceptDone) \in Nat
    BY <2>1, <2>2, WorkersFinite, FS_CardinalityType DEF AcceptsInv, SessionsTypeOK
  <2>5. toPost + Cardinality(accepts) + Cardinality(AcceptDone) + Cardinality(A) + Cardinality(C)
          <= MAX_PENDING_ACCEPT
    BY <2>1, <2>3, <2>4 DEF AcceptsInv
  <2>6. QED
    BY <2>5 DEF AcceptsBounded, AcceptDone, A, C
<1>4. QED
  BY <1>1, <1>2, <1>3, SessionsTypeCorrectness, PTL DEF Spec

-----------------------------------------------------------------------------
\* How a step moves an index

\* a step that has nothing to do with index k
Same(k) ==
    /\ FreeAt(k)' = FreeAt(k) /\ Waiting(k)' = Waiting(k) /\ Done(k)' = Done(k)
    /\ Reading(k)' = Reading(k) /\ Holding(k)' = Holding(k)
    /\ \A v \in Holding(k) : work'[v] = work[v]
    /\ mIsConnected'[k] = mIsConnected[k] /\ told'[k] = told[k]
    /\ mGeneration'[k] = mGeneration[k] /\ recvGeneration'[k] = recvGeneration[k]
    /\ m_socketClient'[k] = m_socketClient[k]

\* An index that a step has nothing to do with stays where it is.
LEMMA SameKeeps ==
    ASSUME NEW k \in Client, Whereabouts(k), Same(k)
    PROVE  Whereabouts(k)'
<1>1. CASE InFreeList(k)
  <2>1. \A n : FreeAt(k)' = {n} => n \in DOMAIN mFreeSessionList'
    BY DEF FreeAt
  <2>2. InFreeList(k)'
    BY <1>1, <2>1 DEF InFreeList, Same, Unused
  <2>3. QED
    BY <2>2 DEF Whereabouts
<1>2. CASE InAccept(k)
  <2>1. \A r : Waiting(k)' = {r} => r \in accepts'
    BY DEF Waiting
  <2>2. InAccept(k)'
    BY <1>2, <2>1 DEF InAccept, Same, Unused
  <2>3. QED
    BY <2>2 DEF Whereabouts
<1>3. CASE InPort(k)
  <2>1. \A e : Done(k)' = {e} => e \in completions'
    BY DEF Done
  <2>2. InPort(k)'
    BY <1>3, <2>1 DEF InPort, Same, Unused, InUse
  <2>3. QED
    BY <2>2 DEF Whereabouts
<1>4. CASE InRead(k)
  <2>1. \A r : Reading(k)' = {r} => r \in reads'
    BY DEF Reading
  <2>2. InRead(k)'
    BY <1>4, <2>1 DEF InRead, Same, InUse
  <2>3. QED
    BY <2>2 DEF Whereabouts
<1>5. CASE InWorker(k)
  <2>1. InWorker(k)'
    BY <1>5 DEF InWorker, HolderOK, Same, Unused, InUse
  <2>2. QED
    BY <2>1 DEF Whereabouts
<1>6. QED
  BY <1>1, <1>2, <1>3, <1>4, <1>5 DEF Whereabouts

\* An index on the free list is nowhere else.
LEMMA FreeOnly ==
    ASSUME NEW i \in Client, NEW n, Whereabouts(i), n \in FreeAt(i)
    PROVE  FreeAt(i) = {n} /\ Waiting(i) = {} /\ Done(i) = {} /\ Reading(i) = {}
           /\ Holding(i) = {} /\ Unused(i)
  BY DEF Whereabouts, InFreeList, InAccept, InPort, InRead, InWorker

\* An index that waits for a connection is nowhere else.
LEMMA AcceptOnly ==
    ASSUME NEW i \in Client, NEW r, Whereabouts(i), r \in Waiting(i)
    PROVE  FreeAt(i) = {} /\ Waiting(i) = {r} /\ Done(i) = {} /\ Reading(i) = {}
           /\ Holding(i) = {} /\ Unused(i) /\ r.sock = m_socketClient[i]
  BY DEF Whereabouts, InFreeList, InAccept, InPort, InRead, InWorker

\* An index with a completion on the port is nowhere else.
LEMMA PortOnly ==
    ASSUME NEW i \in Client, NEW e, Whereabouts(i), e \in Done(i)
    PROVE  /\ FreeAt(i) = {} /\ Waiting(i) = {} /\ Done(i) = {e} /\ Reading(i) = {}
           /\ Holding(i) = {} /\ e.sock = m_socketClient[i]
           /\ \/ e.op = "ACCEPT" /\ Unused(i)
              \/ e.op = "RECV" /\ InUse(i) /\ recvGeneration[i] = mGeneration[i]
  BY DEF Whereabouts, InFreeList, InAccept, InPort, InRead, InWorker

\* An index with a receive in flight is nowhere else.
LEMMA ReadOnly ==
    ASSUME NEW i \in Client, NEW r, Whereabouts(i), r \in Reading(i)
    PROVE  /\ FreeAt(i) = {} /\ Waiting(i) = {} /\ Done(i) = {} /\ Reading(i) = {r}
           /\ Holding(i) = {} /\ r.sock = m_socketClient[i]
           /\ InUse(i) /\ recvGeneration[i] = mGeneration[i]
  BY DEF Whereabouts, InFreeList, InAccept, InPort, InRead, InWorker

\* An index in the hands of a worker is nowhere else.
LEMMA WorkerOnly ==
    ASSUME NEW i \in Client, NEW w, Whereabouts(i), w \in Holding(i)
    PROVE  /\ FreeAt(i) = {} /\ Waiting(i) = {} /\ Done(i) = {} /\ Reading(i) = {}
           /\ Holding(i) = {w} /\ HolderOK(i, work[w])
  BY DEF Whereabouts, InFreeList, InAccept, InPort, InRead, InWorker

\* A worker whose next job holds index k joins the holders of k.
LEMMA HoldingGains ==
    ASSUME work \in [Worker -> Job], NEW w \in Worker, NEW j, NEW k,
           work' = [work EXCEPT ![w] = j], j.pc \in Holder, j.client = k
    PROVE  Holding(k)' = Holding(k) \cup {w} /\ work'[w] = j
  BY DEF Holding

\* A worker whose next job holds nothing is no holder.
LEMMA HoldingLoses ==
    ASSUME work \in [Worker -> Job], NEW w \in Worker, NEW j, NEW k,
           work' = [work EXCEPT ![w] = j], j.pc \notin Holder
    PROVE  Holding(k)' = Holding(k) \ {w}
  BY DEF Holding

\* A worker whose job does not hold index k, neither before nor after, leaves it.
LEMMA OthersHeld ==
    ASSUME work \in [Worker -> Job], NEW w \in Worker, NEW j, NEW k,
           work' = [work EXCEPT ![w] = j],
           work[w].pc \notin Holder \/ work[w].client # k, j.pc \notin Holder \/ j.client # k
    PROVE  Holding(k)' = Holding(k) /\ \A v \in Holding(k) : work'[v] = work[v]
<1>1. w \notin Holding(k)
  BY DEF Holding
<1>2. \A v \in Worker \ {w} : work'[v] = work[v]
  OBVIOUS
<1>3. Holding(k)' = Holding(k)
  BY <1>1, <1>2 DEF Holding
<1>4. QED
  BY <1>1, <1>2 , <1>3 DEF Holding

\* A pop takes the top of the list and nothing else (IOCP.h:256-264).
LEMMA PopFreeAt ==
    ASSUME mFreeSessionList \in Seq(Client), mFreeSessionList # << >>, Pop, NEW i, i = Top
    PROVE  /\ \E n : n \in FreeAt(i) /\ FreeAt(i)' = FreeAt(i) \ {n}
           /\ \A k : k # i => FreeAt(k)' = FreeAt(k)
<1> DEFINE L == Len(mFreeSessionList)
<1>1. /\ L \in Nat /\ L >= 1 /\ DOMAIN mFreeSessionList = 1..L /\ i = mFreeSessionList[L]
      /\ DOMAIN mFreeSessionList' = 1..(L - 1)
      /\ \A n \in 1..(L - 1) : mFreeSessionList'[n] = mFreeSessionList[n]
  BY DEF Pop, Top
<1> HIDE DEF L
<1>2. L \in FreeAt(i) /\ FreeAt(i)' = FreeAt(i) \ {L}
  BY <1>1 DEF FreeAt
<1>3. \A k : k # i => FreeAt(k)' = FreeAt(k)
  BY <1>1 DEF FreeAt
<1>4. QED
  BY <1>2, <1>3

\* A push adds the index at the top of the list (IOCP.h:266-274).
LEMMA PushFreeAt ==
    ASSUME mFreeSessionList \in Seq(Client), NEW i \in Client,
           mFreeSessionList' = Append(mFreeSessionList, i)
    PROVE  /\ \E n \in DOMAIN mFreeSessionList' : FreeAt(i)' = FreeAt(i) \cup {n}
           /\ \A k : k # i => FreeAt(k)' = FreeAt(k)
<1> DEFINE L == Len(mFreeSessionList)
<1>1. /\ L \in Nat /\ DOMAIN mFreeSessionList = 1..L /\ mFreeSessionList'[L + 1] = i
      /\ DOMAIN mFreeSessionList' = 1..(L + 1)
      /\ \A n \in 1..L : mFreeSessionList'[n] = mFreeSessionList[n]
  OBVIOUS
<1> HIDE DEF L
<1>2. L + 1 \in DOMAIN mFreeSessionList' /\ FreeAt(i)' = FreeAt(i) \cup {L + 1}
  BY <1>1 DEF FreeAt
<1>3. \A k : k # i => FreeAt(k)' = FreeAt(k)
  BY <1>1 DEF FreeAt
<1>4. QED
  BY <1>2, <1>3

\* A worker that goes on with the index it holds keeps it, and no other index.
LEMMA WorkerGoesOn ==
    ASSUME SessionsTypeOK, NEW i \in Client, NEW w \in Worker, NEW j \in Job,
           Whereabouts(i), work[w].pc \in Holder, work[w].client = i,
           j.pc \in Holder, j.client = i, work' = [work EXCEPT ![w] = j], HolderOK(i, j)',
           UNCHANGED <<mFreeSessionList, accepts, completions, reads>>
    PROVE  Whereabouts(i)'
<1>1. w \in Holding(i)
  BY DEF Holding
<1>2. /\ FreeAt(i) = {} /\ Waiting(i) = {} /\ Done(i) = {} /\ Reading(i) = {} /\ Holding(i) = {w}
  BY <1>1, WorkerOnly
<1>3. FreeAt(i)' = {} /\ Waiting(i)' = {} /\ Done(i)' = {} /\ Reading(i)' = {}
  BY <1>2 DEF FreeAt, Waiting, Done, Reading
<1>4. Holding(i)' = {w} /\ work'[w] = j
  <2>1. Holding(i)' = Holding(i) \cup {w} /\ work'[w] = j
    BY HoldingGains DEF SessionsTypeOK
  <2>2. QED
    BY <1>2, <2>1
<1>5. InWorker(i)'
  BY <1>3, <1>4 DEF InWorker
<1>6. QED
  BY <1>5 DEF Whereabouts

\* the state of the sessions outside workers
placeVars == <<mFreeSessionList, accepts, completions, reads, sessionVars, told>>

\* A worker that changes its job only, and holds nothing before and after, moves
\* no index.
LEMMA NothingHeld ==
    ASSUME SessionsTypeOK, NEW k \in Client, Whereabouts(k), NEW w \in Worker, NEW j \in Job,
           work' = [work EXCEPT ![w] = j], work[w].pc \notin Holder, j.pc \notin Holder,
           UNCHANGED placeVars
    PROVE  Whereabouts(k)'
<1>1. Holding(k)' = Holding(k) /\ \A v \in Holding(k) : work'[v] = work[v]
  BY OthersHeld DEF SessionsTypeOK
<1>2. Same(k)
  BY <1>1 DEF Same, placeVars, sessionVars, FreeAt, Waiting, Done, Reading
<1>3. QED
  BY <1>2, SameKeeps

\* Whoever is connected or about to be has its socket to itself, so that closing
\* one session ends no operation of another (ClientSession.h:100-122).
LEMMA CloseTouchesNobody ==
    ASSUME SessionsTypeOK, SocketsDistinct, writes = {}, \A k \in Client : Whereabouts(k),
           NEW i \in Client, Reading(i) = {}, m_socketClient[i] # INVALID_SOCKET,
           CloseHandle(m_socketClient[i])
    PROVE  UNCHANGED <<reads, writes, completions>>
<1>1. ASSUME NEW r \in reads
      PROVE  r.sock # m_socketClient[i]
  <2>1. r.client \in Client /\ r \in Reading(r.client)
    BY DEF SessionsTypeOK, Operation, Reading
  <2>2. r.sock = m_socketClient[r.client]
    BY <2>1, ReadOnly
  <2>3. r.client # i
    BY <2>1
  <2>4. QED
    BY <2>1, <2>2, <2>3 DEF SocketsDistinct
<1>2. reads' = reads /\ writes' = writes
  BY <1>1 DEF CloseHandle
<1>3. completions' = completions
  <2>1. {x \in reads : x.sock = m_socketClient[i]} = {} /\ {x \in writes : x.sock = m_socketClient[i]} = {}
    BY <1>1
  <2>2. QED
    BY <2>1 DEF CloseHandle
<1>4. QED
  BY <1>2, <1>3

\* The steps of StartServer and of the network move one index at most.
LEMMA NetworkMoves ==
    ASSUME SessionsTypeOK, \A k \in Client : Whereabouts(k), writes = {},
           StartServer \/ Environment, failed = 0, failed' = 0
    PROVE  \A k \in Client : Whereabouts(k)'
<1> USE DEF sessionVars, listVars, ioVars
<1>0. /\ mFreeSessionList \in Seq(Client) /\ work \in [Worker -> Job] /\ ~Fails
      /\ accepts \subseteq Operation /\ reads \subseteq Operation
      /\ m_socketClient \in [Client -> Socket \cup {INVALID_SOCKET}]
  BY DEF SessionsTypeOK, Fails
<1>1. CASE StartServer /\ mFreeSessionList # << >>
  <2>1. PICK i \in Client : i = Top
    BY <1>0, <1>1, PopListType DEF StartServer
  <2>2. PICK s : s = created'
    OBVIOUS
  <2>3. Pop /\ PostImmediateAccept(i)
    BY <1>1, <2>1 DEF StartServer
  <2>4. PICK n : n \in FreeAt(i) /\ FreeAt(i)' = FreeAt(i) \ {n}
    BY <1>0, <1>1, <2>1, <2>3, PopFreeAt
  <2>5. \A k : k # i => FreeAt(k)' = FreeAt(k)
    BY <1>0, <1>1, <2>1, <2>3, PopFreeAt
  <2>6. /\ accepts' = accepts \cup {[client |-> i, sock |-> s]}
        /\ m_socketClient' = [m_socketClient EXCEPT ![i] = s]
        /\ UNCHANGED <<mIsConnected, mGeneration, recvGeneration, completions, reads, work, told>>
    BY <1>0, <1>1, <2>2, <2>3 DEF StartServer, PostImmediateAccept
  <2>7. FreeAt(i) = {n} /\ Waiting(i) = {} /\ Done(i) = {} /\ Reading(i) = {}
        /\ Holding(i) = {} /\ Unused(i)
    BY <2>4, FreeOnly
  <2>8. Whereabouts(i)'
    <3>1. Waiting(i)' = {[client |-> i, sock |-> s]}
      BY <2>6, <2>7 DEF Waiting
    <3>2. m_socketClient'[i] = s
      BY <1>0, <2>6
    <3>3. FreeAt(i)' = {} /\ Done(i)' = {} /\ Reading(i)' = {} /\ Holding(i)' = {} /\ Unused(i)'
      BY <2>4, <2>6, <2>7 DEF Done, Reading, Holding, Unused
    <3>4. InAccept(i)'
      <4> DEFINE r == [client |-> i, sock |-> s]
      <4>1. r \in accepts' /\ Waiting(i)' = {r} /\ r.sock = m_socketClient'[i]
        BY <2>6, <3>1, <3>2
      <4> HIDE DEF r
      <4>2. QED
        BY <3>3, <4>1 DEF InAccept
    <3>5. QED
      BY <3>4 DEF Whereabouts
  <2>9. ASSUME NEW k \in Client, k # i
        PROVE  Whereabouts(k)'
    <3>1. Waiting(k)' = Waiting(k) /\ m_socketClient'[k] = m_socketClient[k]
      BY <1>0, <2>6, <2>9 DEF Waiting
    <3>2. Same(k)
      BY <2>5, <2>6, <2>9, <3>1 DEF Same, Done, Reading, Holding
    <3>3. QED
      BY <3>2, SameKeeps
  <2>10. QED
    BY <2>8, <2>9
<1>2. CASE StartServer /\ mFreeSessionList = << >>
  <2>1. UNCHANGED <<placeVars, work>>
    BY <1>2 DEF StartServer, placeVars
  <2>2. \A k \in Client : Same(k)
    BY <2>1 DEF Same, placeVars, FreeAt, Waiting, Done, Reading, Holding
  <2>3. QED
    BY <2>2, SameKeeps
<1>3. ASSUME NEW r \in accepts, ClientConnects(r)
      PROVE  \A k \in Client : Whereabouts(k)'
  <2> DEFINE i == r.client
             e == [op |-> "ACCEPT", client |-> r.client, sock |-> r.sock, zero |-> TRUE]
  <2>1. i \in Client /\ r \in Waiting(i) /\ e.client = i /\ e.sock = r.sock /\ e.op = "ACCEPT"
    BY <1>0 DEF Operation, Waiting
  <2>2. /\ accepts' = accepts \ {r} /\ completions' = completions \cup {e}
        /\ UNCHANGED <<mFreeSessionList, sessionVars, reads, work, told>>
    BY <1>3 DEF ClientConnects, Complete
  <2> HIDE DEF i, e
  <2>3. FreeAt(i) = {} /\ Waiting(i) = {r} /\ Done(i) = {} /\ Reading(i) = {}
        /\ Holding(i) = {} /\ Unused(i) /\ r.sock = m_socketClient[i]
    BY <2>1, AcceptOnly
  <2>4. Whereabouts(i)'
    <3>1. Waiting(i)' = {} /\ Done(i)' = {e}
      BY <2>1, <2>2, <2>3 DEF Waiting, Done
    <3>2. FreeAt(i)' = {} /\ Reading(i)' = {} /\ Holding(i)' = {} /\ Unused(i)'
          /\ e.sock = m_socketClient'[i]
      BY <2>1, <2>2, <2>3 DEF FreeAt, Reading, Holding, Unused
    <3>3. InPort(i)'
      BY <2>1, <2>2, <3>1, <3>2 DEF InPort
    <3>4. QED
      BY <3>3 DEF Whereabouts
  <2>5. ASSUME NEW k \in Client, k # i
        PROVE  Whereabouts(k)'
    <3>1. Waiting(k)' = Waiting(k) /\ Done(k)' = Done(k)
      BY <2>1, <2>2, <2>3, <2>5 DEF Waiting, Done, i
    <3>2. Same(k)
      BY <2>2, <3>1 DEF Same, FreeAt, Reading, Holding
    <3>3. QED
      BY <3>2, SameKeeps
  <2>6. QED
    BY <2>4, <2>5
<1>4. ASSUME NEW r \in reads, NEW zero \in BOOLEAN, RecvEnds(r, zero)
      PROVE  \A k \in Client : Whereabouts(k)'
  <2> DEFINE i == r.client
             e == [op |-> "RECV", client |-> r.client, sock |-> r.sock, zero |-> zero]
  <2>1. i \in Client /\ r \in Reading(i) /\ e.client = i /\ e.sock = r.sock /\ e.op = "RECV"
    BY <1>0 DEF Operation, Reading
  <2>2. /\ reads' = reads \ {r} /\ completions' = completions \cup {e}
        /\ UNCHANGED <<mFreeSessionList, sessionVars, accepts, work, told>>
    BY <1>4 DEF RecvEnds, Complete
  <2> HIDE DEF i, e
  <2>3. /\ FreeAt(i) = {} /\ Waiting(i) = {} /\ Done(i) = {} /\ Reading(i) = {r}
        /\ Holding(i) = {} /\ r.sock = m_socketClient[i]
        /\ InUse(i) /\ recvGeneration[i] = mGeneration[i]
    BY <2>1, ReadOnly
  <2>4. Whereabouts(i)'
    <3>1. Reading(i)' = {} /\ Done(i)' = {e}
      BY <2>1, <2>2, <2>3 DEF Reading, Done
    <3>2. FreeAt(i)' = {} /\ Waiting(i)' = {} /\ Holding(i)' = {} /\ InUse(i)'
          /\ e.sock = m_socketClient'[i] /\ recvGeneration'[i] = mGeneration'[i]
      BY <2>1, <2>2, <2>3 DEF FreeAt, Waiting, Holding, InUse
    <3>3. InPort(i)'
      BY <2>1, <2>2, <3>1, <3>2 DEF InPort
    <3>4. QED
      BY <3>3 DEF Whereabouts
  <2>5. ASSUME NEW k \in Client, k # i
        PROVE  Whereabouts(k)'
    <3>1. Reading(k)' = Reading(k) /\ Done(k)' = Done(k)
      BY <2>1, <2>2, <2>3, <2>5 DEF Reading, Done, i
    <3>2. Same(k)
      BY <2>2, <3>1 DEF Same, FreeAt, Waiting, Holding
    <3>3. QED
      BY <3>2, SameKeeps
  <2>6. QED
    BY <2>4, <2>5
<1>5. CASE (\E i \in Client : SendMsg(i)) \/ (\E r \in writes : SendFails(r))
  BY <1>0, <1>5 DEF SendMsg
<1>6. QED
  BY <1>1, <1>2, <1>3, <1>4, <1>5 DEF Environment

\* The steps of a worker move one index at most (IOCP.h:456-610).
LEMMA WorkerMoves ==
    ASSUME SessionsTypeOK, SocketsDistinct, \A k \in Client : Whereabouts(k), writes = {},
           NEW w \in Worker, WorkerThread(w), failed = 0, failed' = 0
    PROVE  \A k \in Client : Whereabouts(k)'
<1> USE DEF sessionVars, listVars, ioVars
<1>0. /\ mFreeSessionList \in Seq(Client) /\ work \in [Worker -> Job] /\ ~Fails
      /\ completions \subseteq Completion /\ work[w] \in Job
      /\ m_socketClient \in [Client -> Socket \cup {INVALID_SOCKET}]
      /\ mGeneration \in [Client -> Nat] /\ told \in [Client -> Nat]
      /\ recvGeneration \in [Client -> Nat] /\ mIsConnected \in [Client -> BOOLEAN]
  BY DEF SessionsTypeOK, Fails
<1>1. PICK i : i = work[w].client
  OBVIOUS
<1>2. i \in Client /\ Whereabouts(i)
  BY <1>0, <1>1 DEF Job
<1>3. work[w].pc \in Holder => /\ Holding(i) = {w} /\ HolderOK(i, work[w]) /\ Reading(i) = {}
                               /\ FreeAt(i) = {} /\ Waiting(i) = {} /\ Done(i) = {}
  BY <1>1, <1>2, WorkerOnly DEF Holding
\* a worker that stays with its index, with the places of all others unchanged
<1>4. ASSUME NEW pc \in Holder, work[w].pc \in Holder, Goto(w, pc),
             UNCHANGED <<mFreeSessionList, accepts, completions, reads>>,
             \A k \in Client \ {i} :
               /\ mIsConnected'[k] = mIsConnected[k] /\ told'[k] = told[k]
               /\ mGeneration'[k] = mGeneration[k] /\ recvGeneration'[k] = recvGeneration[k]
               /\ m_socketClient'[k] = m_socketClient[k],
             \A j \in Job : j.pc = pc /\ j.sock = work[w].sock => HolderOK(i, j)'
      PROVE  \A k \in Client : Whereabouts(k)'
  <2>1. PICK j \in Job : /\ work' = [work EXCEPT ![w] = j] /\ j.pc = pc
                         /\ j.client = work[w].client /\ j.sock = work[w].sock
    BY <1>0, <1>4, GotoJob DEF Holder, Pc
  <2>2. Whereabouts(i)'
    BY <1>1, <1>2, <1>4, <2>1, WorkerGoesOn
  <2>3. ASSUME NEW k \in Client, k # i
        PROVE  Whereabouts(k)'
    <3>1. Holding(k)' = Holding(k) /\ \A v \in Holding(k) : work'[v] = work[v]
      BY <1>0, <1>1, <2>1, <2>3, OthersHeld
    <3>2. Same(k)
      BY <1>4, <2>3, <3>1 DEF Same, FreeAt, Waiting, Done, Reading
    <3>3. QED
      BY <3>2, SameKeeps
  <2>4. QED
    BY <2>2, <2>3
<1>5. ASSUME NEW e \in completions, TakeCompletion(w, e)
      PROVE  \A k \in Client : Whereabouts(k)'
  <2>1. PICK c : c = e.client
    OBVIOUS
  <2>2. c \in Client /\ e \in Done(c) /\ e.sock \in Socket /\ e.zero \in BOOLEAN
    BY <1>0, <2>1 DEF Completion, Done
  <2>3. /\ FreeAt(c) = {} /\ Waiting(c) = {} /\ Done(c) = {e} /\ Reading(c) = {}
        /\ Holding(c) = {} /\ e.sock = m_socketClient[c]
        /\ \/ e.op = "ACCEPT" /\ Unused(c)
           \/ e.op = "RECV" /\ InUse(c) /\ recvGeneration[c] = mGeneration[c]
    BY <2>2, PortOnly
  <2>4. /\ work[w].pc = "idle" /\ completions' = completions \ {e}
        /\ UNCHANGED <<mFreeSessionList, sessionVars, accepts, reads, told>>
    BY <1>5 DEF TakeCompletion
  <2>5. PICK j : /\ work' = [work EXCEPT ![w] = j] /\ j.client = c /\ j.sock = e.sock
                 /\ j.pc = CASE e.zero /\ e.op # "ACCEPT" -> "close"
                             [] e.op = "ACCEPT" -> "accept"
                             [] OTHER -> "recv"
    <3> DEFINE pc == CASE e.zero /\ e.op # "ACCEPT" -> "close"
                       [] e.op = "ACCEPT" -> "accept"
                       [] OTHER -> "recv"
               job == [pc |-> pc, client |-> e.client, sock |-> e.sock,
                       then |-> IF e.op = "ACCEPT" THEN "refill" ELSE "idle"]
    <3>1. work' = [work EXCEPT ![w] = job]
      BY <1>5 DEF TakeCompletion
    <3>2. job.client = c /\ job.sock = e.sock /\ job.pc = pc
      BY <2>1
    <3> HIDE DEF job
    <3>3. QED
      BY <3>1, <3>2
  <2>6. j.pc \in Holder
    BY <2>5 DEF Holder
  <2>7. Whereabouts(c)'
    <3>1. Done(c)' = {}
      BY <2>3, <2>4 DEF Done
    <3>2. Holding(c)' = {w} /\ work'[w] = j
      <4>1. Holding(c)' = Holding(c) \cup {w} /\ work'[w] = j
        BY <1>0, <2>5, <2>6, HoldingGains
      <4>2. QED
        BY <2>3, <4>1
    <3>3. j.sock = m_socketClient'[c] /\ j.sock # INVALID_SOCKET
      BY <2>2, <2>3, <2>4, <2>5 DEF Socket, INVALID_SOCKET
    <3>4. HolderOK(c, j)'
      <4>1. CASE e.op = "ACCEPT"
        <5>1. j.pc = "accept"
          BY <2>5, <4>1
        <5>2. QED
          BY <2>3, <2>4, <3>3, <4>1, <5>1 DEF HolderOK, Unused, Serving
      <4>2. CASE e.op = "RECV"
        <5>1. j.pc \in {"close", "recv"}
          BY <2>5, <4>2
        <5>2. InUse(c)' /\ recvGeneration'[c] = mGeneration'[c]
          BY <2>3, <2>4, <4>2 DEF InUse
        <5>3. QED
          BY <3>3, <5>1, <5>2 DEF HolderOK, Serving
      <4>3. QED
        BY <2>3, <4>1, <4>2
    <3>5. FreeAt(c)' = {} /\ Waiting(c)' = {} /\ Reading(c)' = {}
      BY <2>3, <2>4 DEF FreeAt, Waiting, Reading
    <3>6. InWorker(c)'
      BY <3>1, <3>2, <3>4, <3>5 DEF InWorker
    <3>7. QED
      BY <3>6 DEF Whereabouts
  <2>8. ASSUME NEW k \in Client, k # c
        PROVE  Whereabouts(k)'
    <3>1. Holding(k)' = Holding(k) /\ \A v \in Holding(k) : work'[v] = work[v]
      <4>1. work[w].pc \notin Holder
        BY <2>4 DEF Holder
      <4>2. QED
        BY <1>0, <2>5, <2>8, <4>1, OthersHeld
    <3>2. Done(k)' = Done(k)
      BY <2>1, <2>4, <2>8 DEF Done
    <3>3. Same(k)
      BY <2>4, <3>1, <3>2 DEF Same, FreeAt, Waiting, Reading
    <3>4. QED
      BY <3>3, SameKeeps
  <2>9. QED
    BY <2>7, <2>8
<1>6. CASE AcceptCompletion(w)
  <2>1. work[w].pc = "accept"
    BY <1>6 DEF AcceptCompletion
  <2>2. /\ mIsConnected' = [mIsConnected EXCEPT ![i] = TRUE]
        /\ mGeneration' = [mGeneration EXCEPT ![i] = @ + 1]
        /\ Goto(w, "bind") /\ UNCHANGED <<listVars, m_socketClient, recvGeneration, ioVars, told>>
    BY <1>0, <1>1, <1>6 DEF AcceptCompletion
  <2>3. told[i] = mGeneration[i] /\ work[w].sock = m_socketClient[i] /\ work[w].sock # INVALID_SOCKET
    BY <1>3, <2>1 DEF HolderOK, Holder, Unused
  <2>4. InUse(i)'
    BY <1>0, <1>2, <2>2, <2>3 DEF InUse
  <2>5. \A j \in Job : j.pc = "bind" /\ j.sock = work[w].sock => HolderOK(i, j)'
    BY <2>2, <2>3, <2>4 DEF HolderOK, Serving
  <2>6. \A k \in Client \ {i} :
               /\ mIsConnected'[k] = mIsConnected[k] /\ told'[k] = told[k]
               /\ mGeneration'[k] = mGeneration[k] /\ recvGeneration'[k] = recvGeneration[k]
               /\ m_socketClient'[k] = m_socketClient[k]
    BY <1>0, <2>2
  <2>7. QED
    BY <1>4, <2>1, <2>2, <2>5, <2>6 DEF Holder
<1>7. CASE BindRecv(w)
  <2>1. work[w].pc \in {"bind", "rebind"}
    BY <1>7 DEF BindRecv
  <2>2. work[w].sock = m_socketClient[i] /\ work[w].sock # INVALID_SOCKET /\ InUse(i)
    BY <1>3, <2>1 DEF HolderOK, Holder, Serving
  <2>3. PICK s : s = m_socketClient[i]
    OBVIOUS
  <2>4. /\ recvGeneration' = [recvGeneration EXCEPT ![i] = mGeneration[i]]
        /\ reads' = reads \cup {[client |-> i, sock |-> s]}
        /\ \E pc \in {"connected", "idle"} : Goto(w, pc)
        /\ UNCHANGED <<listVars, mIsConnected, mGeneration, m_socketClient, accepts, completions, told>>
    BY <1>0, <1>1, <1>7, <2>2, <2>3 DEF BindRecv
  <2>5. PICK j \in Job : work' = [work EXCEPT ![w] = j] /\ j.pc \notin Holder
    <3>1. PICK pc \in {"connected", "idle"} : Goto(w, pc)
      BY <2>4
    <3>2. pc \in Pc /\ pc \notin Holder
      BY <3>1 DEF Pc, Holder
    <3>3. QED
      BY <1>0, <3>1, <3>2, GotoJob
  <2>6. Whereabouts(i)'
    <3>1. FreeAt(i)' = {} /\ Waiting(i)' = {} /\ Done(i)' = {}
      BY <1>3, <2>1, <2>4 DEF FreeAt, Waiting, Done, Holder
    <3>2. Holding(i)' = {}
      <4>1. Holding(i)' = Holding(i) \ {w}
        BY <1>0, <2>5, HoldingLoses
      <4>2. QED
        BY <1>3, <2>1, <4>1 DEF Holder
    <3>3. PICK r : r = [client |-> i, sock |-> s]
      OBVIOUS
    <3>4. reads' = reads \cup {r} /\ r.client = i /\ r.sock = s
      BY <2>4, <3>3
    <3>5. Reading(i) = {}
      BY <1>3, <2>1 DEF Holder
    <3>6. Reading(i)' = {r}
      BY <3>4, <3>5 DEF Reading
    <3>7. InUse(i)' /\ recvGeneration'[i] = mGeneration'[i] /\ r.sock = m_socketClient'[i]
      BY <1>0, <1>2, <2>2, <2>3, <2>4, <3>4 DEF InUse
    <3>8. InRead(i)'
      BY <3>1, <3>2, <3>4, <3>6, <3>7 DEF InRead
    <3>9. QED
      BY <3>8 DEF Whereabouts
  <2>7. ASSUME NEW k \in Client, k # i
        PROVE  Whereabouts(k)'
    <3>1. Holding(k)' = Holding(k) /\ \A v \in Holding(k) : work'[v] = work[v]
      BY <1>0, <1>1, <2>5, <2>7, OthersHeld
    <3>2. Reading(k)' = Reading(k) /\ recvGeneration'[k] = recvGeneration[k]
      BY <1>0, <2>4, <2>7 DEF Reading
    <3>3. Same(k)
      BY <2>4, <3>1, <3>2 DEF Same, FreeAt, Waiting, Done
    <3>4. QED
      BY <3>3, SameKeeps
  <2>8. QED
    BY <2>6, <2>7
<1>8. CASE OnConnect(w)
  <2>1. work[w].pc = "connected" /\ Goto(w, "refill") /\ UNCHANGED placeVars
    BY <1>8 DEF OnConnect, placeVars
  <2>2. PICK j \in Job : work' = [work EXCEPT ![w] = j] /\ j.pc = "refill"
    BY <1>0, <2>1, GotoJob DEF Pc
  <2>3. QED
    BY <2>1, <2>2, NothingHeld DEF Holder
<1>9. CASE PopFreeSessionIndex(w) /\ mFreeSessionList # << >>
  <2>1. PICK c : c = Top
    OBVIOUS
  <2>2. /\ Pop /\ work[w].pc = "refill"
        /\ work' = [work EXCEPT ![w] = [Idle EXCEPT !.pc = "post", !.client = c]]
        /\ UNCHANGED <<sessionVars, ioVars, told>>
    BY <1>9, <2>1 DEF PopFreeSessionIndex
  <2>3. c \in Client
    BY <1>0, <1>9, <2>1, <2>2, PopListType
  <2>4. PICK j : j = [Idle EXCEPT !.pc = "post", !.client = c]
    OBVIOUS
  <2>5. work' = [work EXCEPT ![w] = j] /\ j.pc = "post" /\ j.client = c
    BY <2>2, <2>4 DEF Idle
  <2>6. PICK n : n \in FreeAt(c) /\ FreeAt(c)' = FreeAt(c) \ {n}
    BY <1>0, <1>9, <2>1, <2>2, PopFreeAt
  <2>7. \A k : k # c => FreeAt(k)' = FreeAt(k)
    BY <1>0, <1>9, <2>1, <2>2, PopFreeAt
  <2>8. FreeAt(c) = {n} /\ Waiting(c) = {} /\ Done(c) = {} /\ Reading(c) = {}
        /\ Holding(c) = {} /\ Unused(c)
    BY <2>3, <2>6, FreeOnly
  <2>9. Whereabouts(c)'
    <3>1. FreeAt(c)' = {} /\ Waiting(c)' = {} /\ Done(c)' = {} /\ Reading(c)' = {} /\ Unused(c)'
      BY <2>2, <2>6, <2>8 DEF Waiting, Done, Reading, Unused
    <3>2. Holding(c)' = {w} /\ work'[w] = j
      <4>1. Holding(c)' = Holding(c) \cup {w} /\ work'[w] = j
        BY <1>0, <2>5, HoldingGains DEF Holder
      <4>2. QED
        BY <2>8, <4>1
    <3>3. HolderOK(c, j)'
      BY <2>5, <3>1 DEF HolderOK, Serving
    <3>4. InWorker(c)'
      BY <3>1, <3>2, <3>3 DEF InWorker
    <3>5. QED
      BY <3>4 DEF Whereabouts
  <2>10. ASSUME NEW k \in Client, k # c
         PROVE  Whereabouts(k)'
    <3>1. Holding(k)' = Holding(k) /\ \A v \in Holding(k) : work'[v] = work[v]
      <4>1. work[w].pc \notin Holder
        BY <2>2 DEF Holder
      <4>2. QED
        BY <1>0, <2>5, <2>10, <4>1, OthersHeld
    <3>2. Same(k)
      BY <2>2, <2>7, <2>10, <3>1 DEF Same, Waiting, Done, Reading
    <3>3. QED
      BY <3>2, SameKeeps
  <2>11. QED
    BY <2>9, <2>10
<1>10. CASE PopFreeSessionIndex(w) /\ mFreeSessionList = << >>
  <2>1. work[w].pc = "refill" /\ work' = [work EXCEPT ![w] = Idle] /\ UNCHANGED placeVars
    BY <1>10 DEF PopFreeSessionIndex, placeVars
  <2>2. work[w].pc \notin Holder /\ Idle.pc \notin Holder
    BY <2>1, IdleJob DEF Holder
  <2>3. QED
    BY <2>1, <2>2, IdleJob, NothingHeld
<1>11. CASE RefillAccept(w)
  <2>1. PICK s : s = created'
    OBVIOUS
  <2>2. /\ work[w].pc = "post" /\ work' = [work EXCEPT ![w] = Idle]
        /\ accepts' = accepts \cup {[client |-> i, sock |-> s]}
        /\ m_socketClient' = [m_socketClient EXCEPT ![i] = s]
        /\ UNCHANGED <<mFreeSessionList, mIsConnected, mGeneration, recvGeneration, completions,
                       reads, told>>
    BY <1>0, <1>1, <1>11, <2>1 DEF RefillAccept, PostImmediateAccept
  <2>3. Idle.pc \notin Holder
    BY IdleJob DEF Holder
  <2>4. Whereabouts(i)'
    <3>1. Unused(i) /\ Waiting(i) = {} /\ Holding(i) = {w} /\ FreeAt(i) = {} /\ Done(i) = {}
          /\ Reading(i) = {}
      BY <1>3, <2>2 DEF HolderOK, Holder
    <3>2. FreeAt(i)' = {} /\ Done(i)' = {} /\ Reading(i)' = {} /\ Unused(i)'
      BY <2>2, <3>1 DEF FreeAt, Done, Reading, Unused
    <3>3. Holding(i)' = {}
      <4>1. Holding(i)' = Holding(i) \ {w}
        BY <1>0, <2>2, <2>3, HoldingLoses
      <4>2. QED
        BY <3>1, <4>1
    <3>4. PICK r : r = [client |-> i, sock |-> s]
      OBVIOUS
    <3>5. accepts' = accepts \cup {r} /\ r.client = i /\ r.sock = m_socketClient'[i]
      BY <1>0, <1>2, <2>2, <3>4
    <3>6. Waiting(i)' = {r}
      BY <3>1, <3>5 DEF Waiting
    <3>7. InAccept(i)'
      BY <3>2, <3>3, <3>5, <3>6 DEF InAccept
    <3>8. QED
      BY <3>7 DEF Whereabouts
  <2>5. ASSUME NEW k \in Client, k # i
        PROVE  Whereabouts(k)'
    <3>1. Holding(k)' = Holding(k) /\ \A v \in Holding(k) : work'[v] = work[v]
      BY <1>0, <1>1, <2>2, <2>3, <2>5, OthersHeld
    <3>2. Waiting(k)' = Waiting(k) /\ m_socketClient'[k] = m_socketClient[k]
      BY <1>0, <2>2, <2>5 DEF Waiting
    <3>3. Same(k)
      BY <2>2, <3>1, <3>2 DEF Same, FreeAt, Done, Reading
    <3>4. QED
      BY <3>3, SameKeeps
  <2>6. QED
    BY <2>4, <2>5
<1>12. CASE CheckGeneration(w) \/ OnReceive(w) \/ CheckConnected(w)
  <2>1. work[w].pc \in {"recv", "deliver", "close"} /\ UNCHANGED placeVars
    BY <1>12 DEF CheckGeneration, OnReceive, CheckConnected, placeVars
  <2>2. /\ InUse(i) /\ work[w].sock = m_socketClient[i] /\ work[w].sock # INVALID_SOCKET
        /\ work[w].pc = "recv" => recvGeneration[i] = mGeneration[i]
    BY <1>3, <2>1 DEF HolderOK, Holder, Serving
  <2>3. \E pc \in {"deliver", "rebind", "closing"} : Goto(w, pc)
    BY <1>1, <1>12, <2>2 DEF CheckGeneration, OnReceive, CheckConnected, InUse
  <2>4. \A pc \in {"deliver", "rebind", "closing"}, j \in Job :
            j.pc = pc /\ j.sock = work[w].sock => HolderOK(i, j)'
    BY <2>1, <2>2 DEF HolderOK, InUse, Serving, placeVars
  <2>5. QED
    BY <1>4, <2>1, <2>3, <2>4 DEF Holder, placeVars
<1>13. CASE Closed(w)
  <2>1. work[w].pc = "closing" /\ CloseSession(i) /\ Goto(w, "onclose")
        /\ UNCHANGED <<listVars, mGeneration, recvGeneration, accepts, told>>
    BY <1>1, <1>13 DEF Closed
  <2>2. InUse(i) /\ m_socketClient[i] # INVALID_SOCKET /\ Reading(i) = {}
    BY <1>3, <2>1 DEF HolderOK, Holder, Serving
  <2>3. UNCHANGED <<reads, writes, completions>>
    BY <1>2, <2>1, <2>2, CloseTouchesNobody DEF CloseSession
  <2>4. /\ mIsConnected' = [mIsConnected EXCEPT ![i] = FALSE]
        /\ m_socketClient' = [m_socketClient EXCEPT ![i] = INVALID_SOCKET]
    BY <2>1 DEF CloseSession
  <2>5. \A j \in Job : j.pc = "onclose" /\ j.sock = work[w].sock => HolderOK(i, j)'
    BY <1>0, <1>2, <2>1, <2>2, <2>4 DEF HolderOK, InUse, Serving
  <2>6. \A k \in Client \ {i} :
               /\ mIsConnected'[k] = mIsConnected[k] /\ told'[k] = told[k]
               /\ mGeneration'[k] = mGeneration[k] /\ recvGeneration'[k] = recvGeneration[k]
               /\ m_socketClient'[k] = m_socketClient[k]
    BY <1>0, <2>1, <2>4
  <2>7. QED
    BY <1>4, <2>1, <2>3, <2>5, <2>6 DEF Holder
<1>14. CASE OnClose(w)
  <2>1. /\ work[w].pc = "onclose" /\ told' = [told EXCEPT ![i] = @ + 1] /\ Goto(w, "free")
        /\ UNCHANGED <<listVars, sessionVars, ioVars>>
    BY <1>1, <1>14 DEF OnClose
  <2>2. ~mIsConnected[i] /\ told[i] = mGeneration[i] - 1
    BY <1>3, <2>1 DEF HolderOK, Holder
  <2>3. Unused(i)'
    BY <1>0, <1>2, <2>1, <2>2 DEF Unused
  <2>4. \A j \in Job : j.pc = "free" /\ j.sock = work[w].sock => HolderOK(i, j)'
    BY <2>3 DEF HolderOK, Serving
  <2>5. \A k \in Client \ {i} : told'[k] = told[k]
    BY <1>0, <2>1
  <2>6. QED
    BY <1>4, <2>1, <2>4, <2>5 DEF Holder
<1>15. CASE PushFreeSessionIndex(w)
  <2>1. /\ work[w].pc = "free" /\ mFreeSessionList' = Append(mFreeSessionList, i)
        /\ Goto(w, work[w].then) /\ UNCHANGED <<sessionVars, ioVars, told>>
    BY <1>1, <1>15 DEF PushFreeSessionIndex
  <2>2. PICK j \in Job : work' = [work EXCEPT ![w] = j] /\ j.pc \notin Holder
    <3>1. work[w].then \in Pc /\ work[w].then \notin Holder
      BY <1>0 DEF Job, Pc, Holder
    <3>2. QED
      BY <1>0, <2>1, <3>1, GotoJob
  <2>3. Unused(i) /\ Waiting(i) = {} /\ Holding(i) = {w} /\ FreeAt(i) = {} /\ Done(i) = {}
        /\ Reading(i) = {}
    BY <1>3, <2>1 DEF HolderOK, Holder
  <2>4. PICK n \in DOMAIN mFreeSessionList' : FreeAt(i)' = FreeAt(i) \cup {n}
    BY <1>0, <1>2, <2>1, PushFreeAt
  <2>5. \A k : k # i => FreeAt(k)' = FreeAt(k)
    BY <1>0, <1>2, <2>1, PushFreeAt
  <2>6. Whereabouts(i)'
    <3>1. Holding(i)' = {}
      <4>1. Holding(i)' = Holding(i) \ {w}
        BY <1>0, <2>2, HoldingLoses
      <4>2. QED
        BY <2>3, <4>1
    <3>2. Waiting(i)' = {} /\ Done(i)' = {} /\ Reading(i)' = {} /\ Unused(i)' /\ FreeAt(i)' = {n}
      BY <2>1, <2>3, <2>4 DEF Waiting, Done, Reading, Unused
    <3>3. InFreeList(i)'
      BY <2>4, <3>1, <3>2 DEF InFreeList
    <3>4. QED
      BY <3>3 DEF Whereabouts
  <2>7. ASSUME NEW k \in Client, k # i
        PROVE  Whereabouts(k)'
    <3>1. Holding(k)' = Holding(k) /\ \A v \in Holding(k) : work'[v] = work[v]
      BY <1>0, <1>1, <2>2, <2>7, OthersHeld
    <3>2. Same(k)
      BY <2>1, <2>5, <2>7, <3>1 DEF Same, Waiting, Done, Reading
    <3>3. QED
      BY <3>2, SameKeeps
  <2>8. QED
    BY <2>6, <2>7
<1>16. QED
  BY <1>5, <1>6, <1>7, <1>8, <1>9, <1>10, <1>11, <1>12, <1>13, <1>14, <1>15 DEF WorkerThread

-----------------------------------------------------------------------------
\* Sockets and the count of connections

\* A session gets a new socket or loses the one it has; no two sessions have the
\* same one (IOCP.h:588-610, ClientSession.h:100-122).
LEMMA NextSocketsDistinct ==
    ASSUME SessionsTypeOK, SocketsDistinct, [Next]_vars
    PROVE  SocketsDistinct'
<1> USE DEF sessionVars, listVars, ioVars
<1>0. /\ m_socketClient \in [Client -> Socket \cup {INVALID_SOCKET}] /\ created \in Nat
      /\ \A i \in Client : m_socketClient[i] \in Nat
  BY DEF SessionsTypeOK, Socket, INVALID_SOCKET
<1>1. CASE UNCHANGED <<m_socketClient, created>>
  BY <1>1 DEF SocketsDistinct
<1>2. ASSUME NEW i \in Client, PostImmediateAccept(i)
      PROVE  SocketsDistinct'
  <2>1. created' = created + 1 /\ m_socketClient' = [m_socketClient EXCEPT ![i] = created + 1]
    BY <1>2 DEF PostImmediateAccept
  <2>2. \A k \in Client : m_socketClient[k] <= created
    BY DEF SocketsDistinct
  <2>3. \A k \in Client \ {i} : m_socketClient'[k] = m_socketClient[k]
    BY <1>0, <2>1
  <2>4. m_socketClient'[i] = created + 1
    BY <1>0, <2>1
  <2>5. \A k \in Client : m_socketClient'[k] <= created'
    BY <1>0, <2>1, <2>2, <2>3, <2>4
  <2>6. \A k \in Client \ {i} : m_socketClient'[k] # created + 1
    BY <1>0, <2>2, <2>3
  <2>7. QED
    BY <2>3, <2>4, <2>5, <2>6 DEF SocketsDistinct
<1>3. ASSUME NEW i \in Client, m_socketClient' = [m_socketClient EXCEPT ![i] = INVALID_SOCKET],
             created' = created
      PROVE  SocketsDistinct'
  <2>1. \A k \in Client \ {i} : m_socketClient'[k] = m_socketClient[k]
    BY <1>0, <1>3
  <2>2. m_socketClient'[i] = INVALID_SOCKET /\ INVALID_SOCKET <= created
    BY <1>0, <1>3 DEF INVALID_SOCKET
  <2>3. QED
    BY <1>3, <2>1, <2>2 DEF SocketsDistinct
<1>4. CASE StartServer
  <2>1. mFreeSessionList # << >> /\ Pop => Top \in Client
    BY PopListType DEF SessionsTypeOK
  <2>2. QED
    BY <1>1, <1>2, <1>4, <2>1 DEF StartServer
<1>5. CASE Environment
  BY <1>1, <1>5 DEF Environment, ClientConnects, RecvEnds, SendMsg, SendFails
<1>6. ASSUME NEW w \in Worker, WorkerThread(w)
      PROVE  SocketsDistinct'
  <2>1. work[w].client \in Client
    BY DEF SessionsTypeOK, Job
  <2>2. CASE RefillAccept(w)
    BY <1>2, <2>1, <2>2 DEF RefillAccept
  <2>3. CASE BindRecv(w) \/ Closed(w)
    BY <1>1, <1>3, <2>1, <2>3 DEF BindRecv, Closed, CloseSession
  <2>4. CASE (\E e \in completions : TakeCompletion(w, e)) \/ AcceptCompletion(w) \/ OnConnect(w)
             \/ PopFreeSessionIndex(w) \/ CheckGeneration(w) \/ OnReceive(w) \/ CheckConnected(w)
             \/ OnClose(w) \/ PushFreeSessionIndex(w)
    BY <1>1, <2>4 DEF TakeCompletion, AcceptCompletion, OnConnect, PopFreeSessionIndex,
       CheckGeneration, OnReceive, CheckConnected, OnClose, PushFreeSessionIndex
  <2>5. QED
    BY <1>6, <2>2, <2>3, <2>4 DEF WorkerThread
<1>7. CASE UNCHANGED vars
  BY <1>1, <1>7 DEF vars
<1>8. QED
  BY <1>4, <1>5, <1>6, <1>7 DEF Next

Connected == {i \in Client : mIsConnected[i]}
Counting  == At({"bind", "connected"})
Leaving   == At({"onclose", "free"})

\* What a worker's next job means for the workers at some stages.
LEMMA AtStep ==
    ASSUME work \in [Worker -> Job], NEW w \in Worker, NEW j, work' = [work EXCEPT ![w] = j], NEW S
    PROVE  /\ j.pc \in S => At(S)' = At(S) \cup {w}
           /\ j.pc \notin S => At(S)' = At(S) \ {w}
           /\ w \in At(S) <=> work[w].pc \in S
  BY DEF At

\* The sets that ClientsCounted counts are finite.
LEMMA CountedFinite ==
    /\ IsFiniteSet(Connected) /\ IsFiniteSet(Counting) /\ IsFiniteSet(Leaving)
    /\ Cardinality(Connected) \in Nat /\ Cardinality(Counting) \in Nat /\ Cardinality(Leaving) \in Nat
<1>1. IsFiniteSet(Client)
  BY CountAssumption, FS_Interval DEF Client
<1>2. IsFiniteSet(Connected)
  BY <1>1, FS_Subset DEF Connected
<1>3. QED
  BY <1>2, WorkersFinite, FS_CardinalityType DEF Counting, Leaving, At

\* mClientCnt follows the connections (IOCP.h:484-508, 572-585).
LEMMA NextClientsCounted ==
    ASSUME SessionsTypeOK, \A k \in Client : Whereabouts(k), writes = {}, ClientsCounted, [Next]_vars,
           failed = 0, failed' = 0
    PROVE  ClientsCounted'
<1> USE DEF sessionVars, listVars, ioVars
<1>0. /\ work \in [Worker -> Job] /\ mClientCnt \in Int /\ ~Fails
      /\ mIsConnected \in [Client -> BOOLEAN]
      /\ mClientCnt = Cardinality(Connected) - Cardinality(Counting) + Cardinality(Leaving)
  BY DEF SessionsTypeOK, Fails, ClientsCounted, Connected, Counting, Leaving
<1>1. SUFFICES mClientCnt' = Cardinality(Connected') - Cardinality(Counting') + Cardinality(Leaving')
  BY DEF ClientsCounted, Connected, Counting, Leaving
<1>2. CASE UNCHANGED mClientCnt /\ Connected' = Connected /\ Counting' = Counting /\ Leaving' = Leaving
  BY <1>0, <1>2
<1>3. CASE StartServer \/ Environment \/ UNCHANGED vars
  <2>1. UNCHANGED <<mClientCnt, mIsConnected, work>>
    BY <1>3 DEF StartServer, PostImmediateAccept, Environment, ClientConnects, RecvEnds, SendMsg,
                SendFails, vars
  <2>2. QED
    BY <1>2, <2>1 DEF Connected, Counting, Leaving, At
<1>4. ASSUME NEW w \in Worker, WorkerThread(w)
      PROVE  mClientCnt' = Cardinality(Connected') - Cardinality(Counting') + Cardinality(Leaving')
  <2>1. PICK i : i = work[w].client
    OBVIOUS
  <2>2. i \in Client /\ Whereabouts(i) /\ work[w] \in Job
    BY <1>0, <2>1 DEF Job
  <2>3. work[w].pc \in Holder => HolderOK(i, work[w])
    BY <2>1, <2>2, WorkerOnly DEF Holding
  <2>4. ASSUME NEW j, work' = [work EXCEPT ![w] = j]
        PROVE  /\ (j.pc \in {"bind", "connected"} <=> work[w].pc \in {"bind", "connected"})
                    => Counting' = Counting
               /\ (j.pc \in {"onclose", "free"} <=> work[w].pc \in {"onclose", "free"})
                    => Leaving' = Leaving
    <3>1. ASSUME NEW S, j.pc \in S <=> work[w].pc \in S
          PROVE  At(S)' = At(S)
      <4>1. work'[w] = j /\ \A v \in Worker \ {w} : work'[v] = work[v]
        BY <1>0, <2>4
      <4>2. \A v \in Worker : work'[v].pc \in S <=> work[v].pc \in S
        BY <3>1, <4>1
      <4>3. QED
        BY <4>2 DEF At
    <3>2. QED
      BY <3>1 DEF Counting, Leaving
  <2>5. ASSUME UNCHANGED <<mClientCnt, mIsConnected>>, NEW j, work' = [work EXCEPT ![w] = j],
               j.pc \in {"bind", "connected"} <=> work[w].pc \in {"bind", "connected"},
               j.pc \in {"onclose", "free"} <=> work[w].pc \in {"onclose", "free"}
        PROVE  mClientCnt' = Cardinality(Connected') - Cardinality(Counting') + Cardinality(Leaving')
    BY <1>2, <2>4, <2>5 DEF Connected
  <2>6. ASSUME NEW e \in completions, TakeCompletion(w, e)
        PROVE  mClientCnt' = Cardinality(Connected') - Cardinality(Counting') + Cardinality(Leaving')
    <3> DEFINE j == [pc |-> CASE e.zero /\ e.op # "ACCEPT" -> "close"
                              [] e.op = "ACCEPT" -> "accept"
                              [] OTHER -> "recv",
                     client |-> e.client, sock |-> e.sock,
                     then |-> IF e.op = "ACCEPT" THEN "refill" ELSE "idle"]
    <3>1. j.pc \in {"close", "accept", "recv"}
      OBVIOUS
    <3>2. work[w].pc = "idle" /\ work' = [work EXCEPT ![w] = j] /\ UNCHANGED <<mClientCnt, mIsConnected>>
      BY <2>6 DEF TakeCompletion
    <3> HIDE DEF j
    <3>3. QED
      BY <2>5, <3>1, <3>2
  <2>7. CASE AcceptCompletion(w)
    <3>1. /\ work[w].pc = "accept" /\ mIsConnected' = [mIsConnected EXCEPT ![i] = TRUE]
          /\ Goto(w, "bind") /\ UNCHANGED mClientCnt
      BY <1>0, <2>1, <2>7 DEF AcceptCompletion
    <3>2. PICK j \in Job : work' = [work EXCEPT ![w] = j] /\ j.pc = "bind"
      BY <1>0, <3>1, GotoJob DEF Pc
    <3>3. Connected' = Connected \cup {i} /\ i \notin Connected
      BY <1>0, <2>2, <2>3, <3>1 DEF Connected, HolderOK, Unused, Holder
    <3>4. Counting' = Counting \cup {w} /\ w \notin Counting
      BY <1>0, <3>1, <3>2, AtStep DEF Counting
    <3>5. Leaving' = Leaving
      BY <2>4, <3>1, <3>2
    <3>6. /\ Cardinality(Connected') = Cardinality(Connected) + 1
          /\ Cardinality(Counting') = Cardinality(Counting) + 1
      BY <3>3, <3>4, CountedFinite, CardinalityStep
    <3>7. QED
      BY <1>0, <3>1, <3>5, <3>6, CountedFinite
  <2>8. CASE BindRecv(w)
    <3>1. work[w].pc \in {"bind", "rebind"} /\ UNCHANGED mClientCnt
      BY <2>8 DEF BindRecv
    <3>2. m_socketClient[i] # INVALID_SOCKET
      BY <2>3, <3>1 DEF HolderOK, Holder, Serving
    <3>3. mIsConnected' = mIsConnected /\ Goto(w, IF work[w].pc = "bind" THEN "connected" ELSE "idle")
      BY <1>0, <2>1, <2>8, <3>2 DEF BindRecv
    <3>4. PICK j \in Job : work' = [work EXCEPT ![w] = j]
                           /\ j.pc = IF work[w].pc = "bind" THEN "connected" ELSE "idle"
      BY <1>0, <3>3, GotoJob DEF Pc
    <3>5. QED
      BY <2>5, <3>1, <3>3, <3>4
  <2>9. CASE OnConnect(w)
    <3>1. /\ work[w].pc = "connected" /\ mIsConnected' = mIsConnected
          /\ Goto(w, "refill") /\ mClientCnt' = mClientCnt + 1
      BY <2>9 DEF OnConnect
    <3>2. PICK j \in Job : work' = [work EXCEPT ![w] = j] /\ j.pc = "refill"
      BY <1>0, <3>1, GotoJob DEF Pc
    <3>3. Connected' = Connected
      BY <3>1 DEF Connected
    <3>4. Counting' = Counting \ {w} /\ w \in Counting
      BY <1>0, <3>1, <3>2, AtStep DEF Counting
    <3>5. Leaving' = Leaving
      BY <2>4, <3>1, <3>2
    <3>6. Cardinality(Counting') = Cardinality(Counting) - 1
      BY <3>4, CountedFinite, CardinalityStep
    <3>7. QED
      BY <1>0, <3>1, <3>3, <3>5, <3>6, CountedFinite
  <2>10. CASE PopFreeSessionIndex(w) \/ RefillAccept(w)
    <3>1. /\ work[w].pc \in {"refill", "post"} /\ UNCHANGED <<mClientCnt, mIsConnected>>
          /\ \/ work' = [work EXCEPT ![w] = Idle]
             \/ work' = [work EXCEPT ![w] = [Idle EXCEPT !.pc = "post", !.client = Top]]
      BY <2>10 DEF PopFreeSessionIndex, RefillAccept, PostImmediateAccept
    <3>2. [Idle EXCEPT !.pc = "post", !.client = Top].pc = "post" /\ Idle.pc = "idle"
      BY DEF Idle
    <3>3. PICK j : work' = [work EXCEPT ![w] = j] /\ j.pc \in {"idle", "post"}
      BY <3>1, <3>2
    <3>4. QED
      BY <2>5, <3>1, <3>3
  <2>11. CASE CheckGeneration(w) \/ OnReceive(w) \/ CheckConnected(w)
    <3>1. work[w].pc \in {"recv", "deliver", "close"} /\ UNCHANGED <<mClientCnt, mIsConnected>>
      BY <2>11 DEF CheckGeneration, OnReceive, CheckConnected
    <3>2. \E pc \in {"idle", "deliver", "rebind", "closing", work[w].then} : Goto(w, pc)
      BY <2>11 DEF CheckGeneration, OnReceive, CheckConnected
    <3>3. work[w].then \in {"idle", "refill"}
      BY <2>2 DEF Job
    <3>4. PICK j \in Job : /\ work' = [work EXCEPT ![w] = j]
                           /\ j.pc \in {"idle", "deliver", "rebind", "closing", "refill"}
      BY <1>0, <3>2, <3>3, GotoJob DEF Pc
    <3>5. QED
      BY <2>5, <3>1, <3>4
  <2>12. CASE Closed(w)
    <3>1. /\ work[w].pc = "closing" /\ mIsConnected' = [mIsConnected EXCEPT ![i] = FALSE]
          /\ Goto(w, "onclose") /\ UNCHANGED mClientCnt
      BY <2>1, <2>12 DEF Closed, CloseSession
    <3>2. PICK j \in Job : work' = [work EXCEPT ![w] = j] /\ j.pc = "onclose"
      BY <1>0, <3>1, GotoJob DEF Pc
    <3>3. Connected' = Connected \ {i} /\ i \in Connected
      BY <1>0, <2>2, <2>3, <3>1 DEF Connected, HolderOK, InUse, Holder, Serving
    <3>4. Leaving' = Leaving \cup {w} /\ w \notin Leaving
      BY <1>0, <3>1, <3>2, AtStep DEF Leaving
    <3>5. Counting' = Counting
      BY <2>4, <3>1, <3>2
    <3>6. /\ Cardinality(Connected') = Cardinality(Connected) - 1
          /\ Cardinality(Leaving') = Cardinality(Leaving) + 1
      BY <3>3, <3>4, CountedFinite, CardinalityStep
    <3>7. QED
      BY <1>0, <3>1, <3>5, <3>6, CountedFinite
  <2>13. CASE OnClose(w)
    <3>1. /\ work[w].pc = "onclose" /\ Goto(w, "free") /\ UNCHANGED <<mClientCnt, mIsConnected>>
      BY <2>13 DEF OnClose
    <3>2. PICK j \in Job : work' = [work EXCEPT ![w] = j] /\ j.pc = "free"
      BY <1>0, <3>1, GotoJob DEF Pc
    <3>3. QED
      BY <2>5, <3>1, <3>2
  <2>14. CASE PushFreeSessionIndex(w)
    <3>1. /\ work[w].pc = "free" /\ mIsConnected' = mIsConnected
          /\ Goto(w, work[w].then) /\ mClientCnt' = mClientCnt - 1
      BY <2>14 DEF PushFreeSessionIndex
    <3>2. work[w].then \in {"idle", "refill"}
      BY <2>2 DEF Job
    <3>3. PICK j \in Job : work' = [work EXCEPT ![w] = j] /\ j.pc \in {"idle", "refill"}
      BY <1>0, <3>1, <3>2, GotoJob DEF Pc
    <3>4. Connected' = Connected
      BY <3>1 DEF Connected
    <3>5. Leaving' = Leaving \ {w} /\ w \in Leaving
      BY <1>0, <3>1, <3>3, AtStep DEF Leaving
    <3>6. Counting' = Counting
      BY <2>4, <3>1, <3>3
    <3>7. Cardinality(Leaving') = Cardinality(Leaving) - 1
      BY <3>5, CountedFinite, CardinalityStep
    <3>8. QED
      BY <1>0, <3>1, <3>4, <3>6, <3>7, CountedFinite
  <2>15. QED
    BY <1>4, <2>6, <2>7, <2>8, <2>9, <2>10, <2>11, <2>12, <2>13, <2>14 DEF WorkerThread
<1>5. QED
  BY <1>3, <1>4 DEF Next

-----------------------------------------------------------------------------
\* The server without failures

\* At the start every index is on the free list, once (IOCP.h:240-254).
LEMMA InitIndexInv == Init => IndexInv
<1>1. SUFFICES ASSUME Init PROVE IndexInv
  OBVIOUS
<1>2. /\ DOMAIN mFreeSessionList = 1..maxClientCount
      /\ \A k \in 1..maxClientCount : mFreeSessionList[k] = maxClientCount - k
  BY <1>1 DEF Init, FreeListFilled
<1>3. \A S : "idle" \notin S => At(S) = {}
  BY <1>1 DEF Init, At, Idle
<1>4. ASSUME NEW i \in Client
      PROVE  Whereabouts(i)
  <2>1. i \in Int /\ maxClientCount - i \in 1..maxClientCount
        /\ maxClientCount - (maxClientCount - i) = i
    BY CountAssumption DEF Client
  <2>2. FreeAt(i) = {maxClientCount - i}
    <3>1. \A k \in 1..maxClientCount : maxClientCount - k = i => k = maxClientCount - i
      BY <2>1, CountAssumption
    <3>2. QED
      BY <1>2, <2>1, <3>1 DEF FreeAt
  <2>3. Waiting(i) = {} /\ Done(i) = {} /\ Reading(i) = {}
    BY <1>1 DEF Init, Waiting, Done, Reading
  <2>4. Holding(i) = {}
    BY <1>1, IdleJob DEF Init, Holding, Holder
  <2>5. Unused(i)
    BY <1>1 DEF Init, Unused
  <2>6. InFreeList(i)
    BY <1>2, <2>1, <2>2, <2>3, <2>4, <2>5 DEF InFreeList
  <2>7. QED
    BY <2>6 DEF Whereabouts
<1>5. SocketsDistinct
  BY <1>1 DEF Init, SocketsDistinct, INVALID_SOCKET
<1>6. ClientsCounted
  <2>1. At({"bind", "connected"}) = {} /\ At({"onclose", "free"}) = {}
    BY <1>3
  <2>2. {i \in Client : mIsConnected[i]} = {} /\ mClientCnt = 0
    BY <1>1 DEF Init
  <2>3. QED
    BY <2>1, <2>2, FS_EmptySet DEF ClientsCounted
<1>7. QED
  BY <1>1, <1>4, <1>5, <1>6 DEF IndexInv, Init

\* A socket call that fails is counted for good.
LEMMA FailuresKept ==
    ASSUME SessionsTypeOK, [Next]_vars
    PROVE  failed' = failed \/ failed' = failed + 1
<1> USE DEF sessionVars, listVars, ioVars, Fails
<1>1. CASE StartServer \/ Environment \/ UNCHANGED vars
  BY <1>1 DEF StartServer, PostImmediateAccept, Environment, ClientConnects, RecvEnds, SendMsg,
              SendFails, vars
<1>2. ASSUME NEW w \in Worker, WorkerThread(w)
      PROVE  failed' = failed \/ failed' = failed + 1
  BY <1>2 DEF WorkerThread, TakeCompletion, AcceptCompletion, BindRecv, OnConnect,
              PopFreeSessionIndex, RefillAccept, PostImmediateAccept, CheckGeneration, OnReceive,
              CheckConnected, Closed, OnClose, PushFreeSessionIndex
<1>3. QED
  BY <1>1, <1>2 DEF Next

\* Every step keeps the invariant.
LEMMA NextIndexInv ==
    ASSUME SessionsTypeOK, IndexInv, [Next]_vars
    PROVE  IndexInv'
<1> USE DEF sessionVars, listVars, ioVars
<1>1. SUFFICES ASSUME failed' = 0
               PROVE  (\A k \in Client : Whereabouts(k)') /\ SocketsDistinct' /\ ClientsCounted'
                      /\ writes' = {}
  BY DEF IndexInv
<1>2. failed = 0
  BY <1>1, FailuresKept DEF SessionsTypeOK
<1>3. (\A k \in Client : Whereabouts(k)) /\ SocketsDistinct /\ ClientsCounted /\ writes = {}
  BY <1>2 DEF IndexInv
<1>4. SocketsDistinct' /\ ClientsCounted'
  BY <1>1, <1>2, <1>3, NextSocketsDistinct, NextClientsCounted
<1>5. \A k \in Client : Whereabouts(k)'
  <2>1. CASE StartServer \/ Environment
    BY <1>1, <1>2, <1>3, <2>1, NetworkMoves
  <2>2. CASE \E w \in Worker : WorkerThread(w)
    BY <1>1, <1>2, <1>3, <2>2, WorkerMoves
  <2>3. CASE UNCHANGED vars
    <3>1. \A k \in Client : Same(k)
      BY <2>3 DEF vars, Same, FreeAt, Waiting, Done, Reading, Holding
    <3>2. QED
      BY <1>3, <3>1, SameKeeps
  <2>4. QED
    BY <2>1, <2>2, <2>3 DEF Next
<1>6. writes' = {}
  <2>1. ~Fails
    BY <1>1, <1>2 DEF Fails
  <2>2. CASE StartServer \/ Environment \/ UNCHANGED vars
    BY <1>3, <2>1, <2>2 DEF StartServer, Environment, ClientConnects, RecvEnds, SendMsg, SendFails, vars
  <2>3. ASSUME NEW w \in Worker, WorkerThread(w)
        PROVE  writes' = {}
    BY <1>3, <2>3 DEF WorkerThread, TakeCompletion, AcceptCompletion, BindRecv, OnConnect,
              PopFreeSessionIndex, RefillAccept, CheckGeneration, OnReceive, CloseSession, CloseHandle,
              CheckConnected, Closed, OnClose, PushFreeSessionIndex
  <2>4. QED
    BY <2>2, <2>3 DEF Next
<1>7. QED
  BY <1>4, <1>5, <1>6

\* IndexInv holds in every behaviour: no index is lost or used twice as long as no
\* socket call fails (IOCP.h:256-274, 456-610).
THEOREM IndexInvHolds == Spec => []IndexInv
<1>1. Init => IndexInv
  BY InitIndexInv
<1>2. SessionsTypeOK /\ IndexInv /\ [Next]_vars => IndexInv'
  BY NextIndexInv
<1>3. QED
  BY <1>1, <1>2, SessionsTypeCorrectness, PTL DEF Spec

\* Where an index is decides the counts that IndexInOnePlace adds up.
LEMMA PlaceCounts ==
    ASSUME SessionsTypeOK, NEW i \in Client, Whereabouts(i)
    PROVE  Cardinality(FreeAt(i)) + Cardinality(Waiting(i)) + Cardinality(Accepted(i))
             + Cardinality(HeldBy(i)) + (IF mIsConnected[i] THEN 1 ELSE 0) = 1
<1>1. Accepted(i) = {e \in Done(i) : e.op = "ACCEPT"}
  BY DEF Accepted, Done
<1>2. HeldBy(i) = {w \in Holding(i) : work[w].pc \in {"accept", "post", "onclose", "free"}}
  BY DEF HeldBy, At, Holding, Holder
<1>3. Cardinality({}) = 0 /\ \A x : Cardinality({x}) = 1
  BY FS_EmptySet, FS_Singleton
<1>4. CASE InFreeList(i)
  <2>1. Accepted(i) = {} /\ HeldBy(i) = {}
    BY <1>1, <1>2, <1>4 DEF InFreeList
  <2>2. Cardinality(FreeAt(i)) = 1 /\ Waiting(i) = {} /\ ~mIsConnected[i]
    BY <1>3, <1>4 DEF InFreeList, Unused
  <2>3. QED
    BY <1>3, <2>1, <2>2
<1>5. CASE InAccept(i)
  <2>1. Accepted(i) = {} /\ HeldBy(i) = {}
    BY <1>1, <1>2, <1>5 DEF InAccept
  <2>2. Cardinality(Waiting(i)) = 1 /\ FreeAt(i) = {} /\ ~mIsConnected[i]
    BY <1>3, <1>5 DEF InAccept, Unused
  <2>3. QED
    BY <1>3, <2>1, <2>2
<1>6. CASE InPort(i)
  <2>1. PICK e : /\ Done(i) = {e}
                 /\ \/ e.op = "ACCEPT" /\ Unused(i)
                    \/ e.op = "RECV" /\ InUse(i)
    BY <1>6 DEF InPort
  <2>2. HeldBy(i) = {} /\ FreeAt(i) = {} /\ Waiting(i) = {}
    BY <1>2, <1>6 DEF InPort
  <2>3. CASE e.op = "ACCEPT" /\ Unused(i)
    <3>1. Accepted(i) = {e}
      BY <1>1, <2>1, <2>3
    <3>2. Cardinality(Accepted(i)) = 1 /\ ~mIsConnected[i]
      BY <1>3, <2>3, <3>1 DEF Unused
    <3>3. QED
      BY <1>3, <2>2, <3>2
  <2>4. CASE e.op = "RECV" /\ InUse(i)
    <3>1. Accepted(i) = {}
      BY <1>1, <2>1, <2>4
    <3>2. QED
      BY <1>3, <2>2, <2>4, <3>1 DEF InUse
  <2>5. QED
    BY <2>1, <2>3, <2>4
<1>7. CASE InRead(i)
  <2>1. Accepted(i) = {} /\ HeldBy(i) = {}
    BY <1>1, <1>2, <1>7 DEF InRead
  <2>2. QED
    BY <1>3, <1>7, <2>1 DEF InRead, InUse
<1>8. CASE InWorker(i)
  <2>1. PICK w \in Worker : Holding(i) = {w} /\ HolderOK(i, work[w])
    BY <1>8 DEF InWorker
  <2>2. Accepted(i) = {} /\ FreeAt(i) = {} /\ Waiting(i) = {}
    BY <1>1, <1>8 DEF InWorker
  <2>3. CASE work[w].pc \in {"accept", "post", "onclose", "free"}
    <3>1. HeldBy(i) = {w}
      BY <1>2, <2>1, <2>3
    <3>2. ~mIsConnected[i]
      BY <2>1, <2>3 DEF HolderOK, Unused
    <3>3. Cardinality(HeldBy(i)) = 1
      BY <1>3, <3>1
    <3>4. QED
      BY <1>3, <2>2, <3>2, <3>3
  <2>4. CASE work[w].pc \notin {"accept", "post", "onclose", "free"}
    <3>1. HeldBy(i) = {}
      BY <1>2, <2>1, <2>4
    <3>2. work[w].pc \in Serving
      BY <2>1, <2>4 DEF Holding, Holder, Serving
    <3>3. mIsConnected[i]
      BY <2>1, <3>2 DEF HolderOK, InUse
    <3>4. QED
      BY <1>3, <2>2, <3>1, <3>3
  <2>5. QED
    BY <2>3, <2>4
<1>9. QED
  BY <1>4, <1>5, <1>6, <1>7, <1>8 DEF Whereabouts

\* As long as no socket call fails, an index is in exactly one place, for any
\* number of sessions, accepts and workers, and mClientCnt is exact up to the
\* connections that workers are adding or taking off (IOCP.h:484-508, 572-610).
THEOREM IndexInOnePlaceHolds == Spec => []IndexInOnePlace
<1>1. SessionsTypeOK /\ IndexInv => IndexInOnePlace
  BY PlaceCounts DEF IndexInv, IndexInOnePlace, ClientsCounted
<1>2. QED
  BY <1>1, SessionsTypeCorrectness, IndexInvHolds, PTL

\* As long as no socket call fails, OnClose of one connection comes before the
\* index is free, waiting or accepted again, and comes once (IOCP.h:572-585).
THEOREM EndReportedBeforeReuseHolds == Spec => []EndReportedBeforeReuse
<1>1. IndexInv => EndReportedBeforeReuse
  <2>1. SUFFICES ASSUME IndexInv, failed = 0, NEW i \in Client
                 PROVE  /\ (FreeAt(i) # {} \/ Waiting(i) # {} \/ Accepted(i) # {})
                             => told[i] = mGeneration[i]
                        /\ mIsConnected[i] => told[i] = mGeneration[i] - 1
    BY DEF EndReportedBeforeReuse
  <2>2. Whereabouts(i)
    BY <2>1 DEF IndexInv
  <2>3. ASSUME FreeAt(i) # {} \/ Waiting(i) # {} \/ Accepted(i) # {}
        PROVE  told[i] = mGeneration[i]
    <3>1. CASE FreeAt(i) # {}
      BY <2>2, <3>1, FreeOnly DEF Unused
    <3>2. CASE Waiting(i) # {}
      BY <2>2, <3>2, AcceptOnly DEF Unused
    <3>3. CASE Accepted(i) # {}
      <4>1. PICK e : e \in Done(i) /\ e.op = "ACCEPT"
        BY <3>3 DEF Accepted, Done
      <4>2. QED
        BY <2>2, <4>1, PortOnly DEF Unused
    <3>4. QED
      BY <2>3, <3>1, <3>2, <3>3
  <2>4. ASSUME mIsConnected[i]
        PROVE  told[i] = mGeneration[i] - 1
    <3>1. CASE InWorker(i)
      <4>1. PICK w \in Worker : w \in Holding(i) /\ HolderOK(i, work[w])
        BY <3>1 DEF InWorker
      <4>2. work[w].pc \in Serving
        BY <2>4, <4>1 DEF Holding, Holder, Serving, HolderOK, Unused
      <4>3. QED
        BY <4>1, <4>2 DEF HolderOK, InUse
    <3>2. CASE ~InWorker(i)
      BY <2>2, <2>4, <3>2 DEF Whereabouts, InFreeList, InAccept, InPort, InRead, Unused, InUse
    <3>3. QED
      BY <3>1, <3>2
  <2>5. QED
    BY <2>3, <2>4
<1>2. QED
  BY <1>1, IndexInvHolds, PTL

-----------------------------------------------------------------------------
\* A connected session is heard of again

\* the stages from which a worker posts a receive for its index or closes it
Hearing == {"bind", "recv", "deliver", "rebind", "close", "closing"}

\* The receive of a session bears the generation of its connection, except while
\* the worker that accepted the connection is about to post its first receive.
\* So what CheckGeneration drops is never the last that is heard of a connection.
HeardInv ==
    /\ \A i \in Client : recvGeneration[i] # mGeneration[i] =>
         \E w \in Worker : work[w].pc = "bind" /\ work[w].client = i
    /\ ConnectedIsHeard

\* A receive in flight or completed for session i stays one or the other.
ReceivesKept(i) ==
    /\ \A r \in reads : r.client = i =>
         r \in reads' \/ \E e \in completions' : e.op = "RECV" /\ e.client = i
    /\ \A e \in completions : e.op = "RECV" /\ e.client = i => e \in completions'

\* Closing a handle completes the receives in flight on it.
LEMMA CloseKeepsReceives ==
    ASSUME NEW s, CloseHandle(s), NEW i
    PROVE  ReceivesKept(i)
<1>1. ASSUME NEW r \in reads, r.client = i
      PROVE  r \in reads' \/ \E e \in completions' : e.op = "RECV" /\ e.client = i
  <2>1. CASE r.sock = s
    <3>1. [op |-> "RECV", client |-> r.client, sock |-> s, zero |-> TRUE] \in completions'
      BY <2>1 DEF CloseHandle
    <3>2. QED
      BY <1>1, <3>1
  <2>2. CASE r.sock # s
    BY <2>2 DEF CloseHandle
  <2>3. QED
    BY <2>1, <2>2
<1>2. QED
  BY <1>1 DEF CloseHandle, ReceivesKept

\* A session that is heard of by other means than worker w stays so when only w moves.
LEMMA HeardFromOthers ==
    ASSUME NEW i \in Client, NEW w \in Worker, Heard(i), ReceivesKept(i),
           \A v \in Worker \ {w} : work'[v] = work[v],
           ~(work[w].pc \in Hearing /\ work[w].client = i)
    PROVE  Heard(i)'
<1>1. CASE \E r \in reads : r.client = i
  BY <1>1 DEF Heard, ReceivesKept
<1>2. CASE \E e \in completions : e.op = "RECV" /\ e.client = i
  BY <1>2 DEF Heard, ReceivesKept
<1>3. CASE \E v \in Worker : work[v].pc \in Hearing /\ work[v].client = i
  <2>1. PICK v \in Worker : work[v].pc \in Hearing /\ work[v].client = i
    BY <1>3
  <2>2. v # w /\ work'[v] = work[v]
    BY <2>1
  <2>3. QED
    BY <2>1, <2>2 DEF Heard, At, Hearing
<1>4. QED
  BY <1>1, <1>2, <1>3 DEF Heard, At, Hearing

\* A session on which worker w goes on working towards a receive or a close is
\* heard of.
LEMMA HeardFromWorker ==
    ASSUME NEW i \in Client, NEW w \in Worker, work'[w].pc \in Hearing, work'[w].client = i
    PROVE  Heard(i)'
  BY DEF Heard, At, Hearing

\* The steps of the network and of StartServer.
LEMMA NetworkKeepsHeard ==
    ASSUME SessionsTypeOK, HeardInv, StartServer \/ Environment
    PROVE  HeardInv'
<1>1. UNCHANGED <<mIsConnected, mGeneration, recvGeneration, work>>
  BY DEF StartServer, PostImmediateAccept, Environment, ClientConnects, RecvEnds, SendMsg,
         SendFails, sessionVars
<1>2. ASSUME NEW i \in Client
      PROVE  ReceivesKept(i)
  <2>1. CASE StartServer \/ \E j \in Client : SendMsg(j)
    BY <2>1 DEF StartServer, SendMsg, ReceivesKept
  <2>2. CASE (\E r \in accepts : ClientConnects(r)) \/ \E r \in writes : SendFails(r)
    BY <2>2 DEF ClientConnects, SendFails, Complete, ReceivesKept
  <2>3. ASSUME NEW r \in reads, NEW zero \in BOOLEAN, RecvEnds(r, zero)
        PROVE  ReceivesKept(i)
    <3>1. [op |-> "RECV", client |-> r.client, sock |-> r.sock, zero |-> zero] \in completions'
      BY <2>3 DEF RecvEnds, Complete
    <3>2. r.client = i => \E e \in completions' : e.op = "RECV" /\ e.client = i
      BY <3>1
    <3>3. completions \subseteq completions' /\ reads' = reads \ {r}
      BY <2>3 DEF RecvEnds, Complete
    <3>4. QED
      BY <3>2, <3>3 DEF ReceivesKept
  <2>4. QED
    BY <2>1, <2>2, <2>3 DEF Environment
<1>3. ASSUME NEW i \in Client, Heard(i)
      PROVE  Heard(i)'
  BY <1>1, <1>2, <1>3 DEF Heard, At, ReceivesKept
<1>4. QED
  BY <1>1, <1>3 DEF HeardInv, ConnectedIsHeard

\* The steps of the workers (IOCP.h:456-610).
LEMMA WorkerKeepsHeard ==
    ASSUME SessionsTypeOK, HeardInv, NEW w \in Worker, WorkerThread(w)
    PROVE  HeardInv'
<1> DEFINE c == work[w].client
<1>0. /\ work \in [Worker -> Job] /\ work[w] \in Job /\ c \in Client /\ work[w].then \in Pc
      /\ mIsConnected \in [Client -> BOOLEAN]
      /\ mGeneration \in [Client -> Nat] /\ recvGeneration \in [Client -> Nat]
  BY DEF SessionsTypeOK, Job, Pc
<1>1. \A v \in Worker \ {w} : work'[v] = work[v]
  BY <1>0 DEF WorkerThread, TakeCompletion, AcceptCompletion, BindRecv, OnConnect,
         PopFreeSessionIndex, RefillAccept, CheckGeneration, OnReceive, CheckConnected,
         Closed, OnClose, PushFreeSessionIndex, Goto
<1>2. \A i \in Client : mIsConnected[i] => Heard(i)
  BY DEF HeardInv, ConnectedIsHeard
<1>3. \A i \in Client : recvGeneration[i] # mGeneration[i] =>
        \E v \in Worker : work[v].pc = "bind" /\ work[v].client = i
  BY DEF HeardInv
\* a step that stamps no generation and does not start or end a "bind"
<1>4. ASSUME UNCHANGED <<mGeneration, recvGeneration>>, work[w].pc # "bind"
      PROVE  \A i \in Client : recvGeneration'[i] # mGeneration'[i] =>
               \E v \in Worker : work'[v].pc = "bind" /\ work'[v].client = i
  BY <1>1, <1>3, <1>4
<1>5. ASSUME NEW e \in completions, TakeCompletion(w, e)
      PROVE  HeardInv'
  <2>1. /\ work[w].pc = "idle"
        /\ work'[w].client = e.client
        /\ e.op = "RECV" => work'[w].pc \in Hearing
    BY <1>0, <1>5 DEF TakeCompletion, Hearing
  <2>2. ASSUME NEW i \in Client, mIsConnected'[i]
        PROVE  Heard(i)'
    <3>1. Heard(i)
      BY <1>2, <1>5, <2>2 DEF TakeCompletion, sessionVars
    <3>2. CASE e.op = "RECV" /\ e.client = i
      BY <2>1, <3>2, HeardFromWorker
    <3>3. CASE ~(e.op = "RECV" /\ e.client = i)
      <4>1. ReceivesKept(i)
        BY <1>5, <3>3 DEF TakeCompletion, ReceivesKept
      <4>2. QED
        BY <1>1, <2>1, <3>1, <4>1, HeardFromOthers DEF Hearing
    <3>4. QED
      BY <3>2, <3>3
  <2>3. QED
    BY <1>4, <1>5, <2>1, <2>2 DEF TakeCompletion, sessionVars, HeardInv, ConnectedIsHeard
<1>6. CASE AcceptCompletion(w)
  <2>1. /\ work[w].pc = "accept" /\ UNCHANGED <<reads, completions, recvGeneration>>
        /\ \A i \in Client \ {c} : mIsConnected'[i] = mIsConnected[i]
                                   /\ mGeneration'[i] = mGeneration[i]
        /\ \A i \in Client : ReceivesKept(i)
    BY <1>0, <1>6 DEF AcceptCompletion, ioVars, ReceivesKept
  <2>2. PICK pc \in {"bind", "close"} :
          /\ Goto(w, pc)
          /\ pc = "close" => UNCHANGED <<mIsConnected, mGeneration>>
    BY <1>6 DEF AcceptCompletion
  <2>3. work'[w].pc = pc /\ work'[w].client = c
    BY <1>0, <2>2, GotoJob DEF Pc
  <2>4. ASSUME NEW i \in Client, mIsConnected'[i]
        PROVE  Heard(i)'
    <3>1. CASE i = c
      BY <2>3, <3>1, HeardFromWorker DEF Hearing
    <3>2. CASE i # c
      BY <1>1, <1>2, <2>1, <2>4, <3>2, HeardFromOthers
    <3>3. QED
      BY <3>1, <3>2
  <2>5. ASSUME NEW i \in Client, recvGeneration'[i] # mGeneration'[i]
        PROVE  \E v \in Worker : work'[v].pc = "bind" /\ work'[v].client = i
    <3>1. CASE i = c /\ pc = "bind"
      BY <2>3, <3>1
    <3>2. CASE ~(i = c /\ pc = "bind")
      <4>1. recvGeneration[i] # mGeneration[i]
        BY <2>1, <2>2, <2>5, <3>2
      <4>2. PICK v \in Worker : work[v].pc = "bind" /\ work[v].client = i
        BY <1>3, <4>1
      <4>3. QED
        BY <1>1, <2>1, <4>2
    <3>3. QED
      BY <3>1, <3>2
  <2>6. QED
    BY <2>4, <2>5 DEF HeardInv, ConnectedIsHeard
<1>7. CASE BindRecv(w)
  <2>1. /\ work[w].pc \in {"bind", "rebind"}
        /\ UNCHANGED mGeneration
        /\ recvGeneration' = [recvGeneration EXCEPT ![c] = mGeneration[c]]
    BY <1>7 DEF BindRecv
  <2>2. ASSUME NEW i \in Client, recvGeneration'[i] # mGeneration'[i]
        PROVE  \E v \in Worker : work'[v].pc = "bind" /\ work'[v].client = i
    <3>1. i # c /\ recvGeneration[i] # mGeneration[i]
      BY <1>0, <2>1, <2>2
    <3>2. PICK v \in Worker : work[v].pc = "bind" /\ work[v].client = i
      BY <1>3, <3>1
    <3>3. QED
      BY <1>1, <3>1, <3>2
  <2>3. ASSUME NEW i \in Client, mIsConnected'[i]
        PROVE  Heard(i)'
    <3>1. CASE /\ reads' = reads \cup {[client |-> c, sock |-> m_socketClient[c]]}
               /\ UNCHANGED <<mIsConnected, completions>>
      <4>1. CASE i = c
        <5>1. [client |-> c, sock |-> m_socketClient[c]] \in reads'
          BY <3>1
        <5>2. QED
          BY <4>1, <5>1 DEF Heard
      <4>2. CASE i # c
        BY <1>1, <1>2, <2>3, <3>1, <4>2, HeardFromOthers DEF ReceivesKept
      <4>3. QED
        BY <4>1, <4>2
    <3>2. CASE CloseSession(c)
      <4>1. i # c /\ mIsConnected[i]
        BY <1>0, <2>3, <3>2 DEF CloseSession
      <4>2. ReceivesKept(i)
        BY <3>2, CloseKeepsReceives DEF CloseSession
      <4>3. QED
        BY <1>1, <1>2, <4>1, <4>2, HeardFromOthers
    <3>3. QED
      BY <1>7, <3>1, <3>2 DEF BindRecv
  <2>4. QED
    BY <2>2, <2>3 DEF HeardInv, ConnectedIsHeard
<1>8. CASE OnConnect(w) \/ PopFreeSessionIndex(w) \/ RefillAccept(w) \/ OnClose(w)
           \/ PushFreeSessionIndex(w)
  <2>1. /\ work[w].pc \notin Hearing /\ work[w].pc # "bind"
        /\ UNCHANGED <<mIsConnected, mGeneration, recvGeneration, reads, completions>>
    BY <1>8 DEF OnConnect, PopFreeSessionIndex, RefillAccept, PostImmediateAccept, OnClose,
                PushFreeSessionIndex, sessionVars, ioVars, Hearing
  <2>2. ASSUME NEW i \in Client, mIsConnected'[i]
        PROVE  Heard(i)'
    BY <1>1, <1>2, <2>1, <2>2, HeardFromOthers DEF ReceivesKept
  <2>3. QED
    BY <1>4, <2>1, <2>2 DEF HeardInv, ConnectedIsHeard
<1>9. CASE CheckGeneration(w) \/ OnReceive(w) \/ CheckConnected(w)
  <2>1. /\ work[w].pc \in {"recv", "deliver", "close"}
        /\ UNCHANGED <<mIsConnected, mGeneration, recvGeneration, reads, completions>>
        /\ \A i \in Client : ReceivesKept(i)
    BY <1>9 DEF CheckGeneration, OnReceive, CheckConnected, sessionVars, ioVars, ReceivesKept
  <2>2. \/ /\ work[w].pc = "recv" /\ recvGeneration[c] # mGeneration[c]
        \/ \E pc \in {"deliver", "rebind", "closing"} : Goto(w, pc)
        \/ work[w].pc = "close" /\ ~mIsConnected[c]
    BY <1>9 DEF CheckGeneration, OnReceive, CheckConnected
  <2>3. ASSUME NEW i \in Client, mIsConnected'[i]
        PROVE  Heard(i)'
    <3>1. CASE i # c
      BY <1>1, <1>2, <2>1, <2>3, <3>1, HeardFromOthers
    <3>2. CASE i = c /\ \E pc \in {"deliver", "rebind", "closing"} : Goto(w, pc)
      <4>1. PICK pc \in {"deliver", "rebind", "closing"} : Goto(w, pc)
        BY <3>2
      <4>2. work'[w].pc = pc /\ work'[w].client = c
        BY <1>0, <4>1, GotoJob DEF Pc
      <4>3. QED
        BY <3>2, <4>2, HeardFromWorker DEF Hearing
    <3>3. CASE i = c /\ work[w].pc = "recv" /\ recvGeneration[c] # mGeneration[c]
      <4>1. PICK v \in Worker : work[v].pc = "bind" /\ work[v].client = c
        BY <1>0, <1>3, <3>3
      <4>2. work'[v] = work[v]
        BY <1>1, <2>1, <4>1
      <4>3. QED
        BY <3>3, <4>1, <4>2, HeardFromWorker DEF Hearing
    <3>4. QED
      BY <2>1, <2>2, <2>3, <3>1, <3>2, <3>3
  <2>4. QED
    BY <1>4, <2>1, <2>3 DEF HeardInv, ConnectedIsHeard
<1>10. CASE Closed(w)
  <2>1. work[w].pc = "closing" /\ CloseSession(c) /\ UNCHANGED <<mGeneration, recvGeneration>>
    BY <1>10 DEF Closed
  <2>2. ASSUME NEW i \in Client, mIsConnected'[i]
        PROVE  Heard(i)'
    <3>1. i # c /\ mIsConnected[i]
      BY <1>0, <2>1, <2>2 DEF CloseSession
    <3>2. ReceivesKept(i)
      BY <2>1, CloseKeepsReceives DEF CloseSession
    <3>3. QED
      BY <1>1, <1>2, <3>1, <3>2, HeardFromOthers
  <2>3. QED
    BY <1>4, <2>1, <2>2 DEF HeardInv, ConnectedIsHeard
<1>11. QED
  BY <1>5, <1>6, <1>7, <1>8, <1>9, <1>10 DEF WorkerThread

\* A connected session is never deaf, for any number of sessions and workers and
\* whatever fails: dropping a receive as stale is never the last that is heard of a
\* connection (IOCP.h:514-519, ClientSession.h:187-215).
THEOREM ConnectedIsHeardHolds == Spec => []ConnectedIsHeard
<1>1. Init => HeardInv
  BY DEF Init, HeardInv, ConnectedIsHeard
<1>2. SessionsTypeOK /\ HeardInv /\ [Next]_vars => HeardInv'
  <2>1. CASE Next
    BY <2>1, NetworkKeepsHeard, WorkerKeepsHeard DEF Next
  <2>2. ASSUME HeardInv, UNCHANGED vars
        PROVE  HeardInv'
    BY <2>2 DEF vars, sessionVars, ioVars, HeardInv, ConnectedIsHeard, Heard, At
  <2>3. QED
    BY <2>1, <2>2
<1>3. HeardInv => ConnectedIsHeard
  BY DEF HeardInv
<1>4. QED
  BY <1>1, <1>2, <1>3, SessionsTypeCorrectness, PTL DEF Spec
==============================================================================
