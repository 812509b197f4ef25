-------------------------- MODULE SessionLifecycle --------------------------
(***************************************************************************)
(* The life of a session index in the network layer (IOCP.h,               *)
(* ClientSession.h): free, waiting for a connection (AcceptEx), connected, *)
(* closed and free again, with several worker threads taking completions   *)
(* off the port and no lock around a session.                              *)
(*                                                                         *)
(* Workers take completions in any order: GetQueuedCompletionStatusEx      *)
(* hands out batches, so a later completion may well be handled first.     *)
(* Every line that another worker can observe is a step of its own; a      *)
(* plain bool or counter is read and written in one piece.  Only sends     *)
(* that end without bytes touch the life of a session, whether they fail   *)
(* or are cancelled by the server closing the socket under them; how sends *)
(* are queued is left out here.  Socket numbers are never reused.          *)
(***************************************************************************)
EXTENDS Integers, Sequences, FiniteSets

CONSTANTS maxClientCount,       \* sessions
          MAX_PENDING_ACCEPT,
          Worker,               \* worker threads
          MaxSocket,            \* bound: sockets created
          MaxFail               \* bound: socket calls that fail or are cancelled

ASSUME CountAssumption == maxClientCount \in Nat \ {0} /\ MAX_PENDING_ACCEPT \in Nat
ASSUME SocketBoundAssumption == MaxSocket \in Nat /\ MaxFail \in Nat
ASSUME WorkerAssumption == IsFiniteSet(Worker)

Client == 0..(maxClientCount - 1)
INVALID_SOCKET == 0
Socket == 1..MaxSocket

VARIABLES
    mFreeSessionList, mClientCnt,
    \* ClientSession, one per index
    mIsConnected, mGeneration, m_socketClient,
    recvGeneration,     \* m_stRecvOverlappedEx.generation
    toPost,             \* accepts StartServer has still to post
    accepts, reads, writes,   \* overlapped operations in flight
    completions,        \* what the completion port holds
    work,               \* what each worker is doing
    created,            \* sockets created so far
    told,               \* history: OnClose calls per index
    failed              \* history: accepts and receives that failed, and sends
                        \* that fail or are cancelled

sessionVars == <<mIsConnected, mGeneration, m_socketClient, recvGeneration>>
listVars    == <<mFreeSessionList, mClientCnt>>
ioVars      == <<accepts, reads, writes, completions>>
vars == <<listVars, sessionVars, toPost, ioVars, work, created, told, failed>>

Operation  == [client : Client, sock : Socket]
Completion == [op : {"ACCEPT", "RECV", "SEND"}, client : Client, sock : Socket,
               zero : BOOLEAN]
Pc == {"idle", "accept", "bind", "connected", "refill", "post", "recv", "deliver",
       "rebind", "close", "closing", "onclose", "free"}
Idle == [pc |-> "idle", client |-> 0, sock |-> INVALID_SOCKET, then |-> "idle"]
Job  == [pc : Pc, client : Client, sock : Socket \cup {INVALID_SOCKET},
         then : {"idle", "refill"}]

Goto(w, pc) == work' = [work EXCEPT ![w] = IF pc = "idle" THEN Idle
                                           ELSE [@ EXCEPT !.pc = pc]]

\* CreateClient: index 0 is on top of the stack
FreeListFilled == [k \in 1..maxClientCount |-> maxClientCount - k]

\* the server when StartServer has created sessions and workers
Init ==
    /\ mFreeSessionList = FreeListFilled /\ mClientCnt = 0
    /\ mIsConnected = [i \in Client |-> FALSE]
    /\ mGeneration = [i \in Client |-> 0]
    /\ m_socketClient = [i \in Client |-> INVALID_SOCKET]
    /\ recvGeneration = [i \in Client |-> 0]
    /\ toPost = MAX_PENDING_ACCEPT
    /\ accepts = {} /\ reads = {} /\ writes = {} /\ completions = {}
    /\ work = [w \in Worker |-> Idle]
    /\ created = 0
    /\ told = [i \in Client |-> 0] /\ failed = 0

\* a socket call fails, or is bound to fail or to be cancelled
Fails == failed < MaxFail /\ failed' = failed + 1

-----------------------------------------------------------------------------
\* The free list is a stack under mFreeListLock

Top == mFreeSessionList[Len(mFreeSessionList)]

Pop == mFreeSessionList' = SubSeq(mFreeSessionList, 1, Len(mFreeSessionList) - 1)

\* a new socket waits for a connection, or the call fails and its result is
\* ignored
PostImmediateAccept(i) ==
    /\ created < MaxSocket
    /\ created' = created + 1
    /\ m_socketClient' = [m_socketClient EXCEPT ![i] = created']
    /\ \/ accepts' = accepts \cup {[client |-> i, sock |-> created']} /\ UNCHANGED failed
       \/ Fails /\ UNCHANGED accepts
    /\ UNCHANGED <<mIsConnected, mGeneration, recvGeneration>>

\* the loop of StartServer that posts the first accepts, with workers running
StartServer ==
    /\ toPost > 0
    /\ toPost' = toPost - 1
    /\ \/ /\ mFreeSessionList # << >>
          /\ Pop
          /\ PostImmediateAccept(Top)
       \/ /\ mFreeSessionList = << >>
          /\ UNCHANGED <<mFreeSessionList, sessionVars, accepts, created, failed>>
    /\ UNCHANGED <<mClientCnt, reads, writes, completions, work, told>>

-----------------------------------------------------------------------------
\* The network and the other threads, as the completion port shows them

Complete(op, r, zero) ==
    completions' = completions \cup
        {[op |-> op, client |-> r.client, sock |-> r.sock, zero |-> zero]}

ClientConnects(r) ==
    /\ accepts' = accepts \ {r}
    /\ Complete("ACCEPT", r, TRUE)
    /\ UNCHANGED <<listVars, sessionVars, toPost, reads, writes, work, created, told, failed>>

\* bytes arrive, or (zero) the client is gone or was shut down for being silent
RecvEnds(r, zero) ==
    /\ reads' = reads \ {r}
    /\ Complete("RECV", r, zero)
    /\ UNCHANGED <<listVars, sessionVars, toPost, accepts, writes, work, created, told, failed>>

\* the logic thread has a send in flight that will end without bytes: it fails, or
\* the server closes the socket under it (CloseHandle), as it does in the ordinary
\* case of a client that leaves while an answer is on its way.  A send that
\* succeeds does nothing to the session ...
SendMsg(i) ==
    /\ Fails
    /\ mIsConnected[i] /\ m_socketClient[i] # INVALID_SOCKET
    /\ writes' = writes \cup {[client |-> i, sock |-> m_socketClient[i]]}
    /\ UNCHANGED <<listVars, sessionVars, toPost, accepts, reads, completions, work,
                   created, told>>

\* ... and fails on its own
SendFails(r) ==
    /\ writes' = writes \ {r}
    /\ Complete("SEND", r, TRUE)
    /\ UNCHANGED <<listVars, sessionVars, toPost, accepts, reads, work, created, told, failed>>

-----------------------------------------------------------------------------
\* WorkerThread

\* one entry of the batch: no bytes and not an accept means that the client has
\* gone, before anything else is looked at
TakeCompletion(w, e) ==
    /\ work[w].pc = "idle"
    /\ completions' = completions \ {e}
    /\ work' = [work EXCEPT ![w] =
                  [pc |-> CASE e.zero /\ e.op # "ACCEPT" -> "close"
                            [] e.op = "ACCEPT" -> "accept"
                            [] OTHER -> "recv",
                   client |-> e.client, sock |-> e.sock,
                   then |-> IF e.op = "ACCEPT" THEN "refill" ELSE "idle"]]
    /\ UNCHANGED <<listVars, sessionVars, toPost, accepts, reads, writes, created, told, failed>>

\* AcceptCompletion up to the new generation, or its setsockopt fails
AcceptCompletion(w) ==
    LET i == work[w].client IN
    /\ work[w].pc = "accept"
    /\ \/ /\ mIsConnected' = [mIsConnected EXCEPT ![i] = TRUE]
          /\ mGeneration' = [mGeneration EXCEPT ![i] = @ + 1]
          /\ Goto(w, "bind")
          /\ UNCHANGED failed
       \/ /\ Fails
          /\ Goto(w, "close")
          /\ UNCHANGED <<mIsConnected, mGeneration>>
    /\ UNCHANGED <<listVars, m_socketClient, recvGeneration, toPost, ioVars, created, told>>

\* closesocket ends what is in flight on socket s, with no bytes transferred
CloseHandle(s) ==
    /\ reads' = {r \in reads : r.sock # s}
    /\ writes' = {r \in writes : r.sock # s}
    /\ completions' = completions
         \cup {[op |-> "RECV", client |-> r.client, sock |-> s, zero |-> TRUE] :
                  r \in {x \in reads : x.sock = s}}
         \cup {[op |-> "SEND", client |-> r.client, sock |-> s, zero |-> TRUE] :
                  r \in {x \in writes : x.sock = s}}

\* ClientSession::Closed
CloseSession(i) ==
    /\ mIsConnected' = [mIsConnected EXCEPT ![i] = FALSE]
    /\ CloseHandle(m_socketClient[i])
    /\ m_socketClient' = [m_socketClient EXCEPT ![i] = INVALID_SOCKET]

\* mutant: the receive is not stamped with the generation of the connection
BindForgetsGeneration(w) ==
    LET i == work[w].client
        s == m_socketClient[i]
    IN
    /\ work[w].pc \in {"bind", "rebind"}
    /\ s # INVALID_SOCKET
    /\ reads' = reads \cup {[client |-> i, sock |-> s]}
    /\ Goto(w, IF work[w].pc = "bind" THEN "connected" ELSE "idle")
    /\ UNCHANGED <<listVars, sessionVars, toPost, accepts, writes, completions, created,
                   told, failed>>

\* BindRecv, of a new connection or of one whose receive has been handled: a
\* WSARecv that fails closes the session and nothing else
BindRecv(w) ==
    LET i == work[w].client
        s == m_socketClient[i]
    IN
    /\ work[w].pc \in {"bind", "rebind"}
    /\ recvGeneration' = [recvGeneration EXCEPT ![i] = mGeneration[i]]
    /\ \/ /\ s # INVALID_SOCKET
          /\ reads' = reads \cup {[client |-> i, sock |-> s]}
          /\ Goto(w, IF work[w].pc = "bind" THEN "connected" ELSE "idle")
          /\ UNCHANGED <<mIsConnected, m_socketClient, writes, completions, failed>>
       \/ /\ \/ s = INVALID_SOCKET /\ UNCHANGED failed
             \/ s # INVALID_SOCKET /\ Fails
          /\ CloseSession(i)
          /\ Goto(w, IF work[w].pc = "bind" THEN "close" ELSE "idle")
    /\ UNCHANGED <<listVars, mGeneration, toPost, accepts, created, told>>

\* the connection is counted and ChatServer::OnConnect told
OnConnect(w) ==
    /\ work[w].pc = "connected"
    /\ mClientCnt' = mClientCnt + 1
    /\ Goto(w, "refill")
    /\ UNCHANGED <<mFreeSessionList, sessionVars, toPost, ioVars, created, told, failed>>

\* one accept was used up: take a free index, if there is one ...
PopFreeSessionIndex(w) ==
    /\ work[w].pc = "refill"
    /\ \/ /\ mFreeSessionList # << >>
          /\ Pop
          /\ work' = [work EXCEPT ![w] = [Idle EXCEPT !.pc = "post", !.client = Top]]
       \/ /\ mFreeSessionList = << >>
          /\ work' = [work EXCEPT ![w] = Idle]
          /\ UNCHANGED mFreeSessionList
    /\ UNCHANGED <<mClientCnt, sessionVars, toPost, ioVars, created, told, failed>>

\* ... and post an accept for it
RefillAccept(w) ==
    /\ work[w].pc = "post"
    /\ PostImmediateAccept(work[w].client)
    /\ work' = [work EXCEPT ![w] = Idle]
    /\ UNCHANGED <<listVars, toPost, reads, writes, completions, told>>

\* a completed receive: dropped if it is of an earlier generation
CheckGeneration(w) ==
    LET i == work[w].client IN
    /\ work[w].pc = "recv"
    /\ Goto(w, IF recvGeneration[i] # mGeneration[i] THEN "idle" ELSE "deliver")
    /\ UNCHANGED <<listVars, sessionVars, toPost, ioVars, created, told, failed>>

\* ChatServer::OnReceive for the index, whichever connection the bytes are from
OnReceive(w) ==
    /\ work[w].pc = "deliver"
    /\ Goto(w, "rebind")
    /\ UNCHANGED <<listVars, sessionVars, toPost, ioVars, created, told, failed>>

-----------------------------------------------------------------------------
\* CloseSocket

CheckConnected(w) ==
    /\ work[w].pc = "close"
    /\ Goto(w, IF mIsConnected[work[w].client] THEN "closing" ELSE work[w].then)
    /\ UNCHANGED <<listVars, sessionVars, toPost, ioVars, created, told, failed>>

\* mutant: Closed leaves the flag set
ClosedStaysConnected(w) ==
    LET i == work[w].client IN
    /\ work[w].pc = "closing"
    /\ CloseHandle(m_socketClient[i])
    /\ m_socketClient' = [m_socketClient EXCEPT ![i] = INVALID_SOCKET]
    /\ Goto(w, "onclose")
    /\ UNCHANGED <<listVars, mIsConnected, mGeneration, recvGeneration, toPost, accepts,
                   created, told, failed>>

\* mutant: the index goes back without OnClose
ClosedUnreported(w) ==
    LET i == work[w].client IN
    /\ work[w].pc = "closing"
    /\ CloseSession(i)
    /\ Goto(w, "free")
    /\ UNCHANGED <<listVars, mGeneration, recvGeneration, toPost, accepts, created, told, failed>>

Closed(w) ==
    LET i == work[w].client IN
    /\ work[w].pc = "closing"
    /\ CloseSession(i)
    /\ Goto(w, "onclose")
    /\ UNCHANGED <<listVars, mGeneration, recvGeneration, toPost, accepts, created, told, failed>>

\* ChatServer::OnClose
OnClose(w) ==
    /\ work[w].pc = "onclose"
    /\ told' = [told EXCEPT ![work[w].client] = @ + 1]
    /\ Goto(w, "free")
    /\ UNCHANGED <<listVars, sessionVars, toPost, ioVars, created, failed>>

\* mutant: every close posts an accept as well
PushRefills(w) ==
    /\ work[w].pc = "free"
    /\ mFreeSessionList' = Append(mFreeSessionList, work[w].client)
    /\ mClientCnt' = mClientCnt - 1
    /\ Goto(w, "refill")
    /\ UNCHANGED <<sessionVars, toPost, ioVars, created, told, failed>>

\* the index goes back; nobody reads the count of connections
PushFreeSessionIndex(w) ==
    /\ work[w].pc = "free"
    /\ mFreeSessionList' = Append(mFreeSessionList, work[w].client)
    /\ mClientCnt' = mClientCnt - 1
    /\ Goto(w, work[w].then)
    /\ UNCHANGED <<sessionVars, toPost, ioVars, created, told, failed>>

-----------------------------------------------------------------------------
WorkerThread(w) ==
    \/ \E e \in completions : TakeCompletion(w, e)
    \/ AcceptCompletion(w) \/ BindRecv(w) \/ OnConnect(w)
    \/ PopFreeSessionIndex(w) \/ RefillAccept(w)
    \/ CheckGeneration(w) \/ OnReceive(w)
    \/ CheckConnected(w) \/ Closed(w) \/ OnClose(w) \/ PushFreeSessionIndex(w)

Environment ==
    \/ \E r \in accepts : ClientConnects(r)
    \/ \E r \in reads, zero \in BOOLEAN : RecvEnds(r, zero)
    \/ \E i \in Client : SendMsg(i)
    \/ \E r \in writes : SendFails(r)

Next == StartServer \/ Environment \/ \E w \in Worker : WorkerThread(w)

Spec == Init /\ [][Next]_vars

-----------------------------------------------------------------------------
\* Sessions, free list and operations in flight name sessions and sockets that
\* exist (IOCP.h:256-274, 588-610).
SessionsTypeOK ==
    /\ mFreeSessionList \in Seq(Client) /\ mClientCnt \in Int
    /\ mIsConnected \in [Client -> BOOLEAN] /\ mGeneration \in [Client -> Nat]
    /\ m_socketClient \in [Client -> Socket \cup {INVALID_SOCKET}]
    /\ recvGeneration \in [Client -> Nat]
    /\ toPost \in 0..MAX_PENDING_ACCEPT /\ created \in 0..MaxSocket
    /\ accepts \subseteq Operation /\ reads \subseteq Operation /\ writes \subseteq Operation
    /\ completions \subseteq Completion
    /\ work \in [Worker -> Job] /\ told \in [Client -> Nat] /\ failed \in 0..MaxFail

FreeAt(i)   == {n \in DOMAIN mFreeSessionList : mFreeSessionList[n] = i}
Waiting(i)  == {r \in accepts : r.client = i}
Accepted(i) == {e \in completions : e.op = "ACCEPT" /\ e.client = i}
At(pcs)     == {w \in Worker : work[w].pc \in pcs}
HeldBy(i)   == {w \in At({"accept", "post", "onclose", "free"}) : work[w].client = i}

\* As long as no socket call fails and no send is cancelled by a close, an index
\* is at any moment in exactly one place: once in the free list, waiting for a
\* connection, accepted, connected, or in the hands of one worker; and mClientCnt
\* is the number of connections, apart from those that workers are just about to
\* add or to take off.  No lock covers a session's way from one place to the next
\* (IOCP.h:484-508, 572-610).
IndexInOnePlace ==
    failed = 0 =>
      /\ \A i \in Client :
           Cardinality(FreeAt(i)) + Cardinality(Waiting(i)) + Cardinality(Accepted(i))
             + Cardinality(HeldBy(i)) + (IF mIsConnected[i] THEN 1 ELSE 0) = 1
      /\ mClientCnt = Cardinality({i \in Client : mIsConnected[i]})
                      - Cardinality(At({"bind", "connected"}))
                      + Cardinality(At({"onclose", "free"}))

\* As long as no socket call fails and no send is cancelled by a close, each
\* connection's end is reported to ChatServer::OnClose once, and before its index
\* can be given to another connection: the chat logic relies on seeing the
\* DISCONNECT of a user before the packets of the next one (IOCP.h:572-585).
EndReportedBeforeReuse ==
    failed = 0 =>
      \A i \in Client :
        /\ (FreeAt(i) # {} \/ Waiting(i) # {} \/ Accepted(i) # {}) => told[i] = mGeneration[i]
        /\ mIsConnected[i] => told[i] = mGeneration[i] - 1

\* The accepts still to be posted by StartServer, pending, accepted, or being
\* replaced by a worker are never more than MAX_PENDING_ACCEPT, whatever fails:
\* a worker replaces an accept only when one was used up (IOCP.h:140-150, 482-508).
AcceptsBounded ==
    toPost + Cardinality(accepts)
      + Cardinality({e \in completions : e.op = "ACCEPT"})
      + Cardinality(At({"accept", "bind", "connected", "refill", "post"}))
      + Cardinality({w \in At({"close", "closing", "onclose", "free"}) :
                        work[w].then = "refill"})
        <= MAX_PENDING_ACCEPT

\* the connection of session i will be heard of again: a receive is in flight or has
\* completed, or a worker is about to post one or to close the connection
Heard(i) ==
    \/ \E r \in reads : r.client = i
    \/ \E e \in completions : e.op = "RECV" /\ e.client = i
    \/ \E w \in At({"bind", "recv", "deliver", "rebind", "close", "closing"}) :
          work[w].client = i

\* Whatever fails and however workers overlap, a connected session never goes deaf:
\* dropping a receive as stale (IOCP.h:514-519) posts no other one, so a receive
\* dropped wrongly would leave a connection whose bytes and whose end nobody
\* notices.  Every other way out of a completed receive binds again or closes
\* (IOCP.h:474-528, ClientSession.h:187-215).
ConnectedIsHeard == \A i \in Client : mIsConnected[i] => Heard(i)

-----------------------------------------------------------------------------
\* A statement of the documentation that the code does not keep

Quiet == toPost = 0 /\ \A w \in Worker : work[w].pc = "idle"

\* README.md:254, "the kernel always keeps ~100 waiting sockets": as long as no
\* call fails, with sessions free and no worker busy, some accept is pending or
\* has just been taken.
AlwaysListening ==
    failed = 0 /\ Quiet /\ mFreeSessionList # << >> =>
        accepts # {} \/ \E e \in completions : e.op = "ACCEPT"
=============================================================================
