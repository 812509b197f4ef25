----------------------------- MODULE StopProofs -----------------------------
(***************************************************************************)
(* The timeout thread and the end of the network layer, for any number of  *)
(* sessions, workers and completions, any limits and any width of the      *)
(* clock: whom the timeout thread disconnects, whom it may not leave       *)
(* behind, and who is still connected when End returns.                    *)
(***************************************************************************)
EXTENDS ServerStop, FiniteSetTheorems, SequenceTheorems, TLAPS

\* the inductive invariant behind EveryoneOut: the loop over the sessions leaves
\* nobody connected behind it, and no worker is left to connect anybody in the end
OutInv ==
    /\ \A i \in Client : mIsConnected[i] /\ (Passed(i) \/ Ended) => i \in hist.passed
    /\ Ended => \A w \in Worker : work[w].pc = "ended"

\* the timeout thread's own view of time
TimeInv ==
    /\ timeout.now <= clock
    /\ \A i \in Client : mLastActivityTime[i] <= clock
    /\ timeout.pc = "judge" =>
         timeout.i \in Client /\ timeout.last <= mLastActivityTime[timeout.i]

\* DestroyThread closes the listening socket after the timeout thread has ended, and
\* the sessions after the listening socket
StageInv ==
    /\ timeout.pc # "ended" =>
         listening /\ \A e \in Ender : stop[e].pc \in {"run", "raced", "joinTimeout"}
    /\ \A e \in Ender : stop[e].pc \in {"clients", "drain", "post", "joinWorkers", "done"} =>
         ~listening

\* a completed accept of session j that no worker has yet turned into a connection:
\* at place k of the port, or at place k of the batch of worker w
InPort(j, k) == k \in DOMAIN port /\ port[k] = Entry("ACCEPT", j)
InBatch(j, w, k) ==
    /\ k \in DOMAIN work[w].batch /\ work[w].batch[k] = Entry("ACCEPT", j)
    /\ k = 1 => work[w].pc # "connect"

Pending(j) ==
    \/ \E k \in DOMAIN port : InPort(j, k)
    \/ \E w \in Worker : \E k \in DOMAIN work[w].batch : InBatch(j, w, k)

PendingOnce(j) ==
    /\ \A k, l \in DOMAIN port : InPort(j, k) /\ InPort(j, l) => k = l
    /\ \A v, w \in Worker : \A k \in DOMAIN work[v].batch, l \in DOMAIN work[w].batch :
         InBatch(j, v, k) /\ InBatch(j, w, l) => v = w /\ k = l
    /\ \A k \in DOMAIN port, w \in Worker : \A l \in DOMAIN work[w].batch :
         ~(InPort(j, k) /\ InBatch(j, w, l))

\* a session that waits for a connection, or is free to, is not connected
Idle(j) ==
    /\ Pending(j) => ~mIsConnected[j] /\ j \notin mFreeSessionList /\ socket[j] # "accepting"
    /\ socket[j] = "accepting" => ~mIsConnected[j] /\ j \notin mFreeSessionList
    /\ j \in mFreeSessionList => ~mIsConnected[j]

AcceptInv ==
    /\ \A w \in Worker : work[w].pc \in {"accepted", "connect"} =>
         work[w].batch # << >> /\ Head(work[w].batch).op = "ACCEPT"
    /\ listening => \A j \in Client : PendingOnce(j) /\ Idle(j)

\* sessions the pass has looked at
Behind(j) == timeout.pc = "sleep" \/ (timeout.pc \in {"scan", "judge"} /\ j < timeout.i)

Suspect(j) ==
    /\ mIsConnected[j] /\ socket[j] = "open" /\ hist.since[j] <= timeout.now
    /\ \A w \in Worker : work[w].pc = "connect" => Current(w) # j

ZombieInv ==
    \A j \in Client : Behind(j) /\ Suspect(j) => timeout.now - mLastActivityTime[j] < TIMEOUT_MS

StopInv == StopTypeOK /\ OutInv /\ TimeInv /\ StageInv /\ AcceptInv /\ ZombieInv

-----------------------------------------------------------------------------
\* Types

\* Sessions are numbered from 0.
LEMMA Numbers ==
    /\ maxClientCount \in Nat /\ 0 \in Client
    /\ \A i \in 0..maxClientCount : i \in Client \/ i = maxClientCount
    /\ \A i \in Client : i + 1 \in 0..maxClientCount /\ i \in Nat
    /\ MaxClock \in Nat /\ TIMEOUT_MS \in Time /\ 0 \in Time
  BY StopAssumption DEF Client, Time

\* What the fields of workers, of the timeout thread and of a thread in End are.
LEMMA Fields ==
    ASSUME StopTypeOK
    PROVE  /\ \A w \in Worker : work[w].batch \in Seq(Completions)
           /\ \A w \in Worker : work[w].batch # << >> => Current(w) \in Client
           /\ timeout.i \in 0..maxClientCount /\ timeout.now \in Time /\ timeout.last \in Time
           /\ \A e \in Ender : stop[e].i \in Nat
           /\ hist.since \in [Client -> Time] /\ hist.passed \subseteq Client
<1>1. \A w \in Worker : work[w].batch \in Seq(Completions)
  BY DEF StopTypeOK
<1>2. \A s \in Seq(Completions) : s # << >> => Head(s) \in Completions
  OBVIOUS
<1>3. \A c \in Completions : c.client \in Client
  BY DEF Completions
<1>4. QED
  BY <1>1, <1>2, <1>3 DEF StopTypeOK, Current

\* A worker at an entry, or in the middle of one, has a batch.
LEMMA AtEntry ==
    ASSUME StopTypeOK, AcceptInv, NEW w \in Worker,
           (\E op \in {"ACCEPT", "RECV", "CLOSE", "NULL"} : Handles(w, op))
             \/ work[w].pc \in {"accepted", "connect"}
    PROVE  work[w].batch # << >> /\ Current(w) \in Client
<1>1. work[w].batch # << >>
  BY DEF Handles, AcceptInv
<1>2. QED
  BY <1>1, Fields

\* The step of a worker to its next entry (IOCP.h:452-549).
LEMMA NextEntryType ==
    ASSUME StopTypeOK, NEW w \in Worker, work[w].batch # << >>, NextEntry(w)
    PROVE  /\ work' \in [Worker -> [pc : {"wait", "batch", "accepted", "connect", "ended"},
                                    batch : Seq(Completions)]]
           /\ work'[w].batch = Tail(work[w].batch)
           /\ work'[w].pc \in {"wait", "batch", "ended"}
           /\ \A v \in Worker : v # w => work'[v] = work[v]
<1>1. work[w].batch \in Seq(Completions)
  BY Fields
<1>2. Tail(work[w].batch) \in Seq(Completions)
  BY <1>1
<1>3. PICK r : /\ r \in [pc : {"wait", "batch", "ended"}, batch : Seq(Completions)]
               /\ r.batch = Tail(work[w].batch)
               /\ work' = [work EXCEPT ![w] = r]
  <2> DEFINE r == [batch |-> Tail(work[w].batch),
                   pc |-> CASE Len(work[w].batch) > 1 -> "batch"
                            [] mIsWorkerRun' -> "wait" [] OTHER -> "ended"]
  <2>1. r.pc \in {"wait", "batch", "ended"} /\ r.batch = Tail(work[w].batch)
    OBVIOUS
  <2>2. r \in [pc : {"wait", "batch", "ended"}, batch : Seq(Completions)]
    BY <1>2, <2>1
  <2>3. work' = [work EXCEPT ![w] = r]
    BY DEF NextEntry
  <2>4. QED
    BY <2>1, <2>2, <2>3
<1>4. QED
  BY <1>3 DEF StopTypeOK

\* The timeout thread keeps the types.
LEMMA TimeoutType ==
    ASSUME StopTypeOK, TimeInv, TimeoutStep
    PROVE  StopTypeOK'
<1> USE Numbers, Fields DEF timed, sessions
<1>1. timeout' \in [pc : {"test", "scan", "judge", "sleep", "ended"},
                    i : 0..maxClientCount, now : Time, last : Time]
  <2>1. CASE PassBegins
    <3>1. clock \in Time /\ 0 \in 0..maxClientCount
      BY DEF StopTypeOK
    <3>2. \/ timeout' = [timeout EXCEPT !.pc = "scan", !.i = 0, !.now = clock]
          \/ timeout' = [timeout EXCEPT !.pc = "ended"]
      BY <2>1 DEF PassBegins
    <3>3. QED
      BY <3>1, <3>2 DEF StopTypeOK
  <2>2. CASE Scan
    <3>1. timeout.i = maxClientCount \/ timeout.i \in Client
      OBVIOUS
    <3>2. timeout.i \in Client => mLastActivityTime[timeout.i] \in Time
      BY DEF StopTypeOK
    <3>3. QED
      BY <2>2, <3>1, <3>2 DEF Scan, StopTypeOK
  <2>3. CASE Judge
    BY <2>3 DEF Judge, StopTypeOK, TimeInv
  <2>4. CASE WakeUp
    BY <2>4 DEF WakeUp, StopTypeOK
  <2>5. QED
    BY <2>1, <2>2, <2>3, <2>4 DEF TimeoutStep
<1>2. /\ socket' \in [Client -> {"accepting", "open", "shut", "none"}]
      /\ mLastPingTime' \in [Client -> Time]
      /\ UNCHANGED <<mIsConnected, mLastActivityTime, reading, mFreeSessionList>>
  <2>1. CASE Judge
    <3>1. \/ DisconnectAsync(timeout.i) \/ SendPing(timeout.i) \/ UNCHANGED sessions
      BY <2>1 DEF Judge
    <3>2. QED
      BY <3>1 DEF DisconnectAsync, SendPing, StopTypeOK
  <2>2. CASE ~Judge
    BY <2>2 DEF TimeoutStep, PassBegins, Scan, WakeUp, StopTypeOK
  <2>3. QED
    BY <2>1, <2>2
<1>3. UNCHANGED <<clock, port, listening, work, mIsWorkerRun, mIsTimeoutRun, stop, g_pServer,
                  hist>>
  BY DEF TimeoutStep, PassBegins, Scan, Judge, WakeUp
<1>4. QED
  BY <1>1, <1>2, <1>3 DEF StopTypeOK

\* A client that connects, sends or leaves keeps the types.
LEMMA ClientType ==
    ASSUME StopTypeOK, NEW i \in Client,
           ClientConnects(i) \/ ClientSends(i) \/ ClientLeaves(i)
    PROVE  StopTypeOK'
<1>1. port' \in Seq(Completions)
  <2>1. PICK op \in {"ACCEPT", "RECV", "CLOSE"} : port' = Append(port, Entry(op, i))
    BY DEF ClientConnects, ClientSends, ClientLeaves, Post
  <2>2. Entry(op, i) \in Completions
    BY DEF Entry, Completions
  <2>3. QED
    BY <2>1, <2>2 DEF StopTypeOK
<1>2. socket' \in [Client -> {"accepting", "open", "shut", "none"}]
  <2>1. socket' = [socket EXCEPT ![i] = "open"] \/ socket' = socket
    BY DEF ClientConnects, ClientSends, ClientLeaves
  <2>2. QED
    BY <2>1 DEF StopTypeOK
<1>3. reading' \in [Client -> BOOLEAN]
  BY DEF ClientConnects, ClientSends, ClientLeaves, StopTypeOK
<1>4. UNCHANGED network
  BY DEF ClientConnects, ClientSends, ClientLeaves
<1>5. QED
  BY <1>1, <1>2, <1>3, <1>4 DEF StopTypeOK, network

\* Closing or connecting a session keeps its flags and its socket well formed.
LEMMA RefillType ==
    ASSUME StopTypeOK, NEW sock \in [Client -> {"accepting", "open", "shut", "none"}],
           Refill(sock)
    PROVE  /\ socket' \in [Client -> {"accepting", "open", "shut", "none"}]
           /\ mFreeSessionList' \subseteq Client
  BY DEF Refill, StopTypeOK

\* The workers keep the types.
LEMMA WorkerType ==
    ASSUME StopTypeOK, AcceptInv, NEW w \in Worker, WorkerStep(w)
    PROVE  StopTypeOK'
<1> USE DEF others, sessions
<1> DEFINE SocketType == [Client -> {"accepting", "open", "shut", "none"}]
           WorkType == [Worker -> [pc : {"wait", "batch", "accepted", "connect", "ended"},
                                   batch : Seq(Completions)]]
<1>1. CASE Take(w)
  <2>1. PICK k \in Nat : /\ k <= Len(port)
                         /\ work' = [work EXCEPT ![w] = [pc |-> "batch", batch |-> SubSeq(port, 1, k)]]
                         /\ port' = SubSeq(port, k + 1, Len(port))
    <3> DEFINE k == IF Len(port) < MAX_COMPLETION_ENTRIES THEN Len(port)
                    ELSE MAX_COMPLETION_ENTRIES
    <3>1. Len(port) \in Nat
      BY DEF StopTypeOK
    <3>2. k \in Nat /\ k <= Len(port)
      BY <3>1, StopAssumption
    <3>3. /\ work' = [work EXCEPT ![w] = [pc |-> "batch", batch |-> SubSeq(port, 1, k)]]
          /\ port' = SubSeq(port, k + 1, Len(port))
      BY <1>1 DEF Take
    <3> HIDE DEF k
    <3>4. QED
      BY <3>2, <3>3
  <2>2. SubSeq(port, 1, k) \in Seq(Completions) /\ port' \in Seq(Completions)
    BY <2>1 DEF StopTypeOK
  <2>3. work' \in WorkType
    BY <2>1, <2>2 DEF StopTypeOK
  <2>4. hist' \in [since : [Client -> Time], greedy : BOOLEAN, passed : SUBSET Client]
    BY <1>1 DEF Take, StopTypeOK
  <2>5. UNCHANGED <<others, sessions, mIsWorkerRun>>
    BY <1>1 DEF Take
  <2>6. QED
    BY <2>2, <2>3, <2>4, <2>5 DEF StopTypeOK
<1>2. CASE TakesNull(w)
  <2>1. work' \in WorkType
    BY <1>2, AtEntry, NextEntryType DEF TakesNull
  <2>2. mIsWorkerRun' \in BOOLEAN /\ UNCHANGED <<others, sessions, port, hist>>
    BY <1>2 DEF TakesNull
  <2>3. QED
    BY <2>1, <2>2 DEF StopTypeOK
<1>3. CASE AcceptCompletion(w)
  <2>1. work' \in WorkType
    <3>1. work' = [work EXCEPT ![w] = [work[w] EXCEPT !.pc = "accepted"]]
      BY <1>3 DEF AcceptCompletion
    <3>2. QED
      BY <3>1, ZenonT(60) DEF StopTypeOK
  <2>2. UNCHANGED <<others, sessions, port, mIsWorkerRun, hist>>
    BY <1>3 DEF AcceptCompletion
  <2>3. QED
    BY <2>1, <2>2 DEF StopTypeOK
<1>4. CASE OnConnect(w)
  <2>1. work' \in WorkType
    <3>1. work' = [work EXCEPT ![w] = [work[w] EXCEPT !.pc = "connect"]]
      BY <1>4 DEF OnConnect
    <3>2. QED
      BY <3>1, ZenonT(60) DEF StopTypeOK
  <2>2. PICK i \in Client : i = Current(w)
    BY <1>4, AtEntry DEF OnConnect
  <2>3. mIsConnected' \in [Client -> BOOLEAN]
    BY <1>4 DEF OnConnect, StopTypeOK
  <2>4. hist' \in [since : [Client -> Time], greedy : BOOLEAN, passed : SUBSET Client]
    <3>1. PICK P \in SUBSET Client :
            hist' = [hist EXCEPT !.since[i] = clock, !.passed = P]
      <4>1. (IF Passed(i) THEN hist.passed \cup {i} ELSE hist.passed) \in SUBSET Client
        BY Fields
      <4>2. QED
        BY <1>4, <2>2, <4>1 DEF OnConnect
    <3>2. QED
      BY <3>1 DEF StopTypeOK
  <2>5. UNCHANGED <<others, mLastActivityTime, mLastPingTime, socket, reading, mFreeSessionList,
                    port, mIsWorkerRun>>
    BY <1>4 DEF OnConnect
  <2>6. QED
    BY <2>1, <2>3, <2>4, <2>5 DEF StopTypeOK
<1>5. CASE Connected(w) \/ Received(w)
  <2>1. PICK i \in Client : i = Current(w)
    BY <1>5, AtEntry DEF Connected, Received
  <2>2. work' \in WorkType
    BY <1>5, AtEntry, NextEntryType DEF Connected, Received
  <2>3. mIsConnected' \in [Client -> BOOLEAN] /\ reading' \in [Client -> BOOLEAN]
    BY <1>5 DEF Connected, Received, BindRecv, StopTypeOK
  <2>4. mLastActivityTime' \in [Client -> Time] /\ mLastPingTime' \in [Client -> Time]
    <3>1. UpdateActivity(i)
      BY <1>5, <2>1 DEF Connected, Received
    <3>2. clock \in Time
      BY DEF StopTypeOK
    <3>3. QED
      BY <3>1, <3>2, Numbers DEF UpdateActivity, StopTypeOK
  <2>5. Rest(i) \in SocketType
    BY DEF Rest, StopTypeOK
  <2>6. socket' \in SocketType /\ mFreeSessionList' \subseteq Client
    <3>1. CASE Connected(w)
      BY <2>1, <2>5, <3>1, RefillType DEF Connected
    <3>2. CASE Received(w)
      BY <2>1, <2>5, <3>2 DEF Received, StopTypeOK
    <3>3. QED
      BY <1>5, <3>1, <3>2
  <2>7. UNCHANGED <<others, port, mIsWorkerRun, hist>>
    BY <1>5 DEF Connected, Received
  <2>8. QED
    BY <2>2, <2>3, <2>4, <2>6, <2>7 DEF StopTypeOK
<1>6. CASE AcceptFails(w)
  <2>1. work' \in WorkType
    BY <1>6, AtEntry, NextEntryType DEF AcceptFails
  <2>2. socket' \in SocketType /\ mFreeSessionList' \subseteq Client
    BY <1>6, RefillType DEF AcceptFails, StopTypeOK
  <2>3. UNCHANGED <<others, mIsConnected, mLastActivityTime, mLastPingTime, reading, port,
                    mIsWorkerRun, hist>>
    BY <1>6 DEF AcceptFails
  <2>4. QED
    BY <2>1, <2>2, <2>3 DEF StopTypeOK
<1>7. CASE CloseSocket(w)
  <2>1. work' \in WorkType
    BY <1>7, AtEntry, NextEntryType DEF CloseSocket
  <2>2. Current(w) \in Client
    BY <1>7, AtEntry DEF CloseSocket
  <2>3. mIsConnected' \in [Client -> BOOLEAN]
    BY <1>7 DEF CloseSocket, StopTypeOK
  <2>4. socket' \in SocketType /\ mFreeSessionList' \subseteq Client
    BY <1>7, <2>2, ZenonT(60) DEF CloseSocket, StopTypeOK
  <2>5. UNCHANGED <<others, mLastActivityTime, mLastPingTime, reading, port, mIsWorkerRun, hist>>
    BY <1>7 DEF CloseSocket
  <2>6. QED
    BY <2>1, <2>3, <2>4, <2>5 DEF StopTypeOK
<1>8. QED
  BY <1>1, <1>2, <1>3, <1>4, <1>5, <1>6, <1>7 DEF WorkerStep

\* The threads that call End keep the types.
LEMMA EndType ==
    ASSUME StopTypeOK, NEW e \in Ender, Begin(e) \/ EndStep(e)
    PROVE  StopTypeOK'
<1> USE Fields DEF stopped
<1> DEFINE Pcs == {"run", "raced", "joinTimeout", "listen", "clients", "drain", "post",
                   "joinWorkers", "done"}
<1>1. stop' \in [Ender -> [pc : Pcs, i : Nat]]
  <2>1. ASSUME NEW pc \in Pcs, Goto(e, pc)
        PROVE  stop' \in [Ender -> [pc : Pcs, i : Nat]]
    BY <2>1 DEF Goto, StopTypeOK
  <2>2. ASSUME stop' = [stop EXCEPT ![e].i = @ + 1]
        PROVE  stop' \in [Ender -> [pc : Pcs, i : Nat]]
    <3>1. stop' = [stop EXCEPT ![e] = [stop[e] EXCEPT !.i = stop[e].i + 1]]
      BY <2>2
    <3>2. [stop[e] EXCEPT !.i = stop[e].i + 1] \in [pc : Pcs, i : Nat]
      <4>1. PICK n \in Nat : n = stop[e].i + 1
        OBVIOUS
      <4>2. stop[e] \in [pc : Pcs, i : Nat]
        BY DEF StopTypeOK
      <4> HIDE DEF Pcs
      <4>3. [stop[e] EXCEPT !.i = n] \in [pc : Pcs, i : Nat]
        BY <4>2
      <4>4. QED
        BY <4>1, <4>3
    <3>3. QED
      BY <3>1, <3>2 DEF StopTypeOK
  <2>3. \/ \E pc \in Pcs : Goto(e, pc)
        \/ stop' = [stop EXCEPT ![e].i = @ + 1]
    BY DEF Begin, EndStep, JoinTimeout, CloseListenSocket, CloseClient, Drain, StopWorkers,
           PostNull, JoinWorkers
  <2>4. QED
    BY <2>1, <2>2, <2>3
<1>2. port' \in Seq(Completions)
  <2>1. CASE CloseListenSocket(e)
    <3> DEFINE waiting == {i \in Client : socket[i] = "accepting"}
    <3>1. PICK order \in [1..Cardinality(waiting) -> waiting] :
            port' = port \o [j \in 1..Cardinality(waiting) |-> Entry("ACCEPT", order[j])]
      BY <2>1 DEF CloseListenSocket
    <3>2. Cardinality(waiting) \in Nat
      <4>1. IsFiniteSet(Client)
        BY StopAssumption, FS_Interval DEF Client
      <4>2. QED
        BY <4>1, FS_Subset, FS_CardinalityType
    <3>3. PICK n \in Nat : n = Cardinality(waiting)
      BY <3>2
    <3>4. \A j \in 1..n : Entry("ACCEPT", order[j]) \in Completions
      BY <3>1, <3>3 DEF Entry, Completions
    <3>5. [j \in 1..n |-> Entry("ACCEPT", order[j])] \in Seq(Completions)
      BY <3>4
    <3>6. PICK p \in Seq(Completions) : p = port
      BY DEF StopTypeOK
    <3>7. PICK q \in Seq(Completions) : q = [j \in 1..n |-> Entry("ACCEPT", order[j])]
      BY <3>5
    <3>8. port' = p \o q
      BY <3>1, <3>3, <3>6, <3>7
    <3>9. QED
      BY <3>8
  <2>2. CASE ~CloseListenSocket(e)
    <3>1. \/ port' = port
          \/ /\ stop[e].i \in Nat /\ stop[e].i < maxClientCount
             /\ port' = Append(port, Entry("CLOSE", stop[e].i))
          \/ port' = Append(port, Entry("NULL", 0))
      BY <2>2 DEF Begin, EndStep, JoinTimeout, CloseClient, Drain, StopWorkers, PostNull, JoinWorkers
    <3>2. Entry("NULL", 0) \in Completions
      BY Numbers DEF Entry, Completions
    <3>3. stop[e].i \in Nat /\ stop[e].i < maxClientCount => Entry("CLOSE", stop[e].i) \in Completions
      BY Numbers DEF Entry, Completions, Client
    <3>4. port \in Seq(Completions) /\ \A c \in Completions : Append(port, c) \in Seq(Completions)
      BY DEF StopTypeOK
    <3>5. QED
      BY <3>1, <3>2, <3>3, <3>4
  <2>3. QED
    BY <2>1, <2>2
<1>3. /\ mIsConnected' \in [Client -> BOOLEAN] /\ reading' \in [Client -> BOOLEAN]
      /\ socket' \in [Client -> {"accepting", "open", "shut", "none"}]
  <2>1. CASE CloseClient(e)
    BY <2>1 DEF CloseClient, StopTypeOK
  <2>2. CASE CloseListenSocket(e)
    BY <2>2 DEF CloseListenSocket, StopTypeOK
  <2>3. CASE ~CloseClient(e) /\ ~CloseListenSocket(e)
    BY <2>3 DEF Begin, EndStep, JoinTimeout, Drain, StopWorkers, PostNull, JoinWorkers, StopTypeOK
  <2>4. QED
    BY <2>1, <2>2, <2>3
<1>4. /\ listening' \in BOOLEAN /\ mIsWorkerRun' \in BOOLEAN /\ mIsTimeoutRun' \in BOOLEAN
      /\ g_pServer' \in BOOLEAN
  BY DEF Begin, EndStep, JoinTimeout, CloseListenSocket, CloseClient, Drain, StopWorkers, PostNull,
         JoinWorkers, StopTypeOK
<1>5. UNCHANGED stopped
  BY DEF Begin, EndStep, JoinTimeout, CloseListenSocket, CloseClient, Drain, StopWorkers, PostNull,
         JoinWorkers
<1>6. QED
  BY <1>1, <1>2, <1>3, <1>4, <1>5 DEF StopTypeOK

\* Every step keeps the types.
LEMMA NextStopTypeOK ==
    ASSUME StopTypeOK, TimeInv, AcceptInv, [Next]_vars
    PROVE  StopTypeOK'
<1>1. CASE Tick
  <2>1. clock' \in Time
    BY <1>1, Numbers DEF Tick, StopTypeOK, Time
  <2>2. QED
    BY <1>1, <2>1 DEF Tick, StopTypeOK, sessions
<1>2. CASE UNCHANGED vars
  BY <1>2 DEF vars, sessions, StopTypeOK
<1>3. QED
  BY <1>1, <1>2, TimeoutType, ClientType, WorkerType, EndType DEF Next

-----------------------------------------------------------------------------
\* The end of the network layer

\* A session becomes connected only in OnConnect (ClientSession.h:311-323).
LEMMA ConnectedBy ==
    ASSUME StopTypeOK, [Next]_vars, NEW i \in Client, mIsConnected'[i], ~mIsConnected[i]
    PROVE  \E w \in Worker : OnConnect(w) /\ i = Current(w)
<1> USE DEF sessions
<1>1. ASSUME Tick \/ TimeoutStep \/ UNCHANGED vars
      PROVE  FALSE
  <2>1. mIsConnected' = mIsConnected
    BY <1>1 DEF Tick, TimeoutStep, PassBegins, Scan, Judge, WakeUp, DisconnectAsync, SendPing, vars
  <2>2. QED
    BY <2>1
<1>2. ASSUME NEW j \in Client, ClientConnects(j) \/ ClientSends(j) \/ ClientLeaves(j)
      PROVE  FALSE
  BY <1>2 DEF ClientConnects, ClientSends, ClientLeaves, network
<1>3. ASSUME NEW w \in Worker, WorkerStep(w), ~OnConnect(w)
      PROVE  FALSE
  <2>1. \/ mIsConnected' = mIsConnected
        \/ \E j : \E b \in BOOLEAN : mIsConnected' = [mIsConnected EXCEPT ![j] = @ /\ b]
        \/ \E j : mIsConnected' = [mIsConnected EXCEPT ![j] = FALSE]
    BY <1>3 DEF WorkerStep, Take, TakesNull, AcceptCompletion, Connected, AcceptFails, Received,
                CloseSocket, BindRecv
  <2>2. QED
    BY <2>1 DEF StopTypeOK
<1>4. ASSUME NEW w \in Worker, OnConnect(w)
      PROVE  i = Current(w)
  BY <1>4 DEF OnConnect, StopTypeOK
<1>5. ASSUME NEW e \in Ender, Begin(e) \/ EndStep(e)
      PROVE  FALSE
  <2>1. mIsConnected' = mIsConnected \/ \E j : mIsConnected' = [mIsConnected EXCEPT ![j] = FALSE]
    BY <1>5 DEF Begin, EndStep, JoinTimeout, CloseListenSocket, CloseClient, Drain, StopWorkers,
                PostNull, JoinWorkers
  <2>2. QED
    BY <2>1 DEF StopTypeOK
<1>6. QED
  BY <1>1, <1>2, <1>3, <1>4, <1>5 DEF Next

\* The loop over the sessions leaves none connected behind it (IOCP.h:186-216).
LEMMA EndPasses ==
    ASSUME StopTypeOK, NEW e \in Ender, Begin(e) \/ EndStep(e), NEW i \in Client, mIsConnected'[i]
    PROVE  /\ Passed(i)' => Passed(i)
           /\ Ended' => Ended \/ (Passed(i) /\ \A w \in Worker : work[w].pc = "ended")
<1>1. ASSUME NEW pc, Goto(e, pc), pc \notin {"clients", "drain", "post", "joinWorkers", "done"}
      PROVE  (Passed(i)' => Passed(i)) /\ (Ended' => Ended)
  <2>1. /\ stop'[e].pc = pc
        /\ \A f \in Ender : f # e => stop'[f] = stop[f]
    BY <1>1 DEF Goto, StopTypeOK
  <2>2. QED
    BY <1>1, <2>1 DEF Passed, Ended
<1>2. ASSUME NEW pc \in {"drain", "post", "joinWorkers"}, Goto(e, pc), Passed(i)
      PROVE  (Passed(i)' => Passed(i)) /\ (Ended' => Ended)
  <2>1. /\ stop'[e].pc = pc
        /\ \A f \in Ender : f # e => stop'[f] = stop[f]
    BY <1>2 DEF Goto, StopTypeOK
  <2>2. QED
    BY <1>2, <2>1 DEF Passed, Ended
<1>3. CASE Begin(e) \/ JoinTimeout(e)
  BY <1>1, <1>3 DEF Begin, JoinTimeout
<1>4. CASE CloseListenSocket(e)
  <2>1. /\ stop'[e].pc = "clients" /\ stop'[e].i = 0
        /\ \A f \in Ender : f # e => stop'[f] = stop[f]
    BY <1>4 DEF CloseListenSocket, Goto, StopTypeOK
  <2>2. ~(0 > i)
    BY Numbers
  <2>3. QED
    BY <2>1, <2>2 DEF Passed, Ended
<1>5. CASE CloseClient(e)
  <2>1. /\ stop[e].pc = "clients" /\ stop'[e].pc = "clients" /\ stop'[e].i = stop[e].i + 1
        /\ \A f \in Ender : f # e => stop'[f] = stop[f]
    BY <1>5 DEF CloseClient, StopTypeOK
  <2>2. stop[e].i # i
    BY <1>5 DEF CloseClient, StopTypeOK
  <2>3. stop'[e].i > i => stop[e].i > i
    <3>1. stop[e].i \in Nat /\ i \in Nat
      BY Fields, Numbers
    <3>2. QED
      BY <2>1, <2>2, <3>1
  <2>4. QED
    BY <2>1, <2>3 DEF Passed, Ended
<1>6. CASE Drain(e)
  <2>1. Goto(e, "drain") /\ stop[e].pc = "clients" /\ stop[e].i = maxClientCount
    BY <1>6 DEF Drain
  <2>2. Passed(i)
    <3>1. maxClientCount > i
      BY StopAssumption DEF Client
    <3>2. QED
      BY <2>1, <3>1 DEF Passed
  <2>3. QED
    BY <1>2, <2>1, <2>2
<1>7. CASE StopWorkers(e)
  <2>1. Goto(e, "post") /\ Passed(i)
    BY <1>7 DEF StopWorkers, Passed
  <2>2. QED
    BY <1>2, <2>1
<1>8. CASE PostNull(e)
  <2>1. Passed(i)
    BY <1>8 DEF PostNull, Passed
  <2>2. CASE Goto(e, "joinWorkers")
    BY <1>2, <2>1, <2>2
  <2>3. CASE stop' = [stop EXCEPT ![e].i = @ + 1]
    <3>1. stop'[e].pc = stop[e].pc /\ \A f \in Ender : f # e => stop'[f] = stop[f]
      BY <2>3 DEF StopTypeOK
    <3>2. QED
      BY <2>1, <3>1 DEF Ended
  <2>4. QED
    BY <1>8, <2>2, <2>3 DEF PostNull
<1>9. CASE JoinWorkers(e)
  <2>1. Passed(i) /\ \A w \in Worker : work[w].pc = "ended"
    BY <1>9 DEF JoinWorkers, Passed
  <2>2. QED
    BY <2>1
<1>10. QED
  BY <1>3, <1>4, <1>5, <1>6, <1>7, <1>8, <1>9 DEF EndStep

\* What steps other than those of End leave alone.
LEMMA OutsideEnd ==
    ASSUME StopTypeOK,
           \/ Tick \/ TimeoutStep \/ UNCHANGED vars
           \/ \E i \in Client : ClientConnects(i) \/ ClientSends(i) \/ ClientLeaves(i)
           \/ \E w \in Worker : WorkerStep(w)
    PROVE  /\ stop' = stop /\ listening' = listening
           /\ \A w \in Worker : work[w].pc = "ended" => work'[w].pc = "ended"
           /\ hist.passed \subseteq hist'.passed
<1> USE DEF sessions, timed, network, others
<1>1. ASSUME \/ Tick \/ TimeoutStep \/ UNCHANGED vars
             \/ \E i \in Client : ClientConnects(i) \/ ClientSends(i) \/ ClientLeaves(i)
      PROVE  stop' = stop /\ listening' = listening /\ work' = work /\ hist' = hist
  BY <1>1 DEF Tick, TimeoutStep, PassBegins, Scan, Judge, WakeUp, ClientConnects, ClientSends,
              ClientLeaves, vars
<1>2. ASSUME NEW w \in Worker, WorkerStep(w)
      PROVE  /\ stop' = stop /\ listening' = listening
             /\ \A v \in Worker : work[v].pc = "ended" => work'[v].pc = "ended"
             /\ hist.passed \subseteq hist'.passed
  <2>1. stop' = stop /\ listening' = listening
    BY <1>2 DEF WorkerStep, Take, TakesNull, AcceptCompletion, OnConnect, Connected, AcceptFails,
                Received, CloseSocket
  <2>2. work[w].pc # "ended"
    BY <1>2 DEF WorkerStep, Take, TakesNull, AcceptCompletion, OnConnect, Connected, AcceptFails,
                Received, CloseSocket, Handles
  <2>3. \A v \in Worker : v # w => work'[v] = work[v]
    BY <1>2 DEF WorkerStep, Take, TakesNull, AcceptCompletion, OnConnect, Connected, AcceptFails,
                Received, CloseSocket, NextEntry, StopTypeOK
  <2>4. hist.passed \subseteq hist'.passed
    <3>1. CASE OnConnect(w)
      <4>1. hist'.passed = IF Passed(Current(w)) THEN hist.passed \cup {Current(w)} ELSE hist.passed
        BY <3>1 DEF OnConnect, StopTypeOK
      <4>2. QED
        BY <4>1
    <3>2. CASE Take(w)
      BY <3>2 DEF Take, StopTypeOK
    <3>3. CASE ~OnConnect(w) /\ ~Take(w)
      BY <1>2, <3>3 DEF WorkerStep, TakesNull, AcceptCompletion, Connected, AcceptFails, Received,
                        CloseSocket
    <3>4. QED
      BY <3>1, <3>2, <3>3
  <2>5. QED
    BY <2>1, <2>2, <2>3, <2>4
<1>3. QED
  BY <1>1, <1>2

\* Every step keeps OutInv.
LEMMA NextOutInv ==
    ASSUME StopTypeOK, OutInv, [Next]_vars
    PROVE  OutInv'
<1>1. CASE \/ Tick \/ TimeoutStep \/ UNCHANGED vars
           \/ \E i \in Client : ClientConnects(i) \/ ClientSends(i) \/ ClientLeaves(i)
           \/ \E w \in Worker : WorkerStep(w)
  <2>1. /\ stop' = stop /\ hist.passed \subseteq hist'.passed
        /\ \A w \in Worker : work[w].pc = "ended" => work'[w].pc = "ended"
    BY <1>1, OutsideEnd
  <2>2. (Ended' <=> Ended) /\ \A i \in Client : Passed(i)' <=> Passed(i)
    BY <2>1 DEF Ended, Passed
  <2>3. ASSUME NEW i \in Client, mIsConnected'[i], Passed(i) \/ Ended
        PROVE  i \in hist'.passed
    <3>1. CASE mIsConnected[i]
      BY <2>1, <2>3, <3>1 DEF OutInv
    <3>2. CASE ~mIsConnected[i]
      <4>1. PICK w \in Worker : OnConnect(w) /\ i = Current(w)
        BY <2>3, <3>2, ConnectedBy
      <4>2. ~Ended
        BY <4>1 DEF OnConnect, OutInv
      <4>3. hist'.passed = IF Passed(i) THEN hist.passed \cup {i} ELSE hist.passed
        BY <4>1 DEF OnConnect, StopTypeOK
      <4>4. QED
        BY <2>3, <4>2, <4>3
    <3>3. QED
      BY <3>1, <3>2
  <2>4. QED
    BY <2>1, <2>2, <2>3 DEF OutInv
<1>2. ASSUME NEW e \in Ender, Begin(e) \/ EndStep(e)
      PROVE  OutInv'
  <2>1. work' = work /\ hist' = hist
    BY <1>2 DEF Begin, EndStep, JoinTimeout, CloseListenSocket, CloseClient, Drain, StopWorkers,
                PostNull, JoinWorkers, stopped
  <2>2. \A i \in Client : mIsConnected'[i] => mIsConnected[i]
    <3>1. mIsConnected' = mIsConnected \/ \E j : mIsConnected' = [mIsConnected EXCEPT ![j] = FALSE]
      BY <1>2 DEF Begin, EndStep, JoinTimeout, CloseListenSocket, CloseClient, Drain, StopWorkers,
                  PostNull, JoinWorkers
    <3>2. QED
      BY <3>1 DEF StopTypeOK
  <2>3. ASSUME NEW i \in Client, mIsConnected'[i], Passed(i)' \/ Ended'
        PROVE  i \in hist'.passed
    BY <1>2, <2>1, <2>2, <2>3, EndPasses DEF OutInv
  <2>4. Ended' => \A w \in Worker : work'[w].pc = "ended"
    <3>1. CASE JoinWorkers(e)
      BY <2>1, <3>1 DEF JoinWorkers
    <3>2. CASE ~JoinWorkers(e)
      <4>1. Ended' => Ended
        <5>1. stop'[e].pc # "done" \/ stop'[e].pc = stop[e].pc
          BY <1>2, <3>2 DEF Begin, EndStep, JoinTimeout, CloseListenSocket, CloseClient, Drain,
                            StopWorkers, PostNull, Goto, StopTypeOK
        <5>2. \A f \in Ender : f # e => stop'[f] = stop[f]
          BY <1>2, <3>2 DEF Begin, EndStep, JoinTimeout, CloseListenSocket, CloseClient, Drain,
                            StopWorkers, PostNull, Goto, StopTypeOK
        <5>3. QED
          BY <5>1, <5>2 DEF Ended
      <4>2. QED
        BY <2>1, <4>1 DEF OutInv
    <3>3. QED
      BY <3>1, <3>2
  <2>5. QED
    BY <2>3, <2>4 DEF OutInv
<1>3. QED
  BY <1>1, <1>2 DEF Next

\* Every step keeps the order of the stages of DestroyThread (IOCP.h:167-221).
LEMMA NextStageInv ==
    ASSUME StopTypeOK, StageInv, [Next]_vars
    PROVE  StageInv'
<1>1. CASE \/ Tick \/ TimeoutStep \/ UNCHANGED vars
           \/ \E i \in Client : ClientConnects(i) \/ ClientSends(i) \/ ClientLeaves(i)
           \/ \E w \in Worker : WorkerStep(w)
  <2>1. stop' = stop /\ listening' = listening
    BY <1>1, OutsideEnd
  <2>2. timeout.pc = "ended" => timeout'.pc = "ended"
    BY <1>1 DEF Tick, TimeoutStep, PassBegins, Scan, Judge, WakeUp, vars, ClientConnects, ClientSends,
                ClientLeaves, network, WorkerStep, Take, TakesNull, AcceptCompletion, OnConnect,
                Connected, AcceptFails, Received, CloseSocket, others
  <2>3. QED
    BY <2>1, <2>2 DEF StageInv
<1>2. ASSUME NEW e \in Ender, Begin(e) \/ EndStep(e)
      PROVE  StageInv'
  <2>1. timeout' = timeout
    BY <1>2 DEF Begin, EndStep, JoinTimeout, CloseListenSocket, CloseClient, Drain, StopWorkers,
                PostNull, JoinWorkers, stopped
  <2>2. \A f \in Ender : f # e => stop'[f] = stop[f]
    BY <1>2 DEF Begin, EndStep, JoinTimeout, CloseListenSocket, CloseClient, Drain, StopWorkers,
                PostNull, JoinWorkers, Goto, StopTypeOK
  <2>3. CASE Begin(e)
    <3>1. stop'[e].pc \in {"raced", "joinTimeout"} /\ listening' = listening
      BY <2>3 DEF Begin, Goto, StopTypeOK
    <3>2. QED
      BY <2>1, <2>2, <3>1 DEF StageInv
  <2>4. CASE JoinTimeout(e)
    <3>1. stop'[e].pc = "listen" /\ listening' = listening /\ timeout.pc = "ended"
      BY <2>4 DEF JoinTimeout, Goto, StopTypeOK
    <3>2. QED
      BY <2>1, <2>2, <3>1 DEF StageInv
  <2>5. CASE CloseListenSocket(e)
    <3>1. stop[e].pc = "listen" /\ ~listening'
      BY <2>5 DEF CloseListenSocket
    <3>2. QED
      BY <2>1, <2>2, <3>1 DEF StageInv
  <2>6. CASE CloseClient(e) \/ Drain(e) \/ StopWorkers(e) \/ PostNull(e) \/ JoinWorkers(e)
    <3>1. /\ stop[e].pc \in {"clients", "drain", "post", "joinWorkers"}
          /\ listening' = listening
      BY <2>6 DEF CloseClient, Drain, StopWorkers, PostNull, JoinWorkers
    <3>2. ~listening /\ timeout.pc = "ended"
      BY <3>1 DEF StageInv
    <3>3. QED
      BY <2>1, <3>1, <3>2 DEF StageInv
  <2>7. QED
    BY <1>2, <2>3, <2>4, <2>5, <2>6 DEF EndStep
<1>3. QED
  BY <1>1, <1>2 DEF Next

-----------------------------------------------------------------------------
\* Time

\* Times of activity only grow (ClientSession.h:95-103).
LEMMA ActivityGrows ==
    ASSUME StopTypeOK, TimeInv, [Next]_vars
    PROVE  /\ clock' \in Int /\ clock' >= clock
           /\ \A i \in Client : /\ mLastActivityTime'[i] \in Int
                                /\ mLastActivityTime'[i] >= mLastActivityTime[i]
                                /\ mLastActivityTime'[i] <= clock'
<1> USE DEF sessions
<1>1. clock \in Int /\ \A i \in Client : mLastActivityTime[i] \in Int /\ mLastActivityTime[i] <= clock
  BY Numbers DEF StopTypeOK, Time, TimeInv
<1>2. CASE Tick
  BY <1>1, <1>2 DEF Tick
<1>3. ASSUME NEW w \in Worker, Connected(w) \/ Received(w)
      PROVE  clock' = clock /\ mLastActivityTime' = [mLastActivityTime EXCEPT ![Current(w)] = clock]
  BY <1>3 DEF Connected, Received, UpdateActivity, others
<1>4. ASSUME NEW w \in Worker, Connected(w) \/ Received(w), NEW i \in Client
      PROVE  mLastActivityTime'[i] = clock \/ mLastActivityTime'[i] = mLastActivityTime[i]
  BY <1>3, <1>4 DEF StopTypeOK
<1>5. CASE ~Tick /\ \A w \in Worker : ~(Connected(w) \/ Received(w))
  <2>1. clock' = clock /\ mLastActivityTime' = mLastActivityTime
    BY <1>5 DEF Next, TimeoutStep, PassBegins, Scan, Judge, WakeUp, timed, DisconnectAsync, SendPing,
                ClientConnects, ClientSends, ClientLeaves, network, WorkerStep, Take, TakesNull,
                AcceptCompletion, OnConnect, AcceptFails, CloseSocket, others, Begin, EndStep,
                JoinTimeout, CloseListenSocket, CloseClient, Drain, StopWorkers, PostNull, JoinWorkers,
                stopped, vars
  <2>2. QED
    BY <1>1, <2>1
<1>6. QED
  BY <1>1, <1>2, <1>3, <1>4, <1>5

\* What a step of the timeout thread does to its own state; no other step does
\* anything to it.
LEMMA TimeoutMoves ==
    ASSUME StopTypeOK, [Next]_vars
    PROVE  \/ timeout' = timeout
           \/ /\ timeout'.pc = "scan" /\ timeout'.i = 0 /\ timeout'.now = clock
              /\ timeout.pc = "test" /\ UNCHANGED sessions
           \/ timeout'.pc = "ended" /\ timeout'.now = timeout.now
           \/ /\ timeout'.pc = "sleep" /\ timeout'.now = timeout.now /\ UNCHANGED sessions
              /\ timeout.pc = "scan" /\ timeout.i = maxClientCount
           \/ /\ timeout'.pc = "scan" /\ timeout'.now = timeout.now /\ timeout'.i = timeout.i + 1
              /\ timeout.pc = "scan" /\ timeout.i \in Client /\ ~mIsConnected[timeout.i]
              /\ UNCHANGED sessions
           \/ /\ timeout'.pc = "judge" /\ timeout'.now = timeout.now /\ timeout'.i = timeout.i
              /\ timeout.pc = "scan" /\ timeout.i \in Client
              /\ timeout'.last = mLastActivityTime[timeout.i] /\ UNCHANGED sessions
           \/ /\ timeout'.pc = "scan" /\ timeout'.now = timeout.now /\ timeout'.i = timeout.i + 1
              /\ Judge
           \/ timeout'.pc = "test" /\ timeout'.now = 0
<1> USE DEF sessions
<1>1. CASE ~TimeoutStep
  <2>1. timeout' = timeout
    BY <1>1 DEF Next, Tick, ClientConnects, ClientSends, ClientLeaves, network, WorkerStep, Take,
                TakesNull, AcceptCompletion, OnConnect, Connected, AcceptFails, Received, CloseSocket,
                others, Begin, EndStep, JoinTimeout, CloseListenSocket, CloseClient, Drain,
                StopWorkers, PostNull, JoinWorkers, stopped, vars
  <2>2. QED
    BY <2>1
<1>2. CASE PassBegins
  BY <1>2 DEF PassBegins, StopTypeOK
<1>3. CASE Scan
  <2>1. timeout.i = maxClientCount \/ timeout.i \in Client
    BY Fields, Numbers
  <2>2. timeout.pc = "scan" /\ UNCHANGED sessions
    BY <1>3 DEF Scan
  <2>3. CASE timeout.i = maxClientCount
    <3>1. maxClientCount \notin Client
      BY StopAssumption DEF Client
    <3>2. timeout' = [timeout EXCEPT !.pc = "sleep"]
      BY <1>3, <2>3, <3>1 DEF Scan
    <3>3. QED
      BY <2>2, <2>3, <3>2 DEF StopTypeOK
  <2>4. CASE timeout.i # maxClientCount /\ ~mIsConnected[timeout.i]
    <3>1. timeout' = [timeout EXCEPT !.i = timeout.i + 1]
      BY <1>3, <2>1, <2>4 DEF Scan
    <3>2. QED
      BY <2>1, <2>2, <2>4, <3>1 DEF StopTypeOK
  <2>5. CASE timeout.i # maxClientCount /\ mIsConnected[timeout.i]
    <3>1. timeout' = [timeout EXCEPT !.pc = "judge", !.last = mLastActivityTime[timeout.i]]
      BY <1>3, <2>1, <2>5 DEF Scan
    <3>2. QED
      BY <2>1, <2>2, <2>5, <3>1 DEF StopTypeOK
  <2>6. QED
    BY <2>3, <2>4, <2>5
<1>4. CASE Judge
  <2>1. timeout' = [timeout EXCEPT !.pc = "scan", !.i = timeout.i + 1, !.last = 0]
    BY <1>4 DEF Judge
  <2>2. QED
    BY <1>4, <2>1 DEF StopTypeOK
<1>5. CASE WakeUp
  BY <1>5 DEF WakeUp
<1>6. QED
  BY <1>1, <1>2, <1>3, <1>4, <1>5 DEF TimeoutStep

\* Every step keeps the timeout thread's view of time.
LEMMA NextTimeInv ==
    ASSUME StopTypeOK, TimeInv, [Next]_vars
    PROVE  TimeInv'
<1>1. /\ clock \in Int /\ clock' \in Int /\ clock' >= clock /\ 0 <= clock
      /\ \A i \in Client : /\ mLastActivityTime[i] \in Int /\ mLastActivityTime'[i] \in Int
                           /\ mLastActivityTime'[i] >= mLastActivityTime[i]
                           /\ mLastActivityTime'[i] <= clock'
  <2>1. clock \in Int /\ 0 <= clock /\ \A i \in Client : mLastActivityTime[i] \in Int
    BY Numbers DEF StopTypeOK, Time
  <2>2. QED
    BY <2>1, ActivityGrows
<1>2. timeout.now \in Int /\ timeout.last \in Int /\ timeout.now <= clock
  BY Fields, Numbers DEF Time, TimeInv
<1>3. timeout'.now <= clock'
  <2>1. timeout'.now = timeout.now \/ timeout'.now = clock \/ timeout'.now = 0
    BY TimeoutMoves
  <2>2. QED
    BY <1>1, <1>2, <2>1
<1>4. ASSUME timeout'.pc = "judge"
      PROVE  timeout'.i \in Client /\ timeout'.last <= mLastActivityTime'[timeout'.i]
  <2>1. CASE timeout' = timeout
    <3>1. PICK i \in Client : i = timeout.i /\ timeout.last <= mLastActivityTime[i]
      BY <1>4, <2>1 DEF TimeInv
    <3>2. timeout.last <= mLastActivityTime'[i]
      BY <1>1, <1>2, <3>1
    <3>3. QED
      BY <2>1, <3>1, <3>2
  <2>2. CASE timeout' # timeout
    <3>1. PICK i \in Client : i = timeout.i /\ timeout'.i = i /\ timeout'.last = mLastActivityTime[i]
      BY <1>4, <2>2, TimeoutMoves
    <3>2. timeout'.last <= mLastActivityTime'[i]
      BY <1>1, <3>1
    <3>3. QED
      BY <3>1, <3>2
  <2>3. QED
    BY <2>1, <2>2
<1>5. QED
  BY <1>1, <1>3, <1>4 DEF TimeInv

-----------------------------------------------------------------------------
\* Whom the timeout thread disconnects

\* Nobody but the timeout thread shuts a socket down (IOCP.h:320-328).
LEMMA KickedByJudge ==
    ASSUME StopTypeOK, [Next]_vars, NEW i \in Client, Kicks(i)
    PROVE  Judge /\ i = timeout.i /\ Minus(timeout.now, timeout.last) >= TIMEOUT_MS
<1> USE DEF sessions, Kicks
<1>1. Judge
  <2>1. SUFFICES ASSUME ~Judge
                 PROVE  socket'[i] = socket[i] \/ socket'[i] # "shut"
    OBVIOUS
  <2>2. ASSUME Tick \/ TimeoutStep \/ UNCHANGED vars
        PROVE  socket' = socket
    BY <2>1, <2>2 DEF Tick, TimeoutStep, PassBegins, Scan, WakeUp, vars
  <2>3. ASSUME NEW j \in Client, ClientConnects(j) \/ ClientSends(j) \/ ClientLeaves(j)
        PROVE  socket' = socket \/ socket' = [socket EXCEPT ![j] = "open"]
    BY <2>3 DEF ClientConnects, ClientSends, ClientLeaves
  <2>4. ASSUME NEW w \in Worker, WorkerStep(w)
        PROVE  socket'[i] = socket[i] \/ socket'[i] # "shut"
    <3>1. CASE Connected(w) \/ AcceptFails(w)
      <4>1. PICK sock : /\ \/ sock = socket
                           \/ \E j : sock = [socket EXCEPT ![j] = "none"]
                        /\ Refill(sock)
        BY <3>1 DEF Connected, AcceptFails, Rest
      <4>2. sock[i] = socket[i] \/ sock[i] = "none"
        BY <4>1 DEF StopTypeOK
      <4>3. DOMAIN sock = Client
        BY <4>1 DEF StopTypeOK
      <4>4. socket'[i] = sock[i] \/ socket'[i] \in {"accepting", "none"}
        BY <4>1, <4>3 DEF Refill
      <4>5. QED
        BY <4>2, <4>4
    <3>2. CASE Received(w)
      BY <3>2 DEF Received, Rest, StopTypeOK
    <3>3. CASE CloseSocket(w)
      BY <3>3 DEF CloseSocket, StopTypeOK
    <3>4. CASE Take(w) \/ TakesNull(w) \/ AcceptCompletion(w) \/ OnConnect(w)
      BY <3>4 DEF Take, TakesNull, AcceptCompletion, OnConnect
    <3>5. QED
      BY <2>4, <3>1, <3>2, <3>3, <3>4 DEF WorkerStep
  <2>5. ASSUME NEW e \in Ender, Begin(e) \/ EndStep(e)
        PROVE  socket'[i] = socket[i] \/ socket'[i] = "none"
    BY <2>5 DEF Begin, EndStep, JoinTimeout, CloseListenSocket, CloseClient, Drain, StopWorkers,
                PostNull, JoinWorkers, StopTypeOK
  <2>6. QED
    BY <2>2, <2>3, <2>4, <2>5 DEF Next, StopTypeOK
<1>2. Minus(timeout.now, timeout.last) >= TIMEOUT_MS
  <2>1. SUFFICES ASSUME ~(Minus(timeout.now, timeout.last) >= TIMEOUT_MS)
                 PROVE  socket' = socket
    OBVIOUS
  <2>2. SendPing(timeout.i) \/ UNCHANGED sessions
    BY <1>1, <2>1 DEF Judge
  <2>3. QED
    BY <2>2 DEF SendPing
<1>3. i = timeout.i
  <2>1. \/ DisconnectAsync(timeout.i) \/ SendPing(timeout.i) \/ UNCHANGED sessions
    BY <1>1 DEF Judge
  <2>2. socket' = socket \/ socket' = [socket EXCEPT ![timeout.i] = "shut"]
    BY <2>1 DEF DisconnectAsync, SendPing
  <2>3. QED
    BY <2>2 DEF StopTypeOK
<1>4. QED
  BY <1>1, <1>2, <1>3

\* The difference of two times does not wrap when the second is not the later one
\* (ULONGLONG arithmetic, IOCP.h:319).
LEMMA NoWrap ==
    ASSUME NEW a \in Time, NEW b \in Time, b <= a
    PROVE  Minus(a, b) = a - b
<1>1. PICK m \in Nat : m = 2 ^ Bits
  BY StopAssumption
<1>2. a - b \in Nat /\ a - b < m
  BY <1>1, StopAssumption DEF Time
<1>3. \A x \in Nat : x < m => x % m = x
  OBVIOUS
<1>4. QED
  BY <1>1, <1>2, <1>3 DEF Minus

\* The difference of two times is a number.
LEMMA MinusType ==
    ASSUME NEW a \in Time, NEW b \in Time
    PROVE  Minus(a, b) \in Int
<1>1. PICK m \in Nat : m = 2 ^ Bits
  BY StopAssumption
<1>2. m > 0 /\ a - b \in Int
  BY <1>1, StopAssumption DEF Time
<1>3. \A x \in Int : x % m \in Int
  BY <1>2
<1>4. QED
  BY <1>1, <1>2, <1>3 DEF Minus

\* There is a reason whenever the timeout thread disconnects a session.
LEMMA KickHasReason ==
    ASSUME StopTypeOK, TimeInv, [Next]_vars, NEW i \in Client, Kicks(i)
    PROVE  Reason(i) # "none"
<1>1. i = timeout.i /\ Minus(timeout.now, timeout.last) >= TIMEOUT_MS
  BY KickedByJudge
<1>2. SUFFICES ASSUME ~(timeout.last > timeout.now), ~(timeout.last < mLastActivityTime[i])
               PROVE  clock - mLastActivityTime[i] >= TIMEOUT_MS
  BY DEF Reason
<1>3. /\ timeout.now \in Int /\ timeout.last \in Int /\ clock \in Int
      /\ mLastActivityTime[i] \in Int /\ TIMEOUT_MS \in Int
  BY Fields, Numbers DEF StopTypeOK, Time
<1>4. Minus(timeout.now, timeout.last) = timeout.now - timeout.last
  BY <1>2, <1>3, Fields, NoWrap
<1>5. timeout.now <= clock
  BY DEF TimeInv
<1>6. QED
  BY <1>1, <1>2, <1>3, <1>4, <1>5

-----------------------------------------------------------------------------
\* Completed accepts, and the sessions they are for

\* A step that brings no accept to the port or to a batch.
LEMMA PendingStays ==
    ASSUME NEW j, \A k : InPort(j, k)' => InPort(j, k),
           \A w \in Worker : \A k : InBatch(j, w, k)' => InBatch(j, w, k)
    PROVE  (Pending(j)' => Pending(j)) /\ (PendingOnce(j) => PendingOnce(j)')
<1>1. /\ \A k : InPort(j, k) => k \in DOMAIN port
      /\ \A w, k : InBatch(j, w, k) => k \in DOMAIN work[w].batch
  BY DEF InPort, InBatch
<1>2. Pending(j)' => Pending(j)
  BY <1>1 DEF Pending
<1>3. PendingOnce(j) => PendingOnce(j)'
  BY <1>1 DEF PendingOnce
<1>4. QED
  BY <1>2, <1>3

\* The next entry of a batch.
LEMMA PendingNextEntry ==
    ASSUME StopTypeOK, NEW w \in Worker, work[w].batch # << >>, NextEntry(w), UNCHANGED port, NEW j
    PROVE  (Pending(j)' => Pending(j)) /\ (PendingOnce(j) => PendingOnce(j)')
<1>1. PICK q \in Seq(Completions) : q = work[w].batch /\ q # << >>
  BY Fields
<1>2. work'[w].batch = Tail(q) /\ \A v \in Worker : v # w => work'[v] = work[v]
  BY <1>1, NextEntryType
<1>3. /\ Len(q) \in Nat /\ DOMAIN q = 1..Len(q) /\ DOMAIN Tail(q) = 1..(Len(q) - 1)
      /\ \A k \in 1..(Len(q) - 1) : Tail(q)[k] = q[k + 1]
  BY <1>1
<1>4. \A k \in DOMAIN Tail(q) : k \in Int /\ k + 1 \in DOMAIN q /\ k + 1 # 1 /\ Tail(q)[k] = q[k + 1]
  BY <1>3
<1>5. \A k : InBatch(j, w, k)' => k \in Int /\ InBatch(j, w, k + 1)
  BY <1>1, <1>2, <1>4 DEF InBatch
<1>6. \A v \in Worker : \A k : v # w => (InBatch(j, v, k)' <=> InBatch(j, v, k))
  BY <1>2 DEF InBatch
<1>7. \A k : InPort(j, k)' <=> InPort(j, k)
  BY DEF InPort
<1>8. /\ \A k : InPort(j, k) => k \in DOMAIN port
      /\ \A v, k : InBatch(j, v, k) => k \in DOMAIN work[v].batch
      /\ \A v, k : InBatch(j, v, k)' => k \in DOMAIN work'[v].batch
  BY DEF InPort, InBatch
<1>9. Pending(j)' => Pending(j)
  BY <1>5, <1>6, <1>7, <1>8 DEF Pending
<1>10. ASSUME PendingOnce(j)
       PROVE  PendingOnce(j)'
  <2>1. \A k, l : InPort(j, k)' /\ InPort(j, l)' => k = l
    BY <1>7, <1>8, <1>10 DEF PendingOnce
  <2>2. \A k, l : InBatch(j, w, k)' /\ InBatch(j, w, l)' => k = l
    <3>1. ASSUME NEW k, NEW l, InBatch(j, w, k)', InBatch(j, w, l)'
          PROVE  k = l
      <4>1. k \in Int /\ l \in Int /\ k + 1 = l + 1
        BY <1>5, <1>8, <1>10, <3>1 DEF PendingOnce
      <4>2. QED
        BY <4>1
    <3>2. QED
      BY <3>1
  <2>3. \A u, v \in Worker : \A k, l : InBatch(j, u, k)' /\ InBatch(j, v, l)' => u = v
    BY <1>5, <1>6, <1>8, <1>10 DEF PendingOnce
  <2>4. \A v \in Worker : v # w => \A k, l : InBatch(j, v, k)' /\ InBatch(j, v, l)' => k = l
    BY <1>6, <1>8, <1>10 DEF PendingOnce
  <2>5. \A v \in Worker : \A k, l : ~(InPort(j, k)' /\ InBatch(j, v, l)')
    BY <1>5, <1>6, <1>7, <1>8, <1>10 DEF PendingOnce
  <2>6. QED
    BY <2>1, <2>2, <2>3, <2>4, <2>5 DEF PendingOnce
<1>11. QED
  BY <1>9, <1>10

\* A batch taken from the port.
LEMMA PendingTake ==
    ASSUME StopTypeOK, NEW w \in Worker, Take(w), NEW j
    PROVE  (Pending(j)' => Pending(j)) /\ (PendingOnce(j) => PendingOnce(j)')
<1>1. PICK p \in Seq(Completions) : p = port
  BY DEF StopTypeOK
<1>2. PICK n \in Nat : /\ n <= Len(p)
                       /\ work' = [work EXCEPT ![w] = [pc |-> "batch", batch |-> SubSeq(p, 1, n)]]
                       /\ port' = SubSeq(p, n + 1, Len(p))
  <2> DEFINE n == IF Len(port) < MAX_COMPLETION_ENTRIES THEN Len(port) ELSE MAX_COMPLETION_ENTRIES
  <2>1. Len(port) \in Nat
    BY DEF StopTypeOK
  <2>2. n \in Nat /\ n <= Len(port)
    BY <2>1, StopAssumption
  <2>3. /\ work' = [work EXCEPT ![w] = [pc |-> "batch", batch |-> SubSeq(port, 1, n)]]
        /\ port' = SubSeq(port, n + 1, Len(port))
    BY DEF Take
  <2> HIDE DEF n
  <2>4. QED
    BY <1>1, <2>2, <2>3
<1>3. /\ Len(p) \in Nat /\ DOMAIN p = 1..Len(p)
      /\ DOMAIN SubSeq(p, 1, n) = 1..n /\ \A k \in 1..n : SubSeq(p, 1, n)[k] = p[k]
      /\ DOMAIN SubSeq(p, n + 1, Len(p)) = 1..(Len(p) - n)
      /\ \A k \in 1..(Len(p) - n) : SubSeq(p, n + 1, Len(p))[k] = p[n + k]
  <2>1. Len(p) \in Nat /\ DOMAIN p = 1..Len(p)
    OBVIOUS
  <2>2. DOMAIN SubSeq(p, 1, n) = 1..n /\ \A k \in 1..n : SubSeq(p, 1, n)[k] = p[k]
    BY <1>2, <2>1
  <2>3. PICK N \in Nat : N = Len(p)
    BY <2>1
  <2>4. PICK m \in Int : m = n + 1
    OBVIOUS
  <2>5. \A k \in m..N : p[k] \in Completions
    BY <1>2, <2>1, <2>3, <2>4
  <2>6. /\ SubSeq(p, m, N) \in Seq(Completions)
        /\ Len(SubSeq(p, m, N)) = IF m <= N THEN N - m + 1 ELSE 0
    BY <2>5, SubSeqProperties, N \in Int
  <2>7. PICK q \in Seq(Completions) : q = SubSeq(p, m, N)
    BY <2>6
  <2>8. DOMAIN q = 1..Len(q) /\ Len(q) = IF m <= N THEN N - m + 1 ELSE 0
    BY <2>6, <2>7
  <2>9. (IF m <= N THEN N - m + 1 ELSE 0) = N - n
    BY <1>2, <2>3, <2>4
  <2>10. DOMAIN SubSeq(p, n + 1, Len(p)) = 1..(Len(p) - n)
    BY <2>3, <2>4, <2>7, <2>8, <2>9
  <2>11. \A k \in 1..(Len(p) - n) : SubSeq(p, n + 1, Len(p))[k] = p[n + k]
    BY <1>2, <2>1
  <2>12. QED
    BY <2>1, <2>2, <2>10, <2>11
<1>4. work'[w].batch = SubSeq(p, 1, n) /\ \A v \in Worker : v # w => work'[v] = work[v]
  BY <1>2 DEF StopTypeOK
<1>5. \A k \in 1..n : k \in DOMAIN p /\ k \in Int /\ k <= n
  BY <1>2, <1>3
<1>6. \A k \in 1..(Len(p) - n) : n + k \in DOMAIN p /\ k \in Int /\ n + k > n
  BY <1>2, <1>3
<1>7. \A k : InBatch(j, w, k)' => k \in Int /\ k <= n /\ InPort(j, k)
  BY <1>1, <1>3, <1>4, <1>5 DEF InBatch, InPort
<1>8. \A k : InPort(j, k)' => k \in Int /\ n + k > n /\ InPort(j, n + k)
  BY <1>1, <1>2, <1>3, <1>6 DEF InPort
<1>9. \A v \in Worker : \A k : v # w => (InBatch(j, v, k)' <=> InBatch(j, v, k))
  BY <1>4 DEF InBatch
<1>10. /\ \A k : InPort(j, k) => k \in DOMAIN port
       /\ \A v, k : InBatch(j, v, k) => k \in DOMAIN work[v].batch
  BY DEF InPort, InBatch
<1>11. Pending(j)' => Pending(j)
  BY <1>7, <1>8, <1>9, <1>10 DEF Pending
<1>12. ASSUME PendingOnce(j)
       PROVE  PendingOnce(j)'
  <2>1. ASSUME NEW k, NEW l, InPort(j, k)', InPort(j, l)'
        PROVE  k = l
    <3>1. k \in Int /\ l \in Int /\ n + k = n + l
      BY <1>8, <1>10, <1>12, <2>1 DEF PendingOnce
    <3>2. QED
      BY <3>1
  <2>2. \A k, l : InBatch(j, w, k)' /\ InBatch(j, w, l)' => k = l
    BY <1>7, <1>10, <1>12 DEF PendingOnce
  <2>3. \A v \in Worker : v # w => \A k, l : ~(InBatch(j, v, k)' /\ InBatch(j, w, l)')
    BY <1>7, <1>9, <1>10, <1>12 DEF PendingOnce
  <2>4. \A u, v \in Worker : u # w /\ v # w =>
           \A k, l : InBatch(j, u, k)' /\ InBatch(j, v, l)' => u = v /\ k = l
    BY <1>9, <1>10, <1>12 DEF PendingOnce
  <2>5. ASSUME NEW k, NEW l, InPort(j, k)', InBatch(j, w, l)'
        PROVE  FALSE
    <3>1. k \in Int /\ l \in Int /\ n + k = l /\ n + k > n /\ l <= n
      BY <1>7, <1>8, <1>10, <1>12, <2>5 DEF PendingOnce
    <3>2. QED
      BY <3>1
  <2>6. \A v \in Worker : v # w => \A k, l : ~(InPort(j, k)' /\ InBatch(j, v, l)')
    BY <1>8, <1>9, <1>10, <1>12 DEF PendingOnce
  <2>7. QED
    BY <2>1, <2>2, <2>3, <2>4, <2>5, <2>6 DEF PendingOnce
<1>13. QED
  BY <1>11, <1>12

\* An accept completes for a session that had none.
LEMMA PendingConnects ==
    ASSUME StopTypeOK, NEW i \in Client, ClientConnects(i), NEW j \in Client
    PROVE  /\ j # i => (Pending(j)' => Pending(j)) /\ (PendingOnce(j) => PendingOnce(j)')
           /\ j = i /\ ~Pending(i) => PendingOnce(j)'
<1>1. PICK p \in Seq(Completions) : p = port
  BY DEF StopTypeOK
<1>2. PICK c \in Completions : c = Entry("ACCEPT", i)
  BY DEF Entry, Completions
<1>3. port' = Append(p, c) /\ work' = work
  BY <1>1, <1>2 DEF ClientConnects, Post, network
<1>4. /\ Len(p) \in Nat /\ DOMAIN p = 1..Len(p) /\ DOMAIN Append(p, c) = 1..(Len(p) + 1)
      /\ Append(p, c)[Len(p) + 1] = c /\ \A k \in 1..Len(p) : Append(p, c)[k] = p[k]
  OBVIOUS
<1>5. \A k \in DOMAIN Append(p, c) :
         (k \in DOMAIN p /\ Append(p, c)[k] = p[k]) \/ (k = Len(p) + 1 /\ Append(p, c)[k] = c)
  BY <1>4
<1>6. \A v \in Worker : \A k : InBatch(j, v, k)' <=> InBatch(j, v, k)
  BY <1>3 DEF InBatch
<1>7. \A k : InPort(j, k)' => InPort(j, k) \/ (k = Len(p) + 1 /\ c = Entry("ACCEPT", j))
  BY <1>1, <1>3, <1>5 DEF InPort
<1>8. CASE j # i
  <2>1. c # Entry("ACCEPT", j)
    BY <1>2, <1>8 DEF Entry
  <2>2. QED
    BY <1>6, <1>7, <1>8, <2>1, PendingStays
<1>9. CASE j = i
  <2>1. ASSUME ~Pending(i)
        PROVE  PendingOnce(j)'
    <3>1. \A k : ~InPort(j, k)
      BY <1>9, <2>1 DEF Pending, InPort
    <3>2. \A v \in Worker : \A k : ~InBatch(j, v, k)
      BY <1>9, <2>1 DEF Pending, InBatch
    <3>3. QED
      BY <1>6, <1>7, <3>1, <3>2 DEF PendingOnce
  <2>2. QED
    BY <1>9, <2>1
<1>10. QED
  BY <1>8, <1>9

\* A session that neither gets an accept nor becomes free or connected stays idle.
LEMMA StaysIdle ==
    ASSUME NEW j \in Client, Idle(j), Pending(j)' => Pending(j), mIsConnected'[j] => mIsConnected[j],
           socket'[j] = "accepting" => socket[j] = "accepting",
           j \in mFreeSessionList' => j \in mFreeSessionList
    PROVE  Idle(j)'
  BY DEF Idle

\* A free session that waits for a connection from now on (IOCP.h:500-507).
LEMMA RefillIdle ==
    ASSUME StopTypeOK, NEW j \in Client, Idle(j), Pending(j)' => Pending(j),
           mIsConnected'[j] => mIsConnected[j],
           NEW sock, DOMAIN sock = Client,
           \A i \in Client : sock[i] = "accepting" => socket[i] = "accepting", Refill(sock)
    PROVE  Idle(j)'
<1>1. CASE mFreeSessionList = {}
  <2>1. socket' = sock /\ mFreeSessionList' = mFreeSessionList
    BY <1>1 DEF Refill
  <2>2. QED
    BY <2>1, StaysIdle
<1>2. CASE mFreeSessionList # {}
  <2>1. PICK i \in mFreeSessionList :
          /\ mFreeSessionList' = mFreeSessionList \ {i}
          /\ socket' = [sock EXCEPT ![i] = IF listening THEN "accepting" ELSE "none"]
    BY <1>2 DEF Refill
  <2>2. CASE j = i
    <3>1. j \in mFreeSessionList /\ j \notin mFreeSessionList'
      BY <2>1, <2>2
    <3>2. ~mIsConnected[j] /\ ~Pending(j)
      BY <3>1 DEF Idle
    <3>3. QED
      BY <3>1, <3>2 DEF Idle
  <2>3. CASE j # i
    <3>1. socket'[j] = sock[j]
      BY <2>1, <2>3
    <3>2. QED
      BY <2>1, <3>1, StaysIdle
  <2>4. QED
    BY <2>2, <2>3
<1>3. QED
  BY <1>1, <1>2

\* The workers keep AcceptInv while the server listens.
LEMMA WorkerAccepts ==
    ASSUME StopTypeOK, AcceptInv, NEW w \in Worker, WorkerStep(w), listening,
           NEW j \in Client
    PROVE  PendingOnce(j)' /\ Idle(j)'
<1> USE DEF sessions
<1>1. PendingOnce(j) /\ Idle(j)
  BY DEF AcceptInv
<1>2. CASE Take(w)
  <2>1. (Pending(j)' => Pending(j)) /\ PendingOnce(j)'
    BY <1>1, <1>2, PendingTake
  <2>2. mIsConnected' = mIsConnected /\ socket' = socket /\ mFreeSessionList' = mFreeSessionList
    BY <1>2 DEF Take
  <2>3. QED
    BY <1>1, <2>1, <2>2, StaysIdle
<1>3. CASE AcceptCompletion(w)
  <2>1. /\ port' = port /\ mIsConnected' = mIsConnected /\ socket' = socket
        /\ mFreeSessionList' = mFreeSessionList
        /\ work[w].pc = "batch" /\ work' = [work EXCEPT ![w].pc = "accepted"]
    BY <1>3 DEF AcceptCompletion, Handles
  <2>2. \A v \in Worker : work'[v].batch = work[v].batch /\ (v # w => work'[v].pc = work[v].pc)
    BY <2>1 DEF StopTypeOK
  <2>3. \A v \in Worker : \A k : InBatch(j, v, k)' => InBatch(j, v, k)
    <3>1. \A k : InBatch(j, w, k)' => InBatch(j, w, k)
      BY <2>1, <2>2 DEF InBatch
    <3>2. \A v \in Worker : \A k : v # w /\ InBatch(j, v, k)' => InBatch(j, v, k)
      BY <2>2 DEF InBatch
    <3>3. QED
      BY <3>1, <3>2
  <2>4. \A k : InPort(j, k)' => InPort(j, k)
    BY <2>1 DEF InPort
  <2>5. (Pending(j)' => Pending(j)) /\ PendingOnce(j)'
    BY <1>1, <2>3, <2>4, PendingStays
  <2>6. QED
    BY <1>1, <2>1, <2>5, StaysIdle
<1>4. CASE OnConnect(w)
  <2>1. PICK i \in Client : i = Current(w)
    BY <1>4, AtEntry DEF OnConnect
  <2>2. /\ port' = port /\ socket' = socket /\ mFreeSessionList' = mFreeSessionList
        /\ work[w].pc = "accepted" /\ work' = [work EXCEPT ![w].pc = "connect"]
        /\ mIsConnected' = [mIsConnected EXCEPT ![i] = TRUE]
    BY <1>4, <2>1 DEF OnConnect
  <2>3. \A v \in Worker : work'[v].batch = work[v].batch /\ (v # w => work'[v].pc = work[v].pc)
    BY <2>2 DEF StopTypeOK
  <2>4. \A v \in Worker : \A k : InBatch(j, v, k)' => InBatch(j, v, k) /\ ~(v = w /\ k = 1)
    <3>1. work'[w].pc = "connect"
      BY <2>2 DEF StopTypeOK
    <3>2. \A k : InBatch(j, w, k)' => InBatch(j, w, k) /\ k # 1
      BY <2>3, <3>1 DEF InBatch
    <3>3. \A v \in Worker : \A k : v # w /\ InBatch(j, v, k)' => InBatch(j, v, k)
      BY <2>3 DEF InBatch
    <3>4. QED
      BY <3>2, <3>3
  <2>5. \A k : InPort(j, k)' => InPort(j, k)
    BY <2>2 DEF InPort
  <2>6. (Pending(j)' => Pending(j)) /\ PendingOnce(j)'
    BY <1>1, <2>4, <2>5, PendingStays
  <2>7. CASE j # i
    <3>1. mIsConnected'[j] = mIsConnected[j]
      BY <2>2, <2>7 DEF StopTypeOK
    <3>2. QED
      BY <1>1, <2>2, <2>6, <3>1, StaysIdle
  <2>8. CASE j = i
    <3>1. PICK q \in Seq(Completions) : q = work[w].batch /\ q # << >> /\ Head(q).op = "ACCEPT"
      BY <2>2, Fields DEF AcceptInv
    <3>2. 1 \in DOMAIN q /\ q[1] = Entry("ACCEPT", j)
      <4>1. Head(q) = q[1] /\ q[1] \in Completions /\ 1 \in DOMAIN q
        BY <3>1
      <4>2. q[1].client = j /\ q[1].op = "ACCEPT"
        BY <2>1, <2>8, <3>1, <4>1 DEF Current
      <4>3. QED
        BY <4>1, <4>2 DEF Completions, Entry
    <3>3. InBatch(j, w, 1)
      BY <2>2, <3>1, <3>2 DEF InBatch
    <3>4. 1 \in DOMAIN work[w].batch
      BY <3>1, <3>2
    <3>5. Pending(j)
      BY <3>3, <3>4 DEF Pending
    <3>6. ~Pending(j)'
      <4>1. \A k : ~InPort(j, k)'
        <5>1. \A k : InPort(j, k) => k \in DOMAIN port
          BY DEF InPort
        <5>2. QED
          BY <1>1, <2>5, <3>3, <3>4, <5>1 DEF PendingOnce
      <4>2. \A v \in Worker : \A k : ~InBatch(j, v, k)'
        <5>1. \A v, k : InBatch(j, v, k) => k \in DOMAIN work[v].batch
          BY DEF InBatch
        <5>2. QED
          BY <1>1, <2>4, <3>3, <3>4, <5>1 DEF PendingOnce
      <4>3. QED
        BY <4>1, <4>2 DEF Pending
    <3>7. j \notin mFreeSessionList' /\ socket'[j] # "accepting"
      BY <1>1, <2>2, <3>5 DEF Idle
    <3>8. QED
      BY <2>6, <3>6, <3>7 DEF Idle
  <2>9. QED
    BY <2>7, <2>8
<1>5. CASE TakesNull(w) \/ Connected(w) \/ Received(w) \/ CloseSocket(w)
  <2>1. PICK i \in Client : i = Current(w) /\ work[w].batch # << >>
    BY <1>5, AtEntry DEF TakesNull, Connected, Received, CloseSocket
  <2>2. NextEntry(w) /\ UNCHANGED port
    BY <1>5 DEF TakesNull, Connected, Received, CloseSocket
  <2>3. (Pending(j)' => Pending(j)) /\ PendingOnce(j)'
    BY <1>1, <2>1, <2>2, PendingNextEntry
  <2>4. mIsConnected'[j] => mIsConnected[j]
    <3>1. \/ mIsConnected' = mIsConnected
          \/ \E b \in BOOLEAN : mIsConnected' = [mIsConnected EXCEPT ![i] = @ /\ b]
          \/ mIsConnected' = [mIsConnected EXCEPT ![i] = FALSE]
      BY <1>5, <2>1 DEF TakesNull, Connected, Received, CloseSocket, BindRecv
    <3>2. QED
      BY <3>1 DEF StopTypeOK
  <2>5. /\ DOMAIN Rest(i) = Client
        /\ \A k \in Client : Rest(i)[k] = "accepting" => socket[k] = "accepting"
    BY DEF Rest, StopTypeOK
  <2>6. CASE Connected(w)
    <3>1. Refill(Rest(i))
      BY <2>1, <2>6 DEF Connected
    <3>2. QED
      BY <1>1, <2>3, <2>4, <2>5, <3>1, RefillIdle
  <2>7. CASE Received(w)
    <3>1. socket' = Rest(i) /\ mFreeSessionList' = mFreeSessionList
      BY <2>1, <2>7 DEF Received
    <3>2. socket'[j] = "accepting" => socket[j] = "accepting"
      BY <2>5, <3>1
    <3>3. QED
      BY <1>1, <2>3, <2>4, <3>1, <3>2, StaysIdle
  <2>8. CASE TakesNull(w)
    BY <1>1, <2>3, <2>4, <2>8, StaysIdle DEF TakesNull
  <2>9. CASE CloseSocket(w) /\ mIsConnected[i] /\ j = i
    <3>1. ~mIsConnected'[j] /\ socket'[j] = "none"
      BY <2>1, <2>9 DEF CloseSocket, StopTypeOK
    <3>2. ~Pending(j)
      BY <1>1, <2>9 DEF Idle
    <3>3. QED
      BY <2>3, <3>1, <3>2 DEF Idle
  <2>10. CASE CloseSocket(w) /\ ~(mIsConnected[i] /\ j = i)
    <3>1. /\ socket'[j] = socket[j]
          /\ j \in mFreeSessionList' => j \in mFreeSessionList
      BY <2>1, <2>10 DEF CloseSocket, StopTypeOK
    <3>2. QED
      BY <1>1, <2>3, <2>4, <3>1, StaysIdle
  <2>11. QED
    BY <1>5, <2>6, <2>7, <2>8, <2>9, <2>10
<1>6. CASE AcceptFails(w)
  BY <1>6 DEF AcceptFails
<1>7. QED
  BY <1>2, <1>3, <1>4, <1>5, <1>6 DEF WorkerStep

\* A worker in the middle of an accept stays at it.
LEMMA NextAtAccept ==
    ASSUME StopTypeOK, AcceptInv, [Next]_vars, NEW w \in Worker,
           work'[w].pc \in {"accepted", "connect"}
    PROVE  work'[w].batch # << >> /\ Head(work'[w].batch).op = "ACCEPT"
<1>1. CASE work'[w] = work[w]
  BY <1>1 DEF AcceptInv
<1>2. ASSUME NEW v \in Worker, WorkerStep(v), work'[w] # work[w]
      PROVE  work'[w].batch # << >> /\ Head(work'[w].batch).op = "ACCEPT"
  <2>1. CASE AcceptCompletion(v)
    <3>1. work' = [work EXCEPT ![v].pc = "accepted"] /\ Handles(v, "ACCEPT")
      BY <2>1 DEF AcceptCompletion
    <3>2. w = v /\ work'[w].batch = work[w].batch
      BY <1>2, <3>1 DEF StopTypeOK
    <3>3. QED
      BY <3>1, <3>2 DEF Handles
  <2>2. CASE OnConnect(v)
    <3>1. work' = [work EXCEPT ![v].pc = "connect"] /\ work[v].pc = "accepted"
      BY <2>2 DEF OnConnect
    <3>2. w = v /\ work'[w].batch = work[w].batch
      BY <1>2, <3>1 DEF StopTypeOK
    <3>3. QED
      BY <3>1, <3>2 DEF AcceptInv
  <2>3. CASE Take(v)
    <3>1. w = v /\ work'[w].pc = "batch"
      BY <1>2, <2>3 DEF Take, StopTypeOK
    <3>2. QED
      BY <3>1
  <2>4. CASE TakesNull(v) \/ Connected(v) \/ AcceptFails(v) \/ Received(v) \/ CloseSocket(v)
    <3>1. work[v].batch # << >> /\ NextEntry(v)
      BY <2>4, AtEntry DEF TakesNull, Connected, AcceptFails, Received, CloseSocket
    <3>2. work'[v].pc \in {"wait", "batch", "ended"} /\ \A u \in Worker : u # v => work'[u] = work[u]
      BY <3>1, NextEntryType
    <3>3. QED
      BY <1>2, <3>2
  <2>5. QED
    BY <1>2, <2>1, <2>2, <2>3, <2>4 DEF WorkerStep
<1>3. CASE \A v \in Worker : ~WorkerStep(v)
  <2>1. work' = work
    BY <1>3 DEF Next, Tick, TimeoutStep, PassBegins, Scan, Judge, WakeUp, timed, ClientConnects,
                ClientSends, ClientLeaves, network, Begin, EndStep, JoinTimeout, CloseListenSocket,
                CloseClient, Drain, StopWorkers, PostNull, JoinWorkers, stopped, vars
  <2>2. QED
    BY <1>1, <2>1
<1>4. QED
  BY <1>1, <1>2, <1>3

\* Every step keeps AcceptInv.
LEMMA NextAcceptInv ==
    ASSUME StopTypeOK, StageInv, AcceptInv, [Next]_vars
    PROVE  AcceptInv'
<1>1. SUFFICES ASSUME listening', NEW j \in Client
               PROVE  PendingOnce(j)' /\ Idle(j)'
  BY NextAtAccept DEF AcceptInv
<1>2. ASSUME \/ Tick \/ TimeoutStep \/ UNCHANGED vars
             \/ \E e \in Ender : Begin(e) \/ JoinTimeout(e)
      PROVE  PendingOnce(j)' /\ Idle(j)'
  <2>1. /\ listening' = listening /\ port' = port /\ work' = work /\ mIsConnected' = mIsConnected
        /\ mFreeSessionList' = mFreeSessionList
    BY <1>2 DEF Tick, TimeoutStep, PassBegins, Scan, Judge, WakeUp, timed, sessions, DisconnectAsync,
                SendPing, vars, Begin, JoinTimeout, stopped
  <2>2. socket'[j] = socket[j] \/ socket'[j] = "shut"
    <3>1. socket' = socket \/ \E i : socket' = [socket EXCEPT ![i] = "shut"]
      BY <1>2 DEF Tick, TimeoutStep, PassBegins, Scan, Judge, WakeUp, sessions, DisconnectAsync,
                  SendPing, vars, Begin, JoinTimeout
    <3>2. QED
      BY <3>1 DEF StopTypeOK
  <2>3. (\A k : InPort(j, k)' => InPort(j, k))
        /\ (\A w \in Worker : \A k : InBatch(j, w, k)' => InBatch(j, w, k))
    BY <2>1 DEF InPort, InBatch
  <2>4. PendingOnce(j) /\ Idle(j)
    BY <1>1, <2>1 DEF AcceptInv
  <2>5. QED
    BY <2>1, <2>2, <2>3, <2>4, PendingStays, StaysIdle
<1>3. ASSUME NEW i \in Client, ClientConnects(i)
      PROVE  PendingOnce(j)' /\ Idle(j)'
  <2>1. /\ listening /\ socket[i] = "accepting" /\ socket' = [socket EXCEPT ![i] = "open"]
        /\ mIsConnected' = mIsConnected /\ mFreeSessionList' = mFreeSessionList
    BY <1>3 DEF ClientConnects, network
  <2>2. PendingOnce(j) /\ Idle(j) /\ ~Pending(i) /\ ~mIsConnected[i] /\ i \notin mFreeSessionList
    BY <2>1 DEF AcceptInv, Idle
  <2>3. CASE j = i
    <3>1. socket'[j] = "open"
      BY <2>1, <2>3 DEF StopTypeOK
    <3>2. PendingOnce(j)'
      BY <1>3, <2>2, <2>3, PendingConnects
    <3>3. QED
      BY <2>1, <2>2, <2>3, <3>1, <3>2 DEF Idle
  <2>4. CASE j # i
    <3>1. socket'[j] = socket[j]
      BY <2>1, <2>4 DEF StopTypeOK
    <3>2. (Pending(j)' => Pending(j)) /\ PendingOnce(j)'
      BY <1>3, <2>2, <2>4, PendingConnects
    <3>3. QED
      BY <2>1, <2>2, <3>1, <3>2, StaysIdle
  <2>5. QED
    BY <2>3, <2>4
<1>4. ASSUME NEW i \in Client, ClientSends(i) \/ ClientLeaves(i)
      PROVE  PendingOnce(j)' /\ Idle(j)'
  <2>1. /\ listening' = listening /\ socket' = socket /\ work' = work
        /\ mIsConnected' = mIsConnected /\ mFreeSessionList' = mFreeSessionList
    BY <1>4 DEF ClientSends, ClientLeaves, network
  <2>2. PICK op \in {"RECV", "CLOSE"} : port' = Append(port, Entry(op, i))
    BY <1>4 DEF ClientSends, ClientLeaves, Post
  <2>3. PICK p \in Seq(Completions) : p = port
    BY DEF StopTypeOK
  <2>4. PICK c \in Completions : c = Entry(op, i)
    BY DEF Entry, Completions
  <2>5. c # Entry("ACCEPT", j)
    BY <2>4 DEF Entry
  <2>6. \A k \in DOMAIN Append(p, c) : (k \in DOMAIN p /\ Append(p, c)[k] = p[k]) \/ Append(p, c)[k] = c
    OBVIOUS
  <2>7. \A k : InPort(j, k)' => InPort(j, k)
    BY <2>2, <2>3, <2>4, <2>5, <2>6 DEF InPort
  <2>8. \A w \in Worker : \A k : InBatch(j, w, k)' => InBatch(j, w, k)
    BY <2>1 DEF InBatch
  <2>9. PendingOnce(j) /\ Idle(j)
    BY <1>1, <2>1 DEF AcceptInv
  <2>10. QED
    BY <2>1, <2>7, <2>8, <2>9, PendingStays, StaysIdle
<1>5. ASSUME NEW w \in Worker, WorkerStep(w)
      PROVE  PendingOnce(j)' /\ Idle(j)'
  <2>1. listening
    BY <1>1, <1>5, OutsideEnd
  <2>2. QED
    BY <1>5, <2>1, WorkerAccepts
<1>6. ASSUME NEW e \in Ender, CloseListenSocket(e)
      PROVE  FALSE
  BY <1>1, <1>6 DEF CloseListenSocket
<1>7. ASSUME NEW e \in Ender,
             CloseClient(e) \/ Drain(e) \/ StopWorkers(e) \/ PostNull(e) \/ JoinWorkers(e)
      PROVE  FALSE
  <2>1. listening' = listening /\ stop[e].pc \in {"clients", "drain", "post", "joinWorkers"}
    BY <1>7 DEF CloseClient, Drain, StopWorkers, PostNull, JoinWorkers
  <2>2. QED
    BY <1>1, <2>1 DEF StageInv
<1>8. QED
  BY <1>2, <1>3, <1>4, <1>5, <1>6, <1>7 DEF Next, EndStep

-----------------------------------------------------------------------------
\* What a pass of the timeout thread leaves behind

\* A worker that has set the flag of a session and not its time yet stays there
\* until it has set the time too (ClientSession.h:65-80, 311-323).
LEMMA StaysAtConnect ==
    ASSUME StopTypeOK, AcceptInv, [Next]_vars, NEW w \in Worker, work[w].pc = "connect", ~Connected(w)
    PROVE  work'[w] = work[w]
<1>1. CASE \A v \in Worker : ~WorkerStep(v)
  <2>1. work' = work
    BY <1>1 DEF Next, Tick, TimeoutStep, PassBegins, Scan, Judge, WakeUp, timed, ClientConnects,
                ClientSends, ClientLeaves, network, Begin, EndStep, JoinTimeout, CloseListenSocket,
                CloseClient, Drain, StopWorkers, PostNull, JoinWorkers, stopped, vars
  <2>2. QED
    BY <2>1
<1>2. ASSUME NEW v \in Worker, WorkerStep(v)
      PROVE  work'[w] = work[w]
  <2>1. v # w
    BY <1>2 DEF WorkerStep, Take, TakesNull, AcceptCompletion, OnConnect, AcceptFails, Received,
                CloseSocket, Handles
  <2>2. CASE Take(v)
    BY <2>1, <2>2 DEF Take, StopTypeOK
  <2>3. CASE AcceptCompletion(v)
    BY <2>1, <2>3 DEF AcceptCompletion, StopTypeOK
  <2>4. CASE OnConnect(v)
    BY <2>1, <2>4 DEF OnConnect, StopTypeOK
  <2>5. CASE TakesNull(v) \/ Connected(v) \/ AcceptFails(v) \/ Received(v) \/ CloseSocket(v)
    <3>1. NextEntry(v)
      BY <2>5 DEF TakesNull, Connected, AcceptFails, Received, CloseSocket
    <3>2. QED
      BY <2>1, <3>1 DEF NextEntry, StopTypeOK
  <2>6. QED
    BY <1>2, <2>2, <2>3, <2>4, <2>5 DEF WorkerStep
<1>3. QED
  BY <1>1, <1>2

\* A session is connected, and its socket open, because it was before, or because a
\* worker is at its connection, or has just set its time.
LEMMA SuspectStays ==
    ASSUME StopTypeOK, TimeInv, AcceptInv, [Next]_vars, NEW j \in Client, Suspect(j)',
           timeout'.now = timeout.now
    PROVE  Suspect(j) \/ mLastActivityTime'[j] >= timeout.now
<1> USE DEF sessions
<1>1. /\ mIsConnected'[j] /\ socket'[j] = "open" /\ hist'.since[j] <= timeout.now
      /\ \A w \in Worker : work'[w].pc = "connect" => Head(work'[w].batch).client # j
  BY DEF Suspect, Current
<1>2. SUFFICES ASSUME ~(mLastActivityTime'[j] >= timeout.now)
               PROVE  /\ mIsConnected[j] /\ socket[j] = "open" /\ hist.since[j] <= timeout.now
                      /\ \A w \in Worker : work[w].pc = "connect" => Current(w) # j
  BY DEF Suspect
<1>3. \A w \in Worker : Connected(w) => Current(w) # j
  <2>1. SUFFICES ASSUME NEW w \in Worker, Connected(w), Current(w) = j
                 PROVE  FALSE
    OBVIOUS
  <2>2. mLastActivityTime' = [mLastActivityTime EXCEPT ![j] = clock]
    BY <2>1 DEF Connected, UpdateActivity
  <2>3. mLastActivityTime'[j] = clock
    BY <2>2 DEF StopTypeOK
  <2>4. clock \in Int /\ timeout.now \in Int /\ timeout.now <= clock
    BY Fields DEF StopTypeOK, TimeInv, Time
  <2>5. QED
    BY <1>2, <2>3, <2>4
<1>4. \A w \in Worker : work[w].pc = "connect" => Current(w) # j
  BY <1>1, <1>3, StaysAtConnect DEF Current
<1>5. \A w \in Worker : OnConnect(w) => Current(w) # j
  <2>1. SUFFICES ASSUME NEW w \in Worker, OnConnect(w), Current(w) = j
                 PROVE  FALSE
    OBVIOUS
  <2>2. work' = [work EXCEPT ![w].pc = "connect"]
    BY <2>1 DEF OnConnect
  <2>3. work'[w].pc = "connect" /\ work'[w].batch = work[w].batch
    BY <2>2 DEF StopTypeOK
  <2>4. QED
    BY <1>1, <2>1, <2>3 DEF Current
<1>6. ASSUME Tick \/ TimeoutStep \/ UNCHANGED vars
      PROVE  mIsConnected[j] /\ socket[j] = "open" /\ hist.since[j] <= timeout.now
  <2>1. mIsConnected' = mIsConnected /\ hist' = hist
    BY <1>6 DEF Tick, TimeoutStep, PassBegins, Scan, Judge, WakeUp, DisconnectAsync, SendPing, vars
  <2>2. socket' = socket \/ \E i : socket' = [socket EXCEPT ![i] = "shut"]
    BY <1>6 DEF Tick, TimeoutStep, PassBegins, Scan, Judge, WakeUp, DisconnectAsync, SendPing, vars
  <2>3. socket[j] = "open"
    BY <1>1, <2>2 DEF StopTypeOK
  <2>4. QED
    BY <1>1, <2>1, <2>3
<1>7. ASSUME NEW i \in Client, ClientConnects(i) \/ ClientSends(i) \/ ClientLeaves(i)
      PROVE  mIsConnected[j] /\ socket[j] = "open" /\ hist.since[j] <= timeout.now
  <2>1. mIsConnected' = mIsConnected /\ hist' = hist
    BY <1>7 DEF ClientConnects, ClientSends, ClientLeaves, network
  <2>2. CASE ClientConnects(i)
    <3>1. socket[i] = "accepting" /\ listening /\ socket' = [socket EXCEPT ![i] = "open"]
      BY <2>2 DEF ClientConnects
    <3>2. j # i
      BY <1>1, <2>1, <3>1 DEF AcceptInv, Idle
    <3>3. socket'[j] = socket[j]
      BY <3>1, <3>2 DEF StopTypeOK
    <3>4. QED
      BY <1>1, <2>1, <3>3
  <2>3. CASE ClientSends(i) \/ ClientLeaves(i)
    <3>1. socket' = socket
      BY <2>3 DEF ClientSends, ClientLeaves
    <3>2. QED
      BY <1>1, <2>1, <3>1
  <2>4. QED
    BY <1>7, <2>2, <2>3
<1>8. ASSUME NEW w \in Worker, WorkerStep(w)
      PROVE  mIsConnected[j] /\ socket[j] = "open" /\ hist.since[j] <= timeout.now
  <2>1. CASE Take(w)
    <3>1. /\ mIsConnected' = mIsConnected /\ socket' = socket
          /\ hist' = [hist EXCEPT !.greedy = hist'.greedy]
      BY <2>1 DEF Take, StopTypeOK
    <3>2. hist'.since = hist.since
      BY <3>1 DEF StopTypeOK
    <3>3. QED
      BY <1>1, <3>1, <3>2
  <2>2. CASE TakesNull(w) \/ AcceptCompletion(w)
    <3>1. mIsConnected' = mIsConnected /\ socket' = socket /\ hist' = hist
      BY <2>2 DEF TakesNull, AcceptCompletion
    <3>2. QED
      BY <1>1, <3>1
  <2>3. CASE OnConnect(w)
    <3>1. PICK i \in Client : i = Current(w)
      BY <2>3, AtEntry DEF OnConnect
    <3>2. PICK P : /\ mIsConnected' = [mIsConnected EXCEPT ![i] = TRUE] /\ socket' = socket
                   /\ hist' = [hist EXCEPT !.since[i] = clock, !.passed = P]
      BY <2>3, <3>1 DEF OnConnect
    <3>3. i # j
      BY <1>5, <2>3, <3>1
    <3>4. mIsConnected'[j] = mIsConnected[j]
      BY <3>2, <3>3 DEF StopTypeOK
    <3>5. hist'.since = [hist.since EXCEPT ![i] = clock]
      BY <3>2 DEF StopTypeOK
    <3>6. hist'.since[j] = hist.since[j]
      BY <3>3, <3>5, Fields
    <3>7. QED
      BY <1>1, <3>2, <3>4, <3>6
  <2>4. CASE Connected(w) \/ AcceptFails(w) \/ Received(w) \/ CloseSocket(w)
    <3>1. PICK i \in Client : i = Current(w)
      BY <2>4, AtEntry DEF Connected, AcceptFails, Received, CloseSocket
    <3>2. hist' = hist
      BY <2>4 DEF Connected, AcceptFails, Received, CloseSocket
    <3>3. mIsConnected[j]
      <4>1. \/ mIsConnected' = mIsConnected
            \/ \E b \in BOOLEAN : mIsConnected' = [mIsConnected EXCEPT ![i] = @ /\ b]
            \/ mIsConnected' = [mIsConnected EXCEPT ![i] = FALSE]
        BY <2>4, <3>1 DEF Connected, AcceptFails, Received, CloseSocket, BindRecv
      <4>2. QED
        BY <1>1, <4>1 DEF StopTypeOK
    <3>4. PICK sock : /\ sock = socket \/ sock = [socket EXCEPT ![i] = "none"]
                      /\ socket' = sock \/ \E k : socket' = [sock EXCEPT ![k] = "accepting"]
                                        \/ socket' = [sock EXCEPT ![k] = "none"]
      <4>1. CASE Connected(w) \/ AcceptFails(w)
        <5>1. PICK sock : (sock = socket \/ sock = [socket EXCEPT ![i] = "none"]) /\ Refill(sock)
          BY <3>1, <4>1 DEF Connected, AcceptFails, Rest
        <5>2. QED
          BY <5>1 DEF Refill
      <4>2. CASE Received(w) \/ CloseSocket(w)
        BY <3>1, <4>2 DEF Received, CloseSocket, Rest
      <4>3. QED
        BY <2>4, <4>1, <4>2
    <3>5. DOMAIN sock = Client /\ (sock[j] = "open" => socket[j] = "open")
      BY <3>4 DEF StopTypeOK
    <3>6. socket[j] = "open"
      BY <1>1, <3>4, <3>5
    <3>7. QED
      BY <1>1, <3>2, <3>3, <3>6
  <2>5. QED
    BY <1>8, <2>1, <2>2, <2>3, <2>4 DEF WorkerStep
<1>9. ASSUME NEW e \in Ender, Begin(e) \/ EndStep(e)
      PROVE  mIsConnected[j] /\ socket[j] = "open" /\ hist.since[j] <= timeout.now
  <2>1. hist' = hist
    BY <1>9 DEF Begin, EndStep, JoinTimeout, CloseListenSocket, CloseClient, Drain, StopWorkers,
                PostNull, JoinWorkers, stopped
  <2>2. /\ mIsConnected' = mIsConnected \/ \E i : mIsConnected' = [mIsConnected EXCEPT ![i] = FALSE]
        /\ \/ socket' = socket
           \/ \E i : socket' = [socket EXCEPT ![i] = "none"]
           \/ \E W : socket' = [i \in Client |-> IF i \in W THEN "none" ELSE socket[i]]
    BY <1>9 DEF Begin, EndStep, JoinTimeout, CloseListenSocket, CloseClient, Drain, StopWorkers,
                PostNull, JoinWorkers
  <2>3. mIsConnected[j] /\ socket[j] = "open"
    BY <1>1, <2>2 DEF StopTypeOK
  <2>4. QED
    BY <1>1, <2>1, <2>3
<1>10. QED
  BY <1>4, <1>6, <1>7, <1>8, <1>9 DEF Next

\* The verdict on the session the timeout thread is at (IOCP.h:317-343).
LEMMA Judged ==
    ASSUME StopTypeOK, TimeInv, Judge, NEW j \in Client, j = timeout.i, socket'[j] = "open"
    PROVE  timeout.now - mLastActivityTime[j] < TIMEOUT_MS
<1>1. /\ timeout.now \in Time /\ timeout.last \in Time /\ mLastActivityTime[j] \in Time
      /\ TIMEOUT_MS \in Nat \ {0}
  BY Fields, StopAssumption DEF StopTypeOK
<1>2. timeout.last <= mLastActivityTime[j]
  BY DEF Judge, TimeInv
<1>3. ~(Minus(timeout.now, timeout.last) >= TIMEOUT_MS)
  <2>1. SUFFICES ASSUME Minus(timeout.now, timeout.last) >= TIMEOUT_MS
                 PROVE  FALSE
    OBVIOUS
  <2>2. CASE DisconnectAsync(j)
    BY <2>2 DEF DisconnectAsync, StopTypeOK
  <2>3. DisconnectAsync(timeout.i)
    <3>1. PICK d \in Int : d = Minus(timeout.now, timeout.last)
      BY <1>1, MinusType
    <3>2. ~(d < TIMEOUT_MS)
      BY <1>1, <2>1, <3>1
    <3>3. QED
      BY <2>1, <3>1, <3>2 DEF Judge
  <2>4. QED
    BY <2>2, <2>3
<1>4. CASE timeout.last <= timeout.now
  <2>1. Minus(timeout.now, timeout.last) = timeout.now - timeout.last
    BY <1>1, <1>4, NoWrap
  <2>2. QED
    BY <1>1, <1>2, <1>3, <2>1 DEF Time
<1>5. CASE ~(timeout.last <= timeout.now)
  BY <1>1, <1>2, <1>5 DEF Time
<1>6. QED
  BY <1>4, <1>5

\* Every step keeps ZombieInv.
LEMMA NextZombieInv ==
    ASSUME StopTypeOK, TimeInv, AcceptInv, ZombieInv, [Next]_vars
    PROVE  ZombieInv'
<1> USE DEF sessions
<1>1. SUFFICES ASSUME NEW j \in Client, Behind(j)', Suspect(j)'
               PROVE  timeout'.now - mLastActivityTime'[j] < TIMEOUT_MS
  BY DEF ZombieInv
<1>2. /\ timeout.now \in Int /\ mLastActivityTime[j] \in Int /\ mLastActivityTime'[j] \in Int
      /\ mLastActivityTime'[j] >= mLastActivityTime[j] /\ TIMEOUT_MS \in Nat \ {0}
      /\ j \in Nat /\ j < maxClientCount /\ timeout.i \in Nat
  <2>1. mLastActivityTime[j] \in Int
    BY DEF StopTypeOK, Time
  <2>2. mLastActivityTime'[j] \in Int /\ mLastActivityTime'[j] >= mLastActivityTime[j]
    BY ActivityGrows
  <2>3. timeout.now \in Int /\ timeout.i \in Nat
    BY Fields, Numbers DEF Time
  <2>4. TIMEOUT_MS \in Nat \ {0} /\ j \in Nat /\ j < maxClientCount
    BY StopAssumption DEF Client
  <2>5. QED
    BY <2>1, <2>2, <2>3, <2>4
<1>3. \/ timeout'.pc = "sleep"
      \/ timeout'.pc \in {"scan", "judge"} /\ j < timeout'.i
  BY <1>1 DEF Behind
<1>4. SUFFICES ASSUME timeout'.now = timeout.now
               PROVE  timeout.now - mLastActivityTime'[j] < TIMEOUT_MS
  <2>1. timeout'.now = timeout.now
    BY <1>2, <1>3, TimeoutMoves
  <2>2. QED
    BY <1>4, <2>1
<1>5. Suspect(j) \/ mLastActivityTime'[j] >= timeout.now
  BY <1>1, <1>4, SuspectStays
<1>6. CASE Behind(j) \/ mLastActivityTime'[j] >= timeout.now
  <2>1. \/ timeout.now - mLastActivityTime[j] < TIMEOUT_MS
        \/ mLastActivityTime'[j] >= timeout.now
    BY <1>5, <1>6 DEF ZombieInv
  <2>2. QED
    BY <1>2, <2>1
<1>7. CASE ~Behind(j) /\ Suspect(j)
  <2>1. \/ j < timeout.i + 1 /\ timeout.pc = "scan" /\ ~mIsConnected[timeout.i]
        \/ j < timeout.i + 1 /\ Judge
    <3>1. /\ timeout.pc # "sleep"
          /\ timeout.pc \in {"scan", "judge"} => ~(j < timeout.i)
      BY <1>7 DEF Behind
    <3>2. QED
      BY <1>2, <1>3, <3>1, TimeoutMoves
  <2>2. timeout.pc \in {"scan", "judge"}
    BY <2>1 DEF Judge
  <2>3. j = timeout.i
    <3>1. ~(j < timeout.i)
      BY <1>7, <2>2 DEF Behind
    <3>2. QED
      BY <1>2, <2>1, <3>1
  <2>4. Judge
    BY <1>7, <2>1, <2>3 DEF Suspect
  <2>5. socket'[j] = "open"
    BY <1>1 DEF Suspect
  <2>6. timeout.now - mLastActivityTime[j] < TIMEOUT_MS
    BY <2>3, <2>4, <2>5, Judged
  <2>7. QED
    BY <1>2, <2>6
<1>8. QED
  BY <1>5, <1>6, <1>7

-----------------------------------------------------------------------------

\* The server after StartServer (IOCP.h:126-164).
LEMMA InitStopInv == Init => StopInv
<1>1. SUFFICES ASSUME Init
               PROVE  StopInv
  OBVIOUS
<1>2. StopTypeOK
  <2>1. /\ mIsConnected \in [Client -> BOOLEAN] /\ reading \in [Client -> BOOLEAN]
        /\ listening \in BOOLEAN /\ mIsWorkerRun \in BOOLEAN /\ mIsTimeoutRun \in BOOLEAN
        /\ g_pServer \in BOOLEAN
    BY <1>1 DEF Init
  <2>2. /\ clock \in Time
        /\ mLastActivityTime \in [Client -> Time] /\ mLastPingTime \in [Client -> Time]
    BY <1>1, Numbers DEF Init
  <2>3. /\ socket \in [Client -> {"accepting", "open", "shut", "none"}]
        /\ mFreeSessionList \subseteq Client
    BY <1>1 DEF Init
  <2>4. port \in Seq(Completions)
    BY <1>1 DEF Init
  <2>5. work \in [Worker -> [pc : {"wait", "batch", "accepted", "connect", "ended"},
                             batch : Seq(Completions)]]
    BY <1>1 DEF Init
  <2>6. timeout \in [pc : {"test", "scan", "judge", "sleep", "ended"},
                      i : 0..maxClientCount, now : Time, last : Time]
    BY <1>1, Numbers DEF Init
  <2>7. stop \in [Ender -> [pc : {"run", "raced", "joinTimeout", "listen", "clients", "drain", "post",
                                 "joinWorkers", "done"}, i : Nat]]
    BY <1>1 DEF Init
  <2>8. hist \in [since : [Client -> Time], greedy : BOOLEAN, passed : SUBSET Client]
    <3>1. [i \in Client |-> 0] \in [Client -> Time]
      BY Numbers
    <3>2. QED
      BY <1>1, <3>1 DEF Init
  <2>9. QED
    BY <2>1, <2>2, <2>3, <2>4, <2>5, <2>6, <2>7, <2>8 DEF StopTypeOK
<1>3. \A e \in Ender : stop[e].pc = "run"
  BY <1>1 DEF Init
<1>4. OutInv
  BY <1>1, <1>3 DEF Init, OutInv, Ended
<1>5. TimeInv
  BY <1>1, Numbers DEF Init, TimeInv, Time
<1>6. StageInv
  BY <1>1, <1>3 DEF Init, StageInv
<1>7. AcceptInv
  <2>1. port = << >> /\ \A w \in Worker : work[w].batch = << >> /\ work[w].pc = "wait"
    BY <1>1 DEF Init
  <2>2. DOMAIN << >> = {}
    OBVIOUS
  <2>3. \A j, k : ~InPort(j, k)
    BY <2>1, <2>2 DEF InPort
  <2>4. \A j, k : \A w \in Worker : ~InBatch(j, w, k)
    BY <2>1, <2>2 DEF InBatch
  <2>5. \A j \in Client : PendingOnce(j) /\ ~Pending(j)
    BY <2>3, <2>4 DEF PendingOnce, Pending
  <2>6. \A j \in Client : ~mIsConnected[j] /\ (socket[j] = "accepting" => j \notin mFreeSessionList)
    BY <1>1, StopAssumption DEF Init, Client
  <2>7. QED
    BY <2>1, <2>5, <2>6 DEF AcceptInv, Idle
<1>8. ZombieInv
  BY <1>1 DEF Init, ZombieInv, Behind
<1>9. QED
  BY <1>2, <1>4, <1>5, <1>6, <1>7, <1>8 DEF StopInv

\* In every state the types are right, the loop of DestroyThread leaves nobody
\* connected behind it, the timeout thread's times are not ahead of the clock, the
\* stages of the end follow each other, a completed accept is for a session nobody
\* else has a hold of, and the pass has disconnected every silent session it has
\* looked at (IOCP.h:167-221, 299-353, 383-560).
THEOREM StopInvHolds == Spec => []StopInv
<1>1. StopInv /\ [Next]_vars => StopInv'
  BY NextStopTypeOK, NextOutInv, NextTimeInv, NextStageInv, NextAcceptInv, NextZombieInv DEF StopInv
<1>2. QED
  BY InitStopInv, <1>1, PTL DEF Spec

\* When End returns nobody is connected but a session whose accept was under way
\* while the loop went past it (IOCP.h:186-216), however many sessions, workers and
\* callers of End there are.
THEOREM EveryoneOutHolds == Spec => []EveryoneOut
<1>1. StopInv => EveryoneOut
  BY DEF StopInv, OutInv, EveryoneOut
<1>2. QED
  BY <1>1, StopInvHolds, PTL

\* Behind a pass no session is left open that was connected when the pass began and
\* had been silent for TIMEOUT_MS by then (IOCP.h:311-349).
THEOREM PassLeavesNoZombieHolds == Spec => []PassLeavesNoZombie
<1>1. StopInv => PassLeavesNoZombie
  BY DEF StopInv, ZombieInv, Behind, Suspect, PassLeavesNoZombie
<1>2. QED
  BY <1>1, StopInvHolds, PTL

\* The timeout thread disconnects a session because it has been silent for
\* TIMEOUT_MS, or through one of the three races (IOCP.h:320-328).
THEOREM KickJustifiedHolds == Spec => KickJustified
<1>1. StopInv /\ [Next]_vars => [\A i \in Client : Kicks(i) => Reason(i) # "none"]_vars
  BY KickHasReason DEF StopInv
<1>2. QED
  BY <1>1, StopInvHolds, PTL DEF Spec, KickJustified

=============================================================================
