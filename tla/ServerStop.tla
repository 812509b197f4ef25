----------------------------- MODULE ServerStop -----------------------------
(***************************************************************************)
(* The threads of the network layer and their end (IOCP.h, main.cpp): the  *)
(* timeout thread that pings and disconnects silent sessions, the worker   *)
(* threads on the completion port, and DestroyThread, which stops them,    *)
(* called by main on "quit" or by the thread of the console handler.       *)
(*                                                                         *)
(* Time is a clock that any step may find advanced.  The life of a session *)
(* is SessionLifecycle's; here it has its connection flag, its two times   *)
(* and one socket.  The completion port is a queue, taken from in batches. *)
(***************************************************************************)
EXTENDS Integers, Sequences, FiniteSets

CONSTANTS maxClientCount, Worker, Ender,
          MAX_PENDING_ACCEPT,              \* accepts posted at the start, 100 in the code
          MAX_COMPLETION_ENTRIES,          \* entries of a batch, 64 in the code
          TIMEOUT_MS, PING_INTERVAL_MS,    \* in ticks of the clock
          Bits,                            \* width of ULONGLONG
          MaxClock,                        \* bound: time
          MaxIO                            \* bound: completed connections and receives

ASSUME StopAssumption ==
    /\ maxClientCount \in Nat \ {0} /\ MAX_COMPLETION_ENTRIES \in Nat \ {0}
    /\ MAX_PENDING_ACCEPT \in 1..maxClientCount
    /\ IsFiniteSet(Worker) /\ Ender \subseteq {"main", "handler"}
    /\ PING_INTERVAL_MS \in Nat \ {0} /\ TIMEOUT_MS \in Nat /\ PING_INTERVAL_MS <= TIMEOUT_MS
    /\ MaxClock \in Nat /\ TIMEOUT_MS <= MaxClock /\ MaxIO \in Nat
    /\ Bits \in Nat /\ 2 ^ Bits \in Nat /\ MaxClock + TIMEOUT_MS < 2 ^ Bits

Client == 0..(maxClientCount - 1)

VARIABLES
    clock,
    mIsConnected, mLastActivityTime, mLastPingTime,   \* ClientSession
    socket,        \* its socket: "accepting", "open", "shut" down, or "none" (of use)
    mFreeSessionList,                                 \* as a set
    reading,       \* WSARecv is in flight
    port,          \* the completion port
    listening,     \* mListenSocket is open
    work,          \* worker threads
    timeout,       \* the timeout thread
    mIsWorkerRun, mIsTimeoutRun,
    stop,          \* what each thread that may call End is doing
    g_pServer,
    io,            \* counter for the bound
    hist           \* history, see Init

sessions == <<mIsConnected, mLastActivityTime, mLastPingTime, socket, reading, mFreeSessionList>>
vars == <<clock, sessions, port, listening, work, timeout, mIsWorkerRun, mIsTimeoutRun, stop,
          g_pServer, io, hist>>

\* ULONGLONG subtraction
Minus(a, b) == (a - b) % 2 ^ Bits

Entry(op, i) == [op |-> op, client |-> i]

\* after StartServer: MAX_PENDING_ACCEPT sessions wait for a connection, and the
\* clock has run since the machine started
Init ==
    /\ clock = TIMEOUT_MS
    /\ mIsConnected = [i \in Client |-> FALSE]
    /\ mLastActivityTime = [i \in Client |-> 0] /\ mLastPingTime = [i \in Client |-> 0]
    /\ socket = [i \in Client |-> IF i < MAX_PENDING_ACCEPT THEN "accepting" ELSE "none"]
    /\ mFreeSessionList = {i \in Client : i >= MAX_PENDING_ACCEPT}
    /\ reading = [i \in Client |-> FALSE]
    /\ port = << >> /\ listening = TRUE
    /\ work = [w \in Worker |-> [pc |-> "wait", batch |-> << >>]]
    /\ timeout = [pc |-> "test", i |-> 0, now |-> 0, last |-> 0]
    /\ mIsWorkerRun = TRUE /\ mIsTimeoutRun = TRUE
    /\ stop = [e \in Ender |-> [pc |-> "run", i |-> 0]]
    /\ g_pServer = TRUE /\ io = 0
    \* since: when a session connected; greedy: one worker took several NULL entries;
    \* passed: sessions that connected when the loop of DestroyThread had passed them
    /\ hist = [since |-> [i \in Client |-> 0], greedy |-> FALSE, passed |-> {}]

\* bound: time stands still once End is called
Tick ==
    /\ \A e \in Ender : stop[e].pc = "run"
    /\ clock < MaxClock /\ clock' = clock + 1
    /\ UNCHANGED <<sessions, port, listening, work, timeout, mIsWorkerRun, mIsTimeoutRun, stop,
                   g_pServer, io, hist>>

---------------------------------------------------------------------------
(* The timeout thread.                                                      *)

timed == <<clock, port, listening, work, mIsWorkerRun, mIsTimeoutRun, stop, g_pServer, io>>

\* now is read once for the whole pass
PassBegins ==
    /\ timeout.pc = "test"
    /\ timeout' = IF mIsTimeoutRun THEN [timeout EXCEPT !.pc = "scan", !.i = 0, !.now = clock]
                  ELSE [timeout EXCEPT !.pc = "ended"]
    /\ UNCHANGED <<timed, sessions, hist>>

\* the next connected session, and its GetLastActivityTime
Scan ==
    /\ timeout.pc = "scan"
    /\ timeout' = CASE timeout.i = maxClientCount -> [timeout EXCEPT !.pc = "sleep"]
                    [] timeout.i \in {i \in Client : ~mIsConnected[i]} -> [timeout EXCEPT !.i = @ + 1]
                    [] OTHER -> [timeout EXCEPT !.pc = "judge", !.last = mLastActivityTime[timeout.i]]
    /\ UNCHANGED <<timed, sessions, hist>>

\* why a session is disconnected: it is idle; its time is later than now, so that
\* the difference wraps; its time is from before it connected; it has become
\* active since its time was read; or for no reason
Reason(i) ==
    CASE clock - mLastActivityTime[i] >= TIMEOUT_MS -> "idle"
      [] timeout.last > timeout.now                 -> "wrapped"
      [] timeout.last < hist.since[i]               -> "connecting"
      [] timeout.last < mLastActivityTime[i]        -> "meanwhile"
      [] OTHER                                      -> "none"

\* DisconnectAsync: both directions of a connected socket are shut down
DisconnectAsync(i) ==
    /\ socket' = IF socket[i] = "open" THEN [socket EXCEPT ![i] = "shut"] ELSE socket
    /\ UNCHANGED <<mIsConnected, mLastActivityTime, mLastPingTime, reading, mFreeSessionList>>

SendPing(i) ==
    /\ mLastPingTime' = [mLastPingTime EXCEPT ![i] = timeout.now]
    /\ UNCHANGED <<mIsConnected, mLastActivityTime, socket, reading, mFreeSessionList>>

\* mutant: a session that was pinged is not given the rest of its time
JudgePinged ==
    LET i == timeout.i
        elapsed == Minus(timeout.now, timeout.last)
    IN /\ timeout.pc = "judge"
       /\ CASE elapsed >= TIMEOUT_MS \/ mLastPingTime[i] # 0 -> DisconnectAsync(i)
            [] elapsed < TIMEOUT_MS /\ elapsed >= PING_INTERVAL_MS
                 /\ mLastPingTime[i] = 0 -> SendPing(i)
            [] OTHER                       -> UNCHANGED sessions
       /\ timeout' = [timeout EXCEPT !.pc = "scan", !.i = @ + 1, !.last = 0]
       /\ UNCHANGED <<timed, hist>>

\* mutant: a session of exactly the limit is left to the next pass
JudgeLate ==
    LET i == timeout.i
        elapsed == Minus(timeout.now, timeout.last)
    IN /\ timeout.pc = "judge"
       /\ CASE elapsed > TIMEOUT_MS        -> DisconnectAsync(i)
            [] elapsed <= TIMEOUT_MS /\ elapsed >= PING_INTERVAL_MS
                 /\ Minus(timeout.now, mLastPingTime[i]) >= PING_INTERVAL_MS -> SendPing(i)
            [] OTHER                       -> UNCHANGED sessions
       /\ timeout' = [timeout EXCEPT !.pc = "scan", !.i = @ + 1, !.last = 0]
       /\ UNCHANGED <<timed, hist>>

Judge ==
    LET i == timeout.i
        elapsed == Minus(timeout.now, timeout.last)
    IN /\ timeout.pc = "judge"
       /\ CASE elapsed >= TIMEOUT_MS       -> DisconnectAsync(i)
            [] elapsed < TIMEOUT_MS /\ elapsed >= PING_INTERVAL_MS
                 /\ Minus(timeout.now, mLastPingTime[i]) >= PING_INTERVAL_MS -> SendPing(i)
            [] OTHER                       -> UNCHANGED sessions
       /\ timeout' = [timeout EXCEPT !.pc = "scan", !.i = @ + 1, !.last = 0]
       /\ UNCHANGED <<timed, hist>>

WakeUp ==
    /\ timeout.pc = "sleep" /\ timeout' = [pc |-> "test", i |-> 0, now |-> 0, last |-> 0]
    /\ UNCHANGED <<timed, sessions, hist>>

TimeoutStep == PassBegins \/ Scan \/ Judge \/ WakeUp

---------------------------------------------------------------------------
(* The clients, as the port shows them.                                     *)

network == <<clock, mIsConnected, mLastActivityTime, mLastPingTime, mFreeSessionList, listening,
             work, timeout, mIsWorkerRun, mIsTimeoutRun, stop, g_pServer, hist>>

Post(op, i) == port' = Append(port, Entry(op, i))

ClientConnects(i) ==
    /\ socket[i] = "accepting" /\ listening /\ io < MaxIO /\ io' = io + 1
    /\ socket' = [socket EXCEPT ![i] = "open"] /\ Post("ACCEPT", i)
    /\ UNCHANGED <<reading, network>>

ClientSends(i) ==
    /\ socket[i] = "open" /\ reading[i] /\ io < MaxIO /\ io' = io + 1
    /\ reading' = [reading EXCEPT ![i] = FALSE] /\ Post("RECV", i)
    /\ UNCHANGED <<socket, network>>

\* the client leaves, or the socket was shut down: the receive ends with 0
ClientLeaves(i) ==
    /\ reading[i] /\ (socket[i] = "shut" \/ (socket[i] = "open" /\ io < MaxIO))
    /\ io' = IF socket[i] = "shut" THEN io ELSE io + 1
    /\ reading' = [reading EXCEPT ![i] = FALSE] /\ Post("CLOSE", i)
    /\ UNCHANGED <<socket, network>>

---------------------------------------------------------------------------
(* The workers.                                                             *)

others == <<clock, timeout, mIsTimeoutRun, stop, g_pServer, io, listening>>

\* GetQueuedCompletionStatusEx: what is there, up to a full batch
Take(w) ==
    LET k == IF Len(port) < MAX_COMPLETION_ENTRIES THEN Len(port) ELSE MAX_COMPLETION_ENTRIES
        nulls == {j \in 1..k : port[j].op = "NULL"}
    IN /\ work[w].pc = "wait" /\ k > 0
       /\ work' = [work EXCEPT ![w] = [pc |-> "batch", batch |-> SubSeq(port, 1, k)]]
       /\ port' = SubSeq(port, k + 1, Len(port))
       /\ hist' = [hist EXCEPT !.greedy = @ \/ Cardinality(nulls) > 1]
       /\ UNCHANGED <<others, sessions, mIsWorkerRun>>

Handles(w, op) == work[w].pc = "batch" /\ work[w].batch # << >> /\ Head(work[w].batch).op = op

\* the next entry of the batch, or the test of the loop
NextEntry(w) ==
    work' = [work EXCEPT ![w] =
               [batch |-> Tail(@.batch),
                pc |-> CASE Len(@.batch) > 1 -> "batch" [] mIsWorkerRun' -> "wait" [] OTHER -> "ended"]]

Current(w) == Head(work[w].batch).client

TakesNull(w) ==
    /\ Handles(w, "NULL")
    /\ mIsWorkerRun' = FALSE
    /\ NextEntry(w)
    /\ UNCHANGED <<others, sessions, port, hist>>

UpdateActivity(i) ==
    /\ mLastActivityTime' = [mLastActivityTime EXCEPT ![i] = clock]
    /\ mLastPingTime' = [mLastPingTime EXCEPT ![i] = 0]

\* AcceptCompletion: SO_UPDATE_ACCEPT_CONTEXT needs the listening socket ...
AcceptCompletion(w) ==
    /\ Handles(w, "ACCEPT") /\ listening
    /\ work' = [work EXCEPT ![w].pc = "accepted"]
    /\ UNCHANGED <<others, sessions, port, mIsWorkerRun, hist>>

\* the loop of DestroyThread over the sessions has left i behind
Passed(i) == \E e \in Ender : stop[e].pc \in {"drain", "post", "joinWorkers"}
                              \/ (stop[e].pc = "clients" /\ stop[e].i > i)

\* ... then the flag is set, whatever DestroyThread has done in between; the time
\* follows in a step of its own
OnConnect(w) ==
    LET i == Current(w) IN
    /\ work[w].pc = "accepted"
    /\ mIsConnected' = [mIsConnected EXCEPT ![i] = TRUE]
    /\ work' = [work EXCEPT ![w].pc = "connect"]
    /\ hist' = [hist EXCEPT !.since[i] = clock, !.passed = IF Passed(i) THEN @ \cup {i} ELSE @]
    /\ UNCHANGED <<others, mLastActivityTime, mLastPingTime, socket, reading, mFreeSessionList, port,
                   mIsWorkerRun>>

\* BindRecv: on a socket that is shut down or closed WSARecv fails, and the
\* session is closed with its index in nobody's hands
BindRecv(i) ==
    /\ reading' = [reading EXCEPT ![i] = socket[i] = "open"]
    /\ mIsConnected' = [mIsConnected EXCEPT ![i] = @ /\ socket[i] = "open"]

Rest(i) == IF socket[i] = "open" THEN socket ELSE [socket EXCEPT ![i] = "none"]

\* the accept that replaces the one just completed: a free session takes it over;
\* once the server no longer listens, its index is lost
Refill(sock) ==
    IF mFreeSessionList = {} THEN socket' = sock /\ UNCHANGED mFreeSessionList
    ELSE \E i \in mFreeSessionList :
           /\ mFreeSessionList' = mFreeSessionList \ {i}
           /\ socket' = [sock EXCEPT ![i] = IF listening THEN "accepting" ELSE "none"]

Connected(w) ==
    LET i == Current(w) IN
    /\ work[w].pc = "connect"
    /\ UpdateActivity(i)
    /\ BindRecv(i)
    /\ Refill(Rest(i))
    /\ UNCHANGED <<others, port, mIsWorkerRun, hist>>
    /\ NextEntry(w)

\* the server no longer listens: SO_UPDATE_ACCEPT_CONTEXT fails, and CloseSocket
\* finds a session that is not connected and leaves it as it is
AcceptFails(w) ==
    /\ Handles(w, "ACCEPT") /\ ~listening
    /\ Refill(socket)
    /\ UNCHANGED <<others, mIsConnected, mLastActivityTime, mLastPingTime, reading, port,
                   mIsWorkerRun, hist>>
    /\ NextEntry(w)

\* a receive counts as activity and is posted again
Received(w) ==
    LET i == Current(w) IN
    /\ Handles(w, "RECV")
    /\ UpdateActivity(i)
    /\ BindRecv(i) /\ socket' = Rest(i)
    /\ UNCHANGED <<others, mFreeSessionList, port, mIsWorkerRun, hist>>
    /\ NextEntry(w)

\* CloseSocket, unless somebody has closed the session already
CloseSocket(w) ==
    LET i == Current(w) IN
    /\ Handles(w, "CLOSE")
    /\ IF mIsConnected[i]
       THEN /\ mIsConnected' = [mIsConnected EXCEPT ![i] = FALSE]
            /\ socket' = [socket EXCEPT ![i] = "none"]
            /\ mFreeSessionList' = mFreeSessionList \cup {i}
       ELSE UNCHANGED <<mIsConnected, socket, mFreeSessionList>>
    /\ UNCHANGED <<others, mLastActivityTime, mLastPingTime, reading, port, mIsWorkerRun, hist>>
    /\ NextEntry(w)

WorkerStep(w) == \/ Take(w) \/ TakesNull(w) \/ AcceptCompletion(w) \/ OnConnect(w) \/ Connected(w)
                 \/ AcceptFails(w) \/ Received(w) \/ CloseSocket(w)

---------------------------------------------------------------------------
(* End: DestroyThread and what follows it, one step of thread e after the   *)
(* other.                                                                   *)

stopped == <<clock, mLastActivityTime, mLastPingTime, mFreeSessionList, work, timeout, io, hist>>

Goto(e, pc) == stop' = [stop EXCEPT ![e] = [pc |-> pc, i |-> 0]]

InEnd(e) == stop[e].pc \notin {"run", "done"}

\* mutant: the flag of the timeout thread is not cleared
BeginUnset(e) ==
    /\ stop[e].pc = "run" /\ (e = "handler" => g_pServer)
    /\ IF \E f \in Ender : InEnd(f) THEN Goto(e, "raced") ELSE Goto(e, "joinTimeout")
    /\ UNCHANGED <<stopped, mIsConnected, socket, reading, port, listening, mIsWorkerRun,
                   mIsTimeoutRun, g_pServer>>

\* main reads "quit", or the console handler is called while g_pServer is set.  A
\* thread that enters End while the other is in it joins the same threads, which
\* is undefined: nothing is said of what follows
Begin(e) ==
    /\ stop[e].pc = "run" /\ (e = "handler" => g_pServer)
    /\ IF \E f \in Ender : InEnd(f) THEN Goto(e, "raced") /\ UNCHANGED mIsTimeoutRun
       ELSE mIsTimeoutRun' = FALSE /\ Goto(e, "joinTimeout")
    /\ UNCHANGED <<stopped, mIsConnected, socket, reading, port, listening, mIsWorkerRun, g_pServer>>

\* the join returns once the thread has ended; at once, when it was joined before
JoinTimeout(e) ==
    /\ stop[e].pc = "joinTimeout" /\ timeout.pc = "ended" /\ Goto(e, "listen")
    /\ UNCHANGED <<stopped, mIsConnected, socket, reading, port, listening, mIsWorkerRun,
                   mIsTimeoutRun, g_pServer>>

\* the accepts that wait fail, in no certain order
CloseListenSocket(e) ==
    LET waiting == {i \in Client : socket[i] = "accepting"} IN
    /\ stop[e].pc = "listen" /\ Goto(e, "clients")
    /\ listening' = FALSE
    /\ socket' = [i \in Client |-> IF i \in waiting THEN "none" ELSE socket[i]]
    /\ \E order \in [1..Cardinality(waiting) -> waiting] :
         /\ \A j, k \in DOMAIN order : order[j] = order[k] => j = k
         /\ port' = port \o [j \in 1..Cardinality(waiting) |-> Entry("ACCEPT", order[j])]
    /\ UNCHANGED <<stopped, mIsConnected, reading, mIsWorkerRun, mIsTimeoutRun, g_pServer>>

\* mutant: the last session is left out
CloseClientShort(e) ==
    LET i == stop[e].i IN
    /\ stop[e].pc = "clients" /\ i < maxClientCount
    /\ IF mIsConnected[i] /\ i + 1 < maxClientCount
       THEN /\ mIsConnected' = [mIsConnected EXCEPT ![i] = FALSE]
            /\ socket' = [socket EXCEPT ![i] = "none"]
            /\ reading' = [reading EXCEPT ![i] = FALSE]
            /\ port' = IF reading[i] THEN Append(port, Entry("CLOSE", i)) ELSE port
       ELSE UNCHANGED <<mIsConnected, socket, reading, port>>
    /\ stop' = [stop EXCEPT ![e].i = @ + 1]
    /\ UNCHANGED <<stopped, listening, mIsWorkerRun, mIsTimeoutRun, g_pServer>>

\* CancelIoEx and Closed(true): the receive in flight ends with 0 bytes
CloseClient(e) ==
    LET i == stop[e].i IN
    /\ stop[e].pc = "clients" /\ i < maxClientCount
    /\ IF mIsConnected[i]
       THEN /\ mIsConnected' = [mIsConnected EXCEPT ![i] = FALSE]
            /\ socket' = [socket EXCEPT ![i] = "none"]
            /\ reading' = [reading EXCEPT ![i] = FALSE]
            /\ port' = IF reading[i] THEN Append(port, Entry("CLOSE", i)) ELSE port
       ELSE UNCHANGED <<mIsConnected, socket, reading, port>>
    /\ stop' = [stop EXCEPT ![e].i = @ + 1]
    /\ UNCHANGED <<stopped, listening, mIsWorkerRun, mIsTimeoutRun, g_pServer>>

\* the sleep that is to let the rest of the I/O complete, of no certain effect
Drain(e) ==
    /\ stop[e].pc = "clients" /\ stop[e].i = maxClientCount
    /\ Goto(e, "drain")
    /\ UNCHANGED <<stopped, mIsConnected, socket, reading, port, listening, mIsWorkerRun,
                   mIsTimeoutRun, g_pServer>>

StopWorkers(e) ==
    /\ stop[e].pc = "drain" /\ mIsWorkerRun' = FALSE /\ Goto(e, "post")
    /\ UNCHANGED <<stopped, mIsConnected, socket, reading, port, listening, mIsTimeoutRun, g_pServer>>

\* PostQueuedCompletionStatus, once per worker
PostNull(e) ==
    /\ stop[e].pc = "post"
    /\ IF stop[e].i < Cardinality(Worker)
       THEN port' = Append(port, Entry("NULL", 0)) /\ stop' = [stop EXCEPT ![e].i = @ + 1]
       ELSE Goto(e, "joinWorkers") /\ UNCHANGED port
    /\ UNCHANGED <<stopped, mIsConnected, socket, reading, listening, mIsWorkerRun, mIsTimeoutRun,
                   g_pServer>>

\* the workers are joined, the port is closed, PacketManager::End stops the logic
\* layer (ServerThreads); only then does main take g_pServer back
JoinWorkers(e) ==
    /\ stop[e].pc = "joinWorkers" /\ \A w \in Worker : work[w].pc = "ended"
    /\ Goto(e, "done")
    /\ g_pServer' = (g_pServer /\ e # "main")
    /\ UNCHANGED <<stopped, mIsConnected, socket, reading, port, listening, mIsWorkerRun,
                   mIsTimeoutRun>>

EndStep(e) == \/ JoinTimeout(e) \/ CloseListenSocket(e) \/ CloseClient(e) \/ Drain(e)
              \/ StopWorkers(e) \/ PostNull(e) \/ JoinWorkers(e)

---------------------------------------------------------------------------

Raced == \E e \in Ender : stop[e].pc = "raced"
Ended == \E e \in Ender : stop[e].pc = "done"

Next == /\ ~Raced
        /\ \/ Tick \/ TimeoutStep
           \/ \E i \in Client : ClientConnects(i) \/ ClientSends(i) \/ ClientLeaves(i)
           \/ \E w \in Worker : WorkerStep(w)
           \/ \E e \in Ender : Begin(e) \/ EndStep(e)

\* the scheduler runs every thread that can run; clients, clock and the one who
\* ends the server are free
Fairness == /\ WF_vars(~Raced /\ TimeoutStep)
            /\ \A w \in Worker : WF_vars(~Raced /\ WorkerStep(w))
            /\ \A e \in Ender : WF_vars(~Raced /\ EndStep(e))

Spec == Init /\ [][Next]_vars /\ Fairness

---------------------------------------------------------------------------
Completions == [op : {"ACCEPT", "RECV", "CLOSE", "NULL"}, client : Client]
Time == 0..MaxClock

\* Every variable has its type; entries of the port name sessions (IOCP.h:186-219,
\* 299-353, 383-560)
StopTypeOK ==
    /\ clock \in Time
    /\ mIsConnected \in [Client -> BOOLEAN] /\ reading \in [Client -> BOOLEAN]
    /\ mLastActivityTime \in [Client -> Time] /\ mLastPingTime \in [Client -> Time]
    /\ socket \in [Client -> {"accepting", "open", "shut", "none"}]
    /\ mFreeSessionList \subseteq Client
    /\ port \in Seq(Completions) /\ listening \in BOOLEAN
    /\ work \in [Worker -> [pc : {"wait", "batch", "accepted", "connect", "ended"},
                            batch : Seq(Completions)]]
    /\ timeout \in [pc : {"test", "scan", "judge", "sleep", "ended"},
                     i : 0..maxClientCount, now : Time, last : Time]
    /\ mIsWorkerRun \in BOOLEAN /\ mIsTimeoutRun \in BOOLEAN /\ g_pServer \in BOOLEAN
    /\ stop \in [Ender -> [pc : {"run", "raced", "joinTimeout", "listen", "clients", "drain", "post",
                                 "joinWorkers", "done"}, i : Nat]]
    /\ hist \in [since : [Client -> Time], greedy : BOOLEAN, passed : SUBSET Client]

Kicks(i) == socket[i] = "open" /\ socket'[i] = "shut"

\* A session is disconnected by the timeout thread (IOCP.h:320-328) only if it
\* has been silent for TIMEOUT_MS, or through one of the three races: its time
\* is later than now, is still that of an earlier connection, or has changed
\* since it was read
KickJustified == [][\A i \in Client : Kicks(i) => Reason(i) # "none"]_vars

\* "60초 무응답 시 강제 종료" (IOCP.h:304): only a session silent for TIMEOUT_MS is
\* disconnected, or one that spoke up just after its time was read
KickedOnlyIdle == [][\A i \in Client : Kicks(i) => Reason(i) \in {"idle", "meanwhile"}]_vars

\* Behind a pass of the timeout thread (IOCP.h:311-349) no session is left open
\* that was connected when the pass began and had been silent for TIMEOUT_MS
\* by then
PassLeavesNoZombie ==
    timeout.pc = "sleep" =>
        \A i \in Client : mIsConnected[i] /\ socket[i] = "open" /\ hist.since[i] <= timeout.now
                          /\ (\A w \in Worker : work[w].pc = "connect" => Current(w) # i)
                          => timeout.now - mLastActivityTime[i] < TIMEOUT_MS

\* When End returns (IOCP.h:186-216), no session is connected but one whose accept
\* was under way while the loop over the sessions went past it
EveryoneOut ==
    Ended => {i \in Client : mIsConnected[i]} \subseteq hist.passed

\* End returns once it is called (IOCP.h:167-221), whatever the timeout thread
\* and the workers are at, unless a worker takes several NULL entries or a second
\* thread enters End
StopEnds == (\E e \in Ender : InEnd(e)) ~> (Ended \/ hist.greedy \/ Raced)

=============================================================================
