# Verification of the IOCP chat server

This directory models the chat server of this repository (`src/IOCPChatServer`) and
the Redis client it is built with (`thirdparty/CRedisConn.h`, `thirdparty/hiredis`) in
TLA+. TLC checks the models on small instances; TLAPS proves the safety properties of
the chat server itself for every value of the constants. `PROJECT.json` lists components, runs,
mutants, the map from definitions to source lines, findings, hazards and theorems.

## The system

Clients speak a binary protocol over TCP: log in, enter a room, chat, leave. The
server has these parts.

| Part | State | Operations | Talks to |
|---|---|---|---|
| `IOCPServer` (`IOCP.h`) | free list of session indices, sessions, worker threads, count of connections | `StartServer`, `WorkerThread`, `CloseSocket`, `Pop/PushFreeSessionIndex`, `DestroyThread`, timeout thread | sessions, completion port, `ChatServer` callbacks |
| `ClientSession` (`ClientSession.h`) | socket, connected flag, generation, one receive structure, send queue | `PostImmediateAccept`, `AcceptCompletion`, `BindRecv`, `SendMsg`, `SendIO`, `SendComplete`, `Closed` | Winsock, `ObjectPool` |
| `ObjectPool` (`ObjectPool.h`) | stack of free send buffers | `Alloc`, `Free` | all sessions |
| `ChatServer` (`ChatServer.h`) | - | `OnConnect`, `OnClose`, `OnReceive`, `Run`, `End` | `PacketManager` |
| `PacketManager` (`PacketManager.cpp`) | two double-buffered queues (system packets, data tasks), the logic thread | `ReceivePacketData`, `PushSystemPacket`, `ProcessPacket`, one handler per packet, `End` | users, rooms, Redis, MySQL, sessions |
| `User`, `UserManager` | id, state, room, generation, ring buffer per index; dictionary of ids; count of users | `SetPacketData`, `GetPacket`, `Adduser`, `DeleteUserInfo`, `FindUserIndexByID` | `RingBuffer` |
| `RingBuffer` | buffer, head, tail, full flag | `Write`, `Read`, `Peek`, `Clear` | - |
| `Room`, `RoomManager` | list and count of users per room | `EnterUser`, `LeaveUser`, `SendToAllUser` | `User`, sessions |
| `RedisManager` | request and response queue, one thread | `PushTask`, `TakeResponseTask`, `TaskProcessThread`, `End` | Redis, logic thread |
| `MySQLManager` | event queue, one thread | `PushTask`, `TaskProcessThread`, `End` | MySQL |
| `CRedisConn` (`thirdparty/CRedisConn.h`) | a hiredis context, connected flag | `connect`, `disConnect`, `redisCmd`, one method per command | hiredis; the Redis thread owns one |
| hiredis context (`hiredis.c`, `net.c`) | socket, error, output buffer, reader | connect over several addresses, append, write, read, reconnect | sockets |
| hiredis reader (`read.c`) | buffer, position, stack of tasks, error | `redisReaderFeed`, `redisReaderGetReply` | context |
| sds (`sds.c`, `sds.h`) | header type, length, allocation, bytes | create, grow, append, cut, convert, split, join, quote | all of hiredis |
| hiredis async (`async.c`, `dict.c`) | flags, queues of callbacks, two hash tables of subscriptions | commands, `redisAsyncDisconnect`, `redisAsyncFree`, handlers for read, write, timeout | event loop, user callbacks |

A received packet takes this way: a worker finds the completion, writes the bytes
to the ring buffer of the user with the same index as the session, and queues a
task with the user's generation. The logic thread swaps both queues out, handles
all system packets (CONNECT, DISCONNECT), then the tasks, each of which empties its
user's ring buffer, then the login results that the Redis thread has left. A reply
is copied to a pool buffer and put in the session's send queue.

What makes it hard: session and user objects are addressed by an index that
outlives connections; four kinds of threads share them with few locks; completions
are handled in any order; a login spans two threads and may outlive its connection;
TCP cuts packets anywhere; buffers and session indices run out; threads wait on
condition variables or on the completion port and must be stopped in order; times of
two threads are subtracted without a sign. In the Redis client a command or a reply
may be cut anywhere and a connection may fail between any two calls, and a callback
may free what called it. The hazards are in
`PROJECT.json`, each at its line.

What makes each part correct: the ring buffer is a bounded queue; packets come out
of the stream whole, in order and without delay; an id is logged in once and the
dictionary agrees with the users; each request is answered once; the end of a
connection is handled before the tasks of the next one on the index; rooms agree
with their users and chat reaches all of them; no thread sleeps through work or
through the end; a session index is in one place at a time; a send buffer is in one
place at a time and messages leave in order; only silent sessions are disconnected,
and every silent one; the server stops when told to. A Redis call gets the reply of
its own command or an error; every callback runs once; strings hold what was put in.

## Modules

`RingBuffer` implements `ByteQueue`, `PacketFraming` extends `RingBuffer`;
`SdsString` and `RedisReader` build on `RedisText`, `RedisClient` on `RedisReader` and
`RedisReplies` on that, `AsyncContext` on `CallbackDict`. The other models are separate: each takes from its
neighbours what is said below.

**ByteQueue, RingBuffer.** `ByteQueue` is what a caller may rely on: a write keeps
the longest prefix that fits, a read takes the oldest bytes. `RingBuffer` has the
variables of the class (`buffer`, `head`, `tail`, `full`) plus the return value and
the bytes handed out by the last call. `Write` and `Read` are given in closed form;
the run checks them against the loops over `WriteByte` and `ReadByte` that the code
has (`CallsAreLoops`).

**PacketFraming.** One user's receive path, on a small ring. A header is two bytes
(length, id), clients send whole packets no larger than the buffer, the network
delivers any number of bytes up to `MaxRecv` at a time. `ReceivePacketData` is
`SetPacketData` plus the task, `TakeTask`, `GetPacketSome` and `GetPacketNone` are
the loop of `ProcessPacket`. `dropped` records that a write did not fit.

**ChatLogic.** Everything behind the network callbacks, with whole packets. Workers
store a packet and queue its task in two steps, OnConnect and OnClose queue system
packets. The logic thread's stages are `pc`: wait, swap, system packets (a
DISCONNECT is several steps, because workers run between the lines of
`ClearConnectionInfo`), tasks, login results. The handlers are one action each;
`out` is what a step sends. A Redis check has either result. Connection numbers
(`conn`) are history that no guard reads: they make it possible to say which
connection a packet or a task is from. The module takes from `SessionLifecycle`
that an index has one connection at a time and that its end is reported before the
next one begins (`EndReportedBeforeReuse`). Clients send well-formed requests of
the client's kinds in `Packet.h`, or one that no handler exists for. The table of
handlers also holds those of the server's own packets (ids 11 and 12, connected and
disconnected, and the result of a login, `PacketManager.cpp:42-58`) and is searched by
the id of any packet (`PacketManager.cpp:458-460`); that a client sends none of these
ids is an assumption of the model.

**ServerThreads.** How logic, Redis and MySQL thread and `PacketManager::End` wait
for and wake one another; queues are only their lengths. A condition variable is
what the standard says: a notification that finds nobody blocked is lost, and a
blocked thread may wake up by itself. A call of Redis or MySQL may never return. The
logic thread evaluates its predicate under
`mLock`, looking at the Redis responses under another lock in a step of its own.

**SessionLifecycle.** The free list, accepts, connections, receives and closes of
all sessions, with several workers. Every line that another worker can observe is a
step: `work[w].pc` is where worker w is. Overlapped operations are sets of (session,
socket), completions are taken in any order (batches of
`GetQueuedCompletionStatusEx` have that effect). The socket calls that fail are
counted in `failed`. A send matters here only when it ends without bytes: it fails, or
the server closes the socket under it, which is what happens when a client leaves while
an answer is on its way. Both count in `failed`, so the properties stated for
`failed = 0` are silent about that ordinary case too; `AcceptsBounded` and
`ConnectedIsHeard` are not.

**SendPath.** Pool, send queues, `WSASend` and its completions. A sender takes a
buffer and queues it in two steps, a worker checks the generation and calls
`SendComplete` in two steps. Connections end and begin around it. `WSASend` may be
refused on an open socket (`refused`), and its result is ignored. A thread calls
`SendMsg` only for a session that has had a connection.

**ServerStop.** The timeout thread, the workers and `DestroyThread`. The clock advances
at any moment and the code's differences are taken modulo `2^Bits`. The timeout thread
reads `now`, then goes over the sessions in two steps each (the test of the connection
and its time; the decision), as workers connect sessions and receive between them.
`AcceptCompletion` is two steps, because it sets `mIsConnected` before the time. The
completion port is a queue from which a worker takes a batch; `DestroyThread` is one
step per session, per posted NULL entry and per wait. `main` and the console handler
both may call it. `hist` says why a session was disconnected and whether one of the
races below has happened.

**RedisText, SdsString.** `RedisText` has the conversions of hiredis as operators on
sequences of bytes: numbers both ways with their overflow tests, splitting and joining,
quoting and its inverse, command formats and lengths. A format is given as its items;
one that ends within a conversion, or has a conversion of over 13 characters, which the
code steps over without appending anything (`hiredis.c:374, 431`), is not an input.
`SdsString` is the string with its
header: type, length, allocation and the bytes there really are, through every operation
of `sds.c`. The five header widths are scaled down to a few bytes, so that a short text
grows through all of them; integers have `LLBits` bits.

**RedisReader, RedisClient, RedisReplies.** The reader takes bytes in any pieces and keeps a stack of
tasks between them; limits (`DiscardAt` for 1024, `MaxDepth` for 8) are constants.
`RedisClient` puts the context, the connection code of `net.c` and `CRedisConn` around
it: every socket call is a step that takes any part of the bytes or fails. A command is
`CmdLen` bytes; replies are real bytes, so that parsing is part of the model. Each
method of `CRedisConn` is an operator that says what it makes of a reply. `RedisReplies`
holds a reference parser, recursive over a reply given whole, and the two properties that
compare the client's replies with it.

**CallbackDict, AsyncContext.** The hash table with its chains, growth and iterator; the
asynchronous context around it. A callback is a frame on `stack`, in which the client
may give commands, disconnect or free. Commands and replies are whole here. The variable
`unforeseen` is set when the client does what `async.c` is not written for: MONITOR, a
regular command while subscribed with an unsubscribe outstanding, an unsubscribe of an
unknown name or while one is outstanding, a subscribe of several names of which one
exists, a send that would block. Properties marked `Foreseen` are stated until then; the
others always hold. The connect and the disconnect callback run without
`REDIS_IN_CALLBACK` (`async.c:293-299, 509, 514, 600-602`) and are not frames. Commands
given in the connect callback are as if given just before the event, since nothing has
been done with it yet; commands given in the disconnect callback are refused, since the
context is disconnecting or being freed. Both are assumed neither to disconnect nor to
free: in the connect callback either would free the context its caller goes on with, in
the disconnect callback a second time.

**FramingProofs** (the ring and the framing), **ChatLogicProofs, ServerThreadsProofs,
SessionProofs, SendProofs, StopProofs, RedisClientProofs, AsyncProofs** hold the theorems,
**MC...** the instances for TLC.

Definitions marked `mutant` are faulty variants of the definition after them; each
property is shown to fail when one of them takes its place.

## Runs

| Run | Instance | Checks |
|---|---|---|
| `ring` | 3 bytes of capacity, 2 byte values, all chunks up to one more than the capacity | refinement of `ByteQueue`; block calls are loops of byte calls |
| `framing` | capacity 4, packets of 2 to 4 bytes, receives up to 3 bytes, 3 packets | packets intact and in order; each eventually handled; all until a write does not fit |
| `chat` | 2 indices, 2 Redis ids, 1 test id, 1 room of 2, 2 connections, 2 packets of any kind; from an empty server and from any in which some have logged in and entered | no Redis id logged in twice; count of users within the dictionary; chat reaches the room; dictionary entry belongs to the user; every request answered once; ends before later tasks; room state and list agree |
| `threads` | 3 pushes | work drained when `End` returns; each join of `End` returns, unless the thread's database keeps it in a call; pushed packets and requests are taken |
| `sessions` | 3 sessions, 2 accepts, 2 workers, 4 sockets, 1 failing call or cancelled send | index in one place, end reported before reuse, exact count, until then; accepts bounded and no connected session without a receive also afterwards |
| `send` | 2 sessions, 2 buffers, 2 senders, 4 messages, 3 connections | no buffer lost, order kept, until a connection ends; everything sent, unless a `WSASend` is refused; no two users of a buffer and one send at a time also afterwards |
| `stop` | 2 sessions, 1 accept, 2 workers, batches of 2, timeout 2, PING after 1, clock to 4 of 16, 2 connections or receives, End by main or the handler | disconnections have a reason; a pass leaves no silent session; nobody left but sessions that came in meanwhile; End returns |
| `client` | commands of 2 bytes, 2 commands, all methods, 2 addresses, 2 retries, 2 connections made, 1 failure; 8 bit integers | replies parsed whole however they are cut; own reply; bytes sent once and in order; sockets accounted for and failed connections reported; calls return |
| `async` | 3 commands, 2 channels and a pattern, 1 disturbance (message, failure, timeout, close) | nothing freed under a caller; right callback, in order; replies passed on, NULL only when the context goes down; none lost; table of subscriptions sound and `pending_subs` exact; assertions hold; disconnection ends |
| `sds` | widths 3, 6, 12 and 200, texts up to 4 bytes before a call, numbers at the ends of 8 bits, commands with counts and lengths of up to three digits | header and bytes agree and room is made; calls do what they say; numbers, splitting, quoting and commands come back as they went |
| `kicked`, `client_lost` | smaller | one statement of the comments each, which TLC refutes |

Every module also has a type invariant (`...TypeOK`). It is where a proof starts, and it
is proved for every module that has theorems; the runs spend their time on the
properties above.

Why the bounds are enough to be interesting. The ring of 3 goes through all wrap
positions, full and empty. In `framing` a packet can fill the ring, two packets can
share a receive and every header can be split. In `chat` two connections and two packets
allow a login that waits for Redis while its index is closed and reused and while the
other client takes the id; starting from servers whose users have already logged in
(under a test id, which takes no Redis round trip) and entered the room spends the two
packets on second logins, chat and leaving, with a connection left for the reuse of an
index. In
`sessions` four sockets are one more than the sessions, so that an index is reused.
In `send` both buffers can be in one queue and an index can be connected again.
In `stop` one worker can take both NULL entries, an accept can fall into the loop of
`DestroyThread`, and the clock can pass the timeout twice; time stands still once `End`
has been called. In `client` a retry, a second address and a second connection meet one
failure anywhere, and `DiscardAt` lies inside a reply. In `async` three commands are a
subscription, its repetition or end, and a command between; a table of initially one
slot grows at the second name. In `sds` every header change happens within a call.
Counters of generations and connections are unbounded in the code and in the models
bounded by the number of connections. Clients, ids and workers are permuted where a
configuration names `Symmetry`; runs with liveness use no symmetry.

Deadlock is not checked where a bound on inputs ends every behaviour; in `ring`,
which has none, it is.

### Fairness

`framing`: the network delivers, the logic thread runs. `threads`: each thread that
is not blocked runs, a worker that has pushed goes on to notify, `End` goes on once
begun. The databases are not fair: no time limit is set on a Redis command
(`RedisManager.h:112`, `CRedisConn.h:97-98, 125`) and MySQL has one for connecting only
(`MysqlManager.h:143`). `ShutdownCompletes` and `PushedIsTaken` therefore say for each
part which database has to return for it, and that the logic thread needs none.
`send`: threads run and
the system ends what it was given. `stop`: the timeout thread, each worker and each
thread in `End` run. `client`: the calling thread goes on while a socket call can return,
and the server answers. `async`: the event loop reports what is readable or writable,
the library goes on, callbacks return, the server answers. Each is weak fairness of one thread's steps,
which is what a preemptive scheduler gives. Nobody has to send, connect, close, stop
the server or wake up spuriously; time does not have to pass.

## Disagreements between documents and code

Two are runs with a counterexample:

- `kicked`: the timeout thread subtracts a session's time from a `now` that is older
  (`IOCP.h:309-320`), or that of a session which has just connected and still has the
  time of the last connection (`ClientSession.h:68`): the session is disconnected.
- `client_lost`: `_getError` takes a NULL reply for no error (`CRedisConn.h:959`): when
  the connection to Redis is lost, `ping` returns true and `get`, which the Redis thread
  calls for every login, reads through the NULL pointer.

Four more have a configuration of their own (`tlc -config <file> <module>` shows the
counterexample):

- `MCServerThreads_wakeup.cfg`, `ResponseIsHandled`: the Redis thread notifies the logic
  thread without that thread's lock (`RedisManager.h:254-266`). If this falls between the
  test of the predicate and the wait, the login result lies until the next packet
  arrives. The comment at `RedisManager.h:261`: when a response comes the packet thread
  is told.
- `MCChatLogic_stale.cfg`, `StalePacketInvalidated`: a connection that ends before its
  login leaves its bytes and its generation behind (`PacketManager.cpp:633`); its packet
  is handled for the next connection of the index. `README.md:238-239` has the
  generation token invalidate such packets.
- `MCSessionLifecycle_listen.cfg`, `AlwaysListening`: accepts are replaced only by a
  worker that handled an accept, when the free list has an index (`IOCP.h:501-508`).
  With all sessions connected the accepts run out and a close does not post one: the
  server no longer accepts though sessions are free. `README.md:254`: about 100 waiting
  sockets are always kept.
- `MCSendPath_wedged.cfg`, `QueueMoves`: a send that is cut off stays at the front of its
  queue, nothing calls `ClientSession::Clear`, and the next connection of the index sends
  nothing (`ClientSession.h:163-164`). The statement leaves out sessions whose `WSASend`
  was refused, which are stuck in the same way (below).

The same models show these, by an invariant that is not part of a run:

- A full ring buffer drops the rest of a receive (`User.h:79-94`); the properties of
  `framing` are stated until then. `README.md:228` calls the buffering safe.
- The `test_user` shortcut looks up no id (`PacketManager.cpp:481-499`), so that one
  id may be logged in twice: `NoDuplicateLogin` is about the other ids.
- `Room::LeaveUser` lowers the count for a user who is not in the list
  (`Room.h:56-68`), and a user can leave twice, since leaving does not reset its
  room number: a room then takes more than its maximum (`README.md:179`).
- The Redis result of a login carries only an index (`RedisTaskDefine.h:23`): if
  the connection that asked has ended and the index has been connected again, the result
  logs in the new connection under the id of the old one (`PacketManager.cpp:576-605`).
  `OwnsDictionaryEntry` holds of that login as of any other. If nobody is connected the
  result is answered all the same, to the session of that index
  (`PacketManager.cpp:605`).
- A second login on a connection leaves the old id in the dictionary, refused from
  then on, and a user who does so inside a room stays in the room's list
  (`UserManager.h:58-89`).
- The tasks erased at a disconnect are chosen by index (`PacketManager.cpp:611`),
  those of the next connection included.
- After a send that failed or was cancelled by the close, two workers may close one
  session (`IOCP.h:572-585`): its index is freed twice and gets two accepts. A session
  can then be closed and connected again while a receive of the old connection is still
  with a worker, and the check that the comment at `IOCP.h:513` calls a verification of
  stale I/O passes it on as one of the new connection, because both generations it
  compares belong to the new one by then (`IOCP.h:514`, `ClientSession.h:196`). As long
  as none has, a session is closed only through its own receive and there is no stale
  one, so the check is never needed; what `ConnectedIsHeard` shows is that it does no
  harm.
- A `WSASend` that fails on an open socket, for want of buffer space for instance, is
  printed and forgotten (`ClientSession.h:250-254`): the buffer stays at the front, no
  completion comes, and the live connection is sent nothing any more.
- A Redis that is silent keeps the Redis thread in its `GET`, and `End` in the join
  (`RedisManager.h:51-56`): no command has a time limit. So does MySQL in a statement.
- A failed `WSARecv` closes a session without reporting it or freeing its index
  (`ClientSession.h:206-212`).
- A send completion of an earlier generation frees a buffer that is still queued
  (`IOCP.h:532-538`). Nobody sends from that queue any more, which is what
  `BufferInOnePlace` says of it, but the queue is stuck.
- One worker can take several NULL entries in a batch and leaves at the first
  (`IOCP.h:466`); another then waits for ever and so does the join (`IOCP.h:211`).
- `g_pServer` is cleared only after `End` has returned (`main.cpp:60-61`), although the
  comment there wants to prevent a second call by the handler: both threads may be in
  `DestroyThread`.
- A session whose accept is being completed while `DestroyThread` loops over the
  sessions stays connected (`IOCP.h:186`).
- `redisNetWrite` returns an error without setting one when the call would block or is
  interrupted (`net.c:82-93`), although `hiredis.c:887-888` says that the error is set;
  an asynchronous context is then disconnected as if cleanly, and the assertion
  `async.c:326` fails if replies are outstanding.
- A connection that fails after all retries with a bound address leaves the context
  without an error (`net.c:466-468`).
- In `redisProcessCallbacks`, `cb` keeps the callback of the last reply
  (`async.c:422`): with MONITOR it is pushed again when no reply is left
  (`async.c:437`), which is how monitoring goes on, and with other commands in between
  it is not always the right one.
- The error that answers a command given while subscribed ends the connection, and the
  callback of the command gets NULL (`async.c:464-469`). The comment where the command is
  given has it that the error "needs to be received and passed to the callback"
  (`async.c:699-700`), and the one at the disconnection speaks of "a spontaneous reply in
  a not-subscribed context" (`async.c:450`). `RightCallback` names this one exception;
  without it TLC finds a counterexample.
- `sdstrim` takes NULs off both ends, whatever the set: `strchr` finds the terminator of
  `cset` (`sds.c:698-699`). The comment promises to remove "just" the characters of
  `cset` (`sds.c:678-679`). `CallsDoWhatTheySay` compares texts without NUL.
- With `REDIS_NO_AUTO_FREE`, a context that a callback frees during a timeout is never
  freed: `redisAsyncHandleTimeout` does not look at `REDIS_FREEING` (`async.c:604-612`).

This is why `sessions` and `send` state most properties up to the first failed call
or ended connection, `stop` names its races, and `async` has `Foreseen`.

## Proofs

All theorems hold for every value of the constants that satisfies the assumptions
named in the modules: finite sets of clients, ids, workers and senders, disjoint sets of
ids, positive sizes, bytes that are numbers. The bounds for TLC are arbitrary naturals in
the proofs. `StopAssumption` also says that `2^Bits` is a natural number, which the
provers cannot derive. Every invariant named here as inductive has been checked by TLC on
the instance of its run before it was proved.

**Ring.** `RingTypeCorrectness`, `RingImplementsByteQueue`. `RingTypeOK` (indices in
range, a full ring has equal indices) is inductive. The refinement needs it and a few
lemmas: what `Advance` does to an index, how `Write` and `Read` change `Size` and the
content seen through `Peek`; the byte calls are the block calls of length one.

**Framing.** `PacketsIntactHolds`. The property speaks of packets that have come out; it
is kept only because of what is still inside. `FramingInv` therefore says that the content
of the ring followed by the stream is, to the byte, the concatenation of the packets not
yet handled. A concatenation of a sequence of sequences would be a recursive definition;
`Laid` says the same with a function of offsets, one for the end of each packet, so that
no induction is needed: sending adds an offset (`LaidAppend`), a packet taken out removes
the first and shifts the others (`LaidFirst`), a receive moves bytes from the stream to
the ring and leaves the concatenation alone (`Move`). `FirstPacket` then gives that a
complete header at the front of the ring is the header of the next packet. The ring
enters only through its lemmas about `Content`.

**Chat logic.** `TypeCorrectness`: `TypeOK` is inductive, with the conjuncts that tie
`task` and the head of the system queue to the stage of the logic thread. The actions are
grouped into lemmas (network, Redis, login, rooms, disconnect).
- `TaskAfterDisconnectHolds`. `ConnectionOrder` adds what makes it so: receives and
  tasks are never of a later connection than the present one; of a task that the logic
  thread has taken over, no end of an earlier connection is still to be swapped in; and
  no system packet is left when the first task is handled.
- `OwnershipHolds`, `NoDuplicateLoginHolds`. Ownership of the dictionary entry is
  inductive together with `TypeOK`; no two users with one id follows from it.
  `LoginSteps` lists the ways in which ids and dictionary change at all.
- `CountWithinDictionaryHolds`, `AnsweredOnceHolds`. Inductive with `TypeOK`; what they
  need is cardinality: one more or one less registered id, one entry more at the end or
  less at the front of a queue.
- `RoomStateListedHolds`, `ChatReachesRoomHolds`. The first is inductive with `TypeOK`
  and needs that leaving removes one user from one room only; the second follows from it
  for the step that sends, and from what later steps leave of `out`.

**Threads.** `ThreadsTypeCorrectness`, `DrainedAtEndHolds`. `ShutdownInv` strengthens the
property with the order of the shutdown: Redis and MySQL threads are told to stop only
when the logic thread has left, so their queues no longer grow when they find them empty.

**Sessions.** `AcceptsBoundedHolds`: `AcceptsInv` counts every accept, used up ones that
a worker is about to replace included; it holds whatever fails. `IndexInOnePlaceHolds`,
`EndReportedBeforeReuseHolds` follow from `IndexInv`:
`Whereabouts` says for each index in which of five places it is (free list, pending
accept, completed accept, receive, worker) and, for that place, everything else about it:
connected or not, told or not, which socket, and that nothing else of it is anywhere. The
sum of cardinalities in the property cannot be pushed through a step; the case
distinction can. `SocketsDistinct` keeps a new socket different from those in use, which
is what the receive of an old connection would otherwise be confused by.
`ConnectedIsHeardHolds`, which holds whatever fails, follows from `HeardInv`: the receive
of a session bears the generation of its connection, except while the worker that
accepted the connection is about to post its first receive. So the check drops a receive
only while another is still to be posted. Closing a handle completes what is in flight
on it (`CloseKeepsReceives`), and no other worker's step takes a receive away.

**Sending.** `OneSendAtATimeHolds` is inductive with `ShapeOK` (the part of the types it
needs). `BufferInOnePlaceHolds` and `SentInOrderHolds` need `SendInv`. Its part
`OwnersApart` is unconditional: the buffer that is being sent is the front of its queue,
and pool, hands and the queues with a send going on, or stuck after a refused `WSASend`,
have no buffer in common; a stale completion frees a buffer only of a queue that is
neither (`RefusedStuck`: a refused queue has nothing going on). `UncutInv` holds until a connection
ends: no buffer is missing, and what was accepted is what was sent followed by the queue.

**Stop.** `EveryoneOutHolds`, `PassLeavesNoZombieHolds`, `KickJustifiedHolds` follow from
`StopInv`. `OutInv` is about the sessions behind the loop of `DestroyThread`, `TimeInv`
about times that are never in the future, `StageInv` about the order in which timeout
thread, listening socket and sessions end, `AcceptInv` says that as long as the server
listens a session has at most one accept on its way and is then not connected (otherwise a
second completion would overwrite the time of a session already judged), and `ZombieInv`
is the property for a pass that is under way.

**Redis client.** `ClientTypeCorrectness`, `SocketsAccountedHolds`, `SentOnceHolds` follow
from `ClientInv`, which is `ClientTypeOK`, `SocketInv` and `SentOnce`. `SocketsAccounted`
alone says nothing of where the thread is between `socket()` and `close()`; `SocketInv`
ties the socket to the stage of the attempt: none up to `socket()`, one behind it, a
context that is not there holds none, and a context without a connection has an error
outside an attempt. One lemma per stage shows that each of its exits (next address,
retry, failure with and without a close, success) keeps it; `Dialled` and `DialFails`,
through which they leave, are lemmas of their own. `SentOnce` is about what was sent
followed by what waits: a `send()` of any part moves bytes from the one to the other
(`Move`), a new command goes to the end (`CommandAppended`), everything else leaves both
alone (`SentStays`). The property is stated by positions, byte `i` of command `n`, since
the concatenation of a sequence of commands would need an induction. How a reply is
parsed plays no part: of the reader only what `FromReader` does to the rest of the context
is used, and it is never expanded.

**Asynchronous context.** `FreedUnderNobodyHolds` and `EveryCallbackRunHolds` follow from
`AsyncInv`. The two properties look at the end of a context and at a flag; what makes them
true is what the library is in the middle of. `StackOK` gives the stack its only forms:
empty, aborted, one loop of the library, or that loop with one callback on top, the flag
`REDIS_IN_CALLBACK` being set in the last form and in no other; so a callback never runs
inside a callback, and `redisAsyncFree` frees at once only between handlers. `FreeingOK`
says that a context that is being freed has one of the flags that refuse commands (or the
client has done what was not foreseen and gives none), so the queue that a phase of
`__redisAsyncFree` has emptied stays empty although callbacks run in the later phases.
`HeldOK` then says of every regular command that its callback has run or waits in one of
the two queues. What changes state in several places is a lemma: a callback is run
(`CallbackRun`), the context is disconnected (`Disconnected`), a command is accepted
(`Accepted`), a handler ends or fails (`HandlerEnds`, `HandlerFails`); then there is one
per action. The hash table enters only as something that hands out callbacks: taking one
out of it, or finding none, loses no regular command (`SubscribeCallback`). A failed
assertion ends the program and leaves `HeldOK` without a claim; that none fails is
`AssertionsHold`, which only TLC checks.

Only model-checked:
- liveness (`EventuallyHandled`, `ShutdownCompletes`, `PushedIsTaken`, `EventuallySent`,
  `StopEnds`, `CallReturns`, `DisconnectEnds`), which is out of the prover's reach;
- `CallsAreLoops` and the properties of `sds`, `ReadsWholeReplies` and `OwnReply`, which
  compare with recursive definitions (the loops, the inverse conversions, the reference
  parser) and would need an induction over the data, as would `HeaderSound` for the calls
  that append piece by piece (`sdscatfmt`, `sdscatrepr`);
- `RightCallback`, `AssertionsHold` and `SubscriptionsExact`: what a callback is given
  depends on what the hash tables hold after a table has grown or several names were
  subscribed at once, both of which are folds over sequences, and on counts of what is
  still to come that are folds over the queues; each needs an induction over the data.

## Not modelled

- `ObjectMemoryPool` (unused), `CrashDump` (operating system calls), console input.
- MySQL statements and reconnection, which are one step, and the comparison of a stored
  password, which has either result: the answer of a database is not in this code.
- `thirdparty/RedisCpp-hiredis` (an older copy of `CRedisConn.h`), `plog` (nothing
  includes it), `ssl.c` and the adapters of hiredis (not part of this build),
  `sockcompat.c` (error codes of single system calls), the MySQL headers.
- In hiredis: UNIX sockets, which Windows does not build; failing allocations; floating
  point formats; UNSUBSCRIBE without names.
- Text and layout of packets, logging.
- Data races on the fields of one session or user below the granularity above;
  `SetPacketData`, `GetPacket` and `Clear` hold the ring's mutex and are one step.
- Headers with lengths that no client of this protocol sends.

## Plan

Done: the ring and the framing, chat logic, threads, sessions, sending, the timeout
thread and the end of the network layer, the Redis client from `CRedisConn` down to the
bytes, the asynchronous context. Proved: the safety properties of everything but the
comparisons with recursive definitions and the subscriptions of the asynchronous context.

1. An abstract specification of the subscriptions as a function from names to callbacks,
   with `CallbackDict` as its implementation, so that `RightCallback` and
   `AssertionsHold` can be proved over the function and only the table stays with TLC.
2. Rooms: by how much the count of a room can differ from its list, and the handlers'
   MySQL events.
3. Composition of `SessionLifecycle` and `SendPath` with the callbacks of `ChatLogic`,
   with an abstract specification of "one connection at a time".
