--------------------------- MODULE ServerThreads ---------------------------
(***************************************************************************)
(* How the threads behind the network layer wait for, wake and stop one    *)
(* another: the logic thread (PacketManager::ProcessPacket), the Redis and *)
(* the MySQL task threads, and the thread that runs PacketManager::End.    *)
(* Queues are only as long as they are here; ChatLogic says what their     *)
(* elements mean.                                                          *)
(*                                                                         *)
(* A condition variable is modelled by what the standard promises: wait    *)
(* releases the mutex and blocks in one step; a notification reaches only  *)
(* a thread that is blocked at that moment and is otherwise lost; a        *)
(* blocked thread may also wake up on its own.  Critical sections are one  *)
(* step, except that the logic thread holds mLock from the evaluation of   *)
(* its wait predicate until it blocks, and looks at the response queue     *)
(* (under mResLock) in a step of its own.                                  *)
(***************************************************************************)
EXTENDS Naturals

CONSTANTS MaxPush      \* bound: system packets and tasks queued by workers

ASSUME MaxPushAssumption == MaxPush \in Nat

VARIABLES
    logic,              \* where the logic thread is
    redis, mysql,       \* where the Redis and the MySQL thread are
    main,               \* where PacketManager::End is
    mIsRunProcessThread, redisRun, mysqlRun,
    system, packets,    \* sizes of mSystemWriteBuffer and mWriteBuffer
    batch,              \* packets of the batch the logic thread has swapped out
    requests,           \* RedisManager::mRequestTask
    responses,          \* RedisManager::mResponseTask
    events,             \* MySQLManager::mRequestTask
    pushed,             \* system packets and tasks queued so far
    wakeups             \* notify_one calls that workers still have to make

vars == <<logic, redis, mysql, main, mIsRunProcessThread, redisRun, mysqlRun,
          system, packets, batch, requests, responses, events, pushed, wakeups>>

LogicPc == {"loop", "lock", "look", "block", "asleep", "batch", "wakeRedis",
            "results", "done"}
TaskPc  == {"check", "asleep", "busy", "notify", "done"}
MainPc  == {"running", "notifyLogic", "joinLogic", "stopRedis", "notifyRedis",
            "joinRedis", "stopMySQL", "notifyMySQL", "joinMySQL", "ended"}

Init ==
    /\ logic = "loop" /\ redis = "check" /\ mysql = "check" /\ main = "running"
    /\ mIsRunProcessThread = TRUE /\ redisRun = TRUE /\ mysqlRun = TRUE
    /\ system = 0 /\ packets = 0 /\ batch = 0
    /\ requests = 0 /\ responses = 0 /\ events = 0
    /\ pushed = 0 /\ wakeups = 0

\* the logic thread holds mLock while it evaluates the predicate of its wait
mLockFree == logic \notin {"look", "block"}

\* notify_one or notify_all on mPacketEventCV, which only the logic thread waits on
NotifyLogic == logic' = IF logic = "asleep" THEN "lock" ELSE logic

-----------------------------------------------------------------------------
\* IOCP workers: push under mLock, then notify without it

\* PushSystemPacket, EnqueuePacketData up to the end of the critical section
WorkerPush ==
    /\ main = "running" /\ pushed < MaxPush
    /\ mLockFree
    /\ \/ system' = system + 1 /\ UNCHANGED packets
       \/ packets' = packets + 1 /\ UNCHANGED system
    /\ pushed' = pushed + 1
    /\ wakeups' = wakeups + 1
    /\ UNCHANGED <<logic, redis, mysql, main, mIsRunProcessThread, redisRun,
                   mysqlRun, batch, requests, responses, events>>

\* NotifyPacketEvent
WorkerNotify ==
    /\ wakeups > 0
    /\ wakeups' = wakeups - 1
    /\ NotifyLogic
    /\ UNCHANGED <<redis, mysql, main, mIsRunProcessThread, redisRun, mysqlRun,
                   system, packets, batch, requests, responses, events, pushed>>

-----------------------------------------------------------------------------
\* PacketManager::ProcessPacket

\* while (mIsRunProcessThread)
LogicLoop ==
    /\ logic = "loop"
    /\ logic' = IF mIsRunProcessThread THEN "lock" ELSE "done"
    /\ UNCHANGED <<redis, mysql, main, mIsRunProcessThread, redisRun, mysqlRun,
                   system, packets, batch, requests, responses, events, pushed, wakeups>>

\* mutant: the predicate does not look at the system packets
LogicTestNoSystem ==
    /\ logic = "lock"
    /\ \/ ~mIsRunProcessThread /\ logic' = "done" /\ UNCHANGED <<system, packets, batch>>
       \/ /\ mIsRunProcessThread /\ packets > 0
          /\ batch' = packets /\ system' = 0 /\ packets' = 0
          /\ logic' = "batch"
       \/ /\ mIsRunProcessThread /\ packets = 0
          /\ logic' = "look" /\ UNCHANGED <<system, packets, batch>>
    /\ UNCHANGED <<redis, mysql, main, mIsRunProcessThread, redisRun, mysqlRun,
                   requests, responses, events, pushed, wakeups>>

\* take mLock and evaluate the predicate as far as mLock protects it: stop and
\* break, or swap the buffers, or go on to ask for responses
LogicTest ==
    /\ logic = "lock"
    /\ \/ ~mIsRunProcessThread /\ logic' = "done" /\ UNCHANGED <<system, packets, batch>>
       \/ /\ mIsRunProcessThread /\ system + packets > 0
          /\ batch' = packets /\ system' = 0 /\ packets' = 0
          /\ logic' = "batch"
       \/ /\ mIsRunProcessThread /\ system + packets = 0
          /\ logic' = "look" /\ UNCHANGED <<system, packets, batch>>
    /\ UNCHANGED <<redis, mysql, main, mIsRunProcessThread, redisRun, mysqlRun,
                   requests, responses, events, pushed, wakeups>>

\* HasResponseTask, with mLock still held: swap two empty buffers, or give up
LogicLook ==
    /\ logic = "look"
    /\ logic' = IF responses > 0 THEN "batch" ELSE "block"
    /\ UNCHANGED <<redis, mysql, main, mIsRunProcessThread, redisRun, mysqlRun,
                   system, packets, batch, requests, responses, events, pushed, wakeups>>

\* the predicate was false: release mLock and block
LogicBlock ==
    /\ logic = "block"
    /\ logic' = "asleep"
    /\ UNCHANGED <<redis, mysql, main, mIsRunProcessThread, redisRun, mysqlRun,
                   system, packets, batch, requests, responses, events, pushed, wakeups>>

SpuriousWakeup ==
    /\ logic = "asleep"
    /\ logic' = "lock"
    /\ UNCHANGED <<redis, mysql, main, mIsRunProcessThread, redisRun, mysqlRun,
                   system, packets, batch, requests, responses, events, pushed, wakeups>>

\* MySQLManager::PushTask notifies inside its critical section
PushEvent ==
    /\ events' = events + 1
    /\ mysql' = IF mysql = "asleep" THEN "check" ELSE mysql

\* one packet of the batch: a login request goes to the Redis queue, a room or
\* chat request is recorded in MySQL, others do neither
LogicPacket ==
    /\ logic = "batch" /\ batch > 0
    /\ batch' = batch - 1
    /\ \/ /\ requests' = requests + 1 /\ logic' = "wakeRedis"
          /\ UNCHANGED <<events, mysql>>
       \/ PushEvent /\ UNCHANGED <<requests, logic>>
       \/ UNCHANGED <<requests, logic, events, mysql>>
    /\ UNCHANGED <<redis, main, mIsRunProcessThread, redisRun, mysqlRun, system,
                   packets, responses, pushed, wakeups>>

\* RedisManager::PushTask notifies after its critical section
LogicWakeRedis ==
    /\ logic = "wakeRedis"
    /\ redis' = IF redis = "asleep" THEN "check" ELSE redis
    /\ logic' = "batch"
    /\ UNCHANGED <<mysql, main, mIsRunProcessThread, redisRun, mysqlRun, system,
                   packets, batch, requests, responses, events, pushed, wakeups>>

LogicBatchDone ==
    /\ logic = "batch" /\ batch = 0
    /\ logic' = "results"
    /\ UNCHANGED <<redis, mysql, main, mIsRunProcessThread, redisRun, mysqlRun,
                   system, packets, batch, requests, responses, events, pushed, wakeups>>

\* TakeResponseTask until there is none; a successful login is recorded in MySQL
LogicResults ==
    /\ logic = "results"
    /\ \/ /\ responses > 0
          /\ responses' = responses - 1
          /\ PushEvent \/ UNCHANGED <<events, mysql>>
          /\ UNCHANGED logic
       \/ /\ responses = 0
          /\ logic' = "loop"
          /\ UNCHANGED <<responses, events, mysql>>
    /\ UNCHANGED <<redis, main, mIsRunProcessThread, redisRun, mysqlRun, system,
                   packets, batch, requests, pushed, wakeups>>

-----------------------------------------------------------------------------
\* RedisManager::TaskProcessThread

\* under mReqLock: take a task, leave when stopped and drained, or block
RedisCheck ==
    /\ redis = "check"
    /\ \/ requests > 0 /\ requests' = requests - 1 /\ redis' = "busy"
       \/ /\ requests = 0 /\ UNCHANGED requests
          /\ redis' = IF redisRun THEN "asleep" ELSE "done"
    /\ UNCHANGED <<logic, mysql, main, mIsRunProcessThread, redisRun, mysqlRun,
                   system, packets, batch, responses, events, pushed, wakeups>>

\* the call of Redis returns; push the response under mResLock
RedisRespond ==
    /\ redis = "busy"
    /\ responses' = responses + 1
    /\ redis' = "notify"
    /\ UNCHANGED <<logic, mysql, main, mIsRunProcessThread, redisRun, mysqlRun,
                   system, packets, batch, requests, events, pushed, wakeups>>

\* OnResponsePushed: notify the logic thread, with neither lock held
RedisNotify ==
    /\ redis = "notify"
    /\ redis' = "check"
    /\ NotifyLogic
    /\ UNCHANGED <<mysql, main, mIsRunProcessThread, redisRun, mysqlRun, system,
                   packets, batch, requests, responses, events, pushed, wakeups>>

-----------------------------------------------------------------------------
\* MySQLManager::TaskProcessThread

\* mutant: leaves as soon as it is stopped, whatever is still queued
MySQLCheckStops ==
    /\ mysql = "check"
    /\ \/ mysqlRun /\ events > 0 /\ events' = events - 1 /\ mysql' = "busy"
       \/ /\ ~mysqlRun \/ events = 0
          /\ UNCHANGED events
          /\ mysql' = IF mysqlRun THEN "asleep" ELSE "done"
    /\ UNCHANGED <<logic, redis, main, mIsRunProcessThread, redisRun, mysqlRun,
                   system, packets, batch, requests, responses, pushed, wakeups>>

MySQLCheck ==
    /\ mysql = "check"
    /\ \/ events > 0 /\ events' = events - 1 /\ mysql' = "busy"
       \/ /\ events = 0 /\ UNCHANGED events
          /\ mysql' = IF mysqlRun THEN "asleep" ELSE "done"
    /\ UNCHANGED <<logic, redis, main, mIsRunProcessThread, redisRun, mysqlRun,
                   system, packets, batch, requests, responses, pushed, wakeups>>

\* EnsureConnection and the insert return; a task whose connection fails is dropped
MySQLExecute ==
    /\ mysql = "busy"
    /\ mysql' = "check"
    /\ UNCHANGED <<logic, redis, main, mIsRunProcessThread, redisRun, mysqlRun,
                   system, packets, batch, requests, responses, events, pushed, wakeups>>

-----------------------------------------------------------------------------
\* PacketManager::End, after DestroyThread has joined the workers

EndStopLogic ==
    /\ main = "running" /\ wakeups = 0
    /\ mLockFree
    /\ mIsRunProcessThread' = FALSE
    /\ main' = "notifyLogic"
    /\ UNCHANGED <<logic, redis, mysql, redisRun, mysqlRun, system, packets, batch,
                   requests, responses, events, pushed, wakeups>>

EndNotifyLogic ==
    /\ main = "notifyLogic"
    /\ main' = "joinLogic"
    /\ NotifyLogic
    /\ UNCHANGED <<redis, mysql, mIsRunProcessThread, redisRun, mysqlRun, system,
                   packets, batch, requests, responses, events, pushed, wakeups>>

\* RedisManager::End and MySQLManager::End: clear the flag under mReqLock, notify
EndStopRedis ==
    /\ main = "stopRedis"
    /\ redisRun' = FALSE
    /\ main' = "notifyRedis"
    /\ UNCHANGED <<logic, redis, mysql, mIsRunProcessThread, mysqlRun, system,
                   packets, batch, requests, responses, events, pushed, wakeups>>

EndNotifyRedis ==
    /\ main = "notifyRedis"
    /\ main' = "joinRedis"
    /\ redis' = IF redis = "asleep" THEN "check" ELSE redis
    /\ UNCHANGED <<logic, mysql, mIsRunProcessThread, redisRun, mysqlRun, system,
                   packets, batch, requests, responses, events, pushed, wakeups>>

EndStopMySQL ==
    /\ main = "stopMySQL"
    /\ mysqlRun' = FALSE
    /\ main' = "notifyMySQL"
    /\ UNCHANGED <<logic, redis, mysql, mIsRunProcessThread, redisRun, system,
                   packets, batch, requests, responses, events, pushed, wakeups>>

\* mutant: MySQLManager::End without its notify_all
EndForgetsMySQL ==
    /\ main = "notifyMySQL"
    /\ main' = "joinMySQL"
    /\ UNCHANGED <<logic, redis, mysql, mIsRunProcessThread, redisRun, mysqlRun, system,
                   packets, batch, requests, responses, events, pushed, wakeups>>

EndNotifyMySQL ==
    /\ main = "notifyMySQL"
    /\ main' = "joinMySQL"
    /\ mysql' = IF mysql = "asleep" THEN "check" ELSE mysql
    /\ UNCHANGED <<logic, redis, mIsRunProcessThread, redisRun, mysqlRun, system,
                   packets, batch, requests, responses, events, pushed, wakeups>>

\* the joins
EndJoin ==
    /\ \/ main = "joinLogic" /\ logic = "done" /\ main' = "stopRedis"
       \/ main = "joinRedis" /\ redis = "done" /\ main' = "stopMySQL"
       \/ main = "joinMySQL" /\ mysql = "done" /\ main' = "ended"
    /\ UNCHANGED <<logic, redis, mysql, mIsRunProcessThread, redisRun, mysqlRun,
                   system, packets, batch, requests, responses, events, pushed, wakeups>>

-----------------------------------------------------------------------------
LogicStep == LogicLoop \/ LogicTest \/ LogicLook \/ LogicBlock \/ LogicPacket
             \/ LogicWakeRedis \/ LogicBatchDone \/ LogicResults
RedisStep == RedisCheck \/ RedisRespond \/ RedisNotify
MySQLStep == MySQLCheck \/ MySQLExecute
EndStep   == EndNotifyLogic \/ EndStopRedis \/ EndNotifyRedis \/ EndStopMySQL
             \/ EndNotifyMySQL \/ EndJoin

Next ==
    \/ WorkerPush \/ WorkerNotify
    \/ LogicStep \/ SpuriousWakeup
    \/ RedisStep
    \/ MySQLStep
    \/ EndStopLogic \/ EndStep

\* Threads that can run do run: every thread that is not blocked makes progress,
\* and a worker that has pushed goes on to notify.  Nobody has to push, to stop
\* the server, or to wake up without a notification.  Nor does a database have to
\* answer: neither RedisRespond nor MySQLExecute is fair, because no time limit is
\* set on a Redis command (RedisManager.h:112, CRedisConn.h:97-98, 125) and MySQL
\* has one for connecting only (MysqlManager.h:143).
Fairness ==
    /\ WF_vars(LogicStep)
    /\ WF_vars(RedisCheck \/ RedisNotify)
    /\ WF_vars(MySQLCheck)
    /\ WF_vars(WorkerNotify) /\ WF_vars(EndStep)

Spec == Init /\ [][Next]_vars /\ Fairness

-----------------------------------------------------------------------------
\* Threads are at a line of their loops and no queue is taken from when it is
\* empty (PacketManager.cpp:184-347, RedisManager.h:109-266, MysqlManager.h:274-328).
ThreadsTypeOK ==
    /\ logic \in LogicPc /\ redis \in TaskPc /\ mysql \in TaskPc /\ main \in MainPc
    /\ mIsRunProcessThread \in BOOLEAN /\ redisRun \in BOOLEAN /\ mysqlRun \in BOOLEAN
    /\ system \in Nat /\ packets \in Nat /\ batch \in Nat
    /\ requests \in Nat /\ responses \in Nat /\ events \in Nat
    /\ pushed \in 0..MaxPush /\ wakeups \in Nat

\* When End returns, every login request and every record that was queued for
\* Redis and MySQL has been processed and all three threads have left: stopping
\* the logic thread first means nobody can queue behind a thread that has
\* drained its queue (README.md:249; PacketManager.cpp:138-154,
\* RedisManager.h:120-127, MysqlManager.h:284-291).
DrainedAtEnd ==
    main = "ended" => /\ requests = 0 /\ events = 0
                      /\ logic = "done" /\ redis = "done" /\ mysql = "done"

\* the task thread is not left in a call of its database for ever
RedisReturns == []<>(redis # "busy")
MySQLReturns == []<>(mysql # "busy")

\* Once End has begun, no join waits for a thread that sleeps through its stop
\* notification, and each waits for its own thread only: the logic thread leaves
\* whatever the databases do, the Redis thread unless Redis keeps it in a call,
\* and then the MySQL thread unless MySQL does (PacketManager.cpp:138-154,
\* RedisManager.h:42-56, MysqlManager.h:70-88).
ShutdownCompletes ==
    /\ (main = "notifyLogic") ~> (main = "stopRedis")
    /\ RedisReturns => ((main = "stopRedis") ~> (main = "stopMySQL"))
    /\ MySQLReturns => ((main = "stopMySQL") ~> (main = "ended"))

\* A queued system packet or task is taken by the logic thread, or the server is
\* stopped, whatever the databases do; and unless Redis keeps its thread in a call,
\* every login request is taken by it: pushing under the lock means that the
\* notification cannot fall between the test and the wait
\* (PacketManager.cpp:349-367, 417-426, RedisManager.h:63-70).
PushedIsTaken ==
    /\ (system + packets > 0) ~> (system + packets = 0 \/ main # "running")
    /\ RedisReturns => ((requests > 0) ~> (requests = 0))

\* RedisManager.h:261, "the packet thread is told when a response arrives": a
\* response in the queue is handled without waiting for other traffic.
ResponseIsHandled == (responses > 0) ~> (responses = 0 \/ main # "running")
=============================================================================
