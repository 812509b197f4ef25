------------------------ MODULE ServerThreadsProofs ------------------------
(***************************************************************************)
(* The shutdown of ServerThreads leaves nothing behind, for any number of  *)
(* packets queued by the workers.                                          *)
(***************************************************************************)
EXTENDS ServerThreads, TLAPS

\* the phases of End after the join of the logic thread, and of the Redis thread
AfterLogic == {"stopRedis", "notifyRedis", "joinRedis", "stopMySQL", "notifyMySQL",
               "joinMySQL", "ended"}
AfterRedis == {"stopMySQL", "notifyMySQL", "joinMySQL", "ended"}

\* What End has joined has left; a thread is told to stop only after the threads
\* that feed it have left; and a thread that has left has an empty queue.
ShutdownInv ==
    /\ main \in AfterLogic => logic = "done"
    /\ main \in AfterRedis => redis = "done"
    /\ main = "ended" => mysql = "done"
    /\ ~redisRun => logic = "done"
    /\ ~mysqlRun => logic = "done"
    /\ redis = "done" => logic = "done" /\ requests = 0
    /\ mysql = "done" => logic = "done" /\ events = 0

-----------------------------------------------------------------------------
\* Every step keeps the types.
LEMMA NextThreadsTypeOK ==
    ASSUME ThreadsTypeOK, [Next]_vars
    PROVE  ThreadsTypeOK'
<1> USE MaxPushAssumption DEF ThreadsTypeOK, LogicPc, TaskPc, MainPc
<1>1. CASE WorkerPush \/ WorkerNotify
  BY <1>1 DEF WorkerPush, WorkerNotify, NotifyLogic
<1>2. CASE LogicLoop \/ LogicTest \/ LogicLook \/ LogicBlock \/ SpuriousWakeup
  BY <1>2 DEF LogicLoop, LogicTest, LogicLook, LogicBlock, SpuriousWakeup
<1>3. CASE LogicPacket
  BY <1>3 DEF LogicPacket, PushEvent
<1>4. CASE LogicWakeRedis \/ LogicBatchDone \/ LogicResults
  BY <1>4 DEF LogicWakeRedis, LogicBatchDone, LogicResults, PushEvent
<1>5. CASE RedisStep
  BY <1>5 DEF RedisStep, RedisCheck, RedisRespond, RedisNotify, NotifyLogic
<1>6. CASE MySQLStep
  BY <1>6 DEF MySQLStep, MySQLCheck, MySQLExecute
<1>7. CASE EndStopLogic \/ EndStep
  BY <1>7 DEF EndStopLogic, EndStep, EndNotifyLogic, EndStopRedis, EndNotifyRedis,
              EndStopMySQL, EndNotifyMySQL, EndJoin, NotifyLogic
<1>8. CASE UNCHANGED vars
  BY <1>8 DEF vars
<1>9. QED
  BY <1>1, <1>2, <1>3, <1>4, <1>5, <1>6, <1>7, <1>8 DEF Next, LogicStep

\* The threads and queue sizes keep their types in every behaviour: no queue is
\* taken from when it is empty (PacketManager.cpp:184-347, RedisManager.h:109-266,
\* MysqlManager.h:274-328).
THEOREM ThreadsTypeCorrectness == Spec => []ThreadsTypeOK
<1>1. Init => ThreadsTypeOK
  BY MaxPushAssumption DEF Init, ThreadsTypeOK, LogicPc, TaskPc, MainPc
<1>2. ThreadsTypeOK /\ [Next]_vars => ThreadsTypeOK'
  BY NextThreadsTypeOK
<1>3. QED
  BY <1>1, <1>2, PTL DEF Spec

-----------------------------------------------------------------------------
\* Every step keeps the shutdown invariant.
LEMMA NextShutdownInv ==
    ASSUME ThreadsTypeOK, ShutdownInv, [Next]_vars
    PROVE  ShutdownInv'
<1> USE DEF ShutdownInv, AfterLogic, AfterRedis
<1>1. CASE WorkerPush \/ WorkerNotify
  BY <1>1 DEF WorkerPush, WorkerNotify, NotifyLogic
<1>2. CASE LogicLoop \/ LogicTest \/ LogicLook \/ LogicBlock \/ SpuriousWakeup
  BY <1>2 DEF LogicLoop, LogicTest, LogicLook, LogicBlock, SpuriousWakeup
<1>3. CASE LogicPacket
  BY <1>3 DEF LogicPacket, PushEvent
<1>4. CASE LogicWakeRedis \/ LogicBatchDone \/ LogicResults
  BY <1>4 DEF LogicWakeRedis, LogicBatchDone, LogicResults, PushEvent
<1>5. CASE RedisStep
  BY <1>5 DEF RedisStep, RedisCheck, RedisRespond, RedisNotify, NotifyLogic
<1>6. CASE MySQLStep
  BY <1>6 DEF MySQLStep, MySQLCheck, MySQLExecute
<1>7. CASE EndStopLogic \/ EndNotifyLogic \/ EndStopRedis \/ EndNotifyRedis
  BY <1>7 DEF EndStopLogic, EndNotifyLogic, EndStopRedis, EndNotifyRedis, NotifyLogic
<1>8. CASE EndStopMySQL \/ EndNotifyMySQL \/ EndJoin
  BY <1>8 DEF EndStopMySQL, EndNotifyMySQL, EndJoin
<1>9. CASE UNCHANGED vars
  BY <1>9 DEF vars
<1>10. QED
  BY <1>1, <1>2, <1>3, <1>4, <1>5, <1>6, <1>7, <1>8, <1>9 DEF Next, LogicStep, EndStep

\* When PacketManager::End returns, every queued login request and every queued
\* record has been processed and all three threads have left (PacketManager.cpp:
\* 138-154).
THEOREM DrainedAtEndHolds == Spec => []DrainedAtEnd
<1>1. Init => ShutdownInv
  BY DEF Init, ShutdownInv, AfterLogic, AfterRedis
<1>2. ThreadsTypeOK /\ ShutdownInv /\ [Next]_vars => ShutdownInv'
  BY NextShutdownInv
<1>3. ShutdownInv => DrainedAtEnd
  BY DEF ShutdownInv, DrainedAtEnd, AfterLogic, AfterRedis
<1>4. QED
  BY <1>1, <1>2, <1>3, ThreadsTypeCorrectness, PTL DEF Spec
=============================================================================
