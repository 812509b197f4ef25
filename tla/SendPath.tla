------------------------------ MODULE SendPath ------------------------------
(***************************************************************************)
(* How messages leave the server (ClientSession::SendMsg, SendIO,          *)
(* SendComplete, ObjectPool): a thread takes a buffer from the pool shared *)
(* by all sessions, stamps it with the session's generation and appends it *)
(* to the session's send queue; only the front of a queue is handed to     *)
(* WSASend, and its completion frees the front and hands over the next.    *)
(*                                                                         *)
(* A critical section of mSendLock or of the pool is one step; the check   *)
(* of the generation by a worker and the call of SendComplete that follows *)
(* are two.  Connections come and go around it as SessionLifecycle says;   *)
(* that a closed index is connected again is all that matters here.        *)
(***************************************************************************)
EXTENDS Naturals, Sequences, FiniteSets

CONSTANTS Client,     \* session indices
          PoolSize,   \* ObjectPool::mPoolSize
          Sender,     \* threads that call SendMsg: logic and timeout thread
          MaxMsg,     \* bound: messages
          MaxConn     \* bound: connections

ASSUME PoolAssumption == PoolSize \in Nat \ {0}
ASSUME SenderAssumption == IsFiniteSet(Sender) /\ IsFiniteSet(Client)
ASSUME SendBoundAssumption == MaxMsg \in Nat /\ MaxConn \in Nat

Buffer == 1..PoolSize

VARIABLES
    mFreeList,        \* the pool's stack of free buffers
    generation,       \* SendOverlappedEx::generation
    mSendDataqueue,   \* per session
    open, mGeneration,  \* per session: its socket is open; its generation
    hand,             \* the buffer a sender has filled and not yet queued
    inFlight,         \* WSASend calls the system is working on
    completions,      \* send completions at the port
    completing,       \* completions a worker has checked, SendComplete to come
    conns, msgs,      \* connections and messages so far
    \* history: message in a buffer, messages queued and sent per session, sessions
    \* with a WSASend that failed on an open socket
    content, accepted, sent, refused

sessVars == <<open, mGeneration, conns>>
histVars == <<content, accepted, sent, refused>>
vars == <<mFreeList, generation, mSendDataqueue, sessVars, hand, inFlight, completions,
          completing, msgs, histVars>>

Transfer   == [buffer : Buffer, client : Client]
Completion == [buffer : Buffer, client : Client, zero : BOOLEAN]

Init ==
    /\ mFreeList = [k \in 1..PoolSize |-> k]
    /\ generation = [b \in Buffer |-> 0]
    /\ mSendDataqueue = [i \in Client |-> << >>]
    /\ open = [i \in Client |-> FALSE] /\ mGeneration = [i \in Client |-> 0]
    /\ hand = [t \in Sender |-> {}]
    /\ inFlight = {} /\ completions = {} /\ completing = {}
    /\ conns = 0 /\ msgs = 0
    /\ content = [b \in Buffer |-> 0]
    /\ accepted = [i \in Client |-> << >>] /\ sent = [i \in Client |-> << >>]
    /\ refused = {}

Free(b) == mFreeList' = Append(mFreeList, b)

-----------------------------------------------------------------------------
\* SendMsg up to the lock: a session that has had a connection, a buffer from the
\* pool (with none left the message is refused and nothing changes)
Alloc(t, i) ==
    /\ hand[t] = {} /\ msgs < MaxMsg /\ mGeneration[i] > 0
    /\ mFreeList # << >>
    /\ LET b == mFreeList[Len(mFreeList)] IN
       /\ hand' = [hand EXCEPT ![t] = {[buffer |-> b, client |-> i]}]
       /\ generation' = [generation EXCEPT ![b] = mGeneration[i]]
       /\ content' = [content EXCEPT ![b] = msgs + 1]
    /\ mFreeList' = SubSeq(mFreeList, 1, Len(mFreeList) - 1)
    /\ msgs' = msgs + 1
    /\ UNCHANGED <<mSendDataqueue, sessVars, inFlight, completions, completing, accepted,
                   sent, refused>>

\* WSASend of buffer b: in flight, or refused, because the socket is closed or for
\* a reason of the system's (no buffer space); the result is ignored and b stays at
\* the front of the queue
SendIO(i, b) ==
    \/ /\ open[i]
       /\ inFlight' = inFlight \cup {[buffer |-> b, client |-> i]}
       /\ UNCHANGED refused
    \/ /\ UNCHANGED inFlight
       /\ refused' = IF open[i] THEN refused \cup {i} ELSE refused

\* mutant: every message starts a WSASend of the front
PushSendsAlways(t, x) ==
    /\ mSendDataqueue' = [mSendDataqueue EXCEPT ![x.client] = Append(@, x.buffer)]
    /\ accepted' = [accepted EXCEPT ![x.client] = Append(@, content[x.buffer])]
    /\ SendIO(x.client, x.buffer)
    /\ hand' = [hand EXCEPT ![t] = {}]
    /\ UNCHANGED <<mFreeList, generation, sessVars, completions, completing, msgs,
                   content, sent>>

\* the rest of SendMsg, under mSendLock
Push(t, x) ==
    /\ mSendDataqueue' = [mSendDataqueue EXCEPT ![x.client] = Append(@, x.buffer)]
    /\ accepted' = [accepted EXCEPT ![x.client] = Append(@, content[x.buffer])]
    /\ IF Len(mSendDataqueue'[x.client]) = 1
       THEN SendIO(x.client, x.buffer)
       ELSE UNCHANGED <<inFlight, refused>>
    /\ hand' = [hand EXCEPT ![t] = {}]
    /\ UNCHANGED <<mFreeList, generation, sessVars, completions, completing, msgs,
                   content, sent>>

-----------------------------------------------------------------------------
\* the system has sent a buffer
SendEnds(x) ==
    /\ inFlight' = inFlight \ {x}
    /\ completions' = completions \cup
            {[buffer |-> x.buffer, client |-> x.client, zero |-> FALSE]}
    /\ sent' = [sent EXCEPT ![x.client] = Append(@, content[x.buffer])]
    /\ UNCHANGED <<mFreeList, generation, mSendDataqueue, sessVars, hand, completing,
                   msgs, content, accepted, refused>>

\* the end of a connection: what is in flight completes with no bytes; rest are
\* the other completions
CloseConn(i, rest) ==
    LET cut == {x \in inFlight : x.client = i} IN
    /\ open' = [open EXCEPT ![i] = FALSE]
    /\ inFlight' = inFlight \ cut
    /\ completions' = rest \cup
            {[buffer |-> x.buffer, client |-> i, zero |-> TRUE] : x \in cut}

Close(i) ==
    /\ open[i]
    /\ CloseConn(i, completions)
    /\ UNCHANGED <<mFreeList, generation, mSendDataqueue, mGeneration, conns, hand,
                   completing, msgs, histVars>>

\* a connection for the index; ClientSession::Clear is never called
Connect(i) ==
    /\ ~open[i] /\ conns < MaxConn
    /\ conns' = conns + 1
    /\ open' = [open EXCEPT ![i] = TRUE]
    /\ mGeneration' = [mGeneration EXCEPT ![i] = @ + 1]
    /\ UNCHANGED <<mFreeList, generation, mSendDataqueue, hand, inFlight, completions,
                   completing, msgs, histVars>>

-----------------------------------------------------------------------------
\* WorkerThread on a send completion

\* no bytes: the session is closed, the buffer stays where it is
ZeroBytes(e) ==
    /\ e.zero
    /\ \/ open[e.client] /\ CloseConn(e.client, completions \ {e})
       \/ /\ ~open[e.client]
          /\ completions' = completions \ {e}
          /\ UNCHANGED <<open, inFlight>>
    /\ UNCHANGED <<mFreeList, generation, mSendDataqueue, mGeneration, conns, hand,
                   completing, msgs, histVars>>

\* a buffer stamped by an earlier generation is freed, others go to SendComplete
CheckGeneration(e) ==
    /\ ~e.zero
    /\ completions' = completions \ {e}
    /\ IF generation[e.buffer] # mGeneration[e.client]
       THEN Free(e.buffer) /\ UNCHANGED completing
       ELSE /\ completing' = completing \cup {[buffer |-> e.buffer, client |-> e.client]}
            /\ UNCHANGED mFreeList
    /\ UNCHANGED <<generation, mSendDataqueue, sessVars, hand, inFlight, msgs, histVars>>

\* mutant: the front is popped and not given back to the pool
SendCompleteLeaks(x) ==
    LET i == x.client IN
    /\ completing' = completing \ {x}
    /\ mSendDataqueue' = [mSendDataqueue EXCEPT ![i] = Tail(@)]
    /\ UNCHANGED <<mFreeList, generation, sessVars, hand, inFlight, completions, msgs, histVars>>

\* mutant: nobody hands over the next buffer
SendCompleteStops(x) ==
    LET i == x.client IN
    /\ completing' = completing \ {x}
    /\ Free(Head(mSendDataqueue[i]))
    /\ mSendDataqueue' = [mSendDataqueue EXCEPT ![i] = Tail(@)]
    /\ UNCHANGED <<generation, sessVars, hand, inFlight, completions, msgs, histVars>>

\* free and pop the front, which is taken to be the buffer that was sent, and
\* hand over the next
SendComplete(x) ==
    LET i == x.client IN
    /\ mSendDataqueue[i] # << >>
    /\ completing' = completing \ {x}
    /\ Free(Head(mSendDataqueue[i]))
    /\ mSendDataqueue' = [mSendDataqueue EXCEPT ![i] = Tail(@)]
    /\ IF mSendDataqueue'[i] # << >>
       THEN SendIO(i, Head(mSendDataqueue'[i]))
       ELSE UNCHANGED <<inFlight, refused>>
    /\ UNCHANGED <<generation, sessVars, hand, completions, msgs, content, accepted, sent>>

-----------------------------------------------------------------------------
PushStep     == \E t \in Sender : \E x \in hand[t] : Push(t, x)
EndStep      == \E x \in inFlight : SendEnds(x)
CheckStep    == \E e \in completions : ZeroBytes(e) \/ CheckGeneration(e)
CompleteStep == \E x \in completing : SendComplete(x)

Next ==
    \/ \E t \in Sender, i \in Client : Alloc(t, i)
    \/ \E i \in Client : Close(i) \/ Connect(i)
    \/ PushStep \/ EndStep \/ CheckStep \/ CompleteStep

\* senders and workers keep running, and the system gets rid of what it is given
Fairness == WF_vars(PushStep) /\ WF_vars(EndStep) /\ WF_vars(CheckStep) /\ WF_vars(CompleteStep)

Spec == Init /\ [][Next]_vars /\ Fairness

-----------------------------------------------------------------------------
\* Buffers named by queues, hands and completions are the pool's (ObjectPool.h:34-72).
SendTypeOK ==
    /\ mFreeList \in Seq(Buffer)
    /\ generation \in [Buffer -> Nat]
    /\ mSendDataqueue \in [Client -> Seq(Buffer)]
    /\ open \in [Client -> BOOLEAN] /\ mGeneration \in [Client -> Nat]
    /\ hand \in [Sender -> SUBSET Transfer]
    /\ inFlight \subseteq Transfer /\ completing \subseteq Transfer
    /\ completions \subseteq Completion
    /\ conns \in Nat /\ msgs \in Nat /\ content \in [Buffer -> Nat]
    /\ accepted \in [Client -> Seq(Nat)] /\ sent \in [Client -> Seq(Nat)]
    /\ refused \subseteq Client

\* the sends of a session that are going on: with the system, at the port, with
\* a worker
Going(i) ==
    {<<"system", x.buffer>> : x \in {y \in inFlight : y.client = i}}
    \cup {<<"port", e.buffer>> : e \in {f \in completions : f.client = i /\ ~f.zero}}
    \cup {<<"worker", x.buffer>> : x \in {y \in completing : y.client = i}}

\* However connections end and begin again, a session has at most one send going
\* on, and while it has one its queue is not empty, so that SendComplete finds
\* the front it frees (ClientSession.h:163-167, 301-308; front() of an empty
\* queue is undefined).
OneSendAtATime ==
    \A i \in Client :
        /\ \A p, q \in Going(i) : p = q
        /\ Going(i) # {} => mSendDataqueue[i] # << >>

Occurs(b, s) == {n \in DOMAIN s : s[n] = b}

\* no connection has come to its end yet
NoneEnded == conns = Cardinality({i \in Client : open[i]})

\* how often a buffer is free, in the hands of a thread, or queued by one of sessions S
Places(b, S) ==
    Cardinality(Occurs(b, mFreeList))
      + Cardinality({t \in Sender : \E x \in hand[t] : x.buffer = b})
      + Cardinality(UNION {{<<i, n>> : n \in Occurs(b, mSendDataqueue[i])} : i \in S})

\* However connections end, no buffer has two owners that go on to use it: the
\* pool, the thread that fills it, or a session with a send going on; so no two
\* messages share a buffer and the pool never holds one twice.  As long as no
\* connection ends, none is lost to the pool either (ClientSession.h:133-185,
\* 293-309, IOCP.h:528-540, ObjectPool.h:51-72).
BufferInOnePlace ==
    \A b \in Buffer :
        /\ Places(b, {i \in Client : Going(i) # {}}) <= 1
        /\ NoneEnded => Places(b, Client) = 1

\* As long as no connection ends, the messages of a session go out in the order
\* in which they were queued, each once, with two threads queueing and workers
\* completing at the same time (ClientSession.h:133-185, 293-309).
SentInOrder ==
    NoneEnded =>
      \A i \in Client :
        /\ Len(sent[i]) <= Len(accepted[i])
        /\ \A k \in 1..Len(sent[i]) : sent[i][k] = accepted[i][k]

\* A queued message is eventually sent, unless a WSASend fails on the open socket
\* of its session or some connection ends: one WSASend at a time is enough, because
\* each completion hands over the next buffer.  A refused WSASend stops the queue
\* for good, because nobody looks at its result (ClientSession.h:163-167, 250-254,
\* 305-308).
EventuallySent ==
    \A i \in Client, k \in 1..MaxMsg :
        (Len(accepted[i]) >= k) ~> (Len(sent[i]) >= k \/ i \in refused \/ ~NoneEnded)

-----------------------------------------------------------------------------
Busy(i) == \/ \E x \in inFlight \cup completing : x.client = i
           \/ \E e \in completions : e.client = i

\* ClientSession.h:163, "with one item there is nothing in front, so WSASend at
\* once": what is in front of a message is on its way, so on an open connection
\* a queue that is not empty has a send going on, even when no WSASend has failed on
\* an open socket.  The code does not keep this once a connection has ended with a
\* send in flight.
QueueMoves ==
    \A i \in Client \ refused : open[i] /\ mSendDataqueue[i] # << >> => Busy(i)
=============================================================================
