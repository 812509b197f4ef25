----------------------------- MODULE SendProofs -----------------------------
(***************************************************************************)
(* Sending, for any number of sessions, buffers, threads, messages and     *)
(* connections: one send at a time and no buffer shared, with connections  *)
(* ending at any moment; and, as long as none ends, no buffer lost and the *)
(* messages of a session sent in order.                                    *)
(***************************************************************************)
EXTENDS SendPath, SequenceTheorems, FiniteSetTheorems, TLAPS

\* the part of SendTypeOK that one send at a time needs
ShapeOK ==
    /\ mFreeList \in Seq(Buffer)
    /\ mSendDataqueue \in [Client -> Seq(Buffer)]
    /\ hand \in [Sender -> SUBSET Transfer]
    /\ inFlight \subseteq Transfer /\ completing \subseteq Transfer
    /\ completions \subseteq Completion

-----------------------------------------------------------------------------
\* Transfers and completions are pairs and triples of buffer, session and flag.
LEMMA TransferFields ==
    /\ \A x \in Transfer : x.buffer \in Buffer /\ x.client \in Client
    /\ \A e \in Completion : e.buffer \in Buffer /\ e.client \in Client
    /\ \A b \in Buffer, i \in Client : [buffer |-> b, client |-> i] \in Transfer
    /\ \A b \in Buffer, i \in Client, z \in BOOLEAN :
            [buffer |-> b, client |-> i, zero |-> z] \in Completion
  BY DEF Transfer, Completion

\* Every step of the send path keeps queues and transfers well formed.
LEMMA NextShapeOK ==
    ASSUME ShapeOK, [Next]_vars
    PROVE  ShapeOK'
<1> USE TransferFields DEF ShapeOK
<1>1. ASSUME NEW t \in Sender, NEW i \in Client, Alloc(t, i)
      PROVE  ShapeOK'
  <2>1. mFreeList[Len(mFreeList)] \in Buffer
    BY <1>1 DEF Alloc
  <2>2. mFreeList' \in Seq(Buffer)
    BY <1>1 DEF Alloc
  <2>3. QED
    BY <1>1, <2>1, <2>2 DEF Alloc
<1>2. ASSUME NEW t \in Sender, NEW x \in hand[t], Push(t, x)
      PROVE  ShapeOK'
  <2>1. x \in Transfer
    BY <1>2
  <2>2. inFlight' \subseteq Transfer
    BY <1>2, <2>1 DEF Push, SendIO
  <2>3. QED
    BY <1>2, <2>1, <2>2 DEF Push
<1>3. ASSUME NEW x \in inFlight, SendEnds(x)
      PROVE  ShapeOK'
  <2>1. completions' \subseteq Completion /\ inFlight' \subseteq Transfer
    BY <1>3 DEF SendEnds
  <2>2. QED
    BY <1>3, <2>1 DEF SendEnds
<1>4. ASSUME NEW i \in Client, Close(i)
      PROVE  ShapeOK'
  <2>1. completions' \subseteq Completion /\ inFlight' \subseteq Transfer
    BY <1>4 DEF Close, CloseConn
  <2>2. QED
    BY <1>4, <2>1 DEF Close
<1>5. ASSUME NEW i \in Client, Connect(i)
      PROVE  ShapeOK'
  BY <1>5 DEF Connect
<1>6. ASSUME NEW e \in completions, ZeroBytes(e)
      PROVE  ShapeOK'
  <2>1. completions' \subseteq Completion /\ inFlight' \subseteq Transfer
    BY <1>6, ZenonT(60) DEF ZeroBytes, CloseConn
  <2>2. QED
    BY <1>6, <2>1 DEF ZeroBytes
<1>7. ASSUME NEW e \in completions, CheckGeneration(e)
      PROVE  ShapeOK'
  <2>1. e.buffer \in Buffer /\ e.client \in Client
    BY <1>7
  <2>2. completing' \subseteq Transfer
    BY <1>7, <2>1 DEF CheckGeneration
  <2>3. mFreeList' = Append(mFreeList, e.buffer) \/ mFreeList' = mFreeList
    BY <1>7 DEF CheckGeneration, Free
  <2>4. Append(mFreeList, e.buffer) \in Seq(Buffer)
    BY <2>1
  <2>5. QED
    BY <1>7, <2>2, <2>3, <2>4 DEF CheckGeneration
<1>8. ASSUME NEW x \in completing, SendComplete(x)
      PROVE  ShapeOK'
  <2> DEFINE i == x.client
  <2>1. i \in Client /\ mSendDataqueue[i] \in Seq(Buffer) /\ mSendDataqueue[i] # << >>
    BY <1>8 DEF SendComplete
  <2>2. Head(mSendDataqueue[i]) \in Buffer /\ Tail(mSendDataqueue[i]) \in Seq(Buffer)
    BY <2>1
  <2>3. mSendDataqueue' \in [Client -> Seq(Buffer)] /\ mFreeList' \in Seq(Buffer)
    BY <1>8, <2>1, <2>2 DEF SendComplete, Free
  <2>4. inFlight' \subseteq Transfer
    <3>1. CASE mSendDataqueue'[i] # << >>
      <4>1. Head(mSendDataqueue'[i]) \in Buffer
        BY <3>1, <2>1, <2>3
      <4>2. QED
        BY <1>8, <3>1, <4>1, <2>1 DEF SendComplete, SendIO
    <3>2. CASE mSendDataqueue'[i] = << >>
      BY <1>8, <3>2 DEF SendComplete
    <3>3. QED
      BY <3>1, <3>2
  <2>5. QED
    BY <1>8, <2>3, <2>4 DEF SendComplete
<1>9. CASE UNCHANGED vars
  BY <1>9 DEF vars
<1>10. QED
  BY <1>1, <1>2, <1>3, <1>4, <1>5, <1>6, <1>7, <1>8, <1>9
     DEF Next, PushStep, EndStep, CheckStep, CompleteStep

-----------------------------------------------------------------------------
\* A transfer is told by its buffer and its session, a completion by whether it
\* moved any bytes as well.
LEMMA TransferIdentity ==
    /\ \A x, y \in Transfer : x.buffer = y.buffer /\ x.client = y.client => x = y
    /\ \A e, f \in Completion :
            e.buffer = f.buffer /\ e.client = f.client /\ e.zero = f.zero => e = f
  BY DEF Transfer, Completion

\* What the sends of a session are made of, before a step and after it.
LEMMA InGoing ==
    ASSUME NEW i \in Client
    PROVE  /\ \A p : p \in Going(i) <=>
                \/ \E x \in inFlight : x.client = i /\ p = <<"system", x.buffer>>
                \/ \E e \in completions : e.client = i /\ ~e.zero /\ p = <<"port", e.buffer>>
                \/ \E x \in completing : x.client = i /\ p = <<"worker", x.buffer>>
           /\ \A p : p \in Going(i)' <=>
                \/ \E x \in inFlight' : x.client = i /\ p = <<"system", x.buffer>>
                \/ \E e \in completions' : e.client = i /\ ~e.zero /\ p = <<"port", e.buffer>>
                \/ \E x \in completing' : x.client = i /\ p = <<"worker", x.buffer>>
  BY DEF Going

-----------------------------------------------------------------------------
\* What each operation does to the sends of the sessions

\* Queueing starts a send when the queue was empty (ClientSession.h:160-167).
LEMMA PushGoing ==
    ASSUME ShapeOK, OneSendAtATime, NEW t \in Sender, NEW x \in hand[t], Push(t, x),
           NEW i \in Client, i = x.client
    PROVE  /\ x.buffer \in Buffer
           /\ \A j \in Client : j # i =>
                Going(j)' = Going(j) /\ mSendDataqueue'[j] = mSendDataqueue[j]
           /\ mSendDataqueue'[i] = Append(mSendDataqueue[i], x.buffer)
           /\ mSendDataqueue[i] = << >> =>
                \/ Going(i)' = {<<"system", x.buffer>>} /\ refused' = refused
                \/ Going(i)' = {} /\ refused' = refused \cup {i}
                \/ Going(i)' = {} /\ refused' = refused /\ ~open[i]
           /\ mSendDataqueue[i] # << >> => Going(i)' = Going(i) /\ refused' = refused
<1> USE DEF ShapeOK, OneSendAtATime, Transfer, Completion
<1>1. x \in Transfer
  OBVIOUS
<1>2. \A j \in Client : j # i =>
        Going(j)' = Going(j) /\ mSendDataqueue'[j] = mSendDataqueue[j]
  BY <1>1 DEF Push, SendIO, Going
<1>3. mSendDataqueue'[i] = Append(mSendDataqueue[i], x.buffer)
  BY <1>1 DEF Push
<1>4. Len(mSendDataqueue'[i]) = Len(mSendDataqueue[i]) + 1
  BY <1>1, <1>3
<1>5. ASSUME mSendDataqueue[i] = << >>
      PROVE  \/ Going(i)' = {<<"system", x.buffer>>} /\ refused' = refused
             \/ Going(i)' = {} /\ refused' = refused \cup {i}
             \/ Going(i)' = {} /\ refused' = refused /\ ~open[i]
  <2>1. Going(i) = {}
    BY <1>1, <1>5
  <2>2. Len(mSendDataqueue'[i]) = 1
    BY <1>4, <1>5
  <2>3. completions' = completions /\ completing' = completing
    BY DEF Push
  <2>4. \/ /\ inFlight' = inFlight \cup {[buffer |-> x.buffer, client |-> i]}
           /\ refused' = refused
        \/ inFlight' = inFlight /\ refused' = refused \cup {i}
        \/ inFlight' = inFlight /\ refused' = refused /\ ~open[i]
    BY <2>2 DEF Push, SendIO
  <2>5. CASE inFlight' = inFlight
    BY <2>1, <2>3, <2>4, <2>5 DEF Going
  <2>6. CASE /\ inFlight' = inFlight \cup {[buffer |-> x.buffer, client |-> i]}
             /\ refused' = refused
    BY <1>1, <2>1, <2>3, <2>6 DEF Going
  <2>7. QED
    BY <2>4, <2>5, <2>6
<1>6. ASSUME mSendDataqueue[i] # << >>
      PROVE  Going(i)' = Going(i) /\ refused' = refused
  <2>1. mSendDataqueue[i] \in Seq(Buffer) /\ Len(mSendDataqueue[i]) > 0
    BY <1>1, <1>6
  <2>2. Len(mSendDataqueue'[i]) # 1
    BY <1>4, <2>1
  <2>3. QED
    BY <2>2 DEF Push, Going
<1>7. QED
  BY <1>1, <1>2, <1>3, <1>5, <1>6

\* The end of a send moves it to the port.
LEMMA EndGoing ==
    ASSUME ShapeOK, OneSendAtATime, NEW x \in inFlight, SendEnds(x),
           NEW i \in Client, i = x.client
    PROVE  /\ x.buffer \in Buffer
           /\ \A j \in Client : j # i => Going(j)' = Going(j)
           /\ Going(i) = {<<"system", x.buffer>>}
           /\ Going(i)' = {<<"port", x.buffer>>}
<1> USE DEF ShapeOK, OneSendAtATime, Transfer, Completion
<1>1. x.buffer \in Buffer /\ completing' = completing
  BY DEF SendEnds
<1>2. ASSUME NEW j \in Client, j # i
      PROVE  Going(j)' = Going(j)
  <2>1. \A y \in Transfer : y.client = j => (y \in inFlight' <=> y \in inFlight)
    BY <1>2 DEF SendEnds
  <2>2. \A e \in Completion : e.client = j => (e \in completions' <=> e \in completions)
    BY <1>2 DEF SendEnds
  <2>3. inFlight' \subseteq Transfer /\ completions' \subseteq Completion
    <3>1. [buffer |-> x.buffer, client |-> x.client, zero |-> FALSE] \in Completion
      BY <1>1
    <3>2. completions' =
            completions \cup {[buffer |-> x.buffer, client |-> x.client, zero |-> FALSE]}
      BY DEF SendEnds
    <3>3. inFlight' \subseteq inFlight
      BY DEF SendEnds
    <3> HIDE DEF Completion, Transfer
    <3>4. QED
      BY <3>1, <3>2, <3>3
  <2>4. \A p : p \in Going(j)' <=> p \in Going(j)
    BY <1>1, <2>1, <2>2, <2>3, InGoing, SMTT(40)
  <2>5. QED
    BY <2>4
<1>3. <<"system", x.buffer>> \in Going(i)
  BY DEF Going
<1>4. \A p \in Going(i) : p = <<"system", x.buffer>>
  BY <1>1, <1>3
<1>5. \A p \in Going(i)' : p \in Going(i) \/ p = <<"port", x.buffer>>
  BY DEF SendEnds, Going
<1>6. <<"system", x.buffer>> \notin Going(i)'
  BY <1>1, InGoing, TransferIdentity, SMTT(40) DEF SendEnds
<1>7. <<"port", x.buffer>> \in Going(i)'
  <2>1. [buffer |-> x.buffer, client |-> i, zero |-> FALSE] \in completions'
    BY DEF SendEnds
  <2>2. QED
    BY <1>1, <2>1, InGoing
<1> HIDE DEF ShapeOK, OneSendAtATime, Transfer, Completion
<1>8. Going(i) = {<<"system", x.buffer>>}
  BY <1>3, <1>4
<1>9. Going(i)' = {<<"port", x.buffer>>}
  BY <1>4, <1>5, <1>6, <1>7
<1>10. QED
  BY <1>1, <1>2, <1>8, <1>9

\* The end of a connection starts no send (IOCP.h:477-481).
LEMMA CloseGoing ==
    ASSUME ShapeOK, \/ \E i \in Client : Close(i)
                    \/ \E e \in completions : ZeroBytes(e)
    PROVE  \A j \in Client : Going(j)' \subseteq Going(j)
  BY DEF ShapeOK, Transfer, Completion, Close, ZeroBytes, CloseConn, Going

\* A checked completion goes on to SendComplete, unless it belongs to an earlier
\* generation (IOCP.h:528-540).
LEMMA CheckGoing ==
    ASSUME ShapeOK, OneSendAtATime, NEW e \in completions, CheckGeneration(e),
           NEW i \in Client, i = e.client
    PROVE  /\ e.buffer \in Buffer
           /\ \A j \in Client : j # i => Going(j)' = Going(j)
           /\ Going(i) = {<<"port", e.buffer>>}
           /\ Going(i)' = IF generation[e.buffer] # mGeneration[i]
                                 THEN {} ELSE {<<"worker", e.buffer>>}
<1> USE DEF ShapeOK, OneSendAtATime, Transfer, Completion
<1>1. e.buffer \in Buffer /\ ~e.zero
  BY DEF CheckGeneration
<1>2. ASSUME NEW j \in Client, j # i
      PROVE  Going(j)' = Going(j)
  <2>1. inFlight' = inFlight /\ completions' = completions \ {e}
    BY DEF CheckGeneration
  <2>2. \A x : x.client = j => (x \in completing' <=> x \in completing)
    BY <1>2 DEF CheckGeneration
  <2>3. \A p : p \in Going(j)' <=> p \in Going(j)
    BY <1>2, <2>1, <2>2, InGoing
  <2>4. QED
    BY <2>3
<1>3. <<"port", e.buffer>> \in Going(i)
  BY <1>1 DEF Going
<1>4. \A p \in Going(i) : p = <<"port", e.buffer>>
  BY <1>1, <1>3
<1>5. \A p \in Going(i)' : p \in Going(i) \/ p = <<"worker", e.buffer>>
  BY DEF CheckGeneration, Going
<1>6. <<"port", e.buffer>> \notin Going(i)'
  BY <1>1, InGoing, TransferIdentity DEF CheckGeneration
<1>7. generation[e.buffer] # mGeneration[i] => Going(i)' \subseteq Going(i)
  BY DEF CheckGeneration, Going
<1>8. generation[e.buffer] = mGeneration[i] => <<"worker", e.buffer>> \in Going(i)'
  <2>1. SUFFICES ASSUME generation[e.buffer] = mGeneration[i]
                 PROVE  <<"worker", e.buffer>> \in Going(i)'
    OBVIOUS
  <2>2. [buffer |-> e.buffer, client |-> i] \in completing'
    BY <2>1 DEF CheckGeneration
  <2>3. QED
    BY <1>1, <2>2, InGoing
<1> HIDE DEF ShapeOK, OneSendAtATime, Transfer, Completion
<1>9. Going(i) = {<<"port", e.buffer>>}
  BY <1>3, <1>4
<1>10. CASE generation[e.buffer] # mGeneration[i]
  <2>1. \A p : p \notin Going(i)'
    BY <1>4, <1>6, <1>7, <1>10
  <2>2. Going(i)' = {}
    BY <2>1
  <2>3. QED
    BY <1>1, <1>2, <1>9, <1>10, <2>2
<1>11. CASE generation[e.buffer] = mGeneration[i]
  <2>1. \A p : p \in Going(i)' <=> p = <<"worker", e.buffer>>
    BY <1>4, <1>5, <1>6, <1>8, <1>11
  <2>2. Going(i)' = {<<"worker", e.buffer>>}
    BY <2>1
  <2>3. QED
    BY <1>1, <1>2, <1>9, <1>11, <2>2
<1>12. QED
  BY <1>10, <1>11

\* SendComplete hands over the next buffer, if there is one and the connection is
\* still there (ClientSession.h:301-308).
LEMMA CompleteGoing ==
    ASSUME ShapeOK, OneSendAtATime, NEW x \in completing, SendComplete(x),
           NEW i \in Client, i = x.client
    PROVE  /\ x.buffer \in Buffer
           /\ \A j \in Client : j # i =>
                Going(j)' = Going(j) /\ mSendDataqueue'[j] = mSendDataqueue[j]
           /\ mSendDataqueue[i] # << >>
           /\ mSendDataqueue'[i] = Tail(mSendDataqueue[i])
           /\ Going(i) = {<<"worker", x.buffer>>}
           /\ \/ /\ Going(i)' = {<<"system", Head(mSendDataqueue'[i])>>}
                 /\ refused' = refused /\ mSendDataqueue'[i] # << >>
              \/ /\ Going(i)' = {}
                 /\ refused' = refused \cup {i} /\ mSendDataqueue'[i] # << >>
              \/ /\ Going(i)' = {}
                 /\ refused' = refused /\ (mSendDataqueue'[i] = << >> \/ ~open[i])
<1> USE DEF ShapeOK, OneSendAtATime, Transfer, Completion
<1> DEFINE q == mSendDataqueue'[i]
<1>1. x.buffer \in Buffer
  OBVIOUS
<1>2. \A j \in Client : j # i =>
        Going(j)' = Going(j) /\ mSendDataqueue'[j] = mSendDataqueue[j]
  BY DEF SendComplete, SendIO, Going
<1>3. mSendDataqueue[i] # << >> /\ q = Tail(mSendDataqueue[i])
  BY <1>1 DEF SendComplete
<1>4. <<"worker", x.buffer>> \in Going(i)
  BY DEF Going
<1>5. \A p \in Going(i) : p = <<"worker", x.buffer>>
  BY <1>1, <1>4
<1>6. <<"worker", x.buffer>> \notin Going(i)'
  <2>1. completing' = completing \ {x}
    BY DEF SendComplete
  <2>2. QED
    BY <1>1, <2>1, InGoing, TransferIdentity
<1>7. inFlight' = inFlight => Going(i)' \subseteq Going(i)
  BY DEF SendComplete, Going
<1>8. \/ /\ inFlight' = inFlight \cup {[buffer |-> Head(q), client |-> i]}
         /\ refused' = refused /\ q # << >>
      \/ inFlight' = inFlight /\ refused' = refused \cup {i} /\ q # << >>
      \/ inFlight' = inFlight /\ refused' = refused /\ (q = << >> \/ ~open[i])
  BY DEF SendComplete, SendIO
<1>9. completions' = completions /\ completing' = completing \ {x}
  BY DEF SendComplete
<1> HIDE DEF ShapeOK, OneSendAtATime, Transfer, Completion, q
<1>10. Going(i) = {<<"worker", x.buffer>>}
  BY <1>4, <1>5
<1>11. CASE inFlight' = inFlight
  <2>1. \A p : p \notin Going(i)'
    BY <1>5, <1>6, <1>7, <1>11
  <2>2. Going(i)' = {}
    BY <2>1
  <2>3. \/ refused' = refused \cup {i} /\ q # << >>
        \/ refused' = refused /\ (q = << >> \/ ~open[i])
        \/ /\ inFlight' = inFlight \cup {[buffer |-> Head(q), client |-> i]}
           /\ refused' = refused /\ q # << >>
    BY <1>8
  <2>4. CASE inFlight' = inFlight \cup {[buffer |-> Head(q), client |-> i]}
    <3>1. [buffer |-> Head(q), client |-> i] \in inFlight'
      BY <2>4
    <3>2. <<"system", Head(q)>> \in Going(i)'
      BY <3>1, InGoing
    <3>3. QED
      BY <2>1, <3>2
  <2>5. QED
    BY <1>1, <1>2, <1>3, <1>10, <2>2, <2>3, <2>4 DEF q
<1>12. CASE /\ inFlight' = inFlight \cup {[buffer |-> Head(q), client |-> i]}
            /\ refused' = refused /\ q # << >>
  <2>1. \A p \in Going(i)' : p \in Going(i) \/ p = <<"system", Head(q)>>
    BY <1>9, <1>12, InGoing
  <2>2. <<"system", Head(q)>> \in Going(i)'
    <3>1. [buffer |-> Head(q), client |-> i] \in inFlight'
      BY <1>12
    <3>2. QED
      BY <3>1, InGoing
  <2>3. \A p : p \in Going(i)' <=> p = <<"system", Head(q)>>
    BY <1>5, <1>6, <2>1, <2>2
  <2>4. Going(i)' = {<<"system", Head(q)>>}
    BY <2>3
  <2>5. QED
    BY <1>1, <1>2, <1>3, <1>10, <1>12, <2>4 DEF q
<1>13. QED
  BY <1>8, <1>11, <1>12

-----------------------------------------------------------------------------
\* Every step of the send path keeps a session at one send, with a front to free.
LEMMA NextOneSend ==
    ASSUME ShapeOK, OneSendAtATime, [Next]_vars
    PROVE  OneSendAtATime'
<1>1. ASSUME NEW t \in Sender, NEW i \in Client, Alloc(t, i)
      PROVE  OneSendAtATime'
  BY <1>1 DEF Alloc, Going, OneSendAtATime
<1>2. ASSUME NEW t \in Sender, NEW x \in hand[t], Push(t, x)
      PROVE  OneSendAtATime'
  <2>1. PICK i \in Client : i = x.client
    BY <1>2, TransferFields DEF ShapeOK
  <2>2. mSendDataqueue[i] \in Seq(Buffer) /\ x.buffer \in Buffer
    BY <1>2, <2>1, PushGoing DEF ShapeOK
  <2>3. mSendDataqueue'[i] # << >>
    BY <1>2, <2>1, <2>2, PushGoing
  <2>4. ASSUME NEW j \in Client
        PROVE  /\ \A p, q \in Going(j)' : p = q
               /\ Going(j)' # {} => mSendDataqueue'[j] # << >>
    <3>1. CASE j # i
      BY <1>2, <2>1, <3>1, PushGoing DEF OneSendAtATime
    <3>2. CASE j = i /\ mSendDataqueue[i] = << >>
      <4>1. Going(i)' = {} \/ Going(i)' = {<<"system", x.buffer>>}
        BY <1>2, <2>1, <3>2, PushGoing
      <4>2. QED
        BY <2>3, <3>2, <4>1
    <3>3. CASE j = i /\ mSendDataqueue[i] # << >>
      <4>1. Going(i)' = Going(i)
        BY <1>2, <2>1, <3>3, PushGoing
      <4>2. QED
        BY <2>3, <3>3, <4>1 DEF OneSendAtATime
    <3>4. QED
      BY <3>1, <3>2, <3>3
  <2>5. QED
    BY <2>4 DEF OneSendAtATime
<1>3. ASSUME NEW x \in inFlight, SendEnds(x)
      PROVE  OneSendAtATime'
  <2>1. PICK i \in Client : i = x.client
    BY <1>3, TransferFields DEF ShapeOK
  <2>2. mSendDataqueue' = mSendDataqueue
    BY <1>3 DEF SendEnds
  <2>3. ASSUME NEW j \in Client
        PROVE  /\ \A p, q \in Going(j)' : p = q
               /\ Going(j)' # {} => Going(j) # {}
    <3>1. CASE j = i
      BY <1>3, <2>1, <3>1, EndGoing
    <3>2. CASE j # i
      BY <1>3, <2>1, <3>2, EndGoing DEF OneSendAtATime
    <3>3. QED
      BY <3>1, <3>2
  <2>4. QED
    BY <2>2, <2>3 DEF OneSendAtATime
<1>4. ASSUME (\E i \in Client : Close(i)) \/ (\E e \in completions : ZeroBytes(e))
      PROVE  OneSendAtATime'
  <2>1. mSendDataqueue' = mSendDataqueue
    BY <1>4 DEF Close, ZeroBytes
  <2>2. QED
    <3>1. \A j \in Client : Going(j)' \subseteq Going(j)
      BY <1>4, CloseGoing
    <3>2. QED
      BY <2>1, <3>1 DEF OneSendAtATime
<1>5. ASSUME NEW i \in Client, Connect(i)
      PROVE  OneSendAtATime'
  BY <1>5 DEF Connect, Going, OneSendAtATime
<1>6. ASSUME NEW e \in completions, CheckGeneration(e)
      PROVE  OneSendAtATime'
  <2>1. PICK i \in Client : i = e.client
    BY <1>6, TransferFields DEF ShapeOK
  <2>2. mSendDataqueue' = mSendDataqueue
    BY <1>6 DEF CheckGeneration
  <2>3. ASSUME NEW j \in Client
        PROVE  /\ \A p, q \in Going(j)' : p = q
               /\ Going(j)' # {} => Going(j) # {}
    <3>1. CASE j = i
      BY <1>6, <2>1, <3>1, CheckGoing
    <3>2. CASE j # i
      BY <1>6, <2>1, <3>2, CheckGoing DEF OneSendAtATime
    <3>3. QED
      BY <3>1, <3>2
  <2>4. QED
    BY <2>2, <2>3 DEF OneSendAtATime
<1>7. ASSUME NEW x \in completing, SendComplete(x)
      PROVE  OneSendAtATime'
  <2>1. PICK i \in Client : i = x.client
    BY <1>7, TransferFields DEF ShapeOK
  <2>2. ASSUME NEW j \in Client
        PROVE  /\ \A p, q \in Going(j)' : p = q
               /\ Going(j)' # {} => mSendDataqueue'[j] # << >>
    <3>1. CASE j = i
      BY <1>7, <2>1, <3>1, CompleteGoing
    <3>2. CASE j # i
      BY <1>7, <2>1, <3>2, CompleteGoing DEF OneSendAtATime
    <3>3. QED
      BY <3>1, <3>2
  <2>3. QED
    BY <2>2 DEF OneSendAtATime
<1>8. CASE UNCHANGED vars
  BY <1>8 DEF vars, Going, OneSendAtATime
<1>9. QED
  BY <1>1, <1>2, <1>3, <1>4, <1>5, <1>6, <1>7, <1>8
     DEF Next, PushStep, EndStep, CheckStep, CompleteStep

-----------------------------------------------------------------------------
\* A session never has two sends going on, and SendComplete never asks an empty
\* queue for its front, whatever the order of sends, completions, closes and new
\* connections (ClientSession.h:133-185, 293-309; IOCP.h:477-481, 528-540).
THEOREM OneSendAtATimeHolds == Spec => []OneSendAtATime
<1>1. Init => ShapeOK /\ OneSendAtATime
  BY PoolAssumption DEF Init, ShapeOK, OneSendAtATime, Going, Buffer
<1>2. ShapeOK /\ OneSendAtATime /\ [Next]_vars => (ShapeOK /\ OneSendAtATime)'
  BY NextShapeOK, NextOneSend
<1>3. QED
  BY <1>1, <1>2, PTL DEF Spec

-----------------------------------------------------------------------------
\* Who owns a buffer

\* a session that goes on to use the buffers of its queue, or that keeps them for
\* good because a WSASend of its front was refused
Live(i) == Going(i) # {} \/ i \in refused

\* after a refused WSASend nothing is going on and the queue stays as it is
RefusedStuck ==
    \A i \in Client : i \in refused => Going(i) = {} /\ mSendDataqueue[i] # << >>

\* what is going on is the front of the queue
FrontGoing == \A i \in Client : \A p \in Going(i) : p[2] = Head(mSendDataqueue[i])

\* the pool, the threads and the live sessions own different buffers, each once
PoolApart ==
    /\ \A m, n \in DOMAIN mFreeList : mFreeList[m] = mFreeList[n] => m = n
    /\ \A t \in Sender : \A x \in hand[t] : \A n \in DOMAIN mFreeList : mFreeList[n] # x.buffer
    /\ \A i \in Client : Live(i) =>
         \A m \in DOMAIN mSendDataqueue[i], n \in DOMAIN mFreeList :
            mFreeList[n] # mSendDataqueue[i][m]

HandsApart ==
    /\ \A t \in Sender : \A x, y \in hand[t] : x = y
    /\ \A t, u \in Sender : \A x \in hand[t], y \in hand[u] : x.buffer = y.buffer => t = u
    /\ \A i \in Client : Live(i) =>
         \A t \in Sender : \A x \in hand[t] : \A m \in DOMAIN mSendDataqueue[i] :
            mSendDataqueue[i][m] # x.buffer

QueuesApart ==
    \A i, j \in Client : Live(i) /\ Live(j) =>
      \A m \in DOMAIN mSendDataqueue[i], n \in DOMAIN mSendDataqueue[j] :
        mSendDataqueue[i][m] = mSendDataqueue[j][n] => i = j /\ m = n

OwnersApart == FrontGoing /\ RefusedStuck /\ PoolApart /\ HandsApart /\ QueuesApart

\* A step that moves no buffer and starts no send leaves the owners apart.
LEMMA NothingMoves ==
    ASSUME OwnersApart, mFreeList' = mFreeList, hand' = hand,
           mSendDataqueue' = mSendDataqueue, refused' = refused,
           \A j \in Client : \A p \in Going(j)' : \E q \in Going(j) : q[2] = p[2]
    PROVE  OwnersApart'
<1>1. \A j \in Client : Live(j)' => Live(j)
  BY DEF Live
<1>2. FrontGoing' /\ RefusedStuck'
  BY DEF OwnersApart, FrontGoing, RefusedStuck
<1>3. PoolApart' /\ HandsApart' /\ QueuesApart'
  BY <1>1 DEF OwnersApart, PoolApart, HandsApart, QueuesApart
<1>4. QED
  BY <1>2, <1>3 DEF OwnersApart

\* The buffer a thread gets from the pool is its own (ObjectPool.h:51-61).
LEMMA AllocApart ==
    ASSUME ShapeOK, OwnersApart, NEW t \in Sender, NEW i \in Client, Alloc(t, i)
    PROVE  OwnersApart'
<1> DEFINE n == Len(mFreeList)
           b == mFreeList[n]
<1>1. /\ mFreeList \in Seq(Buffer) /\ n \in Nat /\ n > 0
      /\ hand \in [Sender -> SUBSET Transfer]
  BY DEF ShapeOK, Alloc
<1>2. /\ DOMAIN mFreeList = 1..n /\ DOMAIN mFreeList' = 1..(n - 1)
      /\ \A k \in 1..(n - 1) : mFreeList'[k] = mFreeList[k]
  BY <1>1 DEF Alloc
<1>3. /\ hand[t] = {} /\ hand'[t] = {[buffer |-> b, client |-> i]}
      /\ \A u \in Sender : u # t => hand'[u] = hand[u]
  BY <1>1 DEF Alloc
<1>4. /\ mSendDataqueue' = mSendDataqueue /\ refused' = refused
      /\ \A j \in Client : Going(j)' = Going(j)
  BY DEF Alloc, Going
<1>5. \A j \in Client : Live(j)' <=> Live(j)
  BY <1>4 DEF Live
<1>6. \A k \in 1..(n - 1) : k \in DOMAIN mFreeList /\ mFreeList[k] # b
  BY <1>1, <1>2 DEF OwnersApart, PoolApart
<1>7. \A u \in Sender : u # t => \A x \in hand[u] : x.buffer # b
  BY <1>1, <1>2 DEF OwnersApart, PoolApart
<1>8. \A j \in Client : Live(j) =>
        \A m \in DOMAIN mSendDataqueue[j] : mSendDataqueue[j][m] # b
  BY <1>1, <1>2 DEF OwnersApart, PoolApart
<1> HIDE DEF n, b
<1>9. FrontGoing' /\ RefusedStuck' /\ QueuesApart'
  BY <1>4, <1>5 DEF OwnersApart, FrontGoing, RefusedStuck, QueuesApart
<1>10. PoolApart'
  <2>1. \A j, k \in DOMAIN mFreeList' : mFreeList'[j] = mFreeList'[k] => j = k
    BY <1>2, <1>6 DEF OwnersApart, PoolApart
  <2>2. \A u \in Sender : \A x \in hand'[u] : \A k \in DOMAIN mFreeList' :
           mFreeList'[k] # x.buffer
    BY <1>2, <1>3, <1>6 DEF OwnersApart, PoolApart
  <2>3. \A j \in Client : Live(j)' =>
          \A m \in DOMAIN mSendDataqueue'[j], k \in DOMAIN mFreeList' :
             mFreeList'[k] # mSendDataqueue'[j][m]
    BY <1>2, <1>4, <1>5, <1>6 DEF OwnersApart, PoolApart
  <2>4. QED
    BY <2>1, <2>2, <2>3 DEF PoolApart
<1>11. HandsApart'
  <2>1. \A u \in Sender : \A x, y \in hand'[u] : x = y
    BY <1>3 DEF OwnersApart, HandsApart
  <2>2. \A u, v \in Sender : \A x \in hand'[u], y \in hand'[v] : x.buffer = y.buffer => u = v
    BY <1>3, <1>7 DEF OwnersApart, HandsApart
  <2>3. \A j \in Client : Live(j)' =>
          \A u \in Sender : \A x \in hand'[u] : \A m \in DOMAIN mSendDataqueue'[j] :
             mSendDataqueue'[j][m] # x.buffer
    BY <1>3, <1>4, <1>5, <1>8 DEF OwnersApart, HandsApart
  <2>4. QED
    BY <2>1, <2>2, <2>3 DEF HandsApart
<1>12. QED
  BY <1>9, <1>10, <1>11 DEF OwnersApart

\* Queueing hands the buffer of the thread to the session (ClientSession.h:160-167).
LEMMA PushApart ==
    ASSUME ShapeOK, OneSendAtATime, OwnersApart,
           NEW t \in Sender, NEW x \in hand[t], Push(t, x)
    PROVE  OwnersApart'
<1>1. PICK i \in Client : i = x.client
  BY TransferFields DEF ShapeOK
<1>2. PICK b \in Buffer : b = x.buffer
  BY TransferFields DEF ShapeOK
<1>3. PICK q \in Seq(Buffer) : q = mSendDataqueue[i]
  BY DEF ShapeOK
<1>4. /\ mFreeList' = mFreeList
      /\ hand'[t] = {} /\ \A u \in Sender : u # t => hand'[u] = hand[u]
  BY DEF Push, ShapeOK
<1>5. \A j \in Client : j # i => Going(j)' = Going(j) /\ mSendDataqueue'[j] = mSendDataqueue[j]
  BY <1>1, PushGoing
<1>6. mSendDataqueue'[i] = Append(q, b)
  BY <1>1, <1>2, <1>3, PushGoing
<1>7. /\ Append(q, b) \in Seq(Buffer)
      /\ DOMAIN q = 1..Len(q) /\ DOMAIN Append(q, b) = 1..(Len(q) + 1) /\ Len(q) \in Nat
      /\ Append(q, b)[Len(q) + 1] = b
      /\ \A k \in 1..Len(q) : Append(q, b)[k] = q[k]
  OBVIOUS
<1>8. /\ q = << >> => \A p \in Going(i)' : p = <<"system", b>>
      /\ q # << >> => Going(i)' = Going(i) /\ refused' = refused
      /\ refused' \subseteq refused \cup {i} /\ refused \subseteq refused'
      /\ q = << >> /\ i \in refused' => i \in refused \/ Going(i)' = {}
  <2>1. q # << >> => Going(i)' = Going(i) /\ refused' = refused
    BY <1>1, <1>3, PushGoing
  <2>2. q = << >> =>
          \/ Going(i)' = {<<"system", x.buffer>>} /\ refused' = refused
          \/ Going(i)' = {} /\ refused' = refused \cup {i}
          \/ Going(i)' = {} /\ refused' = refused /\ ~open[i]
    BY <1>1, <1>3, PushGoing
  <2>3. QED
    BY <1>2, <2>1, <2>2
<1>9. /\ \A j \in Client : j # i => (Live(j)' <=> Live(j))
      /\ Live(i)' => Live(i) \/ q = << >>
  BY <1>5, <1>8 DEF Live
<1>stuck. RefusedStuck'
  <2>1. ASSUME NEW j \in Client, j \in refused'
        PROVE  Going(j)' = {} /\ mSendDataqueue'[j] # << >>
    <3>1. CASE j # i
      BY <1>5, <1>8, <2>1, <3>1 DEF OwnersApart, RefusedStuck
    <3>2. CASE j = i
      <4>1. mSendDataqueue'[i] # << >>
        BY <1>6, <1>7
      <4>2. i \in refused => Going(i) = {} /\ q # << >>
        BY <1>3 DEF OwnersApart, RefusedStuck
      <4>3. QED
        BY <1>8, <2>1, <3>2, <4>1, <4>2
    <3>3. QED
      BY <3>1, <3>2
  <2>2. QED
    BY <2>1 DEF RefusedStuck
<1>10. FrontGoing'
  <2>1. ASSUME NEW j \in Client, NEW p \in Going(j)'
        PROVE  p[2] = Head(mSendDataqueue'[j])
    <3>1. CASE j # i
      BY <1>5, <2>1, <3>1 DEF OwnersApart, FrontGoing
    <3>2. CASE j = i /\ q = << >>
      <4>1. Head(mSendDataqueue'[i]) = b
        BY <1>6, <3>2
      <4>2. QED
        BY <1>8, <2>1, <3>2, <4>1
    <3>3. CASE j = i /\ q # << >>
      <4>1. Head(mSendDataqueue'[i]) = Head(q)
        BY <1>6, <1>7, <3>3
      <4>2. QED
        BY <1>3, <1>8, <2>1, <3>3, <4>1 DEF OwnersApart, FrontGoing
    <3>4. QED
      BY <3>1, <3>2, <3>3
  <2>2. QED
    BY <2>1 DEF FrontGoing
<1>11. ASSUME NEW m \in DOMAIN Append(q, b)
       PROVE  (m \in DOMAIN q /\ Append(q, b)[m] = q[m]) \/ (m = Len(q) + 1 /\ Append(q, b)[m] = b)
  BY <1>7, <1>11
<1>12. ASSUME Live(i)', NEW m \in DOMAIN q
       PROVE  Live(i) /\ m \in DOMAIN mSendDataqueue[i] /\ mSendDataqueue[i][m] = q[m]
  BY <1>3, <1>9, <1>12
<1>13. PoolApart'
  <2>1. \A n \in DOMAIN mFreeList : mFreeList[n] # b
    BY <1>2 DEF OwnersApart, PoolApart
  <2>2. \A u \in Sender : \A y \in hand'[u] : \A n \in DOMAIN mFreeList' : mFreeList'[n] # y.buffer
    BY <1>4 DEF OwnersApart, PoolApart
  <2>3. ASSUME NEW j \in Client, Live(j)',
               NEW m \in DOMAIN mSendDataqueue'[j], NEW n \in DOMAIN mFreeList'
        PROVE  mFreeList'[n] # mSendDataqueue'[j][m]
    <3>1. CASE j # i
      BY <1>4, <1>5, <1>9, <2>3, <3>1 DEF OwnersApart, PoolApart
    <3>2. CASE j = i
      BY <1>4, <1>6, <1>11, <1>12, <2>1, <2>3, <3>2 DEF OwnersApart, PoolApart
    <3>3. QED
      BY <3>1, <3>2
  <2>4. QED
    BY <1>4, <2>2, <2>3 DEF OwnersApart, PoolApart
<1>14. HandsApart'
  <2>1. \A u \in Sender : u # t => \A y \in hand[u] : y.buffer # b
    BY <1>2 DEF OwnersApart, HandsApart
  <2>2. /\ \A u \in Sender : \A y, z \in hand'[u] : y = z
        /\ \A u, v \in Sender : \A y \in hand'[u], z \in hand'[v] : y.buffer = z.buffer => u = v
    BY <1>4 DEF OwnersApart, HandsApart
  <2>3. ASSUME NEW j \in Client, Live(j)', NEW u \in Sender, NEW y \in hand'[u],
               NEW m \in DOMAIN mSendDataqueue'[j]
        PROVE  mSendDataqueue'[j][m] # y.buffer
    <3>1. u # t /\ y \in hand[u]
      BY <1>4, <2>3
    <3>2. CASE j # i
      BY <1>5, <1>9, <2>3, <3>1, <3>2 DEF OwnersApart, HandsApart
    <3>3. CASE j = i
      BY <1>6, <1>11, <1>12, <2>1, <2>3, <3>1, <3>3 DEF OwnersApart, HandsApart
    <3>4. QED
      BY <3>2, <3>3
  <2>4. QED
    BY <2>2, <2>3 DEF HandsApart
<1>15. QueuesApart'
  <2>1. ASSUME NEW j \in Client, Live(j), NEW m \in DOMAIN mSendDataqueue[j]
        PROVE  mSendDataqueue[j][m] # b
    BY <1>2, <2>1 DEF OwnersApart, HandsApart
  <2>2. ASSUME NEW j \in Client, j # i, Live(j)', Live(i)',
               NEW m \in DOMAIN mSendDataqueue'[j], NEW n \in DOMAIN mSendDataqueue'[i]
        PROVE  mSendDataqueue'[j][m] # mSendDataqueue'[i][n]
    <3>1. Live(j) /\ m \in DOMAIN mSendDataqueue[j] /\ mSendDataqueue'[j][m] = mSendDataqueue[j][m]
      BY <1>5, <1>9, <2>2
    <3>2. CASE n \in DOMAIN q /\ mSendDataqueue'[i][n] = q[n]
      BY <1>12, <2>2, <3>1, <3>2 DEF OwnersApart, QueuesApart
    <3>3. CASE mSendDataqueue'[i][n] = b
      BY <2>1, <3>1, <3>3
    <3>4. QED
      BY <1>6, <1>11, <2>2, <3>2, <3>3
  <2>3. ASSUME Live(i)', NEW m \in DOMAIN mSendDataqueue'[i], NEW n \in DOMAIN mSendDataqueue'[i],
               mSendDataqueue'[i][m] = mSendDataqueue'[i][n]
        PROVE  m = n
    <3>1. \A k \in DOMAIN q : q[k] # b
      BY <1>12, <2>1, <2>3
    <3>2. \A k, l \in DOMAIN q : q[k] = q[l] => k = l
      BY <1>12, <2>3 DEF OwnersApart, QueuesApart
    <3>3. QED
      BY <1>6, <1>11, <2>3, <3>1, <3>2
  <2>4. ASSUME NEW j \in Client, NEW k \in Client, j # i, k # i, Live(j)', Live(k)',
               NEW m \in DOMAIN mSendDataqueue'[j], NEW n \in DOMAIN mSendDataqueue'[k],
               mSendDataqueue'[j][m] = mSendDataqueue'[k][n]
        PROVE  j = k /\ m = n
    BY <1>5, <1>9, <2>4 DEF OwnersApart, QueuesApart
  <2>5. QED
    BY <2>2, <2>3, <2>4 DEF QueuesApart
<1>16. QED
  BY <1>stuck, <1>10, <1>13, <1>14, <1>15 DEF OwnersApart


\* A session that loses its front to the pool: a completion of an earlier
\* generation frees it and nobody goes on with the queue (IOCP.h:530-535), or
\* SendComplete pops it (ClientSession.h:301-303).
LEMMA FrontFreed ==
    ASSUME ShapeOK, OwnersApart, NEW i \in Client, NEW b \in Buffer, NEW r \in Seq(Buffer),
           Live(i), mSendDataqueue[i] # << >>, b = Head(mSendDataqueue[i]),
           mFreeList' = Append(mFreeList, b), hand' = hand,
           \A j \in Client : j # i =>
                Going(j)' = Going(j) /\ mSendDataqueue'[j] = mSendDataqueue[j],
           mSendDataqueue'[i] = r,
           \A j : j # i => (j \in refused' <=> j \in refused),
           i \in refused' => Going(i)' = {} /\ r # << >>,
           Live(i)' => r = Tail(mSendDataqueue[i]) /\ \A p \in Going(i)' : p[2] = Head(r)
    PROVE  OwnersApart'
<1>1. PICK q \in Seq(Buffer) : q = mSendDataqueue[i]
  BY DEF ShapeOK
<1>2. PICK f \in Seq(Buffer) : f = mFreeList
  BY DEF ShapeOK
<1>3. /\ DOMAIN q = 1..Len(q) /\ Len(q) \in Nat /\ Len(q) > 0 /\ b = q[1]
      /\ Tail(q) \in Seq(Buffer) /\ DOMAIN Tail(q) = 1..(Len(q) - 1)
      /\ \A k \in 1..(Len(q) - 1) : Tail(q)[k] = q[k + 1]
  BY <1>1
<1>4. /\ DOMAIN f = 1..Len(f) /\ DOMAIN Append(f, b) = 1..(Len(f) + 1) /\ Len(f) \in Nat
      /\ Append(f, b)[Len(f) + 1] = b
      /\ \A k \in 1..Len(f) : Append(f, b)[k] = f[k]
  OBVIOUS
<1>5. \A j \in Client : j # i => (Live(j)' <=> Live(j))
  BY DEF Live
<1>6. ASSUME Live(i)', NEW m \in DOMAIN mSendDataqueue'[i]
      PROVE  /\ m + 1 \in DOMAIN mSendDataqueue[i] /\ m + 1 # 1
             /\ mSendDataqueue'[i][m] = mSendDataqueue[i][m + 1]
  <2>1. mSendDataqueue'[i] = Tail(q) /\ m \in 1..(Len(q) - 1)
    BY <1>1, <1>3, <1>6
  <2>2. QED
    BY <1>1, <1>3, <2>1
<1>7. ASSUME NEW m \in DOMAIN mFreeList'
      PROVE  \/ m \in DOMAIN mFreeList /\ mFreeList'[m] = mFreeList[m]
             \/ m = Len(f) + 1 /\ mFreeList'[m] = b
  BY <1>2, <1>4, <1>7
<1>8. 1 \in DOMAIN mSendDataqueue[i] /\ mSendDataqueue[i][1] = b
  BY <1>1, <1>3
<1>9. \A n \in DOMAIN mFreeList : mFreeList[n] # b
  BY <1>8 DEF OwnersApart, PoolApart
<1>10. \A t \in Sender : \A x \in hand[t] : x.buffer # b
  BY <1>8 DEF OwnersApart, HandsApart
<1>11. \A j \in Client : j # i /\ Live(j) =>
         \A m \in DOMAIN mSendDataqueue[j] : mSendDataqueue[j][m] # b
  BY <1>8 DEF OwnersApart, QueuesApart
<1>12. \A m \in DOMAIN mSendDataqueue[i] : m # 1 => mSendDataqueue[i][m] # b
  BY <1>8 DEF OwnersApart, QueuesApart
<1>stuck. RefusedStuck'
  <2>1. ASSUME NEW j \in Client, j \in refused'
        PROVE  Going(j)' = {} /\ mSendDataqueue'[j] # << >>
    <3>1. CASE j # i
      BY <2>1, <3>1 DEF OwnersApart, RefusedStuck
    <3>2. CASE j = i
      BY <2>1, <3>2
    <3>3. QED
      BY <3>1, <3>2
  <2>2. QED
    BY <2>1 DEF RefusedStuck
<1>13. FrontGoing'
  <2>1. ASSUME NEW j \in Client, NEW p \in Going(j)'
        PROVE  p[2] = Head(mSendDataqueue'[j])
    <3>1. CASE j # i
      BY <2>1, <3>1 DEF OwnersApart, FrontGoing
    <3>2. CASE j = i
      BY <2>1, <3>2 DEF Live
    <3>3. QED
      BY <3>1, <3>2
  <2>2. QED
    BY <2>1 DEF FrontGoing
<1>14. PoolApart'
  <2>1. \A m, n \in DOMAIN mFreeList' : mFreeList'[m] = mFreeList'[n] => m = n
    BY <1>7, <1>9 DEF OwnersApart, PoolApart
  <2>2. \A t \in Sender : \A x \in hand'[t] : \A n \in DOMAIN mFreeList' : mFreeList'[n] # x.buffer
    BY <1>7, <1>10 DEF OwnersApart, PoolApart
  <2>3. ASSUME NEW j \in Client, Live(j)',
               NEW m \in DOMAIN mSendDataqueue'[j], NEW n \in DOMAIN mFreeList'
        PROVE  mFreeList'[n] # mSendDataqueue'[j][m]
    <3>1. CASE j # i
      <4>1. Live(j) /\ m \in DOMAIN mSendDataqueue[j] /\ mSendDataqueue'[j][m] = mSendDataqueue[j][m]
        BY <1>5, <2>3, <3>1
      <4>2. mSendDataqueue[j][m] # b
        BY <1>11, <3>1, <4>1
      <4>3. QED
        BY <1>7, <4>1, <4>2 DEF OwnersApart, PoolApart
    <3>2. CASE j = i
      <4>1. /\ m + 1 \in DOMAIN mSendDataqueue[i] /\ m + 1 # 1
            /\ mSendDataqueue'[i][m] = mSendDataqueue[i][m + 1]
        BY <1>6, <2>3, <3>2
      <4>2. QED
        BY <1>7, <1>12, <2>3, <3>2, <4>1 DEF OwnersApart, PoolApart
    <3>3. QED
      BY <3>1, <3>2
  <2>4. QED
    BY <2>1, <2>2, <2>3 DEF PoolApart
<1>15. HandsApart'
  <2>1. ASSUME NEW j \in Client, Live(j)', NEW t \in Sender, NEW x \in hand[t],
               NEW m \in DOMAIN mSendDataqueue'[j]
        PROVE  mSendDataqueue'[j][m] # x.buffer
    <3>1. CASE j # i
      BY <1>5, <2>1, <3>1, SMTT(40) DEF OwnersApart, HandsApart
    <3>2. CASE j = i
      BY <1>6, <2>1, <3>2 DEF OwnersApart, HandsApart
    <3>3. QED
      BY <3>1, <3>2
  <2>2. QED
    BY <2>1 DEF OwnersApart, HandsApart
<1>16. QueuesApart'
  <2>1. ASSUME NEW j \in Client, j # i, Live(j)', Live(i)',
               NEW m \in DOMAIN mSendDataqueue'[j], NEW n \in DOMAIN mSendDataqueue'[i]
        PROVE  mSendDataqueue'[j][m] # mSendDataqueue'[i][n]
    <3>1. Live(j) /\ m \in DOMAIN mSendDataqueue[j] /\ mSendDataqueue'[j][m] = mSendDataqueue[j][m]
      BY <1>5, <2>1
    <3>2. n + 1 \in DOMAIN mSendDataqueue[i] /\ mSendDataqueue'[i][n] = mSendDataqueue[i][n + 1]
      BY <1>6, <2>1
    <3>3. QED
      BY <2>1, <3>1, <3>2 DEF OwnersApart, QueuesApart
  <2>2. ASSUME Live(i)', NEW m \in DOMAIN mSendDataqueue'[i], NEW n \in DOMAIN mSendDataqueue'[i],
               mSendDataqueue'[i][m] = mSendDataqueue'[i][n]
        PROVE  m = n
    <3>1. m + 1 = n + 1
      BY <1>6, <2>2 DEF OwnersApart, QueuesApart
    <3>2. m \in Int /\ n \in Int
      BY <1>1, <1>3, <2>2
    <3>3. QED
      BY <3>1, <3>2
  <2>3. ASSUME NEW j \in Client, NEW k \in Client, j # i, k # i, Live(j)', Live(k)',
               NEW m \in DOMAIN mSendDataqueue'[j], NEW n \in DOMAIN mSendDataqueue'[k],
               mSendDataqueue'[j][m] = mSendDataqueue'[k][n]
        PROVE  j = k /\ m = n
    BY <1>5, <2>3, SMTT(40) DEF OwnersApart, QueuesApart
  <2>4. QED
    BY <2>1, <2>2, <2>3 DEF QueuesApart
<1>17. QED
  BY <1>stuck, <1>13, <1>14, <1>15, <1>16 DEF OwnersApart

\* Every step keeps pool, threads and live sessions apart.
LEMMA NextOwnersApart ==
    ASSUME ShapeOK, OneSendAtATime, OwnersApart, [Next]_vars
    PROVE  OwnersApart'
<1>1. ASSUME NEW t \in Sender, NEW i \in Client, Alloc(t, i)
      PROVE  OwnersApart'
  BY <1>1, AllocApart
<1>2. ASSUME NEW t \in Sender, NEW x \in hand[t], Push(t, x)
      PROVE  OwnersApart'
  BY <1>2, PushApart
<1>3. ASSUME NEW x \in inFlight, SendEnds(x)
      PROVE  OwnersApart'
  <2>1. PICK i \in Client : i = x.client
    BY <1>3, TransferFields DEF ShapeOK
  <2>2. mFreeList' = mFreeList /\ hand' = hand /\ mSendDataqueue' = mSendDataqueue
        /\ refused' = refused
    BY <1>3 DEF SendEnds
  <2>3. /\ \A j \in Client : j # i => Going(j)' = Going(j)
        /\ Going(i) = {<<"system", x.buffer>>} /\ Going(i)' = {<<"port", x.buffer>>}
    BY <1>3, <2>1, EndGoing
  <2>4. \A j \in Client : \A p \in Going(j)' : \E q \in Going(j) : q[2] = p[2]
    <3>1. \A p \in Going(i)' : p[2] = x.buffer
      BY <2>3
    <3>2. \E q \in Going(i) : q[2] = x.buffer
      BY <2>3
    <3>3. QED
      BY <2>3, <3>1, <3>2
  <2>5. QED
    BY <2>2, <2>4, NothingMoves
<1>4. ASSUME (\E i \in Client : Close(i)) \/ (\E e \in completions : ZeroBytes(e))
      PROVE  OwnersApart'
  <2>1. mFreeList' = mFreeList /\ hand' = hand /\ mSendDataqueue' = mSendDataqueue
        /\ refused' = refused
    BY <1>4 DEF Close, ZeroBytes, histVars
  <2>2. \A j \in Client : Going(j)' \subseteq Going(j)
    BY <1>4, CloseGoing
  <2>3. QED
    BY <2>1, <2>2, NothingMoves
<1>5. ASSUME NEW i \in Client, Connect(i)
      PROVE  OwnersApart'
  <2>1. mFreeList' = mFreeList /\ hand' = hand /\ mSendDataqueue' = mSendDataqueue
        /\ refused' = refused
    BY <1>5 DEF Connect, histVars
  <2>2. \A j \in Client : Going(j)' = Going(j)
    BY <1>5 DEF Connect, Going
  <2>3. QED
    BY <2>1, <2>2, NothingMoves
<1>6. ASSUME NEW e \in completions, CheckGeneration(e)
      PROVE  OwnersApart'
  <2>1. PICK i \in Client : i = e.client
    BY <1>6, TransferFields DEF ShapeOK
  <2>2. hand' = hand /\ mSendDataqueue' = mSendDataqueue /\ refused' = refused
    BY <1>6 DEF CheckGeneration, histVars
  <2>3. /\ e.buffer \in Buffer
        /\ \A j \in Client : j # i => Going(j)' = Going(j)
        /\ Going(i) = {<<"port", e.buffer>>}
    BY <1>6, <2>1, CheckGoing
  <2>4. CASE generation[e.buffer] # mGeneration[i]
    <3>1. mFreeList' = Append(mFreeList, e.buffer)
      BY <1>6, <2>1, <2>4 DEF CheckGeneration, Free
    <3>2. Live(i) /\ mSendDataqueue[i] # << >>
      BY <2>3 DEF Live, OneSendAtATime
    <3>3. ~Live(i)'
      <4>1. Going(i)' = {}
        BY <1>6, <2>1, <2>4, CheckGoing
      <4>2. i \notin refused'
        BY <2>2, <2>3 DEF OwnersApart, RefusedStuck
      <4>3. QED
        BY <4>1, <4>2 DEF Live
    <3>4. e.buffer = Head(mSendDataqueue[i])
      BY <2>3 DEF OwnersApart, FrontGoing
    <3>5. mSendDataqueue'[i] \in Seq(Buffer)
      BY <2>2 DEF ShapeOK
    <3>6. i \notin refused'
      BY <3>3 DEF Live
    <3>7. QED
      BY <2>2, <2>3, <3>1, <3>2, <3>3, <3>4, <3>5, <3>6, FrontFreed
  <2>5. CASE generation[e.buffer] = mGeneration[i]
    <3>1. mFreeList' = mFreeList
      BY <1>6, <2>1, <2>5 DEF CheckGeneration
    <3>2. Going(i)' = {<<"worker", e.buffer>>}
      BY <1>6, <2>1, <2>5, CheckGoing
    <3>3. \A j \in Client : \A p \in Going(j)' : \E q \in Going(j) : q[2] = p[2]
      <4>1. \A p \in Going(i)' : p[2] = e.buffer
        BY <3>2
      <4>2. \E q \in Going(i) : q[2] = e.buffer
        BY <2>3
      <4>3. QED
        BY <2>3, <4>1, <4>2
    <3>4. QED
      BY <2>2, <3>1, <3>3, NothingMoves
  <2>6. QED
    BY <2>4, <2>5
<1>7. ASSUME NEW x \in completing, SendComplete(x)
      PROVE  OwnersApart'
  <2>1. PICK i \in Client : i = x.client
    BY <1>7, TransferFields DEF ShapeOK
  <2>2. PICK q \in Seq(Buffer) : q = mSendDataqueue[i]
    BY DEF ShapeOK
  <2>3. /\ \A j \in Client : j # i =>
             Going(j)' = Going(j) /\ mSendDataqueue'[j] = mSendDataqueue[j]
        /\ q # << >> /\ mSendDataqueue'[i] = Tail(q)
        /\ Going(i) = {<<"worker", x.buffer>>}
    BY <1>7, <2>1, <2>2, CompleteGoing
  <2>4. /\ \A p \in Going(i)' : p[2] = Head(Tail(q))
        /\ \A j : j # i => (j \in refused' <=> j \in refused)
        /\ i \in refused' => Going(i)' = {} /\ Tail(q) # << >>
    <3>1. \/ /\ Going(i)' = {<<"system", Head(mSendDataqueue'[i])>>}
             /\ refused' = refused /\ mSendDataqueue'[i] # << >>
          \/ /\ Going(i)' = {}
             /\ refused' = refused \cup {i} /\ mSendDataqueue'[i] # << >>
          \/ /\ Going(i)' = {}
             /\ refused' = refused /\ (mSendDataqueue'[i] = << >> \/ ~open[i])
      BY <1>7, <2>1, CompleteGoing
    <3>2. i \notin refused
      BY <2>3 DEF OwnersApart, RefusedStuck
    <3>3. QED
      BY <2>3, <3>1, <3>2
  <2>5. mFreeList' = Append(mFreeList, Head(q)) /\ hand' = hand
    BY <1>7, <2>1, <2>2 DEF SendComplete, Free
  <2>6. Live(i)
    BY <2>3 DEF Live
  <2>7. Head(q) \in Buffer /\ Tail(q) \in Seq(Buffer)
    BY <2>3
  <2>8. QED
    BY <2>2, <2>3, <2>4, <2>5, <2>6, <2>7, FrontFreed
<1>8. CASE UNCHANGED vars
  <2>1. refused' = refused /\ \A j \in Client : Going(j)' = Going(j)
    BY <1>8 DEF vars, histVars, Going
  <2>2. QED
    BY <1>8, <2>1, NothingMoves DEF vars
<1>9. QED
  BY <1>1, <1>2, <1>3, <1>4, <1>5, <1>6, <1>7, <1>8
     DEF Next, PushStep, EndStep, CheckStep, CompleteStep

-----------------------------------------------------------------------------
\* As long as no connection ends

Opened == {i \in Client : open[i]}

\* the front of the queue has been sent and is not popped yet
FrontSent(i) == \E p \in Going(i) : p[1] # "system"

\* nobody has been cut off: whatever is queued is on its way on an open connection
Uncut ==
    /\ \A i \in Client : mGeneration[i] = (IF open[i] THEN 1 ELSE 0)
    /\ \A e \in completions : ~e.zero
    /\ \A t \in Sender : \A x \in hand[t] : open[x.client] /\ generation[x.buffer] = 1
    /\ \A i \in Client : mSendDataqueue[i] # << >> => open[i] /\ Live(i)
    /\ \A i \in Client : \A n \in DOMAIN mSendDataqueue[i] : generation[mSendDataqueue[i][n]] = 1

\* every buffer has an owner
NoneLost ==
    \A b \in Buffer :
      \/ \E n \in DOMAIN mFreeList : mFreeList[n] = b
      \/ \E t \in Sender : \E x \in hand[t] : x.buffer = b
      \/ \E i \in Client : \E n \in DOMAIN mSendDataqueue[i] : mSendDataqueue[i][n] = b

\* a queue q of buffers with contents c holds the messages of a that are not popped
\* yet, in order, and s, what has been sent, are the popped ones and, when f, the front
Ordered(a, q, s, c, f) ==
    LET popped == Len(a) - Len(q) IN
    /\ popped >= 0 /\ (f => q # << >>)
    /\ Len(s) = popped + (IF f THEN 1 ELSE 0)
    /\ \A n \in DOMAIN q : a[popped + n] = c[q[n]]
    /\ \A k \in 1..Len(s) : s[k] = a[k]

InOrder(i) == Ordered(accepted[i], mSendDataqueue[i], sent[i], content, FrontSent(i))

Flow == Uncut /\ NoneLost /\ \A i \in Client : InOrder(i)

UncutInv ==
    /\ conns >= Cardinality(Opened)
    /\ NoneEnded => Flow

-----------------------------------------------------------------------------
\* The order of messages through a queue

\* A message is queued (ClientSession.h:160-161).
LEMMA OrderedPush ==
    ASSUME NEW a \in Seq(Nat), NEW q \in Seq(Buffer), NEW s \in Seq(Nat),
           NEW c \in [Buffer -> Nat], NEW f \in BOOLEAN, NEW b \in Buffer,
           Ordered(a, q, s, c, f)
    PROVE  Ordered(Append(a, c[b]), Append(q, b), s, c, f)
<1> DEFINE d == Append(a, c[b])
           r == Append(q, b)
<1>1. /\ Len(a) \in Nat /\ Len(q) \in Nat /\ Len(s) \in Nat
      /\ Len(d) = Len(a) + 1 /\ Len(r) = Len(q) + 1
      /\ d[Len(a) + 1] = c[b] /\ \A k \in 1..Len(a) : d[k] = a[k]
      /\ r[Len(q) + 1] = b /\ \A k \in 1..Len(q) : r[k] = q[k]
      /\ DOMAIN q = 1..Len(q) /\ DOMAIN r = 1..(Len(q) + 1)
  OBVIOUS
<1>2. q # << >> => Len(q) > 0
  OBVIOUS
<1>3. r # << >>
  OBVIOUS
<1> HIDE DEF d, r
<1>4. /\ Len(a) - Len(q) >= 0 /\ (f => q # << >>)
      /\ Len(s) = (Len(a) - Len(q)) + (IF f THEN 1 ELSE 0)
      /\ \A n \in DOMAIN q : a[Len(a) - Len(q) + n] = c[q[n]]
      /\ \A k \in 1..Len(s) : s[k] = a[k]
  BY DEF Ordered
<1>5. Len(d) - Len(r) = Len(a) - Len(q) /\ Len(s) <= Len(a)
  BY <1>1, <1>2, <1>4
<1>6. ASSUME NEW n \in DOMAIN r
      PROVE  d[Len(a) - Len(q) + n] = c[r[n]]
  <2>1. CASE n \in 1..Len(q)
    <3>1. n \in Nat /\ n >= 1 /\ n <= Len(q)
      BY <1>1, <2>1
    <3>2. Len(a) - Len(q) \in Nat
      BY <1>1, <1>4
    <3>3. Len(a) - Len(q) + n \in 1..Len(a)
      BY <1>1, <3>1, <3>2, SMTT(40)
    <3>4. QED
      BY <1>1, <1>4, <2>1, <3>3
  <2>2. CASE n = Len(q) + 1
    <3>1. Len(a) - Len(q) + n = Len(a) + 1
      BY <1>1, <2>2
    <3>2. QED
      BY <1>1, <2>2, <3>1
  <2>3. QED
    BY <1>1, <1>6, <2>1, <2>2
<1>7. \A k \in 1..Len(s) : s[k] = d[k]
  <2>1. \A k \in 1..Len(s) : k \in 1..Len(a)
    BY <1>1, <1>5
  <2>2. QED
    BY <1>1, <1>4, <2>1
<1>8. Ordered(d, r, s, c, f)
  BY <1>1, <1>3, <1>4, <1>5, <1>6, <1>7 DEF Ordered
<1>9. QED
  BY <1>8 DEF d, r

\* The front is sent.
LEMMA OrderedEnd ==
    ASSUME NEW a \in Seq(Nat), NEW q \in Seq(Buffer), NEW s \in Seq(Nat),
           NEW c \in [Buffer -> Nat], q # << >>, Ordered(a, q, s, c, FALSE)
    PROVE  Ordered(a, q, Append(s, c[Head(q)]), c, TRUE)
<1> DEFINE t == Append(s, c[Head(q)])
<1>1. /\ Len(a) \in Nat /\ Len(q) \in Nat /\ Len(s) \in Nat /\ Len(q) > 0
      /\ Head(q) = q[1] /\ 1 \in DOMAIN q
      /\ Len(t) = Len(s) + 1
      /\ t[Len(s) + 1] = c[q[1]] /\ \A k \in 1..Len(s) : t[k] = s[k]
  OBVIOUS
<1> HIDE DEF t
<1>2. /\ Len(a) - Len(q) >= 0 /\ Len(s) = Len(a) - Len(q)
      /\ \A n \in DOMAIN q : a[Len(a) - Len(q) + n] = c[q[n]]
      /\ \A k \in 1..Len(s) : s[k] = a[k]
  BY <1>1 DEF Ordered
<1>3. a[Len(s) + 1] = c[q[1]]
  BY <1>1, <1>2
<1>4. \A k \in 1..Len(t) : t[k] = a[k]
  <2>1. \A k \in 1..Len(t) : k \in 1..Len(s) \/ k = Len(s) + 1
    BY <1>1
  <2>2. QED
    BY <1>1, <1>2, <1>3, <2>1
<1>5. Ordered(a, q, t, c, TRUE)
  BY <1>1, <1>2, <1>4 DEF Ordered
<1>6. QED
  BY <1>5 DEF t

\* The front, which has been sent, is popped (ClientSession.h:301-303).
LEMMA OrderedPop ==
    ASSUME NEW a \in Seq(Nat), NEW q \in Seq(Buffer), NEW s \in Seq(Nat),
           NEW c \in [Buffer -> Nat], q # << >>, Ordered(a, q, s, c, TRUE)
    PROVE  Ordered(a, Tail(q), s, c, FALSE)
<1> DEFINE r == Tail(q)
<1>1. /\ Len(a) \in Nat /\ Len(q) \in Nat /\ Len(s) \in Nat /\ Len(q) > 0
      /\ DOMAIN q = 1..Len(q) /\ Len(r) = Len(q) - 1 /\ DOMAIN r = 1..(Len(q) - 1)
      /\ \A k \in 1..(Len(q) - 1) : r[k] = q[k + 1]
  OBVIOUS
<1> HIDE DEF r
<1>2. /\ Len(a) - Len(q) >= 0 /\ Len(s) = Len(a) - Len(q) + 1
      /\ \A n \in DOMAIN q : a[Len(a) - Len(q) + n] = c[q[n]]
      /\ \A k \in 1..Len(s) : s[k] = a[k]
  BY <1>1 DEF Ordered
<1>3. Len(a) - Len(r) = Len(a) - Len(q) + 1
  BY <1>1
<1>4. ASSUME NEW n \in DOMAIN r
      PROVE  a[Len(a) - Len(r) + n] = c[r[n]]
  <2>1. n + 1 \in DOMAIN q /\ r[n] = q[n + 1]
    BY <1>1
  <2>2. Len(a) - Len(r) + n = Len(a) - Len(q) + (n + 1)
    BY <1>1, <1>3
  <2>3. QED
    BY <1>2, <2>1, <2>2
<1>5. Ordered(a, r, s, c, FALSE)
  BY <1>1, <1>2, <1>3, <1>4 DEF Ordered
<1>6. QED
  BY <1>5 DEF r

-----------------------------------------------------------------------------
\* Types

\* ShapeOK is part of SendTypeOK.
LEMMA ShapeOfType == SendTypeOK => ShapeOK
  BY DEF SendTypeOK, ShapeOK

\* Every step keeps the types.
LEMMA NextSendTypeOK ==
    ASSUME SendTypeOK, [Next]_vars
    PROVE  SendTypeOK'
<1>1. ShapeOK'
  BY ShapeOfType, NextShapeOK
<1>refused. refused' \subseteq Client
  <2>1. refused \subseteq Client
    BY DEF SendTypeOK
  <2>2. ASSUME NEW x \in Transfer, NEW b, SendIO(x.client, b)
        PROVE  refused' \subseteq Client
    BY <2>1, <2>2, TransferFields DEF SendIO
  <2>3. ASSUME NEW t \in Sender, NEW x \in hand[t], Push(t, x)
        PROVE  refused' \subseteq Client
    <3>1. x \in Transfer
      BY <2>3 DEF SendTypeOK
    <3>2. QED
      BY <2>1, <2>2, <2>3, <3>1 DEF Push
  <2>4. ASSUME NEW x \in completing, SendComplete(x)
        PROVE  refused' \subseteq Client
    <3>1. x \in Transfer
      BY <2>4 DEF SendTypeOK
    <3>2. QED
      BY <2>1, <2>2, <2>4, <3>1 DEF SendComplete
  <2>5. CASE ~PushStep /\ ~CompleteStep
    BY <2>1, <2>5 DEF Next, Alloc, Close, Connect, EndStep, SendEnds, CheckStep, ZeroBytes,
                      CheckGeneration, vars, histVars
  <2>6. QED
    BY <2>3, <2>4, <2>5 DEF PushStep, CompleteStep
<1> USE DEF Transfer, Completion
<1>2. ASSUME NEW t \in Sender, NEW i \in Client, Alloc(t, i)
      PROVE  SendTypeOK'
  <2>1. PICK b \in Buffer : b = mFreeList[Len(mFreeList)]
    BY <1>2 DEF Alloc, SendTypeOK
  <2>2. /\ generation' = [generation EXCEPT ![b] = mGeneration[i]]
        /\ content' = [content EXCEPT ![b] = msgs + 1] /\ msgs' = msgs + 1
    BY <1>2, <2>1 DEF Alloc
  <2>3. generation' \in [Buffer -> Nat] /\ content' \in [Buffer -> Nat] /\ msgs' \in Nat
    BY <2>2 DEF SendTypeOK
  <2>4. open' = open /\ mGeneration' = mGeneration /\ conns' = conns
        /\ accepted' = accepted /\ sent' = sent
    BY <1>2 DEF Alloc, sessVars
  <2>5. QED
    BY <1>1, <1>refused, <2>3, <2>4 DEF SendTypeOK, ShapeOK
<1>3. ASSUME NEW t \in Sender, NEW x \in hand[t], Push(t, x)
      PROVE  SendTypeOK'
  <2>1. x.client \in Client /\ x.buffer \in Buffer
    BY <1>3 DEF SendTypeOK
  <2>2. accepted' \in [Client -> Seq(Nat)]
    <3>1. content[x.buffer] \in Nat /\ accepted[x.client] \in Seq(Nat)
      BY <2>1 DEF SendTypeOK
    <3>2. Append(accepted[x.client], content[x.buffer]) \in Seq(Nat)
      BY <3>1
    <3>3. accepted' = [accepted EXCEPT ![x.client] = Append(accepted[x.client], content[x.buffer])]
      BY <1>3 DEF Push
    <3>4. QED
      BY <3>2, <3>3 DEF SendTypeOK
  <2>3. /\ generation' = generation /\ content' = content /\ msgs' = msgs /\ sent' = sent
        /\ open' = open /\ mGeneration' = mGeneration /\ conns' = conns
    BY <1>3 DEF Push, sessVars
  <2>4. QED
    BY <1>1, <1>refused, <2>2, <2>3 DEF SendTypeOK, ShapeOK
<1>4. ASSUME NEW x \in inFlight, SendEnds(x)
      PROVE  SendTypeOK'
  <2>1. x.client \in Client /\ x.buffer \in Buffer
    BY <1>4 DEF SendTypeOK
  <2>2. sent' \in [Client -> Seq(Nat)]
    <3>1. content[x.buffer] \in Nat /\ sent[x.client] \in Seq(Nat)
      BY <2>1 DEF SendTypeOK
    <3>2. Append(sent[x.client], content[x.buffer]) \in Seq(Nat)
      BY <3>1
    <3>3. sent' = [sent EXCEPT ![x.client] = Append(sent[x.client], content[x.buffer])]
      BY <1>4 DEF SendEnds
    <3>4. QED
      BY <3>2, <3>3 DEF SendTypeOK
  <2>3. /\ generation' = generation /\ content' = content /\ msgs' = msgs
        /\ open' = open /\ mGeneration' = mGeneration /\ conns' = conns
        /\ accepted' = accepted
    BY <1>4 DEF SendEnds, sessVars
  <2>4. QED
    BY <1>1, <1>refused, <2>2, <2>3 DEF SendTypeOK, ShapeOK
<1>5. ASSUME (\E i \in Client : Close(i)) \/ (\E e \in completions : ZeroBytes(e))
      PROVE  SendTypeOK'
  <2>1. open' \in [Client -> BOOLEAN]
    BY <1>5 DEF Close, ZeroBytes, CloseConn, SendTypeOK
  <2>2. /\ generation' = generation /\ content' = content /\ msgs' = msgs
        /\ mGeneration' = mGeneration /\ conns' = conns
        /\ accepted' = accepted /\ sent' = sent
    BY <1>5 DEF Close, ZeroBytes, histVars
  <2>3. QED
    BY <1>1, <1>refused, <2>1, <2>2 DEF SendTypeOK, ShapeOK
<1>6. ASSUME NEW i \in Client, Connect(i)
      PROVE  SendTypeOK'
  <2>1. open' \in [Client -> BOOLEAN]
    BY <1>6 DEF Connect, SendTypeOK
  <2>2. mGeneration' \in [Client -> Nat] /\ conns' \in Nat
    BY <1>6 DEF Connect, SendTypeOK
  <2>3. /\ generation' = generation /\ content' = content /\ msgs' = msgs
        /\ accepted' = accepted /\ sent' = sent
    BY <1>6 DEF Connect, histVars
  <2>4. QED
    BY <1>1, <1>refused, <2>1, <2>2, <2>3 DEF SendTypeOK, ShapeOK
<1>7. ASSUME \/ \E e \in completions : CheckGeneration(e)
             \/ \E x \in completing : SendComplete(x)
             \/ UNCHANGED vars
      PROVE  SendTypeOK'
  <2>1. /\ generation' = generation /\ content' = content /\ msgs' = msgs
        /\ open' = open /\ mGeneration' = mGeneration /\ conns' = conns
        /\ accepted' = accepted /\ sent' = sent
    BY <1>7 DEF CheckGeneration, SendComplete, vars, sessVars, histVars
  <2>2. QED
    BY <1>1, <1>refused, <2>1 DEF SendTypeOK, ShapeOK
<1>8. QED
  BY <1>2, <1>3, <1>4, <1>5, <1>6, <1>7
     DEF Next, PushStep, EndStep, CheckStep, CompleteStep

-----------------------------------------------------------------------------
\* The end of a connection

\* The open connections are finitely many.
LEMMA OpenedFinite == IsFiniteSet(Opened) /\ Cardinality(Opened) \in Nat
  BY SenderAssumption, FS_Subset, FS_CardinalityType DEF Opened

\* Once a connection has ended, the connections made stay more than the open ones.
LEMMA NextNoneEnded ==
    ASSUME SendTypeOK, conns >= Cardinality(Opened), [Next]_vars
    PROVE  /\ conns' >= Cardinality(Opened')
           /\ NoneEnded' => NoneEnded /\ ((UNCHANGED open) \/ \E i \in Client : Connect(i))
<1> DEFINE c == Cardinality(Opened)
           d == Cardinality(Opened')
<1>1. c \in Nat /\ IsFiniteSet(Opened) /\ conns \in Nat
  BY OpenedFinite DEF SendTypeOK
<1>2. (NoneEnded <=> conns = c) /\ (NoneEnded' <=> conns' = d)
  BY DEF NoneEnded, Opened
<1>3. ASSUME UNCHANGED open, UNCHANGED conns
      PROVE  conns' >= d /\ (NoneEnded' => NoneEnded)
  <2>1. Opened' = Opened
    BY <1>3 DEF Opened
  <2>2. QED
    BY <1>2, <1>3, <2>1
<1>4. ASSUME NEW i \in Client, Connect(i)
      PROVE  conns' >= d /\ (NoneEnded' => NoneEnded)
  <2>1. Opened' = Opened \cup {i} /\ i \notin Opened
    BY <1>4 DEF Opened, Connect, SendTypeOK
  <2>2. d = c + 1
    BY <1>1, <2>1, FS_AddElement
  <2>3. conns' = conns + 1
    BY <1>4 DEF Connect
  <2>4. QED
    BY <1>1, <1>2, <2>2, <2>3
<1>5. ASSUME NEW i \in Client, open[i], open' = [open EXCEPT ![i] = FALSE], conns' = conns
      PROVE  conns' >= d /\ ~NoneEnded'
  <2>1. Opened' = Opened \ {i} /\ i \in Opened
    BY <1>5 DEF Opened, SendTypeOK
  <2>2. d = c - 1
    BY <1>1, <2>1, FS_RemoveElement
  <2>3. QED
    BY <1>1, <1>2, <1>5, <2>2
<1>6. ASSUME NEW i \in Client, Close(i)
      PROVE  conns' >= d /\ ~NoneEnded'
  BY <1>5, <1>6 DEF Close, CloseConn
<1>7. ASSUME NEW e \in completions, ZeroBytes(e), ~(UNCHANGED open)
      PROVE  conns' >= d /\ ~NoneEnded'
  <2>1. e.client \in Client
    BY <1>7, TransferFields DEF SendTypeOK
  <2>2. open[e.client] /\ open' = [open EXCEPT ![e.client] = FALSE] /\ conns' = conns
    BY <1>7 DEF ZeroBytes, CloseConn
  <2>3. QED
    BY <1>5, <2>1, <2>2
<1>8. ASSUME NEW e \in completions, ZeroBytes(e), UNCHANGED open
      PROVE  UNCHANGED <<open, conns>>
  BY <1>8 DEF ZeroBytes
<1>9. ASSUME \/ \E t \in Sender, i \in Client : Alloc(t, i)
             \/ PushStep \/ EndStep \/ CompleteStep
             \/ \E e \in completions : CheckGeneration(e)
             \/ UNCHANGED vars
      PROVE  UNCHANGED <<open, conns>>
  BY <1>9 DEF Alloc, PushStep, Push, EndStep, SendEnds, CompleteStep, SendComplete,
              CheckGeneration, vars, sessVars
<1> HIDE DEF c, d
<1>10. QED
  BY <1>3, <1>4, <1>6, <1>7, <1>8, <1>9 DEF Next, CheckStep, c, d

-----------------------------------------------------------------------------
\* No buffer is lost and messages stay in order, operation by operation

\* A thread takes a buffer for an open session.
LEMMA AllocFlow ==
    ASSUME SendTypeOK, OwnersApart, Flow, NEW t \in Sender, NEW i \in Client, Alloc(t, i)
    PROVE  Flow'
<1>1. PICK n \in Nat : n = Len(mFreeList) /\ n > 0
  BY DEF Alloc, SendTypeOK
<1>2. PICK b \in Buffer : b = mFreeList[n]
  BY <1>1 DEF Alloc, SendTypeOK
<1>3. /\ DOMAIN mFreeList = 1..n /\ DOMAIN mFreeList' = 1..(n - 1)
      /\ \A k \in 1..(n - 1) : mFreeList'[k] = mFreeList[k]
  BY <1>1 DEF Alloc, SendTypeOK
<1>4. /\ hand[t] = {} /\ hand'[t] = {[buffer |-> b, client |-> i]}
      /\ \A u \in Sender : u # t => hand'[u] = hand[u]
  BY <1>1, <1>2 DEF Alloc, SendTypeOK
<1>5. /\ mSendDataqueue' = mSendDataqueue /\ completions' = completions
      /\ open' = open /\ mGeneration' = mGeneration /\ accepted' = accepted /\ sent' = sent
      /\ refused' = refused
  BY DEF Alloc, sessVars
<1>6. \A j \in Client : Going(j)' = Going(j)
  BY DEF Alloc, Going
<1>7. \A j \in Client : (Live(j)' <=> Live(j)) /\ (FrontSent(j)' <=> FrontSent(j))
  BY <1>5, <1>6 DEF Live, FrontSent
<1>8. mGeneration[i] = 1 /\ open[i]
  BY DEF Alloc, Flow, Uncut
<1>9. /\ generation'[b] = 1
      /\ \A c \in Buffer : c # b => generation'[c] = generation[c] /\ content'[c] = content[c]
  BY <1>1, <1>2, <1>8 DEF Alloc, SendTypeOK
<1>10. \A j \in Client : \A m \in DOMAIN mSendDataqueue[j] :
         mSendDataqueue[j][m] \in Buffer /\ mSendDataqueue[j][m] # b
  <2>1. ASSUME NEW j \in Client, NEW m \in DOMAIN mSendDataqueue[j]
        PROVE  mSendDataqueue[j] # << >> /\ mSendDataqueue[j][m] \in Buffer
    <3>1. mSendDataqueue[j] \in Seq(Buffer)
      BY DEF SendTypeOK
    <3>2. QED
      BY <2>1, <3>1
  <2>2. n \in DOMAIN mFreeList
    BY <1>1, <1>3
  <2>3. QED
    BY <1>2, <2>1, <2>2 DEF Flow, Uncut, OwnersApart, PoolApart
<1>11. \A u \in Sender : u # t => \A x \in hand[u] : x.buffer \in Buffer /\ x.buffer # b
  <2>1. \A u \in Sender : \A x \in hand[u] : x.buffer \in Buffer
    BY TransferFields DEF SendTypeOK
  <2>2. n \in DOMAIN mFreeList
    BY <1>1, <1>3
  <2>3. QED
    BY <1>2, <2>1, <2>2 DEF OwnersApart, PoolApart
<1>12. Uncut'
  <2>1. \A u \in Sender : \A x \in hand'[u] : open'[x.client] /\ generation'[x.buffer] = 1
    <3>1. ASSUME NEW u \in Sender, NEW x \in hand'[u]
          PROVE  open'[x.client] /\ generation'[x.buffer] = 1
      <4>1. CASE u = t
        <5>1. x.client = i /\ x.buffer = b
          BY <1>4, <3>1, <4>1
        <5>2. QED
          BY <1>5, <1>8, <1>9, <5>1
      <4>2. CASE u # t
        <5>1. x \in hand[u]
          BY <1>4, <3>1, <4>2
        <5>2. open[x.client] /\ generation[x.buffer] = 1
          BY <5>1 DEF Flow, Uncut
        <5>3. QED
          BY <1>5, <1>9, <1>11, <4>2, <5>1, <5>2
      <4>3. QED
        BY <4>1, <4>2
    <3>2. QED
      BY <3>1
  <2>2. \A j \in Client : \A m \in DOMAIN mSendDataqueue'[j] : generation'[mSendDataqueue'[j][m]] = 1
    BY <1>5, <1>9, <1>10 DEF Flow, Uncut
  <2>3. QED
    BY <1>5, <1>7, <2>1, <2>2 DEF Flow, Uncut
<1>13. NoneLost'
  <2>1. \E x \in hand'[t] : x.buffer = b
    BY <1>4
  <2>2. ASSUME NEW c \in Buffer, c # b, NEW k \in DOMAIN mFreeList, mFreeList[k] = c
        PROVE  \E m \in DOMAIN mFreeList' : mFreeList'[m] = c
    <3>1. k \in 1..(n - 1)
      BY <1>1, <1>2, <1>3, <2>2
    <3>2. QED
      BY <1>3, <2>2, <3>1
  <2>3. ASSUME NEW c \in Buffer, NEW u \in Sender, NEW x \in hand[u], x.buffer = c
        PROVE  \E y \in hand'[u] : y.buffer = c
    BY <1>4, <2>3
  <2>4. QED
    BY <1>5, <2>1, <2>2, <2>3 DEF Flow, NoneLost
<1>14. ASSUME NEW j \in Client
       PROVE  InOrder(j)'
  <2>1. \A m \in DOMAIN mSendDataqueue[j] :
          content'[mSendDataqueue[j][m]] = content[mSendDataqueue[j][m]]
    BY <1>9, <1>10
  <2>2. Ordered(accepted[j], mSendDataqueue[j], sent[j], content, FrontSent(j))
    BY DEF Flow, InOrder
  <2>3. Ordered(accepted[j], mSendDataqueue[j], sent[j], content', FrontSent(j))
    BY <2>1, <2>2 DEF Ordered
  <2>4. QED
    BY <1>5, <1>7, <2>3 DEF InOrder, Ordered
<1>15. QED
  BY <1>12, <1>13, <1>14 DEF Flow

\* A thread queues its buffer; an open session with an empty queue starts a send.
LEMMA PushFlow ==
    ASSUME SendTypeOK, OneSendAtATime, OwnersApart, Flow,
           NEW t \in Sender, NEW x \in hand[t], Push(t, x)
    PROVE  Flow'
<1> USE ShapeOfType
<1>1. PICK i \in Client : i = x.client
  BY TransferFields DEF SendTypeOK
<1>2. PICK b \in Buffer : b = x.buffer
  BY TransferFields DEF SendTypeOK
<1>3. PICK q \in Seq(Buffer) : q = mSendDataqueue[i]
  BY DEF SendTypeOK
<1>4. /\ mFreeList' = mFreeList /\ completions' = completions /\ generation' = generation
      /\ open' = open /\ mGeneration' = mGeneration /\ content' = content /\ sent' = sent
      /\ accepted' = [accepted EXCEPT ![i] = Append(accepted[i], content[b])]
      /\ hand'[t] = {} /\ \A u \in Sender : u # t => hand'[u] = hand[u]
  BY <1>1, <1>2 DEF Push, SendTypeOK, sessVars
<1>5. \A j \in Client : j # i => Going(j)' = Going(j) /\ mSendDataqueue'[j] = mSendDataqueue[j]
  BY <1>1, PushGoing
<1>6. mSendDataqueue'[i] = Append(q, b)
  BY <1>1, <1>2, <1>3, PushGoing
<1>7. /\ DOMAIN q = 1..Len(q) /\ DOMAIN Append(q, b) = 1..(Len(q) + 1) /\ Len(q) \in Nat
      /\ Append(q, b)[Len(q) + 1] = b
      /\ \A k \in 1..Len(q) : Append(q, b)[k] = q[k]
  OBVIOUS
<1>8. open[i] /\ generation[b] = 1
  BY <1>1, <1>2 DEF Flow, Uncut
<1>9. /\ q = << >> => Going(i)' = {<<"system", b>>} \/ (Going(i)' = {} /\ i \in refused')
      /\ q # << >> => Going(i)' = Going(i)
      /\ refused \subseteq refused'
  <2>1. q # << >> => Going(i)' = Going(i) /\ refused' = refused
    BY <1>1, <1>3, PushGoing
  <2>2. q = << >> =>
          \/ Going(i)' = {<<"system", x.buffer>>} /\ refused' = refused
          \/ Going(i)' = {} /\ refused' = refused \cup {i}
          \/ Going(i)' = {} /\ refused' = refused /\ ~open[i]
    BY <1>1, <1>3, PushGoing
  <2>3. QED
    BY <1>2, <1>8, <2>1, <2>2
<1>10. Live(i)' /\ \A j \in Client : j # i => (Live(j) => Live(j)')
  BY <1>3, <1>5, <1>9 DEF Live, Flow, Uncut
<1>11. \A j \in Client : FrontSent(j)' <=> FrontSent(j)
  <2>1. q = << >> => Going(i) = {}
    BY <1>3 DEF OneSendAtATime
  <2>2. QED
    BY <1>5, <1>9, <2>1 DEF FrontSent
<1>12. Uncut'
  <2>1. \A u \in Sender : \A y \in hand'[u] : open'[y.client] /\ generation'[y.buffer] = 1
    BY <1>4 DEF Flow, Uncut
  <2>2. \A j \in Client : mSendDataqueue'[j] # << >> => open'[j] /\ Live(j)'
    BY <1>4, <1>5, <1>8, <1>10 DEF Flow, Uncut
  <2>3. ASSUME NEW j \in Client, NEW n \in DOMAIN mSendDataqueue'[j]
        PROVE  generation'[mSendDataqueue'[j][n]] = 1
    <3>1. CASE j # i
      BY <1>4, <1>5, <2>3, <3>1 DEF Flow, Uncut
    <3>2. CASE j = i
      <4>1. n \in 1..Len(q) \/ n = Len(q) + 1
        BY <1>6, <1>7, <2>3, <3>2
      <4>2. CASE n \in 1..Len(q)
        BY <1>3, <1>4, <1>6, <1>7, <3>2, <4>2 DEF Flow, Uncut
      <4>3. CASE n = Len(q) + 1
        BY <1>4, <1>6, <1>7, <1>8, <3>2, <4>3
      <4>4. QED
        BY <4>1, <4>2, <4>3
    <3>3. QED
      BY <3>1, <3>2
  <2>4. QED
    BY <1>4, <2>1, <2>2, <2>3 DEF Flow, Uncut
<1>13. NoneLost'
  <2>1. \E n \in DOMAIN mSendDataqueue'[i] : mSendDataqueue'[i][n] = b
    <3>1. Len(q) + 1 \in DOMAIN mSendDataqueue'[i]
      BY <1>6, <1>7
    <3>2. QED
      BY <1>6, <1>7, <3>1
  <2>2. ASSUME NEW u \in Sender, NEW y \in hand[u], y.buffer # b
        PROVE  y \in hand'[u]
    BY <1>2, <1>4, <2>2 DEF OwnersApart, HandsApart
  <2>3. ASSUME NEW j \in Client, NEW n \in DOMAIN mSendDataqueue[j]
        PROVE  n \in DOMAIN mSendDataqueue'[j] /\ mSendDataqueue'[j][n] = mSendDataqueue[j][n]
    <3>1. CASE j # i
      BY <1>5, <2>3, <3>1
    <3>2. CASE j = i
      <4>1. n \in 1..Len(q) /\ n \in 1..(Len(q) + 1)
        BY <1>3, <1>7, <2>3, <3>2
      <4>2. QED
        BY <1>3, <1>6, <1>7, <3>2, <4>1
    <3>3. QED
      BY <3>1, <3>2
  <2>4. QED
    BY <1>4, <2>1, <2>2, <2>3 DEF Flow, NoneLost
<1>14. ASSUME NEW j \in Client
       PROVE  InOrder(j)'
  <2>1. Ordered(accepted[j], mSendDataqueue[j], sent[j], content, FrontSent(j))
    BY DEF Flow, InOrder
  <2>2. CASE j # i
    <3>1. accepted'[j] = accepted[j]
      BY <1>4, <2>2 DEF SendTypeOK
    <3>2. QED
      BY <1>4, <1>5, <1>11, <2>1, <2>2, <3>1 DEF InOrder, Ordered
  <2>3. CASE j = i
    <3>1. /\ accepted[i] \in Seq(Nat) /\ sent[i] \in Seq(Nat) /\ content \in [Buffer -> Nat]
          /\ FrontSent(i) \in BOOLEAN
      BY DEF SendTypeOK, FrontSent
    <3>2. Ordered(Append(accepted[i], content[b]), Append(q, b), sent[i], content, FrontSent(i))
      BY <1>3, <2>1, <2>3, <3>1, OrderedPush
    <3>3. accepted'[i] = Append(accepted[i], content[b])
      BY <1>4 DEF SendTypeOK
    <3>4. PICK d, r : d = accepted'[i] /\ r = mSendDataqueue'[i]
      OBVIOUS
    <3>5. Ordered(d, r, sent[i], content, FrontSent(i))
      BY <1>6, <3>2, <3>3, <3>4
    <3>6. /\ accepted'[j] = d /\ mSendDataqueue'[j] = r /\ sent'[j] = sent[i]
          /\ content' = content /\ (FrontSent(j)' <=> FrontSent(i))
      BY <1>4, <1>11, <2>3, <3>4
    <3>7. QED
      BY <3>5, <3>6 DEF InOrder, Ordered
  <2>4. QED
    BY <2>2, <2>3
<1>15. QED
  BY <1>12, <1>13, <1>14 DEF Flow

\* The system sends a front.
LEMMA EndFlow ==
    ASSUME SendTypeOK, OneSendAtATime, OwnersApart, Flow, NEW x \in inFlight, SendEnds(x)
    PROVE  Flow'
<1> USE ShapeOfType
<1>1. PICK i \in Client : i = x.client
  BY TransferFields DEF SendTypeOK
<1>2. PICK b \in Buffer : b = x.buffer
  BY TransferFields DEF SendTypeOK
<1>3. /\ mFreeList' = mFreeList /\ generation' = generation /\ hand' = hand
      /\ mSendDataqueue' = mSendDataqueue /\ open' = open /\ mGeneration' = mGeneration
      /\ content' = content /\ accepted' = accepted
      /\ sent' = [sent EXCEPT ![i] = Append(sent[i], content[b])] /\ refused' = refused
  BY <1>1, <1>2 DEF SendEnds, sessVars
<1>4. \A e \in completions' : e \in completions \/ ~e.zero
  BY DEF SendEnds
<1>5. /\ \A j \in Client : j # i => Going(j)' = Going(j)
      /\ Going(i) = {<<"system", b>>} /\ Going(i)' = {<<"port", b>>}
  BY <1>1, <1>2, EndGoing
<1>6. \A j \in Client : Live(j) => Live(j)'
  BY <1>3, <1>5 DEF Live
<1>7. /\ \A j \in Client : j # i => (FrontSent(j)' <=> FrontSent(j))
      /\ FrontSent(i)' /\ ~FrontSent(i)
  <2>1. "port" # "system"
    OBVIOUS
  <2>2. QED
    BY <1>5, <2>1 DEF FrontSent
<1>8. Uncut' /\ NoneLost'
  BY <1>3, <1>4, <1>6 DEF Flow, Uncut, NoneLost
<1>9. ASSUME NEW j \in Client
      PROVE  InOrder(j)'
  <2>1. Ordered(accepted[j], mSendDataqueue[j], sent[j], content, FrontSent(j))
    BY DEF Flow, InOrder
  <2>2. CASE j # i
    <3>1. sent'[j] = sent[j]
      BY <1>3, <2>2 DEF SendTypeOK
    <3>2. QED
      BY <1>3, <1>7, <2>1, <2>2, <3>1 DEF InOrder, Ordered
  <2>3. CASE j = i
    <3>1. PICK q \in Seq(Buffer) : q = mSendDataqueue[i]
      BY DEF SendTypeOK
    <3>2. q # << >> /\ Head(q) = b
      BY <1>5, <3>1 DEF OneSendAtATime, OwnersApart, FrontGoing
    <3>3. accepted[i] \in Seq(Nat) /\ sent[i] \in Seq(Nat) /\ content \in [Buffer -> Nat]
      BY DEF SendTypeOK
    <3>4. Ordered(accepted[i], q, sent[i], content, FALSE)
      BY <1>7, <2>1, <2>3, <3>1 DEF Ordered
    <3>5. Ordered(accepted[i], q, Append(sent[i], content[b]), content, TRUE)
      BY <3>2, <3>3, <3>4, OrderedEnd
    <3>6. PICK s : s = sent'[i]
      OBVIOUS
    <3>7. s = Append(sent[i], content[b])
      BY <1>3, <3>6 DEF SendTypeOK
    <3>8. Ordered(accepted[i], q, s, content, TRUE)
      BY <3>5, <3>7
    <3>9. QED
      BY <1>3, <1>7, <2>3, <3>1, <3>6, <3>8 DEF InOrder, Ordered
  <2>4. QED
    BY <2>2, <2>3
<1>10. QED
  BY <1>8, <1>9 DEF Flow

\* A new connection, of a session that never had one.
LEMMA ConnectFlow ==
    ASSUME SendTypeOK, Flow, NEW i \in Client, Connect(i)
    PROVE  Flow'
<1>1. /\ mFreeList' = mFreeList /\ generation' = generation /\ hand' = hand
      /\ mSendDataqueue' = mSendDataqueue /\ content' = content /\ accepted' = accepted
      /\ sent' = sent /\ completions' = completions /\ refused' = refused
  BY DEF Connect, histVars
<1>2. \A j \in Client : Going(j)' = Going(j)
  BY DEF Connect, Going
<1>3. \A j \in Client : (Live(j)' <=> Live(j)) /\ (FrontSent(j)' <=> FrontSent(j))
  BY <1>1, <1>2 DEF Live, FrontSent
<1>4. \A j \in Client : open[j] => open'[j]
  BY DEF Connect, SendTypeOK
<1>5. \A j \in Client : mGeneration'[j] = (IF open'[j] THEN 1 ELSE 0)
  <2>1. ~open[i] /\ mGeneration[i] = 0
    BY DEF Connect, Flow, Uncut
  <2>2. open'[i] /\ mGeneration'[i] = 1
    BY <2>1 DEF Connect, SendTypeOK
  <2>3. \A j \in Client : j # i => open'[j] = open[j] /\ mGeneration'[j] = mGeneration[j]
    BY DEF Connect, SendTypeOK
  <2>4. QED
    BY <2>2, <2>3 DEF Flow, Uncut
<1>6. Uncut'
  <2>1. \A t \in Sender : \A x \in hand[t] : x.client \in Client
    BY TransferFields DEF SendTypeOK
  <2>2. \A t \in Sender : \A x \in hand'[t] : open'[x.client] /\ generation'[x.buffer] = 1
    BY <1>1, <1>4, <2>1 DEF Flow, Uncut
  <2>3. \A j \in Client : mSendDataqueue'[j] # << >> => open'[j] /\ Live(j)'
    BY <1>1, <1>3, <1>4 DEF Flow, Uncut
  <2>4. QED
    BY <1>1, <1>5, <2>2, <2>3 DEF Flow, Uncut
<1>7. NoneLost' /\ \A j \in Client : InOrder(j)'
  <2>1. NoneLost'
    BY <1>1 DEF Flow, NoneLost
  <2>2. \A j \in Client : InOrder(j)'
    BY <1>1, <1>3 DEF Flow, InOrder, Ordered
  <2>3. QED
    BY <2>1, <2>2
<1>8. QED
  BY <1>6, <1>7 DEF Flow

\* A completion is of the session's only generation, so it goes on to SendComplete.
LEMMA CheckFlow ==
    ASSUME SendTypeOK, OneSendAtATime, OwnersApart, Flow,
           NEW e \in completions, CheckGeneration(e)
    PROVE  Flow'
<1> USE ShapeOfType
<1>1. PICK i \in Client : i = e.client
  BY TransferFields DEF SendTypeOK
<1>2. PICK b \in Buffer : b = e.buffer
  BY TransferFields DEF SendTypeOK
<1>3. /\ \A j \in Client : j # i => Going(j)' = Going(j)
      /\ Going(i) = {<<"port", b>>}
  BY <1>1, <1>2, CheckGoing
<1>4. PICK q \in Seq(Buffer) : q = mSendDataqueue[i]
  BY DEF SendTypeOK
<1>5. q # << >> /\ Head(q) = b
  BY <1>3, <1>4 DEF OneSendAtATime, OwnersApart, FrontGoing
<1>6. generation[b] = mGeneration[i]
  <2>1. 1 \in DOMAIN q /\ q[1] = b
    BY <1>5
  <2>2. generation[b] = 1
    BY <1>4, <2>1 DEF Flow, Uncut
  <2>3. mGeneration[i] = 1
    BY <1>4, <1>5 DEF Flow, Uncut
  <2>4. QED
    BY <2>2, <2>3
<1>7. Going(i)' = {<<"worker", b>>}
  BY <1>1, <1>2, <1>6, CheckGoing
<1>8. /\ mFreeList' = mFreeList /\ generation' = generation /\ hand' = hand
      /\ mSendDataqueue' = mSendDataqueue /\ content' = content /\ accepted' = accepted
      /\ sent' = sent /\ completions' = completions \ {e} /\ open' = open
      /\ mGeneration' = mGeneration /\ refused' = refused
  BY <1>1, <1>2, <1>6 DEF CheckGeneration, sessVars, histVars
<1>9. \A j \in Client : Live(j)' <=> Live(j)
  BY <1>3, <1>7, <1>8 DEF Live
<1>10. \A j \in Client : FrontSent(j)' <=> FrontSent(j)
  <2>1. "port" # "system" /\ "worker" # "system"
    OBVIOUS
  <2>2. FrontSent(i)' /\ FrontSent(i)
    BY <1>3, <1>7, <2>1 DEF FrontSent
  <2>3. QED
    BY <1>3, <2>2 DEF FrontSent
<1>11. Uncut' /\ NoneLost'
  BY <1>8, <1>9 DEF Flow, Uncut, NoneLost
<1>12. \A j \in Client : InOrder(j)'
  BY <1>8, <1>10 DEF Flow, InOrder, Ordered
<1>13. QED
  BY <1>11, <1>12 DEF Flow

\* SendComplete frees and pops the front that was sent, and the next is handed over.
LEMMA CompleteFlow ==
    ASSUME SendTypeOK, OneSendAtATime, Flow, NEW x \in completing, SendComplete(x)
    PROVE  Flow'
<1> USE ShapeOfType
<1>1. PICK i \in Client : i = x.client
  BY TransferFields DEF SendTypeOK
<1>2. PICK q \in Seq(Buffer) : q = mSendDataqueue[i]
  BY DEF SendTypeOK
<1>3. /\ \A j \in Client : j # i =>
           Going(j)' = Going(j) /\ mSendDataqueue'[j] = mSendDataqueue[j]
      /\ q # << >> /\ mSendDataqueue'[i] = Tail(q)
      /\ Going(i) = {<<"worker", x.buffer>>}
  BY <1>1, <1>2, CompleteGoing
<1>4. open[i]
  BY <1>2, <1>3 DEF Flow, Uncut
<1>5. /\ Going(i)' = {} \/ Going(i)' = {<<"system", Head(Tail(q))>>}
      /\ Tail(q) # << >> => Going(i)' # {} \/ i \in refused'
      /\ refused \subseteq refused'
  <2>1. \/ /\ Going(i)' = {<<"system", Head(mSendDataqueue'[i])>>}
           /\ refused' = refused /\ mSendDataqueue'[i] # << >>
        \/ /\ Going(i)' = {}
           /\ refused' = refused \cup {i} /\ mSendDataqueue'[i] # << >>
        \/ /\ Going(i)' = {}
           /\ refused' = refused /\ (mSendDataqueue'[i] = << >> \/ ~open[i])
    BY <1>1, CompleteGoing
  <2>2. QED
    BY <1>3, <1>4, <2>1
<1>6. /\ mFreeList' = Append(mFreeList, Head(q)) /\ generation' = generation /\ hand' = hand
      /\ content' = content /\ accepted' = accepted /\ sent' = sent
      /\ completions' = completions /\ open' = open /\ mGeneration' = mGeneration
  BY <1>1, <1>2 DEF SendComplete, Free, sessVars, histVars
<1>7. /\ \A j \in Client : j # i => (Live(j) => Live(j)') /\ (FrontSent(j)' <=> FrontSent(j))
      /\ Tail(q) # << >> => Live(i)'
  BY <1>3, <1>5 DEF Live, FrontSent
<1>8. FrontSent(i) /\ ~FrontSent(i)'
  <2>1. "worker" # "system"
    OBVIOUS
  <2>2. FrontSent(i)
    BY <1>3, <2>1 DEF FrontSent
  <2>3. ~FrontSent(i)'
    BY <1>5 DEF FrontSent
  <2>4. QED
    BY <2>2, <2>3
<1>9. /\ DOMAIN q = 1..Len(q) /\ Len(q) \in Nat /\ Len(q) > 0 /\ Head(q) = q[1] /\ Head(q) \in Buffer
      /\ Tail(q) \in Seq(Buffer) /\ DOMAIN Tail(q) = 1..(Len(q) - 1)
      /\ \A k \in 1..(Len(q) - 1) : Tail(q)[k] = q[k + 1]
  BY <1>3
<1>10. \A n \in DOMAIN Tail(q) : n + 1 \in DOMAIN q /\ Tail(q)[n] = q[n + 1]
  BY <1>9
<1>11. Uncut'
  <2>1. \A j \in Client : mSendDataqueue'[j] # << >> => open'[j] /\ Live(j)'
    BY <1>3, <1>4, <1>6, <1>7 DEF Flow, Uncut
  <2>2. ASSUME NEW j \in Client, NEW n \in DOMAIN mSendDataqueue'[j]
        PROVE  generation'[mSendDataqueue'[j][n]] = 1
    <3>1. CASE j # i
      BY <1>3, <1>6, <2>2, <3>1 DEF Flow, Uncut
    <3>2. CASE j = i
      <4>1. n + 1 \in DOMAIN q /\ mSendDataqueue'[i][n] = q[n + 1]
        BY <1>3, <1>10, <2>2, <3>2
      <4>2. generation[q[n + 1]] = 1
        BY <1>2, <4>1 DEF Flow, Uncut
      <4>3. QED
        BY <1>6, <3>2, <4>1, <4>2
    <3>3. QED
      BY <3>1, <3>2
  <2>3. QED
    BY <1>6, <2>1, <2>2 DEF Flow, Uncut
<1>12. NoneLost'
  <2>1. PICK f \in Seq(Buffer) : f = mFreeList
    BY DEF SendTypeOK
  <2>2. /\ DOMAIN f = 1..Len(f) /\ DOMAIN Append(f, Head(q)) = 1..(Len(f) + 1) /\ Len(f) \in Nat
        /\ Append(f, Head(q))[Len(f) + 1] = Head(q)
        /\ \A k \in 1..Len(f) : Append(f, Head(q))[k] = f[k]
    BY <1>9
  <2>3. \E n \in DOMAIN mFreeList' : mFreeList'[n] = Head(q)
    <3>1. Len(f) + 1 \in DOMAIN Append(f, Head(q))
      BY <2>2
    <3>2. QED
      BY <1>6, <2>1, <2>2, <3>1
  <2>4. \A n \in DOMAIN mFreeList : n \in DOMAIN mFreeList' /\ mFreeList'[n] = mFreeList[n]
    BY <1>6, <2>1, <2>2
  <2>5. ASSUME NEW n \in DOMAIN q, q[n] # Head(q)
        PROVE  n - 1 \in DOMAIN Tail(q) /\ Tail(q)[n - 1] = q[n]
    <3>1. n \in 2..Len(q)
      BY <1>9, <2>5
    <3>2. n - 1 \in 1..(Len(q) - 1) /\ (n - 1) + 1 = n
      BY <1>9, <3>1
    <3>3. QED
      BY <1>9, <3>2
  <2>6. ASSUME NEW c \in Buffer, c # Head(q), NEW j \in Client,
               NEW n \in DOMAIN mSendDataqueue[j], mSendDataqueue[j][n] = c
        PROVE  \E m \in DOMAIN mSendDataqueue'[j] : mSendDataqueue'[j][m] = c
    <3>1. CASE j # i
      BY <1>3, <2>6, <3>1
    <3>2. CASE j = i
      BY <1>2, <1>3, <2>5, <2>6, <3>2
    <3>3. QED
      BY <3>1, <3>2
  <2>7. QED
    BY <1>6, <2>3, <2>4, <2>6 DEF Flow, NoneLost
<1>13. ASSUME NEW j \in Client
       PROVE  InOrder(j)'
  <2>1. Ordered(accepted[j], mSendDataqueue[j], sent[j], content, FrontSent(j))
    BY DEF Flow, InOrder
  <2>2. CASE j # i
    BY <1>3, <1>6, <1>7, <2>1, <2>2 DEF InOrder, Ordered
  <2>3. CASE j = i
    <3>1. accepted[i] \in Seq(Nat) /\ sent[i] \in Seq(Nat) /\ content \in [Buffer -> Nat]
      BY DEF SendTypeOK
    <3>2. Ordered(accepted[i], q, sent[i], content, TRUE)
      BY <1>2, <1>8, <2>1, <2>3 DEF Ordered
    <3>3. Ordered(accepted[i], Tail(q), sent[i], content, FALSE)
      BY <1>3, <3>1, <3>2, OrderedPop
    <3>4. PICK r : r = mSendDataqueue'[i]
      OBVIOUS
    <3>5. Ordered(accepted[i], r, sent[i], content, FALSE)
      BY <1>3, <3>3, <3>4
    <3>6. QED
      BY <1>6, <1>8, <2>3, <3>4, <3>5 DEF InOrder, Ordered
  <2>4. QED
    BY <2>2, <2>3
<1>14. QED
  BY <1>11, <1>12, <1>13 DEF Flow

\* Every step keeps UncutInv.
LEMMA NextUncutInv ==
    ASSUME SendTypeOK, OneSendAtATime, OwnersApart, UncutInv, [Next]_vars
    PROVE  UncutInv'
<1>1. /\ conns' >= Cardinality(Opened')
      /\ NoneEnded' => NoneEnded /\ ((UNCHANGED open) \/ \E i \in Client : Connect(i))
  BY NextNoneEnded DEF UncutInv
<1>2. SUFFICES ASSUME NoneEnded'
               PROVE  Flow'
  BY <1>1 DEF UncutInv
<1>3. Flow /\ ((UNCHANGED open) \/ \E i \in Client : Connect(i))
  BY <1>1, <1>2 DEF UncutInv
<1>4. ASSUME NEW t \in Sender, NEW i \in Client, Alloc(t, i)
      PROVE  Flow'
  BY <1>3, <1>4, AllocFlow
<1>5. ASSUME NEW t \in Sender, NEW x \in hand[t], Push(t, x)
      PROVE  Flow'
  BY <1>3, <1>5, PushFlow
<1>6. ASSUME NEW x \in inFlight, SendEnds(x)
      PROVE  Flow'
  BY <1>3, <1>6, EndFlow
<1>7. ASSUME NEW i \in Client, Connect(i)
      PROVE  Flow'
  BY <1>3, <1>7, ConnectFlow
<1>8. ASSUME NEW i \in Client, Close(i)
      PROVE  FALSE
  <2>1. open[i] /\ open' = [open EXCEPT ![i] = FALSE]
    BY <1>8 DEF Close, CloseConn
  <2>2. \A j \in Client : ~Connect(j)
    BY <2>1 DEF Connect, SendTypeOK
  <2>3. open' = open
    BY <1>3, <2>2
  <2>4. QED
    BY <2>1, <2>3 DEF SendTypeOK
<1>9. ASSUME NEW e \in completions, ZeroBytes(e)
      PROVE  FALSE
  BY <1>3, <1>9 DEF ZeroBytes, Flow, Uncut
<1>10. ASSUME NEW e \in completions, CheckGeneration(e)
       PROVE  Flow'
  BY <1>3, <1>10, CheckFlow
<1>11. ASSUME NEW x \in completing, SendComplete(x)
       PROVE  Flow'
  BY <1>3, <1>11, CompleteFlow
<1>12. CASE UNCHANGED vars
  <2>1. refused' = refused /\ \A j \in Client : Going(j)' = Going(j)
    BY <1>12 DEF vars, histVars, Going
  <2>2. \A j \in Client : (Live(j)' <=> Live(j)) /\ (FrontSent(j)' <=> FrontSent(j))
    BY <2>1 DEF Live, FrontSent
  <2>3. Uncut'
    BY <1>3, <1>12, <2>2 DEF Flow, Uncut, vars, sessVars
  <2>4. NoneLost'
    BY <1>3, <1>12 DEF Flow, NoneLost, vars
  <2>5. \A j \in Client : InOrder(j)'
    BY <1>3, <1>12, <2>2 DEF Flow, InOrder, Ordered, vars, histVars
  <2>6. QED
    BY <2>3, <2>4, <2>5 DEF Flow
<1>13. QED
  BY <1>4, <1>5, <1>6, <1>7, <1>8, <1>9, <1>10, <1>11, <1>12
     DEF Next, PushStep, EndStep, CheckStep, CompleteStep

-----------------------------------------------------------------------------
\* the inductive invariant of the send path
SendInv == SendTypeOK /\ OneSendAtATime /\ OwnersApart /\ UncutInv

\* The start.
LEMMA InitSendInv ==
    ASSUME Init
    PROVE  SendInv
<1>1. SendTypeOK
  <2>1. mFreeList \in Seq(Buffer)
    BY PoolAssumption DEF Init, Buffer
  <2>2. QED
    BY <2>1 DEF Init, SendTypeOK
<1>2. /\ \A i \in Client : Going(i) = {} /\ mSendDataqueue[i] = << >>
      /\ \A t \in Sender : hand[t] = {}
      /\ refused = {}
  BY DEF Init, Going
<1>3. OneSendAtATime
  BY <1>2 DEF OneSendAtATime
<1>4. \A i \in Client : ~Live(i) /\ ~FrontSent(i)
  BY <1>2 DEF Live, FrontSent
<1>5. OwnersApart
  <2>1. \A m, n \in DOMAIN mFreeList : mFreeList[m] = mFreeList[n] => m = n
    BY DEF Init
  <2>2. QED
    BY <1>2, <1>4, <2>1 DEF OwnersApart, FrontGoing, RefusedStuck, PoolApart, HandsApart, QueuesApart
<1>6. Flow
  <2>1. Uncut
    BY <1>2 DEF Init, Uncut
  <2>2. NoneLost
    BY DEF Init, NoneLost, Buffer
  <2>3. ASSUME NEW i \in Client
        PROVE  InOrder(i)
    <3>1. accepted[i] = << >> /\ sent[i] = << >> /\ mSendDataqueue[i] = << >> /\ ~FrontSent(i)
      BY <1>2, <1>4 DEF Init
    <3>2. QED
      BY <3>1 DEF InOrder, Ordered
  <2>4. QED
    BY <2>1, <2>2, <2>3 DEF Flow
<1>7. conns >= Cardinality(Opened)
  <2>1. Opened = {}
    BY DEF Init, Opened
  <2>2. QED
    BY <2>1, FS_EmptySet DEF Init
<1>8. QED
  BY <1>1, <1>3, <1>5, <1>6, <1>7 DEF SendInv, UncutInv

\* The inductive invariant holds throughout.
THEOREM SendInvHolds == Spec => []SendInv
<1>1. Init => SendInv
  BY InitSendInv
<1>2. SendInv /\ [Next]_vars => SendInv'
  BY ShapeOfType, NextSendTypeOK, NextOneSend, NextOwnersApart, NextUncutInv DEF SendInv
<1>3. QED
  BY <1>1, <1>2, PTL DEF Spec

-----------------------------------------------------------------------------
\* A set whose elements are all equal has at most one, and exactly one unless empty.
LEMMA AtMostOne ==
    ASSUME NEW S, \A x, y \in S : x = y
    PROVE  Cardinality(S) = IF S = {} THEN 0 ELSE 1
<1>1. CASE S = {}
  BY <1>1, FS_EmptySet
<1>2. CASE S # {}
  <2>1. PICK x : x \in S
    BY <1>2
  <2>2. S = {x}
    BY <2>1
  <2>3. Cardinality({x}) = 1
    BY FS_Singleton
  <2>4. QED
    BY <1>2, <2>2, <2>3
<1>3. QED
  BY <1>1, <1>2

\* The owners of a buffer, counted.
LEMMA CountOwners ==
    ASSUME OwnersApart, NEW b \in Buffer, NEW S \in SUBSET Client, \A i \in S :
             Live(i) \/ mSendDataqueue[i] = << >>
    PROVE  /\ Places(b, S) <= 1
           /\ Places(b, S) = 0 \/ Places(b, S) = 1
           /\ \/ Occurs(b, mFreeList) # {}
              \/ \E t \in Sender : \E x \in hand[t] : x.buffer = b
              \/ \E i \in S : \E n \in DOMAIN mSendDataqueue[i] : mSendDataqueue[i][n] = b
              => Places(b, S) = 1
<1> DEFINE F == Occurs(b, mFreeList)
           H == {t \in Sender : \E x \in hand[t] : x.buffer = b}
           Q == UNION {{<<i, n>> : n \in Occurs(b, mSendDataqueue[i])} : i \in S}
<1>1. \A p : p \in Q <=> \E i \in S : \E n \in DOMAIN mSendDataqueue[i] :
                            mSendDataqueue[i][n] = b /\ p = <<i, n>>
  BY DEF Occurs
<1>2. \A i \in S : \A n \in DOMAIN mSendDataqueue[i] : Live(i)
  OBVIOUS
<1>3. /\ \A x, y \in F : x = y
      /\ \A x, y \in H : x = y
  BY DEF OwnersApart, PoolApart, HandsApart, Occurs
<1>4. \A x, y \in Q : x = y
  BY <1>1, <1>2 DEF OwnersApart, QueuesApart
<1>5. /\ F = {} \/ H = {}
      /\ F = {} \/ Q = {}
      /\ H = {} \/ Q = {}
  <2>1. F = {} \/ H = {}
    BY DEF OwnersApart, PoolApart, Occurs
  <2>2. F = {} \/ Q = {}
    BY <1>1, <1>2 DEF OwnersApart, PoolApart, Occurs
  <2>3. H = {} \/ Q = {}
    BY <1>1, <1>2 DEF OwnersApart, HandsApart
  <2>4. QED
    BY <2>1, <2>2, <2>3
<1>6. /\ (\E t \in Sender : \E x \in hand[t] : x.buffer = b) => H # {}
      /\ (\E i \in S : \E n \in DOMAIN mSendDataqueue[i] : mSendDataqueue[i][n] = b) => Q # {}
  BY <1>1
<1>7. Places(b, S) = Cardinality(F) + Cardinality(H) + Cardinality(Q)
  BY DEF Places
<1> HIDE DEF F, H, Q
<1>8. /\ Cardinality(F) = IF F = {} THEN 0 ELSE 1
      /\ Cardinality(H) = IF H = {} THEN 0 ELSE 1
      /\ Cardinality(Q) = IF Q = {} THEN 0 ELSE 1
  BY <1>3, <1>4, AtMostOne
<1>9. /\ Places(b, S) = 0 \/ Places(b, S) = 1
      /\ F # {} \/ H # {} \/ Q # {} => Places(b, S) = 1
  BY <1>5, <1>7, <1>8
<1>10. QED
  BY <1>6, <1>9 DEF F

\* However connections end, no buffer of the pool is owned twice by those who go on
\* to use it, and as long as none ends every buffer is owned: nothing is lost and
\* no two messages share a buffer (ClientSession.h:133-185, 293-309, IOCP.h:528-540,
\* ObjectPool.h:51-72).
THEOREM BufferInOnePlaceHolds == Spec => []BufferInOnePlace
<1>1. SendInv => BufferInOnePlace
  <2>1. SUFFICES ASSUME SendInv, NEW b \in Buffer
                 PROVE  /\ Places(b, {i \in Client : Going(i) # {}}) <= 1
                        /\ NoneEnded => Places(b, Client) = 1
    BY DEF BufferInOnePlace
  <2>2. Places(b, {i \in Client : Going(i) # {}}) <= 1
    <3> DEFINE S == {i \in Client : Going(i) # {}}
    <3>1. S \in SUBSET Client /\ \A i \in S : Live(i)
      BY DEF Live
    <3> HIDE DEF S
    <3>2. Places(b, S) <= 1
      BY <2>1, <3>1, CountOwners DEF SendInv
    <3>3. QED
      BY <3>2 DEF S
  <2>3. ASSUME NoneEnded
        PROVE  Places(b, Client) = 1
    <3>1. Flow
      BY <2>1, <2>3 DEF SendInv, UncutInv
    <3>2. \A i \in Client : Live(i) \/ mSendDataqueue[i] = << >>
      BY <3>1 DEF Flow, Uncut
    <3>3. \/ Occurs(b, mFreeList) # {}
          \/ \E t \in Sender : \E x \in hand[t] : x.buffer = b
          \/ \E i \in Client : \E n \in DOMAIN mSendDataqueue[i] : mSendDataqueue[i][n] = b
      BY <2>1, <3>1 DEF Flow, NoneLost, Occurs
    <3>4. QED
      BY <2>1, <3>2, <3>3, CountOwners DEF SendInv
  <2>4. QED
    BY <2>2, <2>3
<1>2. QED
  BY <1>1, SendInvHolds, PTL

\* As long as no connection ends, a session's messages go out once each in the order
\* in which they were queued (ClientSession.h:133-185, 293-309).
THEOREM SentInOrderHolds == Spec => []SentInOrder
<1>1. SendInv => SentInOrder
  <2>1. SUFFICES ASSUME SendInv, NoneEnded, NEW i \in Client
                 PROVE  /\ Len(sent[i]) <= Len(accepted[i])
                        /\ \A k \in 1..Len(sent[i]) : sent[i][k] = accepted[i][k]
    BY DEF SentInOrder
  <2>2. InOrder(i)
    BY <2>1 DEF SendInv, UncutInv, Flow
  <2>3. PICK q \in Seq(Buffer) : q = mSendDataqueue[i]
    BY <2>1 DEF SendInv, SendTypeOK
  <2>4. /\ Len(accepted[i]) \in Nat /\ Len(sent[i]) \in Nat /\ Len(q) \in Nat
        /\ (q # << >> => Len(q) > 0)
    BY <2>1 DEF SendInv, SendTypeOK
  <2>5. /\ FrontSent(i) => q # << >>
        /\ Len(sent[i]) = (Len(accepted[i]) - Len(q)) + (IF FrontSent(i) THEN 1 ELSE 0)
        /\ \A k \in 1..Len(sent[i]) : sent[i][k] = accepted[i][k]
    BY <2>2, <2>3 DEF InOrder, Ordered
  <2>6. Len(sent[i]) <= Len(accepted[i])
    <3>1. CASE FrontSent(i)
      BY <2>4, <2>5, <3>1
    <3>2. CASE ~FrontSent(i)
      BY <2>4, <2>5, <3>2
    <3>3. QED
      BY <3>1, <3>2
  <2>7. QED
    BY <2>5, <2>6
<1>2. QED
  BY <1>1, SendInvHolds, PTL
=============================================================================
