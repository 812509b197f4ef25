---------------------------- MODULE PacketFraming ----------------------------
(***************************************************************************)
(* One user's receive path (User.h, PacketManager.cpp): a client sends     *)
(* packets, TCP delivers their bytes in pieces of any size, an IOCP worker *)
(* stores each piece in the user's ring (SetPacketData) and queues a task, *)
(* and the logic thread cuts packets out of the ring (GetPacket) until it  *)
(* finds no complete one, once per task.                                   *)
(*                                                                         *)
(* A packet starts with a header of HeaderLength bytes: the first is its   *)
(* total length (PacketLength), the second its PacketId, the rest are not  *)
(* looked at.  A PacketId of 0 is what GetPacket returns for "none".       *)
(***************************************************************************)
EXTENDS RingBuffer

CONSTANTS HeaderLength,   \* PACKET_HEADER_LENGTH
          Packet,         \* the packets clients send
          MaxRecv,        \* bytes one receive delivers at most
          MaxSent,        \* bound: packets sent
          MaxGot          \* bound: packets cut out of the ring

ASSUME HeaderAssumption == HeaderLength \in Nat /\ HeaderLength >= 2 /\ MaxRecv \in Nat

\* the bytes of a header are numbers
ASSUME ByteAssumption == Byte \subseteq Nat

\* clients send whole packets whose header tells their length, of a known type,
\* and none larger than the receive buffer
ASSUME PacketAssumption ==
    \A p \in Packet : /\ p \in Seq(Byte) /\ Len(p) >= HeaderLength /\ Len(p) <= BufferSize
                      /\ p[1] = Len(p) /\ p[2] # 0

VARIABLES sent,       \* packets the client has sent
          stream,     \* their bytes still on the way
          tasks,      \* queued tasks of this user
          draining,   \* the logic thread is in the GetPacket loop of a task
          got,        \* packets handed to the handlers
          dropped     \* some SetPacketData could not store all of its bytes

vars == <<buffer, head, tail, full, ret, out, sent, stream, tasks, draining, got, dropped>>

Init ==
    /\ InitRing
    /\ sent = << >> /\ stream = << >> /\ tasks = 0
    /\ draining = FALSE /\ got = << >> /\ dropped = FALSE

ClientSend(p) ==
    /\ Len(sent) < MaxSent
    /\ sent' = Append(sent, p)
    /\ stream' = stream \o p
    /\ UNCHANGED <<ringVars, tasks, draining, got, dropped>>

\* SetPacketData of the next n bytes of the stream, then the task
ReceivePacketData(n) ==
    /\ n <= Len(stream)
    /\ Write(SubSeq(stream, 1, n))
    /\ dropped' = (dropped \/ ret' < n)
    /\ stream' = SubSeq(stream, n + 1, Len(stream))
    /\ tasks' = tasks + 1
    /\ UNCHANGED <<sent, draining, got>>

TakeTask ==
    /\ ~draining /\ tasks > 0
    /\ tasks' = tasks - 1
    /\ draining' = TRUE
    /\ UNCHANGED <<ringVars, sent, stream, got, dropped>>

\* PacketLength and PacketId of the peeked header
PeekedLength == Peek(0)
PeekedId == Peek(1)

\* mutant: looks only at the header before it reads
CompleteNoLength == Size >= HeaderLength

Complete == Size >= HeaderLength /\ PeekedLength <= Size

\* mutant: the task is done after its first packet
GetPacketOnce ==
    /\ draining /\ Complete /\ PeekedId # 0
    /\ Len(got) < MaxGot
    /\ Read(PeekedLength)
    /\ got' = Append(got, [id |-> PeekedId, data |-> out'])
    /\ draining' = FALSE
    /\ UNCHANGED <<sent, stream, tasks, dropped>>

\* GetPacket returns a packet, which is dispatched, and the loop goes on ...
GetPacketSome ==
    /\ draining /\ Complete /\ PeekedId # 0
    /\ Len(got) < MaxGot
    /\ Read(PeekedLength)
    /\ got' = Append(got, [id |-> PeekedId, data |-> out'])
    /\ UNCHANGED <<sent, stream, tasks, draining, dropped>>

\* ... or PacketInfo(), and the task is done; a packet whose id is 0 has been
\* read out of the ring all the same
GetPacketNone ==
    /\ draining
    /\ \/ ~Complete /\ UNCHANGED ringVars
       \/ Complete /\ PeekedId = 0 /\ Read(PeekedLength)
    /\ draining' = FALSE
    /\ UNCHANGED <<sent, stream, tasks, got, dropped>>

Next ==
    \/ \E p \in Packet : ClientSend(p)
    \/ \E n \in 1..MaxRecv : ReceivePacketData(n)
    \/ TakeTask
    \/ GetPacketSome
    \/ GetPacketNone

\* the logic thread keeps running; the network delivers what was sent
Fairness ==
    /\ WF_vars(TakeTask) /\ WF_vars(GetPacketSome) /\ WF_vars(GetPacketNone)
    /\ WF_vars(\E n \in 1..MaxRecv : ReceivePacketData(n))

Spec == Init /\ [][Next]_vars /\ Fairness

-----------------------------------------------------------------------------
\* Ring and queue state keep their types.
FramingTypeOK ==
    /\ RingTypeOK
    /\ sent \in Seq(Packet) /\ stream \in Seq(Byte) /\ got \in Seq([id : Byte, data : Seq(Byte)])
    /\ tasks \in Nat /\ draining \in BOOLEAN /\ dropped \in BOOLEAN

Cut(p) == [id |-> p[2], data |-> p]

\* However TCP splits or joins the packets, and however receives interleave
\* with the logic thread, the packets handed to the handlers are the ones the
\* client sent, whole, in order, each once, as long as no receive found the
\* ring too full for its bytes (User.h:79-150).
PacketsIntact ==
    ~dropped => /\ Len(got) <= Len(sent)
                /\ \A k \in 1..Len(got) : got[k] = Cut(sent[k])

\* No packet is left behind in the ring: every packet sent is eventually handed
\* to its handler, unless bytes are dropped.  One task per receive is enough
\* because each task drains the ring (PacketManager.cpp:262-294, User.h:96-150).
EventuallyHandled ==
    \A k \in 1..MaxSent : (Len(sent) >= k) ~> (Len(got) >= k \/ dropped)
==============================================================================
