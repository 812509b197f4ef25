----------------------------- MODULE RingBuffer -----------------------------
(***************************************************************************)
(* RingBuffer<BufferSize> (RingBuffer.h): a byte array with a write index  *)
(* head, a read index tail and a flag that tells the full buffer from the  *)
(* empty one when the two indices meet.  The byte-at-a-time loops of Write *)
(* and Read are given by what they leave behind; MCRingBuffer checks that  *)
(* against the loops themselves.  Callers hold the user's buffer mutex, so *)
(* every call is one step.                                                 *)
(***************************************************************************)
EXTENDS Naturals, Sequences

CONSTANTS BufferSize,   \* template parameter BufferSize
          Byte,         \* values of a char
          Chunk         \* the byte strings handed to Write

ASSUME BufferSizeAssumption == BufferSize \in Nat \ {0}
ASSUME ChunkAssumption == Chunk \subseteq Seq(Byte) /\ \A byte \in Byte : <<byte>> \in Chunk

VARIABLES buffer, head, tail, full,
          ret,          \* number returned by the last call (1/0 for a bool)
          out           \* bytes stored through the caller's output pointer

ringVars == <<buffer, head, tail, full, ret, out>>

Index == 0..(BufferSize - 1)

LeastOf(a, b) == IF a <= b THEN a ELSE b

IsEmpty == head = tail /\ ~full

Size == IF full THEN BufferSize
        ELSE IF head >= tail THEN head - tail
        ELSE (BufferSize - tail) + head

Advance(index, n) == (index + n) % BufferSize

\* the byte Peek(byte, offset) stores; it succeeds iff offset < Size
Peek(offset) == buffer[Advance(tail, offset)]

\* the bytes held, oldest first
Content == [k \in 1..Size |-> Peek(k - 1)]

InitRing ==
    /\ buffer \in [Index -> Byte]
    /\ head = 0 /\ tail = 0 /\ full = FALSE
    /\ ret = 0 /\ out = << >>

Write(data) ==
    LET n == LeastOf(Len(data), BufferSize - Size)
        \* the position in data of the byte that lands in slot i
        Nth(i) == IF i >= head THEN i - head ELSE (BufferSize - head) + i
    IN
    /\ buffer' = [i \in Index |-> IF Nth(i) < n THEN data[Nth(i) + 1] ELSE buffer[i]]
    /\ head' = Advance(head, n)
    /\ full' = (full \/ (n > 0 /\ head' = tail))
    /\ ret' = n
    /\ out' = << >>
    /\ UNCHANGED tail

\* mutant: Read that forgets to reset the full flag
ReadStaysFull(max) ==
    LET n == LeastOf(max, Size) IN
    /\ out' = [k \in 1..n |-> Peek(k - 1)]
    /\ tail' = Advance(tail, n)
    /\ ret' = n
    /\ UNCHANGED <<buffer, head, full>>

Read(max) ==
    LET n == LeastOf(max, Size) IN
    /\ out' = [k \in 1..n |-> Peek(k - 1)]
    /\ tail' = Advance(tail, n)
    /\ full' = (full /\ n = 0)
    /\ ret' = n
    /\ UNCHANGED <<buffer, head>>

WriteByte(byte) ==
    \/ /\ full
       /\ ret' = 0 /\ out' = << >>
       /\ UNCHANGED <<buffer, head, tail, full>>
    \/ /\ ~full
       /\ buffer' = [buffer EXCEPT ![head] = byte]
       /\ head' = Advance(head, 1)
       /\ full' = (head' = tail)
       /\ ret' = 1 /\ out' = << >>
       /\ UNCHANGED tail

ReadByte ==
    \/ /\ IsEmpty
       /\ ret' = 0 /\ out' = << >>
       /\ UNCHANGED <<buffer, head, tail, full>>
    \/ /\ ~IsEmpty
       /\ out' = <<buffer[tail]>>
       /\ tail' = Advance(tail, 1)
       /\ full' = FALSE
       /\ ret' = 1
       /\ UNCHANGED <<buffer, head>>

\* mutant: Clear that leaves the full flag behind
ClearKeepsFull ==
    /\ head' = 0 /\ tail' = 0
    /\ UNCHANGED <<full, buffer, ret, out>>

Clear ==
    /\ head' = 0 /\ tail' = 0 /\ full' = FALSE
    /\ UNCHANGED <<buffer, ret, out>>

NextRing ==
    \/ \E data \in Chunk : Write(data)
    \/ \E max \in 0..BufferSize : Read(max)
    \/ \E byte \in Byte : WriteByte(byte)
    \/ ReadByte
    \/ Clear

SpecRing == InitRing /\ [][NextRing]_ringVars

-----------------------------------------------------------------------------
\* The indices stay inside the array and the buffer is declared full only
\* when the write index has caught up with the read index (RingBuffer.h:57,
\* 87); WriteByte and Write rely on it to tell full from empty.
RingTypeOK ==
    /\ buffer \in [Index -> Byte]
    /\ head \in Index /\ tail \in Index
    /\ full \in BOOLEAN
    /\ full => head = tail
    /\ ret \in 0..BufferSize
    /\ out \in Seq(Byte)

Queue == INSTANCE ByteQueue WITH queue <- Content

\* Whatever mix of calls is made, and wherever the indices wrap, the ring
\* behaves as a bounded first-in first-out queue of bytes: no byte is lost,
\* repeated or reordered (RingBuffer.h:50-129).
ImplementsByteQueue == Queue!Spec
=============================================================================
