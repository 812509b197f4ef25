------------------------------ MODULE ByteQueue ------------------------------
(***************************************************************************)
(* What a receive buffer promises to its callers: a first-in first-out     *)
(* queue of at most BufferSize bytes.  A write keeps the longest prefix of *)
(* its data that fits and reports how long it was; a read removes the      *)
(* oldest bytes, as many as asked for or as there are, and hands them out  *)
(* in order.  RingBuffer is shown to implement this specification.         *)
(***************************************************************************)
EXTENDS Naturals, Sequences

CONSTANTS BufferSize,   \* capacity in bytes
          Byte,         \* values of a byte
          Chunk         \* the byte strings callers write

VARIABLES queue,        \* the bytes held, oldest first
          ret,          \* number returned by the last call
          out           \* bytes handed to the caller by the last call

vars == <<queue, ret, out>>

Least(a, b) == IF a <= b THEN a ELSE b

Init == queue = << >> /\ ret = 0 /\ out = << >>

Put(data) ==
    LET n == Least(Len(data), BufferSize - Len(queue)) IN
    /\ queue' = queue \o SubSeq(data, 1, n)
    /\ ret' = n
    /\ out' = << >>

Take(max) ==
    LET n == Least(max, Len(queue)) IN
    /\ queue' = SubSeq(queue, n + 1, Len(queue))
    /\ ret' = n
    /\ out' = SubSeq(queue, 1, n)

Empty ==
    /\ queue' = << >>
    /\ UNCHANGED <<ret, out>>

Next ==
    \/ \E data \in Chunk : Put(data)
    \/ \E max \in 0..BufferSize : Take(max)
    \/ Empty

Spec == Init /\ [][Next]_vars
=============================================================================
