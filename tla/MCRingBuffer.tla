---------------------------- MODULE MCRingBuffer ----------------------------
(***************************************************************************)
(* RingBuffer for TLC: a buffer of a few slots, every string up to one     *)
(* byte longer than it, and the loops of Write and Read as the code spells *)
(* them, to check the closed forms used by the specification.              *)
(***************************************************************************)
EXTENDS RingBuffer, SequencesExt

MCChunk == BoundedSeq(Byte, BufferSize + 1)

Ring == [buffer |-> buffer, head |-> head, tail |-> tail, full |-> full]

\* for (i = 0; i < length; i++) { if (full) break; ... }   RingBuffer.h:81-91
WriteLoop(data) ==
    FoldLeft(LAMBDA r, byte :
                IF r.full THEN r
                ELSE LET h == (r.head + 1) % BufferSize IN
                     [r EXCEPT !.buffer[r.head] = byte, !.head = h,
                               !.full = (h = r.tail)],
             Ring, data)

\* while (read_count < max_length && !IsEmpty()) { ... }   RingBuffer.h:102-108
RECURSIVE ReadLoop(_, _, _)
ReadLoop(r, got, max) ==
    IF Len(got) < max /\ ~(r.head = r.tail /\ ~r.full)
    THEN ReadLoop([r EXCEPT !.tail = (@ + 1) % BufferSize, !.full = FALSE],
                  Append(got, r.buffer[r.tail]), max)
    ELSE [ring |-> r, got |-> got]

\* Every call of Write and of Read leaves the array, the indices and the flag
\* exactly as its byte-at-a-time loop would (RingBuffer.h:75-110).
CallsAreLoops ==
    [][ /\ \A data \in Chunk : Write(data) => Ring' = WriteLoop(data)
        /\ \A max \in 0..BufferSize :
              Read(max) => LET l == ReadLoop(Ring, << >>, max) IN
                           Ring' = l.ring /\ out' = l.got ]_ringVars
=============================================================================
