---------------------------- MODULE FramingProofs ----------------------------
(***************************************************************************)
(* RingBuffer is a bounded first-in first-out queue of bytes, for every    *)
(* buffer size, every byte alphabet and every mix of calls; and however    *)
(* the stream of a client is cut, the packets come out of the ring as they *)
(* were sent, for every size of the ring, every set of packets and every   *)
(* size of a receive.                                                      *)
(***************************************************************************)
EXTENDS PacketFraming, SequenceTheorems, TLAPS

-----------------------------------------------------------------------------
\* Index arithmetic: one wrap at most

\* The remainder of an index that is past the end by less than one buffer.
LEMMA WrapOnce ==
    ASSUME NEW b \in Nat \ {0}, NEW x \in Nat, x < 2 * b
    PROVE  x % b = IF x < b THEN x ELSE x - b
<1>1. CASE x < b
  BY <1>1
<1>2. CASE x >= b
  <2>1. PICK y \in Nat : y = x - b /\ y < b
    BY <1>2
  <2>2. x = y + 1 * b
    BY <2>1
  <2>3. QED
    BY <1>2, <2>1, <2>2
<1>3. QED
  BY <1>1, <1>2

\* An index that has moved on by at most the buffer size (RingBuffer.h:56, 69).
LEMMA AdvanceValue ==
    ASSUME NEW index \in Index, NEW n \in 0..BufferSize
    PROVE  /\ Advance(index, n) = IF index + n < BufferSize THEN index + n
                                  ELSE index + n - BufferSize
           /\ Advance(index, n) \in Index
<1>1. PICK x \in Nat : x = index + n /\ x < 2 * BufferSize
  BY BufferSizeAssumption DEF Index
<1>2. x % BufferSize = IF x < BufferSize THEN x ELSE x - BufferSize
  BY <1>1, WrapOnce, BufferSizeAssumption
<1>3. Advance(index, n) = x % BufferSize
  BY <1>1, Zenon DEF Advance
<1>4. QED
  BY <1>1, <1>2, <1>3, BufferSizeAssumption DEF Index

\* The number of bytes held fits the buffer (RingBuffer.h:39-48).
LEMMA SizeType ==
    ASSUME RingTypeOK
    PROVE  Size \in 0..BufferSize
BY BufferSizeAssumption DEF RingTypeOK, Size, Index

\* The bytes held form a sequence of that length ...
ContentOK ==
    /\ Content \in Seq(Byte) /\ Len(Content) = Size
    /\ \A k \in 1..Size : Content[k] = Peek(k - 1) /\ Peek(k - 1) \in Byte

\* The bytes held form a sequence as long as Size says (RingBuffer.h:39-48, 112-122).
LEMMA ContentType == RingTypeOK => ContentOK
<1> SUFFICES ASSUME RingTypeOK PROVE ContentOK
  OBVIOUS
<1>1. Size \in 0..BufferSize /\ Size \in Nat /\ BufferSize \in Nat \ {0}
  BY SizeType, BufferSizeAssumption
<1>2. ASSUME NEW k \in 1..Size PROVE Peek(k - 1) \in Byte
  <2>1. Advance(tail, k - 1) \in Index
    BY <1>1, AdvanceValue DEF RingTypeOK
  <2>2. QED
    BY <2>1 DEF Peek, RingTypeOK
<1>3. QED
  BY <1>1, <1>2 DEF Content, ContentOK

\* ... before and after a step.
LEMMA ContentTypeNext == RingTypeOK' => ContentOK'
BY ContentType, PTL

-----------------------------------------------------------------------------
\* The one-byte calls are Write and Read of one byte (RingBuffer.h:50-73)

\* WriteByte does what Write does with one byte (RingBuffer.h:50-61, 75-94).
LEMMA WriteByteIsWrite ==
    ASSUME RingTypeOK, NEW byte \in Byte, WriteByte(byte)
    PROVE  Write(<<byte>>)
<1> DEFINE Nth(i) == IF i >= head THEN i - head ELSE (BufferSize - head) + i
           n == LeastOf(Len(<<byte>>), BufferSize - Size)
<1>0. BufferSize \in Nat \ {0} /\ head \in Index /\ tail \in Index /\ full \in BOOLEAN
  BY BufferSizeAssumption DEF RingTypeOK
<1>1. CASE full
  <2>1. n = 0
    BY <1>0, <1>1 DEF LeastOf, Size
  <2>2. \A i \in Index : ~(Nth(i) < n)
    BY <1>0, <2>1 DEF Index
  <2>3. [i \in Index |-> IF Nth(i) < n THEN <<byte>>[Nth(i) + 1] ELSE buffer[i]] = buffer
    BY <2>2 DEF RingTypeOK
  <2>4. Advance(head, n) = head
    BY <1>0, <2>1, AdvanceValue DEF Index
  <2>5. UNCHANGED <<buffer, head, tail, full>> /\ ret' = 0 /\ out' = << >>
    BY <1>1 DEF WriteByte
  <2>6. QED
    BY <1>1, <2>1, <2>3, <2>4, <2>5 DEF Write
<1>2. CASE ~full
  <2>1. n = 1
    BY <1>0, <1>2 DEF LeastOf, Size, Index
  <2>2. \A i \in Index : Nth(i) < n <=> i = head
    BY <1>0, <2>1 DEF Index
  <2>3. Nth(head) + 1 = 1 /\ <<byte>>[1] = byte
    BY <1>0 DEF Index
  <2>4. [i \in Index |-> IF Nth(i) < n THEN <<byte>>[Nth(i) + 1] ELSE buffer[i]]
          = [buffer EXCEPT ![head] = byte]
    BY <1>0, <2>2, <2>3 DEF RingTypeOK
  <2>5. /\ buffer' = [buffer EXCEPT ![head] = byte]
        /\ head' = Advance(head, 1)
        /\ full' = (head' = tail)
        /\ ret' = 1 /\ out' = << >> /\ UNCHANGED tail
    BY <1>2 DEF WriteByte
  <2>6. QED
    BY <1>2, <2>1, <2>4, <2>5 DEF Write
<1>3. QED
  BY <1>0, <1>1, <1>2

\* ReadByte does what Read does with a limit of one (RingBuffer.h:63-73, 96-110).
LEMMA ReadByteIsRead ==
    ASSUME RingTypeOK, ReadByte
    PROVE  Read(1)
<1> DEFINE n == LeastOf(1, Size)
<1>0. BufferSize \in Nat \ {0} /\ head \in Index /\ tail \in Index /\ full \in BOOLEAN
  BY BufferSizeAssumption DEF RingTypeOK
<1>1. CASE IsEmpty
  <2>1. n = 0 /\ full = FALSE
    BY <1>0, <1>1 DEF LeastOf, Size, IsEmpty, Index
  <2>2. Advance(tail, n) = tail
    BY <1>0, <2>1, AdvanceValue DEF Index
  <2>3. [k \in 1..n |-> Peek(k - 1)] = << >>
    BY <2>1
  <2>4. UNCHANGED <<buffer, head, tail, full>> /\ ret' = 0 /\ out' = << >>
    BY <1>1 DEF ReadByte
  <2>5. QED
    BY <2>1, <2>2, <2>3, <2>4 DEF Read
<1>2. CASE ~IsEmpty
  <2>1. n = 1
    BY <1>0, <1>2 DEF LeastOf, Size, IsEmpty, Index, RingTypeOK
  <2>2. Peek(0) = buffer[tail]
    <3>1. Advance(tail, 0) = tail
      BY <1>0, AdvanceValue DEF Index
    <3>2. QED
      BY <3>1 DEF Peek
  <2>3. [k \in 1..n |-> Peek(k - 1)] = <<buffer[tail]>>
    BY <2>1, <2>2
  <2>4. /\ out' = <<buffer[tail]>>
        /\ tail' = Advance(tail, 1)
        /\ full' = FALSE /\ ret' = 1
        /\ UNCHANGED <<buffer, head>>
    BY <1>2 DEF ReadByte
  <2>5. full' = (full /\ n = 0)
    <3>1. ~(full /\ n = 0)
      BY <2>1
    <3>2. QED
      BY <2>4, <3>1
  <2>6. out' = [k \in 1..n |-> Peek(k - 1)] /\ tail' = Advance(tail, n) /\ ret' = n
    BY <2>1, <2>3, <2>4
  <2>7. QED
    BY <2>4, <2>5, <2>6, Zenon DEF Read
<1>3. QED
  BY <1>1, <1>2

-----------------------------------------------------------------------------
\* Write (RingBuffer.h:75-94)

\* A write keeps the types, adds n bytes and leaves the read index alone.
LEMMA WriteSize ==
    ASSUME RingTypeOK, NEW data \in Seq(Byte), Write(data)
    PROVE  LET n == LeastOf(Len(data), BufferSize - Size) IN
           RingTypeOK' /\ Size' = Size + n /\ n \in 0..BufferSize
<1> DEFINE n == LeastOf(Len(data), BufferSize - Size)
           Nth(i) == IF i >= head THEN i - head ELSE (BufferSize - head) + i
<1>0. BufferSize \in Nat \ {0} /\ head \in Index /\ tail \in Index /\ full \in BOOLEAN
  BY BufferSizeAssumption DEF RingTypeOK
<1>1. Len(data) \in Nat /\ Size \in 0..BufferSize
  BY SizeType
<1>2. n \in 0..BufferSize /\ n <= Len(data) /\ Size + n <= BufferSize
  BY <1>0, <1>1 DEF LeastOf
<1>3. /\ buffer' = [i \in Index |-> IF Nth(i) < n THEN data[Nth(i) + 1] ELSE buffer[i]]
      /\ head' = Advance(head, n)
      /\ full' = (full \/ (n > 0 /\ head' = tail))
      /\ ret' = n /\ out' = << >> /\ tail' = tail
  BY DEF Write
<1> HIDE DEF n
<1>4. ASSUME NEW i \in Index
      PROVE  (IF Nth(i) < n THEN data[Nth(i) + 1] ELSE buffer[i]) \in Byte
  <2>1. Nth(i) \in Nat
    BY <1>0 DEF Index
  <2>2. CASE Nth(i) < n
    BY <1>1, <1>2, <2>1, <2>2
  <2>3. CASE ~(Nth(i) < n)
    BY <2>3 DEF RingTypeOK
  <2>4. QED
    BY <2>2, <2>3
<1>5. buffer' \in [Index -> Byte]
  BY <1>3, <1>4
<1>6. /\ head' = IF head + n < BufferSize THEN head + n ELSE head + n - BufferSize
      /\ head' \in Index
  BY <1>0, <1>2, <1>3, AdvanceValue
<1>7. full' \in BOOLEAN /\ (full' => head' = tail')
  <2>1. CASE full
    <3>1. n = 0 /\ head = tail
      BY <1>0, <1>1, <1>2, <2>1 DEF Size, RingTypeOK
    <3>2. QED
      BY <1>0, <1>3, <1>6, <2>1, <3>1 DEF Index
  <2>2. CASE ~full
    BY <1>3, <2>2
  <2>3. QED
    BY <1>0, <2>1, <2>2
<1>8. Size' = Size + n
  <2>1. CASE full
    <3>1. n = 0
      BY <1>0, <1>1, <1>2, <2>1 DEF Size
    <3>2. full'
      BY <1>3, <2>1
    <3>3. QED
      BY <1>0, <2>1, <3>1, <3>2 DEF Size
  <2>2. CASE ~full /\ n > 0 /\ head' = tail
    <3>1. full'
      BY <1>3, <2>2
    <3>2. QED
      BY <1>0, <1>2, <1>6, <2>2, <3>1 DEF Size, Index
  <2>3. CASE ~full /\ ~(n > 0 /\ head' = tail)
    <3>1. ~full'
      BY <1>3, <2>3
    <3>2. QED
      BY <1>0, <1>1, <1>2, <1>3, <1>6, <2>3, <3>1 DEF Size, Index
  <2>4. QED
    BY <2>1, <2>2, <2>3
<1>9. RingTypeOK'
  <2>1. ret' \in 0..BufferSize /\ out' \in Seq(Byte)
    BY <1>2, <1>3
  <2>2. QED
    BY <1>0, <1>3, <1>5, <1>6, <1>7, <2>1 DEF RingTypeOK, Index
<1>10. QED
  BY <1>2, <1>8, <1>9 DEF n

\* A write appends the prefix of its data that fits: no unread byte changes, and
\* the new bytes follow in order.
LEMMA WriteContent ==
    ASSUME RingTypeOK, NEW data \in Seq(Byte), Write(data)
    PROVE  Content' = Content \o SubSeq(data, 1, LeastOf(Len(data), BufferSize - Size))
<1> DEFINE n == LeastOf(Len(data), BufferSize - Size)
           Nth(i) == IF i >= head THEN i - head ELSE (BufferSize - head) + i
           new == SubSeq(data, 1, n)
<1>0. BufferSize \in Nat \ {0} /\ head \in Index /\ tail \in Index /\ full \in BOOLEAN
  BY BufferSizeAssumption DEF RingTypeOK
<1>1. Len(data) \in Nat /\ Size \in 0..BufferSize
  BY SizeType
<1>2. n \in 0..BufferSize /\ n <= Len(data) /\ Size + n <= BufferSize
  BY <1>0, <1>1 DEF LeastOf
<1>3. /\ buffer' = [i \in Index |-> IF Nth(i) < n THEN data[Nth(i) + 1] ELSE buffer[i]]
      /\ tail' = tail
  BY DEF Write
<1>4. RingTypeOK' /\ Size' = Size + n
  BY WriteSize
<1> HIDE DEF n
<1>5. /\ Content \in Seq(Byte) /\ Len(Content) = Size
      /\ \A k \in 1..Size : Content[k] = Peek(k - 1)
  BY ContentType DEF ContentOK
<1>6. /\ Content' \in Seq(Byte) /\ Len(Content') = Size'
      /\ \A k \in 1..Size' : Content'[k] = Peek(k - 1)'
  BY <1>4, ContentTypeNext DEF ContentOK
<1>7. new \in Seq(Byte) /\ Len(new) = n /\ \A k \in 1..n : new[k] = data[k]
  <2>1. \A k \in 1..n : data[k] \in Byte
    BY <1>1, <1>2
  <2>2. /\ new \in Seq(Byte)
        /\ Len(new) = IF 1 <= n THEN n - 1 + 1 ELSE 0
        /\ \A k \in 1..(n - 1 + 1) : new[k] = data[1 + k - 1]
    BY <1>2, <2>1, SubSeqProperties
  <2>3. QED
    BY <1>2, <2>2
<1>8. /\ Content \o new \in Seq(Byte) /\ Len(Content \o new) = Size + n
      /\ \A k \in 1..(Size + n) : (Content \o new)[k] =
            IF k <= Size THEN Content[k] ELSE new[k - Size]
  BY <1>5, <1>7, ConcatProperties, SMTT(40)
<1>9. ASSUME NEW k \in 1..(Size + n)
      PROVE  Content'[k] = (Content \o new)[k]
  <2> DEFINE slot == Advance(tail, k - 1)
  <2>1. k - 1 \in 0..BufferSize
    BY <1>0, <1>1, <1>2
  <2>2. /\ slot = IF tail + (k - 1) < BufferSize THEN tail + (k - 1)
                  ELSE tail + (k - 1) - BufferSize
        /\ slot \in Index
    BY <1>0, <2>1, AdvanceValue
  <2>3. Content'[k] = buffer'[slot]
    <3>1. Content'[k] = Peek(k - 1)'
      BY <1>4, <1>6
    <3>2. QED
      BY <1>3, <3>1 DEF Peek, Advance
  <2>4. Peek(k - 1) = buffer[slot]
    BY DEF Peek
  <2> HIDE DEF slot
  <2>5. CASE k <= Size
    <3>1. ~(Nth(slot) < n)
      BY <1>0, <1>1, <1>2, <2>2, <2>5 DEF Size, Index, RingTypeOK
    <3>2. buffer'[slot] = buffer[slot]
      BY <1>3, <2>2, <3>1
    <3>3. Content[k] = Peek(k - 1)
      BY <1>1, <1>5, <2>5
    <3>4. (Content \o new)[k] = Content[k]
      BY <1>8, <2>5
    <3>5. QED
      BY <2>3, <2>4, <3>2, <3>3, <3>4
  <2>6. CASE k > Size
    <3>1. Nth(slot) = k - 1 - Size
      BY <1>0, <1>1, <1>2, <2>2, <2>6 DEF Size, Index, RingTypeOK
    <3>2. Nth(slot) < n /\ Nth(slot) + 1 = k - Size /\ k - Size \in 1..n
      BY <1>1, <1>2, <2>6, <3>1
    <3>3. buffer'[slot] = data[k - Size]
      BY <1>3, <2>2, <3>2
    <3>4. (Content \o new)[k] = new[k - Size] /\ new[k - Size] = data[k - Size]
      BY <1>1, <1>7, <1>8, <2>6, <3>2
    <3>5. QED
      BY <2>3, <3>3, <3>4
  <2>7. k <= Size \/ k > Size
    BY <1>1, <1>2
  <2>8. QED
    BY <2>5, <2>6, <2>7, Zenon
<1>10. Content' = Content \o new
  <2>1. Len(Content') = Len(Content \o new) /\ 1..Len(Content') = 1..(Size + n)
    BY <1>4, <1>6, <1>8
  <2>2. \A k \in 1..Len(Content') : Content'[k] = (Content \o new)[k]
    BY <1>9, <2>1
  <2>3. QED
    BY <1>6, <1>8, <2>1, <2>2, SeqEqual
<1>11. QED
  BY <1>10 DEF n

-----------------------------------------------------------------------------
\* Read (RingBuffer.h:96-110)

\* A read keeps the types and takes n bytes away.
LEMMA ReadSize ==
    ASSUME RingTypeOK, NEW max \in Nat, Read(max)
    PROVE  LET n == LeastOf(max, Size) IN
           RingTypeOK' /\ Size' = Size - n /\ n \in 0..Size
<1> DEFINE n == LeastOf(max, Size)
<1>0. BufferSize \in Nat \ {0} /\ head \in Index /\ tail \in Index /\ full \in BOOLEAN
  BY BufferSizeAssumption DEF RingTypeOK
<1>1. Size \in 0..BufferSize
  BY SizeType
<1>2. n \in 0..Size /\ n \in 0..BufferSize
  BY <1>0, <1>1 DEF LeastOf
<1>3. /\ out' = [k \in 1..n |-> Peek(k - 1)]
      /\ tail' = Advance(tail, n)
      /\ full' = (full /\ n = 0)
      /\ ret' = n /\ buffer' = buffer /\ head' = head
  BY DEF Read
<1> HIDE DEF n
<1>4. /\ tail' = IF tail + n < BufferSize THEN tail + n ELSE tail + n - BufferSize
      /\ tail' \in Index
  BY <1>0, <1>2, <1>3, AdvanceValue
<1>5. full' \in BOOLEAN /\ (full' => head' = tail')
  <2>1. CASE full /\ n = 0
    <3>1. head = tail
      BY <2>1 DEF RingTypeOK
    <3>2. QED
      BY <1>0, <1>3, <1>4, <2>1, <3>1 DEF Index
  <2>2. CASE ~(full /\ n = 0)
    BY <1>3, <2>2
  <2>3. QED
    BY <2>1, <2>2
<1>6. Size' = Size - n
  <2>1. CASE full /\ n = 0
    <3>1. full'
      BY <1>3, <2>1
    <3>2. QED
      BY <1>0, <2>1, <3>1 DEF Size
  <2>2. CASE full /\ n # 0
    <3>1. ~full'
      BY <1>3, <2>2
    <3>2. head = tail
      BY <2>2 DEF RingTypeOK
    <3>3. QED
      BY <1>0, <1>2, <1>3, <1>4, <2>2, <3>1, <3>2 DEF Size, Index
  <2>3. CASE ~full
    <3>1. ~full'
      BY <1>3, <2>3
    <3>2. QED
      BY <1>0, <1>2, <1>3, <1>4, <2>3, <3>1 DEF Size, Index
  <2>4. QED
    BY <2>1, <2>2, <2>3
<1>7. RingTypeOK'
  <2>1. \A k \in 1..n : Peek(k - 1) \in Byte
    <3>1. \A k \in 1..Size : Peek(k - 1) \in Byte
      BY ContentType DEF ContentOK
    <3>2. 1..n \subseteq 1..Size
      BY <1>1, <1>2
    <3>3. QED
      BY <3>1, <3>2, Zenon
  <2>2. out' \in Seq(Byte)
    BY <1>2, <1>3, <2>1
  <2>3. QED
    BY <1>0, <1>2, <1>3, <1>4, <1>5, <2>2 DEF RingTypeOK
<1>8. QED
  BY <1>2, <1>6, <1>7 DEF n

\* A read hands out the oldest bytes in order and leaves the others.
LEMMA ReadContent ==
    ASSUME RingTypeOK, NEW max \in Nat, Read(max)
    PROVE  LET n == LeastOf(max, Size) IN
           /\ out' = SubSeq(Content, 1, n)
           /\ Content' = SubSeq(Content, n + 1, Size)
<1> DEFINE n == LeastOf(max, Size)
           oldest == SubSeq(Content, 1, n)
           rest == SubSeq(Content, n + 1, Size)
<1>0. BufferSize \in Nat \ {0} /\ tail \in Index
  BY BufferSizeAssumption DEF RingTypeOK
<1>1. Size \in 0..BufferSize /\ Size \in Nat
  BY <1>0, SizeType
<1>2. RingTypeOK' /\ Size' = Size - n /\ n \in 0..Size
  BY ReadSize
<1>3. /\ out' = [k \in 1..n |-> Peek(k - 1)]
      /\ tail' = Advance(tail, n) /\ buffer' = buffer
  BY DEF Read
<1> HIDE DEF n
<1>4. /\ Content \in Seq(Byte) /\ Len(Content) = Size
      /\ \A k \in 1..Size : Content[k] = Peek(k - 1) /\ Content[k] \in Byte
  BY ContentType DEF ContentOK
<1>5. /\ Content' \in Seq(Byte) /\ Len(Content') = Size'
      /\ \A k \in 1..Size' : Content'[k] = Peek(k - 1)'
  BY <1>2, ContentTypeNext DEF ContentOK
<1>6. out' = oldest
  <2>1. n \in Nat /\ \A k \in 1..n : Content[k] \in Byte /\ Content[k] = Peek(k - 1)
    BY <1>1, <1>2, <1>4
  <2>2. /\ oldest \in Seq(Byte)
        /\ Len(oldest) = IF 1 <= n THEN n - 1 + 1 ELSE 0
        /\ \A k \in 1..(n - 1 + 1) : oldest[k] = Content[1 + k - 1]
    BY <2>1, SubSeqProperties
  <2>3. Len(oldest) = n /\ \A k \in 1..n : oldest[k] = Content[k]
    BY <2>1, <2>2
  <2>4. out' \in Seq(Byte) /\ Len(out') = n /\ \A k \in 1..n : out'[k] = Content[k]
    <3>1. out' = [k \in 1..n |-> Content[k]]
      BY <1>3, <2>1, Zenon
    <3>2. QED
      BY <2>1, <3>1
  <2>5. \A k \in 1..Len(out') : out'[k] = oldest[k]
    BY <2>3, <2>4
  <2>6. QED
    BY <2>2, <2>3, <2>4, <2>5, SeqEqual
<1>7. Content' = rest
  <2>1. n \in Nat /\ \A k \in (n + 1)..Size : Content[k] \in Byte
    BY <1>1, <1>2, <1>4
  <2>2. /\ rest \in Seq(Byte)
        /\ Len(rest) = IF n + 1 <= Size THEN Size - (n + 1) + 1 ELSE 0
        /\ \A k \in 1..(Size - (n + 1) + 1) : rest[k] = Content[(n + 1) + k - 1]
    BY <1>1, <2>1, SubSeqProperties
  <2>3. Len(rest) = Size - n /\ \A k \in 1..(Size - n) : rest[k] = Content[n + k]
    BY <1>1, <1>2, <2>1, <2>2
  <2>4. ASSUME NEW k \in 1..(Size - n)
        PROVE  Content'[k] = Content[n + k]
    <3>1. Advance(tail', k - 1) = Advance(tail, n + k - 1)
      <4>1. /\ tail' = IF tail + n < BufferSize THEN tail + n ELSE tail + n - BufferSize
            /\ tail' \in Index
        BY <1>0, <1>1, <1>2, <1>3, AdvanceValue
      <4>2. k - 1 \in 0..BufferSize /\ n + k - 1 \in 0..BufferSize
        BY <1>0, <1>1, <1>2
      <4>3. Advance(tail', k - 1) = IF tail' + (k - 1) < BufferSize THEN tail' + (k - 1)
                                    ELSE tail' + (k - 1) - BufferSize
        BY <4>1, <4>2, AdvanceValue
      <4>4. Advance(tail, n + k - 1) = IF tail + (n + k - 1) < BufferSize THEN tail + (n + k - 1)
                                       ELSE tail + (n + k - 1) - BufferSize
        BY <1>0, <4>2, AdvanceValue
      <4>5. QED
        BY <1>0, <1>1, <1>2, <4>1, <4>2, <4>3, <4>4 DEF Index
    <3>2. Content'[k] = Peek(k - 1)'
      BY <1>2, <1>5
    <3>3. Peek(k - 1)' = buffer[Advance(tail', k - 1)]
      BY <1>3 DEF Peek, Advance
    <3>4. n + k \in 1..Size /\ Content[n + k] = Peek(n + k - 1)
      BY <1>1, <1>2, <1>4
    <3>5. Peek(n + k - 1) = buffer[Advance(tail, n + k - 1)]
      BY DEF Peek
    <3>6. QED
      BY <3>1, <3>2, <3>3, <3>4, <3>5
  <2>5. Len(Content') = Len(rest) /\ 1..Len(Content') = 1..(Size - n)
    BY <1>2, <1>5, <2>3
  <2>6. \A k \in 1..Len(Content') : Content'[k] = rest[k]
    BY <2>3, <2>4, <2>5
  <2>7. QED
    BY <1>5, <2>2, <2>5, <2>6, SeqEqual
<1>8. QED
  BY <1>6, <1>7 DEF n

-----------------------------------------------------------------------------
\* Clear empties the buffer (RingBuffer.h:124-129).
LEMMA ClearContent ==
    ASSUME RingTypeOK, Clear
    PROVE  RingTypeOK' /\ Content' = << >>
<1>1. RingTypeOK'
  BY BufferSizeAssumption DEF RingTypeOK, Clear, Index
<1>2. Size' = 0
  BY DEF Clear, Size
<1>3. Content' \in Seq(Byte) /\ Len(Content') = 0
  BY <1>1, <1>2, ContentTypeNext DEF ContentOK
<1>4. QED
  BY <1>1, <1>3

\* The buffer starts out empty.
LEMMA InitRingTypeOK == InitRing => RingTypeOK
<1>1. 0 \in Index /\ 0 \in 0..BufferSize /\ << >> \in Seq(Byte)
  BY BufferSizeAssumption DEF Index
<1>2. QED
  BY <1>1, Zenon DEF InitRing, RingTypeOK

\* Every call keeps the types.
LEMMA NextRingTypeOK ==
    ASSUME RingTypeOK, [NextRing]_ringVars
    PROVE  RingTypeOK'
<1>1. CASE \E data \in Chunk : Write(data)
  BY <1>1, WriteSize, ChunkAssumption
<1>2. CASE \E max \in 0..BufferSize : Read(max)
  BY <1>2, ReadSize, BufferSizeAssumption
<1>3. CASE \E byte \in Byte : WriteByte(byte)
  <2>1. PICK byte \in Byte : Write(<<byte>>)
    BY <1>3, WriteByteIsWrite
  <2>2. <<byte>> \in Seq(Byte)
    OBVIOUS
  <2>3. QED
    BY <2>1, <2>2, WriteSize
<1>4. CASE ReadByte
  BY <1>4, ReadByteIsRead, ReadSize
<1>5. CASE Clear
  BY <1>5, ClearContent
<1>6. CASE UNCHANGED ringVars
  BY <1>6 DEF ringVars, RingTypeOK
<1>7. QED
  BY <1>1, <1>2, <1>3, <1>4, <1>5, <1>6 DEF NextRing

\* The indices never leave the array, and the full flag is set only when they
\* meet, for every buffer size (RingBuffer.h:50-129).
THEOREM RingTypeCorrectness == SpecRing => []RingTypeOK
<1>1. InitRing => RingTypeOK
  BY InitRingTypeOK
<1>2. RingTypeOK /\ [NextRing]_ringVars => RingTypeOK'
  BY NextRingTypeOK
<1>3. QED
  BY <1>1, <1>2, PTL DEF SpecRing

-----------------------------------------------------------------------------
\* Every call is a call of the abstract queue, or leaves it alone.
LEMMA NextRefines ==
    ASSUME RingTypeOK, [NextRing]_ringVars
    PROVE  [Queue!Next]_(Queue!vars)
<1>0. Len(Content) = Size /\ BufferSize \in Nat \ {0}
  BY ContentType, BufferSizeAssumption DEF ContentOK
<1>1. ASSUME NEW data \in Chunk, Write(data)
      PROVE  Queue!Next
  <2>1. data \in Seq(Byte)
    BY ChunkAssumption
  <2>2. Content' = Content \o SubSeq(data, 1, LeastOf(Len(data), BufferSize - Size))
    BY <1>1, <2>1, WriteContent
  <2>3. ret' = LeastOf(Len(data), BufferSize - Size) /\ out' = << >>
    BY <1>1 DEF Write
  <2>4. Queue!Put(data)
    BY <1>0, <2>2, <2>3 DEF Queue!Put, Queue!Least, LeastOf
  <2>5. QED
    BY <2>4 DEF Queue!Next
<1>2. ASSUME NEW max \in 0..BufferSize, Read(max)
      PROVE  Queue!Next
  <2>1. max \in Nat
    BY <1>0
  <2>2. /\ out' = SubSeq(Content, 1, LeastOf(max, Size))
        /\ Content' = SubSeq(Content, LeastOf(max, Size) + 1, Size)
    BY <1>2, <2>1, ReadContent
  <2>3. ret' = LeastOf(max, Size)
    BY <1>2 DEF Read
  <2>4. Queue!Take(max)
    BY <1>0, <2>2, <2>3 DEF Queue!Take, Queue!Least, LeastOf
  <2>5. QED
    BY <2>4 DEF Queue!Next
<1>3. ASSUME NEW byte \in Byte, WriteByte(byte)
      PROVE  Queue!Next
  BY <1>1, <1>3, WriteByteIsWrite, ChunkAssumption
<1>4. CASE ReadByte
  <2>1. 1 \in 0..BufferSize
    BY <1>0
  <2>2. QED
    BY <1>2, <1>4, <2>1, ReadByteIsRead
<1>5. CASE Clear
  <2>1. Content' = << >> /\ UNCHANGED <<ret, out>>
    BY <1>5, ClearContent DEF Clear
  <2>2. QED
    BY <2>1 DEF Queue!Next, Queue!Empty
<1>6. CASE UNCHANGED ringVars
  BY <1>6 DEF ringVars, Queue!vars, Content, Size, Peek, Advance
<1>7. QED
  BY <1>1, <1>2, <1>3, <1>4, <1>5, <1>6 DEF NextRing

\* Whatever mix of calls is made, and wherever the indices wrap, the ring behaves
\* as a bounded first-in first-out queue of bytes (RingBuffer.h:50-129).
THEOREM RingImplementsByteQueue == SpecRing => ImplementsByteQueue
<1>1. InitRing => Queue!Init
  <2> SUFFICES ASSUME InitRing PROVE Queue!Init
    OBVIOUS
  <2>1. RingTypeOK /\ Size = 0
    BY InitRingTypeOK DEF InitRing, Size
  <2>2. Content = << >>
    BY <2>1, ContentType DEF ContentOK
  <2>3. QED
    BY <2>2 DEF InitRing, Queue!Init
<1>2. RingTypeOK /\ [NextRing]_ringVars => [Queue!Next]_(Queue!vars)
  BY NextRefines
<1>3. QED
  BY <1>1, <1>2, RingTypeCorrectness, PTL DEF SpecRing, ImplementsByteQueue, Queue!Spec

-----------------------------------------------------------------------------
\* The packets in the ring

\* bytes are packets one after the other; off[k] is where the first k of them end
LaidAt(bytes, packets, off) ==
    /\ off[0] = 0 /\ off[Len(packets)] = Len(bytes)
    /\ \A j, k \in 0..Len(packets) : j <= k => off[j] <= off[k]
    /\ \A k \in 1..Len(packets) :
         /\ off[k] = off[k - 1] + Len(packets[k])
         /\ \A b \in 1..Len(packets[k]) : bytes[off[k - 1] + b] = packets[k][b]

Laid(bytes, packets) ==
    \E off \in [0..Len(packets) -> 0..Len(bytes)] : LaidAt(bytes, packets, off)

\* the packets that have not been handed to a handler
Waiting == SubSeq(sent, Len(got) + 1, Len(sent))

\* the inductive invariant: what is in the ring and what is still on the way are
\* together the packets not yet handled, from the first byte of the first one on
FramingInv ==
    /\ FramingTypeOK
    /\ PacketsIntact
    /\ ~dropped => Laid(Content \o stream, Waiting)

-----------------------------------------------------------------------------
\* Sequences

\* A number between two bounds.
LEMMA Shift ==
    ASSUME NEW m \in Nat, NEW N \in Nat, NEW a \in m..N, NEW l \in Nat, a + l <= N, NEW b \in 1..l
    PROVE  (a - m) + b \in 1..(N - m) /\ m + ((a - m) + b) = a + b
  OBVIOUS

\* What is left of a sequence without its first m elements.
LEMMA Suffix ==
    ASSUME NEW S, NEW s \in Seq(S), NEW m \in Nat, m <= Len(s)
    PROVE  /\ SubSeq(s, m + 1, Len(s)) \in Seq(S)
           /\ Len(SubSeq(s, m + 1, Len(s))) = Len(s) - m
           /\ \A k \in 1..(Len(s) - m) : SubSeq(s, m + 1, Len(s))[k] = s[m + k]
<1>1. Len(s) \in Nat
  OBVIOUS
<1>2. PICK N \in Nat : N = Len(s)
  BY <1>1
<1>3. PICK j \in Int : j = m + 1
  OBVIOUS
<1>4. \A b \in j..N : s[b] \in S
  BY <1>2, <1>3
<1>5. N \in Int
  OBVIOUS
<1>6. /\ SubSeq(s, j, N) \in Seq(S)
      /\ Len(SubSeq(s, j, N)) = IF j <= N THEN N - j + 1 ELSE 0
      /\ \A i \in 1..(N - j + 1) : SubSeq(s, j, N)[i] = s[j + i - 1]
  BY <1>4, <1>5, SubSeqProperties
<1>7. (IF j <= N THEN N - j + 1 ELSE 0) = N - m /\ N - j + 1 = N - m
  BY <1>2, <1>3
<1>8. \A i \in 1..(N - m) : j + i - 1 = m + i
  BY <1>3
<1>9. \A i \in 1..(N - m) : SubSeq(s, j, N)[i] = s[m + i]
  BY <1>6, <1>7, <1>8
<1>10. Len(SubSeq(s, j, N)) = N - m
  BY <1>6, <1>7
<1>11. QED
  BY <1>2, <1>3, <1>6, <1>9, <1>10

-----------------------------------------------------------------------------
\* Packets laid one after the other

\* Nothing but packets: without a packet there is no byte.
LEMMA LaidNone ==
    ASSUME NEW bytes \in Seq(Byte), NEW packets, Len(packets) = 0, Laid(bytes, packets)
    PROVE  Len(bytes) = 0
  BY DEF Laid, LaidAt

\* Another packet at the end (ClientSend).
LEMMA LaidAppend ==
    ASSUME NEW bytes \in Seq(Byte), NEW packets \in Seq(Packet), NEW p \in Packet,
           Laid(bytes, packets)
    PROVE  Laid(bytes \o p, Append(packets, p))
<1>1. PICK n \in Nat : n = Len(packets)
  OBVIOUS
<1>2. PICK N \in Nat : N = Len(bytes)
  OBVIOUS
<1>3. p \in Seq(Byte) /\ \A k \in 1..n : packets[k] \in Seq(Byte) /\ Len(packets[k]) \in Nat
  BY <1>1, PacketAssumption
<1>4. PICK l \in Nat : l = Len(p)
  BY <1>3
<1>5. /\ n = Len(packets) /\ N = Len(bytes) /\ l = Len(p)
      /\ n \in Nat /\ N \in Nat /\ l \in Nat
  BY <1>1, <1>2, <1>4
<1>6. PICK off \in [0..n -> 0..N] : LaidAt(bytes, packets, off)
  BY <1>5 DEF Laid
<1>7. PICK all \in Seq(Byte) : all = bytes \o p
  <2>1. p \in Seq(Byte)
    BY <1>3
  <2>2. bytes \o p \in Seq(Byte)
    BY <2>1
  <2>3. QED
    BY <2>2
<1>8. /\ Len(all) = N + l
      /\ \A b \in 1..N : all[b] = bytes[b]
      /\ \A b \in 1..l : all[N + b] = p[b]
  <2>1. /\ Len(all) = Len(bytes) + Len(p)
        /\ \A b \in 1..(Len(bytes) + Len(p)) :
             all[b] = IF b <= Len(bytes) THEN bytes[b] ELSE p[b - Len(bytes)]
    BY <1>3, <1>7, ConcatProperties
  <2>2. /\ \A b \in 1..N : b \in 1..(N + l) /\ b <= N
        /\ \A b \in 1..l : N + b \in 1..(N + l) /\ ~(N + b <= N) /\ (N + b) - N = b
    BY <1>5
  <2>3. QED
    BY <1>5, <2>1, <2>2
<1>9. PICK more \in Seq(Packet) : more = Append(packets, p)
  <2>1. Append(packets, p) \in Seq(Packet)
    OBVIOUS
  <2>2. QED
    BY <2>1
<1>10. Len(more) = n + 1 /\ more[n + 1] = p /\ \A k \in 1..n : more[k] = packets[k]
  BY <1>5, <1>9
<1> DEFINE off2 == [k \in 0..(n + 1) |-> IF k <= n THEN off[k] ELSE N + l]
<1>11. off2 \in [0..(n + 1) -> 0..(N + l)]
  OBVIOUS
<1>12. off2[0] = 0 /\ off2[n + 1] = N + l
  BY <1>5, <1>6 DEF LaidAt
<1>13. ASSUME NEW k \in 1..(n + 1)
      PROVE  /\ off2[k] = off2[k - 1] + Len(more[k])
             /\ \A b \in 1..Len(more[k]) : all[off2[k - 1] + b] = more[k][b]
  <2>1. CASE k \in 1..n
    <3>1. off2[k] = off[k] /\ off2[k - 1] = off[k - 1] /\ k - 1 \in 0..n /\ more[k] = packets[k]
      BY <1>10, <2>1
    <3>2. /\ off[k] = off[k - 1] + Len(packets[k])
          /\ \A b \in 1..Len(packets[k]) : bytes[off[k - 1] + b] = packets[k][b]
      BY <1>5, <1>6, <2>1 DEF LaidAt
    <3>3. PICK m \in Nat : m = Len(packets[k])
      BY <1>3, <2>1
    <3>4. PICK a \in 0..N : a = off[k - 1]
      BY <1>6, <2>1, <3>1
    <3>5. PICK z \in 0..N : z = off[k]
      BY <1>6, <2>1
    <3>6. a + m <= N
      BY <3>2, <3>3, <3>4, <3>5
    <3>7. m = Len(packets[k]) /\ a = off[k - 1] /\ a + m <= N
      BY <3>3, <3>4, <3>6
    <3>8. a \in Nat /\ m \in Nat /\ N \in Nat
      BY <1>5, <3>3, <3>4
    <3>9. \A b \in 1..m : a + b \in 1..N
      BY <3>6, <3>8
    <3>10. \A b \in 1..m : all[a + b] = packets[k][b]
      BY <1>8, <3>2, <3>7, <3>9
    <3>11. QED
      BY <3>1, <3>2, <3>7, <3>10
  <2>2. CASE k = n + 1
    <3>1. off2[k] = N + l /\ off2[k - 1] = N /\ more[k] = p
      <4>1. off2[n] = off[n] /\ off[n] = N
        BY <1>5, <1>6 DEF LaidAt
      <4>2. QED
        BY <1>10, <1>12, <2>2, <4>1
    <3>2. Len(more[k]) = l /\ N + l = N + Len(more[k])
      BY <1>5, <3>1
    <3>3. \A b \in 1..Len(more[k]) : all[off2[k - 1] + b] = more[k][b]
      BY <1>8, <3>1, <3>2
    <3>4. QED
      BY <3>1, <3>2, <3>3
  <2>3. k \in 1..n \/ k = n + 1
    BY <1>5
  <2>4. QED
    BY <2>1, <2>2, <2>3
<1>14. \A j, k \in 0..(n + 1) : j <= k => off2[j] <= off2[k]
  <2>1. \A j, k \in 0..n : j <= k => off[j] <= off[k]
    BY <1>5, <1>6 DEF LaidAt
  <2>2. \A j \in 0..n : off[j] \in 0..N
    BY <1>6
  <2>3. QED
    BY <2>1, <2>2
<1> HIDE DEF off2
<1>15. LaidAt(all, more, off2)
  BY <1>8, <1>10, <1>12, <1>13, <1>14 DEF LaidAt
<1>16. QED
  BY <1>7, <1>8, <1>9, <1>10, <1>11, <1>15 DEF Laid

\* The first packet stands at the front, and the others behind it.
LEMMA LaidFirst ==
    ASSUME NEW bytes \in Seq(Byte), NEW packets \in Seq(Packet), Len(packets) # 0,
           Laid(bytes, packets), NEW p \in Packet, p = packets[1]
    PROVE  /\ Len(p) <= Len(bytes)
           /\ \A b \in 1..Len(p) : bytes[b] = p[b]
           /\ Laid(SubSeq(bytes, Len(p) + 1, Len(bytes)), Tail(packets))
<1>1. PICK n \in Nat : n = Len(packets) /\ n >= 1
  OBVIOUS
<1>2. PICK N \in Nat : N = Len(bytes)
  OBVIOUS
<1>3. n = Len(packets) /\ N = Len(bytes) /\ n >= 1 /\ n \in Nat /\ N \in Nat
  BY <1>1, <1>2
<1>4. PICK off \in [0..n -> 0..N] : LaidAt(bytes, packets, off)
  BY <1>3 DEF Laid
<1>5. \A k \in 1..n : packets[k] \in Seq(Byte) /\ Len(packets[k]) \in Nat
  BY <1>3, PacketAssumption
<1>6. PICK m \in Nat : m = Len(p)
  BY <1>3, <1>5
<1>7. off[0] = 0 /\ off[n] = N /\ off[1] = m /\ m <= N
  <2>1. 1 \in 1..n /\ off[0] = 0 /\ off[n] = N /\ off[1] \in 0..N
    BY <1>3, <1>4 DEF LaidAt
  <2>2. off[1] = off[1 - 1] + Len(packets[1])
    BY <1>3, <1>4, <2>1 DEF LaidAt
  <2>3. QED
    BY <1>6, <2>1, <2>2
<1>8. \A b \in 1..m : bytes[b] = p[b]
  <2>1. \A b \in 1..Len(packets[1]) : bytes[off[1 - 1] + b] = packets[1][b]
    BY <1>3, <1>4 DEF LaidAt
  <2>2. QED
    BY <1>6, <1>7, <2>1
<1>9. PICK rest \in Seq(Byte) : /\ rest = SubSeq(bytes, m + 1, N)
                                /\ Len(rest) = N - m
                                /\ \A b \in 1..(N - m) : rest[b] = bytes[m + b]
  <2>1. m \in Nat /\ m <= Len(bytes)
    BY <1>3, <1>6, <1>7
  <2>2. /\ SubSeq(bytes, m + 1, Len(bytes)) \in Seq(Byte)
        /\ Len(SubSeq(bytes, m + 1, Len(bytes))) = Len(bytes) - m
        /\ \A k \in 1..(Len(bytes) - m) : SubSeq(bytes, m + 1, Len(bytes))[k] = bytes[m + k]
    BY <2>1, Suffix
  <2>3. QED
    BY <1>3, <2>2
<1>10. PICK tl \in Seq(Packet) : /\ tl = Tail(packets) /\ Len(tl) = n - 1
                                /\ \A k \in 1..(n - 1) : tl[k] = packets[k + 1]
  <2>1. Tail(packets) \in Seq(Packet) /\ Len(Tail(packets)) = n - 1
    BY <1>3
  <2>2. \A k \in 1..(n - 1) : Tail(packets)[k] = packets[k + 1]
    BY <1>3
  <2>3. QED
    BY <2>1, <2>2
<1>11. \A k \in 1..n : /\ off[k] = off[k - 1] + Len(packets[k])
                      /\ \A b \in 1..Len(packets[k]) : bytes[off[k - 1] + b] = packets[k][b]
  BY <1>3, <1>4 DEF LaidAt
<1>12. /\ \A k \in 1..n : off[k] \in m..N
       /\ \A j, k \in 0..n : j <= k => off[j] <= off[k]
  <2>1. \A j, k \in 0..n : j <= k => off[j] <= off[k]
    BY <1>3, <1>4 DEF LaidAt
  <2>2. \A k \in 1..n : off[k] \in 0..N /\ off[1] <= off[k]
    BY <1>3, <1>4, <2>1, SMTT(40)
  <2>3. QED
    BY <1>7, <2>1, <2>2
<1> DEFINE off2 == [k \in 0..(n - 1) |-> off[k + 1] - m]
<1>13. off2 \in [0..(n - 1) -> 0..(N - m)]
  <2>1. ASSUME NEW k \in 0..(n - 1)
        PROVE  off[k + 1] - m \in 0..(N - m)
    <3>1. k + 1 \in 1..n
      BY <1>3
    <3>2. off[k + 1] \in m..N
      BY <1>12, <3>1
    <3>3. QED
      BY <3>2, SMTT(40)
  <2>2. QED
    BY <2>1
<1>14. off2[0] = 0 /\ off2[n - 1] = N - m
  <2>1. 0 \in 0..(n - 1) /\ n - 1 \in 0..(n - 1) /\ 0 + 1 = 1 /\ (n - 1) + 1 = n
    BY <1>3
  <2>2. off2[0] = off[1] - m /\ off2[n - 1] = off[n] - m
    BY <2>1
  <2>3. QED
    BY <1>7, <2>2
<1>15. \A j, k \in 0..(n - 1) : j <= k => off2[j] <= off2[k]
  <2>1. ASSUME NEW j \in 0..(n - 1), NEW k \in 0..(n - 1), j <= k
        PROVE  off[j + 1] - m <= off[k + 1] - m
    <3>1. j + 1 \in 1..n /\ k + 1 \in 1..n /\ j + 1 \in 0..n /\ k + 1 \in 0..n /\ j + 1 <= k + 1
      BY <1>3, <2>1
    <3>2. off[j + 1] \in m..N /\ off[k + 1] \in m..N /\ off[j + 1] <= off[k + 1]
      BY <1>12, <3>1
    <3>3. QED
      BY <3>2
  <2>2. QED
    BY <2>1
<1>16. ASSUME NEW k \in 1..(n - 1)
       PROVE  /\ off2[k] = off2[k - 1] + Len(tl[k])
              /\ \A b \in 1..Len(tl[k]) : rest[off2[k - 1] + b] = tl[k][b]
  <2>1. k + 1 \in 1..n /\ k \in 1..n /\ (k + 1) - 1 = k /\ (k - 1) + 1 = k /\ k - 1 \in 0..(n - 1)
    BY <1>3
  <2>2. PICK a \in m..N, z \in m..N : a = off[k] /\ z = off[k + 1]
    BY <1>12, <2>1
  <2>3. off2[k] = z - m /\ off2[k - 1] = a - m
    BY <2>1, <2>2
  <2>4. PICK c \in Seq(Byte) : c = packets[k + 1] /\ c = tl[k]
    BY <1>5, <1>10, <2>1
  <2>5. z = a + Len(c) /\ \A b \in 1..Len(c) : bytes[a + b] = c[b]
    BY <1>11, <2>1, <2>2, <2>4, ZenonT(60)
  <2>6. Len(c) \in Nat
    BY <2>4
  <2>7. \A b \in 1..Len(c) : /\ (a - m) + b \in 1..(N - m)
                             /\ m + ((a - m) + b) = a + b
    <3>1. PICK l \in Nat : l = Len(c)
      BY <2>6
    <3>2. a + l <= N /\ a \in m..N /\ m \in Nat /\ N \in Nat
      BY <1>3, <1>6, <2>2, <2>5, <3>1
    <3>3. \A b \in 1..l : (a - m) + b \in 1..(N - m) /\ m + ((a - m) + b) = a + b
      BY <3>2, Shift
    <3>4. QED
      BY <3>1, <3>3
  <2>8. \A b \in 1..Len(c) : rest[(a - m) + b] = c[b]
    BY <1>9, <2>5, <2>7
  <2>9. z - m = (a - m) + Len(c)
    BY <2>2, <2>5, <2>6, SMTT(40)
  <2>10. QED
    BY <2>3, <2>4, <2>8, <2>9
<1> HIDE DEF off2
<1>17. LaidAt(rest, tl, off2)
  BY <1>9, <1>10, <1>14, <1>15, <1>16 DEF LaidAt
<1>18. Laid(rest, tl)
  BY <1>9, <1>10, <1>13, <1>17 DEF Laid
<1>19. QED
  BY <1>3, <1>6, <1>7, <1>8, <1>9, <1>10, <1>18

-----------------------------------------------------------------------------
\* The ring and the stream

\* Bytes that move from the front of one sequence to the end of another.
LEMMA Move ==
    ASSUME NEW c \in Seq(Byte), NEW s \in Seq(Byte), NEW n \in Nat, n <= Len(s)
    PROVE  /\ SubSeq(s, 1, n) \in Seq(Byte) /\ Len(SubSeq(s, 1, n)) = n
           /\ SubSeq(SubSeq(s, 1, n), 1, n) = SubSeq(s, 1, n)
           /\ (c \o SubSeq(s, 1, n)) \o SubSeq(s, n + 1, Len(s)) = c \o s
<1>1. /\ SubSeq(s, 1, n) \in Seq(Byte) /\ Len(SubSeq(s, 1, n)) = n
      /\ \A k \in 1..n : SubSeq(s, 1, n)[k] = s[k]
  OBVIOUS
<1>2. PICK a \in Seq(Byte) : a = SubSeq(s, 1, n)
  BY <1>1
<1>3. Len(a) = n /\ \A k \in 1..n : a[k] = s[k]
  BY <1>1, <1>2
<1>4. PICK z \in Seq(Byte) : /\ z = SubSeq(s, n + 1, Len(s)) /\ Len(z) = Len(s) - n
                             /\ \A k \in 1..(Len(s) - n) : z[k] = s[n + k]
  <2>1. /\ SubSeq(s, n + 1, Len(s)) \in Seq(Byte)
        /\ Len(SubSeq(s, n + 1, Len(s))) = Len(s) - n
        /\ \A k \in 1..(Len(s) - n) : SubSeq(s, n + 1, Len(s))[k] = s[n + k]
    BY Suffix
  <2>2. QED
    BY <2>1
<1>5. SubSeq(a, 1, n) = a
  <2>1. /\ SubSeq(a, 1, n) \in Seq(Byte) /\ Len(SubSeq(a, 1, n)) = n
        /\ \A k \in 1..n : SubSeq(a, 1, n)[k] = a[k]
    BY <1>3
  <2>2. QED
    BY <1>3, <2>1, SeqEqual
<1>6. a \o z = s
  <2>1. PICK N \in Nat : N = Len(s)
    OBVIOUS
  <2>2. PICK t \in Seq(Byte) :
          /\ t = a \o z /\ Len(t) = Len(a) + Len(z)
          /\ \A k \in 1..(Len(a) + Len(z)) : t[k] = IF k <= Len(a) THEN a[k] ELSE z[k - Len(a)]
    <3>1. /\ a \o z \in Seq(Byte) /\ Len(a \o z) = Len(a) + Len(z)
          /\ \A k \in 1..(Len(a) + Len(z)) :
               (a \o z)[k] = IF k <= Len(a) THEN a[k] ELSE z[k - Len(a)]
      <4>1. a \in Seq(Byte) /\ z \in Seq(Byte)
        BY <1>2, <1>4
      <4>2. QED
        BY <4>1, ConcatProperties
    <3>2. QED
      BY <3>1
  <2>3. /\ Len(t) = Len(a) + Len(z)
        /\ \A k \in 1..(Len(a) + Len(z)) : t[k] = IF k <= Len(a) THEN a[k] ELSE z[k - Len(a)]
    BY <2>2
  <2>4. n + (N - n) = N /\ n <= N
    BY <2>1
  <2>5. Len(t) = N /\ \A k \in 1..N : t[k] = IF k <= n THEN a[k] ELSE z[k - n]
    BY <1>3, <1>4, <2>1, <2>3, <2>4
  <2>6. \A k \in 1..N : k <= n => k \in 1..n
    OBVIOUS
  <2>7. \A k \in 1..N : ~(k <= n) => k - n \in 1..(N - n) /\ n + (k - n) = k
    BY <2>1
  <2>8. \A k \in 1..N : t[k] = s[k]
    BY <1>3, <1>4, <2>1, <2>5, <2>6, <2>7
  <2>9. QED
    BY <2>1, <2>2, <2>5, <2>8, SeqEqual
<1>7. (c \o a) \o z = c \o (a \o z)
  BY ConcatAssociative, SMTT(40)
<1>8. QED
  BY <1>1, <1>2, <1>4, <1>5, <1>6, <1>7

\* Bytes that leave at the front of the first of two sequences.
LEMMA Leave ==
    ASSUME NEW c \in Seq(Byte), NEW s \in Seq(Byte), NEW m \in Nat, m <= Len(c)
    PROVE  SubSeq(c \o s, m + 1, Len(c \o s)) = SubSeq(c, m + 1, Len(c)) \o s
<1>1. PICK C \in Nat : C = Len(c)
  OBVIOUS
<1>2. PICK S \in Nat : S = Len(s)
  OBVIOUS
<1>3. PICK t \in Seq(Byte) :
        /\ t = c \o s /\ Len(t) = Len(c) + Len(s)
        /\ \A k \in 1..(Len(c) + Len(s)) : t[k] = IF k <= Len(c) THEN c[k] ELSE s[k - Len(c)]
  <2>1. /\ c \o s \in Seq(Byte) /\ Len(c \o s) = Len(c) + Len(s)
        /\ \A k \in 1..(Len(c) + Len(s)) :
             (c \o s)[k] = IF k <= Len(c) THEN c[k] ELSE s[k - Len(c)]
    BY ConcatProperties
  <2>2. QED
    BY <2>1
<1>4. /\ Len(t) = C + S
      /\ \A k \in 1..(C + S) : t[k] = IF k <= C THEN c[k] ELSE s[k - C]
  BY <1>1, <1>2, <1>3
<1>5. m <= Len(t) /\ m <= C
  BY <1>1, <1>2, <1>4
<1>6. PICK r \in Seq(Byte) : /\ r = SubSeq(t, m + 1, Len(t)) /\ Len(r) = Len(t) - m
                             /\ \A k \in 1..(Len(t) - m) : r[k] = t[m + k]
  <2>1. /\ SubSeq(t, m + 1, Len(t)) \in Seq(Byte)
        /\ Len(SubSeq(t, m + 1, Len(t))) = Len(t) - m
        /\ \A k \in 1..(Len(t) - m) : SubSeq(t, m + 1, Len(t))[k] = t[m + k]
    BY <1>3, <1>5, Suffix
  <2>2. QED
    BY <2>1
<1>7. PICK d \in Seq(Byte) : /\ d = SubSeq(c, m + 1, Len(c)) /\ Len(d) = Len(c) - m
                             /\ \A k \in 1..(Len(c) - m) : d[k] = c[m + k]
  <2>1. /\ SubSeq(c, m + 1, Len(c)) \in Seq(Byte)
        /\ Len(SubSeq(c, m + 1, Len(c))) = Len(c) - m
        /\ \A k \in 1..(Len(c) - m) : SubSeq(c, m + 1, Len(c))[k] = c[m + k]
    BY Suffix
  <2>2. QED
    BY <2>1
<1>8. PICK u \in Seq(Byte) :
        /\ u = d \o s /\ Len(u) = Len(d) + Len(s)
        /\ \A k \in 1..(Len(d) + Len(s)) : u[k] = IF k <= Len(d) THEN d[k] ELSE s[k - Len(d)]
  <2>1. /\ d \o s \in Seq(Byte) /\ Len(d \o s) = Len(d) + Len(s)
        /\ \A k \in 1..(Len(d) + Len(s)) :
             (d \o s)[k] = IF k <= Len(d) THEN d[k] ELSE s[k - Len(d)]
    BY <1>7, ConcatProperties
  <2>2. QED
    BY <2>1
<1>9. /\ Len(u) = Len(d) + Len(s)
      /\ \A k \in 1..(Len(d) + Len(s)) : u[k] = IF k <= Len(d) THEN d[k] ELSE s[k - Len(d)]
  BY <1>8
<1>10. PICK M \in Nat : M = C - m
  <2>1. C \in Nat /\ m <= C
    BY <1>1, <1>5
  <2>2. C - m \in Nat
    BY <2>1
  <2>3. QED
    BY <2>2
<1>11. Len(d) = M /\ Len(u) = M + S /\ C + S - m = M + S /\ Len(r) = M + S
  BY <1>1, <1>2, <1>4, <1>6, <1>7, <1>9, <1>10
<1>12. \A k \in 1..(M + S) : /\ m + k \in 1..(C + S)
                             /\ k <= M <=> m + k <= C
                             /\ k <= M => k \in 1..M
                             /\ (m + k) - C = k - M
  BY <1>1, <1>2, <1>5, <1>10
<1>13. /\ \A k \in 1..(M + S) : r[k] = IF m + k <= C THEN c[m + k] ELSE s[(m + k) - C]
       /\ \A k \in 1..(M + S) : u[k] = IF k <= M THEN c[m + k] ELSE s[k - M]
  <2>1. \A k \in 1..(M + S) : r[k] = t[m + k]
    BY <1>4, <1>6, <1>11
  <2>2. \A k \in 1..(M + S) : u[k] = IF k <= M THEN d[k] ELSE s[k - M]
    BY <1>2, <1>9, <1>11
  <2>3. \A k \in 1..M : d[k] = c[m + k]
    BY <1>1, <1>7, <1>10
  <2>4. QED
    BY <1>4, <1>12, <2>1, <2>2, <2>3
<1>14. \A k \in 1..(M + S) : r[k] = u[k]
  BY <1>12, <1>13
<1>15. r = u
  BY <1>11, <1>14, SeqEqual
<1>16. QED
  BY <1>3, <1>6, <1>7, <1>8, <1>15

\* The packets not yet handled.
LEMMA WaitingType ==
    ASSUME FramingTypeOK, Len(got) <= Len(sent)
    PROVE  /\ Waiting \in Seq(Packet) /\ Len(Waiting) = Len(sent) - Len(got)
           /\ \A k \in 1..(Len(sent) - Len(got)) : Waiting[k] = sent[Len(got) + k]
<1>1. sent \in Seq(Packet) /\ Len(got) \in Nat
  BY DEF FramingTypeOK
<1>2. QED
  BY <1>1, Suffix DEF Waiting

\* A step that leaves the ring alone leaves its content and its types alone.
LEMMA RingStays ==
    ASSUME RingTypeOK, UNCHANGED ringVars
    PROVE  RingTypeOK' /\ Content' = Content
  BY DEF ringVars, RingTypeOK, Content, Size, Peek, Advance

\* What a complete packet at the front of the ring looks like to GetPacket
\* (User.h:96-124): its length and its id are bytes of the ring.
LEMMA PeekedType ==
    ASSUME RingTypeOK, Complete
    PROVE  /\ PeekedLength \in Nat /\ PeekedLength <= Size /\ PeekedId \in Byte
           /\ PeekedLength = Content[1] /\ PeekedId = Content[2]
           /\ Size \in Nat /\ Len(Content) = Size /\ Content \in Seq(Byte)
           /\ 1 \in 1..Size /\ 2 \in 1..Size
<1>1. Size \in 0..BufferSize /\ BufferSize \in Nat
  BY SizeType, BufferSizeAssumption
<1>2. Size \in Nat /\ Size >= 2 /\ 1 \in 1..Size /\ 2 \in 1..Size
  BY <1>1, HeaderAssumption DEF Complete
<1>3. /\ Content \in Seq(Byte) /\ Len(Content) = Size
      /\ \A k \in 1..Size : Content[k] = Peek(k - 1) /\ Peek(k - 1) \in Byte
  BY ContentType DEF ContentOK
<1>4. Content[1] = Peek(0) /\ Peek(0) \in Byte /\ Content[2] = Peek(1) /\ Peek(1) \in Byte
  <2>1. 1 - 1 = 0 /\ 2 - 1 = 1
    OBVIOUS
  <2>2. QED
    BY <1>2, <1>3, <2>1
<1>5. QED
  BY <1>2, <1>3, <1>4, ByteAssumption DEF PeekedLength, PeekedId, Complete

\* A complete packet at the front of the ring is the next one sent, whole, and what
\* remains when it is read are the packets after it.
LEMMA FirstPacket ==
    ASSUME FramingInv, ~dropped, Complete
    PROVE  \E p \in Packet :
             /\ Len(Waiting) # 0 /\ p = Waiting[1]
             /\ PeekedLength = Len(p) /\ PeekedId = p[2]
             /\ SubSeq(Content, 1, Len(p)) = p
             /\ Laid(SubSeq(Content, Len(p) + 1, Size) \o stream, Tail(Waiting))
<1>1. /\ RingTypeOK /\ stream \in Seq(Byte) /\ Len(got) <= Len(sent)
      /\ Laid(Content \o stream, Waiting)
  BY DEF FramingInv, FramingTypeOK, PacketsIntact
<1>2. /\ PeekedLength \in Nat /\ PeekedLength <= Size
      /\ PeekedLength = Content[1] /\ PeekedId = Content[2]
      /\ Size \in Nat /\ Len(Content) = Size /\ Content \in Seq(Byte)
      /\ 1 \in 1..Size /\ 2 \in 1..Size
  BY <1>1, PeekedType
<1>3. PICK c \in Seq(Byte) : c = Content
  BY <1>2
<1>4. PICK s \in Seq(Byte) : s = stream
  BY <1>1
<1>5. PICK w \in Seq(Packet) : w = Waiting
  BY <1>1, WaitingType DEF FramingInv
<1>6. PICK t \in Seq(Byte) :
        /\ t = c \o s /\ Len(t) = Len(c) + Len(s)
        /\ \A k \in 1..(Len(c) + Len(s)) : t[k] = IF k <= Len(c) THEN c[k] ELSE s[k - Len(c)]
  <2>1. /\ c \o s \in Seq(Byte) /\ Len(c \o s) = Len(c) + Len(s)
        /\ \A k \in 1..(Len(c) + Len(s)) :
             (c \o s)[k] = IF k <= Len(c) THEN c[k] ELSE s[k - Len(c)]
    BY ConcatProperties
  <2>2. QED
    BY <2>1
<1>7. Laid(t, w)
  BY <1>1, <1>3, <1>4, <1>5, <1>6
<1>8. PICK C \in Nat : C = Len(c) /\ C = Size /\ 1 \in 1..C /\ 2 \in 1..C
  BY <1>2, <1>3
<1>9. PICK S \in Nat : S = Len(s)
  OBVIOUS
<1>10. \A k \in 1..C : t[k] = c[k]
  <2>1. \A k \in 1..C : k \in 1..(C + S) /\ k <= C
    BY <1>8, <1>9
  <2>2. QED
    BY <1>6, <1>8, <1>9, <2>1
<1>11. Len(w) # 0
  <2>1. SUFFICES ASSUME Len(w) = 0
                 PROVE  FALSE
    OBVIOUS
  <2>2. Len(t) = 0
    BY <1>7, <2>1, LaidNone
  <2>3. C >= 1 /\ C + S = 0
    BY <1>6, <1>8, <1>9, <2>2
  <2>4. QED
    BY <1>8, <1>9, <2>3
<1>12. PICK p \in Packet : p = w[1]
  BY <1>11
<1>13. /\ Len(p) <= Len(t)
       /\ \A b \in 1..Len(p) : t[b] = p[b]
       /\ Laid(SubSeq(t, Len(p) + 1, Len(t)), Tail(w))
  <2>1. t \in Seq(Byte) /\ w \in Seq(Packet)
    BY <1>5, <1>6
  <2>2. p \in Packet /\ p = w[1] /\ Len(w) # 0
    BY <1>11, <1>12
  <2>3. QED
    BY <1>7, <2>1, <2>2, LaidFirst
<1>14. /\ p \in Seq(Byte) /\ Len(p) \in Nat /\ Len(p) >= 2 /\ p[1] = Len(p)
  BY <1>12, HeaderAssumption, PacketAssumption
<1>15. PICK l \in Nat : l = Len(p) /\ 1 \in 1..l /\ 2 \in 1..l
  BY <1>14
<1>16. PeekedLength = Len(p) /\ PeekedId = p[2]
  <2>1. t[1] = c[1] /\ t[2] = c[2] /\ t[1] = p[1] /\ t[2] = p[2]
    BY <1>8, <1>10, <1>13, <1>15
  <2>2. QED
    BY <1>2, <1>3, <1>14, <2>1
<1>17. l <= C
  BY <1>2, <1>8, <1>15, <1>16
<1>18. SubSeq(c, 1, l) = p
  <2>1. /\ SubSeq(c, 1, l) \in Seq(Byte) /\ Len(SubSeq(c, 1, l)) = l
        /\ \A k \in 1..l : SubSeq(c, 1, l)[k] = c[k]
    <3>1. l \in Nat /\ l <= Len(c) /\ c \in Seq(Byte)
      BY <1>3, <1>8, <1>15, <1>17
    <3>2. QED
      BY <3>1
  <2>2. \A k \in 1..l : k \in 1..C
    BY <1>8, <1>17
  <2>3. \A k \in 1..l : SubSeq(c, 1, l)[k] = p[k]
    BY <1>10, <1>13, <1>15, <2>1, <2>2
  <2>4. QED
    BY <1>14, <1>15, <2>1, <2>3, SeqEqual
<1>19. SubSeq(t, l + 1, Len(t)) = SubSeq(c, l + 1, Len(c)) \o s
  BY <1>6, <1>8, <1>17, Leave
<1>20. Laid(SubSeq(c, l + 1, C) \o s, Tail(w))
  BY <1>8, <1>13, <1>15, <1>19
<1>21. QED
  BY <1>3, <1>4, <1>5, <1>8, <1>11, <1>12, <1>15, <1>16, <1>18, <1>20

-----------------------------------------------------------------------------
\* The steps

\* A client sends another packet.
LEMMA SendKeeps ==
    ASSUME FramingInv, NEW p \in Packet, ClientSend(p)
    PROVE  FramingInv'
<1>1. /\ RingTypeOK /\ sent \in Seq(Packet) /\ stream \in Seq(Byte)
      /\ got \in Seq([id : Byte, data : Seq(Byte)]) /\ tasks \in Nat
      /\ draining \in BOOLEAN /\ dropped \in BOOLEAN
  BY DEF FramingInv, FramingTypeOK
<1>2. /\ sent' = Append(sent, p) /\ stream' = stream \o p /\ UNCHANGED ringVars
      /\ tasks' = tasks /\ draining' = draining /\ got' = got /\ dropped' = dropped
  BY DEF ClientSend
<1>3. RingTypeOK' /\ Content' = Content /\ Content \in Seq(Byte)
  BY <1>1, <1>2, RingStays, ContentType DEF ContentOK
<1>4. p \in Seq(Byte)
  BY PacketAssumption
<1>5. FramingTypeOK'
  <2>1. Append(sent, p) \in Seq(Packet) /\ stream \o p \in Seq(Byte)
    BY <1>1, <1>4
  <2>2. QED
    BY <1>1, <1>2, <1>3, <2>1 DEF FramingTypeOK
<1>6. CASE dropped
  BY <1>2, <1>5, <1>6 DEF FramingInv, PacketsIntact
<1>7. CASE ~dropped
  <2>1. /\ Len(got) <= Len(sent) /\ \A k \in 1..Len(got) : got[k] = Cut(sent[k])
        /\ Laid(Content \o stream, Waiting)
    BY <1>7 DEF FramingInv, PacketsIntact
  <2>2. PICK g \in Nat : g = Len(got)
    BY <1>1
  <2>3. PICK q \in Seq(Packet) : q = sent
    BY <1>1
  <2>4. PICK n \in Nat : n = Len(q) /\ g <= n
    BY <2>1, <2>2, <2>3
  <2>5. PICK r \in Seq(Packet) : r = sent' /\ Len(r) = n + 1 /\ r[n + 1] = p
                                 /\ \A k \in 1..n : r[k] = q[k]
    <3>1. Append(q, p) \in Seq(Packet) /\ Len(Append(q, p)) = n + 1 /\ Append(q, p)[n + 1] = p
          /\ \A k \in 1..n : Append(q, p)[k] = q[k]
      BY <2>4
    <3>2. QED
      BY <1>2, <2>3, <3>1
  <2>6. PacketsIntact'
    <3>1. g <= n + 1 /\ \A k \in 1..g : k \in 1..n
      BY <2>2, <2>4
    <3>2. QED
      BY <1>2, <2>1, <2>2, <2>3, <2>5, <3>1 DEF PacketsIntact, Cut
  <2>7. Waiting' = Append(Waiting, p) /\ Waiting \in Seq(Packet)
    <3>1. PICK w \in Seq(Packet) : /\ w = Waiting /\ Len(w) = n - g
                                   /\ \A k \in 1..(n - g) : w[k] = q[g + k]
      BY <2>1, <2>2, <2>3, <2>4, WaitingType DEF FramingInv
    <3>2. g <= Len(r)
      BY <2>2, <2>4, <2>5
    <3>3. PICK v \in Seq(Packet) : /\ v = SubSeq(r, g + 1, Len(r)) /\ Len(v) = Len(r) - g
                                   /\ \A k \in 1..(Len(r) - g) : v[k] = r[g + k]
      <4>1. /\ SubSeq(r, g + 1, Len(r)) \in Seq(Packet)
            /\ Len(SubSeq(r, g + 1, Len(r))) = Len(r) - g
            /\ \A k \in 1..(Len(r) - g) : SubSeq(r, g + 1, Len(r))[k] = r[g + k]
        BY <2>2, <2>5, <3>2, Suffix
      <4>2. QED
        BY <4>1
    <3>4. PICK m \in Nat : m = n - g
      <4>1. n \in Nat /\ g \in Nat /\ g <= n
        BY <2>2, <2>4
      <4>2. n - g \in Nat
        BY <4>1
      <4>3. QED
        BY <4>2
    <3>5. PICK u \in Seq(Packet) : /\ u = Append(w, p) /\ Len(u) = m + 1 /\ u[m + 1] = p
                                   /\ \A k \in 1..m : u[k] = w[k]
      <4>1. /\ Append(w, p) \in Seq(Packet) /\ Len(Append(w, p)) = m + 1
            /\ Append(w, p)[m + 1] = p /\ \A k \in 1..m : Append(w, p)[k] = w[k]
        BY <3>1, <3>4
      <4>2. QED
        BY <4>1
    <3>6. /\ Len(r) - g = m + 1 /\ g + (m + 1) = n + 1
          /\ \A k \in 1..m : g + k \in 1..n
          /\ \A k \in 1..(m + 1) : k \in 1..m \/ k = m + 1
      <4>1. n \in Nat /\ g \in Nat /\ m \in Nat /\ m = n - g /\ Len(r) = n + 1
        BY <2>2, <2>4, <2>5, <3>4
      <4>2. Len(r) - g = m + 1 /\ g + (m + 1) = n + 1
        BY <4>1
      <4>3. \A k \in 1..m : g + k \in 1..n
        BY <4>1
      <4>4. \A k \in 1..(m + 1) : k \in 1..m \/ k = m + 1
        BY <4>1
      <4>5. QED
        BY <4>2, <4>3, <4>4
    <3>7. \A k \in 1..(m + 1) : v[k] = u[k]
      BY <2>5, <3>1, <3>3, <3>4, <3>5, <3>6
    <3>8. v = u
      BY <3>3, <3>5, <3>6, <3>7, SeqEqual
    <3>9. Waiting' = v
      BY <1>2, <2>2, <2>5, <3>3 DEF Waiting
    <3>10. QED
      BY <3>1, <3>5, <3>8, <3>9
  <2>8. Content' \o stream' = (Content \o stream) \o p
    <3>1. PICK c \in Seq(Byte) : c = Content
      BY <1>3
    <3>2. PICK t \in Seq(Byte) : t = stream
      BY <1>1
    <3>3. (c \o t) \o p = c \o (t \o p)
      <4>1. c \in Seq(Byte) /\ t \in Seq(Byte) /\ p \in Seq(Byte)
        BY <1>4, <3>1, <3>2
      <4>2. QED
        BY <4>1, ConcatAssociative, SMTT(40)
    <3>4. QED
      BY <1>2, <1>3, <3>1, <3>2, <3>3
  <2>9. Content \o stream \in Seq(Byte)
    BY <1>1, <1>3
  <2>10. Laid(Content' \o stream', Waiting')
    BY <2>1, <2>7, <2>8, <2>9, LaidAppend
  <2>11. QED
    BY <1>5, <2>6, <2>10 DEF FramingInv
<1>8. QED
  BY <1>1, <1>6, <1>7

\* A receive is stored in the ring (User.h:79-94): bytes move from the stream to the
\* ring, or some are dropped.
LEMMA ReceiveKeeps ==
    ASSUME FramingInv, NEW n \in 1..MaxRecv, ReceivePacketData(n)
    PROVE  FramingInv'
<1>1. /\ RingTypeOK /\ sent \in Seq(Packet) /\ stream \in Seq(Byte)
      /\ got \in Seq([id : Byte, data : Seq(Byte)]) /\ tasks \in Nat
      /\ draining \in BOOLEAN /\ dropped \in BOOLEAN
  BY DEF FramingInv, FramingTypeOK
<1>2. PICK s \in Seq(Byte) : s = stream
  BY <1>1
<1>3. PICK m \in Nat : m = n /\ m <= Len(s)
  BY <1>2, HeaderAssumption DEF ReceivePacketData
<1>4. PICK c \in Seq(Byte) : c = Content /\ Len(c) = Size
  BY <1>1, ContentType DEF ContentOK
<1>5. /\ SubSeq(s, 1, m) \in Seq(Byte) /\ Len(SubSeq(s, 1, m)) = m
      /\ SubSeq(SubSeq(s, 1, m), 1, m) = SubSeq(s, 1, m)
      /\ (c \o SubSeq(s, 1, m)) \o SubSeq(s, m + 1, Len(s)) = c \o s
  BY <1>3, Move
<1>6. PICK data \in Seq(Byte) : data = SubSeq(s, 1, m)
  BY <1>5
<1>7. PICK rest \in Seq(Byte) : rest = SubSeq(s, m + 1, Len(s))
  <2>1. SubSeq(s, m + 1, Len(s)) \in Seq(Byte)
    BY <1>3, Suffix
  <2>2. QED
    BY <2>1
<1>8. /\ Write(data) /\ dropped' = (dropped \/ ret' < n) /\ stream' = rest
      /\ tasks' = tasks + 1 /\ sent' = sent /\ draining' = draining /\ got' = got
  BY <1>2, <1>3, <1>6, <1>7 DEF ReceivePacketData
<1>9. RingTypeOK'
  BY <1>1, <1>6, <1>8, WriteSize
<1>10. FramingTypeOK'
  <2>1. dropped' \in BOOLEAN /\ tasks' \in Nat
    BY <1>1, <1>8
  <2>2. QED
    BY <1>1, <1>7, <1>8, <1>9, <2>1 DEF FramingTypeOK
<1>11. CASE dropped'
  BY <1>10, <1>11 DEF FramingInv, PacketsIntact
<1>12. CASE ~dropped'
  <2>1. ~dropped /\ ~(ret' < n)
    BY <1>8, <1>12
  <2>2. PacketsIntact /\ Laid(c \o s, Waiting)
    BY <1>2, <1>4, <2>1 DEF FramingInv
  <2>3. PacketsIntact'
    BY <1>8, <2>1, <2>2 DEF PacketsIntact
  <2>4. Waiting' = Waiting
    BY <1>8 DEF Waiting
  <2>5. LeastOf(Len(data), BufferSize - Size) = m
    <3>1. ret' = LeastOf(m, BufferSize - Size)
      BY <1>5, <1>6, <1>8 DEF Write
    <3>2. PICK k \in Int : k = BufferSize - Size
      <4>1. Size \in 0..BufferSize /\ BufferSize \in Nat
        BY <1>1, SizeType, BufferSizeAssumption
      <4>2. BufferSize - Size \in Int
        BY <4>1
      <4>3. QED
        BY <4>2
    <3>3. m \in Int /\ ~(LeastOf(m, k) < m)
      BY <1>3, <2>1, <3>1, <3>2
    <3>4. LeastOf(m, k) = m
      BY <3>2, <3>3 DEF LeastOf
    <3>5. QED
      BY <1>5, <1>6, <3>2, <3>4
  <2>6. Content' = Content \o SubSeq(data, 1, LeastOf(Len(data), BufferSize - Size))
    BY <1>1, <1>6, <1>8, WriteContent
  <2>7. Content' = c \o data
    BY <1>4, <1>5, <1>6, <2>5, <2>6
  <2>8. Content' \o stream' = c \o s
    BY <1>5, <1>6, <1>7, <1>8, <2>7
  <2>9. QED
    BY <1>10, <2>2, <2>3, <2>4, <2>8 DEF FramingInv
<1>13. QED
  BY <1>11, <1>12

\* The packet at the front is handed to its handler (User.h:108-150,
\* PacketManager.cpp:262-294).
LEMMA GetKeeps ==
    ASSUME FramingInv, GetPacketSome
    PROVE  FramingInv'
<1>1. /\ RingTypeOK /\ sent \in Seq(Packet) /\ stream \in Seq(Byte)
      /\ got \in Seq([id : Byte, data : Seq(Byte)]) /\ tasks \in Nat
      /\ draining \in BOOLEAN /\ dropped \in BOOLEAN
  BY DEF FramingInv, FramingTypeOK
<1>2. /\ Complete /\ Read(PeekedLength) /\ got' = Append(got, [id |-> PeekedId, data |-> out'])
      /\ sent' = sent /\ stream' = stream /\ tasks' = tasks /\ draining' = draining
      /\ dropped' = dropped
  BY DEF GetPacketSome
<1>3. /\ PeekedLength \in Nat /\ PeekedLength <= Size /\ PeekedId \in Byte
      /\ Size \in Nat /\ Len(Content) = Size /\ Content \in Seq(Byte)
  BY <1>1, <1>2, PeekedType
<1>4. RingTypeOK'
  BY <1>1, <1>2, <1>3, ReadSize
<1>5. [id |-> PeekedId, data |-> out'] \in [id : Byte, data : Seq(Byte)]
  BY <1>3, <1>4 DEF RingTypeOK
<1>6. FramingTypeOK'
  BY <1>1, <1>2, <1>4, <1>5 DEF FramingTypeOK
<1>7. CASE dropped
  BY <1>2, <1>6, <1>7 DEF FramingInv, PacketsIntact
<1>8. CASE ~dropped
  <2>1. PICK p \in Packet :
          /\ Len(Waiting) # 0 /\ p = Waiting[1]
          /\ PeekedLength = Len(p) /\ PeekedId = p[2]
          /\ SubSeq(Content, 1, Len(p)) = p
          /\ Laid(SubSeq(Content, Len(p) + 1, Size) \o stream, Tail(Waiting))
    BY <1>2, <1>8, FirstPacket
  <2>2. LeastOf(PeekedLength, Size) = Len(p)
    BY <1>3, <2>1 DEF LeastOf
  <2>3. /\ out' = SubSeq(Content, 1, LeastOf(PeekedLength, Size))
        /\ Content' = SubSeq(Content, LeastOf(PeekedLength, Size) + 1, Size)
    BY <1>1, <1>2, <1>3, ReadContent
  <2>4. out' = p /\ Content' = SubSeq(Content, Len(p) + 1, Size)
    BY <2>1, <2>2, <2>3
  <2>5. [id |-> PeekedId, data |-> out'] = Cut(p)
    BY <2>1, <2>4 DEF Cut
  <2>6. Len(got) <= Len(sent) /\ \A k \in 1..Len(got) : got[k] = Cut(sent[k])
    BY <1>8 DEF FramingInv, PacketsIntact
  <2>7. PICK g \in Seq([id : Byte, data : Seq(Byte)]) : g = got
    BY <1>1
  <2>8. PICK q \in Seq(Packet) : q = sent
    BY <1>1
  <2>9. PICK a \in Nat : a = Len(g)
    BY <2>7
  <2>10. PICK n \in Nat : n = Len(q)
    BY <2>8
  <2>11. PICK w \in Seq(Packet) : /\ w = Waiting /\ Len(w) = n - a
                                  /\ \A k \in 1..(n - a) : w[k] = q[a + k]
    BY <2>6, <2>7, <2>8, <2>9, <2>10, WaitingType DEF FramingInv
  <2>12. a + 1 <= n /\ p = q[a + 1]
    <3>1. a <= n /\ n - a # 0
      BY <2>1, <2>6, <2>7, <2>8, <2>9, <2>10, <2>11
    <3>2. a + 1 <= n /\ 1 \in 1..(n - a)
      BY <2>9, <2>10, <3>1
    <3>3. QED
      BY <2>1, <2>11, <3>2
  <2>13. PICK r \in Seq([id : Byte, data : Seq(Byte)]) :
           /\ r = got' /\ Len(r) = a + 1 /\ r[a + 1] = Cut(p)
           /\ \A k \in 1..a : r[k] = g[k]
    <3>1. PICK e \in [id : Byte, data : Seq(Byte)] : e = Cut(p)
      BY <1>5, <2>5
    <3>2. /\ Append(g, e) \in Seq([id : Byte, data : Seq(Byte)]) /\ Len(Append(g, e)) = a + 1
          /\ Append(g, e)[a + 1] = e /\ \A k \in 1..a : Append(g, e)[k] = g[k]
      BY <2>9
    <3>3. got' = Append(g, e)
      BY <1>2, <2>5, <2>7, <3>1
    <3>4. QED
      BY <3>1, <3>2, <3>3
  <2>14. PacketsIntact'
    <3>1. \A k \in 1..(a + 1) : k \in 1..a \/ k = a + 1
      BY <2>9
    <3>2. \A k \in 1..(a + 1) : r[k] = Cut(q[k])
      BY <2>6, <2>7, <2>8, <2>9, <2>12, <2>13, <3>1
    <3>3. Len(got') <= Len(sent') /\ \A k \in 1..Len(got') : got'[k] = Cut(sent'[k])
      BY <1>2, <2>8, <2>10, <2>12, <2>13, <3>2
    <3>4. QED
      BY <3>3 DEF PacketsIntact, Cut
  <2>15. Waiting' = Tail(Waiting)
    <3>1. PICK b \in Nat : b = a + 1 /\ b <= Len(q)
      BY <2>9, <2>10, <2>12
    <3>2. /\ SubSeq(q, b + 1, Len(q)) \in Seq(Packet)
          /\ Len(SubSeq(q, b + 1, Len(q))) = Len(q) - b
          /\ \A k \in 1..(Len(q) - b) : SubSeq(q, b + 1, Len(q))[k] = q[b + k]
      BY <3>1, Suffix
    <3>3. PICK v \in Seq(Packet) : /\ v = SubSeq(q, b + 1, Len(q)) /\ Len(v) = n - b
                                   /\ \A k \in 1..(n - b) : v[k] = q[b + k]
      BY <2>10, <3>2
    <3>4. PICK m \in Nat : m = n - a /\ m >= 1
      <4>1. a \in Nat /\ n \in Nat /\ b = a + 1 /\ b <= n
        BY <2>9, <2>10, <3>1
      <4>2. n - a \in Nat /\ n - a >= 1
        BY <4>1
      <4>3. QED
        BY <4>2
    <3>5. PICK u \in Seq(Packet) : /\ u = Tail(w) /\ Len(u) = m - 1
                                   /\ \A k \in 1..(m - 1) : u[k] = w[k + 1]
      <4>1. Tail(w) \in Seq(Packet) /\ Len(Tail(w)) = m - 1
        BY <2>11, <3>4
      <4>2. \A k \in 1..(m - 1) : Tail(w)[k] = w[k + 1]
        BY <2>11, <3>4
      <4>3. QED
        BY <4>1, <4>2
    <3>6. /\ n - b = m - 1
          /\ \A k \in 1..(m - 1) : k + 1 \in 1..(n - a) /\ a + (k + 1) = b + k
      <4>1. a \in Nat /\ n \in Nat /\ m \in Nat /\ b = a + 1 /\ m = n - a
        BY <2>9, <2>10, <3>1, <3>4
      <4>2. n - b = m - 1
        BY <4>1
      <4>3. \A k \in 1..(m - 1) : k + 1 \in 1..(n - a) /\ a + (k + 1) = b + k
        BY <4>1
      <4>4. QED
        BY <4>2, <4>3
    <3>7. \A k \in 1..(m - 1) : v[k] = u[k]
      BY <2>11, <3>3, <3>5, <3>6, ZenonT(60)
    <3>8. v = u
      BY <3>3, <3>5, <3>6, <3>7, SeqEqual
    <3>9. Waiting' = v
      BY <1>2, <2>8, <2>13, <3>1, <3>3 DEF Waiting
    <3>10. QED
      BY <2>11, <3>5, <3>8, <3>9
  <2>16. Laid(Content' \o stream', Waiting')
    BY <1>2, <2>1, <2>4, <2>15
  <2>17. QED
    BY <1>6, <2>14, <2>16 DEF FramingInv
<1>9. QED
  BY <1>1, <1>7, <1>8

\* The task is done, and nothing has been read unless bytes were dropped before
\* (User.h:96-150).
LEMMA NoneKeeps ==
    ASSUME FramingInv, GetPacketNone
    PROVE  FramingInv'
<1>1. /\ RingTypeOK /\ sent \in Seq(Packet) /\ stream \in Seq(Byte)
      /\ got \in Seq([id : Byte, data : Seq(Byte)]) /\ tasks \in Nat
      /\ draining \in BOOLEAN /\ dropped \in BOOLEAN
  BY DEF FramingInv, FramingTypeOK
<1>2. /\ sent' = sent /\ stream' = stream /\ tasks' = tasks /\ draining' = FALSE
      /\ dropped' = dropped /\ got' = got
  BY DEF GetPacketNone
<1>3. CASE UNCHANGED ringVars
  <2>1. RingTypeOK' /\ Content' = Content
    BY <1>1, <1>3, RingStays
  <2>2. FramingTypeOK'
    BY <1>1, <1>2, <2>1 DEF FramingTypeOK
  <2>3. Waiting' = Waiting /\ PacketsIntact' = PacketsIntact
    BY <1>2 DEF Waiting, PacketsIntact
  <2>4. QED
    BY <1>2, <2>1, <2>2, <2>3 DEF FramingInv
<1>4. CASE Complete /\ PeekedId = 0 /\ Read(PeekedLength)
  <2>1. PeekedLength \in Nat
    BY <1>1, <1>4, PeekedType
  <2>2. RingTypeOK'
    BY <1>1, <1>4, <2>1, ReadSize
  <2>3. FramingTypeOK'
    BY <1>1, <1>2, <2>2 DEF FramingTypeOK
  <2>4. dropped
    <3>1. SUFFICES ASSUME ~dropped
                   PROVE  FALSE
      OBVIOUS
    <3>2. \E p \in Packet : PeekedId = p[2]
      BY <1>4, <3>1, FirstPacket
    <3>3. QED
      BY <1>4, <3>2, PacketAssumption
  <2>5. QED
    BY <1>2, <2>3, <2>4 DEF FramingInv, PacketsIntact
<1>5. QED
  BY <1>3, <1>4 DEF GetPacketNone

\* A task is taken (PacketManager.cpp:262-270), or nothing happens.
LEMMA TakeKeeps ==
    ASSUME FramingInv, TakeTask \/ UNCHANGED vars
    PROVE  FramingInv'
<1>1. /\ RingTypeOK /\ sent \in Seq(Packet) /\ stream \in Seq(Byte)
      /\ got \in Seq([id : Byte, data : Seq(Byte)]) /\ tasks \in Nat
      /\ draining \in BOOLEAN /\ dropped \in BOOLEAN
  BY DEF FramingInv, FramingTypeOK
<1>2. /\ sent' = sent /\ stream' = stream /\ dropped' = dropped /\ got' = got
      /\ UNCHANGED ringVars
  <2>1. CASE TakeTask
    BY <2>1 DEF TakeTask
  <2>2. CASE UNCHANGED vars
    BY <2>2 DEF vars, ringVars
  <2>3. TakeTask \/ UNCHANGED vars
    OBVIOUS
  <2>4. QED
    BY <2>1, <2>2, <2>3, Zenon
<1>3. tasks' \in Nat /\ draining' \in BOOLEAN
  <2>1. tasks' \in Nat
    BY <1>1 DEF TakeTask, vars
  <2>2. draining' = TRUE \/ draining' = draining
    BY DEF TakeTask, vars
  <2>3. draining' \in BOOLEAN
    BY <1>1, <2>2
  <2>4. QED
    BY <2>1, <2>3
<1>4. RingTypeOK' /\ Content' = Content
  BY <1>1, <1>2, RingStays
<1>5. FramingTypeOK'
  BY <1>1, <1>2, <1>3, <1>4 DEF FramingTypeOK
<1>6. Waiting' = Waiting /\ PacketsIntact' = PacketsIntact
  BY <1>2 DEF Waiting, PacketsIntact
<1>7. QED
  BY <1>2, <1>4, <1>5, <1>6 DEF FramingInv

\* An empty ring and an empty stream hold no packet.
LEMMA InitFramingInv == Init => FramingInv
<1>1. SUFFICES ASSUME Init
               PROVE  FramingInv
  OBVIOUS
<1>2. RingTypeOK /\ Size = 0
  <2>1. InitRing
    BY <1>1 DEF Init
  <2>2. RingTypeOK
    BY <2>1, InitRingTypeOK
  <2>3. Size = 0
    BY <2>1 DEF InitRing, Size
  <2>4. QED
    BY <2>2, <2>3
<1>3. FramingTypeOK
  <2>1. sent \in Seq(Packet)
    BY <1>1 DEF Init
  <2>2. stream \in Seq(Byte)
    BY <1>1 DEF Init
  <2>3. got \in Seq([id : Byte, data : Seq(Byte)])
    BY <1>1 DEF Init
  <2>4. tasks \in Nat
    BY <1>1 DEF Init
  <2>5. draining \in BOOLEAN /\ dropped \in BOOLEAN
    BY <1>1 DEF Init
  <2>6. QED
    BY <1>2, <2>1, <2>2, <2>3, <2>4, <2>5 DEF FramingTypeOK
<1>4. PacketsIntact
  BY <1>1 DEF Init, PacketsIntact
<1>5. PICK w \in Seq(Packet) : w = Waiting /\ Len(w) = 0
  <2>1. << >> \in Seq(Packet) /\ Len(<< >>) = 0
    OBVIOUS
  <2>2. Len(got) = 0 /\ Len(sent) = 0
    BY <1>1, <2>1 DEF Init
  <2>3. Len(Waiting) = 0 /\ Waiting \in Seq(Packet)
    BY <1>3, <2>2, WaitingType
  <2>4. QED
    BY <2>3
<1>6. PICK t \in Seq(Byte) : t = Content \o stream /\ Len(t) = 0
  <2>1. Content \in Seq(Byte) /\ Len(Content) = 0
    BY <1>2, ContentType DEF ContentOK
  <2>2. stream \in Seq(Byte) /\ Len(stream) = 0
    BY <1>1 DEF Init
  <2>3. PICK c \in Seq(Byte) : c = Content /\ Len(c) = 0
    BY <2>1
  <2>4. PICK s \in Seq(Byte) : s = stream /\ Len(s) = 0
    BY <2>2
  <2>5. c \o s \in Seq(Byte) /\ Len(c \o s) = Len(c) + Len(s)
    BY <2>3, <2>4, ConcatProperties
  <2>6. Len(c \o s) = 0
    BY <2>3, <2>4, <2>5
  <2>7. PICK t \in Seq(Byte) : t = c \o s
    BY <2>5
  <2>8. QED
    BY <2>3, <2>4, <2>6, <2>7
<1>7. Laid(t, w)
  <2> DEFINE off == [k \in 0..0 |-> 0]
  <2>1. off \in [0..Len(w) -> 0..Len(t)]
    BY <1>5, <1>6
  <2>2. LaidAt(t, w, off)
    BY <1>5, <1>6 DEF LaidAt
  <2>3. QED
    BY <2>1, <2>2 DEF Laid
<1>8. QED
  BY <1>3, <1>4, <1>5, <1>6, <1>7 DEF FramingInv

\* In every state, unless bytes were dropped, the ring and the stream hold exactly the
\* packets not yet handled (User.h:79-150).
THEOREM FramingInvHolds == Spec => []FramingInv
<1>1. FramingInv /\ [Next]_vars => FramingInv'
  BY SendKeeps, ReceiveKeeps, TakeKeeps, GetKeeps, NoneKeeps DEF Next
<1>2. QED
  BY InitFramingInv, <1>1, PTL DEF Spec

\* The packets handed to the handlers are the ones the client sent, whole, in order,
\* each once, until a receive finds the ring too full (User.h:79-150), for every size
\* of ring, receive and packet.
THEOREM PacketsIntactHolds == Spec => []PacketsIntact
<1>1. FramingInv => PacketsIntact
  BY DEF FramingInv
<1>2. QED
  BY <1>1, FramingInvHolds, PTL

==============================================================================
