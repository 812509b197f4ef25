----------------------------- MODULE SdsString -----------------------------
(***************************************************************************)
(* The dynamic string of hiredis (sds.c, sds.h), the type of every buffer  *)
(* of the Redis client: a header that says how many bytes are used and how *)
(* many there are, in the smallest of five widths that fits, and the bytes *)
(* with a NUL after them.  A header of type 5 has no room field: its free  *)
(* space is taken to be none.  Widths are scaled down, so that a few bytes *)
(* go through several of them.                                             *)
(*                                                                         *)
(* buf holds the bytes up to the terminator; what is behind it is dead and *)
(* not represented.  size is what the allocator gave, which the header     *)
(* does not know.  Bytes stored past size are lost.  Allocation succeeds.  *)
(***************************************************************************)
EXTENDS RedisText

CONSTANTS Width,             \* values the len field of each header type can hold
          SDS_MAX_PREALLOC,  \* length from which free space stops doubling
          StaticBuf,         \* size of the first buffer of sdscatvprintf
          Chunk,             \* the byte strings callers pass
          Formats,           \* the formats of sdscatfmt, cut into items
          Sets,              \* the character sets callers trim
          Numbers,           \* the numbers callers convert
          Positions,         \* the positions callers pass to sdsrange
          MaxLen             \* bound: longest text built

ASSUME WidthAssumption == Width \in Seq(Nat) /\ Len(Width) >= 2

VARIABLE s

SDS_TYPE_5 == 1

SDS_TYPE_8 == 2

\* the sizes a type is chosen for: 31, then one less than the field can hold
Limit(type) == IF type = SDS_TYPE_5 THEN Width[type] ELSE Width[type] - 1

sdsReqType(size) ==
    LET fit == {type \in DOMAIN Width : size < Limit(type)} IN
    IF fit = {} THEN Len(Width) ELSE Min(fit)

sdsalloc(x) == IF x.type = SDS_TYPE_5 THEN x.len ELSE x.alloc

sdsavail(x) == IF x.type = SDS_TYPE_5 THEN 0 ELSE x.alloc - x.len

sdssetlen(x, n) == [x EXCEPT !.len = n % Width[x.type]]

sdssetalloc(x, n) == IF x.type = SDS_TYPE_5 THEN x ELSE [x EXCEPT !.alloc = n % Width[x.type]]

\* bytes written from the start of the buffer, terminator included
Store(x, bytes) == [x EXCEPT !.buf = FirstOf(bytes, x.size + 1)]

\* the bytes the string holds
Content(x) == FirstOf(x.buf, x.len)

---------------------------------------------------------------------------
\* init copied, or n zero bytes when there is no init
sdsnewlen(init) ==
    LET n == Len(init)
        type == IF n = 0 THEN SDS_TYPE_8 ELSE sdsReqType(n)
    IN [type |-> type, size |-> n, len |-> n % Width[type],
        alloc |-> IF type = SDS_TYPE_5 THEN 0 ELSE n % Width[type],
        buf |-> Append(init, NUL)]

\* the free space doubles what is needed, up to SDS_MAX_PREALLOC more; the
\* bytes and their terminator are kept by realloc, or copied when the header
\* changes its size, with the length set again in the new header
sdsMakeRoomFor(x, addlen) ==
    LET want == x.len + addlen
        newlen == IF want < SDS_MAX_PREALLOC THEN want * 2 ELSE want + SDS_MAX_PREALLOC
        type == IF sdsReqType(newlen) = SDS_TYPE_5 THEN SDS_TYPE_8 ELSE sdsReqType(newlen)
        moved == IF type = x.type THEN [x EXCEPT !.size = newlen]
                 ELSE sdssetlen([x EXCEPT !.type = type, !.size = newlen], x.len)
    IN IF sdsavail(x) >= addlen THEN x ELSE sdssetalloc(moved, newlen)

sdsRemoveFreeSpace(x) ==
    LET type == sdsReqType(x.len)
        moved == IF type = x.type THEN [x EXCEPT !.size = x.len]
                 ELSE sdssetlen([x EXCEPT !.type = type, !.size = x.len, !.alloc = 0], x.len)
    IN sdssetalloc(moved, x.len)

sdscatlen(x, t) ==
    LET room == sdsMakeRoomFor(x, Len(t)) IN
    sdssetlen(Store(room, Content(x) \o t \o <<NUL>>), x.len + Len(t))

sdscpylen(x, t) ==
    LET room == IF sdsalloc(x) < Len(t) THEN sdsMakeRoomFor(x, Len(t) - x.len) ELSE x IN
    sdssetlen(Store(room, Append(t, NUL)), Len(t))

\* the caller writes t behind the string and sets the length, with the
\* condition asserted
sdsIncrLen(x, t) == sdssetlen(Store(x, Content(x) \o t \o <<NUL>>), x.len + Len(t))

sdsgrowzero(x, n) ==
    IF n <= x.len THEN x
    ELSE LET room == sdsMakeRoomFor(x, n - x.len) IN
         sdssetlen(Store(room, Content(x) \o [k \in 1..n - x.len + 1 |-> NUL]), n)

\* the buffer vsnprintf fills is doubled until its last byte but one is free;
\* what is appended is the C string found there
sdscatvprintf(x, fmtlen, printed) ==
    LET first == IF fmtlen * 2 > StaticBuf THEN fmtlen * 2 ELSE StaticBuf
        full(n) == Len(printed) >= n - 1 /\ printed[n - 1] # NUL
        buflen[n \in Nat] == IF full(n) THEN buflen[n * 2] ELSE n
    IN sdscatlen(x, CString(FirstOf(printed, buflen[first] - 1)))

\* one item of the format: room for a character is made at every round, more
\* when the argument needs it; the terminator is written after the last item
catfmtItem(x, item) ==
    LET one == IF sdsavail(x) = 0 THEN sdsMakeRoomFor(x, 1) ELSE x
        l == Len(item.data)
        room == IF item.arg /\ sdsavail(one) < l THEN sdsMakeRoomFor(one, l) ELSE one
    IN sdssetlen(Store(room, Content(x) \o item.data), x.len + l)

sdscatfmt(x, items) ==
    LET end == FoldLeft(catfmtItem, x, items) IN Store(end, Append(Content(end), NUL))

\* mutant: only the start is moved
trimLeft(x, cset) ==
    LET sp == IF \E i \in 1..x.len : x.buf[i] \notin cset \cup {NUL}
              THEN Min({i \in 1..x.len : x.buf[i] \notin cset \cup {NUL}}) ELSE x.len + 1
    IN sdssetlen(Store(x, SubSeq(x.buf, sp, x.len + 1)), x.len - sp + 1)

\* strchr(cset, c) also finds the terminator of cset; the end stops at the
\* start, which has passed the last byte when nothing is left
sdstrim(x, cset) ==
    LET trimmed(i) == x.buf[i] \in cset \cup {NUL}
        sp == IF \E i \in 1..x.len : ~trimmed(i)
              THEN Min({i \in 1..x.len : ~trimmed(i)}) ELSE x.len + 1
        ep == IF sp > x.len THEN x.len ELSE Max({i \in sp..x.len : i = sp \/ ~trimmed(i)})
        n == IF sp > ep THEN 0 ELSE ep - sp + 1
    IN sdssetlen(Store(x, Append(SubSeq(x.buf, sp, sp + n - 1), NUL)), n)

\* mutant: an end behind the string is not moved to its last byte
rangeLong(x, start, end) ==
    LET from(n) == IF n >= 0 THEN n ELSE IF x.len + n < 0 THEN 0 ELSE x.len + n
        b == from(start)
        e == from(end)
        n == IF b > e \/ b >= x.len THEN 0 ELSE e - b + 1
    IN IF x.len = 0 THEN x
       ELSE sdssetlen(Store(x, Append(SubSeq(x.buf, b + 1, b + n), NUL)), n)

sdsrange(x, start, end) ==
    LET from(n) == IF n >= 0 THEN n ELSE IF x.len + n < 0 THEN 0 ELSE x.len + n
        b == from(start)
        e == IF from(end) >= x.len THEN x.len - 1 ELSE from(end)
        n == IF b > from(end) \/ b >= x.len \/ b > e THEN 0 ELSE e - b + 1
    IN IF x.len = 0 THEN x
       ELSE sdssetlen(Store(x, Append(SubSeq(x.buf, b + 1, b + n), NUL)), n)

\* sdstolower, sdstoupper and sdsmapchars change bytes in place
mapBytes(x, map) == [x EXCEPT !.buf = [k \in 1..Len(@) |-> IF k <= x.len THEN map[@[k]] ELSE @[k]]]

\* the representation is appended piece by piece
sdscatrepr(x, t) ==
    sdscatlen(FoldLeft(LAMBDA y, c : sdscatlen(y, reprByte(c)), sdscatlen(x, <<Quote>>), t),
              <<Quote>>)

\* the length field is set to what strlen finds
sdsupdatelen(x) ==
    LET t == CString(x.buf) IN sdssetlen(Store(x, Append(t, NUL)), Len(t))

---------------------------------------------------------------------------
Init == \E t \in Chunk : s = sdsnewlen(t)

\* what a call returns replaces the string, as in s = sdscatlen(s, ...)
Call(r) == Len(Content(r)) <= MaxLen /\ s' = r

Create ==
    \/ \E t \in Chunk : Call(sdsnewlen(t)) \/ Call(sdsnewlen(CString(t)))
    \/ \E n \in 0..MaxLen : Call(sdsnewlen([k \in 1..n |-> NUL]))
    \/ \E v \in Numbers : Call(sdsnewlen(sdsll2str(v)))
    \/ Call(sdsnewlen(Content(s)))

sdsclear == Call(sdssetlen(Store(s, <<NUL>>), 0))

Room ==
    \/ \E n \in 0..MaxLen : Call(sdsMakeRoomFor(s, n))
    \/ Call(sdsRemoveFreeSpace(s))

AppendTo ==
    \/ \E t \in Chunk : Call(sdscatlen(s, t)) \/ Call(sdscatlen(s, CString(t)))
                        \/ Call(sdscatrepr(s, t))
    \/ Call(sdscatlen(s, Content(s)))
    \/ \E items \in Formats : Call(sdscatfmt(s, items))
    \/ \E t \in Chunk, fmtlen \in {1, StaticBuf} : Call(sdscatvprintf(s, fmtlen, t))
    \/ \E n \in 0..MaxLen : Call(sdsgrowzero(s, n))

CopyTo == \E t \in Chunk : Call(sdscpylen(s, t)) \/ Call(sdscpylen(s, CString(t)))

\* s = sdsMakeRoomFor(s, n), at most n bytes are read into it, sdsIncrLen
ReadInto ==
    \E n \in 1..MaxLen, t \in Chunk :
        Len(t) <= n /\ Call(sdsIncrLen(sdsMakeRoomFor(s, n), t))

\* sdsIncrLen with a negative increment
Shorten ==
    \E k \in 1..MaxLen :
        k <= s.len /\ Call(sdssetlen(Store(s, Append(SubSeq(s.buf, 1, s.len - k), NUL)), s.len - k))

\* a byte of the string is overwritten with NUL and the length updated
Hack == \E k \in 1..MaxLen : k <= s.len /\ Call(sdsupdatelen([s EXCEPT !.buf[k] = NUL]))

Cut ==
    \/ \E cset \in Sets : Call(sdstrim(s, cset))
    \/ \E start, end \in Positions : Call(sdsrange(s, start, end))

InPlace ==
    \/ Call(mapBytes(s, [c \in 0..255 |-> tolower(c)]))
    \/ Call(mapBytes(s, [c \in 0..255 |-> toupper(c)]))

Next == \/ Create \/ sdsclear \/ Room \/ AppendTo \/ CopyTo \/ ReadInto
        \/ Shorten \/ Hack \/ Cut \/ InPlace

Spec == Init /\ [][Next]_s

---------------------------------------------------------------------------
Occurs(sep, t) == \E k \in 1..Len(t) - Len(sep) + 1 : SubSeq(t, k, k + Len(sep) - 1) = sep

\* the reference for a command: the server reads a count, then for each
\* argument a length line, that many bytes and a line end
NumberLine(bytes) ==
    LET cr == SelectInSeq(bytes, LAMBDA c : c = 13)
    IN [value |-> string2ll(SubSeq(bytes, 2, cr - 1)), rest |-> SubSeq(bytes, cr + 2, Len(bytes))]

ParseCommand(bytes) ==
    LET head == NumberLine(bytes)
        step(st, k) == LET line == NumberLine(st.rest) IN
            [argv |-> Append(st.argv, SubSeq(line.rest, 1, line.value)),
             rest |-> SubSeq(line.rest, line.value + 3, Len(line.rest))]
    IN FoldLeft(step, [argv |-> << >>, rest |-> head.rest], [k \in 1..head.value |-> k]).argv

\* s is a string of some header type.
SdsTypeOK ==
    /\ s.type \in DOMAIN Width
    /\ s.len \in Nat /\ s.alloc \in Nat /\ s.size \in Nat
    /\ s.buf \in Seq(0..255)

(* The header tells the truth about memory after any sequence of calls: a  *)
(* NUL stands at s[len], and len <= alloc <= what the allocator gave, so    *)
(* that no later call writes outside it (sds.c:194-240).  And "the caller   *)
(* is sure that after calling this function can overwrite up to addlen      *)
(* bytes after the end of the string, plus one more byte for nul term"      *)
(* (sds.c:188-190): the free space reported and the free space there is are *)
(* both enough.                                                             *)
HeaderSound ==
    /\ Len(s.buf) = s.len + 1 /\ s.buf[s.len + 1] = NUL
    /\ s.len <= sdsalloc(s) /\ sdsalloc(s) <= s.size
    /\ \A n \in 0..MaxLen : LET r == sdsMakeRoomFor(s, n) IN
          sdsavail(r) >= n /\ r.len + n <= r.size /\ Content(r) = Content(s)

\* the part of t between two positions, both included
Slice(t, from, to) ==
    LET inside == {i \in 1..Len(t) : i - 1 \in from..to} IN
    IF inside = {} THEN << >> ELSE SubSeq(t, Min(inside), Max(inside))

\* a negative position counts from the end of t, before the beginning means
\* the beginning
Position(t, n) == IF n >= 0 THEN n ELSE Max({0, Len(t) + n})

\* t without the characters of cset at both ends
Trimmed(t, cset) ==
    LET kept == {i \in 1..Len(t) : t[i] \notin cset} IN
    IF kept = {} THEN << >> ELSE SubSeq(t, Min(kept), Max(kept))

(* Whatever the header type and the free space a history of calls has left *)
(* the string with, every call turns its text into the text its            *)
(* documentation promises (sds.c:356-763): nothing is cut off, nothing is  *)
(* left over from before.  sdstrim keeps its promise for texts without NUL *)
(* only: it takes NULs off both ends too, which its comment does not say   *)
(* (sds.c:678-679, 698-699; see the README).                               *)
CallsDoWhatTheySay ==
    LET t == Content(s) IN
    /\ Content(sdsRemoveFreeSpace(s)) = t
    /\ \A u \in Chunk :
          /\ Content(sdscatlen(s, u)) = t \o u
          /\ Content(sdscpylen(s, u)) = u
          /\ Content(sdscatrepr(s, u)) = t \o repr(u)
          /\ Content(sdscatvprintf(s, 1, u)) = t \o CString(u)
          /\ Content(sdsIncrLen(sdsMakeRoomFor(s, Len(u) + 1), u)) = t \o u
    /\ \A items \in Formats :
          Content(sdscatfmt(s, items)) = t \o FlattenSeq([k \in 1..Len(items) |-> items[k].data])
    /\ \A n \in 0..MaxLen : Content(sdsgrowzero(s, n)) = t \o [k \in 1..n - Len(t) |-> NUL]
    /\ NUL \notin ToSet(t) => \A cset \in Sets : Content(sdstrim(s, cset)) = Trimmed(t, cset)
    /\ \A start, end \in Positions :
          Content(sdsrange(s, start, end)) = Slice(t, Position(t, start), Position(t, end))

(* "Because of its strictness, it is safe to use this function to check if *)
(* you can convert a string into a long long, and obtain back the string   *)
(* from the number without any loss" (read.c:156-158): string2ll accepts   *)
(* exactly the texts sdsll2str writes, the smallest and the largest value  *)
(* included, and returns the number written.                               *)
LLText == [v \in LL |-> sdsll2str(v)]

NumberRoundTrip ==
    LET t == Content(s) IN
    string2ll(t) = IF \E v \in LL : LLText[v] = t THEN CHOOSE v \in LL : LLText[v] = t
                   ELSE NoValue

(* Joining what sdssplitlen returns gives the string back, for a separator *)
(* that overlaps itself too, and the token array always had a slot for the *)
(* next token (sds.c:804-851).                                             *)
SplitJoinRoundTrip ==
    LET t == Content(s) IN
    \A sep \in (Chunk \cup {c \o c : c \in Chunk}) \ {<< >>} :
        /\ sdsjoinsds(sdssplitlen(t, sep), sep) = t
        /\ \A k \in DOMAIN sdssplitlen(t, sep) : ~ Occurs(sep, sdssplitlen(t, sep)[k])
        /\ NUL \notin ToSet(t \o sep) => sdsjoin(sdssplitlen(t, sep), sep) = t
        /\ t # << >> => Len(splitScan(t, sep).tokens) <= splitScan(t, sep).slots

(* "sdscatrepr() is able to convert back a string into a quoted string in   *)
(* the same format sdssplitargs() is able to parse" (sds.c:933-934): the   *)
(* line holding the representation is parsed into the string, whatever its *)
(* bytes.                                                                  *)
ReprRoundTrip ==
    LET t == Content(s) IN
    LET parsed == sdssplitargs(repr(t) \o <<Space>> \o repr(t)) IN
    parsed.mode = "end" /\ parsed.argv = <<t, t>>

\* the bytes of a command are read as its arguments and are as many as counted
ReadAs(cmd, argv) == ParseCommand(cmd) = argv /\ Len(cmd) = totlen(argv)

\* numbers on both sides of a change in the number of their digits, and a
\* command with a count and lengths of several digits
DigitsChange ==
    LET argv == [k \in 1..10 |-> [j \in 1..(IF k < 10 THEN k + 1 ELSE 100) |-> j]] IN
    /\ ReadAs(redisFormatCommandArgv(argv), argv)
    /\ \A k \in 1..8 : countDigits(10^k) = k + 1 /\ countDigits(10^k - 1) = k

(* A command reaches the server as the arguments it was made of, empty and  *)
(* binary ones included, from a vector or from a format ("%s" takes what is *)
(* before the NUL); and it has exactly the length computed for it before it *)
(* is written, which the code asserts (hiredis.c:267-282, 304-350, 518,     *)
(* 589, 630).                                                               *)
CommandRoundTrip ==
    /\ DigitsChange
    /\ \A u \in Chunk :
          LET argv == <<Content(s), u>>
              text == <<CString(argv[1]), CString(u)>>
              format(kind) == <<[kind |-> kind, data |-> argv[1]], [kind |-> "space"],
                                [kind |-> kind, data |-> argv[2]]>>
          IN /\ ReadAs(redisFormatCommandArgv(argv), argv)
             /\ redisvFormatCommand(format("b")) = redisFormatCommandArgv(argv)
             /\ redisvFormatCommand(format("s")) = redisFormatCommandArgv(text)

(* What is written in one of hiredis's textual forms is read back without   *)
(* loss, from every text a string can hold: numbers (read.c:147-220), split *)
(* and joined tokens (sds.c:804-859, 1083-1106), quoted text (sds.c:861-890,*)
(* 942-1058) and commands (hiredis.c:455-639); see the four parts above.    *)
TextsRoundTrip ==
    NumberRoundTrip /\ SplitJoinRoundTrip /\ ReprRoundTrip /\ CommandRoundTrip
=============================================================================
