---------------------------- MODULE RedisReader ----------------------------
(***************************************************************************)
(* The reply parser of hiredis (read.c) and the reply objects it builds    *)
(* (hiredis.c).  A reader keeps the bytes it was fed, how far it has read, *)
(* and a stack of tasks: the item being read and the aggregates it is part *)
(* of.  Bytes arrive in pieces cut anywhere; a step that lacks bytes leaves*)
(* the task where it is and is tried again with the next piece.            *)
(*                                                                         *)
(* A reader is a record; the operators map a reader to the next one.       *)
(***************************************************************************)
EXTENDS RedisText

CONSTANTS MaxDepth,     \* index of the last task of the stack, 8 in the code
          DiscardAt     \* consumed bytes from which they are dropped, 1024 in the code

ASSUME ReaderAssumption == MaxDepth \in Nat \ {0} /\ DiscardAt \in Nat \ {0}

\* struct redisReply; the fields a type does not use stay empty
Reply(type, integer, str, element) ==
    [type |-> type, integer |-> integer, str |-> str, element |-> element]

Nil == Reply("nil", 0, << >>, << >>)

\* the pointer NULL: no reply
NoReply == Reply("none", 0, << >>, << >>)

TypeByte == (45 :> "error") @@ (43 :> "status") @@ (58 :> "integer") @@ (44 :> "double")
            @@ (95 :> "nil") @@ (36 :> "string") @@ (42 :> "array") @@ (37 :> "map")
            @@ (126 :> "set") @@ (35 :> "bool")

Aggregate == {"array", "map", "set"}

LineType == Range(TypeByte) \ (Aggregate \cup {"string"})

\* a task of the stack: which item of its parent it is and, for an aggregate,
\* the object being filled and how many elements it has
Task(idx) == [type |-> "unread", elements |-> 0, idx |-> idx, obj |-> NoReply]

NewReader == [buf |-> << >>, pos |-> 0, stack |-> << >>, reply |-> NoReply, err |-> FALSE]

---------------------------------------------------------------------------
\* an error frees the reply under construction, drops the input and the stack,
\* and is kept
SetError(r) == [NewReader EXCEPT !.err = TRUE]

Ready(r) == SubSeq(r.buf, r.pos + 1, Len(r.buf))

\* position of \r\n, 0 when there is none yet; a \r alone does not count
seekNewline(s) ==
    LET at == {k \in 1..Len(s) - 1 : s[k] = 13 /\ s[k + 1] = 10} IN
    IF at = {} THEN 0 ELSE Min(at)

Cur(r) == Last(r.stack)

SetCur(r, task) == [r EXCEPT !.stack[Len(r.stack)] = task]

Drop(r, n) == [r EXCEPT !.pos = @ + n]

\* the item being read is there: its object is kept until moveToNextTask
Done(r, n, obj) == SetCur(Drop(r, n), [Cur(r) EXCEPT !.type = "done", !.obj = obj])

\* mutant: the parent is left one element early
moveToNextTaskEarly(r) ==
    LET parent == r.stack[Len(r.stack) - 1]
        filled == [parent EXCEPT !.obj.element = Append(@, Cur(r).obj)]
    IN IF Len(r.stack) = 1 THEN [r EXCEPT !.stack = << >>, !.reply = Cur(r).obj]
       ELSE [r EXCEPT !.stack = SubSeq(@, 1, Len(@) - 2) \o
                IF Cur(r).idx + 2 >= parent.elements
                THEN <<[filled EXCEPT !.type = "done"]>>
                ELSE <<filled, Task(Cur(r).idx + 1)>>]

\* the item just read is the reply at the root, else an element of its parent,
\* which is done with it or has a next element to be read
moveToNextTask(r) ==
    LET parent == r.stack[Len(r.stack) - 1]
        filled == [parent EXCEPT !.obj.element = Append(@, Cur(r).obj)]
    IN IF Len(r.stack) = 1 THEN [r EXCEPT !.stack = << >>, !.reply = Cur(r).obj]
       ELSE [r EXCEPT !.stack = SubSeq(@, 1, Len(@) - 2) \o
                IF Cur(r).idx = parent.elements - 1
                THEN <<[filled EXCEPT !.type = "done"]>>
                ELSE <<filled, Task(Cur(r).idx + 1)>>]

\* what strtod makes of a line of digits: a sign, digits and one point
isDouble(t) ==
    LET digits == IF t # << >> /\ t[1] = Minus THEN Tail(t) ELSE t IN
    /\ \A k \in DOMAIN digits : digits[k] \in 48..57 \cup {46}
    /\ \E k \in DOMAIN digits : digits[k] # 46
    /\ Cardinality({k \in DOMAIN digits : digits[k] = 46}) <= 1

\* the object a line of this type stands for, or none when it is malformed
LineObject(type, line) ==
    CASE type = "integer" -> IF string2ll(line) = NoValue THEN NoReply
                             ELSE Reply(type, string2ll(line), << >>, << >>)
      [] type = "double"  -> IF isDouble(line) THEN Reply(type, 0, line, << >>) ELSE NoReply
      [] type = "nil"     -> Nil
      [] type = "bool"    -> Reply(type, IF line # << >> /\ line[1] \in {84, 116} THEN 1 ELSE 0,
                                   << >>, << >>)
      [] OTHER            -> Reply(type, 0, line, << >>)

processLineItem(r) ==
    LET at == seekNewline(Ready(r))
        obj == LineObject(Cur(r).type, SubSeq(Ready(r), 1, at - 1))
    IN CASE at = 0        -> r
         [] obj = NoReply -> SetError(r)
         [] OTHER         -> Done(r, at + 1, obj)

\* the whole string must be there: its length line, its bytes, its line end
processBulkItem(r) ==
    LET at == seekNewline(Ready(r))
        len == string2ll(SubSeq(Ready(r), 1, at - 1))
        bytes == SubSeq(Ready(r), at + 2, at + 1 + len)
    IN CASE at = 0                            -> r
         [] len = NoValue \/ len < -1         -> SetError(r)
         [] len = -1                          -> Done(r, at + 1, Nil)
         [] at + 1 + len + 2 > Len(Ready(r))  -> r
         [] OTHER -> Done(r, at + 1 + len + 2, Reply("string", 0, bytes, << >>))

\* an aggregate with elements becomes the parent of the next task; the depth
\* is tested before the length is there
processAggregateItem(r) ==
    LET at == seekNewline(Ready(r))
        count == string2ll(SubSeq(Ready(r), 1, at - 1))
        elements == IF Cur(r).type = "map" THEN count * 2 ELSE count
        obj == Reply(Cur(r).type, 0, << >>, << >>)
    IN CASE Len(r.stack) - 1 = MaxDepth         -> SetError(r)
         [] at = 0                              -> r
         [] count = NoValue \/ count < -1       -> SetError(r)
         [] count = -1                          -> Done(r, at + 1, Nil)
         [] elements = 0                        -> Done(r, at + 1, obj)
         [] OTHER -> LET s == SetCur(Drop(r, at + 1),
                                     [Cur(r) EXCEPT !.elements = elements, !.obj = obj])
                     IN [s EXCEPT !.stack = Append(@, Task(0))]

\* the type byte is consumed on its own, once; an item that lacks bytes is left
\* where it is
processItem(r) ==
    CASE r.stack = << >>             -> r
      [] Cur(r).type = "done"        -> moveToNextTask(r)
      [] Cur(r).type = "string"      -> processBulkItem(r)
      [] Cur(r).type \in Aggregate   -> processAggregateItem(r)
      [] Cur(r).type \in LineType    -> processLineItem(r)
      [] Ready(r) = << >>            -> r
      [] Head(Ready(r)) \notin DOMAIN TypeByte -> SetError(r)
      [] OTHER -> SetCur(Drop(r, 1), [Cur(r) EXCEPT !.type = TypeByte[Head(Ready(r))]])

\* while (r->ridx >= 0) if (processItem(r) != REDIS_OK) break: as far as the
\* bytes go.  An item takes three steps and at least three bytes, an aggregate
\* begun in an earlier call one step when it is done
processItems(r) ==
    LET after[n \in Nat] == IF n = 0 THEN r ELSE processItem(after[n - 1])
    IN after[Len(r.buf) + MaxDepth + 1]

redisReaderFeed(r, bytes) == IF r.err THEN r ELSE [r EXCEPT !.buf = @ \o bytes]

\* the consumed bytes are dropped, unless the call failed
Discard(r) == IF ~r.err /\ r.pos >= DiscardAt THEN [r EXCEPT !.buf = Ready(r), !.pos = 0] ELSE r

\* the reader after a call, with the reply to be handed out once no task is left
redisReaderGetReply(r) ==
    IF r.err \/ r.buf = << >> THEN r
    ELSE Discard(processItems(IF r.stack = << >> THEN [r EXCEPT !.stack = <<Task(0)>>] ELSE r))
=============================================================================
