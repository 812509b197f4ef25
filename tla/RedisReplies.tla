---------------------------- MODULE RedisReplies ----------------------------
(***************************************************************************)
(* What the callers of RedisClient get, against a reference parser that    *)
(* has all the bytes at once.                                              *)
(***************************************************************************)
EXTENDS RedisClient

\* the reference parser: the reply at the front of the bytes, whole, "short"
\* of bytes or "bad", and the bytes behind it
Parsed(state, reply, rest) == [state |-> state, reply |-> reply, rest |-> rest]

RECURSIVE ParseReply(_, _)
RECURSIVE ParseItems(_, _, _, _)

ParseItems(items, obj, bytes, depth) ==
    IF items = 0 THEN Parsed("whole", obj, bytes)
    ELSE LET item == ParseReply(bytes, depth) IN
         IF item.state # "whole" THEN item
         ELSE ParseItems(items - 1, [obj EXCEPT !.element = Append(@, item.reply)], item.rest, depth)

ParseReply(bytes, depth) ==
    LET eol == {k \in 2..Len(bytes) - 1 : SubSeq(bytes, k, k + 1) = CRLF}
        type == TypeByte[bytes[1]]
        line == SubSeq(bytes, 2, Min(eol) - 1)
        rest == SubSeq(bytes, Min(eol) + 2, Len(bytes))
        number == string2ll(line)
    IN CASE bytes = << >>                     -> Parsed("short", NoReply, << >>)
         [] bytes[1] \notin DOMAIN TypeByte   -> Parsed("bad", NoReply, << >>)
         [] type \in Aggregate /\ depth = MaxDepth -> Parsed("bad", NoReply, << >>)
         [] eol = {}                          -> Parsed("short", NoReply, << >>)
         [] type \in Aggregate \cup {"string"} /\ (number = NoValue \/ number < -1)
                                              -> Parsed("bad", NoReply, << >>)
         [] type \in Aggregate \cup {"string"} /\ number = -1 -> Parsed("whole", Nil, rest)
         [] type \in Aggregate ->
              ParseItems(IF type = "map" THEN 2 * number ELSE number,
                         Reply(type, 0, << >>, << >>), rest, depth + 1)
         [] type = "string" /\ Len(rest) < number + 2 -> Parsed("short", NoReply, << >>)
         [] type = "string" -> Parsed("whole", Reply(type, 0, SubSeq(rest, 1, number), << >>),
                                      SubSeq(rest, number + 3, Len(rest)))
         [] LineObject(type, line) = NoReply  -> Parsed("bad", NoReply, << >>)
         [] OTHER                             -> Parsed("whole", LineObject(type, line), rest)

\* all replies, and whether the bytes behind the last one are none
RECURSIVE ParseAll(_, _)
ParseAll(bytes, replies) ==
    LET first == ParseReply(bytes, 0) IN
    IF first.state = "whole" THEN ParseAll(first.rest, Append(replies, first.reply))
    ELSE [replies |-> replies, bad |-> first.state = "bad"]

(* However recv() cuts the bytes, across type bytes, length lines, line     *)
(* ends inside strings and levels of nesting, and wherever the reader       *)
(* discards what it has consumed, the replies handed out are those of the   *)
(* whole byte string, and the reader fails exactly on a malformed one; the  *)
(* tasks fit into rstack and the position into the buffer (read.c:612-669). *)
ReadsWholeReplies ==
    LET all == ParseAll(log.fed, << >>) IN
    /\ IsPrefix(log.got, all.replies)
    /\ pc = "read" => log.got = all.replies /\ ~all.bad
    /\ ctx.live /\ ctx.reader.err => all.bad
    /\ Len(ctx.reader.stack) <= MaxDepth + 1 /\ ctx.reader.pos <= Len(ctx.reader.buf)

\* the command numbers a reply carries
RECURSIVE Carried(_)
Carried(reply) ==
    {c - 48 : c \in ToSet(reply.str) \ {13}} \cup ({reply.integer} \ {0})
    \cup UNION {Carried(reply.element[k]) : k \in DOMAIN reply.element}

(* A call gets the reply to its own command, or none, as long as no send   *)
(* was interrupted: after an error, a timeout or a reconnection no call    *)
(* sees the late reply to an earlier one (hiredis.c:1061-1075).            *)
OwnReply ==
    ret.interrupted \/ ret.reply.type = "bool" \/ Carried(ret.reply) \subseteq {ret.number}
=============================================================================
