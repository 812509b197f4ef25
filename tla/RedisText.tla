----------------------------- MODULE RedisText -----------------------------
(***************************************************************************)
(* The conversions of hiredis as functions on byte strings: numbers,       *)
(* splitting and joining, the quoted representation and the parser of a    *)
(* line of arguments (sds.c), reading a number (read.c) and formatting a   *)
(* command (hiredis.c).  A byte is its ASCII code, a string a sequence of  *)
(* bytes, a C string the part of a buffer before its first NUL.            *)
(***************************************************************************)
EXTENDS Integers, SequencesExt

CONSTANTS LLBits,     \* width of a long long, 64 in the code
          Slots       \* slots of a token array at first, 5 in the code

ASSUME TextAssumption == LLBits \in Nat \ {0, 1} /\ Slots \in Nat \ {0, 1}

NUL == 0
LF == 10
Space == 32
Quote == 34
Apostrophe == 39
Minus == 45
Backslash == 92

ULL == 0 .. 2^LLBits - 1

LL == -(2^(LLBits-1)) .. 2^(LLBits-1) - 1

\* strlen: what a callee sees of a buffer handed over as a C string
CString(t) ==
    IF NUL \in ToSet(t) THEN SubSeq(t, 1, SelectInSeq(t, LAMBDA c : c = NUL) - 1) ELSE t

\* at most the first n elements
FirstOf(seq, n) == IF n < Len(seq) THEN SubSeq(seq, 1, n) ELSE seq

isprint(c) == c \in 32..126

isspace(c) == c = Space \/ c \in 9..13

tolower(c) == IF c \in 65..90 THEN c + 32 ELSE c

toupper(c) == IF c \in 97..122 THEN c - 32 ELSE c

---------------------------------------------------------------------------
\* do { *p++ = '0'+(v%10); v /= 10; } while(v), then reversed in place
sdsull2str(v) ==
    LET digits[w \in ULL] == IF w < 10 THEN <<48 + w>>
                             ELSE digits[w \div 10] \o <<48 + (w % 10)>>
    IN digits[v]

\* v = (value < 0) ? -value : value, in the unsigned type; the smallest value
\* is its own negation there
sdsll2str(value) ==
    IF value < 0
    THEN <<Minus>> \o sdsull2str((-value) % 2^LLBits)
    ELSE sdsull2str(value)

\* no number was read: a value outside the type
NoValue == 2^LLBits

\* mutant: the addition of the digit is not checked
stepOverflowing(st, c) ==
    LET v == (st.v * 10 + (c - 48)) % 2^LLBits IN
    IF st.ok /\ c \in 48..57 /\ st.v <= (2^LLBits - 1) \div 10
    THEN [v |-> v, ok |-> TRUE]
    ELSE [st EXCEPT !.ok = FALSE]

\* one digit more, unless one of the two overflow checks or the digit fails
string2llStep(st, c) ==
    IF /\ st.ok /\ c \in 48..57
       /\ st.v <= (2^LLBits - 1) \div 10
       /\ st.v * 10 <= 2^LLBits - 1 - (c - 48)
    THEN [st EXCEPT !.v = st.v * 10 + (c - 48)]
    ELSE [st EXCEPT !.ok = FALSE]

string2ll(s) ==
    LET negative == s # << >> /\ s[1] = Minus
        digits == IF negative THEN Tail(s) ELSE s
        end == FoldLeft(string2llStep, [v |-> 0, ok |-> TRUE], digits)
    IN CASE s = <<48>>                                      -> 0
         [] digits = << >> \/ digits[1] \notin 49..57       -> NoValue
         [] ~end.ok                                         -> NoValue
         [] negative /\ end.v <= 2^(LLBits-1)               -> -end.v
         [] ~negative /\ end.v <= 2^(LLBits-1) - 1          -> end.v
         [] OTHER                                           -> NoValue

---------------------------------------------------------------------------
(* The scan of sdssplitlen: j runs over the positions where a separator     *)
(* could start; the token array has some slots and doubles when fewer than  *)
(* two are left, one for the next token and one for the last.               *)

splitRoom(slots, elements) == IF slots < elements + 2 THEN slots * 2 ELSE slots

\* one round of the loop at position j (counted from 0); positions inside a
\* separator already taken are skipped by j = j+seplen-1
splitStep(s, sep, st, j) ==
    LET slots == splitRoom(st.slots, Len(st.tokens)) IN
    IF j < st.start THEN st
    ELSE IF SubSeq(s, j + 1, j + Len(sep)) # sep
    THEN [st EXCEPT !.slots = slots]
    ELSE [tokens |-> Append(st.tokens, SubSeq(s, st.start + 1, j)),
          start |-> j + Len(sep), slots |-> slots]

\* the tokens and the slots of the array that holds them
splitScan(s, sep) ==
    LET positions == [k \in 1..Len(s) - Len(sep) + 1 |-> k - 1]
        end == FoldLeft(LAMBDA st, j : splitStep(s, sep, st, j),
                        [tokens |-> << >>, start |-> 0, slots |-> Slots], positions)
    IN [end EXCEPT !.tokens = Append(@, SubSeq(s, end.start + 1, Len(s)))]

sdssplitlen(s, sep) == IF s = << >> THEN << >> ELSE splitScan(s, sep).tokens

sdsjoinsds(argv, sep) ==
    FoldLeft(LAMBDA join, j : join \o argv[j] \o (IF j = Len(argv) THEN << >> ELSE sep),
             << >>, [j \in 1..Len(argv) |-> j])

\* the same on C strings: every argument and the separator end at their NUL
sdsjoin(argv, sep) ==
    sdsjoinsds([j \in 1..Len(argv) |-> CString(argv[j])], CString(sep))

---------------------------------------------------------------------------
(* The quoted representation and its parser.                               *)

HexDigit(n) == IF n < 10 THEN 48 + n ELSE 87 + n

is_hex_digit(c) == c \in 48..57 \/ c \in 97..102 \/ c \in 65..70

hex_digit_to_int(c) ==
    CASE c \in 48..57  -> c - 48
      [] c \in 97..102 -> c - 87
      [] c \in 65..70  -> c - 55
      [] OTHER         -> 0

\* the letter after the backslash, for the five control characters with one
Escape == 10 :> 110 @@ 13 :> 114 @@ 9 :> 116 @@ 7 :> 97 @@ 8 :> 98

Unescape(c) == IF \E b \in DOMAIN Escape : Escape[b] = c
               THEN CHOOSE b \in DOMAIN Escape : Escape[b] = c
               ELSE c

reprByte(c) ==
    CASE c \in {Backslash, Quote} -> <<Backslash, c>>
      [] c \in DOMAIN Escape      -> <<Backslash, Escape[c]>>
      [] isprint(c)               -> <<c>>
      [] OTHER                    -> <<Backslash, 120, HexDigit(c \div 16), HexDigit(c % 16)>>

\* what sdscatrepr appends for the bytes p
repr(p) == <<Quote>> \o FlattenSeq([k \in 1..Len(p) |-> reprByte(p[k])]) \o <<Quote>>

(* sdssplitargs on a C string.  A state of the parser is the position, the  *)
(* tokens so far, the current token and how it is read: "skip" between      *)
(* tokens, "plain", "inq" in double and "insq" in single quotes.  It ends   *)
(* in "end", or in "err" with unbalanced quotes or a quote that runs on.    *)
Skip(st, p) == [st EXCEPT !.mode = "skip", !.p = p, !.cur = << >>,
                          !.argv = Append(@, st.cur)]

Take(st, byte, n) == [st EXCEPT !.cur = Append(@, byte), !.p = @ + n]

Err(st) == [st EXCEPT !.mode = "err", !.argv = << >>, !.cur = << >>]

\* a closing quote must be followed by a space or nothing at all
closeQuote(st, next) ==
    IF next # NUL /\ ~isspace(next) THEN Err(st) ELSE Skip(st, st.p + 1)

splitargsStep(line, st) ==
    LET at(k) == IF st.p + k <= Len(line) THEN line[st.p + k] ELSE NUL
        c == at(0)
    IN
    CASE st.mode = "skip" ->
           IF c = NUL THEN [st EXCEPT !.mode = "end"]
           ELSE IF isspace(c) THEN [st EXCEPT !.p = @ + 1]
           ELSE [st EXCEPT !.mode = "plain"]
      [] st.mode = "plain" ->
           IF c \in {Space, LF, 13, 9, NUL}
           THEN Skip(st, IF c = NUL THEN st.p ELSE st.p + 1)
           ELSE IF c = Quote THEN [st EXCEPT !.mode = "inq", !.p = @ + 1]
           ELSE IF c = Apostrophe THEN [st EXCEPT !.mode = "insq", !.p = @ + 1]
           ELSE Take(st, c, 1)
      [] st.mode = "inq" ->
           IF c = Backslash /\ at(1) = 120 /\ is_hex_digit(at(2)) /\ is_hex_digit(at(3))
           THEN Take(st, hex_digit_to_int(at(2)) * 16 + hex_digit_to_int(at(3)), 4)
           ELSE IF c = Backslash /\ at(1) # NUL THEN Take(st, Unescape(at(1)), 2)
           ELSE IF c = Quote THEN closeQuote(st, at(1))
           ELSE IF c = NUL THEN Err(st)
           ELSE Take(st, c, 1)
      [] st.mode = "insq" ->
           IF c = Backslash /\ at(1) = Apostrophe THEN Take(st, Apostrophe, 2)
           ELSE IF c = Apostrophe THEN closeQuote(st, at(1))
           ELSE IF c = NUL THEN Err(st)
           ELSE Take(st, c, 1)
      [] OTHER -> st

\* the end of the parse: mode says whether argv or NULL is returned
sdssplitargs(buffer) ==
    LET line == CString(buffer)
        State == [mode : {"skip", "plain", "inq", "insq", "end", "err"}, p : Nat,
                  cur : Seq(Nat), argv : Seq(Seq(Nat))]
        parse[st \in State] ==
            IF st.mode \in {"end", "err"} THEN st ELSE parse[splitargsStep(line, st)]
    IN parse[[mode |-> "skip", p |-> 1, cur |-> << >>, argv |-> << >>]]

---------------------------------------------------------------------------
(* Commands: an array of bulk strings, its length computed before it is    *)
(* written.                                                                *)

CRLF == <<13, 10>>

countDigits(v) ==
    LET digits[w \in Nat] == CASE w < 10 -> 1 [] w < 100 -> 2 [] w < 1000 -> 3
                               [] w < 10000 -> 4 [] OTHER -> 4 + digits[w \div 10000]
    IN digits[v]

bulklen(len) == 1 + countDigits(len) + 2 + len + 2

\* the number of bytes allocated for a command
totlen(argv) ==
    FoldLeft(LAMBDA n, arg : n + bulklen(Len(arg)), 1 + countDigits(Len(argv)) + 2, argv)

\* the bytes written for it, by sprintf and memcpy or through an sds
redisFormatCommandArgv(argv) ==
    FoldLeft(LAMBDA cmd, arg : cmd \o <<36>> \o sdsull2str(Len(arg)) \o CRLF \o arg \o CRLF,
             <<42>> \o sdsull2str(Len(argv)) \o CRLF, argv)

(* A format string, cut into its items: "space", "s" and "b" with the      *)
(* argument they stand for, "text" with what any other character or         *)
(* conversion stands for, "invalid" a conversion that is none.  What ends   *)
(* within a conversion, or has one of over 13 characters, is no input.      *)
FormatItem(st, item) ==
    IF item.kind = "space"
    THEN IF st.touched THEN [argv |-> Append(st.argv, st.cur), cur |-> << >>, touched |-> FALSE]
         ELSE st
    ELSE [st EXCEPT !.cur = @ \o IF item.kind = "s" THEN CString(item.data) ELSE item.data,
                    !.touched = TRUE]

\* the argument vector a format stands for, the last argument included
formatArgv(format) ==
    FoldLeft(FormatItem, [argv |-> << >>, cur |-> << >>, touched |-> FALSE],
             Append(format, [kind |-> "space"])).argv

\* nothing is built from a format with an invalid conversion
redisvFormatCommand(format) ==
    IF \E k \in DOMAIN format : format[k].kind = "invalid" THEN << >>
    ELSE redisFormatCommandArgv(formatArgv(format))
=============================================================================
