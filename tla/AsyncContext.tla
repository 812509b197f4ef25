---------------------------- MODULE AsyncContext ----------------------------
(***************************************************************************)
(* The asynchronous context of hiredis (async.c): commands with callbacks, *)
(* publish/subscribe, disconnecting and freeing, driven by an event loop.  *)
(* One thread runs everything.  A callback is the user's code: it may give *)
(* commands, disconnect or free the context it was called from, so what    *)
(* the library is in the middle of is a stack of frames, and a callback    *)
(* one of them.                                                            *)
(*                                                                         *)
(* A command is a record with its number; the connection carries whole     *)
(* commands and replies (RedisClient has their bytes).  unforeseen is set  *)
(* once the client does something the comments of async.c do not expect;   *)
(* see the README.                                                         *)
(***************************************************************************)
EXTENDS CallbackDict, FiniteSets

CONSTANTS Kind,          \* regular commands given: of "get", "mute" (NULL callback), "monitor"
          Subscription,  \* what (p)subscribe is called with: sets of [pat, names]
          MaxCmd,        \* bound: commands accepted
          MaxDisturb     \* bound: messages and monitor lines pushed by the server, failures
                         \* of socket calls, timeouts, closed connections, fragments

ASSUME AsyncAssumption ==
    /\ Kind \subseteq {"get", "mute", "monitor"}
    /\ \A s \in Subscription : s.pat \in BOOLEAN /\ s.names # << >>
    /\ MaxCmd \in Nat /\ MaxDisturb \in Nat

VARIABLES ac,           \* redisAsyncContext: see NewContext
          stack,        \* frames of the library and of callbacks, innermost last
          net,          \* connection and server
          given,        \* the commands accepted, by number
          ran,          \* history: the regular commands whose callback was run
          wrong,        \* history: a callback got what was not meant for it
          unforeseen, disturbed

vars == <<ac, stack, net, given, ran, wrong, unforeseen, disturbed>>

\* redisCallback: fn is the number of its command, 0 for NULL
NoCb == [fn |-> 0, pending |-> 0]

\* replies, sub.invalid and the two dictionaries (channels, patterns); ev are
\* the events that are registered
NewContext ==
    [live |-> TRUE, flags |-> {}, err |-> FALSE, replies |-> << >>, invalid |-> << >>,
     subs |-> [pat \in BOOLEAN |-> dictCreate], obuf |-> << >>, inbuf |-> << >>, ev |-> {"write"}]

\* a reply on the wire, or the NULL a callback gets instead
NullReply == [type |-> "null", id |-> 0, event |-> "none", pat |-> FALSE, name |-> << >>, count |-> 0]

Frame(at) == [at |-> at, cb |-> NoCb, iter |-> dictGetIterator, phase |-> 1]

Closed == [state |-> "closed", toServer |-> << >>, toClient |-> << >>, subs |-> {}, monitor |-> FALSE]

\* redisAsyncConnectWithOptions, then redisAsyncSetConnectCallback
Init ==
    /\ ac \in {NewContext, [NewContext EXCEPT !.flags = {"noAutoFree"}]}
    /\ stack = << >>
    /\ net = [Closed EXCEPT !.state = "up"]
    /\ given = << >> /\ ran = << >> /\ wrong = FALSE
    /\ unforeseen = FALSE /\ disturbed = 0

Top == IF stack = << >> THEN Frame("loop") ELSE Last(stack)

Has(a, flag) == flag \in a.flags

\* the event loop runs, or the user's code does: outside or in a callback
LoopRuns == ac.live /\ Top.at = "loop"

\* (and not once it has done what was not foreseen)
UserRuns == ac.live /\ Top.at \in {"loop", "callback"} /\ ~unforeseen

Disturb == disturbed < MaxDisturb /\ disturbed' = disturbed + 1

---------------------------------------------------------------------------
(* What the handlers share.  a is the context, s the stack under the frame  *)
(* of the caller.                                                           *)

\* what the callback of command n may be given by context a: the reply of its
\* command, a message of a name it subscribed to, an error nobody asked for, or
\* NULL once the context goes down
Meant(a, n, reply) ==
    CASE reply.type = "null"            -> a.err \/ a.flags \cap {"disconnecting", "freeing"} # {}
      [] given[n].kind = "subscribe"    -> /\ reply.type = "array" /\ given[n].pat = reply.pat
                                           /\ Contains(given[n].names, reply.name)
      [] OTHER                          -> reply.id = n \/ (reply.type = "error" /\ reply.id = 0)

\* a reply some callback is to be given
Awaited(reply) == reply.id # 0 /\ given[reply.id].kind = "get"

\* __redisRunCallback; a NULL function is not called
RunCallback(a, s, cb, reply) ==
    IF cb.fn = 0 THEN ac' = a /\ stack' = s /\ wrong' = (wrong \/ Awaited(reply)) /\ UNCHANGED ran
    ELSE /\ ac' = [a EXCEPT !.flags = @ \cup {"inCallback"}]
         /\ stack' = Append(s, Frame("callback"))
         /\ ran' = IF given[cb.fn].kind = "subscribe" THEN ran ELSE Append(ran, cb.fn)
         /\ wrong' = (wrong \/ ~Meant(a, cb.fn, reply))

\* mutant: an error does not stop new commands
DisconnectOpen(a, s) ==
    IF ~a.err /\ a.replies # << >>
    THEN ac' = [a EXCEPT !.replies = Tail(@)] /\ stack' = <<Frame("aborted")>>
    ELSE /\ ac' = [a EXCEPT !.ev = {}]
         /\ stack' = IF Has(a, "noAutoFree") THEN s ELSE Append(s, Frame("free"))

\* __redisAsyncDisconnect, the last call of its callers.  Without an error it
\* asserts that no callback is pending
AsyncDisconnect(a, s) ==
    IF ~a.err /\ a.replies # << >>
    THEN ac' = [a EXCEPT !.replies = Tail(@)] /\ stack' = <<Frame("aborted")>>
    ELSE /\ ac' = [a EXCEPT !.flags = IF a.err THEN @ \cup {"disconnecting"} ELSE @, !.ev = {}]
         /\ stack' = IF Has(a, "noAutoFree") THEN s ELSE Append(s, Frame("free"))

---------------------------------------------------------------------------
(* The calls of the user.                                                   *)

UnsubscribesOut ==
    \/ \E q \in {ac.obuf, net.toServer} : \E k \in DOMAIN q : q[k].kind = "unsubscribe"
    \/ \E q \in {ac.inbuf, net.toClient} : \E k \in DOMAIN q : q[k].event = "unsubscribe"

\* __redisAsyncCommand up to and after what depends on the command
Accept(kind, pat, names, a) ==
    /\ UserRuns /\ Len(given) < MaxCmd
    /\ a.flags \cap {"disconnecting", "freeing"} = {}
    /\ given' = Append(given, [kind |-> kind, pat |-> pat, names |-> names])
    /\ ac' = [a EXCEPT !.obuf = Append(@, [kind |-> kind, pat |-> pat, names |-> names,
                                           id |-> Len(given) + 1]),
                       !.ev = @ \cup {"write"}]
    /\ UNCHANGED <<stack, net, ran, wrong, disturbed>>

\* mutant: a command given while subscribed waits with the others
RegularAlways(kind) ==
    LET cb == [fn |-> IF kind = "mute" THEN 0 ELSE Len(given) + 1, pending |-> 1]
        a == IF kind = "monitor" THEN [ac EXCEPT !.flags = @ \cup {"monitoring"}] ELSE ac
    IN /\ Accept(kind, FALSE, << >>, [a EXCEPT !.replies = Append(@, cb)])
       /\ unforeseen' = (kind = "monitor" \/ (Has(ac, "subscribed") /\ UnsubscribesOut))

\* a regular command or MONITOR; while subscribed its callback waits with the
\* invalid ones
Regular(kind) ==
    LET cb == [fn |-> IF kind = "mute" THEN 0 ELSE Len(given) + 1, pending |-> 1]
        a == IF kind = "monitor" THEN [ac EXCEPT !.flags = @ \cup {"monitoring"}] ELSE ac
    IN /\ Accept(kind, FALSE, << >>,
                 IF Has(ac, "subscribed") /\ kind # "monitor"
                 THEN [a EXCEPT !.invalid = Append(@, cb)]
                 ELSE [a EXCEPT !.replies = Append(@, cb)])
       /\ unforeseen' = (kind = "monitor" \/ (Has(ac, "subscribed") /\ UnsubscribesOut))

\* mutant: the confirmations still to come are forgotten
SubscribedAnew(pat, names) ==
    FoldLeft(LAMBDA st, name :
                [cb |-> [st.cb EXCEPT !.pending = 1], d |-> dictReplace(st.d, name, st.cb)],
             [cb |-> [fn |-> Len(given) + 1, pending |-> 1], d |-> ac.subs[pat]], names).d

\* every name gets the callback; the count of a name that is there goes on,
\* and is carried to the names after it
Subscribed(pat, names) ==
    FoldLeft(LAMBDA st, name :
                LET cb == IF dictHas(st.d, name)
                          THEN [st.cb EXCEPT !.pending = dictFind(st.d, name).pending + 1]
                          ELSE st.cb
                IN [cb |-> cb, d |-> dictReplace(st.d, name, cb)],
             [cb |-> [fn |-> Len(given) + 1, pending |-> 1], d |-> ac.subs[pat]], names).d

Subscribe(pat, names) ==
    /\ Accept("subscribe", pat, names,
              [ac EXCEPT !.flags = @ \cup {"subscribed"}, !.subs[pat] = Subscribed(pat, names)])
    /\ unforeseen' = (\E k \in DOMAIN names : dictHas(ac.subs[pat], names[k]) /\ Len(names) > 1)

Unsubscribe(pat, name) ==
    /\ Has(ac, "subscribed")
    /\ Accept("unsubscribe", pat, <<name>>, ac)
    /\ unforeseen' = (UnsubscribesOut \/ ~dictHas(ac.subs[pat], name))

\* the name of a single subscription is also what may be unsubscribed
redisAsyncCommand ==
    \/ \E kind \in Kind : Regular(kind)
    \/ \E s \in Subscription : Subscribe(s.pat, s.names)
    \/ \E s \in Subscription : Len(s.names) = 1 /\ Unsubscribe(s.pat, s.names[1])

redisAsyncDisconnect ==
    LET a == [ac EXCEPT !.flags = (@ \cup {"disconnecting"}) \ {"noAutoFree"}] IN
    /\ UserRuns /\ ~Has(ac, "freeing")
    /\ IF ~Has(ac, "inCallback") /\ ac.replies = << >> THEN AsyncDisconnect(a, stack)
       ELSE ac' = a /\ UNCHANGED stack
    /\ UNCHANGED <<net, given, ran, wrong, unforeseen, disturbed>>

\* mutant: the context is freed under the callback
AsyncFreeAtOnce ==
    /\ UserRuns /\ ~Has(ac, "freeing")
    /\ ac' = [ac EXCEPT !.flags = @ \cup {"freeing"}]
    /\ stack' = Append(stack, Frame("free"))
    /\ UNCHANGED <<net, given, ran, wrong, unforeseen, disturbed>>

\* in a callback the flag is left for the library to find
redisAsyncFree ==
    /\ UserRuns /\ ~Has(ac, "freeing")
    /\ ac' = [ac EXCEPT !.flags = @ \cup {"freeing"}]
    /\ stack' = IF Has(ac, "inCallback") THEN stack ELSE Append(stack, Frame("free"))
    /\ UNCHANGED <<net, given, ran, wrong, unforeseen, disturbed>>

\* the callback returns; redisProcessCallbacks then looks for the flag
CallbackReturns ==
    /\ ac.live /\ Top.at = "callback"
    /\ ac' = [ac EXCEPT !.flags = @ \ {"inCallback"}]
    /\ LET below == Front(stack) IN
       stack' = IF below # << >> /\ Last(below).at = "process" /\ Has(ac, "freeing")
                THEN Append(Front(below), Frame("free")) ELSE below
    /\ UNCHANGED <<net, given, ran, wrong, unforeseen, disturbed>>

---------------------------------------------------------------------------
(* The library.                                                             *)

library == <<given, unforeseen, disturbed>>

\* __redisAsyncFree: every callback that is left is run with NULL: in phase 1
\* those of replies, in 2 of the invalid commands, in 3 of the channels, in 4
\* of the patterns; then the context is gone.  onDisconnect, called last and
\* without REDIS_IN_CALLBACK, can give no command any more and is assumed not
\* to free the context a second time
AsyncFree ==
    LET pat == Top.phase = 4
        list == IF Top.phase = 1 THEN ac.replies ELSE ac.invalid
        shifted == IF Top.phase = 1 THEN [ac EXCEPT !.replies = Tail(@)]
                   ELSE [ac EXCEPT !.invalid = Tail(@)]
        it == dictNext(ac.subs[pat], Top.iter)
        frame(f) == Append(Front(stack), f)
    IN /\ ac.live /\ Top.at = "free"
       /\ \/ /\ Top.phase \in {1, 2} /\ list # << >>
             /\ RunCallback(shifted, stack, Head(list), NullReply) /\ UNCHANGED net
          \/ /\ Top.phase \in {3, 4} /\ it.index # 0
             /\ RunCallback(ac, frame([Top EXCEPT !.iter = it]), dictFind(ac.subs[pat], it.key), NullReply)
             /\ UNCHANGED net
          \/ /\ Top.phase \in {1, 2} => list = << >>
             /\ Top.phase \in {3, 4} => it.index = 0
             /\ IF Top.phase < 4
                THEN stack' = frame([Frame("free") EXCEPT !.phase = Top.phase + 1]) /\ UNCHANGED <<ac, net>>
                ELSE /\ stack' = Front(stack) /\ ac' = [NewContext EXCEPT !.live = FALSE, !.ev = {}]
                     /\ net' = Closed
             /\ UNCHANGED <<ran, wrong>>
       /\ UNCHANGED library

\* mutant: an unsubscribe is final, whatever is still to be confirmed
GetSubscribeCallbackAtOnce(a, reply, cb) ==
    LET d == a.subs[reply.pat]
        found == dictFind(d, reply.name)
        counted == IF reply.event = "subscribe" THEN [found EXCEPT !.pending = @ - 1] ELSE found
        subs == IF reply.event = "unsubscribe"
                THEN [a.subs EXCEPT ![reply.pat] = dictDelete(d, reply.name)]
                ELSE [a.subs EXCEPT ![reply.pat] = SetValue(d, reply.name, counted)]
        over == reply.event = "unsubscribe" /\ reply.count = 0 /\ subs[TRUE].used + subs[FALSE].used = 0
    IN CASE reply.type # "array" ->
              [a |-> [a EXCEPT !.invalid = IF @ = << >> THEN @ ELSE Tail(@)],
               cb |-> IF a.invalid = << >> THEN cb ELSE Head(a.invalid)]
         [] reply.type = "array" /\ ~dictHas(d, reply.name) -> [a |-> a, cb |-> cb]
         [] OTHER -> [a |-> [a EXCEPT !.subs = subs,
                                      !.flags = IF over THEN @ \ {"subscribed"} ELSE @],
                      cb |-> counted]

\* __redisGetSubscribeCallback: a message goes to the callback of its name, and
\* what is no message to the first invalid command.  A callback that is not
\* found leaves cb as it is.  The last name gone ends the subscribed state
GetSubscribeCallback(a, reply, cb) ==
    LET d == a.subs[reply.pat]
        found == dictFind(d, reply.name)
        counted == IF reply.event = "subscribe" THEN [found EXCEPT !.pending = @ - 1] ELSE found
        subs == IF reply.event = "unsubscribe" /\ counted.pending = 0
                THEN [a.subs EXCEPT ![reply.pat] = dictDelete(d, reply.name)]
                ELSE [a.subs EXCEPT ![reply.pat] = SetValue(d, reply.name, counted)]
        over == reply.event = "unsubscribe" /\ reply.count = 0 /\ subs[TRUE].used + subs[FALSE].used = 0
    IN CASE reply.type # "array" ->
              [a |-> [a EXCEPT !.invalid = IF @ = << >> THEN @ ELSE Tail(@)],
               cb |-> IF a.invalid = << >> THEN cb ELSE Head(a.invalid)]
         [] reply.type = "array" /\ ~dictHas(d, reply.name) -> [a |-> a, cb |-> cb]
         [] OTHER -> [a |-> [a EXCEPT !.subs = subs,
                                      !.flags = IF over THEN @ \ {"subscribed"} ELSE @],
                      cb |-> counted]

\* mutant: the disconnection that was asked for is forgotten
NoReplyIdle ==
    /\ ac.inbuf = << >>
    /\ ac' = IF Has(ac, "monitoring") THEN [ac EXCEPT !.replies = Append(@, Top.cb)] ELSE ac
    /\ stack' = Front(stack)
    /\ UNCHANGED <<ran, wrong>>

\* redisProcessCallbacks, one turn of its loop.  cb lives across the turns
NoReplyLeft ==
    /\ ac.inbuf = << >>
    /\ IF Has(ac, "disconnecting") /\ ac.obuf = << >> /\ ac.replies = << >>
       THEN AsyncDisconnect(ac, Front(stack))
       ELSE /\ ac' = IF Has(ac, "monitoring") THEN [ac EXCEPT !.replies = Append(@, Top.cb)] ELSE ac
            /\ stack' = Front(stack)
    /\ UNCHANGED <<ran, wrong>>

\* the command was given while subscribed, and its callback was not run
InvalidWaits(n) == \E k \in DOMAIN ac.invalid : ac.invalid[k].fn = n

\* an error that no callback of replies waits for ends the connection, also
\* when it is the reply to a command given while subscribed
ReplyRead ==
    LET reply == Head(ac.inbuf)
        a == [ac EXCEPT !.inbuf = Tail(@)]
        failed == [a EXCEPT !.err = TRUE]
        dispatch(b, cb) ==
            RunCallback(b, [stack EXCEPT ![Len(stack)].cb = cb], cb, reply)
    IN /\ ac.inbuf # << >>
       /\ CASE reply.type = "bad" -> AsyncDisconnect(failed, Front(stack)) /\ UNCHANGED <<ran, wrong>>
            [] reply.type # "bad" /\ ac.replies # << >> ->
                 dispatch([a EXCEPT !.replies = Tail(@)], Head(ac.replies))
            [] ac.replies = << >> /\ reply.type = "error" ->
                 /\ AsyncDisconnect(failed, Front(stack)) /\ UNCHANGED ran
                 /\ wrong' = (wrong \/ (Awaited(reply) /\ ~InvalidWaits(reply.id)))
            [] ac.replies = << >> /\ reply.type \notin {"bad", "error"} /\ Has(ac, "subscribed") ->
                 LET got == GetSubscribeCallback(a, reply, Top.cb) IN dispatch(got.a, got.cb)
            [] ac.replies = << >> /\ reply.type \notin {"bad", "error"} /\ ~Has(ac, "subscribed")
                 /\ Has(ac, "monitoring") -> dispatch(a, Top.cb)
            [] OTHER -> ac' = a /\ stack' = <<Frame("aborted")>> /\ UNCHANGED <<ran, wrong>>

redisProcessCallbacks ==
    /\ ac.live /\ Top.at = "process"
    /\ NoReplyLeft \/ ReplyRead
    /\ UNCHANGED <<net, library>>

---------------------------------------------------------------------------
(* The events.                                                              *)

loop == <<given, ran, wrong, unforeseen>>

\* __redisAsyncHandleConnect, where both handlers begin while the context is not
\* connected; reads are only scheduled once it is.  It is now, and the handler
\* goes on, or the connection has failed.  What onConnect, called here, in
\* ConnectFails and at a timeout before anything else is done, gives as commands
\* is as if given just before the event; it runs without REDIS_IN_CALLBACK, and
\* is assumed neither to disconnect nor to free the context
Connected == [ac EXCEPT !.flags = @ \cup {"connected"}]

ConnectFails ==
    /\ ~Has(ac, "connected") /\ Disturb
    /\ AsyncDisconnect([ac EXCEPT !.err = TRUE], << >>)
    /\ UNCHANGED <<net, loop>>

\* redisBufferWrite takes some of the commands; a read is scheduled, and a
\* write when there is more.  send() may fail, or would block: then nothing is
\* set but the context is disconnected all the same
Write(a) ==
    \/ \E k \in 0..Len(a.obuf) :
          /\ k = 0 => a.obuf = << >>
          /\ ac' = [a EXCEPT !.obuf = SubSeq(@, k + 1, Len(@)),
                             !.ev = (IF k = Len(a.obuf) THEN @ \ {"write"} ELSE @) \cup {"read"}]
          /\ net' = [net EXCEPT !.toServer = IF net.state = "up" THEN @ \o SubSeq(a.obuf, 1, k) ELSE @]
          /\ UNCHANGED <<stack, loop, disturbed>>
    \/ /\ a.obuf # << >> /\ Disturb
       /\ \E err \in BOOLEAN :
             /\ AsyncDisconnect([a EXCEPT !.err = err], << >>)
             /\ unforeseen' = (unforeseen \/ ~err)
       /\ UNCHANGED <<net, given, ran, wrong>>

redisAsyncHandleWrite == LoopRuns /\ "write" \in ac.ev /\ (Write(Connected) \/ ConnectFails)

\* redisBufferRead gets some of the replies, perhaps only a part of one, or
\* fails, or finds the connection closed
Read(a) ==
    \/ \E k \in 0..Len(net.toClient) :
          /\ IF k = 0 THEN net.toClient # << >> /\ Disturb ELSE UNCHANGED disturbed
          /\ ac' = [a EXCEPT !.inbuf = @ \o SubSeq(net.toClient, 1, k), !.ev = @ \cup {"read"}]
          /\ net' = [net EXCEPT !.toClient = SubSeq(@, k + 1, Len(@))]
          /\ stack' = <<Frame("process")>>
          /\ UNCHANGED loop
    \/ /\ IF net.toClient = << >> /\ net.state = "closed" THEN UNCHANGED disturbed ELSE Disturb
       /\ AsyncDisconnect([a EXCEPT !.err = TRUE], << >>)
       /\ UNCHANGED <<net, loop>>

redisAsyncHandleRead == LoopRuns /\ "read" \in ac.ev /\ Read(ac)

\* the timer runs out while a connection or a reply is waited for
redisAsyncHandleTimeout ==
    /\ LoopRuns /\ ac.ev # {} /\ Disturb
    /\ ~Has(ac, "connected") \/ ac.replies # << >>
    /\ ac' = [ac EXCEPT !.err = TRUE]
    /\ stack' = <<Frame("timeout")>>
    /\ UNCHANGED <<net, loop>>

\* its loop: what waits is run with NULL, what those callbacks give included
TimedOut ==
    /\ ac.live /\ Top.at = "timeout"
    /\ IF ac.replies # << >>
       THEN RunCallback([ac EXCEPT !.replies = Tail(@)], stack, Head(ac.replies), NullReply)
       ELSE AsyncDisconnect(ac, Front(stack)) /\ UNCHANGED <<ran, wrong>>
    /\ UNCHANGED <<net, library>>

---------------------------------------------------------------------------
(* The server: it answers in order, and pushes messages to subscriptions.   *)
(* The library sees it at the next event only, so it acts between handlers. *)

server == <<ac, stack, given, ran, wrong, unforeseen>>

Pushed(event, pat, name, subs) ==
    [NullReply EXCEPT !.type = "array", !.event = event, !.pat = pat, !.name = name,
                      !.count = Cardinality(subs)]

\* one confirmation per name of a (p)subscribe, with the names before it
Confirm(pat, names, subs) ==
    [k \in 1..Len(names) |->
        Pushed("subscribe", pat, names[k], subs \cup {<<pat, names[j]>> : j \in 1..k})]

ServerAnswers ==
    LET c == Head(net.toServer)
        named == {<<c.pat, c.names[k]>> : k \in DOMAIN c.names}
        subs == CASE c.kind = "subscribe"   -> net.subs \cup named
                  [] c.kind = "unsubscribe" -> net.subs \ named
                  [] OTHER                  -> net.subs
        answer == CASE c.kind = "subscribe"   -> Confirm(c.pat, c.names, net.subs)
                    [] c.kind = "unsubscribe" -> <<Pushed("unsubscribe", c.pat, c.names[1], subs)>>
                    [] OTHER -> <<[NullReply EXCEPT !.id = c.id,
                                      !.type = IF net.subs # {} THEN "error" ELSE "string"]>>
    IN /\ LoopRuns /\ net.state = "up" /\ net.toServer # << >>
       /\ net' = [net EXCEPT !.toServer = Tail(@), !.toClient = @ \o answer, !.subs = subs,
                             !.monitor = @ \/ c.kind = "monitor"]
       /\ UNCHANGED <<server, disturbed>>

\* a published message, or a line of the monitor
ServerPushes ==
    /\ LoopRuns /\ net.state = "up" /\ Disturb
    /\ \/ \E sub \in net.subs :
             net' = [net EXCEPT !.toClient = Append(@, Pushed("message", sub[1], sub[2], net.subs))]
       \/ net.monitor /\ net' = [net EXCEPT !.toClient = Append(@, [NullReply EXCEPT !.type = "string"])]
    /\ UNCHANGED server

\* the server closes: at once, after an error nobody asked for (too many
\* clients), or after bytes that are no reply
ServerCloses ==
    /\ LoopRuns /\ net.state = "up" /\ Disturb
    /\ \E last \in {<< >>, <<"error">>, <<"bad">>} :
          net' = [Closed EXCEPT !.toClient = net.toClient \o [k \in DOMAIN last |-> [NullReply EXCEPT !.type = last[k]]]]
    /\ UNCHANGED server

LibraryStep == CallbackReturns \/ AsyncFree \/ redisProcessCallbacks \/ TimedOut

Next == \/ redisAsyncCommand \/ redisAsyncDisconnect \/ redisAsyncFree \/ LibraryStep
        \/ redisAsyncHandleWrite \/ redisAsyncHandleRead \/ redisAsyncHandleTimeout
        \/ ServerAnswers \/ ServerPushes \/ ServerCloses

\* callbacks return, the event loop serves the socket, the server answers: weak
\* fairness of the four, with what enables each without a disturbance spelled out
CanStep == ac.live /\ Top.at \notin {"loop", "aborted"}
Writable == LoopRuns /\ "write" \in ac.ev
Readable == LoopRuns /\ "read" \in ac.ev /\ (net.toClient # << >> \/ net.state = "closed")
Asked == LoopRuns /\ net.state = "up" /\ net.toServer # << >>

Spec == /\ Init /\ [][Next]_vars
        /\ ([]<>~CanStep \/ []<><<LibraryStep>>_vars)
        /\ ([]<>~Writable \/ []<><<redisAsyncHandleWrite>>_vars)
        /\ ([]<>~Readable \/ []<><<redisAsyncHandleRead>>_vars)
        /\ ([]<>~Asked \/ []<><<ServerAnswers>>_vars)

---------------------------------------------------------------------------
Regulars == {k \in DOMAIN given : given[k].kind = "get"}

\* the client has kept to what async.c expects
Foreseen == ~unforeseen

Aborted == Top.at = "aborted"

\* Every variable has its type.
AsyncTypeOK ==
    /\ ac.live \in BOOLEAN /\ ac.err \in BOOLEAN /\ ac.ev \subseteq {"read", "write"}
    /\ ac.flags \subseteq {"connected", "disconnecting", "freeing", "inCallback", "subscribed",
                           "monitoring", "noAutoFree"}
    /\ \A k \in DOMAIN stack : stack[k].at \in {"process", "free", "timeout", "callback", "aborted"}
    /\ Len(given) <= MaxCmd /\ disturbed \in 0..MaxDisturb

(* The context is not freed under anyone: when it is gone, neither the      *)
(* library nor a callback it called is still running on it, even when the   *)
(* callback itself asked for it; REDIS_IN_CALLBACK, which decides that, is  *)
(* set while a callback runs and only then (async.c:251-258, 309-314,       *)
(* 481-485).                                                                *)
FreedUnderNobody ==
    /\ ac.live \/ stack = << >>
    /\ ac.live /\ Top.at = "callback" => Has(ac, "inCallback")
    /\ Has(ac, "inCallback") => \E k \in DOMAIN stack : stack[k].at = "callback"

(* A callback runs for its own command: the reply of a regular command, in  *)
(* the order of the commands and once; a message of a name it was           *)
(* subscribed to; an error nobody asked for; NULL only from a context that  *)
(* goes down.  And a reply that was read is passed on, whatever replies,    *)
(* messages and errors it arrives mixed with (async.c:446-496): all but one *)
(* kind, the error that answers a command given while subscribed, which     *)
(* ends the connection in the code and "needs to be received and passed to  *)
(* the callback" in its comment (async.c:464-469, 699-700; see the README). *)
RightCallback ==
    Foreseen => /\ ~wrong
                /\ \A j, k \in DOMAIN ran : j < k => ran[j] < ran[k]

(* No callback is lost: when the context is gone, by the client, an error,  *)
(* a timeout or the server, every regular command it had accepted has had   *)
(* its callback run (async.c:261-303, 604-606).                             *)
EveryCallbackRun ==
    ~ac.live /\ Foreseen => Regulars \subseteq ToSet(ran)

\* confirmations of a subscription that are still to be read
Unconfirmed(pat, name) ==
    LET asked(q) == FoldLeft(LAMBDA n, c : IF c.kind = "subscribe" /\ c.pat = pat /\ Contains(c.names, name)
                                           THEN n + 1 ELSE n, 0, q)
        confirmed(q) == FoldLeft(LAMBDA n, r : IF r.event = "subscribe" /\ r.pat = pat /\ r.name = name
                                               THEN n + 1 ELSE n, 0, q)
    IN asked(ac.obuf) + asked(net.toServer) + confirmed(net.toClient) + confirmed(ac.inbuf)

AllNames == UNION {ToSet(s.names) : s \in Subscription}

(* pending_subs counts the confirmations a name still gets, over commands   *)
(* not yet sent, on the wire and read but not processed, so that an         *)
(* unsubscribe confirmed between two subscribes keeps the entry             *)
(* (async.c:360-418, 663-684).                                              *)
PendingExact ==
    ac.live /\ Foreseen /\ net.state = "up" =>
    \A pat \in BOOLEAN, name \in AllNames :
        IF dictHas(ac.subs[pat], name)
        THEN dictFind(ac.subs[pat], name).pending = Unconfirmed(pat, name)
        ELSE Unconfirmed(pat, name) = 0

(* "the context *must* be subscribed or monitoring" (async.c:471): while    *)
(* the flag is off, the server has no subscription of this client, none is  *)
(* on its way and no message is left, so the assertion holds; and no        *)
(* callback is pending at a clean disconnect (async.c:323-326).             *)
AssertionsHold ==
    Foreseen =>
    /\ ~Aborted
    /\ ac.live /\ ~Has(ac, "subscribed") =>
          /\ net.subs = {}
          /\ \A pat \in BOOLEAN, name \in AllNames : Unconfirmed(pat, name) = 0
          /\ \A q \in {ac.inbuf, net.toClient} : \A k \in DOMAIN q : q[k].type # "array"

(* The hash tables are maps: every entry is in the slot of its hash, no     *)
(* name is there twice, the counts are right, and iterating meets every     *)
(* entry once, over growing, replacing and deleting (dict.c:88-256).        *)
DictSound ==
    \A pat \in BOOLEAN :
        LET d == ac.subs[pat]
            visited[it \in [index : Nat, key : Seq(Nat), next : Seq(Nat)]] ==
                LET next == dictNext(d, it) IN
                IF next.index = 0 THEN << >> ELSE <<next.key>> \o visited[next]
            keys == visited[dictGetIterator]
        IN /\ \A i \in 1..d.size : \A k \in DOMAIN d.table[i] : Slot(d, d.table[i][k].key) = i
           /\ d.used = Len(keys) /\ d.used <= d.size
           /\ IsInjective(keys)
           /\ Foreseen /\ ac.live => \A name \in AllNames : <<pat, name>> \in net.subs => dictHas(d, name)

(* The tables of subscriptions are right in both respects: as hash tables,  *)
(* and in what their entries say of the confirmations still to come         *)
(* (async.c:360-418, 663-684, dict.c:88-256).                               *)
SubscriptionsExact == DictSound /\ PendingExact

(* A disconnection that was asked for comes to its end: the replies that    *)
(* wait are read, and the context is freed (async.c:350-358, 426-434).      *)
DisconnectEnds ==
    (Has(ac, "disconnecting") /\ ~ac.err /\ Foreseen) ~> (~ac.live \/ ~Foreseen)
=============================================================================
