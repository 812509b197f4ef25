---------------------------- MODULE RedisClient ----------------------------
(***************************************************************************)
(* The blocking Redis client: the wrapper CRedisConn that the server's     *)
(* Redis thread calls, the hiredis context under it (hiredis.c), its       *)
(* connection (net.c) and its reader (RedisReader), against a socket that  *)
(* takes and gives any number of bytes and may fail, and a server that     *)
(* answers each command it has received in full.                           *)
(*                                                                         *)
(* A command of number n is CmdLen bytes n on the wire.  The bytes of a    *)
(* reply are real, and carry n.  One thread calls; pc is where it is.      *)
(***************************************************************************)
EXTENDS RedisReader

CONSTANTS Method,        \* the calls made: classes of CRedisConn methods
          CmdLen,        \* bytes of a command
          Addresses,     \* addresses getaddrinfo may return
          REDIS_CONNECT_RETRIES,
          MaxCmd,        \* bound: commands given
          MaxDial,       \* bound: connections tried
          MaxFault       \* bound: failed, timed out or interrupted socket calls

ASSUME ClientAssumption ==
    /\ CmdLen \in Nat \ {0} /\ Addresses \in Nat \ {0}
    /\ REDIS_CONNECT_RETRIES \in Nat \ {0}
    /\ Method \subseteq {"ping", "push", "get", "list", "count", "raw"}
    /\ MaxCmd \in Nat /\ MaxDial \in Nat /\ MaxFault \in Nat

VARIABLES ctx,          \* the context: see Context
          _connected,   \* CRedisConn: a context is there and worked at first
          pc,           \* what the calling thread does next
          call,         \* the call it is in: method and command number
          dial,         \* the connection being made: see Dial
          ret,          \* what the last call returned
          socks,        \* sockets the process has open
          net,          \* the connection as the network sees it
          given,        \* the method of every command given so far
          dials, faults,  \* counters for the bounds
          log           \* history of this connection: commands appended, bytes
                        \* sent and read, replies handed out, and whether a send was
                        \* interrupted

vars == <<ctx, _connected, pc, call, dial, ret, socks, net, given, dials, faults, log>>

Error == {"none", "io", "eof", "timeout", "protocol", "other"}

\* struct redisContext, live unless the pointer is NULL; fd says that it holds
\* a socket
Context(live) ==
    [live |-> live, err |-> "none", fd |-> FALSE, obuf |-> << >>, reader |-> NewReader]

NullCtx == Context(FALSE)
NewCtx == Context(TRUE)

\* how the connection is made: by CRedisConn::connect, or by redisReconnect on
\* a context that binds its address again; the address tried and the retries
Dial == [reuse : BOOLEAN, again : BOOLEAN, addr : 0..Addresses, reuses : 0..REDIS_CONNECT_RETRIES]

NoDial == [reuse |-> FALSE, again |-> FALSE, addr |-> 0, reuses |-> 0]

NoLog == [asked |-> << >>, sent |-> << >>, fed |-> << >>, got |-> << >>, interrupted |-> FALSE]

NoNet == [state |-> "none", toServer |-> << >>, toClient |-> << >>]

NoCall == [method |-> "none", number |-> 0]

NoRet == [method |-> "none", number |-> 0, reply |-> NoReply, value |-> "none",
          interrupted |-> FALSE]

Init ==
    /\ ctx = NullCtx /\ _connected = FALSE
    /\ pc = "idle" /\ call = NoCall /\ dial = NoDial /\ ret = NoRet
    /\ socks = 0 /\ net = NoNet /\ log = NoLog
    /\ given = << >> /\ dials = 0 /\ faults = 0

---------------------------------------------------------------------------
(* Making a connection.                                                     *)

\* redisFree, or redisNetClose: the socket is given back
Close == socks' = (IF ctx.fd THEN socks - 1 ELSE socks) /\ net' = NoNet

\* CRedisConn::connect: an open context is freed first, a new one set up
connect ==
    /\ pc = "idle" /\ dials < MaxDial
    /\ Close
    /\ ctx' = NewCtx
    /\ _connected' = FALSE
    /\ pc' = "resolve" /\ dial' = NoDial /\ dials' = dials + 1
    /\ log' = NoLog
    /\ UNCHANGED <<call, ret, given, faults>>

disConnect ==
    /\ pc = "idle" /\ _connected
    /\ Close
    /\ ctx' = NullCtx /\ _connected' = FALSE /\ log' = NoLog
    /\ UNCHANGED <<pc, call, dial, ret, given, dials, faults>>

\* the error is cleared, the socket closed, the output buffer and the reader
\* replaced, and the same address tried again
redisReconnect ==
    /\ pc = "idle" /\ _connected /\ dials < MaxDial
    /\ Close
    /\ ctx' = NewCtx
    /\ pc' = "resolve" /\ dial' \in [reuse : BOOLEAN, again : {TRUE}, addr : {0}, reuses : {0}]
    /\ dials' = dials + 1
    /\ log' = NoLog
    /\ UNCHANGED <<_connected, call, ret, given, faults>>

\* the attempt is over.  CRedisConn::connect frees a context with an error and
\* is connected otherwise; redisReconnect leaves it to its caller
Dialled(c, sock) ==
    LET drop == ~dial.again /\ c.err # "none" IN
    /\ pc' = "idle"
    /\ ctx' = IF drop THEN NullCtx ELSE c
    /\ _connected' = (dial.again \/ ~drop)
    /\ socks' = IF drop /\ c.fd THEN sock - 1 ELSE sock
    /\ dial' = [NoDial EXCEPT !.reuse = dial.reuse]

\* an error is set and the socket closed
DialFails(err) ==
    Dialled([ctx EXCEPT !.err = err, !.fd = FALSE], IF ctx.fd THEN socks - 1 ELSE socks)

dialled == <<call, ret, net, given, dials, faults, log>>

\* the timeout is checked, then getaddrinfo asked for IPv4 and for IPv6
Resolve ==
    /\ pc = "resolve"
    /\ \/ \E err \in {"io", "other"} : DialFails(err)
       \/ /\ pc' = "socket" /\ dial' = [dial EXCEPT !.addr = 1]
          /\ UNCHANGED <<ctx, _connected, socks>>
    /\ UNCHANGED dialled

\* the next address, or "Can't create socket" after the last
NextAddress(sock) ==
    IF dial.addr = Addresses
    THEN Dialled([ctx EXCEPT !.err = "other", !.fd = FALSE], sock)
    ELSE /\ pc' = "socket" /\ dial' = [dial EXCEPT !.addr = @ + 1]
         /\ ctx' = [ctx EXCEPT !.fd = FALSE] /\ socks' = sock
         /\ UNCHANGED _connected

\* socket() gives a socket that is made non-blocking, and bound when the
\* context has a source address; SO_REUSEADDR failing sets no error
Socket ==
    /\ pc = "socket"
    /\ \/ NextAddress(socks)
       \/ Dialled([ctx EXCEPT !.err = "io"], socks)
       \/ /\ pc' = "connect" /\ ctx' = [ctx EXCEPT !.fd = TRUE] /\ socks' = socks + 1
          /\ UNCHANGED <<_connected, dial>>
       \/ /\ dial.reuse
          /\ \E err \in {"other", "none"} :
                Dialled([ctx EXCEPT !.err = err, !.fd = TRUE], socks + 1)
    /\ UNCHANGED dialled

\* mutant: the retry opens a second socket
ConnectRetryLeak ==
    /\ pc = "connect"
    /\ \/ pc' \in {"finish", "wait"} /\ UNCHANGED <<ctx, _connected, socks, dial>>
       \/ NextAddress(socks - 1)
       \/ DialFails("io")
       \/ /\ dial.reuse
          /\ IF dial.reuses + 1 >= REDIS_CONNECT_RETRIES
             THEN Dialled(ctx, socks)
             ELSE /\ pc' = "socket" /\ dial' = [dial EXCEPT !.reuses = @ + 1]
                  /\ ctx' = [ctx EXCEPT !.fd = FALSE] /\ UNCHANGED <<_connected, socks>>
    /\ UNCHANGED dialled

\* connect(): done, in progress, host unreachable, address in use, or failed.
\* When the retries are used up the code leaves without an error
Connect ==
    /\ pc = "connect"
    /\ \/ pc' \in {"finish", "wait"} /\ UNCHANGED <<ctx, _connected, socks, dial>>
       \/ NextAddress(socks - 1)
       \/ DialFails("io")
       \/ /\ dial.reuse
          /\ IF dial.reuses + 1 >= REDIS_CONNECT_RETRIES
             THEN Dialled(ctx, socks)
             ELSE /\ pc' = "socket" /\ dial' = [dial EXCEPT !.reuses = @ + 1]
                  /\ ctx' = [ctx EXCEPT !.fd = FALSE] /\ socks' = socks - 1
                  /\ UNCHANGED _connected
    /\ UNCHANGED dialled

\* poll() fails or times out and the socket is closed; or it is ready and a
\* second connect() says whether it is connected; if not, the socket stays
WaitReady ==
    /\ pc = "wait"
    /\ \/ DialFails("io")
       \/ Dialled([ctx EXCEPT !.err = "io"], socks)
       \/ pc' = "finish" /\ UNCHANGED <<ctx, _connected, socks, dial>>
    /\ UNCHANGED dialled

\* blocking again, no delay; then the timeouts of the socket are set
Finish ==
    /\ pc = "finish"
    /\ \/ DialFails("io") /\ UNCHANGED net
       \/ ~dial.again /\ Dialled([ctx EXCEPT !.err = "io"], socks) /\ UNCHANGED net
       \/ Dialled(ctx, socks) /\ net' = [NoNet EXCEPT !.state = "up"]
    /\ UNCHANGED <<call, ret, given, dials, faults, log>>

---------------------------------------------------------------------------
(* Commands.                                                                *)

called == <<_connected, dial, socks, dials>>

\* what the methods of CRedisConn make of a reply that is there and no error:
\* whether they return true
ping(reply) == TRUE
auth(reply) == TRUE
lpush(reply) == TRUE
rpush(reply) == TRUE
hset(reply) == TRUE
lpop(reply) == reply.type # "nil"
rpop(reply) == reply.type # "nil"
lindex(reply) == reply.type # "nil"
get(reply) == reply.type # "nil"
hget(reply) == reply.type # "nil"
lrange(reply) == ~(reply.type = "array" /\ reply.element = << >>)
hgetall(reply) == ~(reply.type = "array" /\ reply.element = << >>)
linsert(reply) == reply.type = "integer" /\ reply.integer \notin {-1, 0}
llen(reply) == ~(reply.type = "integer" /\ reply.integer = 0)
hdel(reply) == ~(reply.type = "integer" /\ reply.integer = 0)

\* the answers of the methods of a class to a reply
Accepted(method, reply) ==
    CASE method = "ping"  -> {ping(reply), auth(reply)}
      [] method = "push"  -> {lpush(reply), rpush(reply), hset(reply)}
      [] method = "get"   -> {lpop(reply), rpop(reply), lindex(reply), get(reply), hget(reply)}
      [] method = "list"  -> {lrange(reply), hgetall(reply)}
      [] method = "count" -> {linsert(reply), llen(reply), hdel(reply)}
      [] method = "raw"   -> {TRUE}

\* _getError(reply) is false for NULL, so ping and auth return true and the others
\* read the fields of NULL
MethodReturns(method, reply) ==
    CASE reply = NoReply /\ method = "raw"   -> {"false"}
      [] reply = NoReply /\ method = "ping"  -> {"true"}
      [] reply = NoReply /\ method \notin {"raw", "ping"} -> {"crash"}
      [] reply # NoReply -> IF reply.type = "error" THEN {"false"}
                            ELSE {IF true THEN "true" ELSE "false" : true \in Accepted(method, reply)}

\* the call ends with this reply, or without one
Return(reply) ==
    \E value \in MethodReturns(call.method, reply) :
    /\ ret' = [method |-> call.method, number |-> call.number, reply |-> reply, value |-> value,
               interrupted |-> log.interrupted]
    /\ call' = NoCall
    /\ pc' = IF value = "crash" THEN "crashed" ELSE "idle"

\* a method of CRedisConn without a connection returns false at once
NotConnected ==
    /\ pc = "idle" /\ ~_connected
    /\ \E method \in Method \ {"raw"} :
          ret' = [NoRet EXCEPT !.method = method, !.value = "false"]
    /\ UNCHANGED <<ctx, pc, call, net, given, faults, log, called>>

Command(k) == [i \in 1..CmdLen |-> k]

Outstanding == {log.asked[i] : i \in Len(log.got) + 1..Len(log.asked)}

\* redisvCommand: the formatted command goes to the end of the output buffer;
\* redisAppendCommand ("raw") returns then, its reply is asked for later and
\* no method of CRedisConn is called before that
Append_(method) ==
    LET k == Len(given) + 1 IN
    /\ pc = "idle" /\ _connected /\ k <= MaxCmd
    /\ method # "raw" => \A o \in Outstanding : given[o] # "raw"
    /\ given' = Append(given, method)
    /\ ctx' = [ctx EXCEPT !.obuf = @ \o Command(k)]
    /\ log' = [log EXCEPT !.asked = Append(@, k)]
    /\ IF method = "raw" THEN UNCHANGED <<pc, call>>
       ELSE pc' = "first" /\ call' = [method |-> method, number |-> k]
    /\ UNCHANGED <<ret, net, faults, called>>

Give == \E method \in Method : Append_(method)

\* redisGetReply for a command appended before
redisGetReply ==
    /\ pc = "idle" /\ _connected /\ "raw" \in Method
    /\ Len(log.got) < Len(log.asked)
    /\ pc' = "first" /\ call' = [method |-> "raw", number |-> log.asked[Len(log.got) + 1]]
    /\ UNCHANGED <<ctx, ret, net, given, faults, log, called>>

\* redisGetReplyFromReader, with what to do when there is no reply yet
FromReader(reader, otherwise) ==
    \E read \in {redisReaderGetReply(reader)} :
    /\ ctx' = [ctx EXCEPT !.reader = [read EXCEPT !.reply = NoReply],
                          !.err = IF read.err THEN "protocol" ELSE @]
    /\ log' = [log EXCEPT !.fed = @ \o SubSeq(reader.buf, Len(ctx.reader.buf) + 1, Len(reader.buf)),
                          !.got = IF read.reply = NoReply THEN @ ELSE Append(@, read.reply)]
    /\ IF read.err \/ read.reply # NoReply THEN Return(read.reply)
       ELSE pc' = otherwise /\ UNCHANGED <<call, ret>>

First ==
    /\ pc = "first"
    /\ FromReader(ctx.reader, "write")
    /\ UNCHANGED <<net, given, faults, called>>

\* the bytes that were handed to send(); a server that has closed drops them
Sent(bytes) ==
    /\ net' = [net EXCEPT !.toServer = IF net.state = "up" THEN @ \o bytes ELSE @]
    /\ log' = [log EXCEPT !.sent = @ \o bytes]

\* mutant: what was not written is not kept
WriteLosesRest ==
    /\ pc = "write" /\ ctx.err = "none" /\ ctx.obuf # << >> /\ net.state # "none"
    /\ \E k \in 1..Len(ctx.obuf) : Sent(SubSeq(ctx.obuf, 1, k))
    /\ ctx' = [ctx EXCEPT !.obuf = << >>]
    /\ UNCHANGED <<pc, call, ret, given, faults, called>>

\* send() takes some of the buffer; the rest stays
Write ==
    /\ pc = "write" /\ ctx.err = "none" /\ ctx.obuf # << >> /\ net.state # "none"
    /\ \E k \in 1..Len(ctx.obuf) :
          /\ Sent(SubSeq(ctx.obuf, 1, k))
          /\ ctx' = [ctx EXCEPT !.obuf = SubSeq(@, k + 1, Len(@))]
    /\ UNCHANGED <<pc, call, ret, given, faults, called>>

\* a failure of a socket call, out of the budget of the run, or because the
\* socket was never connected
Fault ==
    \/ net.state = "none" /\ UNCHANGED faults
    \/ faults < MaxFault /\ faults' = faults + 1

\* send() fails; or it is interrupted, and then no error is set but the call
\* ends all the same, with its command in the buffer
WriteFails ==
    /\ pc = "write" /\ ctx.err = "none" /\ ctx.obuf # << >>
    /\ Fault
    /\ \/ ctx' = [ctx EXCEPT !.err = "io"] /\ UNCHANGED log
       \/ net.state # "none" /\ log' = [log EXCEPT !.interrupted = TRUE] /\ UNCHANGED ctx
    /\ Return(NoReply)
    /\ UNCHANGED <<net, given, called>>

\* a context that has seen an error sends nothing
ErrorLatched ==
    /\ pc = "write" /\ ctx.err # "none"
    /\ Return(NoReply)
    /\ UNCHANGED <<ctx, net, given, faults, log, called>>

\* mutant: the reply is waited for before all is sent
WrittenEarly ==
    /\ pc = "write" /\ ctx.err = "none"
    /\ pc' = "read"
    /\ UNCHANGED <<ctx, call, ret, net, given, faults, log, called>>

Written ==
    /\ pc = "write" /\ ctx.err = "none" /\ ctx.obuf = << >>
    /\ pc' = "read"
    /\ UNCHANGED <<ctx, call, ret, net, given, faults, log, called>>

\* recv() gives some of the bytes there are; the reader is asked again
Read ==
    /\ pc = "read" /\ net.toClient # << >>
    /\ \E k \in 1..Len(net.toClient) :
          /\ net' = [net EXCEPT !.toClient = SubSeq(@, k + 1, Len(@))]
          /\ FromReader(redisReaderFeed(ctx.reader, SubSeq(net.toClient, 1, k)), "read")
    /\ UNCHANGED <<given, faults, called>>

\* mutant: a read that timed out leaves the context usable
ReadFailsForgotten ==
    /\ pc = "read"
    /\ \/ /\ net.toClient = << >> /\ net.state = "closed"
          /\ ctx' = [ctx EXCEPT !.err = "eof"] /\ UNCHANGED faults
       \/ Fault /\ UNCHANGED ctx
    /\ Return(NoReply)
    /\ UNCHANGED <<net, given, log, called>>

\* the server has closed the connection, recv() fails or times out
ReadFails ==
    /\ pc = "read"
    /\ \/ /\ net.toClient = << >> /\ net.state = "closed"
          /\ ctx' = [ctx EXCEPT !.err = "eof"] /\ UNCHANGED faults
       \/ Fault /\ \E err \in {"io", "timeout"} : ctx' = [ctx EXCEPT !.err = err]
    /\ Return(NoReply)
    /\ UNCHANGED <<net, given, log, called>>

---------------------------------------------------------------------------
(* The server.                                                              *)

Digit(k) == 48 + k

\* the bytes a Redis server may answer a command of this class with; "raw"
\* are those of any command, with two that are no reply
Wire(method, k) ==
    LET d == Digit(k)
        error == <<45, d, 13, 10>>
        one == <<58, d, 13, 10>>
    IN CASE method = "ping"  -> {<<43, d, 13, 10>>, error}
         [] method = "push"  -> {one, error}
         [] method = "get"   -> {<<36, 50, 13, 10, 13, d, 13, 10>>, <<36, Minus, 49, 13, 10>>, error}
         [] method = "list"  -> {<<42, 49, 13, 10>> \o one, <<42, 48, 13, 10>>}
         [] method = "count" -> {one, <<58, 48, 13, 10>>}
         [] method = "raw"   -> {<<37, 49, 13, 10>> \o one \o <<44, d, 13, 10>>,
                                 <<42, 50, 13, 10, 126, 49, 13, 10, 95, 13, 10>> \o one,
                                 <<42, Minus, 49, 13, 10>>, <<35, 116, 13, 10>>,
                                 <<42, 49, 13, 10, 42, 49, 13, 10, 42, 49, 13, 10>> \o one,
                                 <<58, Minus, 13, 10>>, <<63, d>>}

ServerAnswers ==
    /\ net.state = "up" /\ Len(net.toServer) >= CmdLen
    /\ LET k == Head(net.toServer) IN
       \E reply \in Wire(given[k], k) :
          net' = [net EXCEPT !.toServer = SubSeq(@, CmdLen + 1, Len(@)),
                             !.toClient = @ \o reply]
    /\ UNCHANGED <<ctx, pc, call, ret, given, faults, log, called>>

ServerCloses ==
    /\ net.state = "up"
    /\ net' = [net EXCEPT !.state = "closed", !.toServer = << >>]
    /\ UNCHANGED <<ctx, pc, call, ret, given, faults, log, called>>

\* the steps of a call or of a connection in progress
Progress == \/ Resolve \/ Socket \/ Connect \/ WaitReady \/ Finish
            \/ First \/ Write \/ WriteFails \/ ErrorLatched \/ Written \/ Read \/ ReadFails

Next == \/ connect \/ disConnect \/ redisReconnect \/ NotConnected \/ Give \/ redisGetReply
        \/ Progress \/ ServerAnswers \/ ServerCloses

\* the call in progress can go on without a failure of the socket
CanProgress ==
    /\ pc \notin {"idle", "crashed"}
    /\ pc = "read" => net.toClient # << >> \/ net.state # "up"

\* The calling thread runs while it can go on: weak fairness of Progress, with
\* faults left out of what enables it.  The server answers what it has received,
\* unless it closes; nothing is assumed of faults
Spec == /\ Init /\ [][Next]_vars
        /\ ([]<>~CanProgress \/ []<><<Progress>>_vars)
        /\ WF_vars(ServerAnswers)

---------------------------------------------------------------------------
ContextOK(c) ==
    c \in [live : BOOLEAN, err : Error, fd : BOOLEAN, obuf : Seq(Nat), reader : {c.reader}]

\* Every variable has its type; what a reader, the bytes on the way and a reply are is
\* not said here.
ClientTypeOK ==
    /\ ContextOK(ctx)
    /\ _connected \in BOOLEAN /\ dial \in Dial
    /\ pc \in {"idle", "resolve", "socket", "connect", "wait", "finish", "first", "write",
               "read", "crashed"}
    /\ call \in [method : Method \cup {"none"}, number : Nat]
    /\ ret.value \in {"none", "true", "false", "crash"}
    /\ socks \in Int /\ given \in Seq(Method) /\ dials \in 0..MaxDial /\ faults \in 0..MaxFault
    /\ net \in [state : {"none", "up", "closed"}, toServer : {net.toServer},
                toClient : {net.toClient}]
    /\ log \in [asked : Seq(Nat), sent : Seq(Nat), fed : {log.fed}, got : {log.got},
                interrupted : BOOLEAN]
    /\ log.got \in Seq(ToSet(log.got))

\* the bytes of these commands, one after the other
CommandBytes(bytes, commands) ==
    /\ Len(bytes) = Len(commands) * CmdLen
    /\ \A n \in 1..Len(commands) : \A i \in 1..CmdLen :
         bytes[(n - 1) * CmdLen + i] = Command(commands[n])[i]

(* Every byte of every command is sent once and in order, whatever part of *)
(* the buffer each send() takes (hiredis.c:890-910).                       *)
SentOnce == ctx.live => CommandBytes(log.sent \o ctx.obuf, log.asked)

(* A connection attempt leaves nothing half done: the process has exactly   *)
(* the socket its context holds, none being lost on the failure paths and   *)
(* retries, and an attempt that made no connection leaves an error, except  *)
(* when the address is bound again with SO_REUSEADDR (net.c:335-502).       *)
SocketsAccounted ==
    /\ socks = IF ctx.live /\ ctx.fd THEN 1 ELSE 0
    /\ pc = "idle" /\ _connected /\ net.state = "none" => ctx.err # "none" \/ dial.reuse

(* A call returns: it does not wait for ever on a reply, as long as the     *)
(* server answers what it has received or closes the connection             *)
(* (hiredis.c:932-945).                                                     *)
CallReturns == pc \in {"first", "write", "read"} ~> pc \in {"idle", "crashed"}

(* A method whose command got no reply reports failure.  The comments say  *)
(* so: ping returns false when the link is down (CRedisConn.h:224), lpush  *)
(* and the others false on failure (CRedisConn.h:304), and redisCmd NULL   *)
(* when the connection is lost (CRedisConn.h:289).                         *)
NullReplyIsFailure == ret.method \in Method /\ ret.reply = NoReply => ret.value = "false"
=============================================================================
