------------------------- MODULE RedisClientProofs -------------------------
(***************************************************************************)
(* The blocking Redis client, for any length of commands, any number of    *)
(* addresses, retries, commands, connections and failing calls: which      *)
(* sockets the process has, and what it has sent.  How a reply is parsed   *)
(* does not matter for either; it is not looked into.                      *)
(***************************************************************************)
EXTENDS RedisClient, SequenceTheorems, TLAPS

\* the thread is making a connection, or in a call
Dialling == {"resolve", "socket", "connect", "wait", "finish"}
Calling  == {"first", "write", "read"}

\* a context that is being connected is there, without a socket up to socket() and
\* with one behind it; a context that is not there holds none
SocketInv ==
    /\ pc \in Dialling => ctx.live /\ net.state = "none"
    /\ pc \in {"resolve", "socket"} => ~ctx.fd
    /\ pc \in {"connect", "wait", "finish"} => ctx.fd
    /\ ctx.fd => ctx.live
    /\ _connected => ctx.live
    /\ pc \in Calling => _connected /\ call.method \in Method
    /\ socks = IF ctx.fd THEN 1 ELSE 0
    /\ pc \notin Dialling /\ _connected /\ net.state = "none" => ctx.err # "none" \/ dial.reuse

ClientInv == ClientTypeOK /\ SocketInv /\ SentOnce

-----------------------------------------------------------------------------
\* Types

\* What the types of a context, of the network and of the history say of their fields.
LEMMA Fields ==
    ASSUME ClientTypeOK
    PROVE  /\ ctx.live \in BOOLEAN /\ ctx.fd \in BOOLEAN /\ ctx.err \in Error
           /\ ctx.obuf \in Seq(Nat) /\ log.sent \in Seq(Nat) /\ log.asked \in Seq(Nat)
           /\ log.interrupted \in BOOLEAN
           /\ net.state \in {"none", "up", "closed"}
           /\ dial.reuse \in BOOLEAN /\ dial.again \in BOOLEAN
           /\ dial.addr \in 0..Addresses /\ dial.reuses \in 0..REDIS_CONNECT_RETRIES
  BY DEF ClientTypeOK, ContextOK, Dial

\* No context, and a new one.
LEMMA FreshContexts ==
    /\ ContextOK(NullCtx) /\ ~NullCtx.live /\ ~NullCtx.fd /\ NullCtx.err = "none"
    /\ ContextOK(NewCtx) /\ NewCtx.live /\ ~NewCtx.fd /\ NewCtx.err = "none"
    /\ NewCtx.obuf = << >>
  BY DEF NullCtx, NewCtx, Context, ContextOK, Error

\* The replies handed out are a sequence, at first and with one more.
LEMMA NoReplies == NoLog.got \in Seq(ToSet(NoLog.got))
  BY DEF NoLog

LEMMA ReplyAppended ==
    ASSUME NEW s, s \in Seq(ToSet(s)), NEW e
    PROVE  Append(s, e) \in Seq(ToSet(Append(s, e)))
<1>1. PICK S : S = ToSet(s) \cup {e}
  OBVIOUS
<1>2. s \in Seq(S) /\ e \in S
  BY <1>1, SeqMonotonic
<1>3. PICK t \in Seq(S) : t = Append(s, e)
  <2>1. Append(s, e) \in Seq(S)
    BY <1>2, AppendProperties
  <2>2. QED
    BY <2>1, Zenon
<1>4. PICK n \in Nat : n = Len(t) /\ DOMAIN t = 1..n /\ t = [i \in 1..n |-> t[i]]
  BY <1>3, LenProperties
<1>5. \A i \in 1..n : t[i] \in ToSet(t)
  BY <1>4 DEF ToSet
<1>6. t \in Seq(ToSet(t))
  BY <1>4, <1>5
<1>7. QED
  BY <1>3, <1>6

\* What was sent and what waits to be sent stay what they are.
LEMMA SentStays ==
    ASSUME SentOnce, ctx'.live => ctx.live /\ ctx'.obuf = ctx.obuf,
           log'.sent = log.sent, log'.asked = log.asked
    PROVE  SentOnce'
<1>1. PICK b, a : b = log.sent \o ctx.obuf /\ a = log.asked
  OBVIOUS
<1>2. ctx.live => CommandBytes(b, a)
  BY <1>1 DEF SentOnce
<1>3. ctx'.live => log'.sent \o ctx'.obuf = b /\ log'.asked = a
  BY <1>1
<1>4. QED
  BY <1>2, <1>3 DEF SentOnce

\* The start: no connection.
LEMMA InitClient ==
    ASSUME Init
    PROVE  ClientInv
<1>1. ClientTypeOK
  <2>1. NoDial \in Dial
    BY ClientAssumption DEF NoDial, Dial
  <2>2. /\ NoCall \in [method : Method \cup {"none"}, number : Nat]
        /\ NoRet.value = "none"
        /\ NoNet \in [state : {"none", "up", "closed"}, toServer : {NoNet.toServer},
                      toClient : {NoNet.toClient}]
        /\ NoLog \in [asked : Seq(Nat), sent : Seq(Nat), fed : {NoLog.fed}, got : {NoLog.got},
                      interrupted : BOOLEAN]
    BY DEF NoCall, NoRet, NoNet, NoLog
  <2>3. << >> \in Seq(Method) /\ 0 \in 0..MaxDial /\ 0 \in 0..MaxFault
    BY ClientAssumption
  <2>4. ContextOK(ctx) /\ dial \in Dial /\ ret.value = "none"
    BY <2>1, <2>2, FreshContexts DEF Init
  <2>5. /\ call \in [method : Method \cup {"none"}, number : Nat]
        /\ net \in [state : {"none", "up", "closed"}, toServer : {net.toServer},
                    toClient : {net.toClient}]
        /\ log \in [asked : Seq(Nat), sent : Seq(Nat), fed : {log.fed}, got : {log.got},
                    interrupted : BOOLEAN]
    BY <2>2 DEF Init
  <2>6. _connected \in BOOLEAN /\ pc = "idle"
    BY DEF Init
  <2>7. socks \in Int /\ given \in Seq(Method) /\ dials \in 0..MaxDial /\ faults \in 0..MaxFault
    BY <2>3 DEF Init
  <2>8. QED
    BY <2>4, <2>5, <2>6, <2>7, NoReplies DEF ClientTypeOK, Init
<1>2. SocketInv
  BY FreshContexts DEF Init, SocketInv, Dialling, Calling, NoNet
<1>3. SentOnce
  BY FreshContexts DEF Init, SentOnce
<1>4. QED
  BY <1>1, <1>2, <1>3 DEF ClientInv

-----------------------------------------------------------------------------
\* Making a connection

\* Nothing has been asked and nothing sent.
LEMMA NothingSent == CommandBytes(<< >> \o << >>, << >>)
<1>1. << >> \o << >> = << >> /\ Len(<< >>) = 0
  OBVIOUS
<1>2. 0 = 0 * CmdLen
  BY ClientAssumption
<1>3. QED
  BY <1>1, <1>2 DEF CommandBytes

\* A new context, or none: an old socket has been closed (CRedisConn.h:114-165,
\* hiredis.c:681-736).
LEMMA OpenKeeps ==
    ASSUME ClientInv, connect \/ redisReconnect \/ disConnect
    PROVE  ClientInv'
<1>1. /\ ClientTypeOK /\ SocketInv
  BY DEF ClientInv
<1>2. /\ ctx' = NewCtx \/ (ctx' = NullCtx /\ _connected' = FALSE)
      /\ _connected' = FALSE \/ (_connected' = _connected /\ ctx' = NewCtx)
      /\ (pc' = "resolve" /\ ctx' = NewCtx) \/ (pc' = pc /\ pc = "idle" /\ _connected' = FALSE)
      /\ log' = NoLog /\ net' = NoNet /\ socks' = (IF ctx.fd THEN socks - 1 ELSE socks)
      /\ call' = call /\ ret' = ret /\ given' = given /\ faults' = faults
  BY DEF connect, redisReconnect, disConnect, Close
<1>3. socks' = 0
  BY <1>1, <1>2, Fields DEF SocketInv
<1>4. dial' \in Dial
  <2>1. dial' = NoDial \/ dial' = dial
          \/ dial' \in [reuse : BOOLEAN, again : {TRUE}, addr : {0}, reuses : {0}]
    BY DEF connect, redisReconnect, disConnect
  <2>2. NoDial \in Dial /\ dial \in Dial
    BY <1>1, ClientAssumption DEF NoDial, Dial, ClientTypeOK
  <2>3. 0 \in 0..Addresses /\ 0 \in 0..REDIS_CONNECT_RETRIES
    BY ClientAssumption
  <2>4. [reuse : BOOLEAN, again : {TRUE}, addr : {0}, reuses : {0}] \subseteq Dial
    BY <2>3, Zenon DEF Dial
  <2>5. QED
    BY <2>1, <2>2, <2>4
<1>5. dials' \in 0..MaxDial
  <2>1. dials \in 0..MaxDial /\ MaxDial \in Nat
    BY <1>1, ClientAssumption DEF ClientTypeOK
  <2>2. dials' = dials \/ (dials < MaxDial /\ dials' = dials + 1)
    BY DEF connect, redisReconnect, disConnect
  <2>3. QED
    BY <2>1, <2>2
<1>6. ClientTypeOK'
  <2>1. ContextOK(ctx)'
    BY <1>2, FreshContexts
  <2>2. _connected' \in BOOLEAN
    BY <1>1, <1>2 DEF ClientTypeOK
  <2>3. net' \in [state : {"none", "up", "closed"}, toServer : {net'.toServer},
                  toClient : {net'.toClient}]
    BY <1>2 DEF NoNet
  <2>4. log' \in [asked : Seq(Nat), sent : Seq(Nat), fed : {log'.fed}, got : {log'.got},
                  interrupted : BOOLEAN]
    BY <1>2 DEF NoLog
  <2>5. pc' \in {"idle", "resolve"} /\ socks' \in Int
    BY <1>2, <1>3
  <2>6. QED
    BY <1>1, <1>2, <1>4, <1>5, <2>1, <2>2, <2>3, <2>4, <2>5, NoReplies DEF ClientTypeOK
<1>7. SocketInv'
  BY <1>2, <1>3, FreshContexts DEF SocketInv, Dialling, Calling, NoNet
<1>8. SentOnce'
  BY <1>2, FreshContexts, NothingSent DEF SentOnce, NoLog
<1>9. QED
  BY <1>6, <1>7, <1>8 DEF ClientInv

\* The attempt is over: the context is kept with the socket it has, or freed with it
\* (CRedisConn.h:124-139, net.c:335-502).
LEMMA DialledKeeps ==
    ASSUME ClientInv, pc \in Dialling, NEW c, NEW sock, Dialled(c, sock),
           ContextOK(c), c.live, c.obuf = ctx.obuf, sock = IF c.fd THEN 1 ELSE 0,
           UNCHANGED <<call, ret, given, dials, faults, log>>,
           net' = [NoNet EXCEPT !.state = "up"]
             \/ (net' = net /\ (c.err # "none" \/ dial.reuse))
    PROVE  ClientInv'
<1>1. /\ ClientTypeOK /\ SocketInv /\ SentOnce
  BY DEF ClientInv
<1>2. c.fd \in BOOLEAN /\ c.live \in BOOLEAN /\ c.err \in Error
  BY DEF ContextOK
<1>3. \/ ctx' = NullCtx /\ _connected' = FALSE /\ socks' = 0
      \/ ctx' = c /\ _connected' = TRUE /\ socks' = sock
  <2>1. CASE ~dial.again /\ c.err # "none"
    <3>1. ctx' = NullCtx /\ _connected' = FALSE /\ socks' = IF c.fd THEN sock - 1 ELSE sock
      BY <2>1 DEF Dialled
    <3>2. QED
      BY <1>2, <3>1
  <2>2. CASE dial.again \/ c.err = "none"
    BY <2>2 DEF Dialled
  <2>3. QED
    BY <1>1, <2>1, <2>2, Fields
<1>4. pc' = "idle" /\ dial' = [NoDial EXCEPT !.reuse = dial.reuse]
  BY DEF Dialled
<1>5. dial' \in Dial /\ dial'.reuse = dial.reuse
  <2>1. dial' = [reuse |-> dial.reuse, again |-> FALSE, addr |-> 0, reuses |-> 0]
    BY <1>4 DEF NoDial
  <2>2. QED
    BY <1>1, <2>1, Fields, ClientAssumption DEF Dial
<1>6. /\ net' \in [state : {"none", "up", "closed"}, toServer : {net'.toServer},
                   toClient : {net'.toClient}]
      /\ net'.state = "up" \/ net'.state = net.state
  <2>1. CASE net' = net
    BY <1>1, <2>1 DEF ClientTypeOK
  <2>2. CASE net' = [NoNet EXCEPT !.state = "up"]
    BY <2>2 DEF NoNet
  <2>3. QED
    BY <2>1, <2>2
<1>7. ClientTypeOK'
  <2>1. ContextOK(ctx)'
    BY <1>3, FreshContexts
  <2>2. _connected' \in BOOLEAN /\ socks' \in Int
    <3>1. sock = 0 \/ sock = 1
      BY <1>2
    <3>2. socks' \in Int
      BY <1>3, <3>1
    <3>3. _connected' \in BOOLEAN
      BY <1>3
    <3>4. QED
      BY <3>2, <3>3
  <2>3. log' \in [asked : Seq(Nat), sent : Seq(Nat), fed : {log'.fed}, got : {log'.got},
                  interrupted : BOOLEAN]
    BY <1>1 DEF ClientTypeOK
  <2>4. QED
    BY <1>1, <1>4, <1>5, <1>6, <2>1, <2>2, <2>3 DEF ClientTypeOK
<1>8. SocketInv'
  BY <1>2, <1>3, <1>4, <1>5, <1>6, FreshContexts DEF SocketInv, Dialling, Calling, NoNet
<1>9. SentOnce'
  <2>1. ctx'.live => ctx.live /\ ctx'.obuf = ctx.obuf
    BY <1>1, <1>3, FreshContexts DEF SocketInv
  <2>2. QED
    BY <1>1, <2>1, SentStays
<1>10. QED
  BY <1>7, <1>8, <1>9 DEF ClientInv

\* The next address is tried, without a socket, or the attempt is over (net.c:406-411,
\* 455-457, 488-493).
LEMMA NextAddressKeeps ==
    ASSUME ClientInv, pc \in {"socket", "connect"}, NextAddress(0),
           UNCHANGED dialled
    PROVE  ClientInv'
<1>1. /\ ClientTypeOK /\ SocketInv /\ SentOnce /\ pc \in Dialling
  BY DEF ClientInv, Dialling
<1>2. UNCHANGED <<call, ret, net, given, dials, faults, log>>
  BY DEF dialled
<1>3. CASE dial.addr = Addresses
  <2>1. PICK c : c = [ctx EXCEPT !.err = "other", !.fd = FALSE]
    OBVIOUS
  <2>2. ContextOK(c) /\ c.live = ctx.live /\ c.obuf = ctx.obuf /\ c.err = "other" /\ c.fd = FALSE
    BY <1>1, <2>1 DEF ClientTypeOK, ContextOK, Error
  <2>3. Dialled(c, 0)
    BY <1>3, <2>1 DEF NextAddress
  <2>4. c.live /\ 0 = IF c.fd THEN 1 ELSE 0
    BY <1>1, <2>2 DEF SocketInv
  <2>5. QED
    BY <1>1, <1>2, <2>2, <2>3, <2>4, DialledKeeps
<1>4. CASE dial.addr # Addresses
  <2>1. /\ pc' = "socket" /\ dial' = [dial EXCEPT !.addr = @ + 1]
        /\ ctx' = [ctx EXCEPT !.fd = FALSE] /\ socks' = 0 /\ _connected' = _connected
    BY <1>4 DEF NextAddress
  <2>2. /\ ContextOK(ctx)' /\ ctx'.live = ctx.live /\ ctx'.obuf = ctx.obuf /\ ctx'.fd = FALSE
        /\ ctx'.err = ctx.err
    BY <1>1, <2>1 DEF ClientTypeOK, ContextOK
  <2>3. dial' \in Dial /\ dial'.reuse = dial.reuse
    <3>1. dial.addr + 1 \in 0..Addresses
      BY <1>1, <1>4, Fields, ClientAssumption
    <3>2. QED
      BY <1>1, <2>1, <3>1 DEF ClientTypeOK, Dial
  <2>4. ClientTypeOK'
    BY <1>1, <1>2, <2>1, <2>2, <2>3 DEF ClientTypeOK
  <2>5. SocketInv'
    BY <1>1, <1>2, <2>1, <2>2, <2>3 DEF SocketInv, Dialling, Calling
  <2>6. SentOnce'
    BY <1>1, <1>2, <2>2, SentStays
  <2>7. QED
    BY <2>4, <2>5, <2>6 DEF ClientInv
<1>5. QED
  BY <1>3, <1>4

\* An attempt fails with an error and without a socket (net.c:335-502).
LEMMA DialFailsKeeps ==
    ASSUME ClientInv, pc \in Dialling, NEW err \in {"io", "other"}, DialFails(err),
           UNCHANGED <<call, ret, net, given, dials, faults, log>>
    PROVE  ClientInv'
<1>1. /\ ClientTypeOK /\ SocketInv
  BY DEF ClientInv
<1>2. PICK c : c = [ctx EXCEPT !.err = err, !.fd = FALSE]
  OBVIOUS
<1>3. ContextOK(c) /\ c.live = ctx.live /\ c.obuf = ctx.obuf /\ c.err = err /\ c.fd = FALSE
  BY <1>1, <1>2 DEF ClientTypeOK, ContextOK, Error
<1>4. PICK sock : sock = IF ctx.fd THEN socks - 1 ELSE socks
  OBVIOUS
<1>5. sock = 0
  BY <1>1, <1>4, Fields DEF SocketInv
<1>6. Dialled(c, sock)
  BY <1>2, <1>4 DEF DialFails
<1>7. c.live /\ sock = (IF c.fd THEN 1 ELSE 0) /\ c.err # "none"
  BY <1>1, <1>3, <1>5 DEF SocketInv
<1>8. QED
  BY <1>3, <1>6, <1>7, DialledKeeps

\* An attempt ends with the context and the socket as they are, and perhaps an error
\* (net.c:335-502).
LEMMA DialEndsKeeps ==
    ASSUME ClientInv, pc \in Dialling, NEW c, c = ctx \/ c = [ctx EXCEPT !.err = "io"],
           Dialled(c, socks), UNCHANGED <<call, ret, given, dials, faults, log>>,
           net' = [NoNet EXCEPT !.state = "up"]
             \/ (net' = net /\ (c = [ctx EXCEPT !.err = "io"] \/ dial.reuse))
    PROVE  ClientInv'
<1>1. /\ ClientTypeOK /\ SocketInv
  BY DEF ClientInv
<1>2. /\ ContextOK(c) /\ c.live = ctx.live /\ c.obuf = ctx.obuf /\ c.fd = ctx.fd
      /\ c = [ctx EXCEPT !.err = "io"] => c.err = "io"
  <2>1. CASE c = ctx
    BY <1>1, <2>1 DEF ClientTypeOK, ContextOK
  <2>2. CASE c = [ctx EXCEPT !.err = "io"]
    BY <1>1, <2>2 DEF ClientTypeOK, ContextOK, Error
  <2>3. QED
    BY <2>1, <2>2
<1>3. c.live /\ socks = (IF c.fd THEN 1 ELSE 0)
  BY <1>1, <1>2 DEF SocketInv
<1>4. QED
  BY <1>2, <1>3, DialledKeeps

\* The attempt goes on to its next stage with the same context (net.c:335-502).
LEMMA StageKeeps ==
    ASSUME ClientInv, pc \in Dialling, pc' \in Dialling,
           pc' \in {"resolve", "socket"} <=> pc \in {"resolve", "socket"},
           dial' \in Dial, UNCHANGED <<ctx, _connected, socks>>, UNCHANGED dialled
    PROVE  ClientInv'
<1>1. /\ ClientTypeOK /\ SocketInv /\ SentOnce
  BY DEF ClientInv
<1>2. UNCHANGED <<call, ret, net, given, dials, faults, log, ctx, _connected, socks>>
  BY DEF dialled
<1>3. ClientTypeOK'
  <2>1. ContextOK(ctx)'
    BY <1>1, <1>2 DEF ClientTypeOK, ContextOK
  <2>2. QED
    BY <1>1, <1>2, <2>1 DEF ClientTypeOK, Dialling
<1>4. SocketInv'
  BY <1>1, <1>2 DEF SocketInv, Dialling, Calling
<1>5. SentOnce'
  BY <1>1, <1>2, SentStays
<1>6. QED
  BY <1>3, <1>4, <1>5 DEF ClientInv

\* Addresses are looked up (net.c:389-405).
LEMMA ResolveKeeps ==
    ASSUME ClientInv, Resolve
    PROVE  ClientInv'
<1>1. /\ ClientTypeOK /\ SocketInv /\ pc = "resolve" /\ pc \in Dialling
  BY DEF ClientInv, Resolve, Dialling
<1>2. UNCHANGED <<call, ret, net, given, dials, faults, log>> /\ UNCHANGED dialled
  BY DEF Resolve, dialled
<1>3. CASE \E err \in {"io", "other"} : DialFails(err)
  BY <1>1, <1>2, <1>3, DialFailsKeeps
<1>4. CASE /\ pc' = "socket" /\ dial' = [dial EXCEPT !.addr = 1]
           /\ UNCHANGED <<ctx, _connected, socks>>
  <2>1. 1 \in 0..Addresses
    BY ClientAssumption
  <2>2. dial' \in Dial
    BY <1>1, <1>4, <2>1 DEF ClientTypeOK, Dial
  <2>3. pc' \in Dialling /\ (pc' \in {"resolve", "socket"} <=> pc \in {"resolve", "socket"})
    BY <1>1, <1>4 DEF Dialling
  <2>4. QED
    BY <1>1, <1>2, <1>4, <2>2, <2>3, StageKeeps
<1>5. QED
  BY <1>3, <1>4 DEF Resolve

\* A socket is opened, made non-blocking and bound (net.c:406-446).
LEMMA SocketKeeps ==
    ASSUME ClientInv, Socket
    PROVE  ClientInv'
<1>1. /\ ClientTypeOK /\ SocketInv /\ SentOnce /\ pc = "socket" /\ pc \in Dialling /\ socks = 0
      /\ ctx.live
  BY DEF ClientInv, Socket, Dialling, SocketInv
<1>2. UNCHANGED <<call, ret, net, given, dials, faults, log>> /\ UNCHANGED dialled
  BY DEF Socket, dialled
<1>3. CASE NextAddress(socks)
  <2>1. NextAddress(0)
    BY <1>1, <1>3
  <2>2. QED
    BY <1>1, <1>2, <2>1, NextAddressKeeps
<1>4. CASE Dialled([ctx EXCEPT !.err = "io"], socks)
  <2>1. PICK c : c = [ctx EXCEPT !.err = "io"]
    OBVIOUS
  <2>2. Dialled(c, socks)
    BY <1>4, <2>1
  <2>3. QED
    BY <1>1, <1>2, <2>1, <2>2, DialEndsKeeps
<1>5. CASE /\ pc' = "connect" /\ ctx' = [ctx EXCEPT !.fd = TRUE] /\ socks' = socks + 1
           /\ UNCHANGED <<_connected, dial>>
  <2>1. /\ ContextOK(ctx)' /\ ctx'.live = ctx.live /\ ctx'.obuf = ctx.obuf /\ ctx'.fd = TRUE
        /\ ctx'.err = ctx.err
    BY <1>1, <1>5 DEF ClientTypeOK, ContextOK
  <2>2. socks' = 1
    BY <1>1, <1>5
  <2>3. ClientTypeOK'
    BY <1>1, <1>2, <1>5, <2>1, <2>2 DEF ClientTypeOK
  <2>4. SocketInv'
    BY <1>1, <1>2, <1>5, <2>1, <2>2 DEF SocketInv, Dialling, Calling
  <2>5. SentOnce'
    BY <1>1, <1>2, <2>1, SentStays
  <2>6. QED
    BY <2>3, <2>4, <2>5 DEF ClientInv
<1>6. ASSUME dial.reuse, NEW err \in {"other", "none"},
             Dialled([ctx EXCEPT !.err = err, !.fd = TRUE], socks + 1)
      PROVE  ClientInv'
  <2>1. PICK c : c = [ctx EXCEPT !.err = err, !.fd = TRUE]
    OBVIOUS
  <2>2. ContextOK(c) /\ c.live = ctx.live /\ c.obuf = ctx.obuf /\ c.fd = TRUE
    BY <1>1, <2>1 DEF ClientTypeOK, ContextOK, Error
  <2>3. PICK sock : sock = socks + 1
    OBVIOUS
  <2>4. Dialled(c, sock)
    BY <1>6, <2>1, <2>3
  <2>5. c.live /\ sock = IF c.fd THEN 1 ELSE 0
    BY <1>1, <2>2, <2>3
  <2>6. QED
    BY <1>1, <1>2, <1>6, <2>2, <2>4, <2>5, DialledKeeps
<1>7. QED
  BY <1>3, <1>4, <1>5, <1>6 DEF Socket

\* connect() is called, with retries when the address is in use (net.c:454-478).
LEMMA ConnectKeeps ==
    ASSUME ClientInv, Connect
    PROVE  ClientInv'
<1>1. /\ ClientTypeOK /\ SocketInv /\ SentOnce /\ pc = "connect" /\ pc \in Dialling /\ socks = 1
      /\ ctx.live
  BY DEF ClientInv, Connect, Dialling, SocketInv
<1>2. UNCHANGED <<call, ret, net, given, dials, faults, log>> /\ UNCHANGED dialled
  BY DEF Connect, dialled
<1>3. CASE pc' \in {"finish", "wait"} /\ UNCHANGED <<ctx, _connected, socks, dial>>
  <2>1. dial' \in Dial
    BY <1>1, <1>3 DEF ClientTypeOK
  <2>2. pc' \in Dialling /\ (pc' \in {"resolve", "socket"} <=> pc \in {"resolve", "socket"})
    BY <1>1, <1>3 DEF Dialling
  <2>3. QED
    BY <1>1, <1>2, <1>3, <2>1, <2>2, StageKeeps
<1>4. CASE NextAddress(socks - 1)
  <2>1. socks - 1 = 0
    BY <1>1
  <2>2. NextAddress(0)
    BY <1>4, <2>1
  <2>3. QED
    BY <1>1, <1>2, <2>2, NextAddressKeeps
<1>5. CASE DialFails("io")
  BY <1>1, <1>2, <1>5, DialFailsKeeps
<1>6. CASE dial.reuse /\ dial.reuses + 1 >= REDIS_CONNECT_RETRIES /\ Dialled(ctx, socks)
  <2>1. PICK c : c = ctx
    OBVIOUS
  <2>2. Dialled(c, socks)
    BY <1>6, <2>1
  <2>3. QED
    BY <1>1, <1>2, <1>6, <2>1, <2>2, DialEndsKeeps
<1>7. CASE /\ ~(dial.reuses + 1 >= REDIS_CONNECT_RETRIES)
           /\ pc' = "socket" /\ dial' = [dial EXCEPT !.reuses = @ + 1]
           /\ ctx' = [ctx EXCEPT !.fd = FALSE] /\ socks' = socks - 1
           /\ UNCHANGED _connected
  <2>1. dial.reuses + 1 \in 0..REDIS_CONNECT_RETRIES
    BY <1>1, <1>7, Fields, ClientAssumption
  <2>2. dial' \in Dial /\ dial'.reuse = dial.reuse
    BY <1>1, <1>7, <2>1 DEF ClientTypeOK, Dial
  <2>3. /\ ContextOK(ctx)' /\ ctx'.live = ctx.live /\ ctx'.obuf = ctx.obuf /\ ctx'.fd = FALSE
        /\ ctx'.err = ctx.err
    BY <1>1, <1>7 DEF ClientTypeOK, ContextOK
  <2>4. socks' = 0
    BY <1>1, <1>7
  <2>5. ClientTypeOK'
    BY <1>1, <1>2, <1>7, <2>2, <2>3, <2>4 DEF ClientTypeOK
  <2>6. SocketInv'
    BY <1>1, <1>2, <1>7, <2>2, <2>3, <2>4 DEF SocketInv, Dialling, Calling
  <2>7. SentOnce'
    BY <1>1, <1>2, <2>3, SentStays
  <2>8. QED
    BY <2>5, <2>6, <2>7 DEF ClientInv
<1>8. QED
  BY <1>3, <1>4, <1>5, <1>6, <1>7 DEF Connect

\* The socket is waited for, then made ready for use (net.c:217-314, 479-484).
LEMMA FinishKeeps ==
    ASSUME ClientInv, WaitReady \/ Finish
    PROVE  ClientInv'
<1>1. /\ ClientTypeOK /\ SocketInv /\ pc \in {"wait", "finish"} /\ pc \in Dialling
  BY DEF ClientInv, WaitReady, Finish, Dialling
<1>2. UNCHANGED <<call, ret, given, dials, faults, log>>
  BY DEF WaitReady, Finish, dialled
<1>3. ASSUME DialFails("io"), UNCHANGED net
      PROVE  ClientInv'
  BY <1>1, <1>2, <1>3, DialFailsKeeps
<1>4. ASSUME Dialled([ctx EXCEPT !.err = "io"], socks), UNCHANGED net
      PROVE  ClientInv'
  <2>1. PICK c : c = [ctx EXCEPT !.err = "io"]
    OBVIOUS
  <2>2. Dialled(c, socks)
    BY <1>4, <2>1
  <2>3. QED
    BY <1>1, <1>2, <1>4, <2>1, <2>2, DialEndsKeeps
<1>5. ASSUME Dialled(ctx, socks), net' = [NoNet EXCEPT !.state = "up"]
      PROVE  ClientInv'
  <2>1. PICK c : c = ctx
    OBVIOUS
  <2>2. Dialled(c, socks)
    BY <1>5, <2>1
  <2>3. QED
    BY <1>1, <1>2, <1>5, <2>1, <2>2, DialEndsKeeps
<1>6. ASSUME pc' = "finish", UNCHANGED <<ctx, _connected, socks, dial>>, UNCHANGED dialled
      PROVE  ClientInv'
  <2>1. dial' \in Dial
    BY <1>1, <1>6 DEF ClientTypeOK
  <2>2. pc' \in Dialling /\ (pc' \in {"resolve", "socket"} <=> pc \in {"resolve", "socket"})
    BY <1>1, <1>6 DEF Dialling
  <2>3. QED
    BY <1>1, <1>6, <2>1, <2>2, StageKeeps
<1>7. QED
  BY <1>3, <1>4, <1>5, <1>6 DEF WaitReady, Finish, dialled

-----------------------------------------------------------------------------
\* What has been sent and what waits

\* What is left of a sequence without its first m elements.
LEMMA Suffix ==
    ASSUME NEW S, NEW s \in Seq(S), NEW m \in Nat, m <= Len(s)
    PROVE  /\ SubSeq(s, m + 1, Len(s)) \in Seq(S)
           /\ Len(SubSeq(s, m + 1, Len(s))) = Len(s) - m
           /\ \A k \in 1..(Len(s) - m) : SubSeq(s, m + 1, Len(s))[k] = s[m + k]
<1>1. Len(s) \in Nat
  OBVIOUS
<1>2. PICK N \in Nat : N = Len(s)
  BY <1>1
<1>3. PICK j \in Int : j = m + 1
  OBVIOUS
<1>4. \A b \in j..N : s[b] \in S
  BY <1>2, <1>3
<1>5. N \in Int
  OBVIOUS
<1>6. /\ SubSeq(s, j, N) \in Seq(S)
      /\ Len(SubSeq(s, j, N)) = IF j <= N THEN N - j + 1 ELSE 0
      /\ \A i \in 1..(N - j + 1) : SubSeq(s, j, N)[i] = s[j + i - 1]
  BY <1>4, <1>5, SubSeqProperties
<1>7. (IF j <= N THEN N - j + 1 ELSE 0) = N - m /\ N - j + 1 = N - m
  BY <1>2, <1>3
<1>8. \A i \in 1..(N - m) : j + i - 1 = m + i
  BY <1>3
<1>9. \A i \in 1..(N - m) : SubSeq(s, j, N)[i] = s[m + i]
  BY <1>6, <1>7, <1>8
<1>10. Len(SubSeq(s, j, N)) = N - m
  BY <1>6, <1>7
<1>11. QED
  BY <1>2, <1>3, <1>6, <1>9, <1>10

\* Bytes that move from the front of the output buffer to what has been sent.
LEMMA Move ==
    ASSUME NEW c \in Seq(Nat), NEW s \in Seq(Nat), NEW n \in Nat, n <= Len(s)
    PROVE  /\ SubSeq(s, 1, n) \in Seq(Nat) /\ SubSeq(s, n + 1, Len(s)) \in Seq(Nat)
           /\ (c \o SubSeq(s, 1, n)) \o SubSeq(s, n + 1, Len(s)) = c \o s
<1>1. /\ SubSeq(s, 1, n) \in Seq(Nat) /\ Len(SubSeq(s, 1, n)) = n
      /\ \A k \in 1..n : SubSeq(s, 1, n)[k] = s[k]
  OBVIOUS
<1>2. PICK a \in Seq(Nat) : a = SubSeq(s, 1, n)
  BY <1>1
<1>3. Len(a) = n /\ \A k \in 1..n : a[k] = s[k]
  BY <1>1, <1>2
<1>4. PICK z \in Seq(Nat) : /\ z = SubSeq(s, n + 1, Len(s)) /\ Len(z) = Len(s) - n
                            /\ \A k \in 1..(Len(s) - n) : z[k] = s[n + k]
  <2>1. /\ SubSeq(s, n + 1, Len(s)) \in Seq(Nat)
        /\ Len(SubSeq(s, n + 1, Len(s))) = Len(s) - n
        /\ \A k \in 1..(Len(s) - n) : SubSeq(s, n + 1, Len(s))[k] = s[n + k]
    BY Suffix
  <2>2. QED
    BY <2>1
<1>5. a \o z = s
  <2>1. PICK N \in Nat : N = Len(s)
    OBVIOUS
  <2>2. PICK t \in Seq(Nat) :
          /\ t = a \o z /\ Len(t) = Len(a) + Len(z)
          /\ \A k \in 1..(Len(a) + Len(z)) : t[k] = IF k <= Len(a) THEN a[k] ELSE z[k - Len(a)]
    <3>1. /\ a \o z \in Seq(Nat) /\ Len(a \o z) = Len(a) + Len(z)
          /\ \A k \in 1..(Len(a) + Len(z)) :
               (a \o z)[k] = IF k <= Len(a) THEN a[k] ELSE z[k - Len(a)]
      <4>1. a \in Seq(Nat) /\ z \in Seq(Nat)
        BY <1>2, <1>4
      <4>2. QED
        BY <4>1, ConcatProperties
    <3>2. QED
      BY <3>1
  <2>3. n + (N - n) = N /\ n <= N
    BY <2>1
  <2>4. Len(t) = N /\ \A k \in 1..N : t[k] = IF k <= n THEN a[k] ELSE z[k - n]
    BY <1>3, <1>4, <2>1, <2>2, <2>3
  <2>5. \A k \in 1..N : k <= n => k \in 1..n
    OBVIOUS
  <2>6. \A k \in 1..N : ~(k <= n) => k - n \in 1..(N - n) /\ n + (k - n) = k
    BY <2>1
  <2>7. \A k \in 1..N : t[k] = s[k]
    BY <1>3, <1>4, <2>1, <2>4, <2>5, <2>6
  <2>8. QED
    BY <2>1, <2>2, <2>4, <2>7, SeqEqual
<1>6. (c \o a) \o z = c \o (a \o z)
  BY ConcatAssociative, SMTT(40)
<1>7. QED
  BY <1>1, <1>2, <1>4, <1>5, <1>6

\* The bytes of n commands of l bytes, and of one of them.
LEMMA Products ==
    ASSUME NEW n \in Nat, NEW N \in Nat, NEW l \in Nat, n < N, NEW i \in 1..l
    PROVE  /\ N * l \in Nat /\ n * l \in Nat /\ (N + 1) * l = N * l + l
           /\ n * l + i \in 1..(N * l)
<1>1. N * l \in Nat /\ n * l \in Nat /\ (N + 1) * l = N * l + l
  OBVIOUS
<1>2. PICK d \in Nat : N = n + 1 + d
  <2>1. N - n - 1 \in Nat /\ N = n + 1 + (N - n - 1)
    OBVIOUS
  <2>2. QED
    BY <2>1
<1>3. d * l \in Nat /\ N * l = n * l + l + d * l
  BY <1>2
<1>4. QED
  BY <1>1, <1>3

\* Concatenation of bytes.
LEMMA Associative ==
    ASSUME NEW a \in Seq(Nat), NEW b \in Seq(Nat), NEW c \in Seq(Nat)
    PROVE  (a \o b) \o c = a \o (b \o c)
  BY ConcatAssociative, SMTT(40)

\* One more command.
LEMMA CommandAppended ==
    ASSUME NEW b \in Seq(Nat), NEW a \in Seq(Nat), NEW k \in Nat, CommandBytes(b, a)
    PROVE  CommandBytes(b \o Command(k), Append(a, k))
<1>1. PICK l \in Nat : l = CmdLen /\ l >= 1
  BY ClientAssumption
<1>2. PICK c \in Seq(Nat) : c = Command(k) /\ Len(c) = l /\ \A i \in 1..l : c[i] = k
  <2>1. Command(k) = [i \in 1..l |-> k]
    BY <1>1 DEF Command
  <2>2. [i \in 1..l |-> k] \in Seq(Nat) /\ Len([i \in 1..l |-> k]) = l
    BY <1>1
  <2>3. QED
    BY <2>1, <2>2
<1>3. PICK N \in Nat : N = Len(a)
  OBVIOUS
<1>4. PICK M \in Nat : M = Len(b)
  OBVIOUS
<1>5. M = N * l
  BY <1>1, <1>3, <1>4 DEF CommandBytes
<1>6. PICK t \in Seq(Nat) :
        /\ t = b \o c /\ Len(t) = M + l
        /\ \A j \in 1..(M + l) : t[j] = IF j <= M THEN b[j] ELSE c[j - M]
  <2>1. /\ b \o c \in Seq(Nat) /\ Len(b \o c) = Len(b) + Len(c)
        /\ \A j \in 1..(Len(b) + Len(c)) : (b \o c)[j] = IF j <= Len(b) THEN b[j] ELSE c[j - Len(b)]
    <3>1. c \in Seq(Nat)
      BY <1>2
    <3>2. QED
      BY <3>1, ConcatProperties, ZenonT(60)
  <2>2. Len(b) = M /\ Len(c) = l
    BY <1>2, <1>4
  <2>3. /\ b \o c \in Seq(Nat) /\ Len(b \o c) = M + l
        /\ \A j \in 1..(M + l) : (b \o c)[j] = IF j <= M THEN b[j] ELSE c[j - M]
    BY <2>1, <2>2, Zenon
  <2>4. QED
    BY <2>3, Zenon
<1>7. PICK d \in Seq(Nat) : d = Append(a, k) /\ Len(d) = N + 1 /\ d[N + 1] = k
                            /\ \A n \in 1..N : d[n] = a[n]
  <2>1. /\ Append(a, k) \in Seq(Nat) /\ Len(Append(a, k)) = N + 1 /\ Append(a, k)[N + 1] = k
        /\ \A n \in 1..N : Append(a, k)[n] = a[n]
    BY <1>3
  <2>2. QED
    BY <2>1, Zenon
<1>8. (N + 1) * l = N * l + l
  OBVIOUS
<1>9. ASSUME NEW n \in 1..(N + 1), NEW i \in 1..l
      PROVE  t[(n - 1) * l + i] = d[n]
  <2>1. CASE n \in 1..N
    <3>1. PICK m \in Nat : m = n - 1 /\ m < N
      BY <2>1
    <3>2. PICK x \in Nat : x = m * l + i /\ x \in 1..M
      <4>1. m * l + i \in 1..(N * l)
        BY <3>1, Products
      <4>2. QED
        BY <1>5, <4>1
    <3>3. x \in 1..(M + l) /\ x <= M
      BY <1>1, <1>4, <3>2
    <3>4. t[x] = b[x]
      BY <1>6, <3>3
    <3>5. b[x] = a[n]
      <4>1. b[(n - 1) * l + i] = Command(a[n])[i]
        BY <1>1, <1>3, <2>1 DEF CommandBytes
      <4>2. Command(a[n])[i] = a[n]
        BY <1>1 DEF Command
      <4>3. QED
        BY <3>1, <3>2, <4>1, <4>2
    <3>6. QED
      BY <1>7, <2>1, <3>1, <3>2, <3>4, <3>5
  <2>2. CASE n = N + 1
    <3>1. n - 1 = N
      BY <2>2
    <3>2. (n - 1) * l = M
      BY <1>5, <3>1, Zenon
    <3>3. PICK x \in Nat : x = M + i /\ x \in 1..(M + l) /\ ~(x <= M) /\ x - M = i
      <4>1. M + i \in Nat /\ M + i \in 1..(M + l) /\ ~(M + i <= M) /\ (M + i) - M = i
        BY <1>1, <1>4
      <4>2. QED
        BY <4>1, Zenon
    <3>4. t[x] = c[i]
      BY <1>6, <3>3
    <3>5. (n - 1) * l + i = x
      BY <3>2, <3>3, Zenon
    <3>6. c[i] = k /\ d[n] = k
      BY <1>2, <1>7, <2>2
    <3>7. QED
      BY <3>4, <3>5, <3>6, Zenon
  <2>3. n \in 1..N \/ n = N + 1
    BY <1>3
  <2>4. QED
    BY <2>1, <2>2, <2>3, Zenon
<1>10. Len(t) = Len(d) * l
  BY <1>5, <1>6, <1>7, <1>8
<1>11. \A n \in 1..Len(d) : \A i \in 1..l : t[(n - 1) * l + i] = Command(d[n])[i]
  BY <1>1, <1>7, <1>9 DEF Command
<1>12. CommandBytes(t, d)
  BY <1>1, <1>10, <1>11 DEF CommandBytes
<1>13. QED
  BY <1>2, <1>6, <1>7, <1>12

-----------------------------------------------------------------------------
\* Calls

Outcomes == {"none", "true", "false", "crash"}

LogOK(h) == /\ h \in [asked : Seq(Nat), sent : Seq(Nat), fed : {h.fed}, got : {h.got},
                         interrupted : BOOLEAN]
            /\ h.got \in Seq(ToSet(h.got))

NetOK(n) == n \in [state : {"none", "up", "closed"}, toServer : {n.toServer},
                   toClient : {n.toClient}]

\* A call that ends has an outcome, whatever the reply.
LEMMA ReturnEnds ==
    ASSUME NEW reply, call.method \in Method, Return(reply)
    PROVE  ret'.value \in Outcomes /\ call' = NoCall /\ pc' \in {"idle", "crashed"}
<1>1. PICK m : m = call.method
  OBVIOUS
<1>2. MethodReturns(m, reply) \subseteq Outcomes
  <2>1. CASE reply = NoReply
    BY <2>1 DEF MethodReturns, Outcomes
  <2>2. CASE reply # NoReply
    <3>1. MethodReturns(m, reply) =
            IF reply.type = "error" THEN {"false"}
            ELSE {IF true THEN "true" ELSE "false" : true \in Accepted(m, reply)}
      BY <2>2 DEF MethodReturns
    <3>2. QED
      BY <3>1 DEF Outcomes
  <2>3. QED
    BY <2>1, <2>2
<1>3. PICK value \in MethodReturns(call.method, reply) :
        /\ ret' = [method |-> call.method, number |-> call.number, reply |-> reply,
                   value |-> value, interrupted |-> log.interrupted]
        /\ call' = NoCall
        /\ pc' = IF value = "crash" THEN "crashed" ELSE "idle"
  BY DEF Return
<1>4. value \in Outcomes
  BY <1>1, <1>2, <1>3
<1>5. QED
  BY <1>3, <1>4

\* Asking the reader changes neither the socket nor what is to be sent, and an error stays
\* (hiredis.c:915-921).
LEMMA ReaderAsked ==
    ASSUME ClientTypeOK, call.method \in Method, NEW reader, NEW otherwise,
           FromReader(reader, otherwise)
    PROVE  /\ ContextOK(ctx') /\ ctx'.live = ctx.live /\ ctx'.fd = ctx.fd /\ ctx'.obuf = ctx.obuf
           /\ ctx'.err # "none" \/ ctx'.err = ctx.err
           /\ LogOK(log') /\ log'.sent = log.sent /\ log'.asked = log.asked
           /\ \/ pc' = otherwise /\ call' = call /\ ret' = ret
              \/ pc' \in {"idle", "crashed"} /\ call' = NoCall /\ ret'.value \in Outcomes
<1>1. PICK read :
        /\ ctx' = [ctx EXCEPT !.reader = [read EXCEPT !.reply = NoReply],
                              !.err = IF read.err THEN "protocol" ELSE @]
        /\ log' = [log EXCEPT !.fed = @ \o SubSeq(reader.buf, Len(ctx.reader.buf) + 1, Len(reader.buf)),
                              !.got = IF read.reply = NoReply THEN @ ELSE Append(@, read.reply)]
        /\ IF read.err \/ read.reply # NoReply THEN Return(read.reply)
           ELSE pc' = otherwise /\ UNCHANGED <<call, ret>>
  BY DEF FromReader
<1>2. PICK x, e : /\ ctx' = [ctx EXCEPT !.reader = x, !.err = e]
                  /\ e = ctx.err \/ e = "protocol"
  <2>1. PICK e : e = IF read.err THEN "protocol" ELSE ctx.err
    OBVIOUS
  <2>2. PICK x : x = [read EXCEPT !.reply = NoReply]
    OBVIOUS
  <2>3. ctx' = [ctx EXCEPT !.reader = x, !.err = e]
    BY <1>1, <2>1, <2>2
  <2>4. e = ctx.err \/ e = "protocol"
    BY <2>1
  <2>5. QED
    BY <2>3, <2>4
<1>3. PICK f, g : log' = [log EXCEPT !.fed = f, !.got = g] /\ g \in Seq(ToSet(g))
  <2>1. PICK f : f = log.fed \o SubSeq(reader.buf, Len(ctx.reader.buf) + 1, Len(reader.buf))
    OBVIOUS
  <2>2. PICK g : g = IF read.reply = NoReply THEN log.got ELSE Append(log.got, read.reply)
    OBVIOUS
  <2>3. g \in Seq(ToSet(g))
    BY <2>2, ReplyAppended DEF ClientTypeOK
  <2>4. log' = [log EXCEPT !.fed = f, !.got = g]
    BY <1>1, <2>1, <2>2
  <2>5. QED
    BY <2>3, <2>4
<1>4. ctx \in [live : BOOLEAN, err : Error, fd : BOOLEAN, obuf : Seq(Nat), reader : {ctx.reader}]
  BY DEF ClientTypeOK, ContextOK
<1>5. e \in Error
  BY <1>2, <1>4 DEF Error
<1>6. ctx' = [live |-> ctx.live, err |-> e, fd |-> ctx.fd, obuf |-> ctx.obuf, reader |-> x]
  BY <1>2, <1>4
<1>7. /\ ContextOK(ctx') /\ ctx'.live = ctx.live /\ ctx'.fd = ctx.fd
      /\ ctx'.obuf = ctx.obuf /\ ctx'.err = e
  BY <1>4, <1>5, <1>6 DEF ContextOK
<1>8. LogOK(log') /\ log'.sent = log.sent /\ log'.asked = log.asked
  BY <1>3 DEF ClientTypeOK, LogOK
<1>9. \/ pc' = otherwise /\ call' = call /\ ret' = ret
      \/ pc' \in {"idle", "crashed"} /\ call' = NoCall /\ ret'.value \in Outcomes
  <2>1. CASE read.err \/ read.reply # NoReply
    <3>1. Return(read.reply)
      BY <1>1, <2>1
    <3>2. QED
      BY <3>1, ReturnEnds
  <2>2. CASE ~(read.err \/ read.reply # NoReply)
    BY <1>1, <2>2
  <2>3. QED
    BY <2>1, <2>2
<1>10. QED
  BY <1>2, <1>7, <1>8, <1>9

\* A step that is no part of a dial: the context keeps its socket, an error stays.
LEMMA CallStep ==
    ASSUME ClientTypeOK, SocketInv, pc \notin Dialling,
           ContextOK(ctx'), ctx'.live = ctx.live, ctx'.fd = ctx.fd,
           ctx'.err # "none" \/ ctx'.err = ctx.err,
           NetOK(net'), net'.state = "none" => net.state = "none",
           UNCHANGED called,
           LogOK(log'), ret'.value \in Outcomes, given' \in Seq(Method), faults' \in 0..MaxFault,
           \/ pc' = pc /\ call' = call
           \/ pc' \in {"idle", "crashed"} /\ call' = NoCall
           \/ pc' \in Calling /\ _connected /\ call' \in [method : Method, number : Nat]
    PROVE  ClientTypeOK' /\ SocketInv'
<1>1. _connected' = _connected /\ dial' = dial /\ socks' = socks /\ dials' = dials
  BY DEF called
<1>2. /\ pc' \in {"idle", "resolve", "socket", "connect", "wait", "finish", "first", "write",
                  "read", "crashed"}
      /\ pc' \notin Dialling
  BY DEF ClientTypeOK, Dialling, Calling
<1>3. call' \in [method : Method \cup {"none"}, number : Nat]
  BY DEF ClientTypeOK, NoCall
<1>4. ClientTypeOK'
  BY <1>1, <1>2, <1>3 DEF ClientTypeOK, NetOK, LogOK, Outcomes
<1>5. pc' \in Calling => _connected /\ call'.method \in Method
  BY DEF SocketInv, Calling
<1>6. SocketInv'
  <2>1. /\ ctx.fd => ctx.live
        /\ _connected => ctx.live
        /\ socks = IF ctx.fd THEN 1 ELSE 0
        /\ _connected /\ net.state = "none" => ctx.err # "none" \/ dial.reuse
    BY DEF SocketInv
  <2>2. /\ pc' \notin {"resolve", "socket"} /\ pc' \notin {"connect", "wait", "finish"}
    BY <1>2 DEF Dialling
  <2>3. QED
    BY <1>1, <1>2, <1>5, <2>1, <2>2 DEF SocketInv
<1>7. QED
  BY <1>4, <1>6

\* What a step outside a call leaves typed.
LEMMA StillTyped ==
    ASSUME ClientTypeOK
    PROVE  /\ ContextOK(ctx) /\ NetOK(net) /\ LogOK(log) /\ ret.value \in Outcomes
           /\ given \in Seq(Method) /\ faults \in 0..MaxFault
  BY DEF ClientTypeOK, NetOK, LogOK, Outcomes

\* A method called without a connection.
LEMMA NotConnectedKeeps ==
    ASSUME ClientInv, NotConnected
    PROVE  ClientInv'
<1>1. /\ ClientTypeOK /\ SocketInv /\ SentOnce
      /\ UNCHANGED <<ctx, pc, call, net, given, faults, log, called>> /\ pc \notin Dialling
  BY DEF ClientInv, NotConnected, Dialling
<1>2. ret'.value \in Outcomes
  BY DEF NotConnected, NoRet, Outcomes
<1>3. ClientTypeOK' /\ SocketInv'
  BY <1>1, <1>2, StillTyped, CallStep
<1>4. SentOnce'
  BY <1>1, SentStays
<1>5. QED
  BY <1>3, <1>4 DEF ClientInv

\* A command goes to the end of the output buffer, and of the list of commands
\* (hiredis.c:960-971).
LEMMA GiveKeeps ==
    ASSUME ClientInv, NEW method \in Method, Append_(method)
    PROVE  ClientInv'
<1>1. ClientTypeOK /\ SocketInv /\ SentOnce
  BY DEF ClientInv
<1>2. PICK k \in Nat : k = Len(given) + 1
  <2>1. given \in Seq(Method)
    BY <1>1 DEF ClientTypeOK
  <2>2. Len(given) + 1 \in Nat
    BY <2>1
  <2>3. QED
    BY <2>2
<1>3. /\ pc = "idle" /\ _connected
      /\ given' = Append(given, method)
      /\ ctx' = [ctx EXCEPT !.obuf = @ \o Command(k)]
      /\ log' = [log EXCEPT !.asked = Append(@, k)]
      /\ IF method = "raw" THEN UNCHANGED <<pc, call>>
         ELSE pc' = "first" /\ call' = [method |-> method, number |-> k]
      /\ UNCHANGED <<ret, net, faults, called>>
  BY <1>2 DEF Append_
<1>4. PICK c \in Seq(Nat) : c = Command(k)
  <2>1. Command(k) \in Seq(Nat)
    BY ClientAssumption DEF Command
  <2>2. QED
    BY <2>1
<1>5. PICK b \in Seq(Nat) : b = ctx.obuf \o c
  <2>1. ctx.obuf \o c \in Seq(Nat)
    BY <1>1, <1>4, Fields, ConcatProperties
  <2>2. QED
    BY <2>1
<1>6. PICK a \in Seq(Nat) : a = Append(log.asked, k)
  <2>1. Append(log.asked, k) \in Seq(Nat)
    BY <1>1, Fields, AppendProperties
  <2>2. QED
    BY <2>1
<1>7. ctx' = [ctx EXCEPT !.obuf = b] /\ log' = [log EXCEPT !.asked = a]
  BY <1>3, <1>4, <1>5, <1>6
<1>8. /\ ContextOK(ctx') /\ ctx'.live = ctx.live /\ ctx'.fd = ctx.fd /\ ctx'.err = ctx.err
      /\ ctx'.obuf = b
  BY <1>1, <1>7 DEF ClientTypeOK, ContextOK
<1>9. LogOK(log') /\ log'.asked = a /\ log'.sent = log.sent
  BY <1>1, <1>7 DEF ClientTypeOK, LogOK
<1>10. given' \in Seq(Method)
  BY <1>1, <1>3 DEF ClientTypeOK
<1>11. \/ pc' = pc /\ call' = call
       \/ pc' \in Calling /\ _connected /\ call' \in [method : Method, number : Nat]
  BY <1>3 DEF Calling
<1>12. ClientTypeOK' /\ SocketInv'
  <2>1. pc \notin Dialling /\ UNCHANGED <<ret, net, faults, called>>
    BY <1>3 DEF Dialling
  <2>2. QED
    BY <1>1, <1>8, <1>9, <1>10, <1>11, <2>1, StillTyped, CallStep
<1>13. SentOnce'
  <2>1. ctx.live
    BY <1>1, <1>3 DEF SocketInv
  <2>2. PICK s \in Seq(Nat), q \in Seq(Nat), w \in Seq(Nat) :
          s = log.sent /\ q = ctx.obuf /\ w = log.asked
    BY <1>1, Fields
  <2>3. s \o q \in Seq(Nat) /\ CommandBytes(s \o q, w)
    BY <1>1, <2>1, <2>2, ConcatProperties DEF SentOnce
  <2>4. CommandBytes((s \o q) \o Command(k), Append(w, k))
    BY <2>3, CommandAppended
  <2>5. (s \o q) \o c = s \o (q \o c)
    BY Associative, SMTT(60)
  <2>6. CommandBytes(s \o b, a)
    BY <1>4, <1>5, <1>6, <2>2, <2>4, <2>5
  <2>7. log'.sent = s /\ ctx'.obuf = b /\ log'.asked = a
    BY <1>8, <1>9, <2>2
  <2>8. QED
    BY <2>6, <2>7 DEF SentOnce
<1>14. QED
  BY <1>12, <1>13 DEF ClientInv

\* The reply of an earlier command is asked for.
LEMMA GetReplyKeeps ==
    ASSUME ClientInv, redisGetReply
    PROVE  ClientInv'
<1>1. /\ ClientTypeOK /\ SocketInv /\ SentOnce
      /\ UNCHANGED <<ctx, ret, net, given, faults, log, called>> /\ pc \notin Dialling
      /\ _connected /\ pc' \in Calling
  BY DEF ClientInv, redisGetReply, Dialling, Calling
<1>2. PICK n \in Nat : n = Len(log.got)
  BY <1>1, LenProperties DEF ClientTypeOK
<1>3. PICK w \in Seq(Nat) : w = log.asked
  BY <1>1, Fields
<1>4. n < Len(w) /\ call' = [method |-> "raw", number |-> w[n + 1]] /\ "raw" \in Method
  BY <1>2, <1>3 DEF redisGetReply
<1>5. w[n + 1] \in Nat
  <2>1. n + 1 \in 1..Len(w)
    BY <1>4
  <2>2. QED
    BY <2>1, ElementOfSeq
<1>6. call' \in [method : Method, number : Nat]
  BY <1>4, <1>5
<1>7. ClientTypeOK' /\ SocketInv'
  BY <1>1, <1>6, StillTyped, CallStep
<1>8. SentOnce'
  BY <1>1, SentStays
<1>9. QED
  BY <1>7, <1>8 DEF ClientInv

\* Asking the reader before and after a read.
LEMMA AskKeeps ==
    ASSUME ClientInv, pc \in Calling, NEW reader, NEW otherwise \in {"write", "read"},
           FromReader(reader, otherwise),
           NetOK(net'), net'.state = net.state, UNCHANGED <<given, faults, called>>
    PROVE  ClientInv'
<1>1. /\ ClientTypeOK /\ SocketInv /\ SentOnce /\ _connected
      /\ call.method \in Method /\ pc \notin Dialling
  BY DEF ClientInv, SocketInv, Calling, Dialling
<1>2. /\ ContextOK(ctx') /\ ctx'.live = ctx.live /\ ctx'.fd = ctx.fd /\ ctx'.obuf = ctx.obuf
      /\ ctx'.err # "none" \/ ctx'.err = ctx.err
      /\ LogOK(log') /\ log'.sent = log.sent /\ log'.asked = log.asked
      /\ \/ pc' = otherwise /\ call' = call /\ ret' = ret
         \/ pc' \in {"idle", "crashed"} /\ call' = NoCall /\ ret'.value \in Outcomes
  BY <1>1, ReaderAsked
<1>3. call \in [method : Method, number : Nat]
  BY <1>1 DEF ClientTypeOK
<1>4. otherwise \in Calling
  BY DEF Calling
<1>5. /\ ret'.value \in Outcomes
      /\ \/ pc' \in {"idle", "crashed"} /\ call' = NoCall
         \/ pc' \in Calling /\ _connected /\ call' \in [method : Method, number : Nat]
  BY <1>1, <1>2, <1>3, <1>4, StillTyped
<1>6. ClientTypeOK' /\ SocketInv'
  <2>1. given' \in Seq(Method) /\ faults' \in 0..MaxFault /\ UNCHANGED called
    BY <1>1, StillTyped
  <2>2. QED
    BY <1>1, <1>2, <1>5, <2>1, CallStep
<1>7. SentOnce'
  BY <1>1, <1>2, SentStays
<1>8. QED
  BY <1>6, <1>7 DEF ClientInv

\* The thread looks for a reply that is already there (hiredis.c:927-932).
LEMMA FirstKeeps ==
    ASSUME ClientInv, First
    PROVE  ClientInv'
<1>1. pc \in Calling /\ FromReader(ctx.reader, "write") /\ UNCHANGED <<net, given, faults, called>>
  BY DEF First, Calling
<1>2. NetOK(net') /\ net'.state = net.state
  BY <1>1, StillTyped DEF ClientInv
<1>3. QED
  BY <1>1, <1>2, AskKeeps

\* Bytes arrive (hiredis.c:860-880).
LEMMA ReadKeeps ==
    ASSUME ClientInv, Read
    PROVE  ClientInv'
<1>1. PICK z, r : /\ net' = [net EXCEPT !.toClient = z] /\ FromReader(r, "read")
                  /\ UNCHANGED <<given, faults, called>> /\ pc = "read"
  BY DEF Read
<1>2. NetOK(net') /\ net'.state = net.state
  BY <1>1 DEF ClientInv, ClientTypeOK, NetOK
<1>3. pc \in Calling
  BY <1>1 DEF Calling
<1>4. QED
  BY <1>1, <1>2, <1>3, AskKeeps

\* send() takes the first k bytes of the buffer: they are sent, the others stay
\* (hiredis.c:890-911).
LEMMA WriteKeeps ==
    ASSUME ClientInv, Write
    PROVE  ClientInv'
<1>1. /\ ClientTypeOK /\ SocketInv /\ SentOnce /\ pc \notin Dialling
      /\ UNCHANGED <<pc, call, ret, given, faults, called>>
  BY DEF ClientInv, Write, Dialling
<1>2. PICK s \in Seq(Nat), o \in Seq(Nat), w \in Seq(Nat) :
        s = log.sent /\ o = ctx.obuf /\ w = log.asked
  BY <1>1, Fields
<1>3. PICK k \in 1..Len(o) :
        Sent(SubSeq(o, 1, k)) /\ ctx' = [ctx EXCEPT !.obuf = SubSeq(o, k + 1, Len(o))]
  BY <1>2 DEF Write
<1>4. k \in Nat /\ k <= Len(o)
  BY <1>3
<1>5. PICK h \in Seq(Nat), z \in Seq(Nat) :
        /\ h = SubSeq(o, 1, k) /\ z = SubSeq(o, k + 1, Len(o))
        /\ (s \o h) \o z = s \o o
  <2>1. /\ SubSeq(o, 1, k) \in Seq(Nat) /\ SubSeq(o, k + 1, Len(o)) \in Seq(Nat)
        /\ (s \o SubSeq(o, 1, k)) \o SubSeq(o, k + 1, Len(o)) = s \o o
    BY <1>4, Move
  <2>2. QED
    BY <2>1, Zenon
<1>6. PICK x \in Seq(Nat) : x = s \o h
  <2>1. s \o h \in Seq(Nat)
    BY <1>2, <1>5, ConcatProperties
  <2>2. QED
    BY <2>1, Zenon
<1>7. ctx' = [ctx EXCEPT !.obuf = z] /\ log' = [log EXCEPT !.sent = x]
  BY <1>2, <1>3, <1>5, <1>6 DEF Sent
<1>8. PICK y : net' = [net EXCEPT !.toServer = y]
  BY <1>3 DEF Sent
<1>9. NetOK(net') /\ net'.state = net.state
  BY <1>1, <1>8 DEF ClientTypeOK, NetOK
<1>10. /\ ContextOK(ctx') /\ ctx'.live = ctx.live /\ ctx'.fd = ctx.fd /\ ctx'.err = ctx.err
       /\ ctx'.obuf = z
  BY <1>1, <1>7 DEF ClientTypeOK, ContextOK
<1>11. LogOK(log') /\ log'.sent = x /\ log'.asked = w
  BY <1>1, <1>2, <1>7 DEF ClientTypeOK, LogOK
<1>12. ClientTypeOK' /\ SocketInv'
  BY <1>1, <1>9, <1>10, <1>11, StillTyped, CallStep
<1>13. SentOnce'
  <2>1. ctx.live => CommandBytes(s \o o, w)
    BY <1>1, <1>2 DEF SentOnce
  <2>2. log'.sent \o ctx'.obuf = s \o o /\ log'.asked = w /\ ctx'.live = ctx.live
    BY <1>5, <1>6, <1>10, <1>11
  <2>3. QED
    BY <2>1, <2>2 DEF SentOnce
<1>14. QED
  BY <1>12, <1>13 DEF ClientInv

\* A call that ends without a reply, with or without an error of the context.
LEMMA NoReplyKeeps ==
    ASSUME ClientInv, pc \in Calling, Return(NoReply),
           NEW e \in Error, e # "none" \/ e = ctx.err, ctx' = [ctx EXCEPT !.err = e],
           LogOK(log'), log'.sent = log.sent, log'.asked = log.asked,
           UNCHANGED <<net, given, called>>, faults' \in 0..MaxFault
    PROVE  ClientInv'
<1>1. /\ ClientTypeOK /\ SocketInv /\ SentOnce /\ pc \notin Dialling /\ call.method \in Method
  BY DEF ClientInv, SocketInv, Calling, Dialling
<1>2. ret'.value \in Outcomes /\ call' = NoCall /\ pc' \in {"idle", "crashed"}
  BY <1>1, ReturnEnds
<1>3. /\ ContextOK(ctx') /\ ctx'.live = ctx.live /\ ctx'.fd = ctx.fd /\ ctx'.err = e
      /\ ctx'.obuf = ctx.obuf
  BY <1>1 DEF ClientTypeOK, ContextOK
<1>4. ClientTypeOK' /\ SocketInv'
  BY <1>1, <1>2, <1>3, StillTyped, CallStep
<1>5. SentOnce'
  BY <1>1, <1>3, SentStays
<1>6. QED
  BY <1>4, <1>5 DEF ClientInv

\* A failing socket call is counted up to its bound.
LEMMA FaultCounted ==
    ASSUME ClientTypeOK, Fault
    PROVE  faults' \in 0..MaxFault
<1>1. faults \in 0..MaxFault /\ MaxFault \in Nat
  BY ClientAssumption DEF ClientTypeOK
<1>2. faults' = faults \/ (faults < MaxFault /\ faults' = faults + 1)
  BY DEF Fault
<1>3. QED
  BY <1>1, <1>2

\* A context that stays as it is.
LEMMA SameError ==
    ASSUME ClientTypeOK, ctx' = ctx
    PROVE  ctx' = [ctx EXCEPT !.err = ctx.err] /\ ctx.err \in Error
  BY DEF ClientTypeOK, ContextOK

\* send() fails or is interrupted (net.c:82-93).
LEMMA WriteFailsKeeps ==
    ASSUME ClientInv, WriteFails
    PROVE  ClientInv'
<1>1. /\ ClientTypeOK /\ pc \in Calling /\ Return(NoReply) /\ UNCHANGED <<net, given, called>>
      /\ Fault
  BY DEF ClientInv, WriteFails, Calling
<1>2. faults' \in 0..MaxFault
  BY <1>1, FaultCounted
<1>3. CASE ctx' = [ctx EXCEPT !.err = "io"] /\ log' = log
  <2>1. LogOK(log')
    BY <1>1, <1>3, StillTyped
  <2>2. "io" \in Error
    BY DEF Error
  <2>3. QED
    BY <1>1, <1>2, <1>3, <2>1, <2>2, NoReplyKeeps
<1>4. CASE log' = [log EXCEPT !.interrupted = TRUE] /\ ctx' = ctx
  <2>1. LogOK(log') /\ log'.sent = log.sent /\ log'.asked = log.asked
    BY <1>1, <1>4 DEF ClientTypeOK, LogOK
  <2>2. ctx' = [ctx EXCEPT !.err = ctx.err] /\ ctx.err \in Error
    BY <1>1, <1>4, SameError
  <2>3. QED
    BY <1>1, <1>2, <2>1, <2>2, NoReplyKeeps
<1>5. QED
  BY <1>3, <1>4 DEF WriteFails

\* A context with an error (hiredis.c:892-894).
LEMMA LatchedKeeps ==
    ASSUME ClientInv, ErrorLatched
    PROVE  ClientInv'
<1>1. /\ ClientTypeOK /\ pc \in Calling /\ Return(NoReply) /\ UNCHANGED <<net, given, called>>
      /\ log' = log /\ faults' = faults /\ ctx' = ctx
  BY DEF ClientInv, ErrorLatched, Calling
<1>2. LogOK(log') /\ faults' \in 0..MaxFault
  BY <1>1, StillTyped
<1>3. ctx' = [ctx EXCEPT !.err = ctx.err] /\ ctx.err \in Error
  BY <1>1, SameError
<1>4. QED
  BY <1>1, <1>2, <1>3, NoReplyKeeps

\* recv() fails, times out, or finds the connection closed (net.c:60-80).
LEMMA ReadFailsKeeps ==
    ASSUME ClientInv, ReadFails
    PROVE  ClientInv'
<1>1. /\ ClientTypeOK /\ pc \in Calling /\ Return(NoReply) /\ UNCHANGED <<net, given, called>>
      /\ log' = log
  BY DEF ClientInv, ReadFails, Calling
<1>2. PICK e \in {"eof", "io", "timeout"} :
        ctx' = [ctx EXCEPT !.err = e] /\ (faults' = faults \/ Fault)
  BY DEF ReadFails
<1>3. LogOK(log') /\ faults' \in 0..MaxFault
  BY <1>1, <1>2, StillTyped, FaultCounted
<1>4. e \in Error /\ e # "none"
  BY <1>2 DEF Error
<1>5. QED
  BY <1>1, <1>2, <1>3, <1>4, NoReplyKeeps

\* Everything is sent; the server answers or closes.
LEMMA OthersKeep ==
    ASSUME ClientInv, Written \/ ServerAnswers \/ ServerCloses
    PROVE  ClientInv'
<1>1. /\ ClientTypeOK /\ SocketInv /\ SentOnce
      /\ UNCHANGED <<ctx, call, ret, given, faults, log, called>>
  BY DEF ClientInv, Written, ServerAnswers, ServerCloses
<1>2. pc \notin Dialling
  BY <1>1 DEF Written, ServerAnswers, ServerCloses, SocketInv, Dialling
<1>3. NetOK(net') /\ (net'.state = "none" => net.state = "none")
  <2>1. CASE Written
    BY <1>1, <2>1, StillTyped DEF Written
  <2>2. CASE ServerAnswers
    <3>1. PICK x, y : net' = [net EXCEPT !.toServer = x, !.toClient = y]
      BY <2>2 DEF ServerAnswers
    <3>2. QED
      BY <1>1, <3>1 DEF ClientTypeOK, NetOK
  <2>3. CASE ServerCloses
    BY <1>1, <2>3 DEF ServerCloses, ClientTypeOK, NetOK
  <2>4. QED
    BY <2>1, <2>2, <2>3
<1>4. \/ pc' = pc /\ call' = call
      \/ pc' \in Calling /\ _connected /\ call' \in [method : Method, number : Nat]
  <2>1. CASE Written
    BY <1>1, <2>1 DEF Written, Calling, SocketInv, ClientTypeOK
  <2>2. CASE ServerAnswers \/ ServerCloses
    BY <2>2 DEF ServerAnswers, ServerCloses
  <2>3. QED
    BY <2>1, <2>2
<1>5. ClientTypeOK' /\ SocketInv'
  BY <1>1, <1>2, <1>3, <1>4, StillTyped, CallStep
<1>6. SentOnce'
  BY <1>1, SentStays
<1>7. QED
  BY <1>5, <1>6 DEF ClientInv

-----------------------------------------------------------------------------
\* The invariant

LEMMA ClientInvHolds == Spec => []ClientInv
<1>1. ASSUME ClientInv, [Next]_vars
      PROVE  ClientInv'
  <2>1. CASE connect \/ disConnect \/ redisReconnect
    BY <1>1, <2>1, OpenKeeps
  <2>2. CASE NotConnected
    BY <1>1, <2>2, NotConnectedKeeps
  <2>3. CASE Give
    BY <1>1, <2>3, GiveKeeps DEF Give
  <2>4. CASE redisGetReply
    BY <1>1, <2>4, GetReplyKeeps
  <2>5. CASE Resolve
    BY <1>1, <2>5, ResolveKeeps
  <2>6. CASE Socket
    BY <1>1, <2>6, SocketKeeps
  <2>7. CASE Connect
    BY <1>1, <2>7, ConnectKeeps
  <2>8. CASE WaitReady \/ Finish
    BY <1>1, <2>8, FinishKeeps
  <2>9. CASE First
    BY <1>1, <2>9, FirstKeeps
  <2>10. CASE Write
    BY <1>1, <2>10, WriteKeeps
  <2>11. CASE WriteFails
    BY <1>1, <2>11, WriteFailsKeeps
  <2>12. CASE ErrorLatched
    BY <1>1, <2>12, LatchedKeeps
  <2>13. CASE Read
    BY <1>1, <2>13, ReadKeeps
  <2>14. CASE ReadFails
    BY <1>1, <2>14, ReadFailsKeeps
  <2>15. CASE Written \/ ServerAnswers \/ ServerCloses
    BY <1>1, <2>15, OthersKeep
  <2>16. CASE UNCHANGED vars
    <3>1. /\ UNCHANGED <<ctx, _connected, pc, call, dial, ret, socks, net, given, dials, faults, log>>
          /\ ClientTypeOK /\ SocketInv /\ SentOnce
      BY <1>1, <2>16 DEF vars, ClientInv
    <3>2. ClientTypeOK'
      BY <3>1 DEF ClientTypeOK, ContextOK
    <3>3. SocketInv'
      BY <3>1 DEF SocketInv
    <3>4. SentOnce'
      BY <3>1, SentStays
    <3>5. QED
      BY <3>2, <3>3, <3>4 DEF ClientInv
  <2>17. QED
    BY <1>1, <2>1, <2>2, <2>3, <2>4, <2>5, <2>6, <2>7, <2>8, <2>9, <2>10, <2>11, <2>12, <2>13,
       <2>14, <2>15, <2>16 DEF Next, Progress
<1>2. QED
  BY InitClient, <1>1, PTL DEF Spec

\* The types of the client's state, whatever arrives from the network and however the
\* reader fares with it.
THEOREM ClientTypeCorrectness == Spec => []ClientTypeOK
<1>1. ClientInv => ClientTypeOK
  BY DEF ClientInv
<1>2. QED
  BY <1>1, ClientInvHolds, PTL

\* The process has exactly the socket its context holds, on every path through
\* redisContextConnectTcp, its retries and its failures (net.c:335-502), through
\* redisReconnect and CRedisConn::connect (hiredis.c:707-736, CRedisConn.h:114-165); and
\* an attempt that made no connection leaves an error, unless the address is bound again.
THEOREM SocketsAccountedHolds == Spec => []SocketsAccounted
<1>1. ClientInv => SocketsAccounted
  <2>1. SUFFICES ASSUME ClientInv
                 PROVE  SocketsAccounted
    OBVIOUS
  <2>2. SocketInv
    BY <2>1 DEF ClientInv
  <2>3. QED
    BY <2>2 DEF SocketInv, SocketsAccounted, Dialling
<1>2. QED
  BY <1>1, ClientInvHolds, PTL

\* What was sent and what is left in the output buffer are the bytes of the commands
\* given on this connection, each once and in order, whatever part of the buffer a send()
\* takes, whether it fails or is interrupted (hiredis.c:890-911), and however commands are
\* appended in between (hiredis.c:960-971).
THEOREM SentOnceHolds == Spec => []SentOnce
<1>1. ClientInv => SentOnce
  BY DEF ClientInv
<1>2. QED
  BY <1>1, ClientInvHolds, PTL

=============================================================================
