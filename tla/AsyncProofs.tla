---------------------------- MODULE AsyncProofs ----------------------------
(***************************************************************************)
(* The asynchronous context is never freed under a callback or the library *)
(* and loses no callback, for every set of commands and subscriptions and  *)
(* every number of commands and of failures.                               *)
(***************************************************************************)
EXTENDS AsyncContext, SequenceTheorems, TLAPS

\* a sequence, of whatever
IsSeq(q) == q \in Seq(ToSet(q))

\* a context has the fields of NewContext, and queues of callbacks
ContextOK(a) ==
    /\ a = [live |-> a.live, flags |-> a.flags, err |-> a.err, replies |-> a.replies,
            invalid |-> a.invalid, subs |-> a.subs, obuf |-> a.obuf, inbuf |-> a.inbuf, ev |-> a.ev]
    /\ IsSeq(a.replies) /\ IsSeq(a.invalid)

FrameOK(f) ==
    /\ f = [at |-> f.at, cb |-> f.cb, iter |-> f.iter, phase |-> f.phase]
    /\ f.at \in {"process", "timeout", "free"}
    /\ f.phase \in 1..4

\* the library is in one of its loops, with a callback on top or without one
InLibrary(s) == s = <<s[1]>> /\ FrameOK(s[1])
InCallback(s) == s = <<s[1], Frame("callback")>> /\ FrameOK(s[1])

\* what the library is in the middle of, and the flag that tells a callback from
\* the rest; nothing runs on a context that is gone
StackOK(a, s) ==
    \/ s = << >> /\ ~Has(a, "inCallback")
    \/ s = <<Frame("aborted")>> /\ ~Has(a, "inCallback") /\ a.live
    \/ InLibrary(s) /\ ~Has(a, "inCallback") /\ a.live
    \/ InCallback(s) /\ Has(a, "inCallback") /\ a.live

Freeing(s) == s # << >> /\ s[1].at = "free"

\* a context that is being freed takes no command, so what a phase of the freeing
\* has emptied stays empty.  A timeout has left an error
FreeingOK(a, s, u) ==
    /\ s # << >> /\ s[1].at = "timeout" => a.err
    /\ Freeing(s) => /\ a.flags \cap {"disconnecting", "freeing"} # {} \/ u
                     /\ s[1].phase >= 2 => a.replies = << >>
                     /\ s[1].phase >= 3 => a.invalid = << >>

\* the commands whose callback waits
InQueue(q, n) == \E k \in DOMAIN q : q[k].fn = n
Waits(a, n) == InQueue(a.replies, n) \/ InQueue(a.invalid, n)

IsRegular(g, n) == g[n].kind = "get"

\* the callback of a regular command has run or waits
HeldOK(a, s, g, r) ==
    s = <<Frame("aborted")>> \/ \A n \in DOMAIN g : IsRegular(g, n) => n \in ToSet(r) \/ (a.live /\ Waits(a, n))

\* the inductive invariant
AsyncInv ==
    /\ ContextOK(ac) /\ IsSeq(given) /\ IsSeq(ran) /\ unforeseen \in BOOLEAN
    /\ StackOK(ac, stack)
    /\ FreeingOK(ac, stack, unforeseen)
    /\ HeldOK(ac, stack, given, ran)
-----------------------------------------------------------------------------
\* Sequences and the stack

\* A sequence has a length and is its elements.
LEMMA SeqShape ==
    ASSUME NEW q, IsSeq(q)
    PROVE  /\ Len(q) \in Nat /\ DOMAIN q = 1..Len(q) /\ q = [i \in 1..Len(q) |-> q[i]]
           /\ q # << >> <=> Len(q) # 0
  BY EmptySeq, LenProperties DEF IsSeq

\* Any sequence is one of its own elements.
LEMMA SeqIsSeq ==
    ASSUME NEW S, NEW q \in Seq(S)
    PROVE  IsSeq(q)
<1>1. PICK n \in Nat : n = Len(q) /\ DOMAIN q = 1..n /\ q = [i \in 1..n |-> q[i]]
  BY LenProperties
<1>2. \A i \in 1..n : q[i] \in ToSet(q)
  BY <1>1 DEF ToSet
<1>3. QED
  BY <1>1, <1>2 DEF IsSeq

\* Appending to a sequence.
LEMMA AppendShape ==
    ASSUME NEW q, IsSeq(q), NEW e
    PROVE  /\ IsSeq(Append(q, e)) /\ ToSet(Append(q, e)) = ToSet(q) \cup {e}
           /\ DOMAIN Append(q, e) = 1..Len(q) + 1
           /\ \A i \in 1..Len(q) : Append(q, e)[i] = q[i]
           /\ Append(q, e)[Len(q) + 1] = e
<1>1. PICK S : S = ToSet(q) \cup {e}
  OBVIOUS
<1>2. q \in Seq(S) /\ e \in S
  BY <1>1, SeqMonotonic DEF IsSeq
<1>3. Append(q, e) \in Seq(S)
  BY <1>2, AppendProperties
<1>4. /\ Len(q) \in Nat /\ DOMAIN q = 1..Len(q)
      /\ DOMAIN Append(q, e) = 1..Len(q) + 1
      /\ \A i \in 1..Len(q) : Append(q, e)[i] = q[i]
      /\ Append(q, e)[Len(q) + 1] = e
  BY <1>2, SeqShape, AppendProperties, LenProperties
<1>5. ToSet(Append(q, e)) = ToSet(q) \cup {e}
  BY <1>4 DEF ToSet
<1>6. QED
  BY <1>3, <1>4, <1>5, SeqIsSeq

\* The tail of a sequence has every element but the head.
LEMMA TailShape ==
    ASSUME NEW q, IsSeq(q), q # << >>
    PROVE  /\ IsSeq(Tail(q))
           /\ \A k \in DOMAIN q : q[k] = Head(q) \/ \E j \in DOMAIN Tail(q) : Tail(q)[j] = q[k]
<1>1. PICK S : S = ToSet(q)
  OBVIOUS
<1>2. q \in Seq(S)
  BY <1>1 DEF IsSeq
<1>3. Tail(q) \in Seq(S) /\ Len(Tail(q)) = Len(q) - 1 /\ Head(q) = q[1]
      /\ \A i \in 1..Len(q) - 1 : Tail(q)[i] = q[i + 1]
  BY <1>2, HeadTailProperties
<1>4. DOMAIN Tail(q) = 1..Len(q) - 1 /\ DOMAIN q = 1..Len(q) /\ Len(q) \in Nat
  BY <1>2, <1>3, LenProperties
<1>5. ASSUME NEW k \in DOMAIN q, k # 1
      PROVE  k - 1 \in DOMAIN Tail(q) /\ Tail(q)[k - 1] = q[k]
  <2>1. k \in 1..Len(q) /\ k - 1 \in 1..Len(q) - 1
    BY <1>4, <1>5
  <2>2. QED
    BY <1>3, <1>4, <2>1
<1>6. QED
  BY <1>3, <1>4, <1>5, SeqIsSeq

\* A sequence of one or two elements.
LEMMA ShortSeq ==
    ASSUME NEW S, NEW q \in Seq(S)
    PROVE  /\ Len(q) = 1 => q = <<q[1]>>
           /\ Len(q) = 2 => q = <<q[1], q[2]>>
<1>1. CASE Len(q) = 1
  BY <1>1
<1>2. CASE Len(q) = 2
  <2>1. q = [i \in 1..2 |-> q[i]]
    BY <1>2, LenProperties
  <2>2. QED
    BY <1>2, <2>1
<1>3. QED
  BY <1>1, <1>2

\* A frame pushed on another.
LEMMA PushTwo ==
    ASSUME NEW f, NEW g
    PROVE  Append(<<f>>, g) = <<f, g>>
<1>1. PICK t : t = Append(<<f>>, g)
  OBVIOUS
<1>2. t \in Seq({f, g}) /\ Len(t) = 2 /\ t[1] = f /\ t[2] = g
  BY <1>1, AppendProperties
<1>3. QED
  BY <1>1, <1>2, ShortSeq

\* The frames of the library.
LEMMA StackShape ==
    ASSUME NEW f, NEW g
    PROVE  /\ Front(<<f>>) = << >> /\ Last(<<f>>) = f /\ <<f>> # << >> /\ <<f>>[1] = f
           /\ Front(<<f, g>>) = <<f>> /\ Last(<<f, g>>) = g /\ <<f, g>> # << >> /\ <<f, g>>[1] = f
           /\ Append(<< >>, f) = <<f>>
           /\ <<f>> # <<f, g>> /\ Len(<<f>>) = 1 /\ Len(<<f, g>>) = 2
           /\ [<<f>> EXCEPT ![1] = g] = <<g>>
<1>1. /\ <<f>> # << >> /\ <<f>>[1] = f /\ Len(<<f>>) = 1
      /\ <<f, g>> # << >> /\ <<f, g>>[1] = f /\ <<f, g>>[2] = g /\ Len(<<f, g>>) = 2
  OBVIOUS
<1>2. <<f>> # <<f, g>>
  BY <1>1
<1>3. Last(<<f>>) = f /\ Last(<<f, g>>) = g
  BY <1>1 DEF Last
<1>4. <<f>> \in Seq({f, g}) /\ <<f, g>> \in Seq({f, g}) /\ << >> \in Seq({f, g})
  OBVIOUS
<1>5. Front(<<f>>) = << >> /\ Front(<<f, g>>) = <<f>>
  <2>1. SubSeq(<<f>>, 1, 0) = << >>
    BY SubSeqEmpty
  <2>2. SubSeq(<<f, g>>, 1, 1) = <<f>>
    <3>1. PICK t : t = SubSeq(<<f, g>>, 1, 1)
      OBVIOUS
    <3>2. \A i \in 1..1 : <<f, g>>[i] \in {f, g}
      BY <1>1
    <3>3. t \in Seq({f, g}) /\ Len(t) = 1 /\ t[1] = f
      BY <1>1, <3>1, <3>2, SubSeqProperties
    <3>4. QED
      BY <3>1, <3>3, ShortSeq
  <2>3. QED
    BY <1>1, <2>1, <2>2 DEF Front
<1>6. Append(<< >>, f) = <<f>>
  OBVIOUS
<1>7. [<<f>> EXCEPT ![1] = g] = <<g>>
  OBVIOUS
<1>8. QED
  BY <1>1, <1>2, <1>3, <1>5, <1>6, <1>7, Zenon

\* What the stack of an aborted program holds.
LEMMA AbortedFrame == <<Frame("aborted")>>[1].at = "aborted"
<1>1. PICK f : f = Frame("aborted")
  OBVIOUS
<1>2. f.at = "aborted"
  BY <1>1 DEF Frame
<1>3. <<f>>[1] = f
  BY StackShape, Zenon
<1>4. QED
  BY <1>1, <1>2, <1>3, Zenon

\* A frame that runs is not the end of an aborted program.
LEMMA NotAborted ==
    ASSUME Top.at # "aborted"
    PROVE  stack # <<Frame("aborted")>>
<1>1. PICK f : f = Frame("aborted")
  OBVIOUS
<1>2. f.at = "aborted"
  BY <1>1 DEF Frame
<1>3. stack = <<f>> => Top = f
  BY StackShape, Zenon DEF Top
<1>4. QED
  BY <1>1, <1>2, <1>3

\* What runs, for each form of the stack.
LEMMA TopCases ==
    ASSUME AsyncInv
    PROVE  /\ Top.at = "loop" => stack = << >> /\ ~Has(ac, "inCallback")
           /\ Top.at = "callback" => InCallback(stack) /\ Has(ac, "inCallback") /\ Front(stack) = <<stack[1]>>
           /\ Top.at \in {"process", "timeout", "free"} =>
                 /\ InLibrary(stack) /\ ~Has(ac, "inCallback") /\ Top = stack[1] /\ Front(stack) = << >>
                 /\ Len(stack) = 1
           /\ Aborted => stack = <<Frame("aborted")>>
<1>1. /\ Frame("callback").at = "callback" /\ Frame("aborted").at = "aborted"
      /\ Frame("loop").at = "loop"
  BY DEF Frame
<1>2. CASE stack = << >> /\ ~Has(ac, "inCallback")
  BY <1>1, <1>2 DEF Top, Aborted
<1>3. CASE stack = <<Frame("aborted")>> /\ ~Has(ac, "inCallback")
  <2>1. Top = Frame("aborted")
    BY <1>3, StackShape, Zenon DEF Top
  <2>2. QED
    BY <1>1, <1>3, <2>1 DEF Aborted
<1>4. CASE InLibrary(stack) /\ ~Has(ac, "inCallback")
  <2>1. Top = stack[1] /\ Front(stack) = << >> /\ Len(stack) = 1
    BY <1>4, StackShape, Zenon DEF Top, InLibrary
  <2>2. QED
    BY <1>4, <2>1 DEF InLibrary, FrameOK, Aborted
<1>5. CASE InCallback(stack) /\ Has(ac, "inCallback")
  <2>0. PICK f, g : f = stack[1] /\ g = Frame("callback") /\ stack = <<f, g>>
    BY <1>5 DEF InCallback
  <2>1. Top = Frame("callback") /\ Front(stack) = <<f>>
    <3>0. stack = <<f, g>>
      BY <2>0
    <3>1. stack # << >> /\ Last(stack) = g /\ Front(stack) = <<f>>
      BY <3>0, StackShape, Zenon
    <3>2. QED
      BY <2>0, <3>1, Zenon DEF Top
  <2>2. QED
    BY <1>1, <1>5, <2>0, <2>1 DEF Aborted
<1>6. QED
  BY <1>2, <1>3, <1>4, <1>5 DEF AsyncInv, StackOK
-----------------------------------------------------------------------------
\* Changes of a context

\* A context with other flags.
LEMMA FlagsChanged ==
    ASSUME NEW a, ContextOK(a), NEW F
    PROVE  LET b == [a EXCEPT !.flags = F] IN
           /\ ContextOK(b) /\ b.flags = F /\ b.live = a.live /\ b.err = a.err
           /\ b.replies = a.replies /\ b.invalid = a.invalid
  BY DEF ContextOK

\* A context without the first of the callbacks that wait for replies.
LEMMA RepliesChanged ==
    ASSUME NEW a, ContextOK(a), NEW q, IsSeq(q)
    PROVE  LET b == [a EXCEPT !.replies = q] IN
           /\ ContextOK(b) /\ b.flags = a.flags /\ b.live = a.live /\ b.err = a.err
           /\ b.replies = q /\ b.invalid = a.invalid
  BY DEF ContextOK

\* A context with other callbacks of commands given while subscribed.
LEMMA InvalidChanged ==
    ASSUME NEW a, ContextOK(a), NEW q, IsSeq(q)
    PROVE  LET b == [a EXCEPT !.invalid = q] IN
           /\ ContextOK(b) /\ b.flags = a.flags /\ b.live = a.live /\ b.err = a.err
           /\ b.replies = a.replies /\ b.invalid = q
  BY DEF ContextOK

\* A context that has failed.
LEMMA ErrChanged ==
    ASSUME NEW a, ContextOK(a), NEW e
    PROVE  LET b == [a EXCEPT !.err = e] IN
           /\ ContextOK(b) /\ b.flags = a.flags /\ b.live = a.live /\ b.err = e
           /\ b.replies = a.replies /\ b.invalid = a.invalid
  BY DEF ContextOK

\* A context that has taken a reply out of its buffer.
LEMMA InbufChanged ==
    ASSUME NEW a, ContextOK(a), NEW q
    PROVE  LET b == [a EXCEPT !.inbuf = q] IN
           /\ ContextOK(b) /\ b.flags = a.flags /\ b.live = a.live /\ b.err = a.err
           /\ b.replies = a.replies /\ b.invalid = a.invalid
  BY DEF ContextOK

\* What waits in a context depends on its two queues.
LEMMA SameWaits ==
    ASSUME NEW a, NEW b, b.replies = a.replies, b.invalid = a.invalid, NEW n
    PROVE  Waits(b, n) <=> Waits(a, n)
  BY DEF Waits

\* A callback added to a queue waits, and those that did go on.
LEMMA CallbackAdded ==
    ASSUME NEW q, IsSeq(q), NEW cb
    PROVE  /\ IsSeq(Append(q, cb))
           /\ InQueue(Append(q, cb), cb.fn)
           /\ \A n : InQueue(q, n) => InQueue(Append(q, cb), n)
<1>1. /\ IsSeq(Append(q, cb)) /\ DOMAIN Append(q, cb) = 1..Len(q) + 1
      /\ \A i \in 1..Len(q) : Append(q, cb)[i] = q[i]
      /\ Append(q, cb)[Len(q) + 1] = cb
  BY AppendShape
<1>2. Len(q) \in Nat /\ DOMAIN q = 1..Len(q)
  BY SeqShape
<1>3. \A k \in DOMAIN q : k \in DOMAIN Append(q, cb) /\ Append(q, cb)[k].fn = q[k].fn
  BY <1>1, <1>2
<1>4. Len(q) + 1 \in DOMAIN Append(q, cb) /\ Append(q, cb)[Len(q) + 1].fn = cb.fn
  BY <1>1, <1>2
<1>5. QED
  BY <1>1, <1>3, <1>4, Zenon DEF InQueue

\* Every callback of a queue is its first or is left when that is taken.
LEMMA CallbackTaken ==
    ASSUME NEW q, IsSeq(q), q # << >>
    PROVE  /\ IsSeq(Tail(q))
           /\ \A n : InQueue(q, n) => n = Head(q).fn \/ InQueue(Tail(q), n)
<1>1. /\ IsSeq(Tail(q))
      /\ \A k \in DOMAIN q : q[k] = Head(q) \/ \E j \in DOMAIN Tail(q) : Tail(q)[j] = q[k]
  BY TailShape
<1>2. QED
  BY <1>1, Zenon DEF InQueue

-----------------------------------------------------------------------------
\* What the handlers share

\* __redisRunCallback on a context from which the callback was taken.
LEMMA CallbackRun ==
    ASSUME NEW a, NEW s, NEW cb, NEW reply,
           IsSeq(given), IsSeq(ran), unforeseen \in BOOLEAN,
           ContextOK(a), a.live, ~Has(a, "inCallback"), InLibrary(s), FreeingOK(a, s, unforeseen),
           \A n \in DOMAIN given : IsRegular(given, n) => n \in ToSet(ran) \/ n = cb.fn \/ Waits(a, n),
           given' = given, unforeseen' = unforeseen,
           RunCallback(a, s, cb, reply)
    PROVE  AsyncInv'
<1>1. CASE cb.fn = 0
  <2>1. ac' = a /\ stack' = s /\ ran' = ran
    BY <1>1 DEF RunCallback
  <2>2. \A n \in DOMAIN given : n # cb.fn
    BY <1>1, SeqShape
  <2>3. HeldOK(a, s, given, ran)
    BY <2>2 DEF HeldOK
  <2>4. StackOK(a, s)
    BY DEF StackOK
  <2>5. QED
    BY <2>1, <2>3, <2>4 DEF AsyncInv
<1>2. CASE cb.fn # 0
  <2>1. PICK b : b = [a EXCEPT !.flags = a.flags \cup {"inCallback"}]
    OBVIOUS
  <2>2. PICK t : t = <<s[1], Frame("callback")>>
    OBVIOUS
  <2>0. /\ ac' = b /\ stack' = Append(s, Frame("callback"))
        /\ ran' = ran \/ ran' = Append(ran, cb.fn)
    BY <1>2, <2>1 DEF RunCallback
  <2>3. stack' = t
    <3>1. PICK f, g : f = s[1] /\ g = Frame("callback")
      OBVIOUS
    <3>2. s = <<f>> /\ t = <<f, g>>
      BY <2>2, <3>1 DEF InLibrary
    <3>5. stack' = Append(s, g)
      BY <2>0, <3>1
    <3>3. Append(<<f>>, g) = <<f, g>>
      BY PushTwo
    <3>4. QED
      BY <3>2, <3>3, <3>5, Zenon
  <2>4. /\ ContextOK(b) /\ b.flags = a.flags \cup {"inCallback"} /\ b.live /\ b.err = a.err
        /\ b.replies = a.replies /\ b.invalid = a.invalid
    BY <2>1, FlagsChanged
  <2>5. t[1] = s[1] /\ t # << >> /\ s # << >>
    BY <2>2, StackShape DEF InLibrary
  <2>6. InCallback(t) /\ Has(b, "inCallback")
    BY <2>2, <2>4, <2>5 DEF InCallback, InLibrary, Has
  <2>7. FreeingOK(b, t, unforeseen)
    BY <2>4, <2>5 DEF FreeingOK, Freeing
  <2>8. IsSeq(ran') /\ ToSet(ran) \subseteq ToSet(ran')
    <3>1. CASE ran' = ran
      BY <3>1
    <3>2. CASE ran' = Append(ran, cb.fn)
      BY <3>2, AppendShape
    <3>3. QED
      BY <2>0, <3>1, <3>2
  <2>9. ASSUME NEW n \in DOMAIN given, IsRegular(given, n)
        PROVE  n \in ToSet(ran') \/ Waits(b, n)
    <3>1. CASE n = cb.fn
      <4>1. ran' = Append(ran, cb.fn)
        BY <1>2, <2>9, <3>1 DEF RunCallback, IsRegular
      <4>2. QED
        BY <3>1, <4>1, AppendShape
    <3>2. CASE n \in ToSet(ran)
      BY <2>8, <3>2
    <3>3. CASE Waits(a, n)
      BY <2>4, <3>3, SameWaits
    <3>4. QED
      BY <2>9, <3>1, <3>2, <3>3
  <2>10. HeldOK(b, t, given, ran')
    BY <2>4, <2>9 DEF HeldOK
  <2>11. StackOK(b, t)
    BY <2>4, <2>6 DEF StackOK
  <2>12. QED
    BY <2>0, <2>3, <2>4, <2>7, <2>8, <2>10, <2>11 DEF AsyncInv
<1>3. QED
  BY <1>1, <1>2
\* What every frame of the library but a callback comes from and goes to.
LEMMA FreshFrame ==
    ASSUME NEW at \in {"process", "timeout", "free"}
    PROVE  /\ FrameOK(Frame(at)) /\ Frame(at).phase = 1 /\ Frame(at).at = at
           /\ InLibrary(<<Frame(at)>>)
<1>1. /\ Frame(at) = [at |-> at, cb |-> Frame(at).cb, iter |-> Frame(at).iter, phase |-> 1]
      /\ Frame(at).phase = 1 /\ Frame(at).at = at
  BY DEF Frame
<1>2. FrameOK(Frame(at))
  BY <1>1 DEF FrameOK
<1>3. QED
  BY <1>1, <1>2, StackShape, Zenon DEF InLibrary

\* __redisAsyncDisconnect, with the stack of its callers gone: the context is
\* freed next, is left to its owner, or the assertion fails.
LEMMA Disconnected ==
    ASSUME NEW a, NEW s, s = << >>,
           IsSeq(given), IsSeq(ran), unforeseen' \in BOOLEAN,
           ContextOK(a), a.live, ~Has(a, "inCallback"),
           "disconnecting" \in a.flags \/ a.err \/ unforeseen',
           \A n \in DOMAIN given : IsRegular(given, n) => n \in ToSet(ran) \/ Waits(a, n),
           given' = given, ran' = ran,
           AsyncDisconnect(a, s)
    PROVE  AsyncInv'
<1>1. CASE ~a.err /\ a.replies # << >>
  <2>1. PICK b : b = [a EXCEPT !.replies = Tail(a.replies)]
    OBVIOUS
  <2>2. ac' = b /\ stack' = <<Frame("aborted")>>
    BY <1>1, <2>1 DEF AsyncDisconnect
  <2>3. IsSeq(Tail(a.replies))
    BY <1>1, TailShape DEF ContextOK
  <2>4. ContextOK(b) /\ b.flags = a.flags /\ b.live
    BY <2>1, <2>3, RepliesChanged, ZenonT(60)
  <2>5. StackOK(b, <<Frame("aborted")>>)
    BY <2>4 DEF StackOK, Has
  <2>6. FreeingOK(b, <<Frame("aborted")>>, unforeseen')
    BY AbortedFrame DEF FreeingOK, Freeing
  <2>7. QED
    BY <2>2, <2>4, <2>5, <2>6 DEF AsyncInv, HeldOK
<1>2. CASE a.err \/ a.replies = << >>
  <2>1. PICK F : F = IF a.err THEN a.flags \cup {"disconnecting"} ELSE a.flags
    OBVIOUS
  <2>2. PICK b : b = [a EXCEPT !.flags = F, !.ev = {}]
    OBVIOUS
  <2>3. /\ ac' = b
        /\ stack' = IF Has(a, "noAutoFree") THEN << >> ELSE Append(<< >>, Frame("free"))
    BY <1>2, <2>1, <2>2 DEF AsyncDisconnect
  <2>4. /\ ContextOK(b) /\ b.flags = F /\ b.live /\ b.replies = a.replies /\ b.invalid = a.invalid
    BY <2>2 DEF ContextOK
  <2>5. ~Has(b, "inCallback") /\ (F \cap {"disconnecting", "freeing"} # {} \/ unforeseen')
    BY <2>1, <2>4 DEF Has
  <2>6. HeldOK(b, stack', given, ran)
    BY <2>4, SameWaits DEF HeldOK
  <2>7. CASE stack' = << >>
    <3>1. StackOK(b, << >>) /\ FreeingOK(b, << >>, unforeseen')
      BY <2>5 DEF StackOK, FreeingOK, Freeing
    <3>2. QED
      BY <2>3, <2>4, <2>6, <2>7, <3>1 DEF AsyncInv
  <2>8. CASE stack' = Append(<< >>, Frame("free"))
    <3>1. PICK t : t = <<Frame("free")>>
      OBVIOUS
    <3>2. stack' = t
      BY <2>8, <3>1, StackShape, Zenon
    <3>3. InLibrary(t) /\ t[1].at = "free" /\ t[1].phase = 1
      BY <3>1, FreshFrame, StackShape, Zenon
    <3>4. StackOK(b, t)
      BY <2>4, <2>5, <3>3 DEF StackOK
    <3>5. FreeingOK(b, t, unforeseen')
      BY <2>4, <2>5, <3>3 DEF FreeingOK, Freeing
    <3>6. QED
      BY <2>3, <2>4, <2>6, <3>2, <3>4, <3>5 DEF AsyncInv
  <2>9. QED
    BY <2>3, <2>7, <2>8
<1>3. QED
  BY <1>1, <1>2
-----------------------------------------------------------------------------
\* The calls of the user

\* A command is accepted on a context that has its callback.
LEMMA Accepted ==
    ASSUME AsyncInv, NEW kind, NEW pat, NEW names, NEW a,
           ContextOK(a), a.live = ac.live, a.err = ac.err, ac.flags \subseteq a.flags,
           Has(a, "inCallback") => Has(ac, "inCallback"),
           \A n : Waits(ac, n) => Waits(a, n),
           kind = "get" => Waits(a, Len(given) + 1),
           unforeseen' \in BOOLEAN,
           Accept(kind, pat, names, a)
    PROVE  AsyncInv'
<1>1. PICK c : c = [kind |-> kind, pat |-> pat, names |-> names]
  OBVIOUS
<1>2. /\ ac.live /\ ~unforeseen /\ a.flags \cap {"disconnecting", "freeing"} = {}
      /\ given' = Append(given, c) /\ stack' = stack /\ ran' = ran
  BY <1>1 DEF Accept, UserRuns
<1>3. PICK o, e : ac' = [a EXCEPT !.obuf = o, !.ev = e]
  BY DEF Accept
<1>4. /\ ContextOK(ac') /\ ac'.flags = a.flags /\ ac'.live = a.live /\ ac'.err = a.err
      /\ ac'.replies = a.replies /\ ac'.invalid = a.invalid
  BY <1>3 DEF ContextOK
<1>5. ~Freeing(stack)
  BY <1>2 DEF AsyncInv, FreeingOK
<1>6. FreeingOK(ac', stack, unforeseen')
  BY <1>4, <1>5 DEF AsyncInv, FreeingOK
<1>7. StackOK(ac', stack)
  <2>1. (Has(ac', "inCallback") <=> Has(ac, "inCallback")) /\ ac'.live = ac.live
    BY <1>4 DEF Has
  <2>2. QED
    BY <2>1 DEF AsyncInv, StackOK
<1>8. IsSeq(given)
  BY DEF AsyncInv
<1>9. IsSeq(given') /\ DOMAIN given' = 1..Len(given) + 1 /\ DOMAIN given = 1..Len(given)
      /\ Len(given) \in Nat
      /\ given'[Len(given) + 1] = c /\ \A i \in 1..Len(given) : given'[i] = given[i]
  BY <1>2, <1>8, AppendShape, SeqShape
<1>10. ASSUME NEW n \in DOMAIN given', IsRegular(given', n), stack # <<Frame("aborted")>>
       PROVE  n \in ToSet(ran') \/ Waits(ac', n)
  <2>1. CASE n = Len(given) + 1
    <3>1. c.kind = "get"
      BY <1>9, <1>10, <2>1 DEF IsRegular
    <3>2. Waits(a, n)
      BY <1>1, <2>1, <3>1
    <3>3. QED
      BY <1>4, <3>2, SameWaits
  <2>2. CASE n # Len(given) + 1
    <3>1. n \in 1..Len(given)
      BY <1>9, <2>2
    <3>2. n \in DOMAIN given /\ IsRegular(given, n)
      BY <1>9, <1>10, <3>1 DEF IsRegular
    <3>3. n \in ToSet(ran) \/ Waits(ac, n)
      BY <1>10, <3>2 DEF AsyncInv, HeldOK
    <3>4. Waits(ac, n) => Waits(ac', n)
      BY <1>4, SameWaits
    <3>5. QED
      BY <1>2, <3>3, <3>4
  <2>3. QED
    BY <2>1, <2>2
<1>11. HeldOK(ac', stack', given', ran')
  BY <1>2, <1>4, <1>10 DEF HeldOK
<1>12. QED
  BY <1>2, <1>4, <1>6, <1>7, <1>9, <1>11 DEF AsyncInv

\* A regular command or MONITOR.
LEMMA RegularStep ==
    ASSUME AsyncInv, NEW kind \in Kind, Regular(kind)
    PROVE  AsyncInv'
<1>1. PICK cb : cb = [fn |-> IF kind = "mute" THEN 0 ELSE Len(given) + 1, pending |-> 1]
  OBVIOUS
<1>2. PICK F : F = IF kind = "monitor" THEN ac.flags \cup {"monitoring"} ELSE ac.flags
  OBVIOUS
<1>0. PICK a : a = IF kind = "monitor" THEN [ac EXCEPT !.flags = @ \cup {"monitoring"}] ELSE ac
  OBVIOUS
<1>3. /\ ContextOK(a) /\ a.flags = F /\ a.live = ac.live /\ a.err = ac.err
      /\ a.replies = ac.replies /\ a.invalid = ac.invalid
  <2>1. ContextOK(ac)
    BY DEF AsyncInv
  <2>2. CASE kind = "monitor"
    BY <1>0, <1>2, <2>1, <2>2, FlagsChanged
  <2>3. CASE kind # "monitor"
    BY <1>0, <1>2, <2>1, <2>3
  <2>4. QED
    BY <2>2, <2>3
<1>4. ac.flags \subseteq F /\ ("inCallback" \in F => "inCallback" \in ac.flags)
  BY <1>2
<1>5. unforeseen' \in BOOLEAN
  BY DEF Regular
<1>6. PICK p, r : p = Append(a.replies, cb) /\ r = Append(a.invalid, cb)
  OBVIOUS
<1>7. kind = "get" => cb.fn = Len(given) + 1
  BY <1>1
<1>8. CASE Has(ac, "subscribed") /\ kind # "monitor"
  <2>1. PICK b : b = [a EXCEPT !.invalid = r]
    OBVIOUS
  <2>2. Accept(kind, FALSE, << >>, b)
    BY <1>0, <1>1, <1>6, <1>8, <2>1 DEF Regular
  <2>3. IsSeq(r)
    BY <1>3, <1>6, CallbackAdded DEF ContextOK
  <2>4. /\ ContextOK(b) /\ b.flags = a.flags /\ b.live = a.live /\ b.err = a.err
        /\ b.replies = a.replies /\ b.invalid = r
    BY <1>3, <2>1, <2>3, InvalidChanged
  <2>5. Waits(b, cb.fn) /\ \A n : Waits(ac, n) => Waits(b, n)
    <3>1. IsSeq(a.invalid)
      BY <1>3 DEF ContextOK
    <3>2. InQueue(r, cb.fn) /\ \A n : InQueue(a.invalid, n) => InQueue(r, n)
      BY <1>6, <3>1, CallbackAdded, Zenon
    <3>3. QED
      BY <1>3, <2>4, <3>2, Zenon DEF Waits
  <2>6. QED
    BY <1>3, <1>4, <1>5, <1>7, <2>2, <2>4, <2>5, Accepted DEF Has
<1>9. CASE ~(Has(ac, "subscribed") /\ kind # "monitor")
  <2>1. PICK b : b = [a EXCEPT !.replies = p]
    OBVIOUS
  <2>2. Accept(kind, FALSE, << >>, b)
    BY <1>0, <1>1, <1>6, <1>9, <2>1 DEF Regular
  <2>3. IsSeq(p)
    BY <1>3, <1>6, CallbackAdded DEF ContextOK
  <2>4. /\ ContextOK(b) /\ b.flags = a.flags /\ b.live = a.live /\ b.err = a.err
        /\ b.replies = p /\ b.invalid = a.invalid
    BY <1>3, <2>1, <2>3, RepliesChanged
  <2>5. Waits(b, cb.fn) /\ \A n : Waits(ac, n) => Waits(b, n)
    <3>1. IsSeq(a.replies)
      BY <1>3 DEF ContextOK
    <3>2. InQueue(p, cb.fn) /\ \A n : InQueue(a.replies, n) => InQueue(p, n)
      BY <1>6, <3>1, CallbackAdded, Zenon
    <3>3. QED
      BY <1>3, <2>4, <3>2, Zenon DEF Waits
  <2>6. QED
    BY <1>3, <1>4, <1>5, <1>7, <2>2, <2>4, <2>5, Accepted DEF Has
<1>10. QED
  BY <1>8, <1>9
\* A subscription or the end of one: a command without a callback of its own.
LEMMA SubscribeStep ==
    ASSUME AsyncInv, NEW pat, NEW names, Subscribe(pat, names)
    PROVE  AsyncInv'
<1>1. PICK F, d : F = ac.flags \cup {"subscribed"} /\ d = Subscribed(pat, names)
  OBVIOUS
<1>2. PICK a : a = [ac EXCEPT !.flags = F, !.subs[pat] = d]
  OBVIOUS
<1>3. Accept("subscribe", pat, names, a) /\ unforeseen' \in BOOLEAN
  BY <1>1, <1>2 DEF Subscribe
<1>4. /\ ContextOK(a) /\ a.flags = F /\ a.live = ac.live /\ a.err = ac.err
      /\ a.replies = ac.replies /\ a.invalid = ac.invalid
  BY <1>2 DEF AsyncInv, ContextOK
<1>5. ac.flags \subseteq a.flags /\ (Has(a, "inCallback") => Has(ac, "inCallback"))
  BY <1>1, <1>4 DEF Has
<1>6. \A n : Waits(ac, n) => Waits(a, n)
  BY <1>4 DEF Waits
<1>7. QED
  BY <1>3, <1>4, <1>5, <1>6, Accepted

LEMMA UnsubscribeStep ==
    ASSUME AsyncInv, NEW pat, NEW name, Unsubscribe(pat, name)
    PROVE  AsyncInv'
<1>1. Accept("unsubscribe", pat, <<name>>, ac) /\ unforeseen' \in BOOLEAN
  BY DEF Unsubscribe
<1>2. QED
  BY <1>1, Accepted DEF AsyncInv

\* No callback of a regular command is lost by a change of flags.
LEMMA AllHeld ==
    ASSUME AsyncInv, stack # <<Frame("aborted")>>, NEW a, a.replies = ac.replies, a.invalid = ac.invalid
    PROVE  \A n \in DOMAIN given : IsRegular(given, n) => n \in ToSet(ran) \/ Waits(a, n)
  BY DEF AsyncInv, HeldOK, Waits

LEMMA AsyncDisconnectStep ==
    ASSUME AsyncInv, redisAsyncDisconnect
    PROVE  AsyncInv'
<1>1. PICK F : F = (ac.flags \cup {"disconnecting"}) \ {"noAutoFree"}
  OBVIOUS
<1>2. PICK a : a = [ac EXCEPT !.flags = F]
  OBVIOUS
<1>3. /\ ContextOK(a) /\ a.flags = F /\ a.live = ac.live /\ a.err = ac.err
      /\ a.replies = ac.replies /\ a.invalid = ac.invalid
  BY <1>2, FlagsChanged DEF AsyncInv
<1>4. /\ ac.live /\ Top.at \in {"loop", "callback"}
      /\ given' = given /\ ran' = ran /\ unforeseen' = unforeseen
  BY DEF redisAsyncDisconnect, UserRuns
<1>5. "disconnecting" \in a.flags /\ (Has(a, "inCallback") <=> Has(ac, "inCallback"))
  BY <1>1, <1>3 DEF Has
<1>6. stack # <<Frame("aborted")>>
  BY <1>4, NotAborted
<1>7. CASE ~Has(ac, "inCallback") /\ ac.replies = << >>
  <2>1. AsyncDisconnect(a, stack)
    BY <1>1, <1>2, <1>7 DEF redisAsyncDisconnect
  <2>2. stack = << >>
    BY <1>4, <1>7, TopCases
  <2>3. \A n \in DOMAIN given : IsRegular(given, n) => n \in ToSet(ran) \/ Waits(a, n)
    BY <1>3, <1>6, AllHeld
  <2>4. IsSeq(given) /\ IsSeq(ran) /\ unforeseen' \in BOOLEAN
    BY <1>4 DEF AsyncInv
  <2>5. QED
    BY <1>3, <1>4, <1>5, <1>7, <2>1, <2>2, <2>3, <2>4, Disconnected
<1>8. CASE ~(~Has(ac, "inCallback") /\ ac.replies = << >>)
  <2>1. ac' = a /\ stack' = stack
    BY <1>1, <1>2, <1>8 DEF redisAsyncDisconnect
  <2>2. StackOK(a, stack)
    BY <1>3, <1>5 DEF AsyncInv, StackOK
  <2>3. FreeingOK(a, stack, unforeseen)
    BY <1>3, <1>5 DEF AsyncInv, FreeingOK
  <2>4. HeldOK(a, stack, given, ran)
    BY <1>3, <1>4, <1>6, AllHeld DEF HeldOK
  <2>5. QED
    BY <1>3, <1>4, <2>1, <2>2, <2>3, <2>4 DEF AsyncInv
<1>9. QED
  BY <1>7, <1>8

\* redisAsyncFree: in a callback only the flag is set.
LEMMA AsyncFreeCalled ==
    ASSUME AsyncInv, redisAsyncFree
    PROVE  AsyncInv'
<1>1. PICK F : F = ac.flags \cup {"freeing"}
  OBVIOUS
<1>2. PICK a : a = [ac EXCEPT !.flags = F]
  OBVIOUS
<1>3. /\ ContextOK(a) /\ a.flags = F /\ a.live = ac.live /\ a.err = ac.err
      /\ a.replies = ac.replies /\ a.invalid = ac.invalid
  BY <1>2, FlagsChanged DEF AsyncInv
<1>4. /\ ac.live /\ Top.at \in {"loop", "callback"} /\ ac' = a
      /\ given' = given /\ ran' = ran /\ unforeseen' = unforeseen
      /\ stack' = IF Has(ac, "inCallback") THEN stack ELSE Append(stack, Frame("free"))
  BY <1>1, <1>2 DEF redisAsyncFree, UserRuns
<1>5. "freeing" \in a.flags /\ (Has(a, "inCallback") <=> Has(ac, "inCallback"))
  BY <1>1, <1>3 DEF Has
<1>6. HeldOK(a, stack', given, ran)
  <2>1. stack # <<Frame("aborted")>>
    BY <1>4, NotAborted
  <2>2. QED
    BY <1>3, <1>4, <2>1, AllHeld DEF HeldOK
<1>7. CASE Has(ac, "inCallback")
  <2>1. StackOK(a, stack)
    BY <1>3, <1>5 DEF AsyncInv, StackOK
  <2>2. FreeingOK(a, stack, unforeseen)
    BY <1>3, <1>5 DEF AsyncInv, FreeingOK
  <2>3. QED
    BY <1>3, <1>4, <1>6, <1>7, <2>1, <2>2 DEF AsyncInv
<1>8. CASE ~Has(ac, "inCallback")
  <2>1. PICK t : t = <<Frame("free")>>
    OBVIOUS
  <2>2. stack = << >>
    BY <1>4, <1>8, TopCases
  <2>3. stack' = t
    BY <1>4, <1>8, <2>1, <2>2, StackShape, Zenon
  <2>4. InLibrary(t) /\ t[1].at = "free" /\ t[1].phase = 1
    BY <2>1, FreshFrame, StackShape, Zenon
  <2>5. StackOK(a, t)
    BY <1>3, <1>4, <1>5, <1>8, <2>4 DEF StackOK
  <2>6. FreeingOK(a, t, unforeseen)
    BY <1>5, <2>4 DEF FreeingOK, Freeing
  <2>7. QED
    BY <1>3, <1>4, <1>6, <2>3, <2>5, <2>6 DEF AsyncInv
<1>9. QED
  BY <1>7, <1>8
\* A callback returns to the frame that ran it, or to freeing the context.
LEMMA CallbackReturnsStep ==
    ASSUME AsyncInv, CallbackReturns
    PROVE  AsyncInv'
<1>1. PICK F : F = ac.flags \ {"inCallback"}
  OBVIOUS
<1>2. PICK a : a = [ac EXCEPT !.flags = F]
  OBVIOUS
<1>3. /\ ContextOK(a) /\ a.flags = F /\ a.live = ac.live /\ a.err = ac.err
      /\ a.replies = ac.replies /\ a.invalid = ac.invalid
  BY <1>2, FlagsChanged DEF AsyncInv
<1>4. /\ ac.live /\ Top.at = "callback" /\ ac' = a
      /\ given' = given /\ ran' = ran /\ unforeseen' = unforeseen
  BY <1>1, <1>2 DEF CallbackReturns
<1>5. InCallback(stack) /\ Front(stack) = <<stack[1]>>
  BY <1>4, TopCases
<1>6. PICK f : f = stack[1]
  OBVIOUS
<1>7. FrameOK(f) /\ Front(stack) = <<f>> /\ stack # << >>
  BY <1>5, <1>6, StackShape, ZenonT(60) DEF InCallback
<1>8. <<f>> # << >> /\ Last(<<f>>) = f /\ Front(<<f>>) = << >> /\ <<f>>[1] = f
  BY StackShape, Zenon
<1>9. stack' = IF f.at = "process" /\ Has(ac, "freeing") THEN Append(<< >>, Frame("free")) ELSE <<f>>
  BY <1>7, <1>8, Zenon DEF CallbackReturns
<1>10. ~Has(a, "inCallback") /\ (a.flags \cap {"disconnecting", "freeing"}
                                  = ac.flags \cap {"disconnecting", "freeing"})
  BY <1>1, <1>3 DEF Has
<1>11. HeldOK(a, stack', given, ran)
  <2>1. stack # <<Frame("aborted")>>
    BY <1>4, NotAborted
  <2>2. QED
    BY <1>3, <1>4, <2>1, AllHeld DEF HeldOK
<1>12. CASE stack' = <<f>>
  <2>1. InLibrary(<<f>>)
    BY <1>7, <1>8, Zenon DEF InLibrary
  <2>2. StackOK(a, <<f>>)
    BY <1>3, <1>4, <1>10, <2>1 DEF StackOK
  <2>3. FreeingOK(ac, stack, unforeseen)
    BY DEF AsyncInv
  <2>4. PICK t : t = <<f>> /\ t[1] = f /\ t # << >>
    BY <1>8
  <2>5. FreeingOK(a, t, unforeseen)
    BY <1>3, <1>6, <1>7, <1>10, <2>3, <2>4 DEF FreeingOK, Freeing
  <2>6. QED
    BY <1>3, <1>4, <1>11, <1>12, <2>2, <2>4, <2>5 DEF AsyncInv
<1>13. CASE stack' = Append(<< >>, Frame("free")) /\ Has(ac, "freeing")
  <2>1. PICK t : t = <<Frame("free")>>
    OBVIOUS
  <2>2. stack' = t
    BY <1>13, <2>1, StackShape, Zenon
  <2>3. InLibrary(t) /\ t[1].at = "free" /\ t[1].phase = 1
    BY <2>1, FreshFrame, StackShape, Zenon
  <2>4. StackOK(a, t)
    BY <1>3, <1>4, <1>10, <2>3 DEF StackOK
  <2>5. a.flags \cap {"disconnecting", "freeing"} # {}
    BY <1>10, <1>13 DEF Has
  <2>6. FreeingOK(a, t, unforeseen)
    BY <2>3, <2>5 DEF FreeingOK, Freeing
  <2>7. QED
    BY <1>3, <1>4, <1>11, <2>2, <2>4, <2>6 DEF AsyncInv
<1>14. QED
  BY <1>9, <1>12, <1>13

-----------------------------------------------------------------------------
\* The library

\* __redisAsyncFree runs what waits, phase by phase, and then nothing waits.
LEMMA AsyncFreeStep ==
    ASSUME AsyncInv, AsyncFree
    PROVE  AsyncInv'
<1>1. ac.live /\ Top.at = "free" /\ given' = given /\ unforeseen' = unforeseen
  BY DEF AsyncFree, library
<1>2. /\ InLibrary(stack) /\ ~Has(ac, "inCallback") /\ Top = stack[1] /\ Front(stack) = << >>
  BY <1>1, TopCases
<1>3. PICK f : f = Top
  OBVIOUS
<1>4. FrameOK(f) /\ f.at = "free" /\ f = stack[1] /\ stack # << >> /\ f.phase \in 1..4
  BY <1>1, <1>2, <1>3, StackShape, Zenon DEF InLibrary, FrameOK
<1>5. /\ ac.flags \cap {"disconnecting", "freeing"} # {} \/ unforeseen
      /\ f.phase >= 2 => ac.replies = << >>
      /\ f.phase >= 3 => ac.invalid = << >>
  BY <1>4 DEF AsyncInv, FreeingOK, Freeing
<1>6. stack # <<Frame("aborted")>>
  BY <1>1, NotAborted
<1>7. \A n \in DOMAIN given : IsRegular(given, n) => n \in ToSet(ran) \/ Waits(ac, n)
  BY <1>6, AllHeld
<1>8. ContextOK(ac) /\ IsSeq(given) /\ IsSeq(ran) /\ unforeseen \in BOOLEAN
  BY DEF AsyncInv
<1>9. CASE /\ f.phase = 1 /\ ac.replies # << >>
           /\ RunCallback([ac EXCEPT !.replies = Tail(@)], stack, Head(ac.replies), NullReply)
  <2>1. PICK a : a = [ac EXCEPT !.replies = Tail(ac.replies)]
    OBVIOUS
  <2>2. IsSeq(Tail(ac.replies))
        /\ \A n : InQueue(ac.replies, n) => n = Head(ac.replies).fn \/ InQueue(Tail(ac.replies), n)
    BY <1>8, <1>9, CallbackTaken DEF ContextOK
  <2>3. /\ ContextOK(a) /\ a.flags = ac.flags /\ a.live = ac.live /\ a.err = ac.err
        /\ a.replies = Tail(ac.replies) /\ a.invalid = ac.invalid
    BY <1>8, <2>1, <2>2, RepliesChanged
  <2>4. FreeingOK(a, stack, unforeseen)
    BY <1>4, <1>5, <1>9, <2>3 DEF FreeingOK, Freeing
  <2>5. \A n \in DOMAIN given : IsRegular(given, n) =>
            n \in ToSet(ran) \/ n = Head(ac.replies).fn \/ Waits(a, n)
    BY <1>7, <2>2, <2>3, Zenon DEF Waits
  <2>6. ~Has(a, "inCallback") /\ a.live
    BY <1>1, <1>2, <2>3 DEF Has
  <2>7. RunCallback(a, stack, Head(ac.replies), NullReply)
    BY <1>9, <2>1
  <2>8. QED
    BY <1>1, <1>2, <1>8, <2>3, <2>4, <2>5, <2>6, <2>7, CallbackRun
<1>10. CASE /\ f.phase = 2 /\ ac.invalid # << >>
            /\ RunCallback([ac EXCEPT !.invalid = Tail(@)], stack, Head(ac.invalid), NullReply)
  <2>1. PICK a : a = [ac EXCEPT !.invalid = Tail(ac.invalid)]
    OBVIOUS
  <2>2. IsSeq(Tail(ac.invalid))
        /\ \A n : InQueue(ac.invalid, n) => n = Head(ac.invalid).fn \/ InQueue(Tail(ac.invalid), n)
    BY <1>8, <1>10, CallbackTaken DEF ContextOK
  <2>3. /\ ContextOK(a) /\ a.flags = ac.flags /\ a.live = ac.live /\ a.err = ac.err
        /\ a.replies = ac.replies /\ a.invalid = Tail(ac.invalid)
    BY <1>8, <2>1, <2>2, InvalidChanged
  <2>4. FreeingOK(a, stack, unforeseen)
    BY <1>4, <1>5, <1>10, <2>3 DEF FreeingOK, Freeing
  <2>5. \A n \in DOMAIN given : IsRegular(given, n) =>
            n \in ToSet(ran) \/ n = Head(ac.invalid).fn \/ Waits(a, n)
    BY <1>7, <2>2, <2>3, Zenon DEF Waits
  <2>6. ~Has(a, "inCallback") /\ a.live
    BY <1>1, <1>2, <2>3 DEF Has
  <2>7. RunCallback(a, stack, Head(ac.invalid), NullReply)
    BY <1>10, <2>1
  <2>8. QED
    BY <1>1, <1>2, <1>8, <2>3, <2>4, <2>5, <2>6, <2>7, CallbackRun
<1>11. CASE \E it, cb : RunCallback(ac, Append(Front(stack), [f EXCEPT !.iter = it]), cb, NullReply)
  <2>1. PICK it, cb : RunCallback(ac, Append(Front(stack), [f EXCEPT !.iter = it]), cb, NullReply)
    BY <1>11
  <2>2. PICK g : g = [f EXCEPT !.iter = it]
    OBVIOUS
  <2>3. FrameOK(g) /\ g.at = f.at /\ g.phase = f.phase
    BY <1>4, <2>2 DEF FrameOK
  <2>4. PICK t : t = <<g>>
    OBVIOUS
  <2>5. t[1] = g /\ t # << >> /\ Append(Front(stack), g) = t
    BY <1>2, <2>4, StackShape, Zenon
  <2>6. InLibrary(t)
    BY <2>3, <2>4, <2>5 DEF InLibrary
  <2>7. FreeingOK(ac, t, unforeseen)
    BY <1>4, <1>5, <2>3, <2>5 DEF FreeingOK, Freeing
  <2>8. RunCallback(ac, t, cb, NullReply)
    BY <2>1, <2>2, <2>5, Zenon
  <2>9. \A n \in DOMAIN given : IsRegular(given, n) => n \in ToSet(ran) \/ n = cb.fn \/ Waits(ac, n)
    BY <1>7
  <2>10. QED
    BY <1>1, <1>2, <1>8, <2>6, <2>7, <2>8, <2>9, CallbackRun
<1>12. CASE /\ f.phase = 1 => ac.replies = << >>
            /\ f.phase = 2 => ac.invalid = << >>
            /\ f.phase < 4 /\ ac' = ac /\ ran' = ran
            /\ stack' = Append(Front(stack), [Frame("free") EXCEPT !.phase = f.phase + 1])
  <2>1. PICK p \in 1..4 : p = f.phase + 1
    BY <1>4, <1>12
  <2>2. PICK g : g = [Frame("free") EXCEPT !.phase = p]
    OBVIOUS
  <2>3. FrameOK(g) /\ g.at = "free" /\ g.phase = p
    BY <2>2 DEF FrameOK, Frame
  <2>4. PICK t : t = <<g>>
    OBVIOUS
  <2>5. stack' = Append(Front(stack), g)
    BY <1>12, <2>1, <2>2
  <2>6. t[1] = g /\ t # << >> /\ stack' = t
    BY <1>2, <2>4, <2>5, StackShape, Zenon
  <2>7. InLibrary(t)
    BY <2>3, <2>4, <2>6 DEF InLibrary
  <2>8. (p >= 2 => ac.replies = << >>) /\ (p >= 3 => ac.invalid = << >>)
    BY <1>4, <1>5, <1>12, <2>1
  <2>9. FreeingOK(ac, t, unforeseen)
    BY <1>5, <2>3, <2>6, <2>8 DEF FreeingOK, Freeing
  <2>10. StackOK(ac, t)
    BY <1>1, <1>2, <2>7 DEF StackOK
  <2>11. HeldOK(ac, t, given, ran)
    BY <1>1, <1>7 DEF HeldOK
  <2>12. QED
    BY <1>1, <1>8, <1>12, <2>6, <2>9, <2>10, <2>11 DEF AsyncInv
<1>13. CASE /\ f.phase = 4 /\ stack' = Front(stack) /\ ran' = ran
            /\ ac' = [NewContext EXCEPT !.live = FALSE, !.ev = {}]
  <2>1. /\ ContextOK(ac') /\ ac'.live = FALSE /\ ac'.flags = {}
    <3>1. PICK b : b = [NewContext EXCEPT !.live = FALSE, !.ev = {}]
      OBVIOUS
    <3>0. PICK tables : tables = [pat \in BOOLEAN |-> dictCreate]
      OBVIOUS
    <3>2. b = [live |-> FALSE, flags |-> {}, err |-> FALSE, replies |-> << >>, invalid |-> << >>,
               subs |-> tables, obuf |-> << >>, inbuf |-> << >>, ev |-> {}]
      BY <3>0, <3>1 DEF NewContext
    <3>3. PICK none : none = << >> /\ IsSeq(none)
      <4>1. << >> \in Seq({})
        BY EmptySeq
      <4>2. QED
        BY <4>1, SeqIsSeq
    <3>4. ContextOK(b) /\ b.live = FALSE /\ b.flags = {}
      BY <3>2, <3>3 DEF ContextOK
    <3>5. QED
      BY <1>13, <3>1, <3>4
  <2>2. stack' = << >>
    BY <1>2, <1>13
  <2>3. ac.replies = << >> /\ ac.invalid = << >>
    BY <1>5, <1>13
  <2>4. \A n : ~Waits(ac, n)
    BY <2>3 DEF Waits, InQueue
  <2>5. HeldOK(ac', stack', given', ran')
    BY <1>1, <1>7, <1>13, <2>4 DEF HeldOK
  <2>6. StackOK(ac', stack') /\ FreeingOK(ac', stack', unforeseen')
    BY <2>1, <2>2 DEF StackOK, FreeingOK, Freeing, Has
  <2>7. QED
    BY <1>1, <1>8, <1>13, <2>1, <2>5, <2>6 DEF AsyncInv
<1>14. QED
  <2>1. CASE f.phase = 1
    BY <1>3, <1>9, <1>12, <2>1, SMTT(30) DEF AsyncFree
  <2>2. CASE f.phase = 2
    BY <1>3, <1>10, <1>12, <2>2, SMTT(30) DEF AsyncFree
  <2>3. CASE f.phase \in {3, 4}
    <3>1. PICK pat, it, cb : /\ pat = (f.phase = 4) /\ it = dictNext(ac.subs[pat], f.iter)
                             /\ cb = dictFind(ac.subs[pat], it.key)
      OBVIOUS
    <3>2. \/ RunCallback(ac, Append(Front(stack), [f EXCEPT !.iter = it]), cb, NullReply)
          \/ /\ ran' = ran
             /\ IF f.phase < 4
                THEN /\ stack' = Append(Front(stack), [Frame("free") EXCEPT !.phase = f.phase + 1])
                     /\ ac' = ac
                ELSE /\ stack' = Front(stack)
                     /\ ac' = [NewContext EXCEPT !.live = FALSE, !.ev = {}]
      BY <1>3, <2>3, <3>1, SMTT(30) DEF AsyncFree
    <3>3. CASE RunCallback(ac, Append(Front(stack), [f EXCEPT !.iter = it]), cb, NullReply)
      BY <1>11, <3>3, Zenon
    <3>4. CASE ~RunCallback(ac, Append(Front(stack), [f EXCEPT !.iter = it]), cb, NullReply)
      <4>1. CASE f.phase = 3
        <5>1. f.phase # 1 /\ f.phase # 2 /\ f.phase < 4
          BY <4>1
        <5>2. QED
          BY <1>12, <3>2, <3>4, <5>1, Zenon
      <4>2. CASE f.phase = 4
        <5>1. ~(f.phase < 4)
          BY <4>2
        <5>2. QED
          BY <1>13, <3>2, <3>4, <4>2, <5>1, Zenon
      <4>3. QED
        BY <2>3, <4>1, <4>2
    <3>5. QED
      BY <3>3, <3>4
  <2>4. QED
    BY <1>4, <2>1, <2>2, <2>3
\* redisProcessCallbacks hands a reply to a callback: the frame keeps it.
LEMMA Dispatched ==
    ASSUME AsyncInv, Top.at = "process", NEW b, NEW cb, NEW reply,
           ContextOK(b), b.live, ~Has(b, "inCallback"),
           \A n \in DOMAIN given : IsRegular(given, n) => n \in ToSet(ran) \/ n = cb.fn \/ Waits(b, n),
           given' = given, unforeseen' = unforeseen,
           RunCallback(b, [stack EXCEPT ![Len(stack)].cb = cb], cb, reply)
    PROVE  AsyncInv'
<1>1. /\ InLibrary(stack) /\ Top = stack[1] /\ Len(stack) = 1
  BY TopCases
<1>2. PICK f : f = stack[1]
  OBVIOUS
<1>3. PICK g : g = [f EXCEPT !.cb = cb]
  OBVIOUS
<1>4. PICK t : t = <<g>>
  OBVIOUS
<1>5. FrameOK(f) /\ f.at = "process" /\ stack = <<f>>
  BY <1>1, <1>2 DEF InLibrary
<1>6. FrameOK(g) /\ g.at = "process"
  BY <1>3, <1>5 DEF FrameOK
<1>7. t[1] = g /\ t # << >>
  BY <1>4, StackShape, Zenon
<1>8. [stack EXCEPT ![Len(stack)].cb = cb] = t
  <2>1. [stack EXCEPT ![Len(stack)].cb = cb] = [stack EXCEPT ![1] = [stack[1] EXCEPT !.cb = cb]]
    BY <1>1
  <2>2. [stack EXCEPT ![1] = [stack[1] EXCEPT !.cb = cb]] = [stack EXCEPT ![1] = g]
    BY <1>2, <1>3, Zenon
  <2>3. [<<f>> EXCEPT ![1] = g] = <<g>>
    BY StackShape, ZenonT(60)
  <2>4. QED
    BY <1>4, <1>5, <2>1, <2>2, <2>3, Zenon
<1>9. InLibrary(t)
  BY <1>4, <1>6, <1>7 DEF InLibrary
<1>10. FreeingOK(b, t, unforeseen)
  BY <1>6, <1>7 DEF FreeingOK, Freeing
<1>11. RunCallback(b, t, cb, reply)
  BY <1>8, Zenon
<1>12. IsSeq(given) /\ IsSeq(ran) /\ unforeseen \in BOOLEAN
  BY DEF AsyncInv
<1>13. QED
  BY <1>9, <1>10, <1>11, <1>12, CallbackRun

\* __redisGetSubscribeCallback takes a callback of the invalid commands only to
\* hand it out.
LEMMA SubscribeCallback ==
    ASSUME NEW a, NEW reply, NEW cb, ContextOK(a)
    PROVE  LET got == GetSubscribeCallback(a, reply, cb) IN
           /\ ContextOK(got.a) /\ got.a.live = a.live /\ got.a.flags \subseteq a.flags
           /\ got.a.replies = a.replies
           /\ \A n : InQueue(a.invalid, n) => n = got.cb.fn \/ InQueue(got.a.invalid, n)
<1>1. PICK got : got = GetSubscribeCallback(a, reply, cb)
  OBVIOUS
<1>2. CASE reply.type # "array" /\ a.invalid # << >>
  <2>1. PICK b : b = [a EXCEPT !.invalid = Tail(a.invalid)]
    OBVIOUS
  <2>2. got.a = b /\ got.cb = Head(a.invalid)
    BY <1>1, <1>2, <2>1 DEF GetSubscribeCallback
  <2>3. /\ IsSeq(Tail(a.invalid))
        /\ \A n : InQueue(a.invalid, n) => n = Head(a.invalid).fn \/ InQueue(Tail(a.invalid), n)
    BY <1>2, CallbackTaken DEF ContextOK
  <2>4. /\ ContextOK(b) /\ b.flags = a.flags /\ b.live = a.live
        /\ b.replies = a.replies /\ b.invalid = Tail(a.invalid)
    BY <2>1, <2>3, InvalidChanged
  <2>5. QED
    BY <1>1, <2>2, <2>3, <2>4
<1>3. CASE reply.type # "array" /\ a.invalid = << >>
  <2>1. PICK b : b = [a EXCEPT !.invalid = a.invalid]
    OBVIOUS
  <2>2. got.a = b
    BY <1>1, <1>3, <2>1 DEF GetSubscribeCallback
  <2>3. /\ ContextOK(b) /\ b.flags = a.flags /\ b.live = a.live
        /\ b.replies = a.replies /\ b.invalid = a.invalid
    BY <2>1, InvalidChanged DEF ContextOK
  <2>4. QED
    BY <1>1, <2>2, <2>3
<1>4. CASE reply.type = "array" /\ ~dictHas(a.subs[reply.pat], reply.name)
  <2>1. got.a = a
    BY <1>1, <1>4 DEF GetSubscribeCallback
  <2>2. QED
    BY <1>1, <2>1
<1>5. CASE reply.type = "array" /\ dictHas(a.subs[reply.pat], reply.name)
  <2>1. PICK tables, F : /\ got.a = [a EXCEPT !.subs = tables, !.flags = F]
                         /\ F \subseteq a.flags
    <3> DEFINE d == a.subs[reply.pat]
               found == dictFind(d, reply.name)
               counted == IF reply.event = "subscribe" THEN [found EXCEPT !.pending = @ - 1] ELSE found
               subs == IF reply.event = "unsubscribe" /\ counted.pending = 0
                       THEN [a.subs EXCEPT ![reply.pat] = dictDelete(d, reply.name)]
                       ELSE [a.subs EXCEPT ![reply.pat] = SetValue(d, reply.name, counted)]
               over == /\ reply.event = "unsubscribe" /\ reply.count = 0
                       /\ subs[TRUE].used + subs[FALSE].used = 0
               flags == IF over THEN a.flags \ {"subscribed"} ELSE a.flags
    <3>1. got.a = [a EXCEPT !.subs = subs, !.flags = flags]
      BY <1>1, <1>5 DEF GetSubscribeCallback
    <3>2. flags \subseteq a.flags
      OBVIOUS
    <3> HIDE DEF subs, flags
    <3>3. QED
      BY <3>1, <3>2
  <2>2. /\ ContextOK(got.a) /\ got.a.flags = F /\ got.a.live = a.live
        /\ got.a.replies = a.replies /\ got.a.invalid = a.invalid
    BY <2>1 DEF ContextOK
  <2>3. QED
    BY <1>1, <2>1, <2>2
<1>6. QED
  BY <1>2, <1>3, <1>4, <1>5
\* No reply is left: the loop ends, or a disconnection that was asked for comes.
LEMMA NoReplyLeftStep ==
    ASSUME AsyncInv, ac.live, Top.at = "process", NoReplyLeft,
           given' = given, unforeseen' = unforeseen
    PROVE  AsyncInv'
<1>1. ran' = ran /\ Front(stack) = << >> /\ ~Has(ac, "inCallback")
  BY TopCases DEF NoReplyLeft
<1>2. ContextOK(ac) /\ IsSeq(given) /\ IsSeq(ran) /\ unforeseen \in BOOLEAN
  BY DEF AsyncInv
<1>3. \A n \in DOMAIN given : IsRegular(given, n) => n \in ToSet(ran) \/ Waits(ac, n)
  BY NotAborted, AllHeld
<1>4. CASE Has(ac, "disconnecting") /\ AsyncDisconnect(ac, Front(stack))
  <2>1. "disconnecting" \in ac.flags /\ AsyncDisconnect(ac, << >>)
    BY <1>1, <1>4 DEF Has
  <2>2. QED
    BY <1>1, <1>2, <1>3, <2>1, Disconnected
<1>5. CASE /\ ac' = IF Has(ac, "monitoring") THEN [ac EXCEPT !.replies = Append(@, Top.cb)] ELSE ac
           /\ stack' = Front(stack)
  <2>1. /\ ContextOK(ac') /\ ac'.flags = ac.flags /\ ac'.live = ac.live
        /\ \A n : Waits(ac, n) => Waits(ac', n)
    <3>1. CASE ac' = ac
      BY <1>2, <3>1
    <3>2. CASE ac' = [ac EXCEPT !.replies = Append(@, Top.cb)]
      <4>1. PICK cb : cb = Top.cb
        OBVIOUS
      <4>2. PICK q : q = Append(ac.replies, cb)
        OBVIOUS
      <4>3. IsSeq(ac.replies)
        BY <1>2 DEF ContextOK
      <4>4. IsSeq(q) /\ \A n : InQueue(ac.replies, n) => InQueue(q, n)
        BY <4>2, <4>3, CallbackAdded, Zenon
      <4>5. ac' = [ac EXCEPT !.replies = q]
        BY <3>2, <4>1, <4>2
      <4>6. /\ ContextOK(ac') /\ ac'.flags = ac.flags /\ ac'.live = ac.live
            /\ ac'.replies = q /\ ac'.invalid = ac.invalid
        BY <1>2, <4>4, <4>5, RepliesChanged
      <4>7. QED
        BY <4>4, <4>6, Zenon DEF Waits
    <3>3. QED
      BY <1>5, <3>1, <3>2
  <2>2. stack' = << >>
    BY <1>1, <1>5
  <2>3. StackOK(ac', << >>) /\ FreeingOK(ac', << >>, unforeseen')
    BY <1>1, <2>1 DEF StackOK, FreeingOK, Freeing, Has
  <2>4. HeldOK(ac', << >>, given, ran)
    BY <1>3, <2>1 DEF HeldOK
  <2>5. QED
    BY <1>1, <1>2, <2>1, <2>2, <2>3, <2>4 DEF AsyncInv
<1>6. QED
  BY <1>4, <1>5 DEF NoReplyLeft

\* A reply is read: it goes to a callback, fails the context, or is one that
\* nobody can have asked for.
LEMMA ReplyReadStep ==
    ASSUME AsyncInv, ac.live, Top.at = "process", ReplyRead,
           given' = given, unforeseen' = unforeseen
    PROVE  AsyncInv'
<1>1. Front(stack) = << >> /\ ~Has(ac, "inCallback")
  BY TopCases
<1>2. ContextOK(ac) /\ IsSeq(given) /\ IsSeq(ran) /\ unforeseen \in BOOLEAN
  BY DEF AsyncInv
<1>3. \A n \in DOMAIN given : IsRegular(given, n) => n \in ToSet(ran) \/ Waits(ac, n)
  BY NotAborted, AllHeld
<1>4. PICK reply, a : reply = Head(ac.inbuf) /\ a = [ac EXCEPT !.inbuf = Tail(ac.inbuf)]
  OBVIOUS
<1>5. /\ ContextOK(a) /\ a.flags = ac.flags /\ a.live = ac.live /\ a.err = ac.err
      /\ a.replies = ac.replies /\ a.invalid = ac.invalid
  BY <1>2, <1>4, InbufChanged
<1>6. a.live /\ ~Has(a, "inCallback") /\ \A n : Waits(ac, n) => Waits(a, n)
  BY <1>1, <1>5 DEF Has, Waits
<1>7. CASE AsyncDisconnect([a EXCEPT !.err = TRUE], Front(stack)) /\ ran' = ran
  <2>1. PICK b : b = [a EXCEPT !.err = TRUE]
    OBVIOUS
  <2>2. /\ ContextOK(b) /\ b.flags = a.flags /\ b.live = a.live /\ b.err = TRUE
        /\ b.replies = a.replies /\ b.invalid = a.invalid
    BY <1>5, <2>1, ErrChanged
  <2>3. \A n \in DOMAIN given : IsRegular(given, n) => n \in ToSet(ran) \/ Waits(b, n)
    BY <1>3, <1>6, <2>2 DEF Waits
  <2>4. b.live /\ ~Has(b, "inCallback") /\ b.err
    BY <1>6, <2>2 DEF Has
  <2>5. AsyncDisconnect(b, << >>)
    BY <1>1, <1>7, <2>1
  <2>6. QED
    BY <1>2, <1>7, <2>2, <2>3, <2>4, <2>5, Disconnected
<1>8. CASE /\ ac.replies # << >>
           /\ RunCallback([a EXCEPT !.replies = Tail(@)],
                          [stack EXCEPT ![Len(stack)].cb = Head(ac.replies)], Head(ac.replies), reply)
  <2>1. PICK b : b = [a EXCEPT !.replies = Tail(ac.replies)]
    OBVIOUS
  <2>2. /\ IsSeq(Tail(ac.replies))
        /\ \A n : InQueue(ac.replies, n) => n = Head(ac.replies).fn \/ InQueue(Tail(ac.replies), n)
    BY <1>2, <1>8, CallbackTaken DEF ContextOK
  <2>3. /\ ContextOK(b) /\ b.flags = a.flags /\ b.live = a.live
        /\ b.replies = Tail(ac.replies) /\ b.invalid = a.invalid
    BY <1>5, <2>1, <2>2, RepliesChanged
  <2>4. \A n \in DOMAIN given : IsRegular(given, n) =>
            n \in ToSet(ran) \/ n = Head(ac.replies).fn \/ Waits(b, n)
    BY <1>3, <1>5, <2>2, <2>3, Zenon DEF Waits
  <2>5. b.live /\ ~Has(b, "inCallback")
    BY <1>6, <2>3 DEF Has
  <2>6. RunCallback(b, [stack EXCEPT ![Len(stack)].cb = Head(ac.replies)], Head(ac.replies), reply)
    BY <1>5, <1>8, <2>1
  <2>7. PICK cb : cb = Head(ac.replies)
    OBVIOUS
  <2>8. /\ RunCallback(b, [stack EXCEPT ![Len(stack)].cb = cb], cb, reply)
        /\ \A n \in DOMAIN given : IsRegular(given, n) => n \in ToSet(ran) \/ n = cb.fn \/ Waits(b, n)
    BY <2>4, <2>6, <2>7, Zenon
  <2>9. QED
    BY <2>3, <2>5, <2>8, Dispatched, Zenon
<1>9. CASE LET got == GetSubscribeCallback(a, reply, Top.cb) IN
           RunCallback(got.a, [stack EXCEPT ![Len(stack)].cb = got.cb], got.cb, reply)
  <2>1. PICK got : got = GetSubscribeCallback(a, reply, Top.cb)
    OBVIOUS
  <2>2. PICK b, cb : b = got.a /\ cb = got.cb
    OBVIOUS
  <2>3. /\ ContextOK(b) /\ b.live = a.live /\ b.flags \subseteq a.flags /\ b.replies = a.replies
        /\ \A n : InQueue(a.invalid, n) => n = cb.fn \/ InQueue(b.invalid, n)
    BY <1>5, <2>1, <2>2, SubscribeCallback, Zenon
  <2>4. b.live /\ ~Has(b, "inCallback")
    BY <1>6, <2>3 DEF Has
  <2>5. \A n \in DOMAIN given : IsRegular(given, n) => n \in ToSet(ran) \/ n = cb.fn \/ Waits(b, n)
    BY <1>3, <1>5, <2>3, Zenon DEF Waits
  <2>6. RunCallback(b, [stack EXCEPT ![Len(stack)].cb = cb], cb, reply)
    BY <1>9, <2>1, <2>2, Zenon
  <2>7. QED
    BY <2>3, <2>4, <2>5, <2>6, Dispatched, Zenon
<1>10. CASE RunCallback(a, [stack EXCEPT ![Len(stack)].cb = Top.cb], Top.cb, reply)
  <2>1. PICK cb : cb = Top.cb
    OBVIOUS
  <2>2. RunCallback(a, [stack EXCEPT ![Len(stack)].cb = cb], cb, reply)
    BY <1>10, <2>1, Zenon
  <2>3. \A n \in DOMAIN given : IsRegular(given, n) => n \in ToSet(ran) \/ n = cb.fn \/ Waits(a, n)
    BY <1>3, <1>6
  <2>4. QED
    BY <1>5, <1>6, <2>2, <2>3, Dispatched, Zenon
<1>11. CASE ac' = a /\ stack' = <<Frame("aborted")>> /\ ran' = ran
  <2>1. PICK t : t = <<Frame("aborted")>>
    OBVIOUS
  <2>2. t[1].at = "aborted"
    BY <2>1, AbortedFrame, Zenon
  <2>3. StackOK(a, t)
    BY <1>6, <2>1 DEF StackOK
  <2>4. FreeingOK(a, t, unforeseen)
    BY <2>2 DEF FreeingOK, Freeing
  <2>5. HeldOK(a, t, given, ran)
    BY <2>1 DEF HeldOK
  <2>6. QED
    BY <1>2, <1>5, <1>11, <2>1, <2>3, <2>4, <2>5 DEF AsyncInv
<1>12. QED
  <2>1. CASE reply.type = "bad"
    BY <1>4, <1>7, <2>1 DEF ReplyRead
  <2>2. CASE reply.type # "bad" /\ ac.replies # << >>
    BY <1>4, <1>8, <2>2 DEF ReplyRead
  <2>3. CASE reply.type = "error" /\ ac.replies = << >>
    BY <1>4, <1>7, <2>3 DEF ReplyRead
  <2>4. CASE reply.type \notin {"bad", "error"} /\ ac.replies = << >>
    BY <1>4, <1>9, <1>10, <1>11, <2>4 DEF ReplyRead
  <2>5. QED
    BY <2>1, <2>2, <2>3, <2>4
\* The loop of a timeout, which has left an error.
LEMMA TimedOutStep ==
    ASSUME AsyncInv, TimedOut
    PROVE  AsyncInv'
<1>1. ac.live /\ Top.at = "timeout" /\ given' = given /\ unforeseen' = unforeseen
  BY DEF TimedOut, library
<1>2. /\ InLibrary(stack) /\ ~Has(ac, "inCallback") /\ Front(stack) = << >>
      /\ stack[1].at = "timeout" /\ stack # << >>
  <2>1. InLibrary(stack) /\ ~Has(ac, "inCallback") /\ Front(stack) = << >> /\ Top = stack[1]
    BY <1>1, TopCases
  <2>2. stack # << >>
    BY <2>1, StackShape, Zenon DEF InLibrary
  <2>3. QED
    BY <1>1, <2>1, <2>2
<1>3. ContextOK(ac) /\ IsSeq(given) /\ IsSeq(ran) /\ unforeseen \in BOOLEAN /\ ac.err
  BY <1>2 DEF AsyncInv, FreeingOK
<1>4. \A n \in DOMAIN given : IsRegular(given, n) => n \in ToSet(ran) \/ Waits(ac, n)
  BY <1>1, NotAborted, AllHeld
<1>5. CASE ac.replies # << >>
  <2>1. PICK a : a = [ac EXCEPT !.replies = Tail(ac.replies)]
    OBVIOUS
  <2>2. IsSeq(Tail(ac.replies))
        /\ \A n : InQueue(ac.replies, n) => n = Head(ac.replies).fn \/ InQueue(Tail(ac.replies), n)
    BY <1>3, <1>5, CallbackTaken DEF ContextOK
  <2>3. /\ ContextOK(a) /\ a.flags = ac.flags /\ a.live = ac.live /\ a.err = ac.err
        /\ a.replies = Tail(ac.replies) /\ a.invalid = ac.invalid
    BY <1>3, <2>1, <2>2, RepliesChanged
  <2>4. FreeingOK(a, stack, unforeseen)
    BY <1>2, <1>3, <2>3 DEF FreeingOK, Freeing
  <2>5. \A n \in DOMAIN given : IsRegular(given, n) =>
            n \in ToSet(ran) \/ n = Head(ac.replies).fn \/ Waits(a, n)
    BY <1>4, <2>2, <2>3, Zenon DEF Waits
  <2>6. ~Has(a, "inCallback") /\ a.live
    BY <1>1, <1>2, <2>3 DEF Has
  <2>7. RunCallback(a, stack, Head(ac.replies), NullReply)
    BY <1>5, <2>1 DEF TimedOut
  <2>8. QED
    BY <1>1, <1>2, <1>3, <2>3, <2>4, <2>5, <2>6, <2>7, CallbackRun
<1>6. CASE ac.replies = << >>
  <2>1. AsyncDisconnect(ac, << >>) /\ ran' = ran
    BY <1>2, <1>6 DEF TimedOut
  <2>2. QED
    BY <1>1, <1>2, <1>3, <1>4, <2>1, Disconnected
<1>7. QED
  BY <1>5, <1>6

-----------------------------------------------------------------------------
\* The events

\* Between handlers nothing of the library runs.
LEMMA LoopFacts ==
    ASSUME AsyncInv, LoopRuns
    PROVE  /\ ac.live /\ stack = << >> /\ ~Has(ac, "inCallback")
           /\ ContextOK(ac) /\ IsSeq(given) /\ IsSeq(ran) /\ unforeseen \in BOOLEAN
           /\ \A n \in DOMAIN given : IsRegular(given, n) => n \in ToSet(ran) \/ Waits(ac, n)
<1>1. ac.live /\ Top.at = "loop"
  BY DEF LoopRuns
<1>2. stack = << >> /\ ~Has(ac, "inCallback")
  BY <1>1, TopCases
<1>3. \A n \in DOMAIN given : IsRegular(given, n) => n \in ToSet(ran) \/ Waits(ac, n)
  BY <1>1, NotAborted, AllHeld
<1>4. QED
  BY <1>1, <1>2, <1>3 DEF AsyncInv

\* A handler leaves the context to the loop, to redisProcessCallbacks or to the
\* loop of a timeout.
LEMMA HandlerEnds ==
    ASSUME AsyncInv, LoopRuns, NEW a, ContextOK(a), a.live, ~Has(a, "inCallback"),
           a.replies = ac.replies, a.invalid = ac.invalid, ac' = a,
           \/ stack' = << >>
           \/ stack' = <<Frame("process")>>
           \/ stack' = <<Frame("timeout")>> /\ a.err,
           given' = given, ran' = ran, unforeseen' = unforeseen
    PROVE  AsyncInv'
<1>1. /\ IsSeq(given) /\ IsSeq(ran) /\ unforeseen \in BOOLEAN
      /\ \A n \in DOMAIN given : IsRegular(given, n) => n \in ToSet(ran) \/ Waits(ac, n)
  BY LoopFacts
<1>2. HeldOK(a, stack', given, ran)
  BY <1>1, SameWaits DEF HeldOK
<1>3. CASE stack' = << >>
  <2>1. StackOK(a, << >>) /\ FreeingOK(a, << >>, unforeseen)
    BY DEF StackOK, FreeingOK, Freeing
  <2>2. QED
    BY <1>1, <1>2, <1>3, <2>1 DEF AsyncInv
<1>4. ASSUME NEW at \in {"process", "timeout"}, stack' = <<Frame(at)>>, at = "timeout" => a.err
      PROVE  AsyncInv'
  <2>1. PICK t : t = <<Frame(at)>>
    OBVIOUS
  <2>2. InLibrary(t) /\ t[1].at = at
    BY <2>1, FreshFrame, StackShape, Zenon
  <2>3. StackOK(a, t)
    BY <2>2 DEF StackOK
  <2>4. FreeingOK(a, t, unforeseen)
    BY <1>4, <2>2 DEF FreeingOK, Freeing
  <2>5. QED
    BY <1>1, <1>2, <1>4, <2>1, <2>3, <2>4 DEF AsyncInv
<1>5. QED
  BY <1>3, <1>4

\* A handler disconnects a context that has failed, or would block.
LEMMA HandlerFails ==
    ASSUME AsyncInv, LoopRuns, NEW a, ContextOK(a), a.live, ~Has(a, "inCallback"),
           a.replies = ac.replies, a.invalid = ac.invalid, NEW err \in BOOLEAN,
           AsyncDisconnect([a EXCEPT !.err = err], << >>),
           unforeseen' \in BOOLEAN, err \/ unforeseen',
           given' = given, ran' = ran
    PROVE  AsyncInv'
<1>1. PICK b : b = [a EXCEPT !.err = err]
  OBVIOUS
<1>2. /\ ContextOK(b) /\ b.flags = a.flags /\ b.live = a.live /\ b.err = err
      /\ b.replies = ac.replies /\ b.invalid = ac.invalid
  BY <1>1, ErrChanged, ZenonT(60)
<1>3. /\ IsSeq(given) /\ IsSeq(ran)
      /\ \A n \in DOMAIN given : IsRegular(given, n) => n \in ToSet(ran) \/ Waits(ac, n)
  BY LoopFacts
<1>4. \A n \in DOMAIN given : IsRegular(given, n) => n \in ToSet(ran) \/ Waits(b, n)
  BY <1>2, <1>3, SameWaits
<1>5. b.live /\ ~Has(b, "inCallback") /\ (b.err \/ unforeseen')
  BY <1>2 DEF Has
<1>6. AsyncDisconnect(b, << >>)
  BY <1>1
<1>7. QED
  BY <1>2, <1>3, <1>4, <1>5, <1>6, Disconnected
LEMMA HandleWriteStep ==
    ASSUME AsyncInv, redisAsyncHandleWrite
    PROVE  AsyncInv'
<1>1. LoopRuns /\ (Write(Connected) \/ ConnectFails)
  BY DEF redisAsyncHandleWrite
<1>2. /\ ac.live /\ stack = << >> /\ ~Has(ac, "inCallback") /\ ContextOK(ac) /\ unforeseen \in BOOLEAN
  BY <1>1, LoopFacts
<1>3. CASE ConnectFails
  <2>1. /\ AsyncDisconnect([ac EXCEPT !.err = TRUE], << >>)
        /\ given' = given /\ ran' = ran /\ unforeseen' = unforeseen
    BY <1>3 DEF ConnectFails, loop
  <2>2. QED
    BY <1>1, <1>2, <2>1, HandlerFails
<1>4. CASE Write(Connected)
  <2>1. PICK a : a = Connected
    OBVIOUS
  <2>2. /\ ContextOK(a) /\ a.flags = ac.flags \cup {"connected"} /\ a.live = ac.live
        /\ a.replies = ac.replies /\ a.invalid = ac.invalid
    BY <1>2, <2>1, FlagsChanged DEF Connected
  <2>3. a.live /\ ~Has(a, "inCallback")
    BY <1>2, <2>2 DEF Has
  <2>4. CASE \E o, e : /\ ac' = [a EXCEPT !.obuf = o, !.ev = e] /\ stack' = stack
                       /\ given' = given /\ ran' = ran /\ unforeseen' = unforeseen
    <3>1. PICK o, e : ac' = [a EXCEPT !.obuf = o, !.ev = e]
      BY <2>4
    <3>2. PICK b : b = [a EXCEPT !.obuf = o, !.ev = e]
      OBVIOUS
    <3>3. /\ ContextOK(b) /\ b.flags = a.flags /\ b.live = a.live
          /\ b.replies = a.replies /\ b.invalid = a.invalid
      BY <2>2, <3>2 DEF ContextOK
    <3>4. b.live /\ ~Has(b, "inCallback") /\ b.replies = ac.replies /\ b.invalid = ac.invalid
      BY <2>2, <2>3, <3>3 DEF Has
    <3>5. ac' = b /\ stack' = << >> /\ given' = given /\ ran' = ran /\ unforeseen' = unforeseen
      BY <1>2, <2>4, <3>1, <3>2
    <3>6. QED
      BY <1>1, <3>3, <3>4, <3>5, HandlerEnds
  <2>5. CASE \E err \in BOOLEAN : /\ AsyncDisconnect([a EXCEPT !.err = err], << >>)
                                  /\ unforeseen' = (unforeseen \/ ~err)
                                  /\ given' = given /\ ran' = ran
    <3>1. PICK err \in BOOLEAN : /\ AsyncDisconnect([a EXCEPT !.err = err], << >>)
                                 /\ unforeseen' = (unforeseen \/ ~err)
                                 /\ given' = given /\ ran' = ran
      BY <2>5
    <3>2. unforeseen' \in BOOLEAN /\ (err \/ unforeseen')
      BY <1>2, <3>1
    <3>3. QED
      BY <1>1, <2>2, <2>3, <3>1, <3>2, HandlerFails
  <2>6. QED
    <3>1. Write(a)
      BY <1>4, <2>1
    <3>2. CASE \E k \in 0..Len(a.obuf) :
                 /\ ac' = [a EXCEPT !.obuf = SubSeq(@, k + 1, Len(@)),
                                    !.ev = (IF k = Len(a.obuf) THEN @ \ {"write"} ELSE @) \cup {"read"}]
                 /\ UNCHANGED <<stack, loop, disturbed>>
      <4>1. PICK k \in 0..Len(a.obuf) :
                 /\ ac' = [a EXCEPT !.obuf = SubSeq(@, k + 1, Len(@)),
                                    !.ev = (IF k = Len(a.obuf) THEN @ \ {"write"} ELSE @) \cup {"read"}]
                 /\ UNCHANGED <<stack, loop, disturbed>>
        BY <3>2
      <4>2. PICK o, e : /\ o = SubSeq(a.obuf, k + 1, Len(a.obuf))
                        /\ e = (IF k = Len(a.obuf) THEN a.ev \ {"write"} ELSE a.ev) \cup {"read"}
        OBVIOUS
      <4>3. /\ ac' = [a EXCEPT !.obuf = o, !.ev = e] /\ stack' = stack
            /\ given' = given /\ ran' = ran /\ unforeseen' = unforeseen
        BY <4>1, <4>2 DEF loop
      <4>4. QED
        BY <2>4, <4>3
    <3>3. QED
      BY <2>5, <3>1, <3>2 DEF Write
<1>5. QED
  BY <1>1, <1>3, <1>4

LEMMA HandleReadStep ==
    ASSUME AsyncInv, redisAsyncHandleRead
    PROVE  AsyncInv'
<1>1. LoopRuns /\ Read(ac)
  BY DEF redisAsyncHandleRead
<1>2. /\ ac.live /\ stack = << >> /\ ~Has(ac, "inCallback") /\ ContextOK(ac) /\ unforeseen \in BOOLEAN
  BY <1>1, LoopFacts
<1>3. CASE /\ AsyncDisconnect([ac EXCEPT !.err = TRUE], << >>) /\ UNCHANGED loop
  <2>1. given' = given /\ ran' = ran /\ unforeseen' = unforeseen
    BY <1>3 DEF loop
  <2>2. QED
    BY <1>1, <1>2, <1>3, <2>1, HandlerFails
<1>4. CASE \E k \in 0..Len(net.toClient) :
              /\ ac' = [ac EXCEPT !.inbuf = @ \o SubSeq(net.toClient, 1, k), !.ev = @ \cup {"read"}]
              /\ stack' = <<Frame("process")>>
              /\ UNCHANGED loop
  <2>1. PICK k \in 0..Len(net.toClient) :
              /\ ac' = [ac EXCEPT !.inbuf = @ \o SubSeq(net.toClient, 1, k), !.ev = @ \cup {"read"}]
              /\ stack' = <<Frame("process")>>
              /\ UNCHANGED loop
    BY <1>4
  <2>2. PICK i, e : i = ac.inbuf \o SubSeq(net.toClient, 1, k) /\ e = ac.ev \cup {"read"}
    OBVIOUS
  <2>3. PICK b : b = [ac EXCEPT !.inbuf = i, !.ev = e]
    OBVIOUS
  <2>4. /\ ContextOK(b) /\ b.flags = ac.flags /\ b.live = ac.live
        /\ b.replies = ac.replies /\ b.invalid = ac.invalid
    BY <1>2, <2>3 DEF ContextOK
  <2>5. b.live /\ ~Has(b, "inCallback")
    BY <1>2, <2>4 DEF Has
  <2>6. ac' = b /\ given' = given /\ ran' = ran /\ unforeseen' = unforeseen
    BY <2>1, <2>2, <2>3 DEF loop
  <2>7. QED
    BY <1>1, <2>1, <2>4, <2>5, <2>6, HandlerEnds
<1>5. QED
  BY <1>1, <1>3, <1>4 DEF Read

LEMMA HandleTimeoutStep ==
    ASSUME AsyncInv, redisAsyncHandleTimeout
    PROVE  AsyncInv'
<1>1. PICK b : b = [ac EXCEPT !.err = TRUE]
  OBVIOUS
<1>2. /\ LoopRuns /\ ac' = b /\ stack' = <<Frame("timeout")>>
      /\ given' = given /\ ran' = ran /\ unforeseen' = unforeseen
  BY <1>1 DEF redisAsyncHandleTimeout, loop
<1>3. ac.live /\ ~Has(ac, "inCallback") /\ ContextOK(ac)
  BY <1>2, LoopFacts
<1>4. /\ ContextOK(b) /\ b.flags = ac.flags /\ b.live = ac.live /\ b.err = TRUE
      /\ b.replies = ac.replies /\ b.invalid = ac.invalid
  BY <1>1, <1>3, ErrChanged
<1>5. b.live /\ ~Has(b, "inCallback") /\ b.err
  BY <1>3, <1>4 DEF Has
<1>6. QED
  BY <1>2, <1>4, <1>5, HandlerEnds

-----------------------------------------------------------------------------
\* The invariant

\* It holds for a new context.
LEMMA AsyncInvInit == Init => AsyncInv
<1> SUFFICES ASSUME Init PROVE AsyncInv
  OBVIOUS
<1>2. PICK F, tables : /\ F \in {{}, {"noAutoFree"}} /\ tables = [pat \in BOOLEAN |-> dictCreate]
                       /\ ac = [live |-> TRUE, flags |-> F, err |-> FALSE, replies |-> << >>,
                                invalid |-> << >>, subs |-> tables, obuf |-> << >>,
                                inbuf |-> << >>, ev |-> {"write"}]
  <2>1. PICK tables : tables = [pat \in BOOLEAN |-> dictCreate]
    OBVIOUS
  <2>2. CASE ac = NewContext
    BY <2>1, <2>2 DEF NewContext
  <2>3. CASE ac = [NewContext EXCEPT !.flags = {"noAutoFree"}]
    BY <2>1, <2>3 DEF NewContext
  <2>4. QED
    BY <2>2, <2>3 DEF Init
<1>3. PICK none : none = << >> /\ IsSeq(none)
  <2>1. << >> \in Seq({})
    BY EmptySeq
  <2>2. QED
    BY <2>1, SeqIsSeq
<1>4. ContextOK(ac) /\ ac.flags = F
  BY <1>2, <1>3 DEF ContextOK
<1>5. stack = << >> /\ given = << >> /\ ran = << >> /\ unforeseen = FALSE
  BY DEF Init
<1>6. ~Has(ac, "inCallback")
  BY <1>2, <1>4 DEF Has
<1>7. HeldOK(ac, stack, given, ran)
  BY <1>5 DEF HeldOK
<1>8. QED
  BY <1>3, <1>4, <1>5, <1>6, <1>7 DEF AsyncInv, StackOK, FreeingOK, Freeing

\* Every step keeps it.
LEMMA AsyncInvStep == AsyncInv /\ [Next]_vars => AsyncInv'
<1> SUFFICES ASSUME AsyncInv, [Next]_vars PROVE AsyncInv'
  OBVIOUS
<1>2. CASE redisAsyncCommand
  BY <1>2, RegularStep, SubscribeStep, UnsubscribeStep, Zenon DEF redisAsyncCommand
<1>3. CASE redisAsyncDisconnect
  BY <1>3, AsyncDisconnectStep
<1>4. CASE redisAsyncFree
  BY <1>4, AsyncFreeCalled
<1>5. CASE CallbackReturns
  BY <1>5, CallbackReturnsStep
<1>6. CASE AsyncFree
  BY <1>6, AsyncFreeStep
<1>7. CASE redisProcessCallbacks
  <2>1. /\ ac.live /\ Top.at = "process" /\ given' = given /\ unforeseen' = unforeseen
        /\ NoReplyLeft \/ ReplyRead
    BY <1>7 DEF redisProcessCallbacks, library
  <2>2. QED
    BY <2>1, NoReplyLeftStep, ReplyReadStep
<1>8. CASE TimedOut
  BY <1>8, TimedOutStep
<1>9. CASE redisAsyncHandleWrite
  BY <1>9, HandleWriteStep
<1>10. CASE redisAsyncHandleRead
  BY <1>10, HandleReadStep
<1>11. CASE redisAsyncHandleTimeout
  BY <1>11, HandleTimeoutStep
<1>12. CASE ServerAnswers \/ ServerPushes \/ ServerCloses \/ UNCHANGED vars
  <2>1. ac' = ac /\ stack' = stack /\ given' = given /\ ran' = ran /\ unforeseen' = unforeseen
    <3>1. CASE ServerAnswers
      BY <3>1 DEF ServerAnswers, server
    <3>2. CASE ServerPushes
      BY <3>2 DEF ServerPushes, server
    <3>3. CASE ServerCloses
      BY <3>3 DEF ServerCloses, server
    <3>4. CASE UNCHANGED vars
      BY <3>4 DEF vars
    <3>5. QED
      BY <1>12, <3>1, <3>2, <3>3, <3>4
  <2>2. QED
    BY <2>1 DEF AsyncInv
<1>13. QED
  BY <1>2, <1>3, <1>4, <1>5, <1>6, <1>7, <1>8, <1>9, <1>10, <1>11, <1>12
     DEF Next, LibraryStep

LEMMA AsyncInvHolds == Spec => []AsyncInv
  BY AsyncInvInit, AsyncInvStep, PTL DEF Spec

-----------------------------------------------------------------------------
\* The properties

\* What the invariant says of the stack and of the flag.
LEMMA FreedUnderNobodyInv == AsyncInv => FreedUnderNobody
<1> SUFFICES ASSUME AsyncInv PROVE FreedUnderNobody
  OBVIOUS
<1>2. ac.live \/ stack = << >>
  BY DEF AsyncInv, StackOK
<1>3. ac.live /\ Top.at = "callback" => Has(ac, "inCallback")
  BY TopCases
<1>4. Has(ac, "inCallback") => \E k \in DOMAIN stack : stack[k].at = "callback"
  <2> SUFFICES ASSUME Has(ac, "inCallback") PROVE \E k \in DOMAIN stack : stack[k].at = "callback"
    OBVIOUS
  <2>2. PICK f, g : g = Frame("callback") /\ stack = <<f, g>>
    BY DEF AsyncInv, StackOK, InCallback
  <2>3. g.at = "callback"
    BY <2>2 DEF Frame
  <2>4. 2 \in DOMAIN stack /\ stack[2] = g
    BY <2>2
  <2>5. QED
    BY <2>3, <2>4
<1>5. QED
  BY <1>2, <1>3, <1>4 DEF FreedUnderNobody

(* The context is not freed under anyone: once it is gone neither the       *)
(* library nor a callback is still running on it, and the flag by which     *)
(* redisAsyncFree decides to wait is set while a callback runs and only     *)
(* then, for every set of commands and subscriptions, every number of       *)
(* commands and every failure (async.c:251-258, 309-314, 481-485).          *)
THEOREM FreedUnderNobodyHolds == Spec => []FreedUnderNobody
  BY AsyncInvHolds, FreedUnderNobodyInv, PTL

\* What the invariant says once the context is gone.
LEMMA EveryCallbackRunInv == AsyncInv => EveryCallbackRun
<1>1. SUFFICES ASSUME AsyncInv, ~ac.live PROVE Regulars \subseteq ToSet(ran)
  BY DEF EveryCallbackRun
<1>2. stack = << >>
  BY <1>1 DEF AsyncInv, StackOK
<1>3. stack # <<Frame("aborted")>>
  BY <1>2, StackShape, Zenon
<1>4. \A n \in DOMAIN given : given[n].kind = "get" => n \in ToSet(ran)
  BY <1>1, <1>3 DEF AsyncInv, HeldOK, IsRegular
<1>5. QED
  BY <1>4 DEF Regulars

(* No callback is lost: once the context is gone, by the client, an error,  *)
(* a timeout or the server, every regular command it had accepted has had   *)
(* its callback run, however the callbacks themselves give commands,        *)
(* disconnect or free it (async.c:261-303, 604-606).                        *)
THEOREM EveryCallbackRunHolds == Spec => []EveryCallbackRun
  BY AsyncInvHolds, EveryCallbackRunInv, PTL
=============================================================================
