---------------------------- MODULE CtpQuoteProofs ----------------------------
(***************************************************************************)
(* What CtpQuote keeps, for all instruments, any size of a batch and any   *)
(* number of requests and broken connections: the map, the kline builder   *)
(* and CTP agree up to the callbacks that are due. The callbacks may be    *)
(* many and long on their way, so the invariant is about the last of them. *)
(***************************************************************************)
EXTENDS CtpQuote, QueueLemmas

\* The callback that begins the subscription of t, and those that end it.
Begins(t) == {Rsp("sub", t, TRUE)}
Ends(t)   == {Rsp("unsub", t, TRUE), Notice("disconnected")}

On == {t \in Topics : sub_topics[t] = "on"}

\* What goes over the API. A request has an instrument at least.
Reqs == {LoginReq} \cup {r \in TopicReq : Len(r.topics) \in 1..BatchMax}

AgreeInv == \A t \in Topics :
    Agrees(rsps, Begins(t), Ends(t), Topics, t, On, upstream)

\* What a callback says.
LEMMA CallbackIs ==
    ASSUME NEW e \in Callback
    PROVE  /\ e.kind \in {"sub", "unsub"} => e.topic \in Topics /\ e = Rsp(e.kind, e.topic, e.ok)
           /\ e.kind \notin {"sub", "unsub"} => e = Notice(e.kind)
BY DEF Callback, Rsp, Notice

LEMMA Says ==
    ASSUME NEW t
    PROVE  /\ Begins(t) \cap Ends(t) = {}
           /\ \A kind, u, ok : Rsp(kind, u, ok) \in Begins(t) <=> kind = "sub" /\ u = t /\ ok = TRUE
           /\ \A kind, u, ok : Rsp(kind, u, ok) \in Ends(t) <=> kind = "unsub" /\ u = t /\ ok = TRUE
           /\ \A kind : Notice(kind) \notin Begins(t)
           /\ \A kind : Notice(kind) \in Ends(t) <=> kind = "disconnected"
<1>1. \A kind, u, ok : Rsp(kind, u, ok) \in Begins(t) <=> kind = "sub" /\ u = t /\ ok = TRUE
  BY DEF Begins, Rsp
<1>2. \A kind, kind2, u, ok : Rsp(kind, u, ok) # Notice(kind2)
  BY DEF Rsp, Notice
<1>3. \A kind, u, ok : Rsp(kind, u, ok) = Rsp("unsub", t, TRUE) <=> kind = "unsub" /\ u = t /\ ok = TRUE
  BY DEF Rsp
<1>4. \A kind : Notice(kind) = Notice("disconnected") <=> kind = "disconnected"
  BY DEF Notice
<1>5. Rsp("sub", t, TRUE) # Rsp("unsub", t, TRUE)
  BY DEF Rsp
<1> QED BY <1>1, <1>2, <1>3, <1>4, <1>5, Zenon DEF Begins, Ends

\* The first callback.
LEMMA First ==
    ASSUME rsps \in Seq(Callback), rsps # <<>>
    PROVE  Head(rsps) \in Callback /\ Tail(rsps) \in Seq(Callback)
BY HeadTailProperties

\* The instruments in the map and not subscribed are instruments.
LEMMA OffType == Off \in Seq(Topics)
<1> DEFINE s == [i \in DOMAIN TopicOrder |->
                    IF sub_topics[TopicOrder[i]] = "off" THEN <<TopicOrder[i]>> ELSE <<>>]
<1>1. TopicOrder \in Seq(Topics)
  BY CtpQuoteAssumption
<1>2. DOMAIN TopicOrder = 1..Len(TopicOrder) /\ Len(TopicOrder) \in Nat
      /\ \A i \in DOMAIN TopicOrder : TopicOrder[i] \in Topics
  BY <1>1
<1>3. \A i \in DOMAIN TopicOrder : <<TopicOrder[i]>> \in Seq(Topics)
  BY <1>2
<1>4. <<>> \in Seq(Topics)
  OBVIOUS
<1>5. s \in Seq(Seq(Topics)) /\ Len(s) = Len(TopicOrder)
      /\ \A i \in 1..Len(s) : s[i] \in Seq(Topics)
  BY <1>2, <1>3, <1>4
<1>6. Off = FlattenSeq(s)
  BY DEF Off, FlattenSeq, FlattenSeq
<1> HIDE DEF s
<1>7. \A i \in 1..Len(s) : s[i] \in Seq(Topics)
                           /\ \A a \in Seq(Topics) : a \o s[i] \in Seq(Topics)
  BY <1>5, ConcatProperties
<1> QED BY <1>4, <1>5, <1>6, <1>7, FlattenIn

\* What division by the size of a batch gives.
LEMMA BatchBounds ==
    ASSUME NEW n \in Nat, NEW b \in Nat \ {0}, NEW i \in 1..((n + b - 1) \div b)
    PROVE  (i - 1) * b < n /\ (i - 1) * b \in Nat /\ i * b = (i - 1) * b + b
<1> DEFINE q == (n + b - 1) \div b
<1>1. q \in Nat /\ b * q <= n + b - 1
  OBVIOUS
<1> HIDE DEF q
<1>2. PICK k \in Nat : k = i - 1
  BY <1>1 DEF q
<1>3. k + 1 <= q
  BY <1>1, <1>2 DEF q
<1>4. b * (k + 1) <= b * q
  BY <1>1, <1>3
<1>5. b * (k + 1) = k * b + b /\ k * b \in Nat
  OBVIOUS
<1>6. k * b < n
  BY <1>1, <1>4, <1>5
<1> QED BY <1>2, <1>5, <1>6

\* The calls of SubTopics have from one to BatchMax instruments.
LEMMA BatchesType ==
    ASSUME NEW s \in Seq(Topics)
    PROVE  Batches(s) \in Seq(Reqs)
<1>0. PICK n \in Nat : n = Len(s)
  OBVIOUS
<1>1. BatchMax \in Nat \ {0}
  BY CtpQuoteAssumption
<1>2. (n + BatchMax - 1) \div BatchMax \in Nat
  BY <1>1
<1>3. ASSUME NEW i \in 1..((n + BatchMax - 1) \div BatchMax)
      PROVE  [op |-> "sub",
              topics |-> SubSeq(s, (i - 1) * BatchMax + 1,
                                IF i * BatchMax < Len(s) THEN i * BatchMax ELSE Len(s))] \in Reqs
  <2>1. PICK k \in Nat : k = (i - 1) * BatchMax /\ k < n /\ i * BatchMax = k + BatchMax
    BY <1>1, BatchBounds
  <2>2. PICK m \in Nat : m = IF i * BatchMax < Len(s) THEN i * BatchMax ELSE Len(s)
    <3>1. PICK m \in Nat : m = IF k + BatchMax < n THEN k + BatchMax ELSE n
      BY <1>1
    <3> QED BY <1>0, <2>1, <3>1
  <2>3. k + 1 <= m /\ m <= k + BatchMax /\ m <= n
    BY <1>0, <1>1, <2>1, <2>2
  <2>4. SubSeq(s, k + 1, m) \in Seq(Topics) /\ Len(SubSeq(s, k + 1, m)) \in 1..BatchMax
    <3>1. \A j \in (k + 1)..m : s[j] \in Topics
      BY <1>0, <2>3
    <3>2. Len(SubSeq(s, k + 1, m)) = m - k /\ m - k \in 1..BatchMax
      BY <2>3, <1>1
    <3> QED BY <3>1, <3>2, <2>3
  <2>5. [op |-> "sub", topics |-> SubSeq(s, k + 1, m)] \in Reqs
    BY <2>4 DEF Reqs, TopicReq
  <2> QED BY <2>1, <2>2, <2>5
<1> QED BY <1>0, <1>2, <1>3 DEF Batches
StateTypes ==
    /\ sub_topics \in [Topics -> {"none", "off", "on"}]
    /\ klines \subseteq Topics
    /\ http \in {Idle} \cup {Call(op, t) : op \in {"sub", "unsub"}, t \in Topics}
    /\ link \in {"down", "up", "in"} /\ upstream \subseteq Topics
    /\ alive \in BOOLEAN
    /\ asked \in [Topics -> {"nothing", "sub", "unsub"}]
    /\ calls \in 0..MaxCalls /\ losses \in 0..MaxLosses

TypeInv == StateTypes /\ reqs \in Seq(Reqs) /\ rsps \in Seq(Callback)

IInv == TypeInv /\ AgreeInv /\ KlinesFollow

\* What the sequences say of TypeOK.
LEMMA Queued ==
    ASSUME NEW rq \in Seq(Reqs), NEW rp \in Seq(Callback)
    PROVE  /\ \A i \in DOMAIN rq : \/ rq[i] = LoginReq
                                   \/ rq[i] \in TopicReq /\ Len(rq[i].topics) \in 1..BatchMax
           /\ \A i \in DOMAIN rp : rp[i] \in Callback
<1>1. \A i \in DOMAIN rq : rq[i] \in Reqs
  OBVIOUS
<1>2. \A i \in DOMAIN rp : rp[i] \in Callback
  OBVIOUS
<1>3. \A r \in Reqs : r = LoginReq \/ (r \in TopicReq /\ Len(r.topics) \in 1..BatchMax)
  BY Zenon DEF Reqs
<1> QED BY <1>1, <1>2, <1>3, Zenon

\* A request of one instrument.
LEMMA CallType ==
    ASSUME NEW op \in {"sub", "unsub"}, NEW t \in Topics
    PROVE  Call(op, t) \in Reqs
<1>1. <<t>> \in Seq(Topics) /\ Len(<<t>>) = 1 /\ 1 \in 1..BatchMax
  BY CtpQuoteAssumption
<1> QED BY <1>1 DEF Call, Reqs, TopicReq

\* What is asked of the API is a sequence of requests.
LEMMA RequestType ==
    ASSUME reqs \in Seq(Reqs), NEW rs \in Seq(Reqs), Request(rs)
    PROVE  reqs' \in Seq(Reqs)
BY ConcatProperties DEF Request

\* What is left of a request when its first instrument is served.
LEMMA ServedType ==
    ASSUME reqs \in Seq(Reqs), reqs # <<>>, Head(reqs) # LoginReq
    PROVE  LET r == Head(reqs) IN
           /\ r.op \in {"sub", "unsub"} /\ Head(r.topics) \in Topics
           /\ (IF Len(r.topics) = 1 THEN Tail(reqs)
               ELSE <<[r EXCEPT !.topics = Tail(@)]>> \o Tail(reqs)) \in Seq(Reqs)
<1>1. PICK r : r = Head(reqs)
  OBVIOUS
<1>2. r \in Reqs /\ Tail(reqs) \in Seq(Reqs)
  BY <1>1, HeadTailProperties
<1>3. r \in TopicReq /\ Len(r.topics) \in 1..BatchMax
  BY <1>1, <1>2 DEF Reqs
<1>4. PICK ts : ts = r.topics
  OBVIOUS
<1>5. ts \in Seq(Topics) /\ r.op \in {"sub", "unsub"} /\ r = [op |-> r.op, topics |-> ts]
  BY <1>3, <1>4 DEF TopicReq
<1>6. ts # <<>> /\ Head(ts) \in Topics
  BY <1>3, <1>4, <1>5
<1>7. Len(ts) # 1 => Tail(ts) \in Seq(Topics) /\ Len(Tail(ts)) \in 1..BatchMax
  <2>1. Len(ts) \in 1..BatchMax /\ BatchMax \in Nat
    BY <1>3, <1>4, CtpQuoteAssumption
  <2>2. Tail(ts) \in Seq(Topics) /\ Len(Tail(ts)) = Len(ts) - 1
    BY <1>5, <1>6, HeadTailProperties
  <2> QED BY <2>1, <2>2
<1>8. Len(ts) # 1 => <<[r EXCEPT !.topics = Tail(@)]>> \o Tail(reqs) \in Seq(Reqs)
  <2>1. [r EXCEPT !.topics = Tail(@)] = [op |-> r.op, topics |-> Tail(ts)]
    <3>1. \A o, u, v : [[op |-> o, topics |-> u] EXCEPT !.topics = v] = [op |-> o, topics |-> v]
      OBVIOUS
    <3>2. PICK o : o = r.op
      OBVIOUS
    <3>3. r = [op |-> o, topics |-> ts]
      BY <1>5, <3>2, Zenon
    <3>4. PICK v : v = Tail(ts)
      OBVIOUS
    <3>5. [r EXCEPT !.topics = v] = [op |-> o, topics |-> v]
      BY <3>1, <3>3, Zenon
    <3> QED BY <1>4, <3>2, <3>4, <3>5
  <2>2. Len(ts) # 1 => [op |-> r.op, topics |-> Tail(ts)] \in Reqs
    BY <1>5, <1>7 DEF Reqs, TopicReq
  <2>3. PICK e : e = [r EXCEPT !.topics = Tail(@)]
    OBVIOUS
  <2>4. Len(ts) # 1 => <<e>> \in Seq(Reqs)
    BY <2>1, <2>2, <2>3
  <2>5. Len(ts) # 1 => <<e>> \o Tail(reqs) \in Seq(Reqs)
    BY <1>2, <2>4, ConcatProperties
  <2> QED BY <2>3, <2>5
<1> QED BY <1>1, <1>2, <1>4, <1>5, <1>6, <1>8

LEMMA TypeInit == ASSUME Init PROVE TypeInv
<1>1. reqs \in Seq(Reqs) /\ rsps \in Seq(Callback) /\ reqs = <<>> /\ rsps = <<>>
  BY DEF Init
<1>2. sub_topics \in [Topics -> {"none", "off", "on"}]
      /\ asked \in [Topics -> {"nothing", "sub", "unsub"}]
  BY DEF Init
<1> QED BY <1>1, <1>2, CtpQuoteAssumption DEF Init, TypeInv, StateTypes

LEMMA TypeStep ==
    ASSUME TypeInv, [Next]_vars
    PROVE  TypeInv'
<1>0. MaxCalls \in Nat /\ MaxLosses \in Nat /\ BatchMax \in Nat \ {0}
  BY CtpQuoteAssumption
<1>p. StateTypes /\ reqs \in Seq(Reqs) /\ rsps \in Seq(Callback)
  BY DEF TypeInv
<1>t. rsps # <<>> => Tail(rsps) \in Seq(Callback)
  BY <1>p, HeadTailProperties
<1>n. \A kind \in {"connected", "disconnected", "login", "refused"} : Notice(kind) \in Callback
  BY DEF Notice, Callback
<1>1. ASSUME NEW t \in Topics, SubTopic(t) PROVE TypeInv'
  <2>1. http' \in {Idle} \cup {Call(op, u) : op \in {"sub", "unsub"}, u \in Topics}
        /\ sub_topics' \in [Topics -> {"none", "off", "on"}]
    BY <1>p, <1>1 DEF SubTopic, Accept, StateTypes
  <2>2. asked' \in [Topics -> {"nothing", "sub", "unsub"}] /\ calls' \in 0..MaxCalls
    BY <1>p, <1>0, <1>1 DEF SubTopic, Accept, StateTypes
  <2> QED BY <1>p, <1>1, <2>1, <2>2 DEF SubTopic, Accept, ctpVars, StateTypes, TypeInv
<1>2. ASSUME NEW t \in Topics, UnsubTopic(t) PROVE TypeInv'
  <2>1. http' \in {Idle} \cup {Call(op, u) : op \in {"sub", "unsub"}, u \in Topics}
    BY <1>p, <1>2 DEF UnsubTopic, Accept, StateTypes
  <2> QED BY <1>p, <1>0, <1>2, <2>1 DEF UnsubTopic, Accept, ctpVars, StateTypes, TypeInv
<1>3. CASE CallApi
  <2>1. PICK e : e = http
    OBVIOUS
  <2>2. e \in Reqs
    BY <1>3, <2>1, <1>p, CallType DEF StateTypes, CallApi
  <2>3. <<e>> \in Seq(Reqs)
    BY <2>2
  <2>4. reqs' \in Seq(Reqs)
    BY <1>3, <2>1, <2>3, <1>p, RequestType DEF CallApi
  <2> QED BY <1>p, <1>3, <2>4 DEF CallApi, ctpVars, askVars, StateTypes, TypeInv
<1>4. CASE Connect
  <2>1. rsps' \in Seq(Callback)
    BY <1>4, <1>p, <1>n, AppendProperties DEF Connect
  <2> QED BY <1>p, <1>4, <2>1 DEF Connect, threadVars, askVars, StateTypes, TypeInv
<1>5. CASE LinkLost
  <2>1. rsps' \in Seq(Callback) /\ reqs' \in Seq(Reqs)
    BY <1>5, <1>p, <1>n, AppendProperties DEF LinkLost
  <2> QED BY <1>p, <1>0, <1>5, <2>1 DEF LinkLost, threadVars, askVars, StateTypes, TypeInv
<1>6. CASE ServeLogin
  <2>1. rsps' \in Seq(Callback)
    <3>1. PICK kind \in {"login", "refused"} : rsps' = Append(rsps, Notice(kind))
      BY <1>6 DEF ServeLogin
    <3>2. Notice(kind) \in Callback
      BY <1>n
    <3> QED BY <1>p, <3>1, <3>2, AppendProperties
  <2>2. reqs' \in Seq(Reqs)
    BY <1>6, <1>p, <1>t DEF ServeLogin
  <2> QED BY <1>p, <1>6, <2>1, <2>2 DEF ServeLogin, threadVars, askVars, StateTypes, TypeInv
<1>7. CASE ServeTopic
  <2>1. PICK r : r = Head(reqs)
    OBVIOUS
  <2>2. PICK t : t = Head(r.topics)
    OBVIOUS
  <2>3. /\ r.op \in {"sub", "unsub"} /\ t \in Topics
        /\ reqs' \in Seq(Reqs)
    BY <1>7, <2>1, <2>2, <1>p, ServedType DEF ServeTopic
  <2>4. PICK ok \in BOOLEAN : rsps' = Append(rsps, Rsp(r.op, t, ok))
    BY <1>7, <2>1, <2>2 DEF ServeTopic
  <2>5. Rsp(r.op, t, ok) \in Callback
    BY <2>3 DEF Rsp, Callback
  <2>6. rsps' \in Seq(Callback)
    BY <2>4, <1>p, <2>5, AppendProperties
  <2>7. upstream' \subseteq Topics
    BY <1>p, <1>7, <2>1, <2>2, <2>3 DEF ServeTopic, StateTypes
  <2> QED BY <1>p, <1>7, <2>3, <2>6, <2>7 DEF ServeTopic, threadVars, askVars, StateTypes, TypeInv
<1>8. CASE OnFrontConnected
  <2>1. <<LoginReq>> \in Seq(Reqs)
    BY DEF Reqs
  <2>2. reqs' \in Seq(Reqs)
    BY <1>8, <2>1, <1>p, RequestType DEF OnFrontConnected
  <2>3. rsps' \in Seq(Callback)
    BY <1>8, <1>p, <1>t DEF OnFrontConnected, Take
  <2> QED BY <1>p, <1>8, <2>2, <2>3 DEF OnFrontConnected, Take, ctpVars, askVars, StateTypes, TypeInv
<1>9. CASE OnFrontDisconnected
  <2>1. rsps' \in Seq(Callback)
    BY <1>9, <1>p, <1>t DEF OnFrontDisconnected, Take
  <2> QED BY <1>p, <1>9, <2>1 DEF OnFrontDisconnected, Take, ctpVars, askVars, StateTypes, TypeInv
<1>10. CASE OnRspUserLogin
  <2>1. rsps' \in Seq(Callback)
    BY <1>10, <1>p, <1>t DEF OnRspUserLogin, Take
  <2>2. reqs' \in Seq(Reqs)
    <3>1. PICK rs : rs = Batches(Off)
      OBVIOUS
    <3>2. rs \in Seq(Reqs)
      BY <3>1, OffType, BatchesType
    <3> QED BY <1>10, <3>1, <3>2, <1>p, RequestType DEF OnRspUserLogin, SubTopics
  <2>3. alive' \in BOOLEAN
    <3>1. alive' = alive \/ alive' = FALSE
      BY <1>10, Zenon DEF OnRspUserLogin
    <3>2. alive \in BOOLEAN
      BY <1>p DEF StateTypes
    <3> QED BY <3>1, <3>2
  <2> QED BY <1>p, <1>10, <2>1, <2>2, <2>3 DEF OnRspUserLogin, Take, ctpVars, askVars, StateTypes, TypeInv
<1>11. CASE OnRspSubMarketData
  <2>1. rsps' \in Seq(Callback)
    BY <1>11, <1>p, <1>t DEF OnRspSubMarketData, Take
  <2>2. Head(rsps).topic \in Topics
    BY <1>11, <1>p, First, CallbackIs DEF OnRspSubMarketData, Take
  <2> QED BY <1>p, <1>11, <2>1, <2>2 DEF OnRspSubMarketData, Take, ctpVars, askVars, StateTypes, TypeInv
<1>12. CASE OnRspUnSubMarketData
  <2>1. rsps' \in Seq(Callback)
    BY <1>12, <1>p, <1>t DEF OnRspUnSubMarketData, Take
  <2> QED BY <1>p, <1>12, <2>1 DEF OnRspUnSubMarketData, Take, ctpVars, askVars, StateTypes, TypeInv
<1>13. CASE UNCHANGED vars
  BY <1>p, <1>13 DEF StateTypes, TypeInv, vars, threadVars, ctpVars, askVars
<1> QED BY <1>1, <1>2, <1>3, <1>4, <1>5, <1>6, <1>7, <1>8, <1>9, <1>10, <1>11, <1>12, <1>13
        DEF Next, Ctp, Spi
-----------------------------------------------------------------------------
(* CTP: the flags and the exchange agree up to the callbacks.               *)

LEMMA AgreeStep ==
    ASSUME TypeInv, AgreeInv, [Next]_vars
    PROVE  AgreeInv'
<1> SUFFICES ASSUME NEW c \in Topics
             PROVE  Agrees(rsps', Begins(c), Ends(c), Topics, c, On', upstream')
  BY DEF AgreeInv, Begins, Ends
<1>p. StateTypes /\ reqs \in Seq(Reqs) /\ rsps \in Seq(Callback)
  BY DEF TypeInv
<1>a. Agrees(rsps, Begins(c), Ends(c), Topics, c, On, upstream)
  BY DEF AgreeInv
<1>s. Begins(c) \cap Ends(c) = {}
  BY Says
<1>c. PICK B, E, on2, sent2 : B = Begins(c) /\ E = Ends(c) /\ on2 = On' /\ sent2 = upstream'
  OBVIOUS
<1>on. c \in On <=> sub_topics[c] = "on"
  BY DEF On
<1>on2. c \in On' <=> sub_topics'[c] = "on"
  BY DEF On
\* A callback more, or a callback less.
<1>ap. ASSUME NEW e \in Callback, rsps' = Append(rsps, e), On' = On,
              \/ e \in Begins(c) /\ c \in upstream'
              \/ e \in Ends(c) /\ c \notin upstream'
              \/ e \notin Begins(c) \cup Ends(c) /\ (c \in upstream' <=> c \in upstream)
       PROVE  Agrees(rsps', Begins(c), Ends(c), Topics, c, On', upstream')
  <2>1. Agrees(Append(rsps, e), B, E, Topics, c, On, sent2)
    BY <1>p, <1>a, <1>s, <1>c, <1>ap, AgreesAppend, Zenon
  <2> QED BY <1>c, <1>ap, <2>1
<1>tl. ASSUME rsps # <<>>, rsps' = Tail(rsps), upstream' = upstream,
              \/ Head(rsps) \in Begins(c) /\ c \in On'
              \/ Head(rsps) \in Ends(c) /\ c \notin On'
              \/ Head(rsps) \notin Begins(c) \cup Ends(c) /\ (c \in On' <=> c \in On)
       PROVE  Agrees(rsps', Begins(c), Ends(c), Topics, c, On', upstream')
  <2>1. Agrees(Tail(rsps), B, E, Topics, c, on2, upstream)
    BY <1>p, <1>a, <1>c, <1>tl, AgreesTail, Zenon
  <2> QED BY <1>c, <1>tl, <2>1
<1>sm. ASSUME rsps' = rsps, upstream' = upstream, c \in On' <=> c \in On
       PROVE  Agrees(rsps', Begins(c), Ends(c), Topics, c, On', upstream')
  <2>1. Agrees(rsps, B, E, Topics, c, on2, upstream)
    BY <1>a, <1>c, <1>sm, AgreesSame, Zenon
  <2> QED BY <1>c, <1>sm, <2>1
<1>1. ASSUME NEW t \in Topics, SubTopic(t) \/ UnsubTopic(t)
      PROVE  Agrees(rsps', Begins(c), Ends(c), Topics, c, On', upstream')
  <2>1. rsps' = rsps /\ upstream' = upstream
    BY <1>1 DEF SubTopic, UnsubTopic, Accept, ctpVars
  <2>2. sub_topics'[c] = "on" <=> sub_topics[c] = "on"
    BY <1>1, <1>p DEF SubTopic, UnsubTopic, StateTypes
  <2> QED BY <1>on, <1>on2, <1>sm, <2>1, <2>2
<1>2. CASE CallApi
  <2>1. rsps' = rsps /\ upstream' = upstream /\ sub_topics' = sub_topics
    BY <1>2 DEF CallApi, ctpVars
  <2> QED BY <1>on, <1>on2, <1>sm, <2>1
<1>n. ASSUME NEW kind \in {"connected", "disconnected", "login", "refused"}
      PROVE  Notice(kind) \in Callback /\ Notice(kind) \notin Begins(c)
             /\ (Notice(kind) \in Ends(c) <=> kind = "disconnected")
  BY Says DEF Notice, Callback
<1>3. CASE Connect \/ ServeLogin
  <2>1. PICK kind \in {"connected", "login", "refused"} : rsps' = Append(rsps, Notice(kind))
    BY <1>3 DEF Connect, ServeLogin
  <2>2. upstream' = upstream /\ On' = On
    BY <1>3 DEF Connect, ServeLogin, threadVars, On
  <2> QED BY <1>n, <1>ap, <2>1, <2>2
<1>4. CASE LinkLost
  <2>1. rsps' = Append(rsps, Notice("disconnected")) /\ c \notin upstream' /\ On' = On
    BY <1>4 DEF LinkLost, threadVars, On
  <2> QED BY <1>n, <1>ap, <2>1
<1>5. CASE ServeTopic
  <2>1. PICK r : r = Head(reqs)
    OBVIOUS
  <2>2. PICK t : t = Head(r.topics)
    OBVIOUS
  <2>3. PICK ok : ok = (link = "in" /\ (r.op = "sub" => t \in Listed))
    OBVIOUS
  <2>4. r.op \in {"sub", "unsub"} /\ t \in Topics
    BY <1>5, <1>p, <2>1, <2>2, ServedType DEF ServeTopic
  <2>5. rsps' = Append(rsps, Rsp(r.op, t, ok))
        /\ upstream' = (IF ~ok THEN upstream
                        ELSE IF r.op = "sub" THEN upstream \cup {t} ELSE upstream \ {t})
    BY <1>5, <2>1, <2>2, <2>3 DEF ServeTopic
  <2>6. Rsp(r.op, t, ok) \in Callback
    BY <2>3, <2>4 DEF Rsp, Callback
  <2>7. On' = On
    BY <1>5 DEF ServeTopic, threadVars, On
  <2>8. /\ Rsp(r.op, t, ok) \in Begins(c) <=> r.op = "sub" /\ t = c /\ ok = TRUE
        /\ Rsp(r.op, t, ok) \in Ends(c) <=> r.op = "unsub" /\ t = c /\ ok = TRUE
    BY Says, Zenon
  <2>9. \/ Rsp(r.op, t, ok) \in Begins(c) /\ c \in upstream'
        \/ Rsp(r.op, t, ok) \in Ends(c) /\ c \notin upstream'
        \/ Rsp(r.op, t, ok) \notin Begins(c) \cup Ends(c) /\ (c \in upstream' <=> c \in upstream)
    <3>1. CASE ok
      BY <2>3, <2>4, <2>5, <2>8, <3>1
    <3>2. CASE ~ok
      BY <2>3, <2>4, <2>5, <2>8, <3>2
    <3> QED BY <2>3, <3>1, <3>2
  <2> QED BY <1>ap, <2>5, <2>6, <2>7, <2>9
<1>h. rsps # <<>> => /\ Head(rsps) \in Callback
                     /\ Head(rsps).kind \in {"sub", "unsub"} =>
                           Head(rsps).topic \in Topics
                           /\ Head(rsps) = Rsp(Head(rsps).kind, Head(rsps).topic, Head(rsps).ok)
                     /\ Head(rsps).kind \notin {"sub", "unsub"} => Head(rsps) = Notice(Head(rsps).kind)
  BY <1>p, First, CallbackIs
<1>6. CASE OnFrontConnected \/ OnRspUserLogin
  <2>1. rsps # <<>> /\ rsps' = Tail(rsps) /\ upstream' = upstream /\ On' = On
        /\ Head(rsps).kind \in {"connected", "login", "refused"}
    BY <1>6 DEF OnFrontConnected, OnRspUserLogin, Take, ctpVars, On
  <2>2. PICK kind \in {"connected", "login", "refused"} : Head(rsps) = Notice(kind)
    BY <1>h, <2>1
  <2>3. Head(rsps) \notin Begins(c) \cup Ends(c)
    BY <1>n, <2>2
  <2> QED BY <1>tl, <2>1, <2>3
<1>7. CASE OnFrontDisconnected
  <2>1. rsps # <<>> /\ rsps' = Tail(rsps) /\ upstream' = upstream /\ Head(rsps).kind = "disconnected"
    BY <1>7 DEF OnFrontDisconnected, Take, ctpVars
  <2>2. sub_topics'[c] # "on"
    BY <1>7 DEF OnFrontDisconnected
  <2>3. Head(rsps) = Notice("disconnected")
    BY <1>h, <2>1
  <2> QED BY <1>n, <1>on2, <1>tl, <2>1, <2>2, <2>3
<1>8. CASE OnRspSubMarketData \/ OnRspUnSubMarketData
  <2>1. rsps # <<>> /\ rsps' = Tail(rsps) /\ upstream' = upstream /\ Head(rsps).kind \in {"sub", "unsub"}
    BY <1>8 DEF OnRspSubMarketData, OnRspUnSubMarketData, Take, ctpVars
  <2>2. PICK kind, t, ok :
            kind \in {"sub", "unsub"} /\ t \in Topics /\ kind = Head(rsps).kind /\ t = Head(rsps).topic /\ ok = Head(rsps).ok
            /\ Head(rsps) = Rsp(kind, t, ok)
    BY <1>h, <2>1
  <2>3. /\ Head(rsps) \in Begins(c) <=> kind = "sub" /\ t = c /\ ok = TRUE
        /\ Head(rsps) \in Ends(c) <=> kind = "unsub" /\ t = c /\ ok = TRUE
    <3>1. /\ Rsp(kind, t, ok) \in Begins(c) <=> kind = "sub" /\ t = c /\ ok = TRUE
          /\ Rsp(kind, t, ok) \in Ends(c) <=> kind = "unsub" /\ t = c /\ ok = TRUE
      BY Says, Zenon
    <3>2. Head(rsps) = Rsp(kind, t, ok)
      BY <2>2
    <3> QED BY <3>1, <3>2, Zenon
  <2>4. /\ kind = "sub" => \/ ok /\ sub_topics' = [sub_topics EXCEPT ![t] = "on"]
                           \/ ~ok /\ sub_topics' = sub_topics
        /\ kind = "unsub" => \/ ok /\ sub_topics' = [sub_topics EXCEPT ![t] = "none"]
                             \/ ~ok /\ sub_topics' = sub_topics
    BY <1>8, <2>2 DEF OnRspSubMarketData, OnRspUnSubMarketData, Take
  <2>5. ok \in BOOLEAN
    <3>1. \A e \in Callback : e.kind \in {"sub", "unsub"} => e.ok \in BOOLEAN
      BY DEF Callback, Notice
    <3> QED BY <1>h, <2>1, <2>2, <3>1
  <2>6. \/ Head(rsps) \in Begins(c) /\ c \in On'
        \/ Head(rsps) \in Ends(c) /\ c \notin On'
        \/ Head(rsps) \notin Begins(c) \cup Ends(c) /\ (c \in On' <=> c \in On)
    <3>0. sub_topics \in [Topics -> {"none", "off", "on"}]
      BY <1>p DEF StateTypes
    <3>1. CASE t = c /\ ok
      BY <1>on2, <2>2, <2>3, <2>4, <3>0, <3>1
    <3>2. CASE ~(t = c /\ ok)
      <4>1. sub_topics'[c] = sub_topics[c]
        BY <2>2, <2>4, <3>0, <3>2
      <4>2. Head(rsps) \notin Begins(c) \cup Ends(c)
        BY <2>3, <3>2
      <4> QED BY <1>on, <1>on2, <4>1, <4>2
    <3> QED BY <3>1, <3>2
  <2> QED BY <1>tl, <2>1, <2>6
<1>9. CASE UNCHANGED vars
  <2>1. rsps' = rsps /\ upstream' = upstream /\ sub_topics' = sub_topics
    BY <1>9 DEF vars, threadVars, ctpVars
  <2> QED BY <1>on, <1>on2, <1>sm, <2>1
<1> QED BY <1>1, <1>2, <1>3, <1>4, <1>5, <1>6, <1>7, <1>8, <1>9 DEF Next, Ctp, Spi
LEMMA KlinesStep ==
    ASSUME TypeInv, KlinesFollow, [Next]_vars
    PROVE  KlinesFollow'
<1>p. StateTypes /\ rsps \in Seq(Callback)
  BY DEF TypeInv
<1>t. sub_topics \in [Topics -> {"none", "off", "on"}]
  BY <1>p DEF StateTypes
<1>1. ASSUME NEW t \in Topics, SubTopic(t) PROVE KlinesFollow'
  BY <1>1, <1>t DEF SubTopic, Accept, KlinesFollow
<1>2. ASSUME klines' = klines, sub_topics' = sub_topics PROVE KlinesFollow'
  BY <1>2 DEF KlinesFollow
<1>3. CASE OnFrontDisconnected
  BY <1>3, <1>t DEF OnFrontDisconnected, KlinesFollow
<1>4. CASE OnRspSubMarketData
  <2>1. PICK r : r = Head(rsps)
    OBVIOUS
  <2>2. r.topic \in Topics
    BY <1>4, <1>p, <2>1, First, CallbackIs DEF OnRspSubMarketData, Take
  <2>3. \/ sub_topics' = [sub_topics EXCEPT ![r.topic] = "on"] /\ klines' = klines \cup {r.topic}
        \/ sub_topics' = sub_topics /\ klines' = klines
    BY <1>4, <2>1 DEF OnRspSubMarketData
  <2> QED BY <1>t, <2>2, <2>3 DEF KlinesFollow
<1>5. CASE OnRspUnSubMarketData
  <2>1. PICK r : r = Head(rsps)
    OBVIOUS
  <2>2. r.topic \in Topics
    BY <1>5, <1>p, <2>1, First, CallbackIs DEF OnRspUnSubMarketData, Take
  <2>3. \/ sub_topics' = [sub_topics EXCEPT ![r.topic] = "none"] /\ klines' = klines \ {r.topic}
        \/ sub_topics' = sub_topics /\ klines' = klines
    BY <1>5, <2>1 DEF OnRspUnSubMarketData
  <2> QED BY <1>t, <2>2, <2>3 DEF KlinesFollow
<1>6. CASE \/ \E t \in Topics : UnsubTopic(t)
           \/ CallApi \/ Ctp \/ LinkLost \/ OnFrontConnected \/ OnRspUserLogin
           \/ UNCHANGED vars
  <2>1. klines' = klines /\ sub_topics' = sub_topics
    BY <1>6 DEF UnsubTopic, Accept, CallApi, Ctp, Connect, ServeLogin, ServeTopic,
                LinkLost, OnFrontConnected, OnRspUserLogin, vars, threadVars
  <2> QED BY <1>2, <2>1
<1> QED BY <1>1, <1>3, <1>4, <1>5, <1>6 DEF Next, Spi

\* What the queue says is what the invariant of the gateway says.
LEMMA InvImplies == ASSUME IInv PROVE Inv
<1>1. TypeOK
  BY Queued DEF IInv, TypeInv, StateTypes, TypeOK
<1>2. ASSUME NEW t \in Topics
      PROVE  /\ sub_topics[t] = "on" =>
                    t \in upstream \/ Due(Notice("disconnected")) \/ Due(Rsp("unsub", t, TRUE))
             /\ t \in upstream => sub_topics[t] = "on" \/ Due(Rsp("sub", t, TRUE))
  <2>1. /\ Stands(rsps, Begins(t), Ends(t), t, On, upstream)
        /\ Stands(rsps, Ends(t), Begins(t), t, Topics \ On, Topics \ upstream)
    BY DEF IInv, AgreeInv, Agrees
  <2>2. ASSUME sub_topics[t] = "on", t \notin upstream
        PROVE  Due(Notice("disconnected")) \/ Due(Rsp("unsub", t, TRUE))
    <3>1. t \in On
      BY <2>2 DEF On
    <3>2. PICK i \in DOMAIN rsps : rsps[i] \in Ends(t)
      BY <2>1, <2>2, <3>1, Zenon DEF Stands
    <3> QED BY <3>2, Zenon DEF Ends, Due
  <2>3. ASSUME sub_topics[t] # "on", t \in upstream PROVE Due(Rsp("sub", t, TRUE))
    <3>1. t \in Topics \ On /\ t \notin Topics \ upstream
      BY <2>3 DEF On
    <3>2. PICK i \in DOMAIN rsps : rsps[i] \in Begins(t)
      BY <2>1, <3>1, Zenon DEF Stands
    <3> QED BY <3>2, Zenon DEF Begins, Due
  <2> QED BY <2>2, <2>3
<1>3. SubedIsTrue
  BY <1>2 DEF SubedIsTrue
<1>4. UpstreamIsKnown
  <2>1. upstream \subseteq Topics
    BY DEF IInv, TypeInv, StateTypes
  <2> QED BY <1>2, <2>1 DEF UpstreamIsKnown
<1> QED BY <1>1, <1>3, <1>4 DEF IInv, Inv

LEMMA InvInit == ASSUME Init PROVE IInv
<1>1. ASSUME NEW t \in Topics
      PROVE  Agrees(rsps, Begins(t), Ends(t), Topics, t, On, upstream)
  <2>1. t \notin On /\ t \notin upstream /\ rsps = <<>>
    BY DEF Init, On
  <2>2. Agrees(<<>>, Begins(t), Ends(t), Topics, t, On, upstream)
    BY <2>1, AgreesEmpty
  <2> QED BY <2>1, <2>2
<1>2. KlinesFollow
  BY DEF Init, KlinesFollow
<1> QED BY <1>1, <1>2, TypeInit DEF IInv, AgreeInv

LEMMA InvStep ==
    ASSUME IInv, [Next]_vars PROVE IInv'
BY TypeStep, AgreeStep, KlinesStep DEF IInv

\* However requests, answers, broken connections and logins follow each other: what
\* CTPQuoteHandler says is subscribed is, or the callback that takes it back is on
\* its way; CTP sends nothing the gateway does not know of or is about to be told
\* of; and klines are made of what is in the map.
THEOREM InvCorrect == Spec => []Inv
<1>1. Init => IInv
  BY InvInit
<1>2. IInv /\ [Next]_vars => IInv'
  BY InvStep
<1>3. IInv => Inv
  BY InvImplies
<1> QED BY <1>1, <1>2, <1>3, PTL DEF Spec
=============================================================================
