---------------------------- MODULE XtpQuoteProofs ----------------------------
(***************************************************************************)
(* What XtpQuote keeps, for all symbols, exchanges and streams, and any    *)
(* number of requests and broken connections: what the gateway says is     *)
(* subscribed, where, and that the streams of an instrument are subscribed *)
(* together. Requests, calls and callbacks are queues that the connection  *)
(* cuts off, so the invariants are about what the queues still bring.      *)
(***************************************************************************)
EXTENDS XtpQuote, QueueLemmas

\* Where a call can be about.
Places == Exchanges \cup {Unknown}

-----------------------------------------------------------------------------
(* The calls of the API.                                                    *)

LEMMA StreamsAre ==
    /\ Streams # <<>> /\ Len(Streams) \in Nat \ {0} /\ DOMAIN Streams = 1..Len(Streams)
    /\ 1 \in DOMAIN Streams
    /\ \A i, j \in DOMAIN Streams : i # j => Streams[i] # Streams[j]
<1>1. Streams \in Seq({Streams[i] : i \in DOMAIN Streams}) /\ Streams # <<>>
  BY XtpQuoteAssumption
<1>2. Len(Streams) \in Nat \ {0} /\ DOMAIN Streams = 1..Len(Streams)
  BY <1>1, EmptySeq, LenProperties
<1> QED BY <1>1, <1>2, XtpQuoteAssumption

\* The calls for an instrument.
LEMMA CallsForAre ==
    ASSUME NEW op \in {"sub", "unsub"}, NEW s \in Symbols, NEW x \in Places
    PROVE  /\ CallsFor(op, s, x) \in Seq(Call)
           /\ DOMAIN CallsFor(op, s, x) = DOMAIN Streams /\ Len(CallsFor(op, s, x)) = Len(Streams)
           /\ \A i \in DOMAIN Streams :
                 CallsFor(op, s, x)[i] =
                     [op |-> op, stream |-> Streams[i], symbol |-> s, exchange |-> x]
<1>1. \A i \in DOMAIN Streams :
          [op |-> op, stream |-> Streams[i], symbol |-> s, exchange |-> x] \in Call
  BY DEF Call, Places
<1> QED BY <1>1, StreamsAre DEF CallsFor

\* What nothing, and the calls for one more instrument that is not subscribed, have
\* and keep, all calls of SubTopics have.
LEMMA SubTopicsCallsIn ==
    ASSUME NEW topics, NEW exchange \in [Symbols -> Places], NEW T, T \subseteq Seq(Call), <<>> \in T,
           \A s \in Symbols : topics[s] = "off" =>
               /\ CallsFor("sub", s, exchange[s]) \in T
               /\ \A a \in T : a \o CallsFor("sub", s, exchange[s]) \in T
    PROVE  SubTopicsCalls(topics, exchange, FALSE) \in T
<1> DEFINE q == [i \in DOMAIN SymbolOrder |->
                    LET s == SymbolOrder[i] IN
                    IF topics[s] = "off" THEN CallsFor("sub", s, exchange[s]) ELSE <<>>]
<1>1. DOMAIN SymbolOrder = 1..Len(SymbolOrder) /\ Len(SymbolOrder) \in Nat
      /\ \A i \in DOMAIN SymbolOrder : SymbolOrder[i] \in Symbols
  BY XtpQuoteAssumption
<1>2. ASSUME NEW i \in 1..Len(SymbolOrder)
      PROVE  q[i] \in T /\ \A a \in T : a \o q[i] \in T
  <2>1. PICK s \in Symbols : s = SymbolOrder[i]
    BY <1>1
  <2>2. q[i] = IF topics[s] = "off" THEN CallsFor("sub", s, exchange[s]) ELSE <<>>
    BY <1>1, <2>1
  <2> HIDE DEF q
  <2>3. CASE topics[s] = "off"
    BY <2>2, <2>3
  <2>4. CASE topics[s] # "off"
    <3>1. \A a \in T : a \o <<>> = a
      BY ConcatEmptySeq
    <3> QED BY <2>2, <2>4, <3>1
  <2> QED BY <2>3, <2>4
<1>3. q \in Seq(T) /\ Len(q) = Len(SymbolOrder)
  BY <1>1, <1>2
<1>4. SubTopicsCalls(topics, exchange, FALSE) = FlattenSeq(q)
  BY Zenon DEF SubTopicsCalls
<1> HIDE DEF q
<1> QED BY <1>2, <1>3, <1>4, FlattenIn

\* Each is a subscription to what is not subscribed, where it is known to be.
LEMMA SubTopicsCallsAre ==
    ASSUME NEW topics, NEW exchange \in [Symbols -> Places]
    PROVE  LET q == SubTopicsCalls(topics, exchange, FALSE) IN
           /\ q \in Seq(Call)
           /\ \A i \in DOMAIN q : q[i].op = "sub" /\ topics[q[i].symbol] = "off"
                                  /\ q[i].exchange = exchange[q[i].symbol]
<1> DEFINE ok(c) == c.op = "sub" /\ topics[c.symbol] = "off" /\ c.exchange = exchange[c.symbol]
           T == {q \in Seq(Call) : \A i \in DOMAIN q : ok(q[i])}
<1>1. <<>> \in T
  OBVIOUS
<1>2. ASSUME NEW s \in Symbols, topics[s] = "off"
      PROVE  /\ CallsFor("sub", s, exchange[s]) \in T
             /\ \A a \in T : a \o CallsFor("sub", s, exchange[s]) \in T
  <2>1. PICK b : b = CallsFor("sub", s, exchange[s])
    OBVIOUS
  <2>2. b \in Seq(Call) /\ \A i \in DOMAIN b :
            b[i] = [op |-> "sub", stream |-> Streams[i], symbol |-> s, exchange |-> exchange[s]]
    <3>1. PICK x \in Places : x = exchange[s]
      OBVIOUS
    <3>2. b = CallsFor("sub", s, x)
      BY <2>1, <3>1
    <3>3. /\ CallsFor("sub", s, x) \in Seq(Call) /\ DOMAIN CallsFor("sub", s, x) = DOMAIN Streams
          /\ \A i \in DOMAIN Streams : CallsFor("sub", s, x)[i] =
                  [op |-> "sub", stream |-> Streams[i], symbol |-> s, exchange |-> x]
      BY CallsForAre, Zenon
    <3> QED BY <3>1, <3>2, <3>3, Zenon
  <2>3. \A i \in DOMAIN b : ok(b[i])
    BY <1>2, <2>2
  <2> HIDE DEF ok
  <2>4. ASSUME NEW a \in T PROVE a \o b \in T
    <3>1. a \in Seq(Call) /\ \A i \in DOMAIN a : ok(a[i])
      OBVIOUS
    <3>2. a \o b \in Seq(Call) /\ \A i \in DOMAIN (a \o b) :
              \/ i \in DOMAIN a /\ (a \o b)[i] = a[i]
              \/ i - Len(a) \in DOMAIN b /\ (a \o b)[i] = b[i - Len(a)]
      BY <2>2, <3>1, ConcatProperties
    <3>3. \A i \in DOMAIN (a \o b) : ok((a \o b)[i])
      BY <2>3, <3>1, <3>2
    <3> QED BY <3>2, <3>3
  <2> QED BY <2>1, <2>2, <2>3, <2>4
<1>3. SubTopicsCalls(topics, exchange, FALSE) \in T
  <2>1. T \subseteq Seq(Call)
    OBVIOUS
  <2> HIDE DEF T
  <2> QED BY <1>1, <1>2, <2>1, SubTopicsCallsIn
<1> QED BY <1>3

\* Those of everything.
LEMMA SubTopicsAllAre ==
    ASSUME NEW topics, NEW exchange
    PROVE  LET q == SubTopicsCalls(topics, exchange, TRUE) IN
           /\ q \in Seq(CallAll) /\ DOMAIN q = DOMAIN Streams
           /\ \A i \in DOMAIN Streams : q[i] = [op |-> "suball", stream |-> Streams[i]]
<1>1. \A i \in DOMAIN Streams : [op |-> "suball", stream |-> Streams[i]] \in CallAll
  BY DEF CallAll
<1> QED BY <1>1, StreamsAre DEF SubTopicsCalls

LEMMA SubTopicsCallsType ==
    ASSUME NEW topics, NEW exchange \in [Symbols -> Places], NEW all \in BOOLEAN
    PROVE  SubTopicsCalls(topics, exchange, all) \in Seq(Call \cup CallAll)
<1>1. CASE all = TRUE
  <2>1. PICK q : q = SubTopicsCalls(topics, exchange, TRUE)
    OBVIOUS
  <2>2. q \in Seq(CallAll)
    BY <2>1, SubTopicsAllAre
  <2>3. q \in Seq(Call \cup CallAll)
    BY <2>2
  <2> QED BY <1>1, <2>1, <2>3
<1>2. CASE all = FALSE
  <2>1. PICK q : q = SubTopicsCalls(topics, exchange, FALSE)
    OBVIOUS
  <2>2. q \in Seq(Call)
    BY <2>1, SubTopicsCallsAre
  <2>3. q \in Seq(Call \cup CallAll)
    BY <2>2
  <2> QED BY <1>2, <2>1, <2>3
<1> QED BY <1>1, <1>2

-----------------------------------------------------------------------------
(* Types.                                                                   *)

\* The queues are apart from the rest.
StateTypes ==
    /\ sub_all \in BOOLEAN
    /\ sub_topics \in [Symbols -> {"none", "off", "on"}]
    /\ topic_exchange \in [Symbols -> Places]
    /\ klines \subseteq Symbols
    /\ reconn \in BOOLEAN /\ link \in BOOLEAN
    /\ upstream \subseteq {Streams[i] : i \in DOMAIN Streams} \X Symbols \X Exchanges
    /\ asked \in [Symbols -> {"nothing", "sub", "unsub"}]
    /\ named \in [Symbols -> SUBSET Exchanges]
    /\ crossed \subseteq Symbols /\ torn \subseteq Symbols
    /\ calls \in 0..MaxCalls /\ losses \in 0..MaxLosses

QueueTypes ==
    /\ http \in Seq(Call) /\ Len(http) <= Len(Streams)
    /\ reqs \in Seq(Call \cup CallAll)
    /\ rsps \in Seq(Rsp \cup {Disconnected})

LEMMA TypeIs == TypeOK <=> StateTypes /\ QueueTypes
BY DEF TypeOK, StateTypes, QueueTypes, Places

LEMMA QueueTypesPrime == TypeOK' <=> StateTypes' /\ QueueTypes'
BY DEF TypeOK, StateTypes, QueueTypes, Places

\* What the actions on either side leave alone.
LEMMA AcceptTypes ==
    ASSUME TypeOK, NEW op, NEW s \in Symbols, Accept(op, s)
    PROVE  /\ UNCHANGED <<sub_all, klines, reconn, link, upstream, losses, reqs, rsps, torn>>
           /\ calls' \in 0..MaxCalls
<1>1. calls \in 0..MaxCalls /\ MaxCalls \in Nat
  BY XtpQuoteAssumption DEF TypeOK
<1> QED BY <1>1 DEF Accept, apiVars

LEMMA TakeTypes ==
    ASSUME TypeOK, NEW op, Take(op)
    PROVE  /\ UNCHANGED <<sub_all, http, link, upstream, losses, reqs, asked, named, crossed, calls, torn>>
           /\ rsps # <<>> /\ rsps' = Tail(rsps) /\ rsps' \in Seq(Rsp \cup {Disconnected})
           /\ Head(rsps) \in Rsp \cup {Disconnected} /\ Head(rsps).op = op /\ ~reconn
<1>1. rsps \in Seq(Rsp \cup {Disconnected})
  BY DEF TypeOK
<1> QED BY <1>1, HeadTailProperties DEF Take, askVars

\* An answer that is taken is about a symbol.
LEMMA RspIs ==
    ASSUME NEW e \in Rsp \cup {Disconnected}
    PROVE  /\ e.op \in {"sub", "unsub"} =>
                 e.symbol \in Symbols /\ e.ok \in BOOLEAN
                 /\ e = [op |-> e.op, symbol |-> e.symbol, ok |-> e.ok]
           /\ e.op = "disconnected" => e = Disconnected
           /\ e.op \in {"sub", "unsub", "disconnected"}
BY DEF Rsp, Disconnected

\* A request that is served is a call about a symbol, or about all.
LEMMA ReqIs ==
    ASSUME NEW r \in Call \cup CallAll
    PROVE  /\ r.op # "suball" => /\ r \in Call /\ r.op \in {"sub", "unsub"} /\ r.symbol \in Symbols
                                 /\ r.exchange \in Places
                                 /\ r = [op |-> r.op, stream |-> r.stream, symbol |-> r.symbol,
                                         exchange |-> r.exchange]
           /\ r.op = "suball" => r = [op |-> "suball", stream |-> r.stream]
           /\ \E i \in DOMAIN Streams : r.stream = Streams[i]
<1>1. CASE r \in Call
  BY <1>1 DEF Call, Places
<1>2. CASE r \in CallAll
  BY <1>2 DEF CallAll
<1> QED BY <1>1, <1>2

\* The calls of a request are as many as there are streams, or none.
LEMMA HttpType ==
    ASSUME NEW op \in {"sub", "unsub"}, NEW s \in Symbols, NEW x \in Places, NEW h,
           h = <<>> \/ h = CallsFor(op, s, x)
    PROVE  h \in Seq(Call) /\ Len(h) <= Len(Streams)
<1>1. CASE h = <<>>
  BY <1>1, StreamsAre
<1>2. CASE h = CallsFor(op, s, x)
  <2>1. h \in Seq(Call) /\ Len(h) = Len(Streams)
    BY <1>2, CallsForAre, Zenon
  <2> QED BY <2>1, StreamsAre
<1> QED BY <1>1, <1>2

LEMMA TypeInit == ASSUME Init PROVE TypeOK
<1>1. PICK default \in SUBSET Symbols, exchange \in [Symbols -> Exchanges] :
          /\ sub_topics = [s \in Symbols |-> IF s \in default THEN "off" ELSE "none"]
          /\ topic_exchange = [s \in Symbols |-> IF s \in default THEN exchange[s] ELSE Unknown]
          /\ asked = [s \in Symbols |-> IF s \in default THEN "sub" ELSE "nothing"]
          /\ named = [s \in Symbols |-> IF s \in default THEN {exchange[s]} ELSE {}]
  BY DEF Init
<1>2. /\ sub_topics \in [Symbols -> {"none", "off", "on"}] /\ topic_exchange \in [Symbols -> Places]
      /\ asked \in [Symbols -> {"nothing", "sub", "unsub"}] /\ named \in [Symbols -> SUBSET Exchanges]
  BY <1>1 DEF Places
<1>3. reqs \in Seq(Call \cup CallAll)
  <2>1. PICK tp, ex, all : tp = sub_topics /\ ex = topic_exchange /\ all = sub_all
    OBVIOUS
  <2>2. ex \in [Symbols -> Places] /\ all \in BOOLEAN
    BY <1>2, <2>1 DEF Init
  <2>3. SubTopicsCalls(tp, ex, all) \in Seq(Call \cup CallAll)
    BY <2>2, SubTopicsCallsType
  <2> QED BY <2>1, <2>3 DEF Init
<1>4. QueueTypes
  <2>1. http = <<>> /\ rsps = <<>>
    BY DEF Init
  <2> QED BY <1>3, <2>1, StreamsAre DEF QueueTypes
<1>5. StateTypes
  <2>1. MaxCalls \in Nat /\ MaxLosses \in Nat
    BY XtpQuoteAssumption
  <2>2. sub_all \in BOOLEAN /\ reconn = FALSE /\ link = TRUE
    BY DEF Init
  <2>3. klines = {} /\ upstream = {} /\ crossed = {} /\ torn = {} /\ calls = 0 /\ losses = 0
    BY DEF Init
  <2>4. reconn \in BOOLEAN /\ link \in BOOLEAN
    BY <2>2, Zenon
  <2>5. upstream \subseteq {Streams[i] : i \in DOMAIN Streams} \X Symbols \X Exchanges
    BY <2>3
  <2>6. klines \subseteq Symbols /\ crossed \subseteq Symbols /\ torn \subseteq Symbols
        /\ calls \in 0..MaxCalls /\ losses \in 0..MaxLosses
    BY <2>1, <2>3
  <2> QED BY <1>2, <2>2, <2>4, <2>5, <2>6, Zenon DEF StateTypes
<1> QED BY <1>4, <1>5, TypeIs

LEMMA TypeStep == ASSUME TypeOK, [Next]_vars PROVE TypeOK'
<1>p. StateTypes /\ QueueTypes
  BY TypeIs
<1>0. MaxCalls \in Nat /\ MaxLosses \in Nat
  BY XtpQuoteAssumption
<1>1. CASE Ignored
  <2>1. PICK op \in {"sub", "unsub"}, s \in Symbols : Accept(op, s)
    BY <1>1 DEF Ignored
  <2>2. UNCHANGED <<sub_topics, topic_exchange, http, asked, named, crossed>>
    BY <1>1 DEF Ignored
  <2>3. StateTypes'
    BY <1>p, <2>1, <2>2, AcceptTypes DEF StateTypes
  <2>4. QueueTypes'
    BY <1>p, <2>1, <2>2, AcceptTypes DEF QueueTypes
  <2> QED BY <2>3, <2>4, QueueTypesPrime
<1>2. ASSUME NEW s \in Symbols, NEW x \in Exchanges, SubTopic(s, x) PROVE TypeOK'
  <2>1. Accept("sub", s)
    BY <1>2 DEF SubTopic
  <2>2. /\ sub_topics' \in [Symbols -> {"none", "off", "on"}] /\ topic_exchange' \in [Symbols -> Places]
        /\ crossed' \subseteq Symbols
    BY <1>p, <1>2 DEF SubTopic, StateTypes, Places
  <2>3. asked' \in [Symbols -> {"nothing", "sub", "unsub"}] /\ named' \in [Symbols -> SUBSET Exchanges]
    BY <1>p, <1>2 DEF SubTopic, StateTypes
  <2>4. StateTypes'
    BY <1>p, <2>1, <2>2, <2>3, AcceptTypes DEF StateTypes
  <2>5. http' \in Seq(Call) /\ Len(http') <= Len(Streams)
    <3>1. PICK h : h = http'
      OBVIOUS
    <3>2. h = http \/ h = CallsFor("sub", s, x)
      BY <1>2, <3>1 DEF SubTopic
    <3>3. CASE h = http
      BY <1>p, <3>1, <3>3 DEF QueueTypes
    <3>4. CASE h = CallsFor("sub", s, x)
      <4>1. x \in Places
        BY DEF Places
      <4>2. h \in Seq(Call) /\ Len(h) <= Len(Streams)
        BY <3>4, <4>1, HttpType, Zenon
      <4> QED BY <3>1, <4>2
    <3> QED BY <3>2, <3>3, <3>4
  <2>6. QueueTypes'
    BY <1>p, <2>1, <2>5, AcceptTypes DEF QueueTypes
  <2> QED BY <2>4, <2>6, QueueTypesPrime
<1>3. ASSUME NEW s \in Symbols, UnsubTopic(s) PROVE TypeOK'
  <2>1. Accept("unsub", s)
    BY <1>3 DEF UnsubTopic
  <2>2. asked' \in [Symbols -> {"nothing", "sub", "unsub"}]
        /\ UNCHANGED <<sub_topics, topic_exchange, named, crossed>>
    BY <1>p, <1>3 DEF UnsubTopic, StateTypes
  <2>4. StateTypes'
    BY <1>p, <2>1, <2>2, AcceptTypes DEF StateTypes
  <2>5. http' \in Seq(Call) /\ Len(http') <= Len(Streams)
    <3>0. PICK x \in Places : x = topic_exchange[s]
      BY <1>p DEF StateTypes
    <3>1. PICK h : h = http'
      OBVIOUS
    <3>2. h = <<>> \/ h = CallsFor("unsub", s, x)
      BY <1>3, <3>0, <3>1 DEF UnsubTopic
    <3>3. h \in Seq(Call) /\ Len(h) <= Len(Streams)
      BY <3>2, HttpType, Zenon
    <3> QED BY <3>1, <3>3
  <2>6. QueueTypes'
    BY <1>p, <2>1, <2>5, AcceptTypes DEF QueueTypes
  <2> QED BY <2>4, <2>6, QueueTypesPrime
<1>4. CASE CallApi
  <2>1. http \in Seq(Call) /\ http # <<>> /\ Len(http) <= Len(Streams)
    BY <1>4, <1>p DEF CallApi, QueueTypes
  <2>2. Head(http) \in Call /\ Tail(http) \in Seq(Call) /\ Len(Tail(http)) = Len(http) - 1
        /\ Len(http) \in Nat
    BY <2>1, HeadTailProperties
  <2>3. http' \in Seq(Call) /\ Len(http') <= Len(Streams)
    BY <1>4, <2>1, <2>2, StreamsAre DEF CallApi
  <2>4. reqs' \in Seq(Call \cup CallAll)
    <3>1. PICK e \in Call \cup CallAll : e = Head(http)
      BY <2>2
    <3>2. Append(reqs, e) \in Seq(Call \cup CallAll)
      BY <1>p, <3>1, AppendProperties DEF QueueTypes
    <3> QED BY <1>4, <1>p, <3>1, <3>2 DEF CallApi, QueueTypes
  <2>5. torn' \subseteq Symbols
    <3>1. Head(http).symbol \in Symbols
      BY <2>2 DEF Call
    <3> QED BY <1>4, <1>p, <3>1 DEF CallApi, StateTypes
  <2>6. StateTypes'
    BY <1>4, <1>p, <2>5 DEF CallApi, StateTypes, mapVars, apiVars, askVars
  <2>7. QueueTypes'
    BY <1>4, <1>p, <2>3, <2>4 DEF CallApi, QueueTypes
  <2> QED BY <2>6, <2>7, QueueTypesPrime
<1>5. CASE LinkLost
  <2>1. torn' \subseteq Symbols
    <3>1. \A i \in DOMAIN http : http[i] \in Call
      BY <1>p DEF QueueTypes
    <3>2. \A i \in DOMAIN http : http[i].symbol \in Symbols
      BY <3>1 DEF Call
    <3> QED BY <1>5, <1>p, <3>2 DEF LinkLost, StateTypes
  <2>2. losses' \in 0..MaxLosses
    BY <1>0, <1>5, <1>p DEF LinkLost, StateTypes
  <2>3. StateTypes'
    BY <1>5, <1>p, <2>1, <2>2 DEF LinkLost, StateTypes, mapVars, askVars
  <2>4. rsps' \in Seq(Rsp \cup {Disconnected})
    BY <1>5, <1>p, AppendProperties DEF LinkLost, QueueTypes
  <2>5. QueueTypes'
    BY <1>5, <1>p, <2>4 DEF LinkLost, QueueTypes
  <2> QED BY <2>3, <2>5, QueueTypesPrime
<1>6. CASE Serve \/ ServeAll
  <2>0. PICK r : r = Head(reqs)
    OBVIOUS
  <2>1. r \in Call \cup CallAll /\ Tail(reqs) \in Seq(Call \cup CallAll)
    BY <1>6, <1>p, <2>0, HeadTailProperties DEF Serve, ServeAll, QueueTypes
  <2>2. PICK k \in DOMAIN Streams : r.stream = Streams[k]
    BY <2>1, ReqIs
  <2>3. upstream' \subseteq {Streams[i] : i \in DOMAIN Streams} \X Symbols \X Exchanges
    <3>1. upstream \subseteq {Streams[i] : i \in DOMAIN Streams} \X Symbols \X Exchanges
      BY <1>p DEF StateTypes
    <3>2. Listed \subseteq Symbols \X Exchanges
      BY XtpQuoteAssumption
    <3>3. CASE Serve
      <4>1. r.op # "suball"
        BY <2>0, <3>3 DEF Serve
      <4>2. r.symbol \in Symbols
        BY <2>1, <4>1, ReqIs
      <4>3. \/ upstream' \subseteq upstream
            \/ <<r.symbol, r.exchange>> \in Listed
               /\ upstream' = upstream \cup {<<r.stream, r.symbol, r.exchange>>}
        BY <2>0, <3>3 DEF Serve
      <4>4. <<r.symbol, r.exchange>> \in Listed => r.exchange \in Exchanges
        BY <3>2
      <4> QED BY <2>2, <3>1, <4>2, <4>3, <4>4
    <3>4. CASE ServeAll
      <4>1. upstream' = upstream \cup {<<r.stream, i[1], i[2]>> : i \in Listed}
        BY <2>0, <3>4 DEF ServeAll
      <4>2. \A i \in Listed : i[1] \in Symbols /\ i[2] \in Exchanges
        BY <3>2
      <4> QED BY <2>2, <3>1, <4>1, <4>2
    <3> QED BY <1>6, <3>3, <3>4
  <2>4. rsps' \in Seq(Rsp \cup {Disconnected})
    <3>1. CASE rsps' = rsps
      BY <1>p, <3>1 DEF QueueTypes
    <3>2. CASE rsps' # rsps
      <4>1. PICK ok \in BOOLEAN : rsps' = Append(rsps, [op |-> r.op, symbol |-> r.symbol, ok |-> ok])
            /\ r.op # "suball"
        <5>1. Serve /\ r.op # "suball"
          BY <1>6, <2>0, <3>2 DEF Serve, ServeAll
        <5>2. PICK ok : ok = IF r.op = "sub" THEN <<r.symbol, r.exchange>> \in Listed
                                           ELSE r.exchange \in Exchanges
          OBVIOUS
        <5>3. ok \in BOOLEAN
          <6>1. CASE r.op = "sub"
            <7>1. ok = (<<r.symbol, r.exchange>> \in Listed)
              BY <5>2, <6>1
            <7> QED BY <7>1
          <6>2. CASE r.op # "sub"
            <7>1. ok = (r.exchange \in Exchanges)
              BY <5>2, <6>2
            <7> QED BY <7>1
          <6> QED BY <6>1, <6>2
        <5>4. rsps' = Append(rsps, [op |-> r.op, symbol |-> r.symbol, ok |-> ok])
          BY <2>0, <3>2, <5>1, <5>2 DEF Serve
        <5> QED BY <5>1, <5>3, <5>4
      <4>2. r.op \in {"sub", "unsub"} /\ r.symbol \in Symbols
        BY <2>1, <4>1, ReqIs
      <4>3. [op |-> r.op, symbol |-> r.symbol, ok |-> ok] \in Rsp \cup {Disconnected}
        BY <4>2 DEF Rsp
      <4> QED BY <1>p, <4>1, <4>3, AppendProperties DEF QueueTypes
    <3> QED BY <3>1, <3>2
  <2>5. StateTypes'
    BY <1>6, <1>p, <2>3 DEF Serve, ServeAll, StateTypes, mapVars, askVars
  <2>6. QueueTypes'
    BY <1>6, <1>p, <2>0, <2>1, <2>4 DEF Serve, ServeAll, QueueTypes
  <2> QED BY <2>5, <2>6, QueueTypesPrime
<1>7. ASSUME OnSubMarketData \/ OnUnSubMarketData \/ OnDisconnected PROVE TypeOK'
  <2>1. PICK op \in {"sub", "unsub", "disconnected"} : Take(op)
    BY <1>7 DEF OnSubMarketData, OnUnSubMarketData, OnDisconnected
  <2>2. Head(rsps).op \in {"sub", "unsub"} => Head(rsps).symbol \in Symbols
    BY <2>1, TakeTypes, RspIs
  <2>3. /\ sub_topics' \in [Symbols -> {"none", "off", "on"}] /\ klines' \subseteq Symbols
        /\ topic_exchange' \in [Symbols -> Places] /\ (reconn' = TRUE \/ reconn' = reconn)
    <3>1. CASE OnSubMarketData
      BY <1>p, <2>2, <3>1 DEF OnSubMarketData, Take, StateTypes
    <3>2. CASE OnUnSubMarketData
      BY <1>p, <2>2, <3>2 DEF OnUnSubMarketData, Take, StateTypes, Places
    <3>3. CASE OnDisconnected
      BY <1>p, <3>3 DEF OnDisconnected, StateTypes
    <3> QED BY <1>7, <3>1, <3>2, <3>3
  <2>4. reconn' \in BOOLEAN
    BY <1>p, <2>3 DEF StateTypes
  <2>5. StateTypes'
    BY <1>p, <2>1, <2>3, <2>4, TakeTypes DEF StateTypes
  <2>6. QueueTypes'
    BY <1>p, <2>1, TakeTypes DEF QueueTypes
  <2> QED BY <2>5, <2>6, QueueTypesPrime
<1>8. CASE Reconn
  <2>1. reqs' \in Seq(Call \cup CallAll)
    <3>1. PICK tp, ex, all : tp = sub_topics /\ ex = topic_exchange /\ all = sub_all
      OBVIOUS
    <3>2. ex \in [Symbols -> Places] /\ all \in BOOLEAN
      BY <1>p, <3>1 DEF StateTypes
    <3>3. SubTopicsCalls(tp, ex, all) \in Seq(Call \cup CallAll)
      BY <3>2, SubTopicsCallsType
    <3> QED BY <1>8, <3>1, <3>3 DEF Reconn
  <2>2. StateTypes'
    BY <1>8, <1>p DEF Reconn, StateTypes, mapVars, askVars
  <2>3. QueueTypes'
    BY <1>8, <1>p, <2>1 DEF Reconn, QueueTypes
  <2> QED BY <2>2, <2>3, QueueTypesPrime
<1>9. CASE UNCHANGED vars
  <2>1. StateTypes' /\ QueueTypes'
    BY <1>9, <1>p DEF vars, mapVars, apiVars, askVars, StateTypes, QueueTypes
  <2> QED BY <2>1, QueueTypesPrime
<1> QED BY <1>1, <1>2, <1>3, <1>4, <1>5, <1>6, <1>7, <1>8, <1>9 DEF Next, Spi

-----------------------------------------------------------------------------
(* The flags and the exchange.                                              *)

Answer(op, s, ok) == [op |-> op, symbol |-> s, ok |-> ok]

\* The callback that begins the subscription of s, and those that end it.
Begins(s) == {Answered("sub", s)}
Ends(s)   == {Answered("unsub", s), Disconnected}

On     == {s \in Symbols : sub_topics[s] = "on"}
Market == {i \in Symbols \X Exchanges : <<MarketData, i[1], i[2]>> \in upstream}
Sent   == {s \in Symbols : \E x \in Exchanges : <<s, x>> \in Market}
SentOn(x) == {s \in Symbols : <<s, x>> \in Market}

LEMMA Says ==
    ASSUME NEW s
    PROVE  /\ Begins(s) \cap Ends(s) = {}
           /\ \A op, t, ok : Answer(op, t, ok) \in Begins(s) <=> op = "sub" /\ t = s /\ ok = TRUE
           /\ \A op, t, ok : Answer(op, t, ok) \in Ends(s) <=> op = "unsub" /\ t = s /\ ok = TRUE
           /\ Disconnected \notin Begins(s) /\ Disconnected \in Ends(s)
<1>1. \A op, t, ok : Answer(op, t, ok) = Answered("sub", s) <=> op = "sub" /\ t = s /\ ok = TRUE
  BY DEF Answer, Answered
<1>2. \A op, t, ok : Answer(op, t, ok) = Answered("unsub", s) <=> op = "unsub" /\ t = s /\ ok = TRUE
  BY DEF Answer, Answered
<1>3. \A op, t, ok : Answer(op, t, ok) # Disconnected
  BY DEF Answer, Disconnected
<1>4. Answered("sub", s) # Answered("unsub", s)
  BY DEF Answered
<1>5. Answered("sub", s) # Disconnected
  BY DEF Answered, Disconnected
<1> QED BY <1>1, <1>2, <1>3, <1>4, <1>5, Zenon DEF Begins, Ends

\* How a step moves the callbacks, the flags and the market data.
Still == rsps' = rsps /\ On' = On /\ Market' = Market
Fills == rsps' = rsps /\ On' = On /\ Market \subseteq Market'
         /\ reqs # <<>> /\ Head(reqs).op = "suball"
Breaks == rsps' = Append(rsps, Disconnected) /\ On' = On /\ Market' = {}
Answers(op, s, x, ok) ==
    /\ reqs # <<>> /\ Head(reqs).op = op /\ Head(reqs).symbol = s /\ Head(reqs).exchange = x
    /\ Head(reqs) \in Call /\ (ok => x \in Exchanges)
    /\ rsps' = Append(rsps, Answer(op, s, ok)) /\ On' = On
    /\ Market' = IF ~ok THEN Market
                 ELSE IF op = "sub" THEN Market \cup {<<s, x>>} ELSE Market \ {<<s, x>>}
Told == rsps # <<>> /\ rsps' = Tail(rsps) /\ Market' = Market
ToldBroken == Told /\ Head(rsps) = Disconnected /\ On' = {}
ToldAnswer(op, s, ok) ==
    /\ Told /\ Head(rsps) = Answer(op, s, ok)
    /\ On' = IF ~ok THEN On ELSE IF op = "sub" THEN On \cup {s} ELSE On \ {s}

LEMMA Moves ==
    ASSUME TypeOK, [Next]_vars
    PROVE  \/ Still \/ Fills \/ Breaks \/ ToldBroken
           \/ \E op \in {"sub", "unsub"}, s \in Symbols, x \in Places, ok \in BOOLEAN : Answers(op, s, x, ok)
           \/ \E op \in {"sub", "unsub"}, s \in Symbols, ok \in BOOLEAN : ToldAnswer(op, s, ok)
<1>p. StateTypes /\ QueueTypes
  BY TypeIs
<1>t. sub_topics \in [Symbols -> {"none", "off", "on"}]
  BY <1>p DEF StateTypes
<1>1. ASSUME rsps' = rsps, upstream' = upstream, On' = On PROVE Still
  BY <1>1 DEF Still, Market
<1>2. CASE \/ Ignored \/ CallApi \/ Reconn \/ UNCHANGED vars
           \/ \E s \in Symbols : UnsubTopic(s)
  <2>1. rsps' = rsps /\ upstream' = upstream /\ sub_topics' = sub_topics
    BY <1>2 DEF Ignored, Accept, CallApi, Reconn, UnsubTopic, vars, mapVars, apiVars
  <2> QED BY <1>1, <2>1 DEF On
<1>3. ASSUME NEW s \in Symbols, NEW x \in Exchanges, SubTopic(s, x) PROVE Still
  <2>1. rsps' = rsps /\ upstream' = upstream
    BY <1>3 DEF SubTopic, Accept, apiVars
  <2>2. On' = On
    BY <1>3, <1>t DEF SubTopic, On
  <2> QED BY <1>1, <2>1, <2>2
<1>4. CASE LinkLost
  BY <1>4 DEF LinkLost, Breaks, On, Market, mapVars
<1>5. CASE ServeAll
  <2>1. rsps' = rsps /\ On' = On /\ upstream \subseteq upstream' /\ reqs # <<>> /\ Head(reqs).op = "suball"
    BY <1>5 DEF ServeAll, mapVars, On
  <2> QED BY <2>1 DEF Fills, Market
<1>6. CASE Serve
  <2>1. PICK r : r = Head(reqs)
    OBVIOUS
  <2>2. reqs # <<>> /\ r \in Call \cup CallAll /\ r.op # "suball"
    BY <1>6, <1>p, <2>1, HeadTailProperties DEF Serve, QueueTypes
  <2>3. r \in Call /\ r.op \in {"sub", "unsub"} /\ r.symbol \in Symbols /\ r.exchange \in Places
    BY <2>2, ReqIs
  <2>4. PICK op, s, x : op = r.op /\ s = r.symbol /\ x = r.exchange
    OBVIOUS
  <2>5. PICK ok : ok = IF r.op = "sub" THEN <<r.symbol, r.exchange>> \in Listed
                                     ELSE r.exchange \in Exchanges
    OBVIOUS
  <2>6. ok \in BOOLEAN
    <3>1. CASE r.op = "sub"
      <4>1. ok = (<<r.symbol, r.exchange>> \in Listed)
        BY <2>5, <3>1
      <4> QED BY <4>1
    <3>2. CASE r.op # "sub"
      <4>1. ok = (r.exchange \in Exchanges)
        BY <2>5, <3>2
      <4> QED BY <4>1
    <3> QED BY <3>1, <3>2
  <2>7. ok => x \in Exchanges
    <3>1. <<s, x>> \in Listed => x \in Exchanges
      BY XtpQuoteAssumption
    <3> QED BY <2>4, <2>5, <3>1
  <2>8. upstream' = IF ~ok THEN upstream
                    ELSE IF op = "sub" THEN upstream \cup {<<r.stream, s, x>>} ELSE upstream \ {<<r.stream, s, x>>}
    BY <1>6, <2>1, <2>4, <2>5 DEF Serve
  <2>9. On' = On
    BY <1>6 DEF Serve, mapVars, On
  <2>10. CASE r.stream # MarketData
    <3>1. rsps' = rsps
      BY <1>6, <2>1, <2>10 DEF Serve
    <3>2. Market' = Market
      BY <2>8, <2>10 DEF Market, MarketData
    <3> QED BY <2>9, <3>1, <3>2 DEF Still
  <2>11. CASE r.stream = MarketData
    <3>1. rsps' = Append(rsps, Answer(op, s, ok))
      BY <1>6, <2>1, <2>4, <2>5, <2>11 DEF Serve, Answer
    <3>2. Market' = IF ~ok THEN Market
                    ELSE IF op = "sub" THEN Market \cup {<<s, x>>} ELSE Market \ {<<s, x>>}
      BY <2>3, <2>4, <2>7, <2>8, <2>11 DEF Market, MarketData
    <3>3. Answers(op, s, x, ok)
      BY <2>1, <2>2, <2>3, <2>4, <2>7, <2>9, <3>1, <3>2 DEF Answers
    <3> QED BY <2>3, <2>4, <2>6, <3>3
  <2> QED BY <2>10, <2>11
<1>7. CASE OnDisconnected
  <2>1. rsps # <<>> /\ rsps' = Tail(rsps) /\ Head(rsps) \in Rsp \cup {Disconnected}
        /\ Head(rsps).op = "disconnected" /\ upstream' = upstream
    BY <1>7, TakeTypes DEF OnDisconnected
  <2>2. Head(rsps) = Disconnected
    BY <2>1, RspIs
  <2>3. On' = {}
    BY <1>7, <1>t DEF OnDisconnected, On
  <2> QED BY <2>1, <2>2, <2>3 DEF ToldBroken, Told, Market
<1>8. CASE OnSubMarketData \/ OnUnSubMarketData
  <2>1. rsps # <<>> /\ rsps' = Tail(rsps) /\ Head(rsps) \in Rsp \cup {Disconnected}
        /\ Head(rsps).op \in {"sub", "unsub"} /\ upstream' = upstream
    BY <1>8, TakeTypes DEF OnSubMarketData, OnUnSubMarketData
  <2>2. PICK op, s, ok : op = Head(rsps).op /\ s = Head(rsps).symbol /\ ok = Head(rsps).ok
    OBVIOUS
  <2>3. op \in {"sub", "unsub"} /\ s \in Symbols /\ ok \in BOOLEAN /\ Head(rsps) = Answer(op, s, ok)
    BY <2>1, <2>2, RspIs DEF Answer
  <2>4. \/ op = "sub" /\ ok /\ sub_topics' = [sub_topics EXCEPT ![s] = "on"]
        \/ op = "unsub" /\ ok /\ sub_topics' = [sub_topics EXCEPT ![s] = "none"]
        \/ ~ok /\ sub_topics' = sub_topics
    BY <1>8, <2>2 DEF OnSubMarketData, OnUnSubMarketData, Take
  <2>5. On' = IF ~ok THEN On ELSE IF op = "sub" THEN On \cup {s} ELSE On \ {s}
    BY <1>t, <2>3, <2>4 DEF On
  <2>6. ToldAnswer(op, s, ok)
    BY <2>1, <2>3, <2>5 DEF ToldAnswer, Told, Market
  <2> QED BY <2>3, <2>6
<1> QED BY <1>2, <1>3, <1>4, <1>5, <1>6, <1>7, <1>8 DEF Next, Spi

\* What is said to be subscribed is, or a callback takes it back.
SubedInv == \A s \in Symbols : Stands(rsps, Begins(s), Ends(s), s, On, Sent)

\* And the other way, where a symbol was asked for on one exchange only.
KnownInv == \A s \in Symbols, x \in Exchanges :
    ~sub_all /\ named[s] \subseteq {x} =>
        Stands(rsps, Ends(s), Begins(s), s, Symbols \ On, Symbols \ SentOn(x))

\* The calls that are about a place that was named, or about none.
Named(nm) == {c \in Call : c.exchange \in nm[c.symbol] \cup {Unknown}}

NamedInv == ~sub_all =>
    /\ reqs \in Seq(Named(named)) /\ http \in Seq(Named(named))
    /\ \A s \in Symbols : topic_exchange[s] \in named[s] \cup {Unknown}

LEMMA StandsSame ==
    ASSUME NEW q, NEW B, NEW E, NEW c, NEW on, NEW sent, NEW on2, NEW sent2,
           Stands(q, B, E, c, on, sent), c \in on2 => c \in on, c \in sent => c \in sent2
    PROVE  Stands(q, B, E, c, on2, sent2)
BY DEF Stands

LEMMA AnswerType ==
    ASSUME NEW op \in {"sub", "unsub"}, NEW s \in Symbols, NEW ok \in BOOLEAN
    PROVE  Answer(op, s, ok) \in Rsp \cup {Disconnected}
BY DEF Answer, Rsp

LEMMA SubedStep ==
    ASSUME TypeOK, SubedInv, [Next]_vars
    PROVE  SubedInv'
<1> SUFFICES ASSUME NEW c \in Symbols
             PROVE  Stands(rsps', Begins(c), Ends(c), c, On', Sent')
  BY DEF SubedInv, Begins, Ends, Answered, Disconnected
<1>p. rsps \in Seq(Rsp \cup {Disconnected}) /\ Disconnected \in Rsp \cup {Disconnected}
  BY DEF TypeOK
<1>a. Stands(rsps, Begins(c), Ends(c), c, On, Sent)
  BY DEF SubedInv
<1>s. Begins(c) \cap Ends(c) = {} /\ Disconnected \in Ends(c)
  BY Says
<1>c. PICK B, E, on2, sent2 : B = Begins(c) /\ E = Ends(c) /\ on2 = On' /\ sent2 = Sent'
  OBVIOUS
<1>ap. ASSUME NEW e \in Rsp \cup {Disconnected}, rsps' = Append(rsps, e), On' = On,
              \/ e \in Ends(c) \/ c \in Sent'
              \/ e \notin Begins(c) /\ c \notin Sent
       PROVE  Stands(rsps', Begins(c), Ends(c), c, On', Sent')
  <2>1. Stands(Append(rsps, e), B, E, c, On, sent2)
    BY <1>p, <1>a, <1>s, <1>c, <1>ap, StandsAppend, Zenon
  <2> QED BY <1>c, <1>ap, <2>1
<1>tl. ASSUME rsps # <<>>, rsps' = Tail(rsps), Sent' = Sent,
              c \notin On' \/ Head(rsps) \in Begins(c) \/ (Head(rsps) \notin Ends(c) /\ c \in On)
       PROVE  Stands(rsps', Begins(c), Ends(c), c, On', Sent')
  <2>1. Stands(Tail(rsps), B, E, c, on2, Sent)
    BY <1>p, <1>a, <1>c, <1>tl, StandsTail, Zenon
  <2> QED BY <1>c, <1>tl, <2>1
<1>1. CASE Still \/ Fills
  <2>1. rsps' = rsps /\ On' = On /\ (c \in Sent => c \in Sent')
    BY <1>1 DEF Still, Fills, Sent
  <2>2. Stands(rsps, Begins(c), Ends(c), c, on2, sent2)
    BY <1>a, <1>c, <2>1, StandsSame, Zenon
  <2> QED BY <1>c, <2>1, <2>2
<1>2. CASE Breaks
  BY <1>2, <1>p, <1>s, <1>ap DEF Breaks
<1>3. ASSUME NEW op \in {"sub", "unsub"}, NEW s \in Symbols, NEW x \in Places, NEW ok \in BOOLEAN,
             Answers(op, s, x, ok)
      PROVE  Stands(rsps', Begins(c), Ends(c), c, On', Sent')
  <2>1. /\ Answer(op, s, ok) \in Begins(c) <=> op = "sub" /\ s = c /\ ok = TRUE
        /\ Answer(op, s, ok) \in Ends(c) <=> op = "unsub" /\ s = c /\ ok = TRUE
    BY Says, Zenon
  <2>2. Answer(op, s, ok) \in Rsp \cup {Disconnected}
    BY AnswerType
  <2>3. \/ Answer(op, s, ok) \in Ends(c) \/ c \in Sent'
        \/ Answer(op, s, ok) \notin Begins(c) /\ c \notin Sent
    <3>1. CASE s = c /\ ok /\ op = "sub"
      BY <1>3, <3>1 DEF Answers, Sent
    <3>2. CASE s = c /\ ok /\ op = "unsub"
      BY <2>1, <3>2
    <3>3. CASE ~(s = c /\ ok)
      <4>1. c \in Sent => c \in Sent'
        BY <1>3, <3>3 DEF Answers, Sent
      <4> QED BY <2>1, <3>3, <4>1
    <3> QED BY <3>1, <3>2, <3>3
  <2> QED BY <1>3, <1>ap, <2>2, <2>3 DEF Answers
<1>4. CASE ToldBroken
  BY <1>4, <1>tl DEF ToldBroken, Told, Sent
<1>5. ASSUME NEW op \in {"sub", "unsub"}, NEW s \in Symbols, NEW ok \in BOOLEAN, ToldAnswer(op, s, ok)
      PROVE  Stands(rsps', Begins(c), Ends(c), c, On', Sent')
  <2>1. /\ Answer(op, s, ok) \in Begins(c) <=> op = "sub" /\ s = c /\ ok = TRUE
        /\ Answer(op, s, ok) \in Ends(c) <=> op = "unsub" /\ s = c /\ ok = TRUE
    BY Says, Zenon
  <2>2. c \notin On' \/ Answer(op, s, ok) \in Begins(c) \/ (Answer(op, s, ok) \notin Ends(c) /\ c \in On)
    BY <1>5, <2>1 DEF ToldAnswer
  <2>3. c \notin On' \/ Head(rsps) \in Begins(c) \/ (Head(rsps) \notin Ends(c) /\ c \in On)
    BY <1>5, <2>2, Zenon DEF ToldAnswer
  <2> QED BY <1>5, <1>tl, <2>3 DEF ToldAnswer, Told, Sent
<1> QED BY <1>1, <1>2, <1>3, <1>4, <1>5, Moves

LEMMA NamedStep ==
    ASSUME TypeOK, NamedInv, [Next]_vars
    PROVE  NamedInv'
<1>p. StateTypes /\ QueueTypes
  BY TypeIs
<1> SUFFICES ASSUME ~sub_all'
             PROVE  /\ reqs' \in Seq(Named(named')) /\ http' \in Seq(Named(named'))
                    /\ \A s \in Symbols : topic_exchange'[s] \in named'[s] \cup {Unknown}
  BY DEF NamedInv, Named, Call
<1>a. sub_all' = sub_all
  BY DEF Next, Spi, Ignored, SubTopic, UnsubTopic, Accept, CallApi, LinkLost, Serve, ServeAll, Take,
         OnSubMarketData, OnUnSubMarketData, OnDisconnected, Reconn, mapVars, vars
<1>i. /\ reqs \in Seq(Named(named)) /\ http \in Seq(Named(named))
      /\ \A s \in Symbols : topic_exchange[s] \in named[s] \cup {Unknown}
  BY <1>a DEF NamedInv
<1>k. PICK nm, nm2 : nm = named /\ nm2 = named'
  OBVIOUS
<1>m. ASSUME \A s \in Symbols : named[s] \subseteq named'[s]
      PROVE  Seq(Named(named)) \subseteq Seq(Named(named'))
  <2>1. Named(nm) \subseteq Named(nm2)
    <3>1. \A c \in Call : c.symbol \in Symbols
      BY DEF Call
    <3> QED BY <1>k, <1>m, <3>1 DEF Named
  <2>2. Seq(Named(nm)) \subseteq Seq(Named(nm2))
    BY <2>1
  <2> QED BY <1>k, <2>2
\* The calls for a symbol about a place that was named.
<1>b. ASSUME NEW op \in {"sub", "unsub"}, NEW s \in Symbols, NEW x \in Places, x \in named'[s] \cup {Unknown}
      PROVE  CallsFor(op, s, x) \in Seq(Named(named'))
  <2>1. PICK b : b = CallsFor(op, s, x)
    OBVIOUS
  <2>2. b \in Seq(Call) /\ DOMAIN b = DOMAIN Streams
        /\ \A i \in DOMAIN Streams : b[i] = [op |-> op, stream |-> Streams[i], symbol |-> s, exchange |-> x]
    <3>1. /\ CallsFor(op, s, x) \in Seq(Call) /\ DOMAIN CallsFor(op, s, x) = DOMAIN Streams
          /\ \A i \in DOMAIN Streams :
                CallsFor(op, s, x)[i] = [op |-> op, stream |-> Streams[i], symbol |-> s, exchange |-> x]
      BY CallsForAre
    <3> QED BY <2>1, <3>1, Zenon
  <2>3. \A i \in DOMAIN b : b[i] \in Named(nm2)
    BY <1>b, <1>k, <2>2 DEF Named
  <2>4. b \in Seq(Named(nm2))
    BY <2>2, <2>3
  <2> QED BY <1>k, <2>1, <2>4
<1>1. CASE Ignored \/ OnSubMarketData \/ OnUnSubMarketData \/ OnDisconnected \/ UNCHANGED vars
  <2>1. reqs' = reqs /\ http' = http /\ named' = named
    BY <1>1 DEF Ignored, Accept, OnSubMarketData, OnUnSubMarketData, OnDisconnected, Take, vars, askVars
  <2>2. \A s \in Symbols : topic_exchange'[s] = topic_exchange[s] \/ topic_exchange'[s] = Unknown
    <3>1. topic_exchange' = topic_exchange
          \/ topic_exchange' = [topic_exchange EXCEPT ![Head(rsps).symbol] = Unknown]
      BY <1>1 DEF Ignored, OnSubMarketData, OnUnSubMarketData, OnDisconnected, vars, mapVars
    <3> QED BY <1>p, <3>1 DEF StateTypes
  <2> QED BY <1>i, <2>1, <2>2
<1>2. ASSUME NEW s \in Symbols, NEW x \in Exchanges, SubTopic(s, x)
      PROVE  /\ reqs' \in Seq(Named(named')) /\ http' \in Seq(Named(named'))
             /\ \A t \in Symbols : topic_exchange'[t] \in named'[t] \cup {Unknown}
  <2>1. reqs' = reqs /\ named' = [named EXCEPT ![s] = @ \cup {x}]
    BY <1>2 DEF SubTopic, Accept
  <2>2. x \in named'[s] /\ \A t \in Symbols : named[t] \subseteq named'[t]
    BY <1>p, <2>1 DEF StateTypes
  <2>3. http' = http \/ http' = CallsFor("sub", s, x)
    BY <1>2 DEF SubTopic
  <2>4. \A t \in Symbols : topic_exchange'[t] = topic_exchange[t] \/ (t = s /\ topic_exchange'[t] = x)
    BY <1>2, <1>p DEF SubTopic, StateTypes
  <2>5. x \in Places
    BY DEF Places
  <2>6. CallsFor("sub", s, x) \in Seq(Named(named'))
    BY <1>b, <2>2, <2>5
  <2>7. http' \in Seq(Named(named'))
    BY <1>i, <1>m, <2>2, <2>3, <2>6
  <2> QED BY <1>i, <1>m, <2>1, <2>2, <2>4, <2>7
<1>3. ASSUME NEW s \in Symbols, UnsubTopic(s)
      PROVE  /\ reqs' \in Seq(Named(named')) /\ http' \in Seq(Named(named'))
             /\ \A t \in Symbols : topic_exchange'[t] \in named'[t] \cup {Unknown}
  <2>1. reqs' = reqs /\ named' = named /\ topic_exchange' = topic_exchange
    BY <1>3 DEF UnsubTopic, Accept
  <2>2. PICK x \in Places : x = topic_exchange[s]
    BY <1>p DEF StateTypes
  <2>3. http' = <<>> \/ http' = CallsFor("unsub", s, x)
    BY <1>3, <2>2 DEF UnsubTopic
  <2>4. CallsFor("unsub", s, x) \in Seq(Named(named'))
    BY <1>b, <1>i, <2>1, <2>2
  <2>5. http' \in Seq(Named(named'))
    <3>1. <<>> \in Seq(Named(nm2))
      OBVIOUS
    <3> QED BY <1>k, <2>3, <2>4, <3>1, Zenon
  <2> QED BY <1>i, <2>1, <2>5
<1>4. CASE CallApi
  <2>1. named' = named /\ topic_exchange' = topic_exchange /\ http # <<>> /\ http' = Tail(http)
        /\ (reqs' = reqs \/ reqs' = Append(reqs, Head(http)))
    BY <1>4 DEF CallApi, mapVars, askVars
  <2>2. Head(http) \in Named(nm) /\ Tail(http) \in Seq(Named(nm))
    BY <1>i, <1>k, <2>1, HeadTailProperties
  <2>3. PICK e \in Named(nm) : e = Head(http)
    BY <2>2
  <2>4. Append(reqs, e) \in Seq(Named(nm))
    BY <1>i, <1>k, AppendProperties
  <2> QED BY <1>i, <1>k, <2>1, <2>2, <2>3, <2>4
<1>5. CASE LinkLost \/ Serve \/ ServeAll
  <2>1. named' = named /\ topic_exchange' = topic_exchange /\ http' = http
        /\ (reqs' = <<>> \/ (reqs # <<>> /\ reqs' = Tail(reqs)))
    BY <1>5 DEF LinkLost, Serve, ServeAll, mapVars, askVars
  <2>2. reqs # <<>> => Tail(reqs) \in Seq(Named(nm))
    BY <1>i, <1>k, HeadTailProperties
  <2>3. <<>> \in Seq(Named(nm))
    OBVIOUS
  <2>4. reqs' \in Seq(Named(nm))
    BY <1>i, <1>k, <2>1, <2>2, <2>3, Zenon
  <2> QED BY <1>i, <1>k, <2>1, <2>4
<1>6. CASE Reconn
  <2>1. named' = named /\ topic_exchange' = topic_exchange /\ http' = http
        /\ reqs' = SubTopicsCalls(sub_topics, topic_exchange, sub_all)
    BY <1>6 DEF Reconn, mapVars, askVars
  <2>2. PICK tp, ex : tp = sub_topics /\ ex = topic_exchange
    OBVIOUS
  <2>3. PICK q : q = SubTopicsCalls(tp, ex, FALSE)
    OBVIOUS
  <2>4. q \in Seq(Call) /\ \A i \in DOMAIN q : q[i].exchange = ex[q[i].symbol]
    <3>1. ex \in [Symbols -> Places]
      BY <1>p, <2>2 DEF StateTypes
    <3> QED BY <2>3, <3>1, SubTopicsCallsAre
  <2>5. \A i \in DOMAIN q : q[i] \in Call /\ q[i].symbol \in Symbols
    <3>1. \A c \in Call : c.symbol \in Symbols
      BY DEF Call
    <3>2. \A i \in DOMAIN q : q[i] \in Call
      BY <2>4
    <3> QED BY <3>1, <3>2
  <2>6. \A i \in DOMAIN q : q[i] \in Named(nm)
    BY <1>i, <1>k, <2>2, <2>4, <2>5 DEF Named
  <2>7. q \in Seq(Named(nm))
    BY <2>4, <2>6
  <2>8. sub_all = FALSE
    BY <1>a, <1>p DEF StateTypes
  <2> QED BY <1>i, <1>k, <2>1, <2>2, <2>3, <2>7, <2>8
<1> QED BY <1>1, <1>2, <1>3, <1>4, <1>5, <1>6 DEF Next, Spi

\* Nothing that was named is forgotten.
LEMMA NamedGrows ==
    ASSUME TypeOK, [Next]_vars
    PROVE  sub_all' = sub_all /\ \A s \in Symbols : named[s] \subseteq named'[s]
<1>1. sub_all' = sub_all
  BY DEF Next, Spi, Ignored, SubTopic, UnsubTopic, Accept, CallApi, LinkLost, Serve, ServeAll, Take,
         OnSubMarketData, OnUnSubMarketData, OnDisconnected, Reconn, mapVars, vars
<1>2. named \in [Symbols -> SUBSET Exchanges]
  BY DEF TypeOK
<1>3. ASSUME NEW s \in Symbols, NEW x \in Exchanges, SubTopic(s, x)
      PROVE  \A t \in Symbols : named[t] \subseteq named'[t]
  BY <1>2, <1>3 DEF SubTopic
<1>4. CASE ~\E s \in Symbols, x \in Exchanges : SubTopic(s, x)
  <2>1. named' = named
    BY <1>4 DEF Next, Spi, Ignored, UnsubTopic, CallApi, LinkLost, Serve, ServeAll, Take,
                OnSubMarketData, OnUnSubMarketData, OnDisconnected, Reconn, askVars, vars
  <2> QED BY <1>1, <2>1
<1> QED BY <1>1, <1>3, <1>4

LEMMA KnownStep ==
    ASSUME TypeOK, NamedInv, KnownInv, [Next]_vars
    PROVE  KnownInv'
<1> SUFFICES ASSUME NEW c \in Symbols, NEW x \in Exchanges, ~sub_all', named'[c] \subseteq {x}
             PROVE  Stands(rsps', Ends(c), Begins(c), c, Symbols \ On', Symbols \ SentOn(x)')
  BY DEF KnownInv, Begins, Ends, Answered, Disconnected, SentOn
<1>p. rsps \in Seq(Rsp \cup {Disconnected}) /\ Disconnected \in Rsp \cup {Disconnected}
  BY DEF TypeOK
<1>n. ~sub_all /\ named[c] \subseteq {x}
  BY NamedGrows
<1>r. reqs \in Seq(Named(named))
  BY <1>n DEF NamedInv
<1>a. Stands(rsps, Ends(c), Begins(c), c, Symbols \ On, Symbols \ SentOn(x))
  BY <1>n DEF KnownInv
<1>s. Ends(c) \cap Begins(c) = {} /\ Disconnected \in Ends(c)
  BY Says
<1>c. PICK B, E, on, on2, sent, sent2 :
          /\ B = Ends(c) /\ E = Begins(c) /\ on = Symbols \ On /\ on2 = Symbols \ On'
          /\ sent = Symbols \ SentOn(x) /\ sent2 = Symbols \ SentOn(x)'
  OBVIOUS
<1>ap. ASSUME NEW e \in Rsp \cup {Disconnected}, rsps' = Append(rsps, e), On' = On,
              \/ e \in Begins(c) \/ c \notin SentOn(x)'
              \/ e \notin Ends(c) /\ c \in SentOn(x)
       PROVE  Stands(rsps', Ends(c), Begins(c), c, Symbols \ On', Symbols \ SentOn(x)')
  <2>0. Stands(rsps, B, E, c, on, sent)
    BY <1>a, <1>c
  <2>1. e \in E \/ c \in sent2 \/ (e \notin B /\ c \notin sent)
    BY <1>ap, <1>c
  <2>2. Stands(Append(rsps, e), B, E, c, on, sent2)
    BY <1>p, <1>s, <1>c, <2>0, <2>1, StandsAppend, Zenon
  <2> QED BY <1>c, <1>ap, <2>2
<1>tl. ASSUME rsps # <<>>, rsps' = Tail(rsps), SentOn(x)' = SentOn(x),
              c \in On' \/ Head(rsps) \in Ends(c) \/ (Head(rsps) \notin Begins(c) /\ c \notin On)
       PROVE  Stands(rsps', Ends(c), Begins(c), c, Symbols \ On', Symbols \ SentOn(x)')
  <2>0. Stands(rsps, B, E, c, on, sent)
    BY <1>a, <1>c
  <2>1. c \notin on2 \/ Head(rsps) \in B \/ (Head(rsps) \notin E /\ c \in on)
    BY <1>tl, <1>c
  <2>2. Stands(Tail(rsps), B, E, c, on2, sent)
    BY <1>p, <1>tl, <2>0, <2>1, StandsTail, Zenon
  <2> QED BY <1>c, <1>tl, <2>2
<1>1. CASE Still
  <2>1. rsps' = rsps /\ on2 = on /\ sent2 = sent
    BY <1>1, <1>c DEF Still, SentOn
  <2> QED BY <1>a, <1>c, <2>1
<1>2. CASE Fills
  <2>1. Head(reqs) \in Named(named) /\ Head(reqs).op = "suball"
    BY <1>2, <1>r, HeadTailProperties DEF Fills
  <2>2. \A r \in Call : r.op # "suball"
    BY DEF Call
  <2> QED BY <2>1, <2>2 DEF Named
<1>3. CASE Breaks
  <2>1. c \notin SentOn(x)'
    BY <1>3 DEF Breaks, SentOn
  <2> QED BY <1>3, <1>p, <1>ap, <2>1 DEF Breaks
<1>4. ASSUME NEW op \in {"sub", "unsub"}, NEW s \in Symbols, NEW y \in Places, NEW ok \in BOOLEAN,
             Answers(op, s, y, ok)
      PROVE  Stands(rsps', Ends(c), Begins(c), c, Symbols \ On', Symbols \ SentOn(x)')
  <2>1. /\ Answer(op, s, ok) \in Begins(c) <=> op = "sub" /\ s = c /\ ok = TRUE
        /\ Answer(op, s, ok) \in Ends(c) <=> op = "unsub" /\ s = c /\ ok = TRUE
    BY Says, Zenon
  <2>2. Answer(op, s, ok) \in Rsp \cup {Disconnected}
    BY AnswerType
  <2>3. s = c /\ ok => y = x
    <3>1. Head(reqs) \in Named(named) /\ Head(reqs).symbol = s /\ Head(reqs).exchange = y
          /\ (ok => y \in Exchanges)
      BY <1>4, <1>r, HeadTailProperties DEF Answers
    <3>2. y \in named[s] \cup {Unknown}
      BY <3>1 DEF Named
    <3>3. Unknown \notin Exchanges
      BY XtpQuoteAssumption
    <3> QED BY <1>n, <3>1, <3>2, <3>3
  <2>4. \/ Answer(op, s, ok) \in Begins(c) \/ c \notin SentOn(x)'
        \/ Answer(op, s, ok) \notin Ends(c) /\ c \in SentOn(x)
    <3>1. CASE s = c /\ ok /\ op = "sub"
      BY <2>1, <3>1
    <3>2. CASE s = c /\ ok /\ op = "unsub"
      BY <1>4, <2>3, <3>2 DEF Answers, SentOn
    <3>3. CASE ~(s = c /\ ok)
      <4>1. c \in SentOn(x)' => c \in SentOn(x)
        BY <1>4, <3>3 DEF Answers, SentOn
      <4> QED BY <2>1, <3>3, <4>1
    <3> QED BY <3>1, <3>2, <3>3
  <2> QED BY <1>4, <1>ap, <2>2, <2>4 DEF Answers
<1>5. CASE ToldBroken
  <2>1. Head(rsps) \in Ends(c) /\ SentOn(x)' = SentOn(x)
    BY <1>5, <1>s DEF ToldBroken, Told, SentOn
  <2> QED BY <1>5, <1>tl, <2>1 DEF ToldBroken, Told
<1>6. ASSUME NEW op \in {"sub", "unsub"}, NEW s \in Symbols, NEW ok \in BOOLEAN, ToldAnswer(op, s, ok)
      PROVE  Stands(rsps', Ends(c), Begins(c), c, Symbols \ On', Symbols \ SentOn(x)')
  <2>1. /\ Answer(op, s, ok) \in Begins(c) <=> op = "sub" /\ s = c /\ ok = TRUE
        /\ Answer(op, s, ok) \in Ends(c) <=> op = "unsub" /\ s = c /\ ok = TRUE
    BY Says, Zenon
  <2>2. c \in On' \/ Answer(op, s, ok) \in Ends(c) \/ (Answer(op, s, ok) \notin Begins(c) /\ c \notin On)
    BY <1>6, <2>1 DEF ToldAnswer
  <2>3. c \in On' \/ Head(rsps) \in Ends(c) \/ (Head(rsps) \notin Begins(c) /\ c \notin On)
    BY <1>6, <2>2, Zenon DEF ToldAnswer
  <2>4. SentOn(x)' = SentOn(x)
    BY <1>6 DEF ToldAnswer, Told, SentOn
  <2> QED BY <1>6, <1>tl, <2>3, <2>4 DEF ToldAnswer, Told
<1> QED BY <1>1, <1>2, <1>3, <1>4, <1>5, <1>6, Moves

LEMMA KlinesStep == ASSUME TypeOK, KlinesFollow, [Next]_vars PROVE KlinesFollow'
<1>t. sub_topics \in [Symbols -> {"none", "off", "on"}]
  BY DEF TypeOK
<1>1. ASSUME klines' = klines, sub_topics' = sub_topics PROVE KlinesFollow'
  BY <1>1 DEF KlinesFollow
<1>2. CASE \/ Ignored \/ CallApi \/ LinkLost \/ Serve \/ ServeAll \/ Reconn \/ UNCHANGED vars
           \/ \E s \in Symbols : UnsubTopic(s)
  <2>1. klines' = klines /\ sub_topics' = sub_topics
    BY <1>2 DEF Ignored, UnsubTopic, Accept, CallApi, LinkLost, Serve, ServeAll, Reconn, vars, mapVars
  <2> QED BY <1>1, <2>1
<1>3. ASSUME NEW s \in Symbols, NEW x \in Exchanges, SubTopic(s, x) PROVE KlinesFollow'
  <2>1. klines' = klines
    BY <1>3 DEF SubTopic, Accept
  <2>2. \A t \in Symbols : sub_topics'[t] = sub_topics[t] \/ (sub_topics[t] # "on" /\ sub_topics'[t] = "off")
    BY <1>3, <1>t DEF SubTopic
  <2> QED BY <2>1, <2>2 DEF KlinesFollow
<1>4. CASE OnDisconnected
  BY <1>4, <1>t DEF OnDisconnected, KlinesFollow
<1>5. CASE OnSubMarketData \/ OnUnSubMarketData
  <2>1. PICK r : r = Head(rsps)
    OBVIOUS
  <2>2. r.symbol \in Symbols
    <3>1. r \in Rsp \cup {Disconnected} /\ r.op \in {"sub", "unsub"}
      BY <1>5, <2>1, TakeTypes DEF OnSubMarketData, OnUnSubMarketData
    <3> QED BY <3>1, RspIs
  <2>3. \/ sub_topics' = [sub_topics EXCEPT ![r.symbol] = "on"] /\ klines' = klines \cup {r.symbol}
        \/ sub_topics' = [sub_topics EXCEPT ![r.symbol] = "none"] /\ klines' = klines \ {r.symbol}
        \/ sub_topics' = sub_topics /\ klines' = klines
    BY <1>5, <2>1 DEF OnSubMarketData, OnUnSubMarketData
  <2> QED BY <1>t, <2>2, <2>3 DEF KlinesFollow
<1> QED BY <1>2, <1>3, <1>4, <1>5 DEF Next, Spi

IInv == TypeOK /\ SubedInv /\ NamedInv /\ KnownInv /\ KlinesFollow

LEMMA IInvInit == ASSUME Init PROVE IInv
<1>1. /\ TypeOK /\ rsps = <<>> /\ http = <<>> /\ klines = {} /\ upstream = {}
      /\ \A s \in Symbols : sub_topics[s] # "on"
      /\ \A s \in Symbols : topic_exchange[s] \in named[s] \cup {Unknown}
      /\ reqs = SubTopicsCalls(sub_topics, topic_exchange, sub_all)
  BY TypeInit DEF Init
<1>2. On = {} /\ Sent = {} /\ \A x \in Exchanges : SentOn(x) = {}
  BY <1>1 DEF On, Sent, SentOn, Market
<1>3. SubedInv
  BY <1>1, <1>2 DEF SubedInv, Stands
<1>4. KnownInv
  BY <1>1, <1>2 DEF KnownInv, Stands
<1>5. NamedInv
  <2>1. ASSUME ~sub_all PROVE reqs \in Seq(Named(named))
    <3>1. PICK tp, ex, nm : tp = sub_topics /\ ex = topic_exchange /\ nm = named
      OBVIOUS
    <3>2. PICK q : q = SubTopicsCalls(tp, ex, FALSE)
      OBVIOUS
    <3>3. ex \in [Symbols -> Places]
      BY <1>1, <3>1 DEF TypeOK, Places
    <3>4. q \in Seq(Call) /\ \A i \in DOMAIN q : q[i].exchange = ex[q[i].symbol]
      BY <3>2, <3>3, SubTopicsCallsAre
    <3>5. \A c \in Call : c.symbol \in Symbols
      BY DEF Call
    <3>6. \A i \in DOMAIN q : q[i] \in Call
      BY <3>4
    <3>7. \A i \in DOMAIN q : q[i] \in Named(nm)
      BY <1>1, <3>1, <3>4, <3>5, <3>6 DEF Named
    <3>8. q \in Seq(Named(nm))
      BY <3>4, <3>7
    <3>9. sub_all = FALSE
      BY <1>1, <2>1 DEF TypeOK
    <3>10. reqs = q
      BY <1>1, <3>1, <3>2, <3>9
    <3> QED BY <3>1, <3>8, <3>10, Zenon
  <2> QED BY <1>1, <2>1 DEF NamedInv
<1>6. KlinesFollow
  BY <1>1 DEF KlinesFollow
<1> QED BY <1>1, <1>3, <1>4, <1>5, <1>6 DEF IInv

LEMMA IInvImplies == ASSUME IInv PROVE Inv
<1>1. SubedIsTrue
  <2> SUFFICES ASSUME NEW s \in Symbols, sub_topics[s] = "on",
                      ~\E x \in Exchanges : <<MarketData, s, x>> \in upstream
               PROVE  Due(Disconnected) \/ Due(Answered("unsub", s))
    BY DEF SubedIsTrue
  <2>1. Stands(rsps, Begins(s), Ends(s), s, On, Sent) /\ s \in On /\ s \notin Sent
    BY DEF IInv, SubedInv, On, Sent, Market
  <2>2. PICK i \in DOMAIN rsps : rsps[i] \in Ends(s)
    BY <2>1, Zenon DEF Stands
  <2> QED BY <2>2, Zenon DEF Ends, Due
<1>2. UpstreamIsKnown
  <2> SUFFICES ASSUME NEW s \in Symbols, NEW x \in Exchanges,
                      ~sub_all, named[s] = {x}, <<MarketData, s, x>> \in upstream, sub_topics[s] # "on"
               PROVE  Due(Answered("sub", s))
    BY DEF UpstreamIsKnown
  <2>1. Stands(rsps, Ends(s), Begins(s), s, Symbols \ On, Symbols \ SentOn(x))
        /\ s \in Symbols \ On /\ s \notin Symbols \ SentOn(x)
    BY DEF IInv, KnownInv, On, SentOn, Market
  <2>2. PICK i \in DOMAIN rsps : rsps[i] \in Begins(s)
    BY <2>1, Zenon DEF Stands
  <2> QED BY <2>2, Zenon DEF Begins, Due
<1> QED BY <1>1, <1>2 DEF IInv, Inv

\* However requests, answers and broken connections follow each other: what
\* XTPQuoteHandler says is subscribed is, or the callback that takes it back is on
\* its way; XTP sends nothing of a symbol of one exchange that the gateway does not
\* know of or is about to be told of; and klines are made of what is in the map.
THEOREM InvCorrect == Spec => []Inv
<1>1. Init => IInv
  BY IInvInit
<1>2. IInv /\ [Next]_vars => IInv'
  BY TypeStep, SubedStep, NamedStep, KnownStep, KlinesStep DEF IInv
<1>3. IInv => Inv
  BY IInvImplies
<1> QED BY <1>1, <1>2, <1>3, PTL DEF Spec

-----------------------------------------------------------------------------
(* Where a symbol is subscribed.                                            *)

\* Nothing comes from XTP while there is no connection, and the callback that says
\* so is the last.
PhaseInv ==
    /\ reconn => ~link /\ rsps = <<>>
    /\ ~link => reqs = <<>> /\ upstream = {}
    /\ \A i \in DOMAIN rsps : rsps[i] = Disconnected => i = Len(rsps) /\ ~link

LEMMA PhaseStep ==
    ASSUME TypeOK, PhaseInv, [Next]_vars
    PROVE  PhaseInv'
<1>p. rsps \in Seq(Rsp \cup {Disconnected})
  BY DEF TypeOK
<1>b. link \in BOOLEAN /\ reconn \in BOOLEAN
  BY DEF TypeOK
<1>1. ASSUME UNCHANGED <<reconn, link, upstream, reqs, rsps>> PROVE PhaseInv'
  BY <1>1 DEF PhaseInv
<1>2. CASE \/ Ignored \/ UNCHANGED vars
           \/ \E s \in Symbols, x \in Exchanges : SubTopic(s, x)
           \/ \E s \in Symbols : UnsubTopic(s)
  <2>1. UNCHANGED <<reconn, link, upstream, reqs, rsps>>
    BY <1>2 DEF Ignored, SubTopic, UnsubTopic, Accept, apiVars, vars
  <2> QED BY <1>1, <2>1
<1>3. CASE CallApi
  BY <1>3 DEF CallApi, apiVars, PhaseInv
<1>4. CASE LinkLost
  <2>1. link /\ link' = FALSE /\ upstream' = {} /\ reqs' = <<>> /\ reconn' = reconn
        /\ rsps' = Append(rsps, Disconnected)
    BY <1>4 DEF LinkLost
  <2>2. PICK t : t = Append(rsps, Disconnected)
    OBVIOUS
  <2>3. /\ Len(t) = Len(rsps) + 1
        /\ \A i \in DOMAIN t : (i \in DOMAIN rsps /\ t[i] = rsps[i]) \/ i = Len(t)
    BY <1>p, <2>2, AppendProperties
  <2>4. \A i \in DOMAIN t : t[i] = Disconnected => i = Len(t)
    BY <2>1, <2>3 DEF PhaseInv
  <2>5. ~reconn
    BY <2>1 DEF PhaseInv
  <2> QED BY <2>1, <2>2, <2>4, <2>5 DEF PhaseInv
<1>5. CASE Serve \/ ServeAll
  <2>1. link /\ ~reconn
    BY <1>5 DEF Serve, ServeAll, PhaseInv
  <2>2. link' = link /\ reconn' = reconn
    BY <1>5 DEF Serve, ServeAll
  <2>3. rsps' = rsps \/ \E op, s, ok : rsps' = Append(rsps, Answer(op, s, ok))
    BY <1>5 DEF Serve, ServeAll, Answer
  <2>4. ASSUME NEW i \in DOMAIN rsps' PROVE rsps'[i] # Disconnected
    <3>1. \A j \in DOMAIN rsps : rsps[j] # Disconnected
      BY <2>1 DEF PhaseInv
    <3>2. CASE rsps' = rsps
      BY <3>1, <3>2
    <3>3. ASSUME NEW op, NEW s, NEW ok, rsps' = Append(rsps, Answer(op, s, ok)) PROVE rsps'[i] # Disconnected
      <4>1. PICK e : e = Answer(op, s, ok)
        OBVIOUS
      <4>2. e # Disconnected
        BY <4>1 DEF Answer, Disconnected
      <4>3. PICK t : t = Append(rsps, e)
        OBVIOUS
      <4>4. \A j \in DOMAIN t : (j \in DOMAIN rsps /\ t[j] = rsps[j]) \/ t[j] = e
        BY <1>p, <4>3, AppendProperties
      <4> QED BY <3>1, <3>3, <4>1, <4>2, <4>3, <4>4
    <3> QED BY <2>3, <3>2, <3>3
  <2> QED BY <2>1, <2>2, <2>4 DEF PhaseInv
<1>6. CASE OnSubMarketData \/ OnUnSubMarketData \/ OnDisconnected
  <2>1. rsps # <<>> /\ rsps' = Tail(rsps) /\ UNCHANGED <<link, upstream, reqs>> /\ ~reconn
    BY <1>6, TakeTypes DEF OnSubMarketData, OnUnSubMarketData, OnDisconnected
  <2>2. PICK t : t = Tail(rsps)
    OBVIOUS
  <2>3. /\ Len(t) = Len(rsps) - 1 /\ Len(rsps) \in Nat \ {0}
        /\ \A i \in DOMAIN t : i + 1 \in DOMAIN rsps /\ t[i] = rsps[i + 1]
        /\ DOMAIN t \subseteq Nat /\ 1 \in DOMAIN rsps /\ Head(rsps) = rsps[1]
        /\ t \in Seq(Rsp \cup {Disconnected})
    BY <1>p, <2>1, <2>2, HeadTailProperties
  <2>4. \A i \in DOMAIN t : t[i] = Disconnected => i = Len(t) /\ ~link
    BY <2>3 DEF PhaseInv
  <2>5. CASE OnDisconnected
    <3>1. Head(rsps) = Disconnected
      BY <2>5, TakeTypes, RspIs DEF OnDisconnected
    <3>2. Len(rsps) = 1 /\ ~link
      BY <2>3, <3>1 DEF PhaseInv
    <3>3. t = <<>>
      BY <2>3, <3>2, EmptySeq
    <3>4. reconn' = TRUE
      BY <2>5 DEF OnDisconnected
    <3> QED BY <2>1, <2>2, <2>4, <3>2, <3>3, <3>4 DEF PhaseInv
  <2>6. CASE ~OnDisconnected
    <3>1. reconn' = reconn
      BY <1>6, <2>6 DEF OnSubMarketData, OnUnSubMarketData
    <3> QED BY <2>1, <2>2, <2>4, <3>1 DEF PhaseInv
  <2> QED BY <2>5, <2>6
<1>7. CASE Reconn
  <2>1. reconn /\ link' = TRUE /\ reconn' = FALSE /\ rsps' = rsps
    BY <1>7 DEF Reconn
  <2>2. rsps' = <<>>
    BY <2>1 DEF PhaseInv
  <2> QED BY <2>1, <2>2 DEF PhaseInv
<1> QED BY <1>2, <1>3, <1>4, <1>5, <1>6, <1>7 DEF Next, Spi

\* Is there an op of s in q, which may be calls or callbacks.
Of(e, op, s)  == e.op = op /\ e.symbol = s
Has(q, op, s) == \E i \in DOMAIN q : Of(q[i], op, s)

\* No subscription of s comes after an unsubscription of it.
NoneBehind(q, s) ==
    \A i, j \in DOMAIN q : i < j /\ Of(q[i], "unsub", s) => ~Of(q[j], "sub", s)

LEMMA HasAppend ==
    ASSUME NEW Z, NEW q \in Seq(Z), NEW e \in Z, NEW op, NEW s
    PROVE  Has(Append(q, e), op, s) <=> Has(q, op, s) \/ Of(e, op, s)
<1>1. PICK t : t = Append(q, e)
  OBVIOUS
<1>2. /\ \A i \in DOMAIN q : i \in DOMAIN t /\ t[i] = q[i]
      /\ Len(q) + 1 \in DOMAIN t /\ t[Len(q) + 1] = e
      /\ \A i \in DOMAIN t : i \in DOMAIN q \/ i = Len(q) + 1
  BY <1>1, AppendProperties
<1>3. Has(t, op, s) <=> Has(q, op, s) \/ Of(e, op, s)
  BY <1>2 DEF Has
<1> QED BY <1>1, <1>3

LEMMA HasTail ==
    ASSUME NEW Z, NEW q \in Seq(Z), q # <<>>, NEW op, NEW s
    PROVE  Has(q, op, s) <=> Has(Tail(q), op, s) \/ Of(Head(q), op, s)
<1>1. PICK t : t = Tail(q)
  OBVIOUS
<1>2. /\ \A i \in DOMAIN t : i + 1 \in DOMAIN q /\ t[i] = q[i + 1]
      /\ 1 \in DOMAIN q /\ Head(q) = q[1]
      /\ \A j \in DOMAIN q : j = 1 \/ (j - 1 \in DOMAIN t /\ t[j - 1] = q[j])
  BY <1>1, HeadTailProperties
<1>3. Has(q, op, s) <=> Has(t, op, s) \/ Of(Head(q), op, s)
  BY <1>2 DEF Has
<1> QED BY <1>1, <1>3

LEMMA BehindAppend ==
    ASSUME NEW Z, NEW q \in Seq(Z), NEW e \in Z, NEW s,
           NoneBehind(q, s), ~(Has(q, "unsub", s) /\ Of(e, "sub", s))
    PROVE  NoneBehind(Append(q, e), s)
<1>1. PICK t : t = Append(q, e)
  OBVIOUS
<1>2. /\ \A i \in DOMAIN q : t[i] = q[i] /\ i <= Len(q) /\ i \in Nat
      /\ t[Len(q) + 1] = e /\ Len(q) \in Nat
      /\ \A i \in DOMAIN t : i \in DOMAIN q \/ i = Len(q) + 1
  BY <1>1, AppendProperties
<1>3. NoneBehind(t, s)
  <2> SUFFICES ASSUME NEW i \in DOMAIN t, NEW j \in DOMAIN t, i < j, Of(t[i], "unsub", s), Of(t[j], "sub", s)
               PROVE  FALSE
    BY DEF NoneBehind
  <2>1. CASE j \in DOMAIN q
    <3>1. i \in DOMAIN q
      BY <1>2, <2>1
    <3> QED BY <1>2, <2>1, <3>1 DEF NoneBehind
  <2>2. CASE j = Len(q) + 1
    <3>1. i \in DOMAIN q
      BY <1>2, <2>2
    <3> QED BY <1>2, <2>2, <3>1 DEF Has
  <2> QED BY <1>2, <2>1, <2>2
<1> QED BY <1>1, <1>3

LEMMA BehindTail ==
    ASSUME NEW Z, NEW q \in Seq(Z), q # <<>>, NEW s, NoneBehind(q, s)
    PROVE  NoneBehind(Tail(q), s) /\ (Of(Head(q), "unsub", s) => ~Has(Tail(q), "sub", s))
<1>1. PICK t : t = Tail(q)
  OBVIOUS
<1>2. /\ \A i \in DOMAIN t : i + 1 \in DOMAIN q /\ t[i] = q[i + 1] /\ i \in Nat /\ 1 < i + 1
      /\ 1 \in DOMAIN q /\ Head(q) = q[1]
  BY <1>1, HeadTailProperties
<1>3. NoneBehind(t, s)
  BY <1>2 DEF NoneBehind
<1>4. Of(Head(q), "unsub", s) => ~Has(t, "sub", s)
  BY <1>2 DEF NoneBehind, Has
<1> QED BY <1>1, <1>3, <1>4

LEMMA HasEmpty ==
    ASSUME NEW op, NEW s
    PROVE  ~Has(<<>>, op, s) /\ NoneBehind(<<>>, s)
BY DEF Has, NoneBehind

\* The calls of one request.
LEMMA CallsForHas ==
    ASSUME NEW op \in {"sub", "unsub"}, NEW s \in Symbols, NEW x \in Places, NEW c
    PROVE  /\ \A o : Has(CallsFor(op, s, x), o, c) => o = op /\ c = s
           /\ NoneBehind(CallsFor(op, s, x), c)
<1>1. PICK b : b = CallsFor(op, s, x)
  OBVIOUS
<1>2. DOMAIN b = DOMAIN Streams
      /\ \A i \in DOMAIN Streams : b[i] = [op |-> op, stream |-> Streams[i], symbol |-> s, exchange |-> x]
  <2>1. /\ DOMAIN CallsFor(op, s, x) = DOMAIN Streams
        /\ \A i \in DOMAIN Streams : CallsFor(op, s, x)[i] =
               [op |-> op, stream |-> Streams[i], symbol |-> s, exchange |-> x]
    BY CallsForAre
  <2> QED BY <1>1, <2>1, Zenon
<1>3. \A i \in DOMAIN b : b[i].op = op /\ b[i].symbol = s
  BY <1>2
<1> QED BY <1>1, <1>3 DEF Has, NoneBehind, Of

\* The callbacks, the requests and the calls of s are in this order, and what is not
\* in the map is not being subscribed.
InOrder(s) ==
    /\ NoneBehind(rsps, s) /\ NoneBehind(reqs, s) /\ NoneBehind(http, s)
    /\ Has(rsps, "unsub", s) => ~Has(reqs, "sub", s)
    /\ Has(rsps, "unsub", s) \/ Has(reqs, "unsub", s) => ~Has(http, "sub", s)
    /\ sub_topics[s] = "none" =>
           ~Has(rsps, "sub", s) /\ ~Has(reqs, "sub", s) /\ ~Has(http, "sub", s)
    /\ sub_topics[s] # "none" => topic_exchange[s] \in named[s]

OrderInv == \A s \in Symbols \ crossed : InOrder(s)

\* The callback about a disconnection is about no symbol.
LEMMA DisconnectedOf == ASSUME NEW s PROVE ~Of(Disconnected, "sub", s) /\ ~Of(Disconnected, "unsub", s)
BY DEF Of, Disconnected

\* What the calls of SubTopics are about.
LEMMA SubTopicsHas ==
    ASSUME NEW topics, NEW exchange \in [Symbols -> Places], NEW all \in BOOLEAN, NEW c
    PROVE  LET q == SubTopicsCalls(topics, exchange, all) IN
           /\ ~Has(q, "unsub", c) /\ NoneBehind(q, c)
           /\ Has(q, "sub", c) => topics[c] = "off"
<1>1. CASE all = TRUE
  <2>1. PICK q : q = SubTopicsCalls(topics, exchange, TRUE)
    OBVIOUS
  <2>2. DOMAIN q = DOMAIN Streams /\ \A i \in DOMAIN Streams : q[i] = [op |-> "suball", stream |-> Streams[i]]
    BY <2>1, SubTopicsAllAre
  <2>3. \A i \in DOMAIN q : q[i].op = "suball"
    BY <2>2
  <2> QED BY <1>1, <2>1, <2>3 DEF Has, NoneBehind, Of
<1>2. CASE all = FALSE
  <2>1. PICK q : q = SubTopicsCalls(topics, exchange, FALSE)
    OBVIOUS
  <2>2. \A i \in DOMAIN q : q[i].op = "sub" /\ topics[q[i].symbol] = "off"
    BY <2>1, SubTopicsCallsAre
  <2> QED BY <1>2, <2>1, <2>2 DEF Has, NoneBehind, Of
<1> QED BY <1>1, <1>2

LEMMA OrderStep ==
    ASSUME TypeOK, PhaseInv, OrderInv, [Next]_vars
    PROVE  OrderInv'
<1> SUFFICES ASSUME NEW c \in Symbols, c \notin crossed' PROVE InOrder(c)'
  BY DEF OrderInv, InOrder, NoneBehind, Has, Of
<1>p. StateTypes /\ QueueTypes
  BY TypeIs
<1>t. /\ sub_topics \in [Symbols -> {"none", "off", "on"}]
      /\ topic_exchange \in [Symbols -> Places]
      /\ named \in [Symbols -> SUBSET Exchanges]
  BY <1>p DEF StateTypes
<1>q. http \in Seq(Call) /\ reqs \in Seq(Call \cup CallAll) /\ rsps \in Seq(Rsp \cup {Disconnected})
  BY <1>p DEF QueueTypes
<1>x. c \notin crossed
  BY DEF Next, Spi, Ignored, SubTopic, UnsubTopic, CallApi, LinkLost, Serve, ServeAll, Take,
         OnSubMarketData, OnUnSubMarketData, OnDisconnected, Reconn, askVars, vars
<1>a. InOrder(c)
  BY <1>x DEF OrderInv
<1>g. ASSUME UNCHANGED <<rsps, reqs, http>>, sub_topics'[c] = "none" <=> sub_topics[c] = "none",
             sub_topics'[c] # "none" => topic_exchange'[c] \in named'[c]
      PROVE  InOrder(c)'
  BY <1>a, <1>g DEF InOrder
<1>1. CASE Ignored \/ UNCHANGED vars
  <2>1. UNCHANGED <<rsps, reqs, http, sub_topics, topic_exchange, named>>
    BY <1>1 DEF Ignored, Accept, vars, mapVars, askVars
  <2> QED BY <1>a, <1>g, <2>1 DEF InOrder
<1>2. ASSUME NEW s \in Symbols, NEW x \in Exchanges, SubTopic(s, x) PROVE InOrder(c)'
  <2>1. UNCHANGED <<rsps, reqs>> /\ http = <<>> /\ named' = [named EXCEPT ![s] = @ \cup {x}]
    BY <1>2 DEF SubTopic, Accept
  <2>2. \A t \in Symbols : named[t] \subseteq named'[t]
    BY <1>t, <2>1
  <2>3. x \in named'[s]
    BY <1>t, <2>1
  <2>4. CASE http' = <<>>
    <3>1. sub_topics'[c] = "none" <=> sub_topics[c] = "none"
      BY <1>2, <1>t, <2>4, CallsForAre, StreamsAre DEF SubTopic, CallsFor
    <3>2. sub_topics'[c] # "none" => topic_exchange'[c] \in named'[c]
      BY <1>2, <1>a, <1>t, <2>2, <2>3, <3>1 DEF SubTopic, InOrder
    <3> QED BY <1>g, <2>1, <2>4, <3>1, <3>2
  <2>5. CASE http' # <<>>
    <3>1. /\ sub_topics' = [sub_topics EXCEPT ![s] = "off"]
          /\ topic_exchange' = [topic_exchange EXCEPT ![s] = x]
          /\ http' = CallsFor("sub", s, x)
      BY <1>2, <2>1, <2>5 DEF SubTopic
    <3>2. PICK b : b = http'
      OBVIOUS
    <3>3. \A o : Has(b, o, c) => o = "sub" /\ c = s
      <4>1. x \in Places
        BY DEF Places
      <4>2. \A o : Has(CallsFor("sub", s, x), o, c) => o = "sub" /\ c = s
        BY <4>1, CallsForHas, Zenon
      <4> QED BY <3>1, <3>2, <4>2, Zenon
    <3>4. NoneBehind(b, c)
      <4>1. x \in Places
        BY DEF Places
      <4>2. NoneBehind(CallsFor("sub", s, x), c)
        BY <4>1, CallsForHas, Zenon
      <4> QED BY <3>1, <3>2, <4>2, Zenon
    <3>5. c = s => ~Has(reqs, "unsub", c) /\ ~Has(rsps, "unsub", c)
      BY <1>2 DEF SubTopic, Unsubscribing, Has, Of
    <3>6. sub_topics'[c] # "none" => topic_exchange'[c] \in named'[c]
      BY <1>a, <1>t, <2>2, <2>3, <3>1 DEF InOrder
    <3>7. sub_topics'[c] = "none" => sub_topics[c] = "none" /\ c # s
      BY <1>t, <3>1
    <3> QED BY <1>a, <2>1, <3>2, <3>3, <3>4, <3>5, <3>6, <3>7 DEF InOrder
  <2> QED BY <2>4, <2>5
<1>3. ASSUME NEW s \in Symbols, UnsubTopic(s) PROVE InOrder(c)'
  <2>1. UNCHANGED <<rsps, reqs, sub_topics, topic_exchange, named>>
    BY <1>3 DEF UnsubTopic, Accept
  <2>2. PICK b : b = http'
    OBVIOUS
  <2>3. ~Has(b, "sub", c) /\ NoneBehind(b, c)
    <3>1. CASE b = <<>>
      BY <3>1, HasEmpty
    <3>2. CASE b # <<>>
      <4>1. PICK x \in Places : x = topic_exchange[s]
        BY <1>t
      <4>2. b = CallsFor("unsub", s, x)
        BY <1>3, <2>2, <3>2, <4>1 DEF UnsubTopic
      <4>3. Has(CallsFor("unsub", s, x), "sub", c) => "sub" = "unsub"
        BY CallsForHas, Zenon
      <4>4. NoneBehind(CallsFor("unsub", s, x), c)
        BY CallsForHas, Zenon
      <4> QED BY <4>2, <4>3, <4>4
    <3> QED BY <3>1, <3>2
  <2> QED BY <1>a, <2>1, <2>2, <2>3 DEF InOrder
<1>4. CASE CallApi
  <2>1. UNCHANGED <<rsps, sub_topics, topic_exchange, named>> /\ http # <<>> /\ http' = Tail(http)
        /\ (reqs' = reqs \/ reqs' = Append(reqs, Head(http)))
    BY <1>4 DEF CallApi, mapVars, askVars
  <2>2. PICK e, b, q : e = Head(http) /\ b = Tail(http) /\ q = reqs'
    OBVIOUS
  <2>3. e \in Call \cup CallAll
    BY <1>q, <2>1, <2>2, HeadTailProperties
  <2>4. \A o : Has(http, o, c) <=> Has(b, o, c) \/ Of(e, o, c)
    BY <1>q, <2>1, <2>2, HasTail
  <2>5. NoneBehind(b, c) /\ (Of(e, "unsub", c) => ~Has(b, "sub", c))
    BY <1>a, <1>q, <2>1, <2>2, BehindTail DEF InOrder
  <2>6. CASE q = reqs
    BY <1>a, <2>1, <2>2, <2>4, <2>5, <2>6 DEF InOrder
  <2>7. CASE q # reqs
    <3>1. q = Append(reqs, e)
      BY <2>1, <2>2, <2>7
    <3>2. \A o : Has(q, o, c) <=> Has(reqs, o, c) \/ Of(e, o, c)
      BY <1>q, <2>3, <3>1, HasAppend
    <3>3. NoneBehind(q, c)
      <4>1. ~(Has(reqs, "unsub", c) /\ Of(e, "sub", c))
        BY <1>a, <2>4 DEF InOrder
      <4>2. NoneBehind(reqs, c)
        BY <1>a DEF InOrder
      <4> QED BY <1>q, <2>3, <3>1, <4>1, <4>2, BehindAppend
    <3> QED BY <1>a, <2>1, <2>2, <2>4, <2>5, <3>2, <3>3 DEF InOrder
  <2> QED BY <2>6, <2>7
<1>d. ~Of(Disconnected, "sub", c) /\ ~Of(Disconnected, "unsub", c)
  BY DisconnectedOf
<1>5. CASE LinkLost
  <2>1. UNCHANGED <<http, sub_topics, topic_exchange, named>> /\ reqs' = <<>>
        /\ rsps' = Append(rsps, Disconnected)
    BY <1>5 DEF LinkLost, mapVars, askVars
  <2>2. PICK t : t = Append(rsps, Disconnected)
    OBVIOUS
  <2>3. \A o \in {"sub", "unsub"} : Has(t, o, c) <=> Has(rsps, o, c)
    <3>1. \A o : Has(t, o, c) <=> Has(rsps, o, c) \/ Of(Disconnected, o, c)
      BY <1>q, <2>2, HasAppend
    <3> QED BY <1>d, <3>1
  <2>4. NoneBehind(t, c)
    <3>1. NoneBehind(rsps, c)
      BY <1>a DEF InOrder
    <3> QED BY <1>d, <1>q, <2>2, <3>1, BehindAppend
  <2>5. ~Has(<<>>, "sub", c) /\ ~Has(<<>>, "unsub", c) /\ NoneBehind(<<>>, c)
    BY HasEmpty
  <2> QED BY <1>a, <2>1, <2>2, <2>3, <2>4, <2>5 DEF InOrder
<1>6. CASE Serve \/ ServeAll
  <2>1. UNCHANGED <<http, sub_topics, topic_exchange, named>> /\ reqs # <<>> /\ reqs' = Tail(reqs)
    BY <1>6 DEF Serve, ServeAll, mapVars, askVars
  <2>2. PICK r, b, t : r = Head(reqs) /\ b = Tail(reqs) /\ t = rsps'
    OBVIOUS
  <2>3. \A o : Has(reqs, o, c) <=> Has(b, o, c) \/ Of(r, o, c)
    BY <1>q, <2>1, <2>2, HasTail
  <2>4. NoneBehind(b, c) /\ (Of(r, "unsub", c) => ~Has(b, "sub", c))
    BY <1>a, <1>q, <2>1, <2>2, BehindTail DEF InOrder
  <2>5. CASE t = rsps
    BY <1>a, <2>1, <2>2, <2>3, <2>4, <2>5 DEF InOrder
  <2>6. CASE t # rsps
    <3>1. PICK ok : t = Append(rsps, [op |-> r.op, symbol |-> r.symbol, ok |-> ok]) /\ r.op # "suball"
      BY <1>6, <2>2, <2>6 DEF Serve, ServeAll
    <3>2. PICK e : e = [op |-> r.op, symbol |-> r.symbol, ok |-> ok]
      OBVIOUS
    <3>3. \A o : Of(e, o, c) <=> Of(r, o, c)
      BY <3>2 DEF Of
    <3>4. rsps' \in Seq(Rsp \cup {Disconnected})
      BY TypeStep DEF TypeOK
    <3>5. PICK Z : rsps \in Seq(Z) /\ e \in Z
      <4>1. rsps \in Seq((Rsp \cup {Disconnected}) \cup {e})
        BY <1>q
      <4> QED BY <4>1
    <3>6. \A o : Has(t, o, c) <=> Has(rsps, o, c) \/ Of(e, o, c)
      BY <3>1, <3>2, <3>5, HasAppend
    <3>7. NoneBehind(t, c)
      <4>1. ~(Has(rsps, "unsub", c) /\ Of(e, "sub", c))
        BY <1>a, <2>3, <3>3 DEF InOrder
      <4>2. NoneBehind(rsps, c)
        BY <1>a DEF InOrder
      <4> QED BY <3>1, <3>2, <3>5, <4>1, <4>2, BehindAppend
    <3> QED BY <1>a, <2>1, <2>2, <2>3, <2>4, <3>3, <3>6, <3>7 DEF InOrder
  <2> QED BY <2>5, <2>6
<1>7. CASE OnSubMarketData \/ OnUnSubMarketData \/ OnDisconnected
  <2>1. rsps # <<>> /\ rsps' = Tail(rsps) /\ UNCHANGED <<http, reqs, named>>
    BY <1>7, TakeTypes DEF OnSubMarketData, OnUnSubMarketData, OnDisconnected
  <2>2. PICK r, t : r = Head(rsps) /\ t = Tail(rsps)
    OBVIOUS
  <2>3. \A o : Has(rsps, o, c) <=> Has(t, o, c) \/ Of(r, o, c)
    BY <1>q, <2>1, <2>2, HasTail
  <2>4. NoneBehind(t, c) /\ (Of(r, "unsub", c) => ~Has(t, "sub", c))
    BY <1>a, <1>q, <2>1, <2>2, BehindTail DEF InOrder
  <2>5. CASE OnSubMarketData
    <3>1. r.op = "sub" /\ r.symbol \in Symbols
      BY <2>2, <2>5, TakeTypes, RspIs DEF OnSubMarketData
    <3>2. topic_exchange' = topic_exchange
          /\ (sub_topics' = [sub_topics EXCEPT ![r.symbol] = "on"] \/ sub_topics' = sub_topics)
      BY <2>2, <2>5 DEF OnSubMarketData
    <3>3. c = r.symbol => sub_topics[c] # "none"
      BY <1>a, <2>3, <3>1 DEF InOrder, Of
    <3>4. sub_topics'[c] = "none" <=> sub_topics[c] = "none"
      BY <1>t, <3>1, <3>2, <3>3
    <3> QED BY <1>a, <2>1, <2>2, <2>3, <2>4, <3>2, <3>4 DEF InOrder
  <2>6. CASE OnUnSubMarketData
    <3>1. r.op = "unsub" /\ r.symbol \in Symbols
      BY <2>2, <2>6, TakeTypes, RspIs DEF OnUnSubMarketData
    <3>2. \/ /\ sub_topics' = [sub_topics EXCEPT ![r.symbol] = "none"]
             /\ topic_exchange' = [topic_exchange EXCEPT ![r.symbol] = Unknown]
          \/ sub_topics' = sub_topics /\ topic_exchange' = topic_exchange
      BY <2>2, <2>6 DEF OnUnSubMarketData
    <3>3. CASE c = r.symbol
      <4>1. Of(r, "unsub", c)
        BY <3>1, <3>3 DEF Of
      <4>2. ~Has(t, "sub", c) /\ ~Has(reqs, "sub", c) /\ ~Has(http, "sub", c)
        BY <1>a, <2>3, <2>4, <4>1 DEF InOrder
      <4>3. sub_topics'[c] # "none" => sub_topics[c] # "none" /\ topic_exchange'[c] = topic_exchange[c]
        BY <1>t, <3>2, <3>3
      <4> QED BY <1>a, <2>1, <2>2, <2>3, <2>4, <4>2, <4>3 DEF InOrder
    <3>4. CASE c # r.symbol
      <4>1. sub_topics'[c] = sub_topics[c] /\ topic_exchange'[c] = topic_exchange[c]
        BY <1>t, <3>1, <3>2, <3>4
      <4> QED BY <1>a, <2>1, <2>2, <2>3, <2>4, <4>1 DEF InOrder
    <3> QED BY <3>3, <3>4
  <2>7. CASE OnDisconnected
    <3>1. topic_exchange' = topic_exchange
          /\ sub_topics' = [s \in Symbols |-> IF sub_topics[s] = "on" THEN "off" ELSE sub_topics[s]]
      BY <2>7 DEF OnDisconnected
    <3>2. sub_topics'[c] = "none" <=> sub_topics[c] = "none"
      BY <1>t, <3>1
    <3> QED BY <1>a, <2>1, <2>2, <2>3, <2>4, <3>1, <3>2 DEF InOrder
  <2> QED BY <1>7, <2>5, <2>6, <2>7
<1>8. CASE Reconn
  <2>1. UNCHANGED <<http, rsps, named, sub_topics, topic_exchange>> /\ reconn
        /\ reqs' = SubTopicsCalls(sub_topics, topic_exchange, sub_all)
    BY <1>8 DEF Reconn, mapVars, askVars
  <2>2. ~Has(rsps, "unsub", c)
    BY <2>1, HasEmpty DEF PhaseInv
  <2>3. PICK q, tp, ex, all : /\ tp = sub_topics /\ ex = topic_exchange /\ all = sub_all
                              /\ q = SubTopicsCalls(tp, ex, all)
    OBVIOUS
  <2>4. ex \in [Symbols -> Places] /\ all \in BOOLEAN
    BY <1>p, <2>3 DEF StateTypes
  <2>5. ~Has(q, "unsub", c) /\ NoneBehind(q, c) /\ (Has(q, "sub", c) => tp[c] = "off")
    BY <2>3, <2>4, SubTopicsHas
  <2> QED BY <1>a, <2>1, <2>2, <2>3, <2>5 DEF InOrder
<1> QED BY <1>1, <1>2, <1>3, <1>4, <1>5, <1>6, <1>7, <1>8 DEF Next, Spi

LEMMA OrderInit == ASSUME Init PROVE PhaseInv /\ OrderInv
<1>1. /\ TypeOK /\ rsps = <<>> /\ http = <<>> /\ link = TRUE /\ reconn = FALSE
      /\ \A s \in Symbols : sub_topics[s] # "none" => topic_exchange[s] \in named[s]
      /\ reqs = SubTopicsCalls(sub_topics, topic_exchange, sub_all)
  BY TypeInit DEF Init
<1>2. PhaseInv
  BY <1>1 DEF PhaseInv
<1>3. ASSUME NEW s \in Symbols PROVE InOrder(s)
  <2>1. PICK q, tp, ex, all : /\ tp = sub_topics /\ ex = topic_exchange /\ all = sub_all
                              /\ q = SubTopicsCalls(tp, ex, all)
    OBVIOUS
  <2>2. ex \in [Symbols -> Places] /\ all \in BOOLEAN
    BY <1>1, <2>1 DEF TypeOK, Places
  <2>3. ~Has(q, "unsub", s) /\ NoneBehind(q, s) /\ (Has(q, "sub", s) => tp[s] = "off")
    BY <2>1, <2>2, SubTopicsHas
  <2>4. reqs = q
    BY <1>1, <2>1
  <2> QED BY <1>1, <2>1, <2>3, <2>4, HasEmpty DEF InOrder
<1> QED BY <1>2, <1>3 DEF OrderInv

\* Where a symbol is subscribed is known: an unsubscription, which alone takes the
\* exchange out of topic_exchange_ (xtp_quote_handler.cpp, OnUnSubMarketData), takes
\* the symbol out of the map with it, and no answer puts the symbol back without it,
\* unless it was subscribed while it was being unsubscribed.
THEOREM ExchangeIsKnownCorrect == Spec => []ExchangeIsKnown
<1>1. Init => TypeOK /\ PhaseInv /\ OrderInv
  BY TypeInit, OrderInit
<1>2. TypeOK /\ PhaseInv /\ OrderInv /\ [Next]_vars => (TypeOK /\ PhaseInv /\ OrderInv)'
  BY TypeStep, PhaseStep, OrderStep
<1>3. OrderInv => ExchangeIsKnown
  BY DEF OrderInv, InOrder, ExchangeIsKnown
<1> QED BY <1>1, <1>2, <1>3, PTL DEF Spec

-----------------------------------------------------------------------------
(* The streams of an instrument.                                            *)

Queued == Call \cup CallAll

\* What XTP can send, as stream, symbol and exchange, and the calls that start and
\* stop it.
Feeds == {Streams[i] : i \in DOMAIN Streams} \X Symbols \X Exchanges
Starts(f) == {r \in Queued :
    /\ r.stream = f[1] /\ <<f[2], f[3]>> \in Listed
    /\ r.op = "suball" \/ (r.op = "sub" /\ r.symbol = f[2] /\ r.exchange = f[3])}
Stops(f) == {r \in Queued :
    r.stream = f[1] /\ r.op = "unsub" /\ r.symbol = f[2] /\ r.exchange = f[3]}

\* What it sends when all of q is served.
Will(q, sent) == {f \in Feeds : Sends(q, Starts(f), Stops(f), f, sent)}

\* Of an instrument it sends every stream or none.
Whole(sent, s, x) ==
    \A i, j \in DOMAIN Streams : <<Streams[i], s, x>> \in sent => <<Streams[j], s, x>> \in sent

\* What goes on at XTP leaves instruments whole, the calls still to be made included.
TogetherInv == \A s \in Symbols \ torn, x \in Exchanges : Whole(Will(http, Will(reqs, upstream)), s, x)

\* The calls to be made without a connection are all those of a request, or the
\* connection was lost amidst them.
HttpInv == ~link =>
    \/ \E op \in {"sub", "unsub"}, s \in Symbols : \E x \in Places : http = CallsFor(op, s, x)
    \/ \A i \in DOMAIN http : http[i].symbol \in torn

LEMMA FeedIs ==
    ASSUME NEW f \in Feeds
    PROVE  \E i \in DOMAIN Streams, s \in Symbols : \E x \in Exchanges : f = <<Streams[i], s, x>>
BY DEF Feeds

LEMMA IsFeed ==
    ASSUME NEW i \in DOMAIN Streams, NEW s \in Symbols, NEW x \in Exchanges
    PROVE  <<Streams[i], s, x>> \in Feeds
BY DEF Feeds

\* No call does both.
LEMMA StartsStops == \A f : Starts(f) \cap Stops(f) = {}
BY DEF Starts, Stops

LEMMA WillEmpty == ASSUME NEW sent \in SUBSET Feeds PROVE Will(<<>>, sent) = sent
BY DEF Will, Sends

LEMMA WillTail ==
    ASSUME NEW q \in Seq(Queued), q # <<>>, NEW sent, NEW sent2,
           \A f \in Feeds : f \in sent2 <=> Head(q) \in Starts(f) \/ (f \in sent /\ Head(q) \notin Stops(f))
    PROVE  Will(Tail(q), sent2) = Will(q, sent)
<1>1. ASSUME NEW f \in Feeds
      PROVE  Sends(Tail(q), Starts(f), Stops(f), f, sent2) <=> Sends(q, Starts(f), Stops(f), f, sent)
  <2>1. PICK B, E : B = Starts(f) /\ E = Stops(f)
    OBVIOUS
  <2>2. B \cap E = {} /\ (f \in sent2 <=> Head(q) \in B \/ (f \in sent /\ Head(q) \notin E))
    BY <2>1, StartsStops
  <2>3. Sends(Tail(q), B, E, f, sent2) <=> Sends(q, B, E, f, sent)
    BY <2>2, SendsTail
  <2> QED BY <2>1, <2>3
<1> QED BY <1>1 DEF Will

LEMMA WillAppend ==
    ASSUME NEW q \in Seq(Queued), NEW r \in Queued, NEW sent, NEW f \in Feeds
    PROVE  f \in Will(Append(q, r), sent) <=> r \in Starts(f) \/ (f \in Will(q, sent) /\ r \notin Stops(f))
<1>1. PICK B, E : B = Starts(f) /\ E = Stops(f)
  OBVIOUS
<1>2. B \cap E = {}
  BY <1>1, StartsStops
<1>3. Sends(Append(q, r), B, E, f, sent) <=> r \in B \/ (Sends(q, B, E, f, sent) /\ r \notin E)
  BY <1>2, SendsAppend
<1> QED BY <1>1, <1>3 DEF Will

LEMMA WillConcat ==
    ASSUME NEW a \in Seq(Queued), NEW b \in Seq(Queued), NEW sent
    PROVE  Will(a \o b, sent) = Will(b, Will(a, sent))
<1>1. PICK sent2 : sent2 = Will(a, sent)
  OBVIOUS
<1>2. ASSUME NEW f \in Feeds
      PROVE  Sends(a \o b, Starts(f), Stops(f), f, sent) <=> Sends(b, Starts(f), Stops(f), f, sent2)
  <2>1. PICK B, E : B = Starts(f) /\ E = Stops(f)
    OBVIOUS
  <2>2. f \in sent2 <=> Sends(a, B, E, f, sent)
    BY <1>1, <2>1 DEF Will
  <2>3. Sends(a \o b, B, E, f, sent) <=> Sends(b, B, E, f, sent2)
    BY <2>2, SendsConcat
  <2> QED BY <2>1, <2>3
<1> QED BY <1>1, <1>2 DEF Will

\* Calls for other symbols change nothing.
LEMMA WillOthers ==
    ASSUME NEW q \in Seq(Call), NEW s \in Symbols, NEW x \in Exchanges, NEW i \in DOMAIN Streams,
           \A k \in DOMAIN q : q[k].symbol # s, NEW sent
    PROVE  <<Streams[i], s, x>> \in Will(q, sent) <=> <<Streams[i], s, x>> \in sent
<1>1. PICK f : f = <<Streams[i], s, x>>
  OBVIOUS
<1>2. f \in Feeds /\ f[2] = s
  BY <1>1, IsFeed
<1>3. \A k \in DOMAIN q : q[k].op # "suball" /\ q[k].symbol # s
  <2>1. \A k \in DOMAIN q : q[k] \in Call
    OBVIOUS
  <2>2. \A r \in Call : r.op # "suball"
    BY DEF Call
  <2> QED BY <2>1, <2>2
<1>4. \A k \in DOMAIN q : q[k] \notin Starts(f) /\ q[k] \notin Stops(f)
  BY <1>2, <1>3 DEF Starts, Stops
<1> QED BY <1>1, <1>2, <1>4 DEF Will, Sends

\* What is served when is sent depends on that alone.
LEMMA WillSame ==
    ASSUME NEW q, NEW f \in Feeds, NEW sent, NEW sent2, f \in sent <=> f \in sent2
    PROVE  f \in Will(q, sent) <=> f \in Will(q, sent2)
BY DEF Will, Sends

\* The calls for an instrument, one for each stream, leave all instruments whole.
LEMMA WillCallsFor ==
    ASSUME NEW op \in {"sub", "unsub"}, NEW s \in Symbols, NEW x \in Places, NEW sent,
           NEW c \in Symbols, NEW y \in Exchanges, Whole(sent, c, y)
    PROVE  Whole(Will(CallsFor(op, s, x), sent), c, y)
<1>1. PICK b : b = CallsFor(op, s, x)
  OBVIOUS
<1>2. DOMAIN b = DOMAIN Streams /\ \A k \in DOMAIN Streams :
          b[k] \in Queued /\ b[k] = [op |-> op, stream |-> Streams[k], symbol |-> s, exchange |-> x]
  <2>1. /\ CallsFor(op, s, x) \in Seq(Call) /\ DOMAIN CallsFor(op, s, x) = DOMAIN Streams
        /\ \A k \in DOMAIN Streams : CallsFor(op, s, x)[k] =
               [op |-> op, stream |-> Streams[k], symbol |-> s, exchange |-> x]
    BY CallsForAre
  <2>2. b \in Seq(Call) /\ DOMAIN b = DOMAIN Streams /\ \A k \in DOMAIN Streams : b[k] =
               [op |-> op, stream |-> Streams[k], symbol |-> s, exchange |-> x]
    BY <1>1, <2>1, Zenon
  <2> QED BY <2>2 DEF Queued
<1>3. ASSUME NEW i \in DOMAIN Streams
      PROVE  <<Streams[i], c, y>> \in Will(b, sent) <=>
                 \/ op = "sub" /\ ((c = s /\ y = x /\ <<c, y>> \in Listed) \/ <<Streams[i], c, y>> \in sent)
                 \/ op = "unsub" /\ ~(c = s /\ y = x) /\ <<Streams[i], c, y>> \in sent
  <2>1. PICK f : f = <<Streams[i], c, y>>
    OBVIOUS
  <2>2. f \in Feeds /\ f[1] = Streams[i] /\ f[2] = c /\ f[3] = y
    BY <2>1, IsFeed
  <2>3. \A k \in DOMAIN Streams : b[k].op = op /\ b[k].stream = Streams[k] /\ b[k].symbol = s /\ b[k].exchange = x
    BY <1>2
  <2>4. \A k \in DOMAIN Streams : Streams[k] = Streams[i] <=> k = i
    BY StreamsAre
  <2>5. \A k \in DOMAIN Streams : b[k] \in Starts(f) <=>
            k = i /\ op = "sub" /\ c = s /\ y = x /\ <<c, y>> \in Listed
    BY <1>2, <2>2, <2>3, <2>4 DEF Starts
  <2>6. \A k \in DOMAIN Streams : b[k] \in Stops(f) <=> k = i /\ op = "unsub" /\ c = s /\ y = x
    BY <1>2, <2>2, <2>3, <2>4 DEF Stops
  <2> QED BY <1>2, <2>1, <2>2, <2>5, <2>6 DEF Will, Sends
<1>4. Whole(Will(b, sent), c, y)
  BY <1>3 DEF Whole
<1> QED BY <1>1, <1>4

\* So do the calls of SubTopics after a connection that broke.
LEMMA WillSubTopics ==
    ASSUME NEW topics, NEW exchange \in [Symbols -> Places], NEW all \in BOOLEAN,
           NEW c \in Symbols, NEW y \in Exchanges
    PROVE  Whole(Will(SubTopicsCalls(topics, exchange, all), {}), c, y)
<1>1. CASE all = TRUE
  <2>1. PICK q : q = SubTopicsCalls(topics, exchange, TRUE)
    OBVIOUS
  <2>2. q \in Seq(CallAll) /\ DOMAIN q = DOMAIN Streams
        /\ \A k \in DOMAIN Streams : q[k] = [op |-> "suball", stream |-> Streams[k]]
    BY <2>1, SubTopicsAllAre
  <2>3. \A k \in DOMAIN Streams : q[k] \in Queued /\ q[k].op = "suball" /\ q[k].stream = Streams[k]
    BY <2>2 DEF Queued
  <2>4. ASSUME NEW i \in DOMAIN Streams
        PROVE  <<Streams[i], c, y>> \in Will(q, {}) <=> <<c, y>> \in Listed
    <3>1. PICK f : f = <<Streams[i], c, y>>
      OBVIOUS
    <3>2. f \in Feeds /\ f[1] = Streams[i] /\ f[2] = c /\ f[3] = y
      BY <3>1, IsFeed
    <3>3. \A k \in DOMAIN Streams : Streams[k] = Streams[i] <=> k = i
      BY StreamsAre
    <3>4. \A k \in DOMAIN Streams : q[k] \in Starts(f) <=> k = i /\ <<c, y>> \in Listed
      BY <2>3, <3>2, <3>3 DEF Starts
    <3>5. \A k \in DOMAIN Streams : q[k] \notin Stops(f)
      BY <2>3 DEF Stops
    <3> QED BY <2>2, <3>1, <3>2, <3>4, <3>5 DEF Will, Sends
  <2>5. Whole(Will(q, {}), c, y)
    BY <2>4 DEF Whole
  <2> QED BY <1>1, <2>1, <2>5
<1>2. CASE all = FALSE
  <2> DEFINE T == {q \in Seq(Call) : Whole(Will(q, {}), c, y)}
  <2>1. <<>> \in T
    <3>1. <<>> \in Seq(Call)
      OBVIOUS
    <3>2. Will(<<>>, {}) = {}
      BY WillEmpty
    <3>3. Whole({}, c, y)
      BY DEF Whole
    <3> QED BY <3>1, <3>2, <3>3
  <2>2. ASSUME NEW s \in Symbols, topics[s] = "off"
        PROVE  /\ CallsFor("sub", s, exchange[s]) \in T
               /\ \A a \in T : a \o CallsFor("sub", s, exchange[s]) \in T
    <3>1. PICK x \in Places : x = exchange[s]
      OBVIOUS
    <3>2. PICK b : b = CallsFor("sub", s, x)
      OBVIOUS
    <3>3. b \in Seq(Call)
      BY <3>2, CallsForAre
    <3>4. ASSUME NEW a \in Seq(Call), Whole(Will(a, {}), c, y) PROVE a \o b \in T
      <4>1. a \in Seq(Queued) /\ b \in Seq(Queued) /\ a \o b \in Seq(Call)
        BY <3>3 DEF Queued
      <4>2. PICK sent : sent = Will(a, {})
        OBVIOUS
      <4>3. Will(a \o b, {}) = Will(b, sent)
        BY <4>1, <4>2, WillConcat
      <4>4. Whole(Will(CallsFor("sub", s, x), sent), c, y)
        BY <3>4, <4>2, WillCallsFor
      <4>5. Whole(Will(a \o b, {}), c, y)
        BY <3>2, <4>3, <4>4
      <4> QED BY <4>1, <4>5
    <3>5. b \in T
      <4>1. <<>> \o b \in T
        <5>1. <<>> \in Seq(Call) /\ Whole(Will(<<>>, {}), c, y)
          BY <2>1
        <5> QED BY <3>4, <5>1
      <4>2. <<>> \o b = b
        BY <3>3, ConcatEmptySeq
      <4> QED BY <4>1, <4>2, Zenon
    <3>6. \A a \in T : a \o b \in T
      BY <3>4
    <3> HIDE DEF T
    <3> QED BY <3>1, <3>2, <3>5, <3>6
  <2>3. SubTopicsCalls(topics, exchange, FALSE) \in T
    <3>1. T \subseteq Seq(Call)
      OBVIOUS
    <3> HIDE DEF T
    <3> QED BY <2>1, <2>2, <3>1, SubTopicsCallsIn
  <2> QED BY <1>2, <2>3
<1> QED BY <1>1, <1>2

LEMMA HttpStep == ASSUME TypeOK, HttpInv, [Next]_vars PROVE HttpInv'
<1>p. http \in Seq(Call) /\ topic_exchange \in [Symbols -> Places] /\ link \in BOOLEAN
  BY DEF TypeOK, Places
<1>1. ASSUME UNCHANGED <<http, link, torn>> PROVE HttpInv'
  BY <1>1 DEF HttpInv
<1>2. CASE Ignored \/ Serve \/ ServeAll \/ OnSubMarketData \/ OnUnSubMarketData
           \/ OnDisconnected \/ UNCHANGED vars
  <2>1. UNCHANGED <<http, link, torn>>
    BY <1>2, TakeTypes DEF Ignored, Accept, apiVars, Serve, ServeAll, OnSubMarketData,
         OnUnSubMarketData, OnDisconnected, vars
  <2> QED BY <1>1, <2>1
<1>3. ASSUME NEW s \in Symbols, NEW x \in Exchanges, SubTopic(s, x) PROVE HttpInv'
  <2>1. http = <<>> /\ x \in Places /\ (http' = http \/ http' = CallsFor("sub", s, x))
    BY <1>3 DEF SubTopic, Accept, Places
  <2> QED BY <2>1 DEF HttpInv
<1>4. ASSUME NEW s \in Symbols, UnsubTopic(s) PROVE HttpInv'
  <2>1. http = <<>> /\ (http' = <<>> \/ http' = CallsFor("unsub", s, topic_exchange[s]))
    BY <1>4 DEF UnsubTopic, Accept
  <2> QED BY <1>p, <2>1 DEF HttpInv
<1>5. CASE CallApi
  <2>1. /\ http # <<>> /\ http' = Tail(http) /\ link' = link
        /\ ~link => torn' = torn \cup {Head(http).symbol}
    BY <1>5 DEF CallApi, apiVars
  <2>2. PICK t, h : t = Tail(http) /\ h = Head(http)
    OBVIOUS
  <2>3. (\A i \in DOMAIN t : i + 1 \in DOMAIN http /\ t[i] = http[i + 1])
        /\ 1 \in DOMAIN http /\ h = http[1]
    BY <1>p, <2>1, <2>2, HeadTailProperties
  <2>4. ASSUME ~link PROVE \A i \in DOMAIN t : t[i].symbol \in torn \cup {h.symbol}
    <3>1. CASE \A i \in DOMAIN http : http[i].symbol \in torn
      BY <2>3, <3>1
    <3>2. CASE \E op \in {"sub", "unsub"}, s \in Symbols : \E x \in Places : http = CallsFor(op, s, x)
      <4>1. PICK op \in {"sub", "unsub"}, s \in Symbols : \E x \in Places : http = CallsFor(op, s, x)
        BY <3>2
      <4>2. PICK x \in Places : http = CallsFor(op, s, x)
        BY <4>1
      <4>3. /\ DOMAIN CallsFor(op, s, x) = DOMAIN Streams
            /\ \A i \in DOMAIN Streams : CallsFor(op, s, x)[i] =
                   [op |-> op, stream |-> Streams[i], symbol |-> s, exchange |-> x]
        BY CallsForAre
      <4>4. PICK b : b = CallsFor(op, s, x)
        OBVIOUS
      <4>5. \A i \in DOMAIN b : b[i].symbol = s
        BY <4>3, <4>4
      <4>6. http = b
        BY <4>2, <4>4
      <4> QED BY <2>3, <4>5, <4>6
    <3> QED BY <2>4, <3>1, <3>2 DEF HttpInv
  <2> QED BY <2>1, <2>2, <2>4 DEF HttpInv
<1>6. CASE LinkLost
  <2>1. http' = http /\ torn' = torn \cup {http[i].symbol : i \in DOMAIN http}
    BY <1>6 DEF LinkLost
  <2> QED BY <2>1 DEF HttpInv
<1>7. CASE Reconn
  BY <1>7 DEF Reconn, HttpInv
<1> QED BY <1>2, <1>3, <1>4, <1>5, <1>6, <1>7 DEF Next, Spi

\* A request that is served has done what it starts and stops.
LEMMA ServeWill ==
    ASSUME TypeOK, Serve \/ ServeAll
    PROVE  Will(reqs', upstream') = Will(reqs, upstream)
<1>1. reqs \in Seq(Queued) /\ reqs # <<>> /\ reqs' = Tail(reqs)
  BY DEF TypeOK, Serve, ServeAll, Queued
<1>2. PICK r : r = Head(reqs)
  OBVIOUS
<1>3. r \in Queued
  BY <1>1, <1>2, HeadTailProperties
<1>4. PICK up : up = upstream'
  OBVIOUS
<1>5. ASSUME NEW f \in Feeds
      PROVE  f \in up <=> r \in Starts(f) \/ (f \in upstream /\ r \notin Stops(f))
  <2>1. PICK i \in DOMAIN Streams, s \in Symbols : \E x \in Exchanges : f = <<Streams[i], s, x>>
    BY FeedIs
  <2>2. PICK x \in Exchanges : f = <<Streams[i], s, x>>
    BY <2>1
  <2>3. r \in Starts(f) <=> /\ r.stream = Streams[i] /\ <<s, x>> \in Listed
                            /\ r.op = "suball" \/ (r.op = "sub" /\ r.symbol = s /\ r.exchange = x)
    BY <1>3, <2>2 DEF Starts
  <2>4. r \in Stops(f) <=> r.stream = Streams[i] /\ r.op = "unsub" /\ r.symbol = s /\ r.exchange = x
    BY <1>3, <2>2 DEF Stops
  <2>5. CASE ServeAll
    <3>1. r.op = "suball" /\ up = upstream \cup {<<r.stream, l[1], l[2]>> : l \in Listed}
      BY <1>2, <1>4, <2>5 DEF ServeAll
    <3>2. \A l \in Listed : l = <<l[1], l[2]>>
      BY XtpQuoteAssumption
    <3>3. f \in {<<r.stream, l[1], l[2]>> : l \in Listed} <=> r.stream = Streams[i] /\ <<s, x>> \in Listed
      BY <2>2, <3>2
    <3> QED BY <2>3, <2>4, <3>1, <3>3
  <2>6. CASE Serve
    <3>1. PICK inst : inst = <<r.stream, r.symbol, r.exchange>>
      OBVIOUS
    <3>2. r.op # "suball" /\ r.op \in {"sub", "unsub"}
      BY <1>2, <1>3, <2>6, ReqIs DEF Serve, Queued
    <3>3. f = inst <=> r.stream = Streams[i] /\ r.symbol = s /\ r.exchange = x
      BY <2>2, <3>1
    <3>4. CASE r.op = "sub"
      <4>1. up = IF <<r.symbol, r.exchange>> \in Listed THEN upstream \cup {inst} ELSE upstream
        BY <1>2, <1>4, <2>6, <3>1, <3>4 DEF Serve
      <4> QED BY <2>3, <2>4, <3>3, <3>4, <4>1
    <3>5. CASE r.op = "unsub"
      <4>1. up = IF r.exchange \in Exchanges THEN upstream \ {inst} ELSE upstream
        BY <1>2, <1>4, <2>6, <3>1, <3>5 DEF Serve
      <4> QED BY <2>3, <2>4, <3>3, <3>5, <4>1
    <3> QED BY <3>2, <3>4, <3>5
  <2> QED BY <2>5, <2>6
<1>6. Will(Tail(reqs), up) = Will(reqs, upstream)
  BY <1>1, <1>2, <1>5, WillTail
<1> QED BY <1>1, <1>4, <1>6

LEMMA TogetherStep ==
    ASSUME TypeOK, PhaseInv, HttpInv, TogetherInv, [Next]_vars
    PROVE  TogetherInv'
<1> SUFFICES ASSUME NEW c \in Symbols, c \notin torn', NEW y \in Exchanges
             PROVE  Whole(Will(http', Will(reqs', upstream')), c, y)
  BY DEF TogetherInv
<1>p. /\ http \in Seq(Call) /\ http \in Seq(Queued) /\ reqs \in Seq(Queued) /\ link \in BOOLEAN
      /\ topic_exchange \in [Symbols -> Places] /\ sub_all \in BOOLEAN /\ torn \subseteq torn'
  <2>1. torn \subseteq torn'
    BY DEF Next, Spi, Ignored, SubTopic, UnsubTopic, Accept, CallApi, LinkLost, Serve, ServeAll,
         OnSubMarketData, OnUnSubMarketData, OnDisconnected, Take, Reconn, vars
  <2> QED BY <2>1 DEF TypeOK, Queued, Places
<1>c. PICK w : w = Will(reqs, upstream)
  OBVIOUS
<1>i. Whole(Will(http, w), c, y) /\ w \in SUBSET Feeds
  BY <1>p, <1>c DEF TogetherInv, Will
<1>1. ASSUME UNCHANGED <<http, reqs, upstream>> PROVE Whole(Will(http', Will(reqs', upstream')), c, y)
  BY <1>1, <1>c, <1>i
<1>2. CASE Ignored \/ OnSubMarketData \/ OnUnSubMarketData \/ OnDisconnected \/ UNCHANGED vars
  <2>1. UNCHANGED <<http, reqs, upstream>>
    BY <1>2, TakeTypes DEF Ignored, Accept, apiVars, OnSubMarketData, OnUnSubMarketData,
         OnDisconnected, vars
  <2> QED BY <1>1, <2>1
<1>3. ASSUME NEW op \in {"sub", "unsub"}, NEW s \in Symbols, NEW x \in Places, UNCHANGED <<reqs, upstream>>,
             http = <<>>, NEW h, h = http', h = <<>> \/ h = CallsFor(op, s, x)
      PROVE  Whole(Will(http', Will(reqs', upstream')), c, y)
  <2>1. Will(http, w) = w
    BY <1>3, <1>i, WillEmpty
  <2>2. Whole(w, c, y)
    BY <1>i, <2>1
  <2>3. Whole(Will(CallsFor(op, s, x), w), c, y)
    BY <2>2, WillCallsFor
  <2>4. Whole(Will(h, w), c, y)
    BY <1>3, <1>i, <2>3
  <2> QED BY <1>3, <1>c, <2>4
<1>4. ASSUME NEW s \in Symbols, NEW x \in Exchanges, SubTopic(s, x)
      PROVE  Whole(Will(http', Will(reqs', upstream')), c, y)
  <2>1. /\ http = <<>> /\ UNCHANGED <<reqs, upstream>> /\ x \in Places
        /\ http' = <<>> \/ http' = CallsFor("sub", s, x)
    BY <1>4 DEF SubTopic, Accept, apiVars, Places
  <2> QED BY <1>3, <2>1
<1>5. ASSUME NEW s \in Symbols, UnsubTopic(s)
      PROVE  Whole(Will(http', Will(reqs', upstream')), c, y)
  <2>1. PICK x \in Places : x = topic_exchange[s]
    BY <1>p
  <2>2. /\ http = <<>> /\ UNCHANGED <<reqs, upstream>>
        /\ http' = <<>> \/ http' = CallsFor("unsub", s, x)
    BY <1>5, <2>1 DEF UnsubTopic, Accept, apiVars
  <2> QED BY <1>3, <2>2
<1>6. CASE CallApi
  <2>1. http # <<>> /\ http' = Tail(http) /\ upstream' = upstream
        /\ reqs' = IF link THEN Append(reqs, Head(http)) ELSE reqs
    BY <1>6 DEF CallApi, apiVars
  <2>2. PICK h : h = Head(http)
    OBVIOUS
  <2>3. h \in Call /\ h \in Queued
    BY <1>p, <2>1, <2>2, HeadTailProperties DEF Queued
  <2>4. CASE link
    <3>1. PICK w2 : w2 = Will(Append(reqs, h), upstream)
      OBVIOUS
    <3>2. \A f \in Feeds : f \in w2 <=> h \in Starts(f) \/ (f \in w /\ h \notin Stops(f))
      BY <1>p, <1>c, <2>3, <3>1, WillAppend
    <3>3. Will(Tail(http), w2) = Will(http, w)
      BY <1>p, <2>1, <2>2, <3>2, WillTail
    <3> QED BY <1>i, <2>1, <2>2, <2>4, <3>1, <3>3
  <2>5. CASE ~link
    <3>1. torn' = torn \cup {h.symbol} /\ UNCHANGED <<reqs, upstream>>
      BY <1>6, <2>1, <2>2, <2>5 DEF CallApi
    <3>2. h.symbol # c /\ h.op # "suball"
      BY <2>3, <3>1 DEF Call
    <3>3. PICK w2 : w2 = {f \in Feeds : h \in Starts(f) \/ (f \in w /\ h \notin Stops(f))}
      OBVIOUS
    <3>4. Will(Tail(http), w2) = Will(http, w)
      BY <1>p, <2>1, <2>2, <3>3, WillTail
    <3>5. ASSUME NEW i \in DOMAIN Streams
          PROVE  <<Streams[i], c, y>> \in Will(Tail(http), w) <=> <<Streams[i], c, y>> \in Will(http, w)
      <4>1. PICK f : f = <<Streams[i], c, y>>
        OBVIOUS
      <4>2. f \in Feeds /\ f[2] = c
        BY <4>1, IsFeed
      <4>3. h \notin Starts(f) /\ h \notin Stops(f)
        BY <3>2, <4>2 DEF Starts, Stops
      <4>4. f \in w <=> f \in w2
        BY <3>3, <4>2, <4>3
      <4>5. f \in Will(Tail(http), w) <=> f \in Will(Tail(http), w2)
        BY <4>2, <4>4, WillSame
      <4> QED BY <3>4, <4>1, <4>5
    <3>6. Whole(Will(Tail(http), w), c, y)
      BY <1>i, <3>5 DEF Whole
    <3> QED BY <1>c, <2>1, <3>1, <3>6
  <2> QED BY <2>4, <2>5
<1>7. CASE LinkLost
  <2>1. http' = http /\ reqs' = <<>> /\ upstream' = {}
        /\ torn' = torn \cup {http[i].symbol : i \in DOMAIN http}
    BY <1>7 DEF LinkLost
  <2>2. Will(<<>>, {}) = {}
    BY WillEmpty
  <2>3. \A k \in DOMAIN http : http[k].symbol # c
    BY <2>1
  <2>4. \A i \in DOMAIN Streams : <<Streams[i], c, y>> \notin Will(http, {})
    BY <1>p, <2>3, WillOthers
  <2>5. Whole(Will(http, {}), c, y)
    BY <2>4 DEF Whole
  <2> QED BY <2>1, <2>2, <2>5
<1>8. CASE Serve \/ ServeAll
  <2>1. http' = http /\ Will(reqs', upstream') = w
    BY <1>8, <1>c, ServeWill DEF Serve, ServeAll
  <2> QED BY <1>i, <2>1
<1>9. CASE Reconn
  <2>1. /\ ~link /\ upstream = {} /\ http' = http /\ upstream' = upstream
        /\ reqs' = SubTopicsCalls(sub_topics, topic_exchange, sub_all)
    BY <1>9 DEF Reconn, PhaseInv
  <2>2. PICK tp, ex, all : tp = sub_topics /\ ex = topic_exchange /\ all = sub_all
    OBVIOUS
  <2>3. Whole(Will(SubTopicsCalls(tp, ex, all), {}), c, y)
    BY <1>p, <2>2, WillSubTopics
  <2>4. PICK v : v = Will(reqs', upstream')
    OBVIOUS
  <2>5. Whole(v, c, y)
    BY <2>1, <2>2, <2>3, <2>4
  <2>6. CASE \E op \in {"sub", "unsub"}, s \in Symbols : \E x \in Places : http = CallsFor(op, s, x)
    <3>1. PICK op \in {"sub", "unsub"}, s \in Symbols : \E x \in Places : http = CallsFor(op, s, x)
      BY <2>6
    <3>2. PICK x \in Places : http = CallsFor(op, s, x)
      BY <3>1
    <3>3. Whole(Will(CallsFor(op, s, x), v), c, y)
      BY <2>5, WillCallsFor
    <3> QED BY <2>1, <2>4, <3>2, <3>3
  <2>7. CASE \A k \in DOMAIN http : http[k].symbol \in torn
    <3>1. \A k \in DOMAIN http : http[k].symbol # c
      BY <1>p, <2>7
    <3>2. \A i \in DOMAIN Streams : <<Streams[i], c, y>> \in Will(http, v) <=> <<Streams[i], c, y>> \in v
      BY <1>p, <3>1, WillOthers
    <3>3. Whole(Will(http, v), c, y)
      BY <2>5, <3>2 DEF Whole
    <3> QED BY <2>1, <2>4, <3>3
  <2> QED BY <2>1, <2>6, <2>7 DEF HttpInv
<1> QED BY <1>2, <1>4, <1>5, <1>6, <1>7, <1>8, <1>9 DEF Next, Spi

LEMMA TogetherInit == ASSUME Init PROVE HttpInv /\ TogetherInv
<1>1. /\ TypeOK /\ http = <<>> /\ link = TRUE /\ upstream = {}
      /\ reqs = SubTopicsCalls(sub_topics, topic_exchange, sub_all)
  BY TypeInit DEF Init
<1>2. PICK tp, ex, all : tp = sub_topics /\ ex = topic_exchange /\ all = sub_all
  OBVIOUS
<1>3. ex \in [Symbols -> Places] /\ all \in BOOLEAN
  BY <1>1, <1>2 DEF TypeOK, Places
<1>4. PICK w : w = Will(reqs, upstream)
  OBVIOUS
<1>5. ASSUME NEW s \in Symbols, NEW x \in Exchanges PROVE Whole(w, s, x)
  <2>1. Whole(Will(SubTopicsCalls(tp, ex, all), {}), s, x)
    BY <1>3, WillSubTopics
  <2> QED BY <1>1, <1>2, <1>4, <2>1
<1>6. Will(http, w) = w
  <2>1. w \in SUBSET Feeds
    BY <1>4 DEF Will
  <2> QED BY <1>1, <2>1, WillEmpty
<1> QED BY <1>1, <1>4, <1>5, <1>6 DEF HttpInv, TogetherInv

\* All streams of an instrument are subscribed or none, once the calls for it are
\* through and answered: SubTopic, UnsubTopic and SubTopics call the API for every
\* stream (xtp_quote_handler.cpp), and a connection that breaks amidst the calls of a
\* request is all that leaves some of them undone.
THEOREM StreamsTogetherCorrect == Spec => []StreamsTogether
<1>1. Init => TypeOK /\ PhaseInv /\ HttpInv /\ TogetherInv
  BY TypeInit, OrderInit, TogetherInit
<1>2. TypeOK /\ PhaseInv /\ HttpInv /\ TogetherInv /\ [Next]_vars
          => (TypeOK /\ PhaseInv /\ HttpInv /\ TogetherInv)'
  BY TypeStep, PhaseStep, HttpStep, TogetherStep
<1>3. TypeOK /\ TogetherInv => StreamsTogether
  <2> SUFFICES ASSUME TypeOK, TogetherInv, NEW s \in Symbols, s \notin torn, NEW x \in Exchanges, Quiet
               PROVE  LET on == {i \in DOMAIN Streams : <<Streams[i], s, x>> \in upstream} IN
                      on = {} \/ on = DOMAIN Streams
    BY DEF StreamsTogether
  <2>1. upstream \in SUBSET Feeds /\ http = <<>> /\ reqs = <<>>
    BY DEF TypeOK, Feeds, Quiet
  <2>2. Will(<<>>, Will(<<>>, upstream)) = upstream
    BY <2>1, WillEmpty
  <2>3. Whole(upstream, s, x)
    BY <2>1, <2>2 DEF TogetherInv
  <2> QED BY <2>3 DEF Whole
<1> QED BY <1>1, <1>2, <1>3, PTL DEF Spec
=============================================================================
