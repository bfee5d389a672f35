------------------------------- MODULE XtpQuote -------------------------------
(***************************************************************************)
(* The subscriptions of the XTP quotes gateway. An instrument is a symbol  *)
(* of an exchange, but the gateway's two maps are keyed by the symbol      *)
(* alone: sub_topics_ says whether it is subscribed, topic_exchange_ where.*)
(* The hub's thread, on which REST requests arrive, and the callback       *)
(* thread share them; each calls the API after it let go of the lock, once *)
(* for every stream that is configured (SubTopics alone holds the lock).   *)
(*                                                                         *)
(* XTP forgets all subscriptions when the connection breaks. The API does  *)
(* not reconnect: the callback thread stays in Reconn until a login, which *)
(* is a synchronous call, succeeds. The first login, in RunAPI, is over    *)
(* before any client can connect.                                          *)
(***************************************************************************)
EXTENDS Integers, Sequences, FiniteSets, SequencesExt

CONSTANTS
    SymbolOrder,  \* the symbols, in the order of the map
    Exchanges,    \* SSE, SZSE
    Unknown,      \* Exchange_Unknown, what a missing entry is read as
    Listed,       \* the pairs of a symbol and an exchange that XTP has
    Streams,      \* what is configured: market data, then order book and level 2
    MaxCalls,     \* bound on the REST requests
    MaxLosses     \* bound on the connections that break

Symbols == {SymbolOrder[i] : i \in DOMAIN SymbolOrder}
MarketData == Streams[1]

ASSUME XtpQuoteAssumption ==
    /\ SymbolOrder \in Seq(Symbols) /\ Len(SymbolOrder) = Cardinality(Symbols)
    /\ Unknown \notin Exchanges /\ Listed \subseteq Symbols \X Exchanges
    /\ Streams \in Seq({Streams[i] : i \in DOMAIN Streams}) /\ Streams # <<>>
    /\ \A i, j \in DOMAIN Streams : i # j => Streams[i] # Streams[j]
    /\ MaxCalls \in Nat /\ MaxLosses \in Nat

VARIABLES
    sub_all,         \* conf_.sub_all
    sub_topics,      \* sub_topics_: "none", or whether it is said to be subscribed
    topic_exchange,  \* topic_exchange_
    klines,          \* the keys of kline_builder_
    http,            \* the calls of the API the hub's thread has still to make
    reconn,          \* is the callback thread in Reconn
    link,            \* XTP: is the gateway connected and logged in
    upstream,        \* XTP: the streams it sends, as stream, symbol and exchange
    reqs,            \* requests on their way to XTP
    rsps,            \* callbacks the API has still to make
    asked,           \* history: the last request for each symbol
    named,           \* history: the exchanges each symbol was subscribed for
    crossed,         \* history: symbols subscribed while they were being unsubscribed
    torn,            \* history: symbols whose calls the connection did not outlive
    calls, losses

mapVars == <<sub_all, sub_topics, topic_exchange, klines>>
apiVars == <<reconn, link, upstream, losses>>
askVars == <<asked, named, crossed, calls>>
vars == <<mapVars, http, apiVars, reqs, rsps, askVars, torn>>

Call == [op : {"sub", "unsub"}, stream : {Streams[i] : i \in DOMAIN Streams},
         symbol : Symbols, exchange : Exchanges \cup {Unknown}]
CallAll == [op : {"suball"}, stream : {Streams[i] : i \in DOMAIN Streams}]
Rsp == [op : {"sub", "unsub"}, symbol : Symbols, ok : BOOLEAN]
Disconnected == [op |-> "disconnected"]

TypeOK ==
    /\ sub_all \in BOOLEAN
    /\ sub_topics \in [Symbols -> {"none", "off", "on"}]
    /\ topic_exchange \in [Symbols -> Exchanges \cup {Unknown}]
    /\ klines \subseteq Symbols
    /\ http \in Seq(Call) /\ Len(http) <= Len(Streams)
    /\ reconn \in BOOLEAN /\ link \in BOOLEAN
    /\ upstream \subseteq {Streams[i] : i \in DOMAIN Streams} \X Symbols \X Exchanges
    /\ reqs \in Seq(Call \cup CallAll)
    /\ rsps \in Seq(Rsp \cup {Disconnected})
    /\ asked \in [Symbols -> {"nothing", "sub", "unsub"}]
    /\ named \in [Symbols -> SUBSET Exchanges]
    /\ crossed \subseteq Symbols /\ torn \subseteq Symbols
    /\ calls \in 0..MaxCalls /\ losses \in 0..MaxLosses

\* The calls for one instrument, one for each stream.
CallsFor(op, s, x) ==
    [i \in DOMAIN Streams |-> [op |-> op, stream |-> Streams[i], symbol |-> s, exchange |-> x]]

\* Mutant of SubTopicsCalls: market data is all that is subscribed again.
SubTopicsCallsFirst(topics, exchange, all) ==
    IF all THEN [i \in DOMAIN Streams |-> [op |-> "suball", stream |-> Streams[i]]]
    ELSE FlattenSeq([i \in DOMAIN SymbolOrder |->
             LET s == SymbolOrder[i] IN
             IF topics[s] = "off" THEN <<CallsFor("sub", s, exchange[s])[1]>> ELSE <<>>])

\* SubTopics: everything, or what the map has and is not subscribed, in its order.
SubTopicsCalls(topics, exchange, all) ==
    IF all THEN [i \in DOMAIN Streams |-> [op |-> "suball", stream |-> Streams[i]]]
    ELSE FlattenSeq([i \in DOMAIN SymbolOrder |->
             LET s == SymbolOrder[i] IN
             IF topics[s] = "off" THEN CallsFor("sub", s, exchange[s]) ELSE <<>>])

\* default_sub_topics are in the maps before RunAPI logs in and calls SubTopics.
Init ==
    /\ sub_all \in BOOLEAN
    /\ \E default \in SUBSET Symbols, exchange \in [Symbols -> Exchanges] :
          /\ sub_topics = [s \in Symbols |-> IF s \in default THEN "off" ELSE "none"]
          /\ topic_exchange = [s \in Symbols |-> IF s \in default THEN exchange[s] ELSE Unknown]
          /\ asked = [s \in Symbols |-> IF s \in default THEN "sub" ELSE "nothing"]
          /\ named = [s \in Symbols |-> IF s \in default THEN {exchange[s]} ELSE {}]
    /\ reqs = SubTopicsCalls(sub_topics, topic_exchange, sub_all)
    /\ klines = {} /\ http = <<>>
    /\ reconn = FALSE /\ link = TRUE /\ upstream = {} /\ losses = 0
    /\ rsps = <<>> /\ crossed = {} /\ torn = {} /\ calls = 0

-----------------------------------------------------------------------------
(* The hub's thread.                                                        *)

\* Is an unsubscription of s under way: called for, sent, or answered.
Unsubscribing(s) ==
    \/ \E i \in DOMAIN reqs : reqs[i].op = "unsub" /\ reqs[i].symbol = s
    \/ \E i \in DOMAIN rsps : rsps[i].op = "unsub" /\ rsps[i].symbol = s

Accept(op, s) ==
    /\ http = <<>> /\ calls < MaxCalls
    /\ calls' = calls + 1
    /\ UNCHANGED <<sub_all, klines, apiVars, reqs, rsps, torn>>

\* Configured to subscribe to everything: both return at once.
Ignored ==
    /\ sub_all
    /\ \E op \in {"sub", "unsub"}, s \in Symbols : Accept(op, s)
    /\ UNCHANGED <<sub_topics, topic_exchange, http, asked, named, crossed>>

\* Mutants of SubTopic: the exchange is not stored, and the instrument is put into
\* the map by its response only.
SubTopicNoExchange(s, x) ==
    /\ ~sub_all /\ Accept("sub", s)
    /\ asked' = [asked EXCEPT ![s] = "sub"]
    /\ named' = [named EXCEPT ![s] = @ \cup {x}]
    /\ crossed' = IF Unsubscribing(s) THEN crossed \cup {s} ELSE crossed
    /\ UNCHANGED topic_exchange
    /\ \/ sub_topics[s] = "on" /\ UNCHANGED <<sub_topics, http>>
       \/ /\ sub_topics[s] # "on"
          /\ sub_topics' = [sub_topics EXCEPT ![s] = "off"]
          /\ http' = CallsFor("sub", s, x)
SubTopicUnlisted(s, x) ==
    /\ ~sub_all /\ Accept("sub", s)
    /\ asked' = [asked EXCEPT ![s] = "sub"]
    /\ named' = [named EXCEPT ![s] = @ \cup {x}]
    /\ crossed' = IF Unsubscribing(s) THEN crossed \cup {s} ELSE crossed
    /\ sub_topics[s] # "on"
    /\ topic_exchange' = [topic_exchange EXCEPT ![s] = x]
    /\ http' = CallsFor("sub", s, x)
    /\ UNCHANGED sub_topics

\* Returns early if the symbol is said to be subscribed, on whatever exchange.
SubTopic(s, x) ==
    /\ ~sub_all /\ Accept("sub", s)
    /\ asked' = [asked EXCEPT ![s] = "sub"]
    /\ named' = [named EXCEPT ![s] = @ \cup {x}]
    /\ crossed' = IF Unsubscribing(s) THEN crossed \cup {s} ELSE crossed
    /\ \/ /\ sub_topics[s] = "on"
          /\ UNCHANGED <<sub_topics, topic_exchange, http>>
       \/ /\ sub_topics[s] # "on"
          /\ sub_topics' = [sub_topics EXCEPT ![s] = "off"]
          /\ topic_exchange' = [topic_exchange EXCEPT ![s] = x]
          /\ http' = CallsFor("sub", s, x)

\* Returns early if the symbol is not in the map; the exchange is the map's.
UnsubTopic(s) ==
    /\ ~sub_all /\ Accept("unsub", s)
    /\ asked' = [asked EXCEPT ![s] = "unsub"]
    /\ http' = IF sub_topics[s] = "none" THEN <<>> ELSE CallsFor("unsub", s, topic_exchange[s])
    /\ UNCHANGED <<sub_topics, topic_exchange, named, crossed>>

\* SubscribeMarketData and its siblings, one after the other, without the lock; a
\* call fails while there is no connection, and nobody looks at what it returns.
CallApi ==
    /\ http # <<>>
    /\ reqs' = IF link THEN Append(reqs, Head(http)) ELSE reqs
    /\ http' = Tail(http)
    /\ torn' = IF link THEN torn ELSE torn \cup {Head(http).symbol}
    /\ UNCHANGED <<mapVars, apiVars, rsps, askVars>>

-----------------------------------------------------------------------------
(* XTP.                                                                     *)

LinkLost ==
    /\ link /\ losses < MaxLosses
    /\ link' = FALSE /\ losses' = losses + 1
    /\ upstream' = {} /\ reqs' = <<>>
    /\ rsps' = Append(rsps, Disconnected)
    /\ torn' = torn \cup {http[i].symbol : i \in DOMAIN http}
    /\ UNCHANGED <<mapVars, http, reconn, askVars>>

\* The next request. Only the answers about market data make the gateway act.
Serve ==
    /\ reqs # <<>> /\ Head(reqs).op # "suball"
    /\ LET r == Head(reqs)
           inst == <<r.stream, r.symbol, r.exchange>>
           ok == IF r.op = "sub" THEN <<r.symbol, r.exchange>> \in Listed
                                 ELSE r.exchange \in Exchanges IN
       /\ upstream' = IF ~ok THEN upstream
                      ELSE IF r.op = "sub" THEN upstream \cup {inst} ELSE upstream \ {inst}
       /\ rsps' = IF r.stream # MarketData THEN rsps
                  ELSE Append(rsps, [op |-> r.op, symbol |-> r.symbol, ok |-> ok])
    /\ reqs' = Tail(reqs)
    /\ UNCHANGED <<mapVars, http, reconn, link, losses, askVars, torn>>

\* A subscription to everything, whose answer, OnSubscribeAll*, is only logged.
ServeAll ==
    /\ reqs # <<>> /\ Head(reqs).op = "suball"
    /\ upstream' = upstream \cup {<<Head(reqs).stream, i[1], i[2]>> : i \in Listed}
    /\ reqs' = Tail(reqs)
    /\ UNCHANGED <<mapVars, http, reconn, link, losses, rsps, askVars, torn>>

-----------------------------------------------------------------------------
(* The callback thread.                                                     *)

Take(op) ==
    /\ ~reconn /\ rsps # <<>> /\ Head(rsps).op = op
    /\ rsps' = Tail(rsps)
    /\ UNCHANGED <<sub_all, http, link, upstream, losses, reqs, askVars, torn>>

OnSubMarketData ==
    /\ Take("sub")
    /\ LET r == Head(rsps) IN
       \/ /\ r.ok
          /\ sub_topics' = [sub_topics EXCEPT ![r.symbol] = "on"]
          /\ klines' = klines \cup {r.symbol}
       \/ /\ ~r.ok
          /\ UNCHANGED <<sub_topics, klines>>
    /\ UNCHANGED <<topic_exchange, reconn>>

OnUnSubMarketData ==
    /\ Take("unsub")
    /\ LET r == Head(rsps) IN
       \/ /\ r.ok
          /\ sub_topics' = [sub_topics EXCEPT ![r.symbol] = "none"]
          /\ topic_exchange' = [topic_exchange EXCEPT ![r.symbol] = Unknown]
          /\ klines' = klines \ {r.symbol}
       \/ /\ ~r.ok
          /\ UNCHANGED <<sub_topics, topic_exchange, klines>>
    /\ UNCHANGED reconn

\* Mutant of OnDisconnected: the flags are kept.
OnDisconnectedKeeps ==
    /\ Take("disconnected")
    /\ reconn' = TRUE
    /\ UNCHANGED <<sub_topics, topic_exchange, klines>>

OnDisconnected ==
    /\ Take("disconnected")
    /\ sub_topics' = [s \in Symbols |-> IF sub_topics[s] = "on" THEN "off" ELSE sub_topics[s]]
    /\ reconn' = TRUE
    /\ UNCHANGED <<topic_exchange, klines>>

\* A login succeeds, after any number that failed, and SubTopics follows. While it
\* has the lock no request is accepted.
Reconn ==
    /\ reconn
    /\ link' = TRUE /\ reconn' = FALSE
    /\ reqs' = SubTopicsCalls(sub_topics, topic_exchange, sub_all)
    /\ UNCHANGED <<mapVars, http, upstream, losses, rsps, askVars, torn>>

-----------------------------------------------------------------------------
Spi ==
    \/ OnSubMarketData
    \/ OnUnSubMarketData
    \/ OnDisconnected
    \/ Reconn

Next ==
    \/ Ignored
    \/ \E s \in Symbols, x \in Exchanges : SubTopic(s, x)
    \/ \E s \in Symbols : UnsubTopic(s)
    \/ CallApi
    \/ LinkLost \/ Serve \/ ServeAll
    \/ Spi

Spec == Init /\ [][Next]_vars

\* Both threads run, a login succeeds eventually, and XTP answers. Clients owe
\* nothing.
Fairness == WF_vars(CallApi) /\ WF_vars(Spi) /\ WF_vars(Serve) /\ WF_vars(ServeAll)
FairSpec == Spec /\ Fairness

-----------------------------------------------------------------------------
(* Properties.                                                              *)

Due(r) == \E i \in DOMAIN rsps : rsps[i] = r
Answered(op, s) == [op |-> op, symbol |-> s, ok |-> TRUE]

\* What is said to be subscribed is, on some exchange, or the callback that takes
\* it back is on its way.
SubedIsTrue ==
    \A s \in Symbols : sub_topics[s] = "on" =>
        \/ \E x \in Exchanges : <<MarketData, s, x>> \in upstream
        \/ Due(Disconnected) \/ Due(Answered("unsub", s))

\* XTP sends no quotes the gateway does not know of, unless the callback that says
\* so is on its way, as long as every symbol is asked for on one exchange only.
UpstreamIsKnown ==
    \A s \in Symbols, x \in Exchanges :
        ~sub_all /\ named[s] = {x} /\ <<MarketData, s, x>> \in upstream =>
            sub_topics[s] = "on" \/ Due(Answered("sub", s))

\* Where a symbol is subscribed is known, to unsubscribe it and to subscribe it
\* again after a reconnect, unless it was subscribed while it was being
\* unsubscribed; on one exchange, it is the one that was asked for.
ExchangeIsKnown ==
    \A s \in Symbols : sub_topics[s] # "none" /\ s \notin crossed =>
        topic_exchange[s] \in named[s]

\* Klines are made of a symbol as long as it is in the map as subscribed.
KlinesFollow ==
    \A s \in Symbols : /\ sub_topics[s] = "on" => s \in klines
                       /\ s \in klines => sub_topics[s] # "none"

\* The maps, the builder and XTP agree up to the callbacks that are due.
Inv == TypeOK /\ SubedIsTrue /\ UpstreamIsKnown /\ KlinesFollow

Quiet == http = <<>> /\ reqs = <<>> /\ link

\* When the calls for an instrument are through and answered, all its streams are
\* subscribed or none: a request's calls and those of SubTopics leave no part
\* behind, unless the connection broke between the calls of a request.
StreamsTogether ==
    \A s \in Symbols, x \in Exchanges : Quiet /\ s \notin torn =>
        LET on == {i \in DOMAIN Streams : <<Streams[i], s, x>> \in upstream} IN
        on = {} \/ on = DOMAIN Streams

\* A listed instrument that was asked for, in the configuration or by a client, on
\* one exchange, and that nobody unsubscribes is subscribed when the connection
\* stays up, however often it broke: by its own request or by SubTopics.
SymbolSubscribed ==
    \A s \in Symbols, x \in Exchanges :
        <<s, x>> \in Listed /\ ~sub_all /\ [](asked[s] # "unsub" /\ named[s] \subseteq {x})
            => (asked[s] = "sub" ~> <<MarketData, s, x>> \in upstream /\ sub_topics[s] = "on")

\* The same of every stream of everything, when that is what is configured.
AllSubscribed ==
    sub_all => [](link ~> (~link \/ \A i \in DOMAIN Streams, l \in Listed :
                                        <<Streams[i], l[1], l[2]>> \in upstream))

\* In either configuration what is asked for is subscribed in the end.
GetsSubscribed == SymbolSubscribed /\ AllSubscribed
=============================================================================
