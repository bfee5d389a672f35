------------------------------- MODULE CtpQuote -------------------------------
(***************************************************************************)
(* The subscriptions of the CTP quotes gateway. Two threads share the map  *)
(* sub_topics_: the hub's thread, on which REST requests arrive, and the   *)
(* callback thread of the API. Each takes the lock for the map and calls   *)
(* the API after it let go of it (SubTopics alone holds it for the calls). *)
(* CTP forgets every subscription when the connection breaks; the gateway  *)
(* is told so by a callback, some time later.                              *)
(*                                                                         *)
(* The quotes themselves are not here: each is broadcast as it comes, and  *)
(* KlineBuilder has what is made of them.                                  *)
(***************************************************************************)
EXTENDS Integers, Sequences, FiniteSets, SequencesExt

CONSTANTS
    TopicOrder,  \* the instruments, in the order of the map
    Listed,      \* the instruments that CTP has
    BatchMax,    \* instruments in one call of SubscribeMarketData: 16
    MaxCalls,    \* bound on the REST requests
    MaxLosses    \* bound on the connections that break

Topics == {TopicOrder[i] : i \in DOMAIN TopicOrder}

ASSUME CtpQuoteAssumption ==
    /\ TopicOrder \in Seq(Topics) /\ Len(TopicOrder) = Cardinality(Topics)
    /\ Listed \subseteq Topics
    /\ BatchMax \in Nat \ {0} /\ MaxCalls \in Nat /\ MaxLosses \in Nat

VARIABLES
    sub_topics,  \* sub_topics_: "none", or whether it is said to be subscribed
    klines,      \* the keys of kline_builder_
    http,        \* the REST request the hub's thread is in the middle of
    link,        \* CTP: "down", "up", or "in" when the gateway is logged in
    upstream,    \* CTP: the instruments it sends quotes of
    reqs,        \* requests on their way to CTP
    rsps,        \* callbacks the API has still to make
    alive,       \* FALSE after exit(-1)
    asked,       \* history: the last accepted request for each instrument
    calls, losses

threadVars == <<sub_topics, klines, http, alive>>
ctpVars    == <<link, upstream, losses>>
askVars    == <<asked, calls>>
vars == <<threadVars, ctpVars, reqs, rsps, askVars>>

Idle      == [op |-> "idle"]
LoginReq  == [op |-> "login"]
TopicReq  == [op : {"sub", "unsub"}, topics : Seq(Topics)]
Call(op, t) == [op |-> op, topics |-> <<t>>]

Notice(kind)    == [kind |-> kind]
Rsp(kind, t, ok) == [kind |-> kind, topic |-> t, ok |-> ok]
Callback ==
    {Notice(kind) : kind \in {"connected", "disconnected", "login", "refused"}}
      \cup [kind : {"sub", "unsub"}, topic : Topics, ok : BOOLEAN]

\* Among the rest: no call of the API has more instruments than its buffer.
TypeOK ==
    /\ sub_topics \in [Topics -> {"none", "off", "on"}]
    /\ klines \subseteq Topics
    /\ http \in {Idle} \cup {Call(op, t) : op \in {"sub", "unsub"}, t \in Topics}
    /\ link \in {"down", "up", "in"} /\ upstream \subseteq Topics
    /\ \A i \in DOMAIN reqs : \/ reqs[i] = LoginReq
                              \/ reqs[i] \in TopicReq /\ Len(reqs[i].topics) \in 1..BatchMax
    /\ \A i \in DOMAIN rsps : rsps[i] \in Callback
    /\ alive \in BOOLEAN
    /\ asked \in [Topics -> {"nothing", "sub", "unsub"}]
    /\ calls \in 0..MaxCalls /\ losses \in 0..MaxLosses

\* default_sub_topics are in the map before the API runs.
Init ==
    /\ \E default \in SUBSET Topics :
          /\ sub_topics = [t \in Topics |-> IF t \in default THEN "off" ELSE "none"]
          /\ asked = [t \in Topics |-> IF t \in default THEN "sub" ELSE "nothing"]
    /\ klines = {} /\ http = Idle /\ alive = TRUE
    /\ link = "down" /\ upstream = {} /\ losses = 0
    /\ reqs = <<>> /\ rsps = <<>>
    /\ calls = 0

\* A call of the API fails while there is no connection; nobody looks at what it
\* returns.
Request(rs) == reqs' = IF link = "down" THEN reqs ELSE reqs \o rs

-----------------------------------------------------------------------------
(* The hub's thread.                                                        *)

Accept(op, t) ==
    /\ alive /\ http = Idle /\ calls < MaxCalls
    /\ asked' = [asked EXCEPT ![t] = op] /\ calls' = calls + 1
    /\ UNCHANGED <<klines, alive, ctpVars, reqs, rsps>>

\* Mutant of SubTopic: the instrument is only put into the map by its response.
SubTopicUnlisted(t) ==
    /\ Accept("sub", t)
    /\ sub_topics[t] # "on"
    /\ http' = Call("sub", t)
    /\ UNCHANGED sub_topics

\* Returns early if the instrument is said to be subscribed.
SubTopic(t) ==
    /\ Accept("sub", t)
    /\ \/ /\ sub_topics[t] = "on"
          /\ UNCHANGED <<sub_topics, http>>
       \/ /\ sub_topics[t] # "on"
          /\ sub_topics' = [sub_topics EXCEPT ![t] = "off"]
          /\ http' = Call("sub", t)

\* Returns early if the instrument is not in the map.
UnsubTopic(t) ==
    /\ Accept("unsub", t)
    /\ http' = IF sub_topics[t] = "none" THEN Idle ELSE Call("unsub", t)
    /\ UNCHANGED sub_topics

\* SubscribeMarketData or UnSubscribeMarketData, after the lock is released.
CallApi ==
    /\ alive /\ http # Idle
    /\ Request(<<http>>)
    /\ http' = Idle
    /\ UNCHANGED <<sub_topics, klines, alive, ctpVars, rsps, askVars>>

-----------------------------------------------------------------------------
(* CTP.                                                                     *)

Connect ==
    /\ alive /\ link = "down"
    /\ link' = "up"
    /\ rsps' = Append(rsps, Notice("connected"))
    /\ UNCHANGED <<threadVars, upstream, losses, reqs, askVars>>

LinkLost ==
    /\ alive /\ link # "down" /\ losses < MaxLosses
    /\ link' = "down" /\ upstream' = {} /\ reqs' = <<>>
    /\ rsps' = Append(rsps, Notice("disconnected"))
    /\ losses' = losses + 1
    /\ UNCHANGED <<threadVars, askVars>>

ServeLogin ==
    /\ alive /\ reqs # <<>> /\ Head(reqs) = LoginReq
    /\ \/ link' = "in" /\ rsps' = Append(rsps, Notice("login"))
       \/ link' = link /\ rsps' = Append(rsps, Notice("refused"))
    /\ reqs' = Tail(reqs)
    /\ UNCHANGED <<threadVars, upstream, losses, askVars>>

\* One instrument of a request. Before the login every one is refused.
ServeTopic ==
    /\ alive /\ reqs # <<>> /\ Head(reqs) # LoginReq
    /\ LET r == Head(reqs)
           t == Head(r.topics)
           ok == link = "in" /\ (r.op = "sub" => t \in Listed) IN
       /\ reqs' = IF Len(r.topics) = 1 THEN Tail(reqs)
                  ELSE <<[r EXCEPT !.topics = Tail(@)]>> \o Tail(reqs)
       /\ upstream' = IF ~ok THEN upstream
                      ELSE IF r.op = "sub" THEN upstream \cup {t} ELSE upstream \ {t}
       /\ rsps' = Append(rsps, Rsp(r.op, t, ok))
    /\ UNCHANGED <<threadVars, link, losses, askVars>>

-----------------------------------------------------------------------------
(* The callback thread.                                                     *)

Take(kind) ==
    /\ alive /\ rsps # <<>> /\ Head(rsps).kind = kind
    /\ rsps' = Tail(rsps)
    /\ UNCHANGED <<http, ctpVars, askVars>>

OnFrontConnected ==
    /\ Take("connected")
    /\ Request(<<LoginReq>>)
    /\ UNCHANGED <<sub_topics, klines, alive>>

\* Mutant of OnFrontDisconnected: the flags are kept.
FlagsKept ==
    /\ Take("disconnected")
    /\ UNCHANGED <<sub_topics, klines, alive, reqs>>

OnFrontDisconnected ==
    /\ Take("disconnected")
    /\ sub_topics' = [t \in Topics |-> IF sub_topics[t] = "on" THEN "off" ELSE sub_topics[t]]
    /\ UNCHANGED <<klines, alive, reqs>>

\* What is in the map and not subscribed, in its order.
Off == FlattenSeq([i \in DOMAIN TopicOrder |->
                      IF sub_topics[TopicOrder[i]] = "off" THEN <<TopicOrder[i]>> ELSE <<>>])

\* The instruments of s, at most BatchMax in a call.
Batches(s) ==
    [i \in 1..((Len(s) + BatchMax - 1) \div BatchMax) |->
        [op |-> "sub",
         topics |-> SubSeq(s, (i - 1) * BatchMax + 1,
                           IF i * BatchMax < Len(s) THEN i * BatchMax ELSE Len(s))]]

SubTopics == Request(Batches(Off))

OnRspUserLogin ==
    \/ /\ Take("login")
       /\ SubTopics
       /\ UNCHANGED <<sub_topics, klines, alive>>
    \/ /\ Take("refused")
       /\ alive' = FALSE
       /\ UNCHANGED <<sub_topics, klines, reqs>>

OnRspSubMarketData ==
    /\ Take("sub")
    /\ LET r == Head(rsps) IN
       \/ /\ r.ok
          /\ sub_topics' = [sub_topics EXCEPT ![r.topic] = "on"]
          /\ klines' = klines \cup {r.topic}
       \/ /\ ~r.ok
          /\ UNCHANGED <<sub_topics, klines>>
    /\ UNCHANGED <<alive, reqs>>

OnRspUnSubMarketData ==
    /\ Take("unsub")
    /\ LET r == Head(rsps) IN
       \/ /\ r.ok
          /\ sub_topics' = [sub_topics EXCEPT ![r.topic] = "none"]
          /\ klines' = klines \ {r.topic}
       \/ /\ ~r.ok
          /\ UNCHANGED <<sub_topics, klines>>
    /\ UNCHANGED <<alive, reqs>>

-----------------------------------------------------------------------------
Spi ==
    \/ OnFrontConnected
    \/ OnFrontDisconnected
    \/ OnRspUserLogin
    \/ OnRspSubMarketData
    \/ OnRspUnSubMarketData

Ctp ==
    \/ Connect
    \/ ServeLogin
    \/ ServeTopic

Next ==
    \/ \E t \in Topics : SubTopic(t) \/ UnsubTopic(t)
    \/ CallApi
    \/ Ctp
    \/ LinkLost
    \/ Spi

Spec == Init /\ [][Next]_vars

\* Both threads run, and CTP connects and answers. Clients owe nothing.
Fairness == WF_vars(CallApi) /\ WF_vars(Spi) /\ WF_vars(Ctp)

FairSpec == Spec /\ Fairness

-----------------------------------------------------------------------------
(* Properties.                                                              *)

Due(cb) == \E i \in DOMAIN rsps : rsps[i] = cb

\* What is said to be subscribed is ("subed: whether it is already subscribed"),
\* or the callback that takes it back is on its way.
SubedIsTrue ==
    \A t \in Topics : alive /\ sub_topics[t] = "on" =>
        t \in upstream \/ Due(Notice("disconnected")) \/ Due(Rsp("unsub", t, TRUE))

\* CTP sends no quotes of an instrument the gateway does not know to be
\* subscribed, unless the callback that says so is on its way: SubTopic and the
\* callbacks never leave the flag of a subscription off.
UpstreamIsKnown ==
    \A t \in upstream : sub_topics[t] = "on" \/ Due(Rsp("sub", t, TRUE))

\* Klines follow the quotes by themselves: an instrument that is subscribed has
\* them, and one that is not in the map has none.
KlinesFollow ==
    \A t \in Topics : /\ sub_topics[t] = "on" => t \in klines
                      /\ t \in klines => sub_topics[t] # "none"

\* The map, the builder and CTP agree up to the callbacks that are due.
Inv == TypeOK /\ SubedIsTrue /\ UpstreamIsKnown /\ KlinesFollow

\* Whatever a request and a login do to each other, and however often the
\* connection broke, a listed instrument that was asked for, in the configuration
\* or by a client, and that nobody unsubscribes is subscribed when the connection
\* stays up. It is missed neither by both its request, which fails before the
\* login, and the login, which subscribes what it finds in the map, nor by the
\* batches of the latter.
GetsSubscribed ==
    \A t \in Listed :
        [](asked[t] # "unsub") => (asked[t] = "sub" ~> sub_topics[t] = "on" \/ ~alive)
=============================================================================
