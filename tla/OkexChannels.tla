----------------------------- MODULE OkexChannels -----------------------------
(***************************************************************************)
(* The channels of the two OKEx gateways and their websocket connection.   *)
(* A request passes the hub's channel and the peer's SendChannel, and is   *)
(* dropped without a word when there is no peer. OKEx forgets everything   *)
(* when a connection ends; the hub dials again after a while. The quotes   *)
(* gateway subscribes once it is connected, the trade gateway logs in      *)
(* first and subscribes when the login is answered. A channel is answered  *)
(* for by an event, or by an error that is only logged.                    *)
(*                                                                         *)
(* The hub, its peers and its connections are those of the cascade library,*)
(* modelled from how they are used: what is read on a connection comes in  *)
(* order, OnInactive after it; a connection ends before the next one       *)
(* begins. Nothing is assumed of the order in which the hub takes messages *)
(* from its channel and calls OnActive and OnInactive.                     *)
(***************************************************************************)
EXTENDS Naturals, Sequences

CONSTANTS
    Channels,   \* the channels anybody may name
    SubTopicsConf, \* QuoteSubTopics, or TradeSubTopics, of the configuration
    Known,      \* the channels OKEx has
    Gateways,   \* the gateways that are run: "quote", "trade"
    MaxCalls,   \* bound on the REST requests
    MaxBreaks,  \* bound on the connections that end
    MaxQueued   \* bound on the requests that wait in the hub's channel

ASSUME OkexChannelsAssumption ==
    /\ SubTopicsConf \subseteq Channels /\ Known \subseteq Channels
    /\ Gateways \subseteq {"quote", "trade"}
    /\ MaxCalls \in Nat /\ MaxBreaks \in Nat /\ MaxQueued \in Nat

VARIABLES
    gateway,   \* which of the two this is
    channels,  \* the service's map: "none", or whether it is said to be subscribed
    stage,     \* the connection's goroutine: "dialing", "active", "up", "inactive"
    peer,      \* is the API's peer set
    hub,       \* ByteMessageChannel
    conn,      \* OKEx: is there a connection
    logged,    \* OKEx: is it logged in
    wire,      \* requests on their way to OKEx
    events,    \* what OKEx sent, up to the end of the connection
    upstream,  \* OKEx: the channels it sends
    asked,     \* history: the last request for each channel that was accepted
    endangered,  \* history: channels unsubscribed when the connection was down or broke
    crossed,     \* history: channels subscribed while they were being unsubscribed
    denied,    \* history: a login was refused
    calls, breaks

serviceVars == <<gateway, channels>>
okexVars == <<conn, logged, wire, events, upstream>>
histVars == <<asked, endangered, crossed, denied, calls, breaks>>
channelsVars == <<serviceVars, stage, peer, hub, okexVars, histVars>>

Request == [op : {"subscribe", "unsubscribe"}, args : SUBSET Channels] \cup [op : {"login"}]
Event == [event : {"subscribe", "unsubscribe"}, channel : Channels] \cup [event : {"login", "closed"}]

ChannelsTypeOK ==
    /\ gateway \in Gateways
    /\ channels \in [Channels -> {"none", "off", "on"}]
    /\ stage \in {"dialing", "active", "up", "inactive"}
    /\ peer \in BOOLEAN /\ conn \in BOOLEAN /\ logged \in BOOLEAN
    /\ hub \in Seq(Request) /\ Len(hub) <= MaxQueued
    /\ wire \in Seq(Request) /\ events \in Seq(Event)
    /\ upstream \subseteq Known
    /\ asked \in [Channels -> {"nothing", "sub", "unsub"}]
    /\ endangered \subseteq Channels /\ crossed \subseteq Channels /\ denied \in BOOLEAN
    /\ calls \in 0..MaxCalls /\ breaks \in 0..MaxBreaks

ChannelsInit ==
    /\ gateway \in Gateways
    /\ channels = [c \in Channels |-> "none"]
    /\ stage = "dialing" /\ peer = FALSE /\ hub = <<>>
    /\ conn = FALSE /\ logged = FALSE /\ wire = <<>> /\ events = <<>> /\ upstream = {}
    /\ asked = [c \in Channels |-> "nothing"] /\ endangered = {} /\ crossed = {} /\ denied = FALSE
    /\ calls = 0 /\ breaks = 0

Listed == {c \in Channels : channels[c] # "none"}
Req(op, cs) == [op |-> op, args |-> cs]

\* Is an unsubscription of c waiting, on its way or answered.
Unsubscribing(c) ==
    \/ \E i \in DOMAIN hub : hub[i].op = "unsubscribe" /\ c \in hub[i].args
    \/ \E i \in DOMAIN wire : wire[i].op = "unsubscribe" /\ c \in wire[i].args
    \/ \E i \in DOMAIN events : events[i] = [event |-> "unsubscribe", channel |-> c]

\* Mutant of Restore: the configured channels are all that is subscribed again.
RestoreDefaults ==
    /\ channels' = [c \in Channels |-> IF Listed = {} /\ c \in SubTopicsConf THEN "off" ELSE channels[c]]
    /\ hub' = Append(hub, Req("subscribe", SubTopicsConf))
    /\ asked' = [c \in Channels |-> IF Listed = {} /\ c \in SubTopicsConf THEN "sub" ELSE asked[c]]
    /\ UNCHANGED crossed

\* The body of OnConnected, and of the trade gateway's OnLogin: the configured
\* channels if none is listed, else all that are.
Restore ==
    LET missing == IF Listed = {} THEN SubTopicsConf ELSE {} IN
    /\ channels' = [c \in Channels |-> IF c \in missing THEN "off" ELSE channels[c]]
    /\ hub' = Append(hub, Req("subscribe", Listed \cup missing))
    /\ asked' = [c \in Channels |-> IF c \in missing THEN "sub" ELSE asked[c]]
    /\ crossed' = crossed \cup {c \in missing : Unsubscribing(c)}

-----------------------------------------------------------------------------
(* The connection's goroutine and the callbacks.                            *)

\* The hub's dial succeeds, and the API's OnActive sets the peer.
OnActive ==
    /\ stage = "dialing"
    /\ stage' = "active" /\ peer' = TRUE
    /\ conn' = TRUE /\ logged' = FALSE /\ wire' = <<>> /\ events' = <<>>
    /\ UNCHANGED <<serviceVars, hub, upstream, histVars>>

\* OnActive calls OnConnected: the quotes gateway subscribes, the other logs in.
OnConnected ==
    /\ stage = "active" /\ Len(hub) < MaxQueued
    /\ stage' = "up"
    /\ \/ gateway = "quote" /\ Restore
       \/ /\ gateway = "trade"
          /\ hub' = Append(hub, [op |-> "login"])
          /\ UNCHANGED <<channels, asked, crossed>>
    /\ UNCHANGED <<gateway, peer, okexVars, endangered, denied, calls, breaks>>

Read(event) ==
    /\ stage \in {"active", "up"}
    /\ events # <<>> /\ Head(events).event = event
    /\ events' = Tail(events)
    /\ UNCHANGED <<gateway, conn, logged, wire, upstream, endangered, denied, calls, breaks>>

OnLogin ==
    /\ Read("login") /\ Len(hub) < MaxQueued
    /\ Restore
    /\ UNCHANGED <<stage, peer>>

OnSub ==
    /\ Read("subscribe")
    /\ channels' = [channels EXCEPT ![Head(events).channel] = "on"]
    /\ UNCHANGED <<stage, peer, hub, asked, crossed>>

OnUnsub ==
    /\ Read("unsubscribe")
    /\ channels' = [channels EXCEPT ![Head(events).channel] = "none"]
    /\ UNCHANGED <<stage, peer, hub, asked, crossed>>

OnInactive ==
    /\ Read("closed") /\ stage = "up"
    /\ stage' = "inactive" /\ peer' = FALSE
    /\ UNCHANGED <<channels, hub, asked, crossed>>

\* Mutant of OnDisconnected: the flags stay.
OnDisconnectedKeeps ==
    /\ stage = "inactive"
    /\ stage' = "dialing"
    /\ UNCHANGED <<serviceVars, peer, hub, okexVars, histVars>>

\* OnInactive calls OnDisconnected.
OnDisconnected ==
    /\ stage = "inactive"
    /\ channels' = [c \in Channels |-> IF channels[c] = "on" THEN "off" ELSE channels[c]]
    /\ stage' = "dialing"
    /\ UNCHANGED <<gateway, peer, hub, okexVars, histVars>>

-----------------------------------------------------------------------------
(* The hub and the REST requests.                                           *)

\* Dropped if there is no peer, lost if its connection is down.
OnHubByteMessage ==
    /\ hub # <<>>
    /\ hub' = Tail(hub)
    /\ LET r == Head(hub)
           sent == peer /\ conn IN
       /\ wire' = IF sent THEN Append(wire, r) ELSE wire
       /\ endangered' = IF ~sent /\ r.op = "unsubscribe" THEN endangered \cup r.args ELSE endangered
    /\ UNCHANGED <<serviceVars, stage, peer, conn, logged, events, upstream, asked, crossed, denied, calls, breaks>>

\* Mutant of SubTopics: it asks before it looks whether the channels are subscribed.
SubTopicsUnlisted(cs) ==
    /\ gateway = "quote" /\ calls < MaxCalls /\ Len(hub) < MaxQueued
    /\ \A c \in cs : channels[c] # "on"
    /\ hub' = Append(hub, Req("subscribe", cs))
    /\ asked' = [c \in Channels |-> IF c \in cs THEN "sub" ELSE asked[c]]
    /\ crossed' = crossed \cup {c \in cs : Unsubscribing(c)}
    /\ calls' = calls + 1
    /\ UNCHANGED <<serviceVars, stage, peer, okexVars, endangered, denied, breaks>>

\* Refused as a whole if one of the channels is subscribed.
SubTopics(cs) ==
    /\ gateway = "quote" /\ calls < MaxCalls /\ Len(hub) < MaxQueued
    /\ \A c \in cs : channels[c] # "on"
    /\ channels' = [c \in Channels |-> IF c \in cs THEN "off" ELSE channels[c]]
    /\ hub' = Append(hub, Req("subscribe", cs))
    /\ asked' = [c \in Channels |-> IF c \in cs THEN "sub" ELSE asked[c]]
    /\ crossed' = crossed \cup {c \in cs : Unsubscribing(c)}
    /\ calls' = calls + 1
    /\ UNCHANGED <<gateway, stage, peer, okexVars, endangered, denied, breaks>>

\* Mutant of UnsubTopics: it sends no request.
UnsubTopicsSilent(cs) ==
    /\ gateway = "quote" /\ calls < MaxCalls /\ Len(hub) < MaxQueued
    /\ cs \subseteq Listed
    /\ asked' = [c \in Channels |-> IF c \in cs THEN "unsub" ELSE asked[c]]
    /\ endangered' = IF stage = "up" /\ conn THEN endangered ELSE endangered \cup cs
    /\ calls' = calls + 1
    /\ UNCHANGED <<serviceVars, stage, peer, hub, okexVars, crossed, denied, breaks>>

\* Refused as a whole if one of the channels is not listed.
UnsubTopics(cs) ==
    /\ gateway = "quote" /\ calls < MaxCalls /\ Len(hub) < MaxQueued
    /\ cs \subseteq Listed
    /\ hub' = Append(hub, Req("unsubscribe", cs))
    /\ asked' = [c \in Channels |-> IF c \in cs THEN "unsub" ELSE asked[c]]
    /\ endangered' = IF stage = "up" /\ conn THEN endangered ELSE endangered \cup cs
    /\ calls' = calls + 1
    /\ UNCHANGED <<serviceVars, stage, peer, okexVars, crossed, denied, breaks>>

-----------------------------------------------------------------------------
(* OKEx.                                                                    *)

\* The end of a connection: what was not read in time may be lost with it.
Break ==
    /\ conn /\ breaks < MaxBreaks
    /\ conn' = FALSE /\ logged' = FALSE /\ wire' = <<>> /\ upstream' = {}
    /\ \E n \in 0..Len(events) : events' = Append(SubSeq(events, 1, n), [event |-> "closed"])
    /\ endangered' = endangered \cup {c \in Channels : asked[c] = "unsub"}
    /\ breaks' = breaks + 1
    /\ UNCHANGED <<serviceVars, stage, peer, hub, asked, crossed, denied, calls>>

ServeLogin ==
    /\ wire # <<>> /\ Head(wire).op = "login"
    /\ wire' = Tail(wire)
    /\ \/ /\ logged' = TRUE
          /\ events' = Append(events, [event |-> "login"])
          /\ UNCHANGED denied
       \/ /\ denied' = TRUE
          /\ UNCHANGED <<logged, events>>
    /\ UNCHANGED <<serviceVars, stage, peer, hub, conn, upstream, asked, endangered, crossed, calls, breaks>>

\* One channel of the oldest request; a channel that OKEx does not have, or does
\* not send, and a trade channel before the login, are an error.
Serve ==
    /\ wire # <<>> /\ Head(wire).op # "login"
    /\ LET r == Head(wire) IN
       \/ /\ r.args = {}
          /\ wire' = Tail(wire)
          /\ UNCHANGED <<events, upstream>>
       \/ \E c \in r.args :
          /\ wire' = IF r.args = {c} THEN Tail(wire) ELSE [wire EXCEPT ![1].args = @ \ {c}]
          /\ LET ok == IF r.op = "subscribe" THEN c \in Known /\ (gateway = "trade" => logged)
                                             ELSE c \in upstream IN
             /\ events' = IF ok THEN Append(events, [event |-> r.op, channel |-> c]) ELSE events
             /\ upstream' = IF ~ok THEN upstream
                            ELSE IF r.op = "subscribe" THEN upstream \cup {c} ELSE upstream \ {c}
    /\ UNCHANGED <<serviceVars, stage, peer, hub, conn, logged, histVars>>

-----------------------------------------------------------------------------
Goroutine == OnActive \/ OnConnected \/ OnInactive \/ OnDisconnected
Reader == OnLogin \/ OnSub \/ OnUnsub
Okex == ServeLogin \/ Serve

ChannelsNext ==
    \/ OnActive \/ OnConnected \/ OnInactive \/ OnDisconnected
    \/ OnLogin \/ OnSub \/ OnUnsub
    \/ OnHubByteMessage
    \/ \E cs \in SUBSET Channels \ {{}} : SubTopics(cs) \/ UnsubTopics(cs)
    \/ Break
    \/ ServeLogin \/ Serve

ChannelsSpec == ChannelsInit /\ [][ChannelsNext]_channelsVars

\* The hub dials until it is connected, its goroutines run, and OKEx answers.
\* Clients owe nothing.
ChannelsFairness ==
    /\ WF_channelsVars(Goroutine) /\ WF_channelsVars(Reader) /\ WF_channelsVars(OnHubByteMessage)
    /\ WF_channelsVars(Okex)
ChannelsFairSpec == ChannelsSpec /\ ChannelsFairness

-----------------------------------------------------------------------------
(* Properties.                                                              *)

Due(op, c) == \E i \in DOMAIN events : events[i] = [event |-> op, channel |-> c]
Ended == (\E i \in DOMAIN events : events[i].event = "closed") \/ stage = "inactive"

\* What GetSubTopics reports as subscribed is sent by OKEx, or the event that takes
\* it back is on its way.
SubedIsTrue == \A c \in Channels : channels[c] = "on" =>
    c \in upstream \/ Ended \/ Due("unsubscribe", c)

\* OKEx sends no channel the map does not say is subscribed, unless its event is on
\* the way.
UpstreamIsKnown == \A c \in upstream : channels[c] = "on" \/ Due("subscribe", c)

\* The map and OKEx agree up to the events that are due.
Inv == ChannelsTypeOK /\ SubedIsTrue /\ UpstreamIsKnown

\* A channel that was asked for, by the configuration or a client, stays in the map
\* that a reconnect restores from, whatever becomes of its request, unless it was
\* subscribed while it was being unsubscribed.
KeptThroughBreaks == \A c \in Channels \ crossed : asked[c] = "sub" => channels[c] # "none"

\* A channel that OKEx has, asked for by the configuration or a client, and that
\* nobody unsubscribes is sent in the end, however often the connection broke, unless
\* a login was refused.
GetsSubscribed == \A c \in Known :
    [](asked[c] # "unsub" /\ ~denied) => (asked[c] = "sub" ~> c \in upstream /\ channels[c] = "on")

\* A channel that was unsubscribed and is not asked for again is sent no more, unless
\* the connection was down or broke: the request is lost then, or the channel restored.
GoesAway == \A c \in Channels :
    asked[c] = "unsub" ~> (c \notin upstream \/ asked[c] = "sub" \/ c \in endangered)
=============================================================================
