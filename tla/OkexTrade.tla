------------------------------ MODULE OkexTrade ------------------------------
(***************************************************************************)
(* The OKEx trade gateway: how it ties the order ids of its clients to the *)
(* ids the exchange gives out.                                             *)
(*                                                                         *)
(* Three kinds of goroutine share one channel to the hub goroutine:        *)
(*   - a client's read goroutine runs OnRead: InsertOrder is a synchronous *)
(*     REST call, after which it pushes a "confirmorder" object;           *)
(*   - the goroutine that reads the websocket of OKEx pushes one           *)
(*     "orderstatus" object per status of an order (OnOrder);              *)
(*   - a ticker pushes a "timer_ticker" message every 60 seconds.          *)
(* The hub goroutine handles the messages one at a time. A status can      *)
(* overtake the confirmation of its own order, so statuses of unknown      *)
(* orders are parked in OrderTradeCache until OnConfirmOrder replays them. *)
(***************************************************************************)
EXTENDS Integers, Sequences

CONSTANTS
    Orders,         \* the insert_order requests clients send
    OutsideIds,     \* the order ids the exchange may assign
    NoOid,          \* the empty outside id of an order OKEx did not accept
    NoOrder,        \* "no order": what an unused or foreign id belongs to
    Expire,         \* CleanExpire's argument: how long a finished order stays
    MaxTime,        \* bound on the clock
    MaxStatus,      \* bound on the statuses the exchange sends for one order
    ChanCap,        \* capacity of Hub.ObjectMessageChannel
    LiveStatus,     \* the non-terminal statuses the exchange may send
    DeadStatus      \* the terminal statuses the exchange may send

\* The statuses UpdateOrderStatus stamps, of the values of common_enum.go.
Terminal == {"AllDealed", "Canceled", "PartCanceled", "Rejected"}
OrderStatus == {"Unknown", "PartDealed", "Canceling"} \cup Terminal

ASSUME OkexTradeAssumption ==
    /\ NoOid \notin OutsideIds
    /\ NoOrder \notin Orders
    /\ Expire \in Nat /\ MaxTime \in Nat /\ MaxStatus \in Nat
    /\ ChanCap \in Nat \ {0}
    /\ LiveStatus \subseteq OrderStatus \ Terminal
    /\ DeadStatus \subseteq Terminal

VARIABLES
    pc,         \* where OnRead stands for each request
    ret,        \* the local outsideOrderId of InsertOrder
    owner,      \* exchange: the request an id was given to, or NoOrder
    book,       \* exchange: "free", "live" or "closed" for each id
    log,        \* exchange: the statuses of each id the gateway received
    objCh,      \* Hub.ObjectMessageChannel
    cache,      \* OrderCacheManager.OutsideOidMap
    parked,     \* ClientService.OrderTradeCache
    now,        \* time.Now().Unix()
    confirmed,  \* what was broadcast: the order each id was confirmed for
    refused,    \* what was broadcast: the orders confirmed without an id
    feed        \* what was broadcast: the statuses of each id, in order

exchangeVars == <<owner, book, log>>
hubVars      == <<cache, parked, confirmed, refused, feed>>
vars == <<pc, ret, exchangeVars, objCh, now, hubVars>>

\* A status as OnOrder pushes it; n is its place in the log of its id (it is
\* there for the properties, the program does not number statuses).
Status == [oid : OutsideIds, n : Nat, status : OrderStatus]
\* A status as clients see it: with the order whose ids were filled in.
Published == [order : Orders, n : Nat, status : OrderStatus]

ConfirmMsg == [type : {"confirmorder"}, order : Orders, oid : OutsideIds \cup {NoOid}]
StatusMsg  == [type : {"orderstatus"}, status : Status]

\* No entry in OutsideOidMap.
Absent == [order |-> NoOrder, ts |-> 0]
CacheEntry == [order : Orders, ts : Nat]

TypeOK ==
    /\ pc \in [Orders -> {"idle", "calling", "replied", "answered", "failed"}]
    /\ ret \in [Orders -> OutsideIds \cup {NoOid}]
    /\ owner \in [OutsideIds -> Orders \cup {NoOrder}]
    /\ book \in [OutsideIds -> {"free", "live", "closed"}]
    /\ log \in [OutsideIds -> Seq(OrderStatus)]
    /\ objCh \in Seq(ConfirmMsg \cup StatusMsg)
    /\ cache \in [OutsideIds -> CacheEntry \cup {Absent}]
    /\ parked \in [OutsideIds -> Seq(Status)]
    /\ now \in Nat
    /\ confirmed \in [OutsideIds -> Orders \cup {NoOrder}]
    /\ refused \in SUBSET Orders
    /\ feed \in [OutsideIds -> Seq(Published)]

Init ==
    /\ pc = [o \in Orders |-> "idle"]
    /\ ret = [o \in Orders |-> NoOid]
    /\ owner = [i \in OutsideIds |-> NoOrder]
    /\ book = [i \in OutsideIds |-> "free"]
    /\ log = [i \in OutsideIds |-> <<>>]
    /\ objCh = <<>>
    /\ cache = [i \in OutsideIds |-> Absent]
    /\ parked = [i \in OutsideIds |-> <<>>]
    /\ now = 1
    /\ confirmed = [i \in OutsideIds |-> NoOrder]
    /\ refused = {}
    /\ feed = [i \in OutsideIds |-> <<>>]

-----------------------------------------------------------------------------
(* A client's read goroutine: OnRead -> ClientService.InsertOrder.          *)

\* The request is decoded and converted and the REST call leaves.
InsertOrder(o) ==
    /\ pc[o] = "idle"
    /\ pc' = [pc EXCEPT ![o] = "calling"]
    /\ UNCHANGED <<ret, exchangeVars, objCh, now, hubVars>>

\* Decoding, the conversion or the REST call fails: ResponseError.
InsertFailed(o) ==
    /\ pc[o] \in {"idle", "calling"}
    /\ pc' = [pc EXCEPT ![o] = "failed"]
    /\ UNCHANGED <<ret, exchangeVars, objCh, now, hubVars>>

\* HttpRequst returns: the order_id of the reply is taken as it is, whether
\* its "result" field is true or not (an order not accepted has none).
RestReturn(o, i) ==
    /\ pc[o] = "calling"
    /\ IF i = NoOid THEN \A j \in OutsideIds : owner[j] # o ELSE owner[i] = o
    /\ ret' = [ret EXCEPT ![o] = i]
    /\ pc' = [pc EXCEPT ![o] = "replied"]
    /\ UNCHANGED <<exchangeVars, objCh, now, hubVars>>

\* Mutant: outsideOrderId is one variable for all requests.
PushConfirmSharedId(o) ==
    /\ pc[o] = "replied"
    /\ Len(objCh) < ChanCap
    /\ \E p \in Orders : pc[p] = "replied" /\
         objCh' = Append(objCh, [type |-> "confirmorder", order |-> o, oid |-> ret[p]])
    /\ pc' = [pc EXCEPT ![o] = "answered"]
    /\ UNCHANGED <<ret, exchangeVars, now, hubVars>>

\* Hub.ObjectMessageChannel <- confirmorder, blocking while it is full.
PushConfirm(o) ==
    /\ pc[o] = "replied"
    /\ Len(objCh) < ChanCap
    /\ objCh' = Append(objCh, [type |-> "confirmorder", order |-> o, oid |-> ret[o]])
    /\ pc' = [pc EXCEPT ![o] = "answered"]
    /\ UNCHANGED <<ret, exchangeVars, now, hubVars>>

-----------------------------------------------------------------------------
(* The exchange, and the goroutine that reads its websocket.                *)

\* The exchange opens an order, for a request in flight or for somebody else
\* who trades on the same account.
ExchangeAccept(i, o) ==
    /\ book[i] = "free"
    /\ o # NoOrder => pc[o] = "calling" /\ \A j \in OutsideIds : owner[j] # o
    /\ owner' = [owner EXCEPT ![i] = o]
    /\ book' = [book EXCEPT ![i] = "live"]
    /\ UNCHANGED <<pc, ret, log, objCh, now, hubVars>>

\* TradeApi.OnRead -> OnOrder: a status arrives and is pushed. A terminal one
\* is the last of its order.
OnOrder(i, s) ==
    /\ book[i] = "live"
    /\ s \in LiveStatus => Len(log[i]) + 1 < MaxStatus
    /\ Len(objCh) < ChanCap
    /\ log' = [log EXCEPT ![i] = Append(@, s)]
    /\ book' = [book EXCEPT ![i] = IF s \in DeadStatus THEN "closed" ELSE @]
    /\ objCh' = Append(objCh, [type   |-> "orderstatus",
                               status |-> [oid |-> i, n |-> Len(log[i]) + 1, status |-> s]])
    /\ UNCHANGED <<pc, ret, owner, now, hubVars>>

\* The order ends while the websocket is down, or in a state that
\* ConvertOrderTradeOkex2Common rejects: the gateway never hears of it.
StatusLost(i) ==
    /\ book[i] = "live"
    /\ book' = [book EXCEPT ![i] = "closed"]
    /\ UNCHANGED <<pc, ret, owner, log, objCh, now, hubVars>>

-----------------------------------------------------------------------------
(* The hub goroutine.                                                       *)

Cached(i) == cache[i] # Absent

\* OrderCacheManager.AddCache: an empty or a repeated id is an error.
AddCache(o, i) ==
    IF i = NoOid THEN cache ELSE IF Cached(i) THEN cache
    ELSE [cache EXCEPT ![i] = [order |-> o, ts |-> 0]]

\* Mutant: every status is stamped.
UpdateOrderStatusAny(i, s) ==
    IF Cached(i) THEN [cache EXCEPT ![i].ts = now] ELSE cache

\* OrderCacheManager.UpdateOrderStatus: only a terminal status is stamped.
UpdateOrderStatus(i, s) ==
    IF Cached(i) /\ s \in Terminal THEN [cache EXCEPT ![i].ts = now] ELSE cache

\* A status with the client's ids filled in, ready for BroadcastMsg.
Fill(o, st) == [order |-> o, n |-> st.n, status |-> st.status]

\* Mutant: the parked statuses are forgotten, not replayed.
OnConfirmOrderNoReplay(m) ==
    /\ cache' = AddCache(m.order, m.oid)
    /\ IF m.oid = NoOid
       THEN /\ refused' = refused \cup {m.order}
            /\ UNCHANGED <<confirmed, feed, parked>>
       ELSE /\ UNCHANGED <<refused, feed>>
            /\ confirmed' = [confirmed EXCEPT ![m.oid] = m.order]
            /\ parked' = [parked EXCEPT ![m.oid] = <<>>]

\* Mutant: an error of AddCache also ends OnConfirmOrder.
OnConfirmOrderStopsOnError(m) ==
    IF m.oid = NoOid THEN UNCHANGED hubVars ELSE OnConfirmOrderNoReplay(m)

\* OnConfirmOrder caches and broadcasts the confirmation (also when AddCache
\* fails), then replays and forgets the statuses parked for its id.
OnConfirmOrder(m) ==
    /\ cache' = AddCache(m.order, m.oid)
    /\ IF m.oid = NoOid
       THEN /\ refused' = refused \cup {m.order}
            /\ UNCHANGED <<confirmed, feed, parked>>
       ELSE /\ UNCHANGED refused
            /\ confirmed' = [confirmed EXCEPT ![m.oid] = m.order]
            /\ feed' = [feed EXCEPT ![m.oid] =
                   @ \o [k \in 1..Len(parked[m.oid]) |-> Fill(m.order, parked[m.oid][k])]]
            /\ parked' = [parked EXCEPT ![m.oid] = <<>>]

\* OnOrderTrade parks the status of an id that is not cached, and otherwise
\* broadcasts it with the cached ids and updates the cache.
OnOrderTrade(m) ==
    LET st == m.status  i == m.status.oid IN
    /\ IF Cached(i)
       THEN /\ feed' = [feed EXCEPT ![i] = Append(@, Fill(cache[i].order, st))]
            /\ cache' = UpdateOrderStatus(i, st.status)
            /\ UNCHANGED parked
       ELSE /\ parked' = [parked EXCEPT ![i] = Append(@, st)]
            /\ UNCHANGED <<cache, feed>>
    /\ UNCHANGED <<confirmed, refused>>

\* OnHubObjectMessage dispatches the oldest object of the channel.
OnHubObjectMessage ==
    /\ objCh # <<>>
    /\ objCh' = Tail(objCh)
    /\ \/ Head(objCh).type = "confirmorder" /\ OnConfirmOrder(Head(objCh))
       \/ Head(objCh).type = "orderstatus" /\ OnOrderTrade(Head(objCh))
    /\ UNCHANGED <<pc, ret, exchangeVars, now>>

Expired(e) == e.ts > 0 /\ now - e.ts > Expire

\* The hub takes a timer_ticker: CleanExpire drops the finished orders whose
\* stamp is too old. The ticker's period is not tied to the clock.
OnTimerTicker ==
    /\ cache' = [i \in OutsideIds |-> IF Expired(cache[i]) THEN Absent ELSE cache[i]]
    /\ UNCHANGED <<pc, ret, exchangeVars, objCh, now, parked, confirmed, refused, feed>>

\* A second passes.
Clock ==
    /\ now < MaxTime
    /\ now' = now + 1
    /\ UNCHANGED <<pc, ret, exchangeVars, objCh, hubVars>>

-----------------------------------------------------------------------------
Client(o) ==
    \/ InsertOrder(o)
    \/ InsertFailed(o)
    \/ \E i \in OutsideIds \cup {NoOid} : RestReturn(o, i)
    \/ PushConfirm(o)

Exchange(i) ==
    \/ \E o \in Orders \cup {NoOrder} : ExchangeAccept(i, o)
    \/ \E s \in LiveStatus \cup DeadStatus : OnOrder(i, s)
    \/ StatusLost(i)

Next ==
    \/ \E o \in Orders : Client(o)
    \/ \E i \in OutsideIds : Exchange(i)
    \/ OnHubObjectMessage
    \/ OnTimerTicker
    \/ Clock

\* The hub goroutine never stops taking messages and the ticker never stops
\* ticking; a read goroutine that started an insert finishes it: the HTTP
\* client has a timeout of 45 seconds, and the hub drains the channel. Several
\* goroutines compete for the channel, which Go serves in order of arrival,
\* hence strong fairness of the push. Neither a client nor the exchange owes
\* the gateway a step.
Fairness ==
    /\ WF_vars(OnHubObjectMessage)
    /\ WF_vars(OnTimerTicker)
    /\ WF_vars(Clock)
    /\ \A o \in Orders :
        /\ WF_vars(pc[o] = "calling" /\
                   (InsertFailed(o) \/ \E i \in OutsideIds \cup {NoOid} : RestReturn(o, i)))
        /\ SF_vars(PushConfirm(o))

Spec == Init /\ [][Next]_vars
FairSpec == Spec /\ Fairness

-----------------------------------------------------------------------------
(* Properties.                                                              *)

LastStatus(i) == feed[i][Len(feed[i])].status

\* "orderstatus" never goes out for an id before the "confirmorder" that tells
\* the clients whose order it is: what OrderTradeCache is for.
ConfirmedFirst ==
    \A i \in OutsideIds : feed[i] # <<>> => confirmed[i] # NoOrder

\* Confirmations and statuses name the order the exchange holds under the id:
\* ids of two clients are never mixed up, nor foreign orders given to a client.
OwnIds ==
    \A i \in OutsideIds :
        /\ confirmed[i] \in {NoOrder, owner[i]}
        /\ \A k \in 1..Len(feed[i]) : feed[i][k].order = owner[i]

\* The statuses of an order are broadcast exactly once each and in the order
\* in which OKEx sent them, whether they overtook the confirmation or not.
FeedInOrder ==
    \A i \in OutsideIds :
        /\ Len(feed[i]) <= Len(log[i])
        /\ \A k \in 1..Len(feed[i]) : feed[i][k].n = k /\ feed[i][k].status = log[i][k]

\* OnConfirmOrder leaves nothing behind: an order in the cache has no status
\* parked, which would otherwise be replayed late or never.
NoneParkedForCached ==
    \A i \in OutsideIds : Cached(i) => parked[i] = <<>>

\* The cleaner forgets an order only when its last status was broadcast and
\* none is left to broadcast: no later status can miss its ids.
ForgottenOnlyWhenFinished ==
    [][\A i \in OutsideIds :
         Cached(i) /\ ~Cached(i)' =>
            /\ feed[i] # <<>> /\ LastStatus(i) \in Terminal
            /\ Len(feed[i]) = Len(log[i])]_vars

\* A request that left for the exchange is answered: by an error, or by a
\* confirmation broadcast with or without an outside id.
InsertAnswered ==
    \A o \in Orders :
        pc[o] = "calling" ~> \/ pc[o] = "failed"
                             \/ o \in refused
                             \/ \E i \in OutsideIds : confirmed[i] = o

\* The gateway as a whole delivers what OrderFeed promises its clients.
Promise == INSTANCE OrderFeed WITH Ids <- OutsideIds, Nobody <- NoOrder,
                                   Statuses <- OrderStatus
ImplementsOrderFeed == Promise!FeedSpec

-----------------------------------------------------------------------------
(* The inductive invariant behind the safety properties.                    *)

\* The statuses of id i the hub has taken from the channel.
Taken(i) == Len(feed[i]) + Len(parked[i])

IsConfirm(m) == m.type = "confirmorder"
IsStatus(m, i) == m.type = "orderstatus" /\ m.status.oid = i

\* Who owns an id at the exchange, and what OnRead knows of it.
OwnersInv ==
    /\ \A i \in OutsideIds : book[i] = "free" => owner[i] = NoOrder /\ log[i] = <<>>
    /\ \A i, j \in OutsideIds : owner[i] = owner[j] /\ owner[i] # NoOrder => i = j
    /\ \A i \in OutsideIds : owner[i] # NoOrder => pc[owner[i]] # "idle"
    /\ \A o \in Orders : pc[o] \in {"replied", "answered"} /\ ret[o] # NoOid
                            => owner[ret[o]] = o

\* One confirmation per order, in the channel or already broadcast.
ConfirmInv ==
    /\ \A k \in 1..Len(objCh) : IsConfirm(objCh[k]) =>
         /\ pc[objCh[k].order] = "answered" /\ ret[objCh[k].order] = objCh[k].oid
         /\ objCh[k].oid # NoOid => confirmed[objCh[k].oid] = NoOrder
    /\ \A k, l \in 1..Len(objCh) :
         IsConfirm(objCh[k]) /\ IsConfirm(objCh[l]) /\ objCh[k].order = objCh[l].order
            => k = l
    /\ \A i \in OutsideIds : confirmed[i] # NoOrder =>
         confirmed[i] = owner[i] /\ pc[confirmed[i]] = "answered"

\* The feed f of an id owned by o, and then the statuses p parked for it, are
\* the beginning of its log h.
Accounted(o, f, p, h) ==
    /\ Len(f) + Len(p) <= Len(h)
    /\ \A k \in 1..Len(f) : f[k] = [order |-> o, n |-> k, status |-> h[k]]
    /\ \A k \in 1..Len(p) : p[k].n = Len(f) + k /\ p[k].status = h[Len(f) + k]

\* What the cache says of each id agrees with what was broadcast for it.
HubInv ==
    \A i \in OutsideIds :
        /\ confirmed[i] = NoOrder => feed[i] = <<>> /\ ~Cached(i)
        /\ Cached(i) => cache[i].order = confirmed[i] /\ parked[i] = <<>>
        /\ cache[i].ts > 0 => feed[i] # <<>> /\ LastStatus(i) \in Terminal

FeedInv == \A i \in OutsideIds : Accounted(owner[i], feed[i], parked[i], log[i])

\* Channel ch holds the statuses of id i from the t+1st of its log h to the
\* last, all of them and in order.
Underway(ch, i, t, h) ==
    /\ \A k \in 1..Len(ch) : IsStatus(ch[k], i) =>
         ch[k].status.n \in t+1..Len(h) /\ ch[k].status.status = h[ch[k].status.n]
    /\ \A n \in t+1..Len(h) : \E k \in 1..Len(ch) :
         IsStatus(ch[k], i) /\ ch[k].status.n = n
    /\ \A k, l \in 1..Len(ch) : IsStatus(ch[k], i) /\ IsStatus(ch[l], i) /\ k < l
         => ch[k].status.n < ch[l].status.n

ChannelInv == \A i \in OutsideIds : Underway(objCh, i, Taken(i), log[i])

\* A terminal status is the last of its id.
LogInv ==
    \A i \in OutsideIds : \A k \in 1..Len(log[i]) :
        log[i][k] \in Terminal => k = Len(log[i]) /\ book[i] = "closed"

\* The hub's maps, the channel and the broadcasts together account for every
\* request and every status, at any moment of any interleaving.
IInv == TypeOK /\ OwnersInv /\ ConfirmInv /\ HubInv /\ FeedInv /\ ChannelInv /\ LogInv
=============================================================================
