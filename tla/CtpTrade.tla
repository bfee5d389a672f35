------------------------------- MODULE CtpTrade -------------------------------
(***************************************************************************)
(* Orders in the CTP trade gateway: how the order a client inserts is tied *)
(* to the status and deal notifications CTP sends about it.                *)
(*                                                                         *)
(* Three threads take part:                                                *)
(*   - the message loop of WsService runs InsertOrder, one request at a    *)
(*     time, and records the order under its reference and the session;    *)
(*   - the callback thread of the CTP API answers, writes notifications    *)
(*     to tunnel_ and fills and clears the connection information;         *)
(*   - AsyncLoop reads tunnel_ in batches, confirms the recorded orders,   *)
(*     keeps a map from outside ids to orders, and cleans that map.        *)
(***************************************************************************)
EXTENDS Integers, Sequences, FiniteSets

CONSTANTS
    Orders,       \* the insert_order requests; each has its own order_ref_
    SysIds,       \* the OrderSysIDs the exchange may assign
    NoSys,        \* the empty OrderSysID
    NoOrder,      \* no client order: somebody else's, or ids left empty
    Keep,         \* seconds a completed order stays in outside_order_maps_
    CleanEvery,   \* reads of the tunnel between two cleanings
    Status,       \* the CTP order statuses that occur
    Submit,       \* the CTP submit statuses that occur
    MaxSession,   \* bound on the logins
    MaxNotify,    \* bound on the notifications of CTP
    MaxTime       \* bound on the clock

\* ConvertOrderStatusCTP2Common
ConvertOrderStatus(s) ==
    CASE s = "PartTradedQueueing"    -> "PartDealed"
      [] s = "PartTradedNotQueueing" -> "PartCanceled"
      [] s = "AllTraded"             -> "AllDealed"
      [] s = "Canceled"              -> "Canceled"
      [] OTHER                       -> "Unknown"

\* ConvertOrderSubmitStatusCTP2Common
ConvertOrderSubmitStatus(s) ==
    CASE s \in {"InsertSubmitted", "CancelSubmitted", "ModifySubmitted"} -> "Submitted"
      [] s = "Accepted"                                                 -> "Accepted"
      [] s \in {"InsertRejected", "CancelRejected", "ModifyRejected"}   -> "Rejected"
      [] OTHER                                                          -> "Unknown"

ASSUME CtpTradeAssumption ==
    /\ NoSys \notin SysIds
    /\ NoOrder \notin Orders
    /\ "Accepted" \in Submit
    /\ Keep \in Nat /\ CleanEvery \in Nat \ {0}
    /\ MaxSession \in Nat \ {0} /\ MaxNotify \in Nat /\ MaxTime \in Nat

VARIABLES
    req,        \* where InsertOrder stands for each request
    ready,      \* api_ready_
    session,    \* ctp_front_id_ and ctp_session_id_ together; 0 when cleared
    wait,       \* wait_deal_orders_: pairs of an order and the session of its key
    tunnel,     \* tunnel_, the batch that AsyncLoop has read included
    batch,      \* how many messages of its batch AsyncLoop still has to handle
    cnt,        \* reads since ClearOrderInfoMap was called
    maps,       \* outside_order_maps_
    now,        \* time(NULL)
    link,       \* CTP: the session of the connection, 0 while it is down
    logins,     \* CTP: how many sessions there have been
    sent,       \* CTP: the session in which each order came in, 0 if it did not
    book,       \* CTP: the order of each OrderSysID and whether it is alive
    told,       \* CTP: which orders were answered, by a rejection or an id
    notified,   \* CTP: notifications sent so far
    cancelRejected, \* CTP: the ids for which a cancel or a change was rejected
    confirms,   \* how many confirmorder messages with the client's ids each order got
    unnamed,    \* the orders of which a confirmorder was broadcast without these ids
    last        \* the last orderstatus or orderdeal broadcast

clientVars  == <<req, wait>>
sessionVars == <<ready, session, link, logins>>
loopVars    == <<batch, cnt, maps>>
ctpVars     == <<sent, book, told, notified, cancelRejected>>
sayVars     == <<confirms, unnamed, last>>
vars == <<clientVars, sessionVars, tunnel, loopVars, now, ctpVars, sayVars>>

Sessions == 0..MaxSession

StatusMsg == [type : {"status"}, order : Orders \cup {NoOrder}, session : Sessions,
              sys : SysIds \cup {NoSys}, status : Status, submit : Submit]
DealMsg   == [type : {"deal"}, sys : SysIds]

\* An OrderMapInfo; ts is completed_ts.
Absent   == [order |-> NoOrder, ts |-> 0]
MapEntry == [order : Orders, ts : Nat]

Nothing == [msg |-> "none"]

TypeOK ==
    /\ req \in [Orders -> {"idle", "checked", "recorded", "sent", "failed"}]
    /\ ready \in BOOLEAN /\ session \in Sessions /\ link \in Sessions /\ logins \in Sessions
    /\ wait \in SUBSET (Orders \X Sessions)
    /\ tunnel \in Seq(StatusMsg \cup DealMsg)
    /\ batch \in 0..Len(tunnel) /\ cnt \in 0..CleanEvery - 1
    /\ maps \in [SysIds -> MapEntry \cup {Absent}]
    /\ now \in Nat
    /\ sent \in [Orders -> Sessions]
    /\ book \in [SysIds -> [order : Orders \cup {NoOrder}, state : {"free", "live", "done"}]]
    /\ told \in SUBSET Orders /\ notified \in 0..MaxNotify
    /\ cancelRejected \in SUBSET SysIds
    /\ confirms \in [Orders -> Nat] /\ unnamed \in SUBSET Orders
    /\ last \in {Nothing}
         \cup [msg : {"orderstatus"}, sys : SysIds \cup {NoSys}, order : Orders \cup {NoOrder},
               submit : {"Unknown", "Submitted", "Accepted", "Rejected"}]
         \cup [msg : {"orderdeal"}, sys : SysIds, order : Orders \cup {NoOrder}]

Init ==
    /\ req = [o \in Orders |-> "idle"] /\ wait = {}
    /\ ready = TRUE /\ session = 1 /\ link = 1 /\ logins = 1
    /\ tunnel = <<>> /\ batch = 0 /\ cnt = 0
    /\ maps = [x \in SysIds |-> Absent]
    /\ now = 1
    /\ sent = [o \in Orders |-> 0]
    /\ book = [x \in SysIds |-> [order |-> NoOrder, state |-> "free"]]
    /\ told = {} /\ notified = 0 /\ cancelRejected = {}
    /\ confirms = [o \in Orders |-> 0] /\ unnamed = {}
    /\ last = Nothing

-----------------------------------------------------------------------------
(* The message loop: CTPTradeHandler::InsertOrder.                          *)

\* api_ready_ is read without a lock, once, at the start.
CheckReady(o) ==
    /\ req[o] = "idle"
    /\ \A p \in Orders : req[p] \notin {"checked", "recorded"}
    /\ req' = [req EXCEPT ![o] = IF ready THEN "checked" ELSE "failed"]
    /\ UNCHANGED <<wait, sessionVars, tunnel, loopVars, now, ctpVars, sayVars>>

\* ConvertInsertOrderCommon2CTP throws: a field is missing or not supported.
ConvertFailed(o) ==
    /\ req[o] = "checked"
    /\ req' = [req EXCEPT ![o] = "failed"]
    /\ UNCHANGED <<wait, sessionVars, tunnel, loopVars, now, ctpVars, sayVars>>

\* RecordOrder, with the front and session as they are now.
RecordOrder(o) ==
    /\ req[o] = "checked"
    /\ wait' = wait \cup {<<o, session>>}
    /\ req' = [req EXCEPT ![o] = "recorded"]
    /\ UNCHANGED <<sessionVars, tunnel, loopVars, now, ctpVars, sayVars>>

\* Mutant of ReqOrderInsert: the order may go out before it is recorded.
ReqOrderInsertUnrecorded(o) ==
    /\ req[o] \in {"checked", "recorded"} /\ link # 0
    /\ sent' = [sent EXCEPT ![o] = link]
    /\ req' = [req EXCEPT ![o] = "sent"]
    /\ UNCHANGED <<wait, sessionVars, tunnel, loopVars, now,
                   book, told, notified, cancelRejected, sayVars>>

\* ReqOrderInsert hands the order to CTP.
ReqOrderInsert(o) ==
    /\ req[o] = "recorded" /\ link # 0
    /\ sent' = [sent EXCEPT ![o] = link]
    /\ req' = [req EXCEPT ![o] = "sent"]
    /\ UNCHANGED <<wait, sessionVars, tunnel, loopVars, now,
                   book, told, notified, cancelRejected, sayVars>>

\* ReqOrderInsert returns an error: no connection, or too many requests.
ReqOrderInsertFailed(o) ==
    /\ req[o] = "recorded"
    /\ wait' = wait \ {<<o, session>>}
    /\ req' = [req EXCEPT ![o] = "failed"]
    /\ UNCHANGED <<sessionVars, tunnel, loopVars, now, ctpVars, sayVars>>

-----------------------------------------------------------------------------
(* CTP and its callback thread.                                             *)

\* The connection breaks; the callback comes later.
LinkLost ==
    /\ link # 0 /\ logins < MaxSession
    /\ link' = 0
    /\ UNCHANGED <<clientVars, ready, session, logins, tunnel, loopVars, now, ctpVars, sayVars>>

\* OnFrontDisconnected: ClearConnectionInfo.
OnFrontDisconnected ==
    /\ link = 0 /\ session # 0
    /\ ready' = FALSE /\ session' = 0
    /\ UNCHANGED <<clientVars, link, logins, tunnel, loopVars, now, ctpVars, sayVars>>

\* The connection is back, OnFrontConnected and OnRspAuthenticate log in, and
\* OnRspUserLogin brings the new session: FillConnectionInfo.
OnRspUserLogin ==
    /\ link = 0 /\ session = 0 /\ logins < MaxSession
    /\ logins' = logins + 1 /\ link' = logins' /\ session' = logins' /\ ready' = TRUE
    /\ UNCHANGED <<clientVars, tunnel, loopVars, now, ctpVars, sayVars>>

\* OnRspOrderInsert: CTP rejects the order before it reaches the exchange. The
\* record is looked up under the gateway's session of now; the confirmorder is
\* broadcast, with no ids of the client's, even if there is none.
OnRspOrderInsert(o) ==
    /\ sent[o] # 0 /\ sent[o] = link /\ session = link
    /\ o \notin told
    /\ told' = told \cup {o}
    /\ wait' = wait \ {<<o, session>>}
    /\ confirms' = [confirms EXCEPT ![o] = IF <<o, session>> \in wait THEN @ + 1 ELSE @]
    /\ unnamed' = IF <<o, session>> \in wait THEN unnamed ELSE unnamed \cup {o}
    /\ UNCHANGED <<req, sessionVars, tunnel, loopVars, now, sent, book, notified,
                   cancelRejected, last>>

\* What CTP tells while the connection is up is written to tunnel_, by OnRtnOrder
\* and OnRtnTrade; the rest is lost (the topics are subscribed as QUICK).
Notify(m) ==
    /\ notified < MaxNotify
    /\ notified' = notified + 1
    /\ tunnel' = IF link # 0 THEN Append(tunnel, m) ELSE tunnel

StatusOf(x, s, b) ==
    [type |-> "status", order |-> book[x].order,
     session |-> IF book[x].order = NoOrder THEN 0 ELSE sent[book[x].order],
     sys |-> x, status |-> s, submit |-> b]

\* OnRtnOrder before there is an OrderSysID: the order is on its way to the
\* exchange, or the exchange rejects it.
RtnOrderNoSys(o, s, b) ==
    /\ sent[o] # 0 /\ o \notin told
    /\ <<s, b>> \in {<<"Unknown", "InsertSubmitted">>, <<"Canceled", "InsertRejected">>}
    /\ told' = IF s = "Canceled" THEN told \cup {o} ELSE told
    /\ Notify([type |-> "status", order |-> o, session |-> sent[o],
               sys |-> NoSys, status |-> s, submit |-> b])
    /\ UNCHANGED <<clientVars, sessionVars, loopVars, now, sent, book, cancelRejected, sayVars>>

Final == {"AllTraded", "Canceled", "PartTradedNotQueueing", "NoTradeNotQueueing"}

\* OnRtnOrder with which an order appears at the exchange: a client's that was
\* sent, or one that somebody else placed for the same account.
RtnOrderNew(x, o, s) ==
    /\ book[x].state = "free"
    /\ o # NoOrder => sent[o] # 0 /\ o \notin told
    /\ told' = told \cup ({o} \ {NoOrder})
    /\ book' = [book EXCEPT ![x] = [order |-> o, state |-> IF s \in Final THEN "done" ELSE "live"]]
    /\ Notify([type |-> "status", order |-> o, session |-> IF o = NoOrder THEN 0 ELSE sent[o],
               sys |-> x, status |-> s, submit |-> "Accepted"])
    /\ UNCHANGED <<clientVars, sessionVars, loopVars, now, sent, cancelRejected, sayVars>>

\* OnRtnOrder for an order at the exchange.
RtnOrder(x, s, b) ==
    /\ book[x].state = "live"
    /\ b \in Submit \ {"InsertSubmitted", "InsertRejected"}
    /\ book' = [book EXCEPT ![x].state = IF s \in Final THEN "done" ELSE @]
    /\ cancelRejected' = IF ConvertOrderSubmitStatus(b) = "Rejected"
                         THEN cancelRejected \cup {x} ELSE cancelRejected
    /\ Notify(StatusOf(x, s, b))
    /\ UNCHANGED <<clientVars, sessionVars, loopVars, now, sent, told, sayVars>>

\* OnRtnTrade
RtnTrade(x) ==
    /\ book[x].state # "free"
    /\ Notify([type |-> "deal", sys |-> x])
    /\ UNCHANGED <<clientVars, sessionVars, loopVars, now, sent, book, told,
                   cancelRejected, sayVars>>

-----------------------------------------------------------------------------
(* AsyncLoop.                                                               *)

\* tunnel_.Read takes everything there is.
TunnelRead ==
    /\ batch = 0 /\ tunnel # <<>>
    /\ batch' = Len(tunnel)
    /\ UNCHANGED <<clientVars, sessionVars, tunnel, cnt, maps, now, ctpVars, sayVars>>

\* The statuses CacheOrderInfoMap refuses, and those that complete an entry.
Completes(s, b) ==
    \/ ConvertOrderSubmitStatus(b) = "Rejected"
    \/ ConvertOrderStatus(s) \in {"AllDealed", "Canceled"}

\* CacheOrderInfoMap
CacheOrderInfoMap(m) ==
    IF m.sys # NoSys /\ ~Completes(m.status, m.submit)
    THEN [maps EXCEPT ![m.sys] = [order |-> m.order, ts |-> 0]]
    ELSE maps

\* Mutant of StampOrderInfoMap: every status is stamped.
StampOrderInfoMapAny(m) ==
    IF m.sys # NoSys /\ maps[m.sys] # Absent
    THEN [maps EXCEPT ![m.sys].ts = now]
    ELSE maps

\* GetOrderInfoMap(order, order_status): a completing status is stamped, each
\* time it comes.
StampOrderInfoMap(m) ==
    IF m.sys # NoSys /\ maps[m.sys] # Absent /\ Completes(m.status, m.submit)
    THEN [maps EXCEPT ![m.sys].ts = now]
    ELSE maps

\* The client ids GetOrderInfoMap finds under an outside id.
IdsOf(x) == IF x = NoSys THEN NoOrder ELSE maps[x].order

Dropped(m) == m.sys = NoSys /\ m.status = "Unknown"
Recorded(m) == <<m.order, m.session>> \in wait

\* Mutant of OnOrderStatus: the record is looked up and stays.
OnOrderStatusKeepsRecord(m) ==
    IF Dropped(m) THEN UNCHANGED <<wait, sayVars>>
    ELSE /\ confirms' = IF Recorded(m) THEN [confirms EXCEPT ![m.order] = @ + 1] ELSE confirms
         /\ last' = [msg |-> "orderstatus", sys |-> m.sys,
                     order |-> IF Recorded(m) THEN m.order ELSE IdsOf(m.sys),
                     submit |-> ConvertOrderSubmitStatus(m.submit)]
         /\ UNCHANGED <<wait, unnamed>>

\* OnOrderStatus: the first status that counts confirms the order.
OnOrderStatus(m) ==
    IF Dropped(m) THEN UNCHANGED <<wait, sayVars>>
    ELSE /\ wait' = wait \ {<<m.order, m.session>>}
         /\ confirms' = IF Recorded(m) THEN [confirms EXCEPT ![m.order] = @ + 1] ELSE confirms
         /\ last' = [msg |-> "orderstatus", sys |-> m.sys,
                     order |-> IF Recorded(m) THEN m.order ELSE IdsOf(m.sys),
                     submit |-> ConvertOrderSubmitStatus(m.submit)]
         /\ UNCHANGED unnamed

\* OnOrderDeal
OnOrderDeal(m) ==
    /\ last' = [msg |-> "orderdeal", sys |-> m.sys, order |-> IdsOf(m.sys)]
    /\ UNCHANGED <<wait, confirms, unnamed>>

\* What either leaves in outside_order_maps_.
MapsAfter(m) ==
    CASE m.type = "deal" -> maps
      [] m.type = "status" /\ Recorded(m) /\ ~Dropped(m) -> CacheOrderInfoMap(m)
      [] OTHER -> StampOrderInfoMap(m)

\* ClearOrderInfoMap, of map f
ClearOrderInfoMap(f) ==
    [x \in SysIds |-> IF f[x].ts # 0 /\ now - f[x].ts > Keep THEN Absent ELSE f[x]]

\* AsyncLoop handles one message; after the last of a batch it counts the read
\* and cleans the map every so often.
AsyncLoop ==
    /\ batch > 0
    /\ LET m == Head(tunnel)
           clean == batch = 1 /\ cnt + 1 >= CleanEvery IN
       /\ IF m.type = "status" THEN OnOrderStatus(m) ELSE OnOrderDeal(m)
       /\ maps' = IF clean THEN ClearOrderInfoMap(MapsAfter(m)) ELSE MapsAfter(m)
       /\ cnt' = IF clean THEN 0 ELSE IF batch = 1 THEN cnt + 1 ELSE cnt
    /\ tunnel' = Tail(tunnel) /\ batch' = batch - 1
    /\ UNCHANGED <<req, sessionVars, now, ctpVars>>

Clock ==
    /\ now < MaxTime
    /\ now' = now + 1
    /\ UNCHANGED <<clientVars, sessionVars, tunnel, loopVars, ctpVars, sayVars>>

-----------------------------------------------------------------------------
MessageLoop(o) ==
    \/ CheckReady(o) \/ ConvertFailed(o) \/ RecordOrder(o)
    \/ ReqOrderInsert(o) \/ ReqOrderInsertFailed(o)

Callback ==
    \/ OnFrontDisconnected \/ OnRspUserLogin
    \/ \E o \in Orders : OnRspOrderInsert(o)
    \/ \E o \in Orders, s \in Status, b \in Submit : RtnOrderNoSys(o, s, b)
    \/ \E x \in SysIds, o \in Orders \cup {NoOrder}, s \in Status : RtnOrderNew(x, o, s)
    \/ \E x \in SysIds, s \in Status, b \in Submit : RtnOrder(x, s, b)
    \/ \E x \in SysIds : RtnTrade(x)

Next ==
    \/ \E o \in Orders : MessageLoop(o)
    \/ LinkLost
    \/ Callback
    \/ TunnelRead \/ AsyncLoop
    \/ Clock

Spec == Init /\ [][Next]_vars

-----------------------------------------------------------------------------
(* Properties.                                                              *)

OwnerOf(x) == IF x = NoSys THEN NoOrder ELSE book[x].order

\* Two threads broadcast confirmorder, OnRspOrderInsert and OnOrderStatus: an
\* order is never confirmed by both, nor twice by one.
ConfirmedOnce == \A o \in Orders : confirms[o] <= 1

\* A status or a deal never carries the ids of another client's order, and it
\* carries ids only after the confirmorder of that order.
IdsAreOwn ==
    last # Nothing /\ last.order # NoOrder =>
        /\ confirms[last.order] = 1
        /\ last.sys # NoSys => last.order = OwnerOf(last.sys)

\* AsyncLoop forgets an outside id only when its order is over at the exchange
\* or the exchange rejected a cancel of it (which counts as completed).
ForgottenWhenOver ==
    [][\A x \in SysIds : maps[x] # Absent /\ maps'[x] = Absent =>
          book[x].state = "done" \/ x \in cancelRejected]_vars

\* A client knows its order by the confirmorder before any status of it comes,
\* unless the order was recorded under another session than it was sent in.
ConfirmedInSession ==
    last # Nothing /\ last.msg = "orderstatus" /\ OwnerOf(last.sys) # NoOrder =>
        LET o == OwnerOf(last.sys) IN
        confirms[o] = 1 \/ \E s \in Sessions \ {sent[o]} : <<o, s>> \in wait

\* It does so always ("after an order is received there is a confirm message that
\* ties the ids").
ConfirmedBeforeStatus ==
    last # Nothing /\ last.msg = "orderstatus" /\ OwnerOf(last.sys) # NoOrder =>
        confirms[OwnerOf(last.sys)] = 1

-----------------------------------------------------------------------------
(* The inductive invariant behind the safety properties.                    *)

\* The record of InsertOrder is made once, and gone when the order was confirmed.
RecordOnce ==
    /\ \A o \in Orders : req[o] \in {"idle", "checked"} =>
          confirms[o] = 0 /\ \A s \in Sessions : <<o, s>> \notin wait
    /\ \A o \in Orders, s \in Sessions, t \in Sessions :
          <<o, s>> \in wait /\ <<o, t>> \in wait => s = t
    /\ \A o \in Orders, s \in Sessions : <<o, s>> \in wait => confirms[o] = 0

\* The exchange gave id x to an order; the order is over, or a change of it was
\* rejected, which the gateway takes for the same.
Taken(x) == book[x].state # "free"
Over(x)  == book[x].state = "done" \/ x \in cancelRejected

\* What is in tunnel_ is of the order the exchange has under its id.
TunnelOwn ==
    \A i \in DOMAIN tunnel : LET m == tunnel[i] IN
        m.sys # NoSys =>
            /\ Taken(m.sys)
            /\ m.type = "status" => /\ m.order = OwnerOf(m.sys)
                                    /\ Completes(m.status, m.submit) => Over(m.sys)

\* So is an entry of the map, which is made when the order is confirmed, and
\* stamped by a status that ends it.
MapsOwn ==
    \A x \in SysIds : maps[x] # Absent =>
        /\ Taken(x)
        /\ maps[x].order = book[x].order /\ confirms[maps[x].order] = 1
        /\ maps[x].ts # 0 => Over(x)

LastOwn == last # Nothing /\ last.sys # NoSys => Taken(last.sys)

\* An order that went out is recorded until it is confirmed, and CTP tells of it
\* under the session it went out in.
SentOwn ==
    /\ \A o \in Orders : req[o] = "sent" <=> sent[o] # 0
    /\ \A o \in Orders : req[o] \in {"recorded", "sent"} =>
          confirms[o] = 1 \/ \E s \in Sessions : <<o, s>> \in wait
    /\ \A x \in SysIds : book[x].order # NoOrder => sent[book[x].order] # 0
    /\ \A i \in DOMAIN tunnel : LET m == tunnel[i] IN
          m.type = "status" /\ m.order # NoOrder => sent[m.order] # 0 /\ m.session = sent[m.order]

\* An order is confirmed only after CTP answered it: the status or the rejection that
\* does it is CTP's answer, and what is in tunnel_ is of an order that has one.
AnsweredFirst ==
    /\ \A o \in Orders : confirms[o] = 1 => o \in told
    /\ \A x \in SysIds : book[x].order # NoOrder => book[x].order \in told
    /\ \A i \in DOMAIN tunnel : LET m == tunnel[i] IN
          m.type = "status" /\ m.order # NoOrder /\ ~Dropped(m) => m.order \in told

\* Only an order that was recorded under another session than it was sent in gets a
\* confirmorder without the client's ids; it stays recorded, and gets no other one.
UnnamedIsMisfiled ==
    \A o \in unnamed :
        /\ sent[o] # 0 /\ o \in told /\ confirms[o] = 0
        /\ \E s \in Sessions \ {sent[o]} : <<o, s>> \in wait

\* Records, tunnel, map and exchange tell the same of every order and every id.
Inv == TypeOK /\ RecordOnce /\ ConfirmedOnce /\ TunnelOwn /\ MapsOwn /\ LastOwn /\ IdsAreOwn
          /\ SentOwn /\ AnsweredFirst /\ UnnamedIsMisfiled
=============================================================================
