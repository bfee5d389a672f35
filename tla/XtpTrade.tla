------------------------------- MODULE XtpTrade -------------------------------
(***************************************************************************)
(* The XTP trade gateway: the orders and queries of clients under a        *)
(* session that the gateway itself renews.                                 *)
(*                                                                         *)
(* Two threads take part:                                                  *)
(*   - the message loop of WsService runs InsertOrder and Query*, one      *)
(*     message at a time; it alone draws order_ref_ and req_id_;           *)
(*   - the callback thread of the XTP API brings order events, trades and  *)
(*     query results, and after a disconnection stays in Reconn until a    *)
(*     login succeeds.                                                     *)
(* They share api_ready_ and xtp_session_id_ without a lock. Login is a    *)
(* synchronous call; the first one, in RunAPI, is over before any client   *)
(* can connect.                                                            *)
(*                                                                         *)
(* Abstracted: prices, amounts and the other fields of orders; the queries *)
(* differ in their kind and their identity, a row in the query XTP         *)
(* answers with it. CancelOrder changes nothing in the gateway.            *)
(***************************************************************************)
EXTENDS Integers, Sequences, FiniteSets, Functions

CONSTANTS
    Orders,      \* the insert_order messages
    Queries,     \* the query messages
    Clients,     \* the websockets of the clients
    Kinds,       \* order, trade, position, tradeaccount
    NoOrder,     \* somebody else's order, or none
    NoQuery,     \* a default-constructed query struct
    NoWs,        \* no client
    MaxMessage,  \* bound on the messages of the clients
    MaxLogin,    \* bound on the successful logins
    MaxEvent,    \* bound on the events of one order
    MaxForeign,  \* bound on the events of foreign orders
    MaxRows      \* bound on the rows of one result

ASSUME XtpTradeAssumption ==
    /\ NoOrder \notin Orders /\ NoQuery \notin Queries /\ NoWs \notin Clients
    /\ Orders \cap Queries = {} /\ NoOrder \notin Queries
    /\ MaxMessage \in Nat /\ MaxLogin \in Nat \ {0} /\ MaxEvent \in Nat /\ MaxForeign \in Nat /\ MaxRows \in Nat

VARIABLES
    api_ready,       \* api_ready_
    xtp_session_id,  \* xtp_session_id_; 0 after a login that failed
    reconn,          \* is the callback thread in Reconn
    at,              \* where the message loop stands
    cur,             \* the order or query it handles
    order_ref,       \* order_ref_
    ref,             \* the order_client_id of each order, 0 before it has one
    wait_deal,       \* wait_deal_orders_
    req_id,          \* req_id_
    qry_ws,          \* qry_ws_cache_
    qry,             \* qry_order_cache_ and its siblings, one per kind
    rsp,             \* rsp_qry_*_caches_, one per kind
    link,            \* XTP: is the session up
    logins,          \* XTP: the number of sessions it has given
    book,            \* XTP: the orders it has, those that are over, and the rest
    events,          \* XTP: how many events it sent about each order
    foreign,         \* XTP: the order_client_ids of the foreign orders it told of
    flight,          \* XTP: the queries it has to answer
    confirmed,       \* the outside ids each order was confirmed with, in order
    told,            \* the session in which its first status was broadcast, or 0
    refused,         \* how many errors were sent for each order
    recordedIn,      \* history: the session each order was recorded under
    asker,           \* who asked each query, of which kind
    delivered,       \* the results sent for each query
    errors           \* how many errors were sent for each query

loopVars  == <<at, cur>>
linkVars  == <<api_ready, xtp_session_id, reconn, link, logins>>
orderVars == <<order_ref, ref, wait_deal, book, events, foreign>>
feedVars  == <<confirmed, told, refused, recordedIn>>
cacheVars == <<req_id, qry_ws, qry, rsp>>
queryVars == <<cacheVars, flight, asker, delivered, errors>>
vars == <<loopVars, linkVars, orderVars, feedVars, queryVars>>

\* The std::maps of the gateway: m[k] = v, and m.erase(k).
Put(m, k, v) == [x \in DOMAIN m \cup {k} |-> IF x = k THEN v ELSE m[x]]
Drop(m, k)   == Restrict(m, DOMAIN m \ {k})
Empty        == [x \in {} |-> x]

NotAsked == [ws |-> NoWs, kind |-> NoWs]

\* The session and the message loop; the orders; the queries.
LinkType ==
    /\ api_ready \in BOOLEAN /\ reconn \in BOOLEAN /\ link \in BOOLEAN
    /\ xtp_session_id \in 0..MaxLogin /\ logins \in 1..MaxLogin
    /\ at \in {"read", "record", "insert", "clean", "query"}
    /\ cur \in Orders \cup Queries \cup {NoOrder}
    /\ at \in {"record", "insert", "clean"} => cur \in Orders
    /\ at = "query" => cur \in Queries
OrderType ==
    /\ order_ref \in Nat \ {0} /\ ref \in [Orders -> Nat]
    /\ wait_deal \subseteq [ref : Nat, session : 0..MaxLogin, order : Orders]
    /\ book \in [Orders -> {"none", "live", "over"}]
    /\ events \in [Orders -> 0..MaxEvent]
    /\ foreign \subseteq Nat
    /\ confirmed \in [Orders -> Seq(Orders \cup {NoOrder})]
    /\ told \in [Orders -> 0..MaxLogin]
    /\ refused \in [Orders -> Nat] /\ recordedIn \in [Orders -> 0..MaxLogin]
QueryType ==
    /\ req_id \in Nat
    /\ DOMAIN qry_ws \subseteq Nat /\ \A i \in DOMAIN qry_ws : qry_ws[i] \in Clients
    /\ DOMAIN qry = Kinds /\ DOMAIN rsp = Kinds
    /\ \A k \in Kinds :
          /\ DOMAIN qry[k] \subseteq Nat /\ \A i \in DOMAIN qry[k] : qry[k][i] \in Queries
          /\ DOMAIN rsp[k] \subseteq Nat /\ \A i \in DOMAIN rsp[k] : rsp[k][i] \in Seq(Queries)
    /\ flight \subseteq [id : Nat, query : Queries, rows : 0..MaxRows]
    /\ asker \in [Queries -> [ws : Clients, kind : Kinds] \cup {NotAsked}]
    /\ delivered \in [Queries \cup {NoQuery} -> Seq([to : Clients, rows : Seq(Queries)])]
    /\ errors \in [Queries -> Nat]
TypeOK == LinkType /\ OrderType /\ QueryType

\* RunAPI and RunService: the session is there before the clients.
Init ==
    /\ api_ready = TRUE /\ xtp_session_id = 1 /\ reconn = FALSE
    /\ link = TRUE /\ logins = 1
    /\ at = "read" /\ cur = NoOrder
    /\ order_ref = 1 /\ ref = [o \in Orders |-> 0] /\ wait_deal = {}
    /\ req_id = 1 /\ qry_ws = Empty
    /\ qry = [k \in Kinds |-> Empty] /\ rsp = [k \in Kinds |-> Empty]
    /\ book = [o \in Orders |-> "none"] /\ events = [o \in Orders |-> 0]
    /\ foreign = {} /\ flight = {}
    /\ confirmed = [o \in Orders |-> <<>>] /\ told = [o \in Orders |-> 0]
    /\ refused = [o \in Orders |-> 0] /\ recordedIn = [o \in Orders |-> 0]
    /\ asker = [q \in Queries |-> NotAsked]
    /\ delivered = [q \in Queries \cup {NoQuery} |-> <<>>]
    /\ errors = [q \in Queries |-> 0]

-----------------------------------------------------------------------------
(* The message loop: orders.                                                *)

\* The loop takes the next message, within the bound.
Idle ==
    /\ at = "read"
    /\ Cardinality({o \in Orders : ref[o] # 0 \/ refused[o] # 0})
         + Cardinality({q \in Queries : asker[q] # NotAsked}) < MaxMessage

Fresh(o) == ref[o] = 0 /\ refused[o] = 0

\* Dispatch turns what InsertOrder throws into an error message to the client.
InsertError(o) == refused' = [refused EXCEPT ![o] = @ + 1]

\* The session is not there, or the message is not an order.
InsertRefused(o) ==
    /\ Idle /\ Fresh(o)
    /\ InsertError(o)
    /\ UNCHANGED <<loopVars, linkVars, orderVars, confirmed, told, recordedIn, queryVars>>

\* ConvertInsertOrderCommon2XTP has taken an order_ref_ when it finds that the
\* direction cannot be converted.
InsertBadDir(o) ==
    /\ Idle /\ Fresh(o) /\ api_ready
    /\ order_ref' = order_ref + 1
    /\ InsertError(o)
    /\ UNCHANGED <<loopVars, linkVars, ref, wait_deal, book, events, foreign,
                   confirmed, told, recordedIn, queryVars>>

\* Mutant of InsertBegin: order_ref_ is not incremented.
InsertBeginSameRef(o) ==
    /\ Idle /\ Fresh(o) /\ api_ready
    /\ ref' = [ref EXCEPT ![o] = order_ref]
    /\ at' = "record" /\ cur' = o
    /\ UNCHANGED <<linkVars, order_ref, wait_deal, book, events, foreign, feedVars, queryVars>>

\* api_ready_ is tested once; the order gets its reference.
InsertBegin(o) ==
    /\ Idle /\ Fresh(o) /\ api_ready
    /\ order_ref' = order_ref + 1
    /\ ref' = [ref EXCEPT ![o] = order_ref]
    /\ at' = "record" /\ cur' = o
    /\ UNCHANGED <<linkVars, wait_deal, book, events, foreign, feedVars, queryVars>>

\* The recorded orders under a reference and a session: the map's key.
Recorded(r, s) == {w \in wait_deal : w.ref = r /\ w.session = s}

\* Mutant of RecordOrder: the key is made with order_ref_, the reference of the next.
RecordOrderNextRef ==
    /\ at = "record"
    /\ wait_deal' = (wait_deal \ Recorded(order_ref, xtp_session_id))
                      \cup {[ref |-> order_ref, session |-> xtp_session_id, order |-> cur]}
    /\ recordedIn' = [recordedIn EXCEPT ![cur] = xtp_session_id]
    /\ at' = "insert"
    /\ UNCHANGED <<cur, linkVars, order_ref, ref, book, events, foreign,
                   confirmed, told, refused, queryVars>>

\* RecordOrder, under the session as it is now.
RecordOrder ==
    /\ at = "record"
    /\ wait_deal' = (wait_deal \ Recorded(ref[cur], xtp_session_id))
                      \cup {[ref |-> ref[cur], session |-> xtp_session_id, order |-> cur]}
    /\ recordedIn' = [recordedIn EXCEPT ![cur] = xtp_session_id]
    /\ at' = "insert"
    /\ UNCHANGED <<cur, linkVars, order_ref, ref, book, events, foreign,
                   confirmed, told, refused, queryVars>>

\* api_->InsertOrder, under the session as it is now: XTP takes the order.
ApiInsertOrder ==
    /\ at = "insert" /\ link
    /\ book' = [book EXCEPT ![cur] = "live"]
    /\ at' = "read" /\ cur' = NoOrder
    /\ UNCHANGED <<linkVars, order_ref, ref, wait_deal, events, foreign, feedVars, queryVars>>

\* It returns 0: no connection, a session that is gone, or an order XTP refuses.
ApiInsertFailed ==
    /\ at = "insert"
    /\ at' = "clean"
    /\ UNCHANGED <<cur, linkVars, orderVars, feedVars, queryVars>>

\* Mutant of CleanRecord: nothing is thrown.
CleanRecordSilent ==
    /\ at = "clean"
    /\ wait_deal' = wait_deal \ Recorded(ref[cur], xtp_session_id)
    /\ at' = "read" /\ cur' = NoOrder
    /\ UNCHANGED <<linkVars, order_ref, ref, book, events, foreign, feedVars, queryVars>>

\* GetAndCleanRecordOrder, under the session as it is now, and the exception.
CleanRecord ==
    /\ at = "clean"
    /\ wait_deal' = wait_deal \ Recorded(ref[cur], xtp_session_id)
    /\ InsertError(cur)
    /\ at' = "read" /\ cur' = NoOrder
    /\ UNCHANGED <<linkVars, order_ref, ref, book, events, foreign,
                   confirmed, told, recordedIn, queryVars>>

-----------------------------------------------------------------------------
(* The message loop: queries.                                               *)

QueryError(q) == errors' = [errors EXCEPT ![q] = @ + 1]

\* The session is not there, the message or the id in it is not valid, or the
\* query is one XTP does not have (QueryPositionDetail, QueryProduct).
QueryRefused(c, q, k) ==
    /\ Idle /\ asker[q] = NotAsked
    /\ asker' = [asker EXCEPT ![q] = [ws |-> c, kind |-> k]]
    /\ QueryError(q)
    /\ UNCHANGED <<loopVars, linkVars, orderVars, feedVars, cacheVars, flight, delivered>>

\* CacheQry*, of QueryCache: both maps, under req_id_.
CacheQry(c, q, k) ==
    /\ qry_ws' = Put(qry_ws, req_id, c)
    /\ qry' = [qry EXCEPT ![k] = Put(@, req_id, q)]

\* api_ready_ is tested, and the query is cached.
QueryBegin(c, q, k) ==
    /\ Idle /\ asker[q] = NotAsked /\ api_ready
    /\ asker' = [asker EXCEPT ![q] = [ws |-> c, kind |-> k]]
    /\ CacheQry(c, q, k)
    /\ at' = "query" /\ cur' = q
    /\ UNCHANGED <<linkVars, orderVars, feedVars, req_id, rsp, flight, delivered, errors>>

\* Mutant of ApiQuery: req_id_ is passed and not incremented.
ApiQuerySameId ==
    /\ at = "query" /\ link
    /\ flight' = flight \cup {[id |-> req_id, query |-> cur, rows |-> 0]}
    /\ at' = "read" /\ cur' = NoOrder
    /\ UNCHANGED <<linkVars, orderVars, feedVars, cacheVars, asker, delivered, errors>>

\* api_->Query* with req_id_++: XTP takes the query.
ApiQuery ==
    /\ at = "query" /\ link
    /\ flight' = flight \cup {[id |-> req_id, query |-> cur, rows |-> 0]}
    /\ req_id' = req_id + 1
    /\ at' = "read" /\ cur' = NoOrder
    /\ UNCHANGED <<linkVars, orderVars, feedVars, qry_ws, qry, rsp, asker, delivered, errors>>

\* GetAndClear*, of QueryCache: both maps.
GetAndClear(k, i) ==
    /\ qry_ws' = Drop(qry_ws, i)
    /\ qry' = [qry EXCEPT ![k] = Drop(@, i)]

\* It returns an error, having taken req_id_++: the entry under req_id_ - 1 is
\* cleared, and the handler throws.
ApiQueryFailed ==
    /\ at = "query"
    /\ req_id' = req_id + 1
    /\ GetAndClear(asker[cur].kind, req_id' - 1)
    /\ QueryError(cur)
    /\ at' = "read" /\ cur' = NoOrder
    /\ UNCHANGED <<linkVars, orderVars, feedVars, rsp, flight, asker, delivered>>

HandlerStep ==
    \/ RecordOrder \/ ApiInsertOrder \/ ApiInsertFailed \/ CleanRecord
    \/ ApiQuery \/ ApiQueryFailed

MessageLoop ==
    \/ \E o \in Orders : InsertRefused(o) \/ InsertBadDir(o) \/ InsertBegin(o)
    \/ \E c \in Clients, q \in Queries, k \in Kinds : QueryRefused(c, q, k) \/ QueryBegin(c, q, k)
    \/ HandlerStep

-----------------------------------------------------------------------------
(* XTP and its callback thread.                                             *)

\* The session breaks; what XTP has not answered it never will.
LinkLost ==
    /\ link
    /\ link' = FALSE /\ flight' = {}
    /\ UNCHANGED <<loopVars, api_ready, xtp_session_id, reconn, logins, orderVars, feedVars,
                   cacheVars, asker, delivered, errors>>

\* OnDisconnected: the thread goes into Reconn.
OnDisconnected ==
    /\ ~link /\ ~reconn
    /\ api_ready' = FALSE /\ reconn' = TRUE
    /\ UNCHANGED <<loopVars, xtp_session_id, link, logins, orderVars, feedVars, queryVars>>

\* One turn of its loop: Login fails and returns 0.
ReconnFailed ==
    /\ reconn
    /\ xtp_session_id' = 0
    /\ UNCHANGED <<loopVars, api_ready, reconn, link, logins, orderVars, feedVars, queryVars>>

\* Login returns a session of its own, and the loop ends.
Reconn ==
    /\ reconn /\ logins < MaxLogin
    /\ logins' = logins + 1 /\ link' = TRUE
    /\ xtp_session_id' = logins'
    /\ api_ready' = TRUE /\ reconn' = FALSE
    /\ UNCHANGED <<loopVars, orderVars, feedVars, queryVars>>

\* Mutant of GetAndCleanRecordOrder: what is found is not erased.
GetAndCleanRecordOrderKept(r, s, id) ==
    /\ wait_deal' = wait_deal
    /\ confirmed' = [o \in Orders |-> IF \E w \in Recorded(r, s) : w.order = o
                                      THEN Append(confirmed[o], id) ELSE confirmed[o]]

\* GetAndCleanRecordOrder with the session of the callback: the order recorded
\* under it is erased and confirmed with the outside id the event is about.
GetAndCleanRecordOrder(r, s, id) ==
    /\ wait_deal' = wait_deal \ Recorded(r, s)
    /\ confirmed' = [o \in Orders |-> IF \E w \in Recorded(r, s) : w.order = o
                                      THEN Append(confirmed[o], id) ELSE confirmed[o]]

\* OnOrderEvent, with or without an error: confirmorder if the order is recorded
\* under the reference in the event, then orderstatus.
OnOrderEvent(o) ==
    /\ link /\ ~reconn /\ book[o] = "live" /\ events[o] < MaxEvent
    /\ events' = [events EXCEPT ![o] = @ + 1]
    /\ \E b \in {"live", "over"} : book' = [book EXCEPT ![o] = b]
    /\ GetAndCleanRecordOrder(ref[o], logins, o)
    /\ told' = [told EXCEPT ![o] = IF @ = 0 THEN logins ELSE @]
    /\ UNCHANGED <<loopVars, linkVars, order_ref, ref, foreign, refused, recordedIn, queryVars>>

\* Every client that is logged in with the account gets the events of all its
\* orders: one of another program, whose order_client_id may be any number.
OnForeignOrderEvent(r) ==
    /\ link /\ ~reconn /\ Cardinality(foreign \cup {r}) <= MaxForeign
    /\ foreign' = foreign \cup {r}
    /\ GetAndCleanRecordOrder(r, logins, NoOrder)
    /\ UNCHANGED <<loopVars, linkVars, order_ref, ref, book, events,
                   told, refused, recordedIn, queryVars>>

\* The rows that are cached under an id; the first row makes the entry.
Rows(k, i) == IF i \in DOMAIN rsp[k] THEN rsp[k][i] ELSE <<>>

\* The rows after one more came, which OnQueryOrder leaves out if it is of a cancel.
Collected(k, f) == {Rows(k, f.id), Append(Rows(k, f.id), f.query)}

\* OnQuery* with a row that is not the last.
OnQueryRow(f) ==
    /\ ~reconn /\ f.rows < MaxRows
    /\ flight' = (flight \ {f}) \cup {[f EXCEPT !.rows = @ + 1]}
    /\ \E rows \in Collected(asker[f.query].kind, f) :
          rsp' = [rsp EXCEPT ![asker[f.query].kind] = Put(@, f.id, rows)]
    /\ UNCHANGED <<loopVars, linkVars, orderVars, feedVars, req_id, qry_ws, qry,
                   asker, delivered, errors>>

\* The pointers "ws" can hold after the cache was asked: an uninitialised local
\* keeps any pointer that was there if the id was not found.
FoundWs(i) == IF i \in DOMAIN qry_ws THEN {qry_ws[i]} ELSE Clients \cup {NoWs}

\* OnQuery* with the last row, or with an empty one: the client the cache names
\* gets the query cached under the id and the rows collected under it.
OnQueryLast(f) ==
    /\ ~reconn
    /\ flight' = flight \ {f}
    /\ LET k == asker[f.query].kind
           q == IF f.id \in DOMAIN qry[k] THEN qry[k][f.id] ELSE NoQuery IN
       /\ GetAndClear(k, f.id)
       /\ rsp' = [rsp EXCEPT ![k] = Drop(@, f.id)]
       /\ \E rows \in IF f.rows < MaxRows THEN Collected(k, f) ELSE {Rows(k, f.id)},
             c \in FoundWs(f.id) :
          delivered' = IF c = NoWs THEN delivered
                       ELSE [delivered EXCEPT ![q] = Append(@, [to |-> c, rows |-> rows])]
    /\ UNCHANGED <<loopVars, linkVars, orderVars, feedVars, req_id, asker, errors>>

Callback ==
    \/ OnDisconnected \/ ReconnFailed \/ Reconn
    \/ \E o \in Orders : OnOrderEvent(o)
    \/ \E r \in 1..order_ref : OnForeignOrderEvent(r)
    \/ \E f \in flight : OnQueryRow(f) \/ OnQueryLast(f)

-----------------------------------------------------------------------------
Next == MessageLoop \/ LinkLost \/ Callback

Spec == Init /\ [][Next]_vars

\* The message loop gets on with the message it handles, and while the session is
\* up XTP tells of the orders and answers the queries that it took.
Fairness ==
    /\ WF_vars(HandlerStep)
    /\ WF_vars(\E o \in Orders : told[o] = 0 /\ OnOrderEvent(o))
    /\ WF_vars(\E f \in flight : OnQueryLast(f))
FairSpec == Spec /\ Fairness

-----------------------------------------------------------------------------
(* Properties.                                                              *)

\* No order is confirmed twice, whichever events come before and after the
\* session is renewed.
ConfirmedOnce == \A o \in Orders : Len(confirmed[o]) <= 1

\* confirmorder ties an order to its own outside id, as long as no program on the
\* same account uses the order_client_id that the order has here.
ConfirmedWithOwn ==
    \A o \in Orders : \A n \in 1..Len(confirmed[o]) :
        confirmed[o][n] = o \/ ref[o] \in foreign

\* A status goes out under an outside id that was confirmed before, if the session
\* the order was recorded under is the one its first event came in.
ConfirmedBeforeStatus ==
    \A o \in Orders : told[o] # 0 /\ told[o] = recordedIn[o] => confirmed[o] # <<>>

\* A record is of an order that was not confirmed yet, and under a session that
\* lasts it is of one that still can be: not refused, not told of.
RecordIsWaiting ==
    \A w \in wait_deal :
        /\ confirmed[w.order] = <<>> /\ w.ref = ref[w.order]
        /\ w.session = xtp_session_id /\ w.session # 0 => refused[w.order] = 0 /\ told[w.order] = 0

\* A client that was told its order failed has no order at XTP, and no confirmation.
RefusedIsNot ==
    \A o \in Orders : refused[o] > 0 =>
        /\ refused[o] = 1 /\ book[o] = "none"
        /\ confirmed[o] = <<>> \/ ref[o] \in foreign

\* QueryCache and the caches of rows hold queries that are not over: every exit of
\* a handler and every last row clears what it must, in each of the maps.
CachedIsPending ==
    /\ \A i \in DOMAIN qry_ws : \E k \in Kinds : i \in DOMAIN qry[k]
    /\ \A k \in Kinds :
          /\ \A i \in DOMAIN qry[k] :
                /\ i \in DOMAIN qry_ws
                /\ asker[qry[k][i]] = [ws |-> qry_ws[i], kind |-> k]
                /\ delivered[qry[k][i]] = <<>> /\ errors[qry[k][i]] = 0
          /\ \A i \in DOMAIN rsp[k] :
                /\ i \in DOMAIN qry[k]
                /\ \A n \in 1..Len(rsp[k][i]) : rsp[k][i][n] = qry[k][i]

-----------------------------------------------------------------------------
(* The inductive invariant: first the orders, then the queries.             *)

\* A reference is of one order, and the session id is 0 or that of the last login.
RefIsOwn ==
    /\ xtp_session_id \in {0, logins}
    /\ \A o \in Orders : ref[o] < order_ref
    /\ \A o, p \in Orders : ref[o] = ref[p] /\ ref[o] # 0 => o = p

\* A record is that of its order, under the session InsertOrder found.
RecordIsOwn ==
    \A w \in wait_deal :
        /\ w.ref = ref[w.order] /\ w.ref # 0
        /\ w.session = recordedIn[w.order] /\ w.session <= logins
        /\ at = "record" => w.order # cur

\* What the order in hand has come to, and the others: an order that XTP may have is
\* recorded until it is confirmed, and one that it does not have was confirmed only
\* by an event of another program.
InHand ==
    at \in {"record", "insert", "clean"} =>
        /\ ref[cur] # 0 /\ refused[cur] = 0 /\ book[cur] = "none"
        /\ at = "record" => confirmed[cur] = <<>>
OrderStands ==
    \A o \in Orders :
        /\ ref[o] = 0 => book[o] = "none" /\ confirmed[o] = <<>>
        /\ book[o] = "none" => told[o] = 0
        /\ book[o] = "none" /\ confirmed[o] # <<>> => ref[o] \in foreign
        /\ book[o] # "none" \/ (at = "insert" /\ cur = o) =>
              confirmed[o] # <<>> \/ \E w \in wait_deal : w.order = o

\* An id is drawn once: what is cached has its own, no query is cached twice, and
\* rows come under ids that went out.
IdIsOwn ==
    /\ \A i \in DOMAIN qry_ws : i < req_id \/ (i = req_id /\ at = "query")
    /\ \A k \in Kinds : \A i \in DOMAIN rsp[k] : i < req_id
    /\ \A k, l \in Kinds : \A i \in DOMAIN qry[k], j \in DOMAIN qry[l] :
          /\ i = j => k = l
          /\ qry[k][i] = qry[l][j] => i = j

\* XTP answers under an id the query that is cached under it, with as many rows.
FlightIsCached ==
    /\ \A f \in flight : LET k == asker[f.query].kind IN
          /\ f.id < req_id /\ k \in Kinds
          /\ f.id \in DOMAIN qry[k] /\ qry[k][f.id] = f.query
          /\ Len(Rows(k, f.id)) <= f.rows
    /\ \A f, g \in flight : f.id = g.id => f = g
    /\ at = "query" => LET k == asker[cur].kind IN
          k \in Kinds /\ req_id \in DOMAIN qry[k] /\ qry[k][req_id] = cur

\* Nobody is answered who did not ask.
OnlyAsked ==
    /\ \A q \in Queries : asker[q] = NotAsked => delivered[q] = <<>> /\ errors[q] = 0
    /\ delivered[NoQuery] = <<>>

OrderInv == ConfirmedOnce /\ RecordIsWaiting /\ RefusedIsNot
              /\ RefIsOwn /\ RecordIsOwn /\ InHand /\ OrderStands
QueryInv == CachedIsPending /\ IdIsOwn /\ FlightIsCached /\ OnlyAsked

\* No order is confirmed twice or after it was refused, and what is recorded and
\* cached waits for something: the state of the gateway between any two callbacks.
Inv == TypeOK /\ OrderInv /\ QueryInv

\* Clients get what QueryPromise says: one result, of their own query, or one error.
Promise == INSTANCE QueryPromise WITH asker <- [q \in Queries |-> asker[q].ws]
ImplementsQueryPromise == Promise!Spec

\* An order ends in an error or in a confirmation while the session it was
\* recorded under is up.
OrderAnswered ==
    \A o \in Orders : recordedIn[o] # 0 ~>
        (refused[o] > 0 \/ confirmed[o] # <<>> \/ recordedIn[o] # logins \/ ~link)

\* A query that the gateway took ends in a result or an error while the session
\* is up.
Taken(q) == (at = "query" /\ cur = q) \/ \E f \in flight : f.query = q
QueryAnswered ==
    \A q \in Queries : Taken(q) ~> (delivered[q] # <<>> \/ errors[q] > 0 \/ ~link)

\* No message a client sent is forgotten: in the loop, in a record, in a cache or on
\* an error path.
MessageAnswered == OrderAnswered /\ QueryAnswered
=============================================================================
