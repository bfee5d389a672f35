------------------------------- MODULE CtpQuery -------------------------------
(***************************************************************************)
(* Queries in the CTP trade gateway: WsService takes a client's message,   *)
(* the handler caches who asked under a request id, and the callback that  *)
(* brings the result finds the client by that id.                          *)
(*                                                                         *)
(* Three threads take part:                                                *)
(*   - the hub's thread opens and closes connections and writes messages   *)
(*     to msg_tunnel_;                                                     *)
(*   - the message loop handles one message at a time;                     *)
(*   - the callback thread of the CTP API logs in and brings results.      *)
(* The last two both increment req_id_, a plain int, without a lock.       *)
(*                                                                         *)
(* Abstracted: a query's fields (it is one of Queries), what a result row  *)
(* says (it is the query CTP answers with it), a login that is refused.    *)
(***************************************************************************)
EXTENDS Integers, Sequences, FiniteSets, Functions

CONSTANTS
    Clients,      \* the websocket pointers of connections to /ws
    Queries,      \* the query messages
    Kinds,        \* the kinds of query that have a cache of their own
    TradingDay,   \* query_tradingday, which needs no request
    NoQuery,      \* a default-constructed query struct
    NoWs,         \* no pointer, or one that is not a connection's
    FirstId,      \* req_id_ at the start
    MaxLogin,     \* bound on the logins
    MaxRows       \* bound on the rows of one result

ASSUME CtpQueryAssumption ==
    /\ TradingDay \notin Kinds
    /\ NoQuery \notin Queries /\ NoWs \notin Clients
    /\ IsFiniteSet(Queries)
    /\ FirstId \in Nat /\ MaxLogin \in Nat \ {0} /\ MaxRows \in Nat

\* Every query takes one request id and every login three.
Ids == FirstId .. FirstId + Cardinality(Queries) + 3 * MaxLogin

VARIABLES
    ws_set,     \* ws_set_
    asked,      \* the client and the kind of each query message
    msgs,       \* msg_tunnel_
    at,         \* where the message loop stands
    cur,        \* the query it handles
    got,        \* the value req_id_ had when the message loop read it
    req_id,     \* req_id_
    qry_ws,     \* qry_ws_cache_
    qry,        \* the caches of queries, one per kind
    rsp,        \* rsp_qry_*_caches_, one per kind; no entry is an empty one
    api_ready,  \* api_ready_
    stage,      \* which request of the login the callback thread made last
    spi,        \* whether the callback thread is in the middle of req_id_++
    spiGot,     \* the value req_id_ had when the callback thread read it
    logins,     \* how many logins were begun
    link,       \* CTP: is the connection up
    flight,     \* CTP: the queries it has to answer, by request id
    answers,    \* how many results were sent for each query
    errors,     \* how many error messages were sent for each query
    last,       \* the last result sent
    raced       \* history: the threads were in req_id_++ at once, or the id moved
                \* between CacheQry* and the end of the request

hubVars   == <<ws_set, asked>>
loopVars  == <<at, cur, got>>
cacheVars == <<qry_ws, qry, rsp>>
spiVars   == <<api_ready, stage, spi, spiGot, logins, link>>
sayVars   == <<answers, errors, last>>
vars == <<hubVars, msgs, loopVars, req_id, cacheVars, spiVars, flight, sayVars, raced>>

NotAsked == [ws |-> NoWs, kind |-> TradingDay]
Nothing  == [to |-> NoWs, kind |-> TradingDay, query |-> NoQuery, rows |-> <<>>]
Row      == Queries

\* The hub and the message loop; the caches; the callback thread; what is sent.
LoopType ==
    /\ ws_set \subseteq Clients
    /\ asked \in [Queries -> [ws : Clients, kind : Kinds \cup {TradingDay}] \cup {NotAsked}]
    /\ msgs \in Seq(Queries)
    /\ at \in {"read", "cache", "load", "store", "send"}
    /\ cur \in Queries \cup {NoQuery} /\ got \in Ids /\ req_id \in Ids
CacheType ==
    /\ qry_ws \in [Ids -> Clients \cup {NoWs}]
    /\ qry \in [Kinds -> [Ids -> Queries \cup {NoQuery}]]
    /\ rsp \in [Kinds -> [Ids -> Seq(Row)]]
    /\ flight \subseteq [id : Ids, query : Queries, rows : 0..MaxRows]
SpiType ==
    /\ api_ready \in BOOLEAN /\ link \in BOOLEAN
    /\ stage \in {"none", "auth", "login", "settle"}
    /\ spi \in {"idle", "load", "store"} /\ spiGot \in Ids
    /\ logins \in 0..MaxLogin
SayType ==
    /\ answers \in [Queries -> Nat] /\ errors \in [Queries -> Nat]
    /\ last \in [to : Clients \cup {NoWs}, kind : Kinds \cup {TradingDay},
                 query : Queries \cup {NoQuery}, rows : Seq(Row)]
    /\ raced \in BOOLEAN
TypeOK == LoopType /\ CacheType /\ SpiType /\ SayType

InitWith(up) ==
    /\ ws_set = {} /\ asked = [q \in Queries |-> NotAsked]
    /\ msgs = <<>>
    /\ at = "read" /\ cur = NoQuery /\ got = FirstId
    /\ req_id = FirstId + (IF up THEN 3 ELSE 0)
    /\ qry_ws = [i \in Ids |-> NoWs]
    /\ qry = [k \in Kinds |-> [i \in Ids |-> NoQuery]]
    /\ rsp = [k \in Kinds |-> [i \in Ids |-> <<>>]]
    /\ api_ready = up /\ link = up
    /\ stage = IF up THEN "settle" ELSE "none"
    /\ spi = "idle" /\ spiGot = FirstId
    /\ logins = IF up THEN 1 ELSE 0
    /\ flight = {}
    /\ answers = [q \in Queries |-> 0] /\ errors = [q \in Queries |-> 0]
    /\ last = Nothing /\ raced = FALSE

Init   == InitWith(FALSE)   \* the process starts
InitUp == InitWith(TRUE)    \* the first login is over, and nobody asked yet

-----------------------------------------------------------------------------
(* The hub's thread.                                                        *)

OnConnection(c) ==
    /\ c \notin ws_set
    /\ ws_set' = ws_set \cup {c}
    /\ UNCHANGED <<asked, msgs, loopVars, req_id, cacheVars, spiVars, flight, sayVars, raced>>

OnDisconnection(c) ==
    /\ c \in ws_set
    /\ ws_set' = ws_set \ {c}
    /\ UNCHANGED <<asked, msgs, loopVars, req_id, cacheVars, spiVars, flight, sayVars, raced>>

\* onMessage: a query is put in the tunnel with the pointer of its connection.
OnMessage(c, q, k) ==
    /\ c \in ws_set /\ asked[q] = NotAsked
    /\ asked' = [asked EXCEPT ![q] = [ws |-> c, kind |-> k]]
    /\ msgs' = Append(msgs, q)
    /\ UNCHANGED <<ws_set, loopVars, req_id, cacheVars, spiVars, flight, sayVars, raced>>

-----------------------------------------------------------------------------
(* The message loop.                                                        *)

\* SendMsgToClient: only to a connection that is still open.
SendMsgToClient(c, k, q, rows) ==
    last' = IF c \in ws_set THEN [to |-> c, kind |-> k, query |-> q, rows |-> rows] ELSE last

\* Dispatch catches what a handler throws: OnClientMsgError.
OnClientMsgError(q) == errors' = [errors EXCEPT ![q] = @ + 1]

\* QueryTradingDay answers at once, whatever the connection.
QueryTradingDay ==
    /\ at = "read" /\ msgs # <<>> /\ asked[Head(msgs)].kind = TradingDay
    /\ msgs' = Tail(msgs)
    /\ answers' = [answers EXCEPT ![Head(msgs)] = @ + 1]
    /\ SendMsgToClient(asked[Head(msgs)].ws, TradingDay, Head(msgs), <<>>)
    /\ UNCHANGED <<hubVars, loopVars, req_id, cacheVars, spiVars, flight, errors, raced>>

\* The message cannot be converted, or api_ready_ is not set: an exception.
QueryRefused ==
    /\ at = "read" /\ msgs # <<>>
    /\ msgs' = Tail(msgs)
    /\ OnClientMsgError(Head(msgs))
    /\ UNCHANGED <<hubVars, loopVars, req_id, cacheVars, spiVars, flight, answers, last, raced>>

\* The handler of any other query sees api_ready_.
QueryBegin ==
    /\ at = "read" /\ msgs # <<>> /\ asked[Head(msgs)].kind # TradingDay
    /\ api_ready
    /\ msgs' = Tail(msgs) /\ cur' = Head(msgs) /\ at' = "cache"
    /\ UNCHANGED <<hubVars, got, req_id, cacheVars, spiVars, flight, sayVars, raced>>

\* QueryCache's CacheQry*, under req_id_ as it is now.
CacheQry ==
    /\ at = "cache"
    /\ qry_ws' = [qry_ws EXCEPT ![req_id] = asked[cur].ws]
    /\ qry' = [qry EXCEPT ![asked[cur].kind][req_id] = cur]
    /\ at' = "load"
    /\ UNCHANGED <<hubVars, msgs, cur, got, req_id, rsp, spiVars, flight, sayVars, raced>>

\* req_id_++, the argument of the request: a read and a write.
LoadReqId ==
    /\ at = "load"
    /\ got' = req_id /\ at' = "store"
    /\ UNCHANGED <<hubVars, msgs, cur, req_id, cacheVars, spiVars, flight, sayVars, raced>>

\* Mutant of StoreReqId: the id is passed but not incremented.
StoreReqIdSame ==
    /\ at = "store"
    /\ at' = "send"
    /\ UNCHANGED <<hubVars, msgs, cur, got, req_id, cacheVars, spiVars, flight, sayVars, raced>>

StoreReqId ==
    /\ at = "store"
    /\ req_id' = got + 1 /\ at' = "send"
    /\ raced' = (raced \/ spi = "store")
    /\ UNCHANGED <<hubVars, msgs, cur, got, cacheVars, spiVars, flight, sayVars>>

\* ReqQry* hands the query to CTP.
ReqQry ==
    /\ at = "send" /\ link
    /\ flight' = flight \cup {[id |-> got, query |-> cur, rows |-> 0]}
    /\ at' = "read" /\ cur' = NoQuery
    /\ UNCHANGED <<hubVars, msgs, got, req_id, cacheVars, spiVars, sayVars, raced>>

\* QueryCache's GetAndClear*, of a kind under an id; what it finds there, in the
\* queries of that kind and among the connections, is read before.
GetAndClear(k, i) ==
    /\ qry_ws' = [qry_ws EXCEPT ![i] = NoWs]
    /\ qry' = [qry EXCEPT ![k][i] = NoQuery]

\* Mutants of ReqQryFailed: req_id_ without the - 1, and no exception.
ReqQryFailedNext ==
    /\ at = "send"
    /\ GetAndClear(asked[cur].kind, req_id)
    /\ OnClientMsgError(cur)
    /\ at' = "read" /\ cur' = NoQuery
    /\ UNCHANGED <<hubVars, msgs, got, req_id, rsp, spiVars, flight, answers, last, raced>>
ReqQryFailedSilent ==
    /\ at = "send"
    /\ GetAndClear(asked[cur].kind, req_id - 1)
    /\ at' = "read" /\ cur' = NoQuery
    /\ UNCHANGED <<hubVars, msgs, got, req_id, rsp, spiVars, flight, answers, errors, last, raced>>

\* ReqQry* returns an error: no connection, or too many requests. The entry that
\* is cleared is the one under req_id_ - 1, as req_id_ is now.
ReqQryFailed ==
    /\ at = "send"
    /\ GetAndClear(asked[cur].kind, req_id - 1)
    /\ OnClientMsgError(cur)
    /\ at' = "read" /\ cur' = NoQuery
    /\ UNCHANGED <<hubVars, msgs, got, req_id, rsp, spiVars, flight, answers, last, raced>>

MessageLoop ==
    \/ QueryTradingDay \/ QueryRefused \/ QueryBegin
    \/ CacheQry \/ LoadReqId \/ StoreReqId \/ ReqQry \/ ReqQryFailed

-----------------------------------------------------------------------------
(* CTP and its callback thread.                                             *)

\* The connection breaks; what CTP has not answered it never will.
LinkLost ==
    /\ link
    /\ link' = FALSE /\ flight' = {}
    /\ UNCHANGED <<hubVars, msgs, loopVars, req_id, cacheVars,
                   api_ready, stage, spi, spiGot, logins, sayVars, raced>>

\* ClearConnectionInfo
OnFrontDisconnected ==
    /\ ~link /\ stage # "none" /\ spi = "idle"
    /\ api_ready' = FALSE /\ stage' = "none"
    /\ UNCHANGED <<hubVars, msgs, loopVars, req_id, cacheVars,
                   spi, spiGot, logins, link, flight, sayVars, raced>>

\* DoAuthenticate, to which OnRspAuthenticate answers with DoLogin. Each passes
\* req_id_++ to a request, as the steps SpiLoad and SpiStore.
OnFrontConnected ==
    /\ stage = "none" /\ spi = "idle" /\ logins < MaxLogin
    /\ link' = TRUE /\ logins' = logins + 1
    /\ stage' = "auth" /\ spi' = "load"
    /\ UNCHANGED <<hubVars, msgs, loopVars, req_id, cacheVars,
                   api_ready, spiGot, flight, sayVars, raced>>

OnRspAuthenticate ==
    /\ stage = "auth" /\ spi = "idle" /\ link
    /\ stage' = "login" /\ spi' = "load"
    /\ UNCHANGED <<hubVars, msgs, loopVars, req_id, cacheVars,
                   api_ready, spiGot, logins, link, flight, sayVars, raced>>

\* OnRspUserLogin: FillConnectionInfo sets api_ready_, then DoSettlementConfirm
\* takes its request id.
OnRspUserLogin ==
    /\ stage = "login" /\ spi = "idle" /\ link
    /\ api_ready' = TRUE
    /\ stage' = "settle" /\ spi' = "load"
    /\ UNCHANGED <<hubVars, msgs, loopVars, req_id, cacheVars,
                   spiGot, logins, link, flight, sayVars, raced>>

SpiLoad ==
    /\ spi = "load"
    /\ spiGot' = req_id /\ spi' = "store"
    /\ UNCHANGED <<hubVars, msgs, loopVars, req_id, cacheVars,
                   api_ready, stage, logins, link, flight, sayVars, raced>>

SpiStore ==
    /\ spi = "store"
    /\ req_id' = spiGot + 1 /\ spi' = "idle"
    /\ raced' = (raced \/ at \in {"load", "store", "send"})
    /\ UNCHANGED <<hubVars, msgs, loopVars, cacheVars,
                   api_ready, stage, spiGot, logins, link, flight, sayVars>>

\* OnRspQry* with a row of the result that is not the last.
OnRspQry(f) ==
    /\ spi = "idle" /\ f.rows < MaxRows
    /\ flight' = (flight \ {f}) \cup {[f EXCEPT !.rows = @ + 1]}
    /\ rsp' = [rsp EXCEPT ![asked[f.query].kind][f.id] = Append(@, f.query)]
    /\ UNCHANGED <<hubVars, msgs, loopVars, req_id, qry_ws, qry, spiVars, sayVars, raced>>

\* The pointers "ws" can hold after the cache was asked: an uninitialised local
\* keeps any pointer that was there if the id was not found.
FoundWs(i) == IF qry_ws[i] # NoWs THEN {qry_ws[i]} ELSE Clients \cup {NoWs}

\* OnRspQry* with the last row, or with the only, empty one: the client that the
\* cache names gets the query of that id and the rows collected under it.
OnRspQryLast(f) ==
    /\ spi = "idle"
    /\ flight' = flight \ {f}
    /\ LET k == asked[f.query].kind
           q == qry[k][f.id]
           rows == IF f.rows < MaxRows THEN Append(rsp[k][f.id], f.query) ELSE rsp[k][f.id] IN
       /\ GetAndClear(k, f.id)
       /\ rsp' = [rsp EXCEPT ![k][f.id] = <<>>]
       /\ \E c \in FoundWs(f.id) : SendMsgToClient(c, k, q, rows)
       /\ answers' = IF q # NoQuery THEN [answers EXCEPT ![q] = @ + 1] ELSE answers
    /\ UNCHANGED <<hubVars, msgs, loopVars, req_id, spiVars, errors, raced>>

Callback ==
    \/ OnFrontDisconnected \/ OnFrontConnected \/ OnRspAuthenticate \/ OnRspUserLogin
    \/ SpiLoad \/ SpiStore
    \/ \E f \in flight : OnRspQry(f) \/ OnRspQryLast(f)

-----------------------------------------------------------------------------
Hub ==
    \/ \E c \in Clients : OnConnection(c) \/ OnDisconnection(c)
    \/ \E c \in Clients, q \in Queries, k \in Kinds \cup {TradingDay} : OnMessage(c, q, k)

Next == Hub \/ MessageLoop \/ LinkLost \/ Callback

Spec   == Init /\ [][Next]_vars
SpecUp == InitUp /\ [][Next]_vars

\* The message loop and the callback thread keep running, and CTP answers what it
\* accepted as long as the connection is up.
Fairness ==
    /\ WF_vars(MessageLoop)
    /\ WF_vars(SpiLoad \/ SpiStore)
    /\ WF_vars(\E f \in flight : OnRspQryLast(f))
FairSpecUp == SpecUp /\ Fairness

-----------------------------------------------------------------------------
(* Properties.                                                              *)

\* A result goes to the client that asked, with the query it sent and the rows of
\* that query only, unless the two threads raced for a request id: the id ties the
\* cached query, the rows in rsp_qry_*_caches_ and the answer of CTP together.
AnswersAsker ==
    ~raced /\ last # Nothing =>
        /\ last.to # NoWs /\ last.query # NoQuery
        /\ asked[last.query] = [ws |-> last.to, kind |-> last.kind]
        /\ \A n \in 1..Len(last.rows) : last.rows[n] = last.query

\* QueryCache holds no query that is over: every exit of a handler and every last
\* row clears what CacheQry* left, in both maps; again without a race.
CachedIsPending ==
    ~raced => \A i \in Ids :
        /\ qry_ws[i] # NoWs =>
              \E k \in Kinds : qry[k][i] # NoQuery /\ asked[qry[k][i]] = [ws |-> qry_ws[i], kind |-> k]
        /\ \A k \in Kinds : qry[k][i] # NoQuery =>
              qry_ws[i] # NoWs /\ answers[qry[k][i]] + errors[qry[k][i]] = 0

\* No query is answered twice, nor both answered and refused, again
\* without a race.
AnsweredOnce == ~raced => \A q \in Queries : answers[q] + errors[q] <= 1

\* The queries that were given a request id, and how many ids the logins were given.
Drawn == {q \in Queries : asked[q] # NotAsked /\ q \notin Range(msgs) /\ (q = cur => at = "send")}
SpiDrawn ==
    3 * logins - (IF stage = "auth" THEN 2 ELSE IF stage = "login" THEN 1 ELSE 0)
               - (IF spi = "idle" THEN 0 ELSE 1)

\* An increment that is lost in a race makes the ids no larger: they never run out.
IdsSuffice ==
    LET most == FirstId + Cardinality(Drawn) + SpiDrawn IN
    req_id <= most /\ got <= most /\ spiGot <= most

\* A message is in the tunnel once, and nothing happens to it before it is read.
Untouched(q) ==
    /\ answers[q] = 0 /\ errors[q] = 0 /\ q # cur
    /\ \A k \in Kinds : \A i \in Ids : qry[k][i] # q
    /\ \A f \in flight : f.query # q
MsgsWait ==
    /\ \A m, n \in 1..Len(msgs) : msgs[m] = msgs[n] => m = n
    /\ \A q \in Range(msgs) : asked[q] # NotAsked
    /\ \A q \in Queries : asked[q] = NotAsked \/ q \in Range(msgs) => Untouched(q)

\* What is handled, and what CTP has, is a query of a kind with a cache of its own.
HandledAsKind ==
    /\ at = "read" <=> cur = NoQuery
    /\ cur # NoQuery => asked[cur].kind \in Kinds
    /\ \A f \in flight : asked[f.query].kind \in Kinds

\* Without a race an id is passed as it was read, and the query in hand, not cached
\* before, has its entry under that id.
Slot   == IF at = "send" THEN got ELSE req_id
InSlot == at \in {"load", "store", "send"}
PassedAsRead ==
    ~raced =>
        /\ at = "cache" => /\ answers[cur] = 0 /\ errors[cur] = 0
                           /\ \A k \in Kinds : \A i \in Ids : qry[k][i] # cur
        /\ at = "store" => got = req_id
        /\ at = "send" => got + 1 = req_id
        /\ spi = "store" => spiGot = req_id
        /\ InSlot => /\ qry[asked[cur].kind][Slot] = cur
                     /\ \A k \in Kinds : rsp[k][Slot] = <<>>

\* Nor is anything cached under an id that was not drawn, under two ids, or in the
\* caches of two kinds; the rows under an id are of the query that is.
CachedOnce ==
    ~raced =>
        /\ \A i \in Ids : i > req_id \/ (i = req_id /\ at \notin {"load", "store"}) =>
              /\ qry_ws[i] = NoWs
              /\ \A k \in Kinds : qry[k][i] = NoQuery /\ rsp[k][i] = <<>>
        /\ \A k, l \in Kinds : \A i, j \in Ids : qry[k][i] # NoQuery =>
              /\ i = j /\ qry[l][j] # NoQuery => k = l
              /\ qry[k][i] = qry[l][j] => i = j
        /\ \A k \in Kinds : \A i \in Ids :
              \A n \in 1..Len(rsp[k][i]) : rsp[k][i][n] = qry[k][i]

\* CTP answers under an id the query that is cached under it.
FlightIsCached ==
    ~raced =>
        /\ \A f \in flight :
              /\ f.id < req_id /\ qry[asked[f.query].kind][f.id] = f.query
              /\ InSlot => f.id # Slot
        /\ \A f, g \in flight : f.id = g.id => f = g

\* Between any two callbacks: what is cached waits, and nothing was answered twice.
Inv ==
    /\ TypeOK /\ IdsSuffice /\ MsgsWait /\ HandledAsKind
    /\ PassedAsRead /\ CachedOnce /\ FlightIsCached
    /\ CachedIsPending /\ AnsweredOnce

\* Every query that the message loop is going to read is answered or refused,
\* unless the connection breaks meanwhile or the two threads race for a request
\* id: none is forgotten in the tunnel, in a cache or on an error path.
QueryAnswered ==
    \A q \in Queries :
        q \in Range(msgs) ~> (answers[q] + errors[q] > 0 \/ ~link \/ raced)
=============================================================================
