---------------------------- MODULE XtpTradeProofs ----------------------------
(***************************************************************************)
(* Theorems about XtpTrade, for every set of orders, queries and clients   *)
(* and for every bound. Inv is inductive: OrderInv speaks of the orders    *)
(* and the session, QueryInv of the queries and their ids. All they share  *)
(* is where the message loop stands.                                       *)
(***************************************************************************)
EXTENDS XtpTrade, TLAPS

-----------------------------------------------------------------------------
(* The maps of the gateway.                                                 *)

\* A map after m[k] = v.
LEMMA PutFacts ==
    ASSUME NEW m, NEW k, NEW v
    PROVE  /\ DOMAIN Put(m, k, v) = DOMAIN m \cup {k}
           /\ Put(m, k, v)[k] = v
           /\ \A x \in DOMAIN m \ {k} : Put(m, k, v)[x] = m[x]
BY DEF Put

\* A map after m.erase(k).
LEMMA DropFacts ==
    ASSUME NEW m, NEW k
    PROVE  /\ DOMAIN Drop(m, k) = DOMAIN m \ {k}
           /\ \A x \in DOMAIN m \ {k} : Drop(m, k)[x] = m[x]
BY DEF Drop, Restrict

\* A map with nothing in it.
LEMMA EmptyFacts == DOMAIN Empty = {}
BY DEF Empty

-----------------------------------------------------------------------------
(* The type invariant.                                                      *)

LEMMA TypeInit == Init => TypeOK
<1> SUFFICES ASSUME Init PROVE TypeOK
  OBVIOUS
<1>1. <<>> \in Seq(Orders \cup {NoOrder})
  OBVIOUS
<1>2. <<>> \in Seq([to : Clients, rows : Seq(Queries)])
  OBVIOUS
<1>3. LinkType
  <2>1. 1 \in 0..MaxLogin /\ 1 \in 1..MaxLogin
    BY XtpTradeAssumption
  <2> QED BY <2>1 DEF Init, LinkType
<1>4. OrderType
  BY <1>1, XtpTradeAssumption DEF Init, OrderType
<1>5. QueryType
  BY <1>2, EmptyFacts DEF Init, QueryType
<1> QED BY <1>3, <1>4, <1>5 DEF TypeOK

\* What GetAndCleanRecordOrder leaves is of the type of what it found.
LEMMA GetRecordType ==
    ASSUME OrderType, NEW r, NEW s, NEW id \in Orders \cup {NoOrder}, GetAndCleanRecordOrder(r, s, id)
    PROVE  /\ wait_deal' \subseteq [ref : Nat, session : 0..MaxLogin, order : Orders]
           /\ confirmed' \in [Orders -> Seq(Orders \cup {NoOrder})]
BY DEF OrderType, GetAndCleanRecordOrder

\* The steps that have nothing to do with the orders, and those that have nothing to
\* do with the queries.
QueryStep ==
    \/ \E c \in Clients, q \in Queries, k \in Kinds : QueryRefused(c, q, k) \/ QueryBegin(c, q, k)
    \/ ApiQuery \/ ApiQueryFailed
    \/ \E f \in flight : OnQueryRow(f) \/ OnQueryLast(f)
OrderStep ==
    \/ \E o \in Orders : InsertRefused(o) \/ InsertBadDir(o) \/ InsertBegin(o)
    \/ RecordOrder \/ ApiInsertOrder \/ ApiInsertFailed \/ CleanRecord
    \/ \E o \in Orders : OnOrderEvent(o)
    \/ \E r \in 1..order_ref : OnForeignOrderEvent(r)
LinkStep == LinkLost \/ OnDisconnected \/ ReconnFailed \/ Reconn

LEMMA Steps == Next <=> QueryStep \/ OrderStep \/ LinkStep
BY DEF Next, QueryStep, OrderStep, LinkStep, MessageLoop, HandlerStep, Callback

LEMMA QueryFrame ==
    ASSUME QueryStep
    PROVE  /\ UNCHANGED <<linkVars, orderVars, feedVars>>
           /\ UNCHANGED loopVars \/ (at \in {"read", "query"} /\ at' \in {"read", "query"})
<1>1. ASSUME NEW c, NEW q, NEW k, QueryRefused(c, q, k)
      PROVE  UNCHANGED <<linkVars, orderVars, feedVars, loopVars>>
  BY <1>1, Zenon DEF QueryRefused
<1>2. ASSUME NEW c, NEW q, NEW k, QueryBegin(c, q, k)
      PROVE  UNCHANGED <<linkVars, orderVars, feedVars>> /\ at = "read" /\ at' = "query"
  BY <1>2, Zenon DEF QueryBegin, Idle
<1>3. ASSUME ApiQuery \/ ApiQueryFailed
      PROVE  UNCHANGED <<linkVars, orderVars, feedVars>> /\ at = "query" /\ at' = "read"
  BY <1>3, Zenon DEF ApiQuery, ApiQueryFailed
<1>4. ASSUME NEW f, OnQueryRow(f) \/ OnQueryLast(f)
      PROVE  UNCHANGED <<linkVars, orderVars, feedVars, loopVars>>
  BY <1>4, Zenon DEF OnQueryRow, OnQueryLast
<1> QED BY <1>1, <1>2, <1>3, <1>4 DEF QueryStep

LEMMA OrderFrame ==
    ASSUME OrderStep
    PROVE  /\ UNCHANGED <<linkVars, queryVars>>
           /\ UNCHANGED loopVars \/ (at # "query" /\ at' # "query")
<1>1. ASSUME NEW o, InsertRefused(o) \/ InsertBadDir(o) \/ OnOrderEvent(o) \/ OnForeignOrderEvent(o)
      PROVE  UNCHANGED <<linkVars, queryVars, loopVars>>
  BY <1>1, Zenon DEF InsertRefused, InsertBadDir, OnOrderEvent, OnForeignOrderEvent
<1>2. ASSUME NEW o, InsertBegin(o)
      PROVE  UNCHANGED <<linkVars, queryVars>> /\ at = "read" /\ at' = "record"
  BY <1>2, Zenon DEF InsertBegin, Idle
<1>3. ASSUME RecordOrder \/ ApiInsertOrder \/ ApiInsertFailed \/ CleanRecord
      PROVE  UNCHANGED <<linkVars, queryVars>> /\ at # "query" /\ at' # "query"
  BY <1>3 DEF RecordOrder, ApiInsertOrder, ApiInsertFailed, CleanRecord
<1> QED BY <1>1, <1>2, <1>3 DEF OrderStep

LEMMA LinkFrame ==
    ASSUME LinkStep
    PROVE  UNCHANGED <<loopVars, orderVars, feedVars, cacheVars, asker, delivered, errors>>
               /\ (flight' = flight \/ flight' = {})
BY DEF LinkStep, LinkLost, OnDisconnected, ReconnFailed, Reconn, queryVars

LEMMA LinkTypeStep == TypeOK /\ [Next]_vars => LinkType'
<1> SUFFICES ASSUME LinkType, [Next]_vars PROVE LinkType'
  BY DEF TypeOK
<1> USE DEF loopVars, linkVars
<1>1. CASE UNCHANGED <<loopVars, linkVars>>
  BY <1>1 DEF LinkType
<1>2. CASE QueryStep
  <2>1. ASSUME NEW c \in Clients, NEW q \in Queries, NEW k \in Kinds, QueryBegin(c, q, k)
        PROVE  LinkType'
    BY <2>1 DEF QueryBegin, LinkType
  <2>2. CASE ApiQuery
    BY <2>2 DEF ApiQuery, LinkType
  <2>3. CASE ApiQueryFailed
    BY <2>3 DEF ApiQueryFailed, LinkType
  <2>4. ASSUME NEW f \in flight, OnQueryRow(f) \/ OnQueryLast(f) PROVE LinkType'
    <3>1. UNCHANGED <<loopVars, linkVars>>
      BY <2>4, Zenon DEF OnQueryRow, OnQueryLast
    <3> QED BY <1>1, <3>1
  <2>5. ASSUME NEW c \in Clients, NEW q \in Queries, NEW k \in Kinds, QueryRefused(c, q, k)
        PROVE  LinkType'
    BY <1>1, <2>5 DEF QueryRefused
  <2> QED BY <1>2, <2>1, <2>2, <2>3, <2>4, <2>5 DEF QueryStep
<1>3. CASE OrderStep
  <2>1. ASSUME NEW o \in Orders, InsertBegin(o) PROVE LinkType'
    BY <2>1 DEF InsertBegin, LinkType
  <2>2. CASE RecordOrder \/ ApiInsertOrder \/ ApiInsertFailed \/ CleanRecord
    BY <2>2 DEF RecordOrder, ApiInsertOrder, ApiInsertFailed, CleanRecord, LinkType
  <2>3. ASSUME NEW o, InsertRefused(o) \/ InsertBadDir(o) \/ OnOrderEvent(o) \/ OnForeignOrderEvent(o)
        PROVE  LinkType'
    BY <1>1, <2>3 DEF InsertRefused, InsertBadDir, OnOrderEvent, OnForeignOrderEvent
  <2> QED BY <1>3, <2>1, <2>2, <2>3 DEF OrderStep
<1>4. CASE LinkStep
  <2>1. xtp_session_id' \in 0..MaxLogin /\ logins' \in 1..MaxLogin
    BY <1>4, XtpTradeAssumption DEF LinkStep, LinkLost, OnDisconnected, ReconnFailed, Reconn, LinkType
  <2>2. api_ready' \in BOOLEAN /\ reconn' \in BOOLEAN /\ link' \in BOOLEAN
    BY <1>4, Zenon DEF LinkStep, LinkLost, OnDisconnected, ReconnFailed, Reconn, LinkType
  <2> QED BY <1>4, <2>1, <2>2, LinkFrame DEF LinkType
<1>5. CASE UNCHANGED vars
  BY <1>1, <1>5 DEF vars
<1> QED BY <1>2, <1>3, <1>4, <1>5, Steps

LEMMA OrderTypeStep == TypeOK /\ [Next]_vars => OrderType'
<1> SUFFICES ASSUME LinkType, OrderType, [Next]_vars PROVE OrderType'
  BY DEF TypeOK
<1>1. CASE UNCHANGED <<orderVars, feedVars>>
  BY <1>1 DEF OrderType, orderVars, feedVars
<1>2. CASE OrderStep
  <2>1. ASSUME NEW o \in Orders, InsertRefused(o) \/ InsertBadDir(o) PROVE OrderType'
    <3>1. refused' \in [Orders -> Nat]
      <4>1. refused \in [Orders -> Nat] /\ refused[o] + 1 \in Nat
        BY DEF OrderType
      <4> QED BY <2>1, <4>1 DEF InsertRefused, InsertBadDir, InsertError
    <3>2. order_ref' \in Nat \ {0}
      <4>1. order_ref' = order_ref \/ order_ref' = order_ref + 1
        BY <2>1 DEF InsertRefused, InsertBadDir, orderVars
      <4> QED BY <4>1 DEF OrderType
    <3>3. UNCHANGED <<ref, wait_deal, book, events, foreign, confirmed, told, recordedIn>>
      BY <2>1 DEF InsertRefused, InsertBadDir, orderVars
    <3> QED BY <3>1, <3>2, <3>3 DEF OrderType
  <2>8. ASSUME NEW o \in Orders, InsertBegin(o) PROVE OrderType'
    <3>1. order_ref' \in Nat \ {0} /\ order_ref \in Nat
      BY <2>8 DEF InsertBegin, OrderType
    <3> QED BY <2>8, <3>1 DEF InsertBegin, feedVars, OrderType
  <2>2. CASE RecordOrder
    <3>1. [ref |-> ref[cur], session |-> xtp_session_id, order |-> cur]
            \in [ref : Nat, session : 0..MaxLogin, order : Orders]
      BY <2>2 DEF RecordOrder, LinkType, OrderType
    <3> QED BY <2>2, <3>1 DEF RecordOrder, LinkType, OrderType
  <2>3. CASE ApiInsertOrder
    BY <2>3 DEF ApiInsertOrder, feedVars, OrderType
  <2>4. CASE CleanRecord
    <3>1. wait_deal' \subseteq [ref : Nat, session : 0..MaxLogin, order : Orders]
      BY <2>4 DEF CleanRecord, OrderType
    <3>2. refused' \in [Orders -> Nat]
      BY <2>4 DEF CleanRecord, InsertError, OrderType, LinkType
    <3> QED BY <2>4, <3>1, <3>2 DEF CleanRecord, OrderType
  <2>5. ASSUME NEW o \in Orders, OnOrderEvent(o) PROVE OrderType'
    <3>1. events' \in [Orders -> 0..MaxEvent]
      BY <2>5, XtpTradeAssumption DEF OnOrderEvent, OrderType
    <3>2. told' \in [Orders -> 0..MaxLogin]
      BY <2>5 DEF OnOrderEvent, OrderType, LinkType
    <3>3. /\ wait_deal' \subseteq [ref : Nat, session : 0..MaxLogin, order : Orders]
          /\ confirmed' \in [Orders -> Seq(Orders \cup {NoOrder})]
      BY <2>5, GetRecordType DEF OnOrderEvent
    <3> QED BY <2>5, <3>1, <3>2, <3>3 DEF OnOrderEvent, OrderType
  <2>6. ASSUME NEW r \in 1..order_ref, OnForeignOrderEvent(r) PROVE OrderType'
    <3>1. foreign' \subseteq Nat
      BY <2>6 DEF OnForeignOrderEvent, OrderType
    <3>2. /\ wait_deal' \subseteq [ref : Nat, session : 0..MaxLogin, order : Orders]
          /\ confirmed' \in [Orders -> Seq(Orders \cup {NoOrder})]
      BY <2>6, GetRecordType DEF OnForeignOrderEvent
    <3> QED BY <2>6, <3>1, <3>2 DEF OnForeignOrderEvent, OrderType
  <2>7. CASE ApiInsertFailed
    BY <1>1, <2>7 DEF ApiInsertFailed
  <2> QED BY <1>2, <2>1, <2>2, <2>3, <2>4, <2>5, <2>6, <2>7, <2>8 DEF OrderStep
<1> QED BY <1>1, <1>2, Steps, QueryFrame, LinkFrame DEF vars

-----------------------------------------------------------------------------
(* The orders.                                                              *)

\* Two records of an order are the same.
LEMMA RecordUnique ==
    ASSUME OrderType, RecordIsOwn, NEW v \in wait_deal, NEW w \in wait_deal, v.order = w.order
    PROVE  v = w
<1>1. v.ref = w.ref /\ v.session = w.session
  BY DEF RecordIsOwn
<1>2. /\ v \in [ref : Nat, session : 0..MaxLogin, order : Orders]
      /\ w \in [ref : Nat, session : 0..MaxLogin, order : Orders]
  BY DEF OrderType
<1> QED BY <1>1, <1>2

\* Under a reference and a session there is no record, or one, of the order that has
\* the reference, which was not confirmed.
LEMMA GetRecord ==
    ASSUME OrderType, RefIsOwn, RecordIsOwn, RecordIsWaiting,
           NEW r, NEW s, NEW id, GetAndCleanRecordOrder(r, s, id)
    PROVE  \/ /\ UNCHANGED <<wait_deal, confirmed>>
              /\ \A w \in wait_deal : ~(w.ref = r /\ w.session = s)
           \/ \E w \in wait_deal :
                 /\ w.order \in Orders /\ ref[w.order] = r /\ r # 0 /\ confirmed[w.order] = <<>>
                 /\ wait_deal' = wait_deal \ {w}
                 /\ confirmed' = [confirmed EXCEPT ![w.order] = <<id>>]
<1>1. CASE Recorded(r, s) = {}
  <2>1. wait_deal' = wait_deal
    BY <1>1 DEF GetAndCleanRecordOrder
  <2>2. confirmed' = [o \in Orders |-> confirmed[o]] /\ confirmed = [o \in Orders |-> confirmed[o]]
    BY <1>1 DEF GetAndCleanRecordOrder, OrderType
  <2> QED BY <1>1, <2>1, <2>2 DEF Recorded
<1>2. CASE Recorded(r, s) # {}
  <2>1. PICK w \in Recorded(r, s) : TRUE
    BY <1>2
  <2>2. w \in wait_deal /\ w.ref = r /\ w.session = s /\ w.order \in Orders
    BY <2>1 DEF Recorded, OrderType
  <2>3. ref[w.order] = r /\ r # 0 /\ confirmed[w.order] = <<>>
    BY <2>2 DEF RecordIsOwn, RecordIsWaiting
  <2>4. ASSUME NEW v \in Recorded(r, s) PROVE v = w
    <3>1. v \in wait_deal /\ v.ref = r /\ v.order \in Orders
      BY DEF Recorded, OrderType
    <3>2. v.order = w.order
      BY <2>2, <2>3, <3>1 DEF RecordIsOwn, RefIsOwn
    <3> QED BY <2>2, <3>1, <3>2, RecordUnique
  <2>5. Recorded(r, s) = {w}
    BY <2>1, <2>4
  <2>6. confirmed' = [confirmed EXCEPT ![w.order] = <<id>>]
    <3>1. confirmed' = [o \in Orders |-> IF w.order = o THEN Append(confirmed[o], id) ELSE confirmed[o]]
      BY <2>5 DEF GetAndCleanRecordOrder
    <3>2. Append(confirmed[w.order], id) = <<id>>
      BY <2>3
    <3> QED BY <2>2, <3>1, <3>2 DEF OrderType
  <2> QED BY <2>2, <2>3, <2>5, <2>6 DEF GetAndCleanRecordOrder
<1> QED BY <1>1, <1>2

LEMMA OrderInit == Init => OrderInv
<1> SUFFICES ASSUME Init PROVE OrderInv
  OBVIOUS
<1>1. \A o \in Orders : Len(confirmed[o]) = 0 /\ confirmed[o] = <<>>
  BY DEF Init
<1> QED BY <1>1 DEF Init, OrderInv, ConfirmedOnce, RecordIsWaiting, RefusedIsNot, RefIsOwn,
           RecordIsOwn, InHand, OrderStands

\* Steps that touch no order: the loop reads, or queries.
LEMMA OrderKept ==
    ASSUME OrderInv, UNCHANGED <<orderVars, feedVars, xtp_session_id, logins>>,
           UNCHANGED loopVars \/ at' \in {"read", "query"}
    PROVE  OrderInv'
<1> USE DEF orderVars, feedVars, loopVars, OrderInv
<1>1. ConfirmedOnce' /\ RecordIsWaiting' /\ RefusedIsNot' /\ RefIsOwn'
  BY DEF ConfirmedOnce, RecordIsWaiting, RefusedIsNot, RefIsOwn
<1>2. RecordIsOwn' /\ InHand' /\ OrderStands'
  BY DEF RecordIsOwn, InHand, OrderStands
<1> QED BY <1>1, <1>2

\* A session is lost or renewed: a record of a session that is over stays as it is.
LEMMA OrderLink == ASSUME TypeOK, OrderInv, LinkStep PROVE OrderInv'
<1>1. CASE LinkLost \/ OnDisconnected
  BY <1>1, OrderKept DEF LinkLost, OnDisconnected
<1>2. CASE ReconnFailed \/ Reconn
  <2>1. UNCHANGED <<loopVars, orderVars, feedVars>> /\ logins \in Nat
    BY <1>2 DEF ReconnFailed, Reconn, TypeOK, LinkType
  <2>2. \/ xtp_session_id' = 0 /\ logins' = logins
        \/ xtp_session_id' = logins + 1 /\ logins' = logins + 1
    BY <1>2 DEF ReconnFailed, Reconn
  <2>3. ConfirmedOnce' /\ RefusedIsNot' /\ InHand' /\ OrderStands'
    BY <2>1 DEF OrderInv, ConfirmedOnce, RefusedIsNot, InHand, OrderStands, orderVars, feedVars, loopVars
  <2>4. RefIsOwn'
    BY <2>1, <2>2 DEF OrderInv, RefIsOwn, orderVars
  <2>5. \A w \in wait_deal : w.session \in Nat
    BY DEF TypeOK, OrderType
  <2>6. RecordIsOwn'
    BY <2>1, <2>2, <2>5 DEF OrderInv, RecordIsOwn, orderVars, feedVars, loopVars
  <2>7. RecordIsWaiting'
    BY <2>1, <2>2, <2>5 DEF OrderInv, RecordIsOwn, RecordIsWaiting, orderVars, feedVars
  <2> QED BY <2>3, <2>4, <2>6, <2>7 DEF OrderInv
<1> QED BY <1>1, <1>2 DEF LinkStep

\* A message that comes to nothing: its order is none that the exchange has.
LEMMA OrderRefused ==
    ASSUME TypeOK, OrderInv, NEW o \in Orders, InsertRefused(o) \/ InsertBadDir(o)
    PROVE  OrderInv'
<1>1. /\ UNCHANGED <<loopVars, linkVars, ref, wait_deal, book, foreign, confirmed, told, recordedIn>>
      /\ at = "read" /\ ref[o] = 0 /\ refused[o] = 0
      /\ refused' = [refused EXCEPT ![o] = @ + 1]
  BY DEF InsertRefused, InsertBadDir, InsertError, Idle, Fresh, orderVars
<1>2. order_ref' \in {order_ref, order_ref + 1} /\ order_ref \in Nat
  BY DEF InsertRefused, InsertBadDir, TypeOK, OrderType, orderVars
<1>3. /\ refused'[o] = 1 /\ book[o] = "none" /\ confirmed[o] = <<>>
      /\ \A p \in Orders \ {o} : refused'[p] = refused[p]
  BY <1>1 DEF TypeOK, OrderType, OrderInv, OrderStands
<1>4. \A w \in wait_deal : w.order \in Orders /\ w.order # o
  BY <1>1 DEF OrderInv, RecordIsOwn, TypeOK, OrderType
<1> USE DEF OrderInv, loopVars, linkVars
<1>5. ConfirmedOnce' /\ RecordIsOwn' /\ InHand' /\ OrderStands'
  BY <1>1 DEF ConfirmedOnce, RecordIsOwn, InHand, OrderStands
<1>6. RecordIsWaiting'
  BY <1>1, <1>3, <1>4 DEF RecordIsWaiting
<1>7. RefusedIsNot'
  BY <1>1, <1>3 DEF RefusedIsNot
<1>8. RefIsOwn'
  BY <1>1, <1>2 DEF RefIsOwn, TypeOK, OrderType
<1> QED BY <1>5, <1>6, <1>7, <1>8

\* The order gets a reference that no other has.
LEMMA OrderBegin == ASSUME TypeOK, OrderInv, NEW o \in Orders, InsertBegin(o) PROVE OrderInv'
<1>1. /\ UNCHANGED <<linkVars, wait_deal, book, foreign, feedVars>>
      /\ at' = "record" /\ cur' = o /\ ref[o] = 0 /\ refused[o] = 0
      /\ ref' = [ref EXCEPT ![o] = order_ref] /\ order_ref' = order_ref + 1
  BY DEF InsertBegin, Fresh
<1>2. /\ order_ref \in Nat \ {0} /\ ref \in [Orders -> Nat]
      /\ \A p \in Orders : ref[p] \in Nat /\ ref[p] < order_ref
  BY DEF TypeOK, OrderType, OrderInv, RefIsOwn
<1>3. book[o] = "none" /\ confirmed[o] = <<>> /\ told[o] = 0
  BY <1>1 DEF OrderInv, OrderStands
<1>4. \A w \in wait_deal : w.order \in Orders /\ w.order # o
  BY <1>1 DEF OrderInv, RecordIsOwn, TypeOK, OrderType
<1>5. ref'[o] = order_ref /\ \A p \in Orders \ {o} : ref'[p] = ref[p]
  BY <1>1, <1>2
<1> USE DEF OrderInv, linkVars, feedVars
<1>6. ConfirmedOnce' /\ InHand'
  BY <1>1, <1>2, <1>3, <1>5 DEF ConfirmedOnce, InHand
<1>7. RecordIsOwn' /\ RecordIsWaiting'
  BY <1>1, <1>4, <1>5 DEF RecordIsOwn, RecordIsWaiting
<1>8. RefusedIsNot'
  BY <1>1, <1>5 DEF RefusedIsNot
<1>9. RefIsOwn'
  BY <1>1, <1>2, <1>5 DEF RefIsOwn
<1>10. OrderStands'
  BY <1>1, <1>2, <1>3, <1>5 DEF OrderStands
<1> QED BY <1>6, <1>7, <1>8, <1>9, <1>10

\* The order in hand gets its record, the only one.
LEMMA OrderRecord == ASSUME TypeOK, OrderInv, RecordOrder PROVE OrderInv'
<1> DEFINE new == [ref |-> ref[cur], session |-> xtp_session_id, order |-> cur]
<1>1. cur \in Orders /\ at = "record" /\ at' = "insert" /\ cur' = cur
  BY DEF RecordOrder, TypeOK, LinkType
<1>2. /\ ref[cur] # 0 /\ refused[cur] = 0 /\ book[cur] = "none" /\ confirmed[cur] = <<>>
      /\ told[cur] = 0
  BY <1>1 DEF OrderInv, InHand, OrderStands
<1>3. \A w \in wait_deal : w.order \in Orders /\ w.order # cur
  BY <1>1 DEF OrderInv, RecordIsOwn, TypeOK, OrderType
<1>4. wait_deal' = wait_deal \cup {new}
  <2>1. ASSUME NEW w \in Recorded(ref[cur], xtp_session_id) PROVE FALSE
    <3>1. w \in wait_deal /\ ref[w.order] = ref[cur]
      BY DEF Recorded, OrderInv, RecordIsOwn
    <3> QED BY <1>1, <1>2, <1>3, <3>1 DEF OrderInv, RefIsOwn
  <2> QED BY <2>1 DEF RecordOrder
<1>5. /\ UNCHANGED <<linkVars, order_ref, ref, book, foreign, confirmed, told, refused>>
      /\ recordedIn'[cur] = xtp_session_id
      /\ \A p \in Orders \ {cur} : recordedIn'[p] = recordedIn[p]
  BY <1>1 DEF RecordOrder, TypeOK, OrderType
<1>6. new.ref = ref[cur] /\ new.session = xtp_session_id /\ new.order = cur
  OBVIOUS
<1>7. xtp_session_id <= logins
  BY DEF TypeOK, LinkType, OrderInv, RefIsOwn
<1> HIDE DEF new
<1> USE DEF OrderInv, linkVars
<1>8. ConfirmedOnce' /\ RefusedIsNot' /\ RefIsOwn' /\ InHand'
  BY <1>1, <1>5 DEF ConfirmedOnce, RefusedIsNot, RefIsOwn, InHand
<1>9. RecordIsOwn'
  BY <1>1, <1>2, <1>3, <1>4, <1>5, <1>6, <1>7 DEF RecordIsOwn
<1>10. RecordIsWaiting'
  BY <1>2, <1>3, <1>4, <1>5, <1>6 DEF RecordIsWaiting
<1>11. OrderStands'
  BY <1>1, <1>4, <1>5, <1>6 DEF OrderStands
<1> QED BY <1>8, <1>9, <1>10, <1>11

\* XTP takes the order, or it does not.
LEMMA OrderInsert ==
    ASSUME TypeOK, OrderInv, ApiInsertOrder \/ ApiInsertFailed PROVE OrderInv'
<1>1. cur \in Orders /\ at = "insert" /\ at' \in {"read", "clean"}
  BY DEF ApiInsertOrder, ApiInsertFailed, TypeOK, LinkType
<1>2. UNCHANGED <<linkVars, order_ref, ref, wait_deal, foreign, feedVars>>
  BY DEF ApiInsertOrder, ApiInsertFailed, orderVars
<1>3. /\ \A p \in Orders \ {cur} : book'[p] = book[p]
      /\ book'[cur] = "live" \/ (book' = book /\ at' = "clean" /\ cur' = cur)
      /\ at' = "clean" => book' = book /\ cur' = cur
  BY <1>1 DEF ApiInsertOrder, ApiInsertFailed, orderVars, TypeOK, OrderType
<1>4. ref[cur] # 0 /\ refused[cur] = 0 /\ book[cur] = "none" /\ told[cur] = 0
  BY <1>1 DEF OrderInv, InHand, OrderStands
<1> USE DEF OrderInv, linkVars, feedVars
<1>5. ConfirmedOnce' /\ RecordIsWaiting' /\ RefIsOwn'
  BY <1>2 DEF ConfirmedOnce, RecordIsWaiting, RefIsOwn
<1>6. RefusedIsNot'
  BY <1>2, <1>3, <1>4 DEF RefusedIsNot
<1>7. RecordIsOwn' /\ InHand'
  BY <1>1, <1>2, <1>3, <1>4 DEF RecordIsOwn, InHand
<1>8. OrderStands'
  BY <1>1, <1>2, <1>3, <1>4 DEF OrderStands
<1> QED BY <1>5, <1>6, <1>7, <1>8

\* The record of the order in hand goes, if it is under the session of now; one that
\* stays is of a session that is over.
LEMMA OrderClean == ASSUME TypeOK, OrderInv, CleanRecord PROVE OrderInv'
<1>1. cur \in Orders /\ at = "clean" /\ at' = "read"
  BY DEF CleanRecord, TypeOK, LinkType
<1>2. /\ UNCHANGED <<linkVars, order_ref, ref, book, foreign, confirmed, told, recordedIn>>
      /\ wait_deal' = wait_deal \ Recorded(ref[cur], xtp_session_id)
      /\ refused' = [refused EXCEPT ![cur] = @ + 1]
  BY DEF CleanRecord, InsertError
<1>3. ref[cur] # 0 /\ refused[cur] = 0 /\ book[cur] = "none"
  BY <1>1 DEF OrderInv, InHand
<1>4. refused'[cur] = 1 /\ \A p \in Orders \ {cur} : refused'[p] = refused[p]
  BY <1>1, <1>2, <1>3 DEF TypeOK, OrderType
<1>5. /\ wait_deal' \subseteq wait_deal
      /\ \A w \in wait_deal : w.order \in Orders
      /\ \A w \in wait_deal : w.order # cur => w \in wait_deal'
      /\ \A w \in wait_deal' : w.order = cur => w.session # xtp_session_id
  <2>1. \A w \in wait_deal : w.order \in Orders /\ w.ref = ref[w.order]
    BY DEF TypeOK, OrderType, OrderInv, RecordIsOwn
  <2>2. \A p \in Orders : ref[p] = ref[cur] => p = cur
    BY <1>1, <1>3 DEF OrderInv, RefIsOwn
  <2> QED BY <1>2, <2>1, <2>2 DEF Recorded
<1> USE DEF OrderInv, linkVars
<1>6. ConfirmedOnce' /\ RefIsOwn' /\ RecordIsOwn' /\ InHand'
  BY <1>1, <1>2, <1>5 DEF ConfirmedOnce, RefIsOwn, RecordIsOwn, InHand
<1>7. RecordIsWaiting'
  BY <1>2, <1>4, <1>5 DEF RecordIsWaiting
<1>8. RefusedIsNot'
  BY <1>1, <1>2, <1>3, <1>4 DEF RefusedIsNot, OrderStands
<1>9. OrderStands'
  BY <1>1, <1>2, <1>3, <1>5 DEF OrderStands
<1> QED BY <1>6, <1>7, <1>8, <1>9

\* What an event does to the records, and to the confirmation of the order in hand,
\* leaves the rest of the invariant alone.
LEMMA RecordTaken ==
    ASSUME TypeOK, OrderInv, NEW w \in wait_deal, NEW id, confirmed[w.order] = <<>>,
           wait_deal' = wait_deal \ {w}, confirmed' = [confirmed EXCEPT ![w.order] = <<id>>],
           UNCHANGED <<loopVars, linkVars, order_ref, ref, recordedIn>>
    PROVE  /\ ConfirmedOnce' /\ RefIsOwn' /\ RecordIsOwn'
           /\ w.order \in Orders /\ (at = "record" => w.order # cur)
           /\ confirmed'[w.order] = <<id>>
           /\ \A p \in Orders \ {w.order} : confirmed'[p] = confirmed[p]
           /\ \A v \in wait_deal' : v \in wait_deal /\ v.order \in Orders /\ v.order # w.order
           /\ \A v \in wait_deal : v.order # w.order => v \in wait_deal'
<1>1. w.order \in Orders /\ (at = "record" => w.order # cur)
  BY DEF TypeOK, OrderType, OrderInv, RecordIsOwn
<1>2. confirmed'[w.order] = <<id>> /\ \A p \in Orders \ {w.order} : confirmed'[p] = confirmed[p]
  BY <1>1 DEF TypeOK, OrderType
<1>3. \A v \in wait_deal' : v \in wait_deal /\ v.order \in Orders /\ v.order # w.order
  BY RecordUnique DEF TypeOK, OrderType, OrderInv
<1>4. ConfirmedOnce'
  <2>1. Len(<<id>>) = 1
    OBVIOUS
  <2> QED BY <1>2, <2>1 DEF OrderInv, ConfirmedOnce
<1>5. RefIsOwn' /\ RecordIsOwn'
  BY <1>3 DEF OrderInv, RefIsOwn, RecordIsOwn, loopVars, linkVars
<1> QED BY <1>1, <1>2, <1>3, <1>4, <1>5

\* An event of an order that XTP has.
LEMMA OrderEvent == ASSUME TypeOK, OrderInv, NEW o \in Orders, OnOrderEvent(o) PROVE OrderInv'
<1>1. /\ UNCHANGED <<loopVars, linkVars, order_ref, ref, foreign, refused, recordedIn>>
      /\ GetAndCleanRecordOrder(ref[o], logins, o)
      /\ book[o] = "live" /\ \E b \in {"live", "over"} : book' = [book EXCEPT ![o] = b]
      /\ told' = [told EXCEPT ![o] = IF @ = 0 THEN logins ELSE @]
  BY DEF OnOrderEvent
<1>2. /\ book'[o] # "none" /\ \A p \in Orders \ {o} : book'[p] = book[p] /\ told'[p] = told[p]
      /\ ref[o] # 0 /\ (at \in {"record", "insert", "clean"} => cur # o)
  BY <1>1 DEF TypeOK, OrderType, OrderInv, OrderStands, InHand
<1>3. refused[o] = 0
  <2>1. refused[o] \in Nat
    BY DEF TypeOK, OrderType
  <2>2. ~(refused[o] > 0)
    BY <1>1 DEF OrderInv, RefusedIsNot
  <2> QED BY <2>1, <2>2
<1> USE DEF OrderInv, loopVars, linkVars
<1>4. CASE /\ UNCHANGED <<wait_deal, confirmed>>
           /\ \A w \in wait_deal : ~(w.ref = ref[o] /\ w.session = logins)
  <2>1. ConfirmedOnce' /\ RefIsOwn' /\ RecordIsOwn' /\ InHand' /\ RefusedIsNot'
    BY <1>1, <1>2, <1>3, <1>4 DEF ConfirmedOnce, RefIsOwn, RecordIsOwn, InHand, RefusedIsNot
  <2>2. RecordIsWaiting'
    <3>1. \A w \in wait_deal : w.order \in Orders
      BY DEF TypeOK, OrderType
    <3>2. \A w \in wait_deal : w.session = xtp_session_id /\ w.session # 0 => w.order # o
      BY <1>4 DEF RecordIsOwn, RefIsOwn
    <3> QED BY <1>1, <1>2, <1>4, <3>1, <3>2 DEF RecordIsWaiting
  <2>3. OrderStands'
    BY <1>1, <1>2, <1>4 DEF OrderStands
  <2> QED BY <2>1, <2>2, <2>3
<1>5. ASSUME NEW w \in wait_deal, w.order \in Orders, ref[w.order] = ref[o], confirmed[w.order] = <<>>,
             wait_deal' = wait_deal \ {w}, confirmed' = [confirmed EXCEPT ![w.order] = <<o>>]
      PROVE  OrderInv'
  <2>1. w.order = o
    BY <1>2, <1>5 DEF RefIsOwn
  <2>2. /\ ConfirmedOnce' /\ RefIsOwn' /\ RecordIsOwn'
        /\ confirmed'[o] = <<o>> /\ \A p \in Orders \ {o} : confirmed'[p] = confirmed[p]
        /\ \A v \in wait_deal' : v \in wait_deal /\ v.order \in Orders /\ v.order # o
        /\ \A v \in wait_deal : v.order # o => v \in wait_deal'
    BY <1>1, <1>5, <2>1, RecordTaken
  <2>3. InHand' /\ RefusedIsNot'
    BY <1>1, <1>2, <1>3, <2>2 DEF InHand, RefusedIsNot, TypeOK, LinkType
  <2>4. RecordIsWaiting'
    BY <1>1, <1>2, <2>2 DEF RecordIsWaiting
  <2>5. OrderStands'
    <3>1. <<o>> # <<>>
      OBVIOUS
    <3> QED BY <1>1, <1>2, <2>2, <3>1 DEF OrderStands
  <2> QED BY <2>2, <2>3, <2>4, <2>5
<1> QED BY <1>1, <1>4, <1>5, GetRecord DEF TypeOK

\* An event of another program's order, whose reference may be that of one of ours.
LEMMA OrderForeign ==
    ASSUME TypeOK, OrderInv, NEW r \in 1..order_ref, OnForeignOrderEvent(r) PROVE OrderInv'
<1>1. /\ UNCHANGED <<loopVars, linkVars, order_ref, ref, book, told, refused, recordedIn>>
      /\ GetAndCleanRecordOrder(r, logins, NoOrder) /\ foreign' = foreign \cup {r}
  BY DEF OnForeignOrderEvent
<1> USE DEF OrderInv, loopVars, linkVars
<1>2. CASE UNCHANGED <<wait_deal, confirmed>>
  <2>1. ConfirmedOnce' /\ RecordIsWaiting' /\ RefIsOwn' /\ RecordIsOwn' /\ InHand'
    BY <1>1, <1>2 DEF ConfirmedOnce, RecordIsWaiting, RefIsOwn, RecordIsOwn, InHand
  <2>2. RefusedIsNot' /\ OrderStands'
    BY <1>1, <1>2 DEF RefusedIsNot, OrderStands
  <2> QED BY <2>1, <2>2
<1>3. ASSUME NEW w \in wait_deal, w.order \in Orders, ref[w.order] = r, r # 0, confirmed[w.order] = <<>>,
             wait_deal' = wait_deal \ {w}, confirmed' = [confirmed EXCEPT ![w.order] = <<NoOrder>>]
      PROVE  OrderInv'
  <2> DEFINE o == w.order
  <2>2. /\ ConfirmedOnce' /\ RefIsOwn' /\ RecordIsOwn' /\ (at = "record" => o # cur)
        /\ confirmed'[o] = <<NoOrder>> /\ \A p \in Orders \ {o} : confirmed'[p] = confirmed[p]
        /\ \A v \in wait_deal' : v \in wait_deal /\ v.order \in Orders /\ v.order # o
        /\ \A v \in wait_deal : v.order # o => v \in wait_deal'
    BY <1>1, <1>3, RecordTaken
  <2>1. o \in Orders /\ ref[o] \in foreign' /\ ref[o] # 0
    BY <1>1, <1>3
  <2> HIDE DEF o
  <2>3. InHand'
    BY <1>1, <2>2 DEF InHand, TypeOK, LinkType
  <2>4. RecordIsWaiting'
    BY <1>1, <2>2 DEF RecordIsWaiting
  <2>5. RefusedIsNot'
    BY <1>1, <2>1, <2>2 DEF RefusedIsNot
  <2>6. OrderStands'
    <3>1. <<NoOrder>> # <<>>
      OBVIOUS
    <3> QED BY <1>1, <2>1, <2>2, <3>1 DEF OrderStands
  <2> QED BY <2>2, <2>3, <2>4, <2>5, <2>6
<1> QED BY <1>1, <1>2, <1>3, GetRecord DEF TypeOK

LEMMA OrderInvStep == TypeOK /\ OrderInv /\ [Next]_vars => OrderInv'
<1> SUFFICES ASSUME TypeOK, OrderInv, [Next]_vars PROVE OrderInv'
  OBVIOUS
<1>1. CASE UNCHANGED vars
  BY <1>1, OrderKept DEF vars, linkVars
<1>2. CASE QueryStep
  BY <1>2, QueryFrame, OrderKept DEF linkVars
<1>3. CASE OrderStep
  BY <1>3, OrderRefused, OrderBegin, OrderRecord, OrderInsert, OrderClean, OrderEvent, OrderForeign
     DEF OrderStep
<1> QED BY <1>1, <1>2, <1>3, OrderLink, Steps

-----------------------------------------------------------------------------
(* The queries.                                                             *)

LEMMA QueryInit == Init => QueryInv
<1> SUFFICES ASSUME Init PROVE QueryInv
  OBVIOUS
<1>1. \A k \in Kinds : DOMAIN qry[k] = {} /\ DOMAIN rsp[k] = {}
  BY EmptyFacts DEF Init
<1>2. DOMAIN qry_ws = {} /\ flight = {} /\ at = "read"
  BY EmptyFacts DEF Init
<1> QED BY <1>1, <1>2 DEF Init, QueryInv, CachedIsPending, IdIsOwn, FlightIsCached, OnlyAsked

\* A cached query was asked, by the client and as the kind it is cached for.
LEMMA CachedAsked ==
    ASSUME QueryType, QueryInv, NEW k \in Kinds, NEW i \in DOMAIN qry[k]
    PROVE  /\ qry[k][i] \in Queries /\ i \in Nat /\ i \in DOMAIN qry_ws /\ qry_ws[i] \in Clients
           /\ asker[qry[k][i]].kind = k /\ asker[qry[k][i]].ws = qry_ws[i]
           /\ asker[qry[k][i]] # NotAsked
           /\ delivered[qry[k][i]] = <<>> /\ errors[qry[k][i]] = 0
<1>1. /\ qry[k][i] \in Queries /\ i \in Nat /\ i \in DOMAIN qry_ws /\ qry_ws[i] \in Clients
      /\ asker[qry[k][i]] = [ws |-> qry_ws[i], kind |-> k]
      /\ delivered[qry[k][i]] = <<>> /\ errors[qry[k][i]] = 0
  BY DEF QueryType, QueryInv, CachedIsPending
<1>2. NotAsked.ws = NoWs
  BY DEF NotAsked
<1> QED BY <1>1, <1>2, XtpTradeAssumption

\* The entry a flight is answered from.
LEMMA FlightEntry ==
    ASSUME QueryType, QueryInv, NEW f \in flight
    PROVE  LET k == asker[f.query].kind IN
           /\ f \in [id : Nat, query : Queries, rows : 0..MaxRows]
           /\ k \in Kinds /\ f.id \in DOMAIN qry[k] /\ qry[k][f.id] = f.query
           /\ f.id < req_id /\ Len(Rows(k, f.id)) <= f.rows
BY DEF QueryType, QueryInv, FlightIsCached

\* Steps that touch no query.
LEMMA QueryKept ==
    ASSUME QueryType, QueryInv, UNCHANGED <<cacheVars, asker, delivered, errors>>,
           flight' = flight \/ flight' = {},
           UNCHANGED loopVars \/ (at # "query" /\ at' # "query")
    PROVE  QueryType' /\ QueryInv'
<1> USE DEF cacheVars, loopVars, QueryInv
<1>1. QueryType'
  BY DEF QueryType
<1>2. CachedIsPending' /\ OnlyAsked'
  BY DEF CachedIsPending, OnlyAsked
<1>3. IdIsOwn'
  BY DEF IdIsOwn
<1>4. FlightIsCached'
  BY DEF FlightIsCached, Rows
<1> QED BY <1>1, <1>2, <1>3, <1>4

\* A query that is refused at once.
LEMMA QueryRefusedStep ==
    ASSUME TypeOK, QueryInv, NEW c \in Clients, NEW q \in Queries, NEW k \in Kinds, QueryRefused(c, q, k)
    PROVE  QueryType' /\ QueryInv'
<1>1. /\ UNCHANGED <<loopVars, cacheVars, flight, delivered>> /\ asker[q] = NotAsked
      /\ asker' = [asker EXCEPT ![q] = [ws |-> c, kind |-> k]]
      /\ errors' = [errors EXCEPT ![q] = @ + 1]
  BY DEF QueryRefused, QueryError
<1>2. QueryType /\ asker \in [Queries -> [ws : Clients, kind : Kinds] \cup {NotAsked}]
      /\ errors \in [Queries -> Nat]
  BY DEF TypeOK, QueryType
<1>3. /\ asker'[q] = [ws |-> c, kind |-> k]
      /\ \A p \in Queries \ {q} : asker'[p] = asker[p] /\ errors'[p] = errors[p]
  BY <1>1, <1>2
<1>4. \A l \in Kinds : \A i \in DOMAIN qry[l] : qry[l][i] \in Queries \ {q}
  BY <1>1, <1>2, CachedAsked
<1>5. \A f \in flight : f.query \in Queries \ {q}
  BY <1>2, <1>4, FlightEntry
<1> USE DEF cacheVars, loopVars, QueryInv
<1>6. QueryType'
  <2>1. asker' \in [Queries -> [ws : Clients, kind : Kinds] \cup {NotAsked}] /\ errors' \in [Queries -> Nat]
    BY <1>1, <1>2
  <2> QED BY <1>1, <1>2, <2>1 DEF QueryType
<1>7. CachedIsPending'
  BY <1>1, <1>3, <1>4 DEF CachedIsPending
<1>8. IdIsOwn'
  BY <1>1 DEF IdIsOwn
<1>9. FlightIsCached'
  <2>1. at = "read"
    BY DEF QueryRefused, Idle
  <2> QED BY <1>1, <1>3, <1>5, <2>1 DEF FlightIsCached, Rows
<1>10. OnlyAsked'
  <2>1. [ws |-> c, kind |-> k] # NotAsked
    BY XtpTradeAssumption DEF NotAsked
  <2> QED BY <1>1, <1>3, <2>1 DEF OnlyAsked
<1> QED BY <1>6, <1>7, <1>8, <1>9, <1>10

\* A query is cached under the next id.
LEMMA QueryBeginStep ==
    ASSUME TypeOK, QueryInv, NEW c \in Clients, NEW q \in Queries, NEW k \in Kinds, QueryBegin(c, q, k)
    PROVE  QueryType' /\ QueryInv'
<1>1. /\ UNCHANGED <<req_id, rsp, flight, delivered, errors>> /\ asker[q] = NotAsked
      /\ asker' = [asker EXCEPT ![q] = [ws |-> c, kind |-> k]]
      /\ at = "read" /\ at' = "query" /\ cur' = q
      /\ qry_ws' = Put(qry_ws, req_id, c)
      /\ qry' = [qry EXCEPT ![k] = Put(qry[k], req_id, q)]
  BY DEF QueryBegin, CacheQry, Idle
<1>2. /\ QueryType /\ asker \in [Queries -> [ws : Clients, kind : Kinds] \cup {NotAsked}]
      /\ req_id \in Nat /\ DOMAIN qry = Kinds
  BY DEF TypeOK, QueryType
<1>3. asker'[q] = [ws |-> c, kind |-> k] /\ \A p \in Queries \ {q} : asker'[p] = asker[p]
  BY <1>1, <1>2
<1>4. \A l \in Kinds : \A i \in DOMAIN qry[l] : qry[l][i] \in Queries \ {q}
  BY <1>1, <1>2, CachedAsked
<1>5. \A f \in flight : f.query \in Queries \ {q} /\ f.id # req_id
  BY <1>2, <1>4, FlightEntry
<1>6. /\ req_id \notin DOMAIN qry_ws
      /\ \A l \in Kinds : req_id \notin DOMAIN qry[l] /\ req_id \notin DOMAIN rsp[l]
  <2>1. req_id \notin DOMAIN qry_ws
    BY <1>1, <1>2 DEF QueryInv, IdIsOwn
  <2> QED BY <2>1 DEF QueryInv, CachedIsPending
<1>7. /\ DOMAIN qry_ws' = DOMAIN qry_ws \cup {req_id} /\ qry_ws'[req_id] = c
      /\ \A i \in DOMAIN qry_ws : qry_ws'[i] = qry_ws[i]
  BY <1>1, <1>6 DEF Put
<1>8. /\ DOMAIN qry' = Kinds
      /\ DOMAIN qry'[k] = DOMAIN qry[k] \cup {req_id} /\ qry'[k][req_id] = q
      /\ \A l \in Kinds \ {k} : DOMAIN qry'[l] = DOMAIN qry[l]
      /\ \A l \in Kinds : \A i \in DOMAIN qry[l] : i \in DOMAIN qry'[l] /\ qry'[l][i] = qry[l][i]
  <2>1. DOMAIN qry' = Kinds /\ \A l \in Kinds \ {k} : qry'[l] = qry[l]
    BY <1>1, <1>2
  <2>2. qry'[k] = Put(qry[k], req_id, q)
    BY <1>1, <1>2
  <2>3. DOMAIN qry'[k] = DOMAIN qry[k] \cup {req_id} /\ qry'[k][req_id] = q
    BY <2>2 DEF Put
  <2>4. \A i \in DOMAIN qry[k] : qry'[k][i] = qry[k][i]
    BY <1>6, <2>2 DEF Put
  <2> QED BY <2>1, <2>3, <2>4
<1> USE DEF QueryInv
<1>9. QueryType'
  <2>1. asker' \in [Queries -> [ws : Clients, kind : Kinds] \cup {NotAsked}]
    BY <1>1, <1>2
  <2>2. DOMAIN qry_ws' \subseteq Nat /\ \A i \in DOMAIN qry_ws' : qry_ws'[i] \in Clients
    BY <1>2, <1>7 DEF QueryType
  <2>3. \A l \in Kinds : DOMAIN qry'[l] \subseteq Nat /\ \A i \in DOMAIN qry'[l] : qry'[l][i] \in Queries
    <3>1. ASSUME NEW l \in Kinds, NEW i \in DOMAIN qry'[l] PROVE i \in Nat /\ qry'[l][i] \in Queries
      <4>1. CASE i \in DOMAIN qry[l]
        BY <1>2, <1>8, <4>1 DEF QueryType
      <4>2. CASE l = k /\ i = req_id
        BY <1>2, <1>8, <4>2
      <4> QED BY <1>8, <4>1, <4>2
    <3> QED BY <3>1
  <2> QED BY <1>1, <1>2, <1>8, <2>1, <2>2, <2>3 DEF QueryType
<1>10. CachedIsPending'
  <2>1. delivered[q] = <<>> /\ errors[q] = 0
    BY <1>1 DEF OnlyAsked
  <2>2. \A i \in DOMAIN qry_ws' : \E l \in Kinds : i \in DOMAIN qry'[l]
    BY <1>7, <1>8 DEF CachedIsPending
  <2>3. ASSUME NEW l \in Kinds, NEW i \in DOMAIN qry'[l]
        PROVE  /\ i \in DOMAIN qry_ws'
               /\ asker'[qry'[l][i]] = [ws |-> qry_ws'[i], kind |-> l]
               /\ delivered'[qry'[l][i]] = <<>> /\ errors'[qry'[l][i]] = 0
    <3>1. CASE i \in DOMAIN qry[l]
      <4>1. /\ i \in DOMAIN qry_ws /\ asker[qry[l][i]] = [ws |-> qry_ws[i], kind |-> l]
            /\ delivered[qry[l][i]] = <<>> /\ errors[qry[l][i]] = 0
        BY <3>1 DEF CachedIsPending
      <4>2. asker'[qry[l][i]] = asker[qry[l][i]]
        BY <1>3, <1>4, <3>1
      <4>3. qry'[l][i] = qry[l][i] /\ qry_ws'[i] = qry_ws[i] /\ i \in DOMAIN qry_ws'
        BY <1>7, <1>8, <3>1, <4>1
      <4> QED BY <1>1, <4>1, <4>2, <4>3
    <3>2. CASE l = k /\ i = req_id
      BY <1>1, <1>3, <1>7, <1>8, <2>1, <3>2
    <3> QED BY <1>8, <3>1, <3>2
  <2>4. ASSUME NEW l \in Kinds, NEW i \in DOMAIN rsp'[l]
        PROVE  i \in DOMAIN qry'[l] /\ \A n \in 1..Len(rsp'[l][i]) : rsp'[l][i][n] = qry'[l][i]
    BY <1>1, <1>8 DEF CachedIsPending
  <2> QED BY <2>2, <2>3, <2>4 DEF CachedIsPending
<1>11. IdIsOwn'
  <2>1. \A i \in DOMAIN qry_ws' : i < req_id' \/ (i = req_id' /\ at' = "query")
    BY <1>1, <1>7 DEF IdIsOwn
  <2>2. ASSUME NEW l \in Kinds, NEW m \in Kinds, NEW i \in DOMAIN qry'[l], NEW j \in DOMAIN qry'[m]
        PROVE  (i = j => l = m) /\ (qry'[l][i] = qry'[m][j] => i = j)
    BY <1>4, <1>6, <1>8 DEF IdIsOwn
  <2> QED BY <1>1, <2>1, <2>2 DEF IdIsOwn
<1>12. FlightIsCached'
  <2>1. \A f \in flight : /\ asker'[f.query] = asker[f.query]
                           /\ Rows(asker[f.query].kind, f.id)' = Rows(asker[f.query].kind, f.id)
    BY <1>1, <1>3, <1>5 DEF Rows
  <2>2. \A f \in flight : Rows(asker[f.query].kind, f.id)' = Rows(asker[f.query].kind, f.id)
    BY <2>1
  <2> QED BY <1>1, <1>2, <1>3, <1>5, <1>8, <2>1 DEF FlightIsCached, Rows
<1>13. OnlyAsked'
  <2>1. [ws |-> c, kind |-> k] # NotAsked
    BY XtpTradeAssumption DEF NotAsked
  <2> QED BY <1>1, <1>3, <2>1 DEF OnlyAsked
<1> QED BY <1>9, <1>10, <1>11, <1>12, <1>13

\* What an entry leaves behind in the cache, which no other entry shares.
LEMMA EntryCleared ==
    ASSUME QueryType, QueryInv, NEW k \in Kinds, NEW i \in DOMAIN qry[k], GetAndClear(k, i)
    PROVE  /\ DOMAIN qry_ws' = DOMAIN qry_ws \ {i} /\ \A j \in DOMAIN qry_ws' : qry_ws'[j] = qry_ws[j]
           /\ DOMAIN qry' = Kinds
           /\ \A l \in Kinds : \A j \in DOMAIN qry'[l] :
                 /\ j \in DOMAIN qry[l] /\ j # i
                 /\ qry'[l][j] = qry[l][j] /\ qry[l][j] # qry[k][i]
           /\ \A l \in Kinds : \A j \in DOMAIN qry[l] : j # i => j \in DOMAIN qry'[l]
<1>1. qry_ws' = Drop(qry_ws, i) /\ qry' = [qry EXCEPT ![k] = Drop(qry[k], i)] /\ DOMAIN qry = Kinds
  BY DEF GetAndClear, QueryType
<1>2. DOMAIN qry_ws' = DOMAIN qry_ws \ {i} /\ \A j \in DOMAIN qry_ws' : qry_ws'[j] = qry_ws[j]
  BY <1>1 DEF Drop, Restrict
<1>3. DOMAIN qry' = Kinds /\ \A l \in Kinds \ {k} : qry'[l] = qry[l]
  BY <1>1
<1>4. qry'[k] = Drop(qry[k], i)
  BY <1>1
<1>5. DOMAIN qry'[k] = DOMAIN qry[k] \ {i} /\ \A j \in DOMAIN qry'[k] : qry'[k][j] = qry[k][j]
  BY <1>4 DEF Drop, Restrict
<1>6. \A l \in Kinds : \A j \in DOMAIN qry[l] :
         (j = i => l = k) /\ (qry[l][j] = qry[k][i] => j = i)
  BY DEF QueryInv, IdIsOwn
<1>7. ASSUME NEW l \in Kinds, NEW j \in DOMAIN qry'[l]
      PROVE  j \in DOMAIN qry[l] /\ j # i /\ qry'[l][j] = qry[l][j] /\ qry[l][j] # qry[k][i]
  BY <1>3, <1>5, <1>6
<1>8. ASSUME NEW l \in Kinds, NEW j \in DOMAIN qry[l], j # i PROVE j \in DOMAIN qry'[l]
  BY <1>3, <1>5, <1>8
<1> QED BY <1>2, <1>3, <1>7, <1>8

\* XTP takes a query under the id it is cached under.
LEMMA ApiQueryStep == ASSUME TypeOK, QueryInv, ApiQuery PROVE QueryType' /\ QueryInv'
<1>1. /\ UNCHANGED <<qry_ws, qry, rsp, asker, delivered, errors>> /\ at = "query" /\ at' = "read"
      /\ flight' = flight \cup {[id |-> req_id, query |-> cur, rows |-> 0]}
      /\ req_id' = req_id + 1
  BY DEF ApiQuery
<1>2. QueryType /\ req_id \in Nat /\ cur \in Queries
  BY <1>1 DEF TypeOK, QueryType, LinkType
<1>3. PICK k, q, i : k = asker[cur].kind /\ q = cur /\ i = req_id
  OBVIOUS
<1>4. k \in Kinds /\ i \in DOMAIN qry[k] /\ qry[k][i] = q
  BY <1>1, <1>3 DEF QueryInv, FlightIsCached
<1>5. \A f \in flight : f.id < i /\ f.id \in Nat
  BY <1>2, <1>3, FlightEntry
<1> DEFINE new == [id |-> i, query |-> q, rows |-> 0]
<1>6. flight' = flight \cup {new} /\ new.id = i /\ new.query = q /\ new.rows = 0
  BY <1>1, <1>3
<1>7. QueryType'
  <2>1. 0 \in 0..MaxRows
    BY XtpTradeAssumption
  <2>2. new \in [id : Nat, query : Queries, rows : 0..MaxRows]
    BY <1>2, <1>3, <2>1
  <2>3. req_id' \in Nat
    BY <1>1, <1>2
  <2>4. flight' \subseteq [id : Nat, query : Queries, rows : 0..MaxRows]
    BY <1>2, <1>6, <2>2, Zenon DEF QueryType
  <2> HIDE DEF new
  <2> QED BY <1>1, <1>2, <2>3, <2>4, Zenon DEF QueryType
<1> HIDE DEF new
<1> USE DEF QueryInv
<1>8. CachedIsPending' /\ OnlyAsked'
  BY <1>1 DEF CachedIsPending, OnlyAsked
<1>9. IdIsOwn'
  <2>1. \A j \in DOMAIN qry_ws : j \in Nat
    BY <1>2 DEF QueryType
  <2>2. \A l \in Kinds : \A j \in DOMAIN rsp[l] : j \in Nat
    BY <1>2 DEF QueryType
  <2> QED BY <1>1, <1>2, <2>1, <2>2 DEF IdIsOwn
<1>10. FlightIsCached'
  <2>1. Len(Rows(k, i)) = 0
    BY <1>2, <1>3, <1>4 DEF IdIsOwn, Rows
  <2>2. \A l, j : Rows(l, j)' = Rows(l, j)
    BY <1>1 DEF Rows
  <2>3. ASSUME NEW f \in flight'
        PROVE  /\ f.id < req_id' /\ asker'[f.query].kind \in Kinds
               /\ f.id \in DOMAIN qry'[asker'[f.query].kind] /\ qry'[asker'[f.query].kind][f.id] = f.query
               /\ Len(Rows(asker[f.query].kind, f.id)') <= f.rows
    <3>1. CASE f \in flight
      <4>1. f.id < req_id' /\ f.id \in Nat
        BY <1>1, <1>2, <1>3, <1>5, <3>1
      <4>2. \E l \in Kinds : l = asker[f.query].kind /\ Len(Rows(l, f.id)) <= f.rows
        BY <1>2, <3>1, FlightEntry
      <4> QED BY <1>1, <1>2, <2>2, <3>1, <4>1, <4>2, FlightEntry
    <3>2. CASE f = new
      <4>1. Rows(asker[f.query].kind, f.id)' = Rows(k, i)
        BY <1>1, <1>3, <1>6, <3>2 DEF Rows
      <4> QED BY <1>1, <1>2, <1>3, <1>4, <1>6, <2>1, <3>2, <4>1
    <3> QED BY <1>6, <3>1, <3>2
  <2>4. ASSUME NEW f \in flight', NEW g \in flight', f.id = g.id PROVE f = g
    BY <1>2, <1>3, <1>5, <1>6, <2>4 DEF FlightIsCached
  <2> QED BY <1>1, <2>3, <2>4 DEF FlightIsCached
<1> QED BY <1>7, <1>8, <1>9, <1>10

\* XTP does not take it: the entry is cleared, under the id it was cached under.
LEMMA ApiQueryFailedStep == ASSUME TypeOK, QueryInv, ApiQueryFailed PROVE QueryType' /\ QueryInv'
<1>1. /\ UNCHANGED <<rsp, flight, asker, delivered>> /\ at = "query" /\ at' = "read"
      /\ req_id' = req_id + 1 /\ GetAndClear(asker[cur].kind, req_id' - 1)
      /\ errors' = [errors EXCEPT ![cur] = @ + 1]
  BY DEF ApiQueryFailed, QueryError
<1>2. QueryType /\ req_id \in Nat /\ cur \in Queries /\ errors \in [Queries -> Nat]
  BY <1>1 DEF TypeOK, QueryType, LinkType
<1>3. PICK k, q, i : k = asker[cur].kind /\ q = cur /\ i = req_id
  OBVIOUS
<1>4. k \in Kinds /\ i \in DOMAIN qry[k] /\ qry[k][i] = q /\ asker[q] # NotAsked
  <2>1. k \in Kinds /\ i \in DOMAIN qry[k] /\ qry[k][i] = q
    BY <1>1, <1>3 DEF QueryInv, FlightIsCached
  <2> QED BY <1>2, <2>1, CachedAsked
<1>5. GetAndClear(k, i)
  <2>1. req_id' - 1 = i
    BY <1>1, <1>2, <1>3
  <2> QED BY <1>1, <1>3, <2>1 DEF GetAndClear
<1>6. /\ DOMAIN qry_ws' = DOMAIN qry_ws \ {i} /\ \A j \in DOMAIN qry_ws' : qry_ws'[j] = qry_ws[j]
      /\ DOMAIN qry' = Kinds
      /\ \A l \in Kinds : \A j \in DOMAIN qry'[l] :
            j \in DOMAIN qry[l] /\ j # i /\ qry'[l][j] = qry[l][j] /\ qry[l][j] # q
      /\ \A l \in Kinds : \A j \in DOMAIN qry[l] : j # i => j \in DOMAIN qry'[l]
  BY <1>2, <1>4, <1>5, EntryCleared
<1>7. errors' \in [Queries -> Nat] /\ \A p \in Queries \ {q} : errors'[p] = errors[p]
  BY <1>1, <1>2, <1>3
<1>8. /\ \A j \in DOMAIN qry_ws : j \in Nat /\ (j < i \/ j = i)
      /\ \A l \in Kinds : \A j \in DOMAIN rsp[l] : j \in Nat /\ j < i
  <2>1. (\A j \in DOMAIN qry_ws : j \in Nat) /\ (\A l \in Kinds : \A j \in DOMAIN rsp[l] : j \in Nat)
    BY <1>2 DEF QueryType
  <2> QED BY <1>3, <2>1 DEF QueryInv, IdIsOwn
<1>9. QueryType'
  <2>1. req_id' \in Nat
    BY <1>1, <1>2
  <2>2. /\ DOMAIN qry_ws' \subseteq Nat /\ \A j \in DOMAIN qry_ws' : qry_ws'[j] \in Clients
        /\ \A l \in Kinds : DOMAIN qry'[l] \subseteq Nat /\ \A j \in DOMAIN qry'[l] : qry'[l][j] \in Queries
    BY <1>2, <1>6 DEF QueryType
  <2> QED BY <1>1, <1>2, <1>6, <1>7, <2>1, <2>2, Zenon DEF QueryType
<1> USE DEF QueryInv
<1>10. CachedIsPending'
  <2>1. ASSUME NEW j \in DOMAIN qry_ws' PROVE \E l \in Kinds : j \in DOMAIN qry'[l]
    BY <1>6 DEF CachedIsPending
  <2>2. ASSUME NEW l \in Kinds, NEW j \in DOMAIN qry'[l]
        PROVE  /\ j \in DOMAIN qry_ws' /\ asker'[qry'[l][j]] = [ws |-> qry_ws'[j], kind |-> l]
               /\ delivered'[qry'[l][j]] = <<>> /\ errors'[qry'[l][j]] = 0
    <3>1. /\ j \in DOMAIN qry[l] /\ j # i /\ qry'[l][j] = qry[l][j] /\ qry[l][j] \in Queries \ {q}
      BY <1>2, <1>6, CachedAsked
    <3>2. /\ j \in DOMAIN qry_ws /\ asker[qry[l][j]] = [ws |-> qry_ws[j], kind |-> l]
          /\ delivered[qry[l][j]] = <<>> /\ errors[qry[l][j]] = 0
      BY <3>1 DEF CachedIsPending
    <3> QED BY <1>1, <1>6, <1>7, <3>1, <3>2
  <2>3. ASSUME NEW l \in Kinds, NEW j \in DOMAIN rsp'[l]
        PROVE  j \in DOMAIN qry'[l] /\ \A n \in 1..Len(rsp'[l][j]) : rsp'[l][j][n] = qry'[l][j]
    <3>1. j \in DOMAIN rsp[l] /\ rsp'[l][j] = rsp[l][j] /\ j # i
      <4>1. i \in Nat
        BY <1>2, <1>3
      <4> QED BY <1>1, <1>8, <4>1
    <3>2. j \in DOMAIN qry[l] /\ \A n \in 1..Len(rsp[l][j]) : rsp[l][j][n] = qry[l][j]
      BY <3>1 DEF CachedIsPending
    <3> QED BY <1>6, <3>1, <3>2
  <2> QED BY <2>1, <2>2, <2>3 DEF CachedIsPending
<1>11. IdIsOwn'
  <2>1. i \in Nat /\ req_id' = i + 1
    BY <1>1, <1>2, <1>3
  <2>2. (\A j \in DOMAIN qry_ws' : j < req_id') /\ (\A l \in Kinds : \A j \in DOMAIN rsp'[l] : j < req_id')
    BY <1>1, <1>6, <1>8, <2>1
  <2>3. ASSUME NEW l \in Kinds, NEW m \in Kinds, NEW j \in DOMAIN qry'[l], NEW n \in DOMAIN qry'[m]
        PROVE  (j = n => l = m) /\ (qry'[l][j] = qry'[m][n] => j = n)
    BY <1>6 DEF IdIsOwn
  <2> QED BY <2>2, <2>3 DEF IdIsOwn
<1>12. FlightIsCached'
  <2>1. i \in Nat /\ req_id' = i + 1
    BY <1>1, <1>2, <1>3
  <2>2. ASSUME NEW f \in flight
        PROVE  /\ f.id < req_id' /\ asker'[f.query].kind \in Kinds
               /\ f.id \in DOMAIN qry'[asker'[f.query].kind] /\ qry'[asker'[f.query].kind][f.id] = f.query
               /\ Len(Rows(asker[f.query].kind, f.id)') <= f.rows
    <3>1. PICK l \in Kinds : l = asker[f.query].kind
      BY <1>2, FlightEntry
    <3>2. f.id \in DOMAIN qry[l] /\ qry[l][f.id] = f.query /\ f.id < i /\ Len(Rows(l, f.id)) <= f.rows /\ f.id \in Nat
      BY <1>2, <1>3, <3>1, FlightEntry
    <3>3. Rows(asker[f.query].kind, f.id)' = Rows(l, f.id)
      BY <1>1, <3>1 DEF Rows
    <3>4. f.id # i /\ f.id < req_id'
      BY <2>1, <3>2
    <3> QED BY <1>1, <1>6, <3>1, <3>2, <3>3, <3>4
  <2> QED BY <1>1, <2>2 DEF FlightIsCached
<1>13. OnlyAsked'
  BY <1>1, <1>4, <1>7 DEF OnlyAsked
<1> QED BY <1>9, <1>10, <1>11, <1>12, <1>13

\* The rows of a query in flight are the query's own.
LEMMA RowsOwn ==
    ASSUME QueryType, QueryInv, NEW f \in flight, NEW k, k = asker[f.query].kind
    PROVE  /\ Rows(k, f.id) \in Seq(Queries)
           /\ \A n \in 1..Len(Rows(k, f.id)) : Rows(k, f.id)[n] = f.query
<1>1. k \in Kinds /\ f.id \in DOMAIN qry[k] /\ qry[k][f.id] = f.query
  BY FlightEntry
<1>2. CASE f.id \in DOMAIN rsp[k]
  BY <1>1, <1>2 DEF Rows, QueryType, QueryInv, CachedIsPending
<1>3. CASE f.id \notin DOMAIN rsp[k]
  <2>1. Rows(k, f.id) = <<>> /\ <<>> \in Seq(Queries) /\ Len(<<>>) = 0
    BY <1>3 DEF Rows
  <2> QED BY <2>1
<1> QED BY <1>2, <1>3

\* One more row, of the query's own.
LEMMA CollectedOwn ==
    ASSUME QueryType, QueryInv, NEW f \in flight, NEW k, k = asker[f.query].kind,
           NEW rows \in Collected(k, f)
    PROVE  /\ rows \in Seq(Queries) /\ \A n \in 1..Len(rows) : rows[n] = f.query
           /\ Len(rows) <= f.rows + 1
<1>1. /\ f.query \in Queries /\ f.rows \in Nat /\ Len(Rows(k, f.id)) <= f.rows
      /\ Rows(k, f.id) \in Seq(Queries)
      /\ \A n \in 1..Len(Rows(k, f.id)) : Rows(k, f.id)[n] = f.query
  BY FlightEntry, RowsOwn
<1> DEFINE before == Rows(k, f.id)
<1>2. rows = before \/ rows = Append(before, f.query)
  BY DEF Collected
<1> HIDE DEF before
<1>3. before \in Seq(Queries) /\ Len(before) <= f.rows /\ \A n \in 1..Len(before) : before[n] = f.query
  BY <1>1 DEF before
<1>4. CASE rows = before
  BY <1>1, <1>3, <1>4
<1>5. CASE rows = Append(before, f.query)
  BY <1>1, <1>3, <1>5
<1> QED BY <1>2, <1>4, <1>5

\* A row is collected under the id of its query.
LEMMA QueryRowStep ==
    ASSUME TypeOK, QueryInv, NEW f \in flight, OnQueryRow(f) PROVE QueryType' /\ QueryInv'
<1>1. PICK k \in Kinds : k = asker[f.query].kind
  BY FlightEntry DEF TypeOK
<1>2. PICK rows \in Collected(k, f) : rsp' = [rsp EXCEPT ![k] = Put(rsp[k], f.id, rows)]
  BY <1>1 DEF OnQueryRow
<1>3. /\ UNCHANGED <<loopVars, req_id, qry_ws, qry, asker, delivered, errors>>
      /\ flight' = (flight \ {f}) \cup {[f EXCEPT !.rows = @ + 1]} /\ f.rows < MaxRows
  BY Zenon DEF OnQueryRow
<1>4. /\ f \in [id : Nat, query : Queries, rows : 0..MaxRows]
      /\ f.id \in DOMAIN qry[k] /\ qry[k][f.id] = f.query /\ f.id < req_id
      /\ QueryType /\ DOMAIN rsp = Kinds
  BY <1>1, FlightEntry DEF TypeOK, QueryType
<1>5. rows \in Seq(Queries) /\ (\A n \in 1..Len(rows) : rows[n] = f.query) /\ Len(rows) <= f.rows + 1
  BY <1>1, CollectedOwn DEF TypeOK
<1> DEFINE g == [f EXCEPT !.rows = @ + 1]
<1>6. /\ g \in [id : Nat, query : Queries, rows : 0..MaxRows]
      /\ g.id = f.id /\ g.query = f.query /\ g.rows = f.rows + 1
  BY <1>3, <1>4, XtpTradeAssumption
<1>7. flight' = (flight \ {f}) \cup {g}
  BY <1>3
<1> HIDE DEF g
<1>8. /\ DOMAIN rsp' = Kinds /\ \A l \in Kinds \ {k} : rsp'[l] = rsp[l]
      /\ DOMAIN rsp'[k] = DOMAIN rsp[k] \cup {f.id} /\ rsp'[k][f.id] = rows
      /\ \A j \in DOMAIN rsp[k] : j # f.id => rsp'[k][j] = rsp[k][j]
  <2>1. DOMAIN rsp' = Kinds /\ \A l \in Kinds \ {k} : rsp'[l] = rsp[l]
    BY <1>2, <1>4
  <2>2. rsp'[k] = Put(rsp[k], f.id, rows)
    BY <1>2, <1>4
  <2> QED BY <2>1, <2>2 DEF Put
<1>9. ASSUME NEW l \in Kinds, NEW j \in DOMAIN rsp'[l]
      PROVE  \/ l = k /\ j = f.id /\ rsp'[l][j] = rows
             \/ (l # k \/ j # f.id) /\ j \in DOMAIN rsp[l] /\ rsp'[l][j] = rsp[l][j]
  BY <1>8
<1>10. QueryType'
  <2>1. flight' \subseteq [id : Nat, query : Queries, rows : 0..MaxRows]
    BY <1>4, <1>6, <1>7, Zenon DEF QueryType
  <2>2. \A l \in Kinds : DOMAIN rsp'[l] \subseteq Nat /\ \A j \in DOMAIN rsp'[l] : rsp'[l][j] \in Seq(Queries)
    <3>1. ASSUME NEW l \in Kinds, NEW j \in DOMAIN rsp'[l] PROVE j \in Nat /\ rsp'[l][j] \in Seq(Queries)
      <4>1. CASE l = k /\ j = f.id /\ rsp'[l][j] = rows
        BY <1>4, <1>5, <4>1
      <4>2. CASE j \in DOMAIN rsp[l] /\ rsp'[l][j] = rsp[l][j]
        BY <1>4, <4>2 DEF QueryType
      <4> QED BY <1>9, <4>1, <4>2
    <3> QED BY <3>1
  <2> QED BY <1>3, <1>4, <1>8, <2>1, <2>2, Zenon DEF QueryType
<1> USE DEF QueryInv
<1>11. CachedIsPending'
  <2>1. ASSUME NEW l \in Kinds, NEW j \in DOMAIN rsp'[l]
        PROVE  j \in DOMAIN qry[l] /\ \A n \in 1..Len(rsp'[l][j]) : rsp'[l][j][n] = qry[l][j]
    <3>1. CASE l = k /\ j = f.id /\ rsp'[l][j] = rows
      BY <1>4, <1>5, <3>1
    <3>2. CASE j \in DOMAIN rsp[l] /\ rsp'[l][j] = rsp[l][j]
      BY <3>2 DEF CachedIsPending
    <3> QED BY <1>9, <3>1, <3>2
  <2> QED BY <1>3, <2>1 DEF CachedIsPending
<1>12. IdIsOwn'
  <2>1. \A l \in Kinds : \A j \in DOMAIN rsp'[l] : j < req_id
    BY <1>4, <1>9 DEF IdIsOwn
  <2> QED BY <1>3, <2>1 DEF IdIsOwn, loopVars
<1>13. FlightIsCached'
  <2>1. \A h \in flight : h.id = f.id => h = f
    BY DEF FlightIsCached
  <2>2. ASSUME NEW h \in flight'
        PROVE  /\ h.id < req_id /\ asker[h.query].kind \in Kinds
               /\ h.id \in DOMAIN qry[asker[h.query].kind] /\ qry[asker[h.query].kind][h.id] = h.query
               /\ Len(Rows(asker[h.query].kind, h.id)') <= h.rows
    <3>1. CASE h = g
      <4>1. Rows(asker[h.query].kind, h.id)' = rows
        BY <1>1, <1>3, <1>6, <1>8, <3>1 DEF Rows
      <4> QED BY <1>1, <1>4, <1>5, <1>6, <3>1, <4>1
    <3>2. CASE h \in flight /\ h # f
      <4>1. PICK l \in Kinds : l = asker[h.query].kind
        BY <1>4, <3>2, FlightEntry
      <4>2. /\ h.id < req_id /\ h.id \in DOMAIN qry[l] /\ qry[l][h.id] = h.query
            /\ Len(Rows(l, h.id)) <= h.rows
        BY <1>4, <3>2, <4>1, FlightEntry
      <4>3. Rows(asker[h.query].kind, h.id)' = Rows(l, h.id)
        <5>1. h.id # f.id
          BY <2>1, <3>2
        <5> QED BY <1>3, <1>8, <4>1, <5>1 DEF Rows
      <4> QED BY <4>1, <4>2, <4>3
    <3> QED BY <1>7, <3>1, <3>2
  <2>3. ASSUME NEW h \in flight', NEW m \in flight', h.id = m.id PROVE h = m
    BY <1>6, <1>7, <2>1, <2>3 DEF FlightIsCached
  <2> QED BY <1>3, <2>2, <2>3 DEF FlightIsCached, loopVars
<1>14. OnlyAsked'
  BY <1>3 DEF OnlyAsked
<1> QED BY <1>10, <1>11, <1>12, <1>13, <1>14

\* What the last row of a query in flight does: the client that asked gets it.
LEMMA LastAnswers ==
    ASSUME TypeOK, QueryInv, NEW f \in flight, OnQueryLast(f)
    PROVE  /\ UNCHANGED <<loopVars, linkVars, orderVars, feedVars, req_id, asker, errors>>
           /\ flight' = flight \ {f} /\ GetAndClear(asker[f.query].kind, f.id)
           /\ rsp' = [rsp EXCEPT ![asker[f.query].kind] = Drop(@, f.id)]
           /\ \E rows \in Seq(Queries) :
                 /\ Len(rows) <= MaxRows /\ \A n \in 1..Len(rows) : rows[n] = f.query
                 /\ delivered' = [delivered EXCEPT ![f.query] =
                                     Append(@, [to |-> asker[f.query].ws, rows |-> rows])]
<1>1. PICK k \in Kinds : k = asker[f.query].kind
  BY FlightEntry DEF TypeOK
<1>2. f.id \in DOMAIN qry[k] /\ qry[k][f.id] = f.query /\ f.query \in Queries
  BY <1>1, FlightEntry DEF TypeOK
<1>3. f.id \in DOMAIN qry_ws /\ asker[f.query].ws = qry_ws[f.id] /\ qry_ws[f.id] # NoWs
  <2>1. f.id \in DOMAIN qry_ws /\ asker[f.query].ws = qry_ws[f.id] /\ qry_ws[f.id] \in Clients
    BY <1>2, CachedAsked DEF TypeOK
  <2> QED BY <2>1, XtpTradeAssumption
<1>4. UNCHANGED <<loopVars, linkVars, orderVars, feedVars, req_id, asker, errors>> /\ flight' = flight \ {f}
  BY Zenon DEF OnQueryLast
<1>5. /\ GetAndClear(k, f.id) /\ rsp' = [rsp EXCEPT ![k] = Drop(@, f.id)]
      /\ \E rows \in IF f.rows < MaxRows THEN Collected(k, f) ELSE {Rows(k, f.id)}, c \in FoundWs(f.id) :
            delivered' = IF c = NoWs THEN delivered
                         ELSE [delivered EXCEPT ![f.query] = Append(@, [to |-> c, rows |-> rows])]
  BY <1>1, <1>2 DEF OnQueryLast
<1>6. FoundWs(f.id) = {asker[f.query].ws} /\ asker[f.query].ws # NoWs
  BY <1>3 DEF FoundWs
<1>7. PICK rows \in IF f.rows < MaxRows THEN Collected(k, f) ELSE {Rows(k, f.id)} :
         delivered' = [delivered EXCEPT ![f.query] = Append(@, [to |-> asker[f.query].ws, rows |-> rows])]
  BY <1>5, <1>6
<1>8. rows \in Seq(Queries) /\ Len(rows) <= MaxRows /\ \A n \in 1..Len(rows) : rows[n] = f.query
  <2>1. f.rows \in 0..MaxRows /\ Len(Rows(k, f.id)) <= f.rows
    BY <1>1, FlightEntry DEF TypeOK
  <2>2. CASE f.rows < MaxRows
    <3>1. rows \in Collected(k, f)
      BY <2>2
    <3>2. rows \in Seq(Queries) /\ Len(rows) <= f.rows + 1 /\ \A n \in 1..Len(rows) : rows[n] = f.query
      BY <1>1, <3>1, CollectedOwn DEF TypeOK
    <3> QED BY <2>1, <2>2, <3>2, XtpTradeAssumption
  <2>3. CASE ~(f.rows < MaxRows)
    <3>1. rows = Rows(k, f.id)
      BY <2>3
    <3> QED BY <1>1, <2>1, <3>1, RowsOwn, XtpTradeAssumption DEF TypeOK
  <2> QED BY <2>2, <2>3
<1> QED BY <1>1, <1>4, <1>5, <1>7, <1>8

\* The last row of a query: its entry and its rows go, and it is answered.
LEMMA QueryLastStep ==
    ASSUME TypeOK, QueryInv, NEW f \in flight, OnQueryLast(f) PROVE QueryType' /\ QueryInv'
<1>1. PICK k : k \in Kinds /\ k = asker[f.query].kind
  BY FlightEntry DEF TypeOK
<1>2. PICK w, i, q : w = asker[f.query].ws /\ i = f.id /\ q = f.query
  OBVIOUS
<1>3. /\ UNCHANGED <<loopVars, req_id, asker, errors>>
      /\ flight' = flight \ {f} /\ GetAndClear(k, i) /\ rsp' = [rsp EXCEPT ![k] = Drop(rsp[k], i)]
  BY <1>1, <1>2, LastAnswers
<1>4. PICK rows : rows \in Seq(Queries) /\
         delivered' = [delivered EXCEPT ![q] = Append(@, [to |-> w, rows |-> rows])]
  BY <1>2, LastAnswers
<1>5. /\ f \in [id : Nat, query : Queries, rows : 0..MaxRows]
      /\ i \in DOMAIN qry[k] /\ qry[k][i] = q /\ q \in Queries /\ i < req_id /\ i \in Nat
      /\ QueryType /\ k \in Kinds /\ DOMAIN rsp = Kinds /\ req_id \in Nat
  BY <1>1, <1>2, FlightEntry DEF TypeOK, QueryType
<1>6. w \in Clients /\ asker[q] # NotAsked
  BY <1>2, <1>5, CachedAsked
<1>7. /\ delivered' \in [Queries \cup {NoQuery} -> Seq([to : Clients, rows : Seq(Queries)])]
      /\ \A p \in Queries \cup {NoQuery} : p # q => delivered'[p] = delivered[p]
  <2>1. [to |-> w, rows |-> rows] \in [to : Clients, rows : Seq(Queries)]
    BY <1>4, <1>6
  <2>2. delivered \in [Queries \cup {NoQuery} -> Seq([to : Clients, rows : Seq(Queries)])]
    BY <1>5 DEF QueryType
  <2>3. Append(delivered[q], [to |-> w, rows |-> rows]) \in Seq([to : Clients, rows : Seq(Queries)])
    <3>1. PICK S, r, d : /\ S = [to : Clients, rows : Seq(Queries)] /\ r = [to |-> w, rows |-> rows]
                         /\ d = delivered[q] /\ r \in S /\ d \in Seq(S)
      BY <1>5, <2>1, <2>2
    <3>2. Append(d, r) \in Seq(S)
      BY <3>1
    <3> QED BY <3>1, <3>2
  <2>4. q \in Queries \cup {NoQuery}
    BY <1>5
  <2> QED BY <1>4, <2>2, <2>3, <2>4
<1>8. /\ DOMAIN qry_ws' = DOMAIN qry_ws \ {i} /\ \A j \in DOMAIN qry_ws' : qry_ws'[j] = qry_ws[j]
      /\ DOMAIN qry' = Kinds
      /\ \A l \in Kinds : \A j \in DOMAIN qry'[l] :
            j \in DOMAIN qry[l] /\ j # i /\ qry'[l][j] = qry[l][j] /\ qry[l][j] # q
      /\ \A l \in Kinds : \A j \in DOMAIN qry[l] : j # i => j \in DOMAIN qry'[l]
  BY <1>3, <1>5, EntryCleared
<1>9. /\ DOMAIN rsp' = Kinds /\ \A l \in Kinds \ {k} : rsp'[l] = rsp[l]
      /\ DOMAIN rsp'[k] = DOMAIN rsp[k] \ {i} /\ \A j \in DOMAIN rsp'[k] : rsp'[k][j] = rsp[k][j]
  <2>1. DOMAIN rsp' = Kinds /\ \A l \in Kinds \ {k} : rsp'[l] = rsp[l]
    BY <1>3, <1>5
  <2>2. rsp'[k] = Drop(rsp[k], i)
    BY <1>3, <1>5
  <2> QED BY <2>1, <2>2 DEF Drop, Restrict
<1>10. ASSUME NEW l \in Kinds, NEW j \in DOMAIN rsp'[l]
       PROVE  j \in DOMAIN rsp[l] /\ rsp'[l][j] = rsp[l][j] /\ j # i
  <2>1. j \in DOMAIN rsp[l] /\ rsp'[l][j] = rsp[l][j] /\ (l = k => j # i)
    BY <1>9
  <2>2. j \in DOMAIN qry[l]
    BY <2>1 DEF QueryInv, CachedIsPending
  <2>3. j = i => l = k
    BY <1>5, <2>2 DEF QueryInv, IdIsOwn
  <2> QED BY <2>1, <2>3
<1>11. QueryType'
  <2>1. flight' \subseteq [id : Nat, query : Queries, rows : 0..MaxRows]
    BY <1>3, <1>5 DEF QueryType
  <2>2. \A l \in Kinds : DOMAIN rsp'[l] \subseteq Nat /\ \A j \in DOMAIN rsp'[l] : rsp'[l][j] \in Seq(Queries)
    BY <1>5, <1>10 DEF QueryType
  <2>3. /\ DOMAIN qry_ws' \subseteq Nat /\ \A j \in DOMAIN qry_ws' : qry_ws'[j] \in Clients
        /\ \A l \in Kinds : DOMAIN qry'[l] \subseteq Nat /\ \A j \in DOMAIN qry'[l] : qry'[l][j] \in Queries
    BY <1>5, <1>8 DEF QueryType
  <2> QED BY <1>3, <1>5, <1>7, <1>8, <1>9, <2>1, <2>2, <2>3, Zenon DEF QueryType
<1> USE DEF QueryInv
<1>12. CachedIsPending'
  <2>1. ASSUME NEW j \in DOMAIN qry_ws' PROVE \E l \in Kinds : j \in DOMAIN qry'[l]
    BY <1>8 DEF CachedIsPending
  <2>2. ASSUME NEW l \in Kinds, NEW j \in DOMAIN qry'[l]
        PROVE  /\ j \in DOMAIN qry_ws' /\ asker'[qry'[l][j]] = [ws |-> qry_ws'[j], kind |-> l]
               /\ delivered'[qry'[l][j]] = <<>> /\ errors'[qry'[l][j]] = 0
    <3>1. j \in DOMAIN qry[l] /\ j # i /\ qry'[l][j] = qry[l][j] /\ qry[l][j] \in Queries \ {q}
      BY <1>5, <1>8, CachedAsked
    <3>2. /\ j \in DOMAIN qry_ws /\ asker[qry[l][j]] = [ws |-> qry_ws[j], kind |-> l]
          /\ delivered[qry[l][j]] = <<>> /\ errors[qry[l][j]] = 0
      BY <3>1 DEF CachedIsPending
    <3> QED BY <1>3, <1>7, <1>8, <3>1, <3>2
  <2>3. ASSUME NEW l \in Kinds, NEW j \in DOMAIN rsp'[l]
        PROVE  j \in DOMAIN qry'[l] /\ \A n \in 1..Len(rsp'[l][j]) : rsp'[l][j][n] = qry'[l][j]
    <3>1. j \in DOMAIN rsp[l] /\ rsp'[l][j] = rsp[l][j] /\ j # i
      BY <1>10
    <3>2. j \in DOMAIN qry[l] /\ \A n \in 1..Len(rsp[l][j]) : rsp[l][j][n] = qry[l][j]
      BY <3>1 DEF CachedIsPending
    <3> QED BY <1>8, <3>1, <3>2
  <2> QED BY <2>1, <2>2, <2>3 DEF CachedIsPending
<1>13. IdIsOwn'
  <2>1. \A j \in DOMAIN qry_ws' : j < req_id \/ (j = req_id /\ at = "query")
    BY <1>8 DEF IdIsOwn
  <2>2. \A l \in Kinds : \A j \in DOMAIN rsp'[l] : j < req_id
    BY <1>10 DEF IdIsOwn
  <2>3. ASSUME NEW l \in Kinds, NEW m \in Kinds, NEW j \in DOMAIN qry'[l], NEW n \in DOMAIN qry'[m]
        PROVE  (j = n => l = m) /\ (qry'[l][j] = qry'[m][n] => j = n)
    BY <1>8 DEF IdIsOwn
  <2> QED BY <1>3, <2>1, <2>2, <2>3 DEF IdIsOwn, loopVars
<1>14. FlightIsCached'
  <2>1. ASSUME NEW h \in flight'
        PROVE  /\ h.id < req_id /\ asker[h.query].kind \in Kinds
               /\ h.id \in DOMAIN qry'[asker[h.query].kind] /\ qry'[asker[h.query].kind][h.id] = h.query
               /\ Len(Rows(asker[h.query].kind, h.id)') <= h.rows
    <3>1. h \in flight /\ h.id # i
      BY <1>2, <1>3 DEF FlightIsCached
    <3>2. PICK l \in Kinds : l = asker[h.query].kind
      BY <1>5, <3>1, FlightEntry
    <3>3. h.id < req_id /\ h.id \in DOMAIN qry[l] /\ qry[l][h.id] = h.query /\ Len(Rows(l, h.id)) <= h.rows
      BY <1>5, <3>1, <3>2, FlightEntry
    <3>4. Rows(asker[h.query].kind, h.id)' = Rows(l, h.id)
      BY <1>3, <1>9, <3>1, <3>2 DEF Rows
    <3> QED BY <1>8, <3>1, <3>2, <3>3, <3>4
  <2>2. \A h, m \in flight' : h.id = m.id => h = m
    BY <1>3 DEF FlightIsCached
  <2>3. at = "query" =>
           asker[cur].kind \in Kinds /\ req_id \in DOMAIN qry'[asker[cur].kind]
              /\ qry'[asker[cur].kind][req_id] = cur
    <3>1. req_id # i
      BY <1>5
    <3> QED BY <1>8, <3>1 DEF FlightIsCached
  <2> QED BY <1>3, <2>1, <2>2, <2>3 DEF FlightIsCached, loopVars
<1>15. OnlyAsked'
  BY <1>3, <1>5, <1>6, <1>7, XtpTradeAssumption DEF OnlyAsked
<1> QED BY <1>11, <1>12, <1>13, <1>14, <1>15

LEMMA QueryInvStep == TypeOK /\ QueryInv /\ [Next]_vars => QueryType' /\ QueryInv'
<1> SUFFICES ASSUME TypeOK, QueryInv, [Next]_vars PROVE QueryType' /\ QueryInv'
  OBVIOUS
<1>1. CASE UNCHANGED vars
  BY <1>1, QueryKept DEF vars, queryVars, TypeOK
<1>2. CASE QueryStep
  BY <1>2, QueryRefusedStep, QueryBeginStep, ApiQueryStep, ApiQueryFailedStep, QueryRowStep, QueryLastStep
     DEF QueryStep
<1>3. CASE OrderStep
  BY <1>3, OrderFrame, QueryKept DEF queryVars, TypeOK
<1>4. CASE LinkStep
  BY <1>4, LinkFrame, QueryKept DEF TypeOK
<1> QED BY <1>1, <1>2, <1>3, <1>4, Steps

-----------------------------------------------------------------------------
(* The theorems.                                                            *)

\* The inductive step of Inv.
LEMMA InvStep == Inv /\ [Next]_vars => Inv'
BY LinkTypeStep, OrderTypeStep, OrderInvStep, QueryInvStep DEF Inv, TypeOK

\* The state of the gateway between any two callbacks: orders are recorded and queries
\* cached until they are answered, and nothing else is.
THEOREM InvCorrect == Spec => []Inv
<1>1. Init => Inv
  BY TypeInit, OrderInit, QueryInit DEF Inv
<1> QED BY <1>1, InvStep, PTL DEF Spec

\* Every variable keeps its type: order_ref_, req_id_ and the maps under them.
THEOREM TypeCorrect == Spec => []TypeOK
<1>1. Inv => TypeOK
  BY DEF Inv
<1> QED BY <1>1, InvCorrect, PTL

\* An order is confirmed by an event of its own, or by one of another program that has
\* its reference; and it has its reference before.
LEMMA ConfirmedByEvent ==
    ASSUME Inv, [Next]_vars, NEW o \in Orders
    PROVE  /\ \/ confirmed'[o] = confirmed[o]
              \/ confirmed'[o] = <<o>>
              \/ confirmed'[o] = <<NoOrder>> /\ ref[o] \in foreign'
           /\ foreign \subseteq foreign'
           /\ ref'[o] = ref[o] \/ confirmed'[o] = <<>>
<1> USE DEF Inv, OrderInv
<1>1. CASE UNCHANGED <<orderVars, feedVars>>
  BY <1>1 DEF orderVars, feedVars
<1>2. CASE OrderStep
  <2>1. ASSUME NEW p \in Orders, InsertRefused(p) \/ InsertBadDir(p)
        PROVE  UNCHANGED <<confirmed, ref, foreign>>
    BY <2>1 DEF InsertRefused, InsertBadDir, orderVars
  <2>2. ASSUME NEW p \in Orders, InsertBegin(p)
        PROVE  UNCHANGED <<confirmed, foreign>> /\ (ref'[o] = ref[o] \/ confirmed[o] = <<>>)
    <3>1. ref \in [Orders -> Nat] /\ (ref[p] = 0 => confirmed[p] = <<>>)
      BY DEF TypeOK, OrderType, OrderStands
    <3> QED BY <2>2, <3>1 DEF InsertBegin, Fresh, feedVars
  <2>3. CASE RecordOrder \/ ApiInsertOrder \/ ApiInsertFailed \/ CleanRecord
    BY <2>3 DEF RecordOrder, ApiInsertOrder, ApiInsertFailed, CleanRecord, orderVars, feedVars
  <2>4. ASSUME NEW p \in Orders, OnOrderEvent(p)
        PROVE  UNCHANGED <<ref, foreign>> /\ (confirmed'[o] = confirmed[o] \/ confirmed'[o] = <<o>>)
    <3>1. /\ UNCHANGED <<ref, foreign>> /\ GetAndCleanRecordOrder(ref[p], logins, p)
      BY <2>4 DEF OnOrderEvent
    <3>2. CASE UNCHANGED confirmed
      BY <3>1, <3>2
    <3>3. ASSUME NEW w \in wait_deal, w.order \in Orders, ref[w.order] = ref[p], ref[p] # 0,
                 confirmed' = [confirmed EXCEPT ![w.order] = <<p>>]
          PROVE  confirmed'[o] = confirmed[o] \/ confirmed'[o] = <<o>>
      <4>1. w.order = p /\ confirmed \in [Orders -> Seq(Orders \cup {NoOrder})]
        BY <3>3 DEF RefIsOwn, TypeOK, OrderType
      <4> QED BY <3>3, <4>1
    <3> QED BY <3>1, <3>2, <3>3, GetRecord DEF TypeOK
  <2>5. ASSUME NEW r \in 1..order_ref, OnForeignOrderEvent(r)
        PROVE  /\ UNCHANGED ref /\ foreign \subseteq foreign'
               /\ confirmed'[o] = confirmed[o] \/ (confirmed'[o] = <<NoOrder>> /\ ref[o] \in foreign')
    <3>1. UNCHANGED ref /\ foreign' = foreign \cup {r} /\ GetAndCleanRecordOrder(r, logins, NoOrder)
      BY <2>5 DEF OnForeignOrderEvent
    <3>2. CASE UNCHANGED confirmed
      BY <3>1, <3>2
    <3>3. ASSUME NEW w \in wait_deal, w.order \in Orders, ref[w.order] = r,
                 confirmed' = [confirmed EXCEPT ![w.order] = <<NoOrder>>]
          PROVE  confirmed'[o] = confirmed[o] \/ (confirmed'[o] = <<NoOrder>> /\ ref[o] \in foreign')
      <4>1. confirmed \in [Orders -> Seq(Orders \cup {NoOrder})]
        BY DEF TypeOK, OrderType
      <4> QED BY <3>1, <3>3, <4>1
    <3> QED BY <3>1, <3>2, <3>3, GetRecord DEF TypeOK
  <2> QED BY <1>2, <2>1, <2>2, <2>3, <2>4, <2>5 DEF OrderStep
<1> QED BY <1>1, <1>2, Steps, QueryFrame, LinkFrame DEF vars

\* confirmorder ties an order to its own outside id, unless another program on the
\* account uses the reference of the order.
THEOREM ConfirmedWithOwnCorrect == Spec => []ConfirmedWithOwn
<1>1. Init => ConfirmedWithOwn
  <2>1. Len(<<>>) = 0
    OBVIOUS
  <2> QED BY <2>1 DEF Init, ConfirmedWithOwn
<1>2. Inv /\ ConfirmedWithOwn /\ [Next]_vars => ConfirmedWithOwn'
  <2> SUFFICES ASSUME Inv, ConfirmedWithOwn, [Next]_vars, NEW o \in Orders
               PROVE  \A n \in 1..Len(confirmed'[o]) : confirmed'[o][n] = o \/ ref'[o] \in foreign'
    BY DEF ConfirmedWithOwn
  <2>1. CASE confirmed'[o] = <<>>
    <3>1. Len(<<>>) = 0
      OBVIOUS
    <3> QED BY <2>1, <3>1
  <2>2. CASE confirmed'[o] = <<o>>
    <3>1. Len(<<o>>) = 1 /\ <<o>>[1] = o
      OBVIOUS
    <3> QED BY <2>2, <3>1
  <2>3. CASE ref'[o] = ref[o] /\ confirmed'[o] = confirmed[o]
    BY <2>3, ConfirmedByEvent DEF ConfirmedWithOwn
  <2>4. CASE ref'[o] = ref[o] /\ ref[o] \in foreign'
    BY <2>4
  <2> QED BY <2>1, <2>2, <2>3, <2>4, ConfirmedByEvent
<1> QED BY <1>1, <1>2, InvCorrect, PTL DEF Spec

\* The first status of an order goes out after its confirmation, if the session it is
\* told in is the one the order was recorded under.
THEOREM ConfirmedBeforeStatusCorrect == Spec => []ConfirmedBeforeStatus
<1>1. Init => ConfirmedBeforeStatus
  BY DEF Init, ConfirmedBeforeStatus
<1>2. Inv /\ ConfirmedBeforeStatus /\ [Next]_vars => ConfirmedBeforeStatus'
  <2> SUFFICES ASSUME Inv, ConfirmedBeforeStatus, [Next]_vars, NEW o \in Orders,
                      told'[o] # 0, told'[o] = recordedIn'[o], confirmed'[o] = <<>>
               PROVE  FALSE
    BY DEF ConfirmedBeforeStatus
  <2>1. confirmed[o] = <<>>
    <3>1. <<o>> # <<>> /\ <<NoOrder>> # <<>>
      OBVIOUS
    <3> QED BY <3>1, ConfirmedByEvent
  <2>2. ~(told[o] # 0 /\ told[o] = recordedIn[o])
    BY <2>1 DEF ConfirmedBeforeStatus
  <2> USE DEF Inv, OrderInv
  <2>3. told \in [Orders -> 0..MaxLogin] /\ recordedIn \in [Orders -> 0..MaxLogin]
    BY DEF TypeOK, OrderType
  <2>4. CASE UNCHANGED <<told, recordedIn>>
    BY <2>2, <2>4
  <2>5. CASE RecordOrder
    <3>1. at = "record" /\ told' = told /\ recordedIn' = [recordedIn EXCEPT ![cur] = xtp_session_id]
      BY <2>5 DEF RecordOrder
    <3>2. cur \in Orders /\ book[cur] = "none"
      BY <3>1 DEF InHand, TypeOK, LinkType
    <3>3. told[cur] = 0
      BY <3>2 DEF OrderStands
    <3> QED BY <2>2, <2>3, <3>1, <3>2, <3>3
  <2>6. ASSUME NEW p \in Orders, OnOrderEvent(p) PROVE FALSE
    <3>1. /\ recordedIn' = recordedIn /\ book[p] = "live" /\ GetAndCleanRecordOrder(ref[p], logins, p)
          /\ told' = [told EXCEPT ![p] = IF told[p] = 0 THEN logins ELSE told[p]]
      BY <2>6 DEF OnOrderEvent
    <3>2. o = p /\ told[o] = 0 /\ recordedIn[o] = logins
      BY <2>2, <2>3, <3>1
    <3>3. PICK w \in wait_deal : w.order = o
      BY <2>1, <3>1, <3>2 DEF OrderStands
    <3>4. w.ref = ref[o] /\ w.session = logins
      BY <3>2, <3>3 DEF RecordIsOwn
    <3>5. w \in Recorded(ref[p], logins)
      BY <3>2, <3>4 DEF Recorded
    <3>6. confirmed'[o] = Append(confirmed[o], p)
      BY <3>1, <3>3, <3>5 DEF GetAndCleanRecordOrder
    <3>7. Append(<<>>, p) # <<>>
      OBVIOUS
    <3> QED BY <2>1, <3>6, <3>7
  <2>7. CASE OrderStep
    <3>1. ASSUME NEW p, \/ InsertRefused(p) \/ InsertBadDir(p) \/ InsertBegin(p) \/ OnForeignOrderEvent(p)
                        \/ ApiInsertOrder \/ ApiInsertFailed \/ CleanRecord
          PROVE  UNCHANGED <<told, recordedIn>>
      BY <3>1 DEF InsertRefused, InsertBadDir, InsertBegin, OnForeignOrderEvent, ApiInsertOrder,
                  ApiInsertFailed, CleanRecord, feedVars
    <3> QED BY <2>4, <2>5, <2>6, <2>7, <3>1 DEF OrderStep
  <2> QED BY <2>4, <2>7, Steps, QueryFrame, LinkFrame DEF vars, feedVars
<1> QED BY <1>1, <1>2, InvCorrect, PTL DEF Spec

-----------------------------------------------------------------------------
(* The refinement: what a client is promised about its queries.             *)

\* Who asked each query, after one more was asked.
LEMMA AskedBar ==
    ASSUME QueryType, NEW c \in Clients, NEW q \in Queries, NEW k \in Kinds, asker[q] = NotAsked,
           asker' = [asker EXCEPT ![q] = [ws |-> c, kind |-> k]]
    PROVE  /\ [p \in Queries |-> asker[p].ws][q] = NoWs
           /\ [p \in Queries |-> asker'[p].ws] = [[p \in Queries |-> asker[p].ws] EXCEPT ![q] = c]
<1>1. asker'[q].ws = c /\ \A p \in Queries \ {q} : asker'[p] = asker[p]
  BY DEF QueryType
<1>2. [p \in Queries |-> asker[p].ws][q] = NoWs
  BY DEF NotAsked
<1>3. PICK A, B : A = [p \in Queries |-> asker[p].ws] /\ B = [p \in Queries |-> asker'[p].ws]
  OBVIOUS
<1>4. \A p \in Queries : B[p] = [A EXCEPT ![q] = c][p]
  BY <1>1, <1>3
<1>5. B = [A EXCEPT ![q] = c]
  BY <1>3, <1>4
<1> QED BY <1>2, <1>3, <1>5

\* A query that was asked by somebody, and not answered.
LEMMA PendingBar ==
    ASSUME QueryType, QueryInv, NEW k \in Kinds, NEW i \in DOMAIN qry[k]
    PROVE  Promise!Pending(qry[k][i])
<1>1. /\ qry[k][i] \in Queries /\ qry_ws[i] \in Clients /\ asker[qry[k][i]].ws = qry_ws[i]
      /\ delivered[qry[k][i]] = <<>> /\ errors[qry[k][i]] = 0
  BY CachedAsked
<1> QED BY <1>1, XtpTradeAssumption DEF Promise!Pending

LEMMA PromiseInit == Init => Promise!Init
<1>1. NotAsked.ws = NoWs
  BY DEF NotAsked
<1> QED BY <1>1 DEF Init, Promise!Init

LEMMA PromiseStep == Inv /\ [Next]_vars => [Promise!Next]_(Promise!vars)
<1> SUFFICES ASSUME Inv, [Next]_vars PROVE Promise!Next \/ UNCHANGED <<asker, delivered, errors>>
  BY DEF Promise!vars
<1> USE DEF Inv
<1>1. CASE QueryStep
  <2>1. ASSUME NEW c \in Clients, NEW q \in Queries, NEW k \in Kinds, QueryRefused(c, q, k)
        PROVE  Promise!Next
    <3>1. /\ asker[q] = NotAsked /\ asker' = [asker EXCEPT ![q] = [ws |-> c, kind |-> k]]
          /\ errors' = [errors EXCEPT ![q] = @ + 1] /\ UNCHANGED delivered
      BY <2>1 DEF QueryRefused, QueryError
    <3>2. errors' = [errors EXCEPT ![q] = 1]
      <4>1. errors[q] = 0
        BY <3>1 DEF QueryInv, OnlyAsked
      <4> QED BY <3>1, <4>1
    <3>3. Promise!AskInVain(c, q)
      BY <3>1, <3>2, AskedBar DEF Promise!AskInVain, TypeOK
    <3> QED BY <3>3 DEF Promise!Next
  <2>2. ASSUME NEW c \in Clients, NEW q \in Queries, NEW k \in Kinds, QueryBegin(c, q, k)
        PROVE  Promise!Next
    <3>1. /\ asker[q] = NotAsked /\ asker' = [asker EXCEPT ![q] = [ws |-> c, kind |-> k]]
          /\ UNCHANGED <<delivered, errors>>
      BY <2>2 DEF QueryBegin
    <3>2. Promise!Ask(c, q)
      BY <3>1, AskedBar DEF Promise!Ask, TypeOK
    <3> QED BY <3>2 DEF Promise!Next
  <2>3. CASE ApiQuery
    BY <2>3 DEF ApiQuery
  <2>4. CASE ApiQueryFailed
    <3>1. PICK q, k, i : q = cur /\ k = asker[cur].kind /\ i = req_id
      OBVIOUS
    <3>2. at = "query" /\ errors' = [errors EXCEPT ![q] = @ + 1] /\ UNCHANGED <<asker, delivered>>
      BY <2>4, <3>1 DEF ApiQueryFailed, QueryError
    <3>3. q \in Queries /\ k \in Kinds /\ i \in DOMAIN qry[k] /\ qry[k][i] = q
      BY <3>1, <3>2 DEF QueryInv, FlightIsCached, TypeOK, LinkType
    <3>4. Promise!Pending(q)
      BY <3>3, PendingBar DEF TypeOK
    <3>5. errors[q] = 0
      BY <3>4 DEF Promise!Pending
    <3>6. Promise!Refuse(q)
      BY <3>2, <3>4, <3>5 DEF Promise!Refuse
    <3> QED BY <3>3, <3>6 DEF Promise!Next
  <2>5. ASSUME NEW f \in flight, OnQueryRow(f) PROVE UNCHANGED <<asker, delivered, errors>>
    BY <2>5, Zenon DEF OnQueryRow
  <2>6. ASSUME NEW f \in flight, OnQueryLast(f) PROVE Promise!Next
    <3>1. PICK q, w, k : q = f.query /\ w = asker[f.query].ws /\ k = asker[f.query].kind
      OBVIOUS
    <3>2. q \in Queries /\ Promise!Pending(q)
      <4>1. k \in Kinds /\ f.id \in DOMAIN qry[k] /\ qry[k][f.id] = q /\ q \in Queries
        BY <3>1, FlightEntry DEF TypeOK
      <4> QED BY <4>1, PendingBar DEF TypeOK
    <3>3. PICK rows : /\ rows \in Seq(Queries) /\ Len(rows) <= MaxRows
                      /\ \A n \in 1..Len(rows) : rows[n] = q
                      /\ delivered' = [delivered EXCEPT ![q] = Append(delivered[q], [to |-> w, rows |-> rows])]
      BY <2>6, <3>1, LastAnswers
    <3>4. PICK m : m = Len(rows) /\ m \in 0..MaxRows /\ rows = [n \in 1..m |-> q]
      <4>1. Len(rows) \in Nat /\ rows = [n \in 1..Len(rows) |-> rows[n]]
        BY <3>3
      <4> QED BY <3>3, <4>1, XtpTradeAssumption
    <3>5. delivered' = [delivered EXCEPT ![q] = <<[to |-> w, rows |-> [n \in 1..m |-> q]]>>]
      <4>1. delivered[q] = <<>>
        BY <3>2 DEF Promise!Pending
      <4>2. Append(<<>>, [to |-> w, rows |-> rows]) = <<[to |-> w, rows |-> rows]>>
        OBVIOUS
      <4> QED BY <3>3, <3>4, <4>1, <4>2
    <3>6. UNCHANGED <<asker, errors>> /\ [p \in Queries |-> asker[p].ws][q] = w
      BY <2>6, <3>1, <3>2, LastAnswers
    <3>7. Promise!Answer(q)
      BY <3>2, <3>4, <3>5, <3>6 DEF Promise!Answer
    <3> QED BY <3>2, <3>7 DEF Promise!Next
  <2> QED BY <1>1, <2>1, <2>2, <2>3, <2>4, <2>5, <2>6 DEF QueryStep
<1>2. CASE OrderStep
  BY <1>2, OrderFrame DEF queryVars
<1>3. CASE LinkStep
  BY <1>3, LinkFrame
<1>4. CASE UNCHANGED vars
  BY <1>4 DEF vars, queryVars
<1> QED BY <1>1, <1>2, <1>3, <1>4, Steps

\* A client gets one result, of its own query and with rows of that query only, or one
\* error, in whatever order sessions, rows and messages come.
THEOREM QueriesRefined == Spec => ImplementsQueryPromise
<1> USE DEF ImplementsQueryPromise
<1> QED BY PromiseInit, PromiseStep, InvCorrect, PTL DEF Spec, Promise!Spec
=============================================================================
