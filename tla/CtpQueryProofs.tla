---------------------------- MODULE CtpQueryProofs ----------------------------
(***************************************************************************)
(* Theorems about CtpQuery, for every set of clients, queries and kinds    *)
(* and for every bound. Inv is inductive: the ids do not run out, a        *)
(* message waits untouched, and, without a race for an id, what is cached  *)
(* under an id is the query that CTP answers under it.                     *)
(***************************************************************************)
EXTENDS CtpQuery, FiniteSetTheorems, TLAPS

-----------------------------------------------------------------------------
(* The tunnel and the ids.                                                  *)

\* What is in the tunnel after a message was put there.
LEMMA AppendRange ==
    ASSUME NEW S, NEW s \in Seq(S), NEW x \in S
    PROVE  /\ Append(s, x) \in Seq(S) /\ Range(Append(s, x)) = Range(s) \cup {x}
           /\ (\A m, n \in 1..Len(s) : s[m] = s[n] => m = n) /\ x \notin Range(s) =>
                 \A m, n \in 1..Len(Append(s, x)) : Append(s, x)[m] = Append(s, x)[n] => m = n
<1>1. /\ Append(s, x) \in Seq(S) /\ Len(Append(s, x)) = Len(s) + 1 /\ Len(s) \in Nat
      /\ \A m \in 1..Len(s) : Append(s, x)[m] = s[m]
      /\ Append(s, x)[Len(s) + 1] = x
      /\ DOMAIN s = 1..Len(s) /\ DOMAIN Append(s, x) = 1..(Len(s) + 1)
  OBVIOUS
<1>2. PICK t, d : t = Append(s, x) /\ d = Len(s)
  OBVIOUS
<1>3. /\ d \in Nat /\ \A m \in 1..d : t[m] = s[m]
      /\ t[d + 1] = x /\ DOMAIN s = 1..d /\ DOMAIN t = 1..(d + 1) /\ Len(t) = d + 1
  BY <1>1, <1>2
<1>4. Range(t) = Range(s) \cup {x}
  BY <1>3 DEF Range
<1>5. ASSUME \A m, n \in 1..d : s[m] = s[n] => m = n, x \notin Range(s)
      PROVE  \A m, n \in 1..(d + 1) : t[m] = t[n] => m = n
  <2>1. \A m \in 1..d : s[m] # x
    BY <1>3, <1>5 DEF Range
  <2>2. \A m \in 1..(d + 1) : m \in 1..d \/ m = d + 1
    BY <1>3
  <2> QED BY <1>3, <1>5, <2>1, <2>2
<1> QED BY <1>1, <1>2, <1>3, <1>4, <1>5

\* What is in it after the first message was taken.
LEMMA TailRange ==
    ASSUME NEW S, NEW s \in Seq(S), s # <<>>, \A m, n \in 1..Len(s) : s[m] = s[n] => m = n
    PROVE  /\ Head(s) \in S /\ Head(s) \in Range(s)
           /\ Tail(s) \in Seq(S) /\ Range(Tail(s)) = Range(s) \ {Head(s)}
           /\ \A m, n \in 1..Len(Tail(s)) : Tail(s)[m] = Tail(s)[n] => m = n
<1>1. /\ Tail(s) \in Seq(S) /\ Len(Tail(s)) = Len(s) - 1 /\ Len(s) \in Nat /\ Len(s) >= 1
      /\ \A m \in 1..(Len(s) - 1) : Tail(s)[m] = s[m + 1]
      /\ Head(s) = s[1] /\ DOMAIN s = 1..Len(s) /\ DOMAIN Tail(s) = 1..(Len(s) - 1)
      /\ s[1] \in S
  OBVIOUS
<1>2. PICK t, d, h : t = Tail(s) /\ d = Len(s) - 1 /\ h = Head(s)
  OBVIOUS
<1>3. /\ d \in Nat /\ \A m \in 1..d : t[m] = s[m + 1]
      /\ h = s[1] /\ DOMAIN s = 1..(d + 1) /\ DOMAIN t = 1..d /\ Len(t) = d
      /\ \A m, n \in 1..(d + 1) : s[m] = s[n] => m = n
  BY <1>1, <1>2
<1>4. \A m \in 1..d : m + 1 \in 1..(d + 1) /\ m + 1 # 1
  BY <1>3
<1>5. \A m, n \in 1..d : t[m] = t[n] => m = n
  BY <1>3, <1>4
<1>6. Range(t) = Range(s) \ {h}
  <2>1. ASSUME NEW x \in Range(t) PROVE x \in Range(s) \ {h}
    <3>1. PICK m \in 1..d : x = s[m + 1]
      BY <1>3 DEF Range
    <3> QED BY <1>3, <1>4, <3>1 DEF Range
  <2>2. ASSUME NEW x \in Range(s) \ {h} PROVE x \in Range(t)
    <3>1. PICK m \in 1..(d + 1) : x = s[m] /\ m # 1
      BY <1>3 DEF Range
    <3>2. m - 1 \in 1..d /\ (m - 1) + 1 = m
      BY <1>3, <3>1
    <3> QED BY <1>3, <3>1, <3>2 DEF Range
  <2> QED BY <2>1, <2>2
<1>7. h \in S /\ h \in Range(s)
  BY <1>1, <1>3, <1>2 DEF Range
<1> QED BY <1>1, <1>2, <1>3, <1>5, <1>6, <1>7

\* The bounds of the ids.
LEMMA IdsFacts ==
    /\ Cardinality(Queries) \in Nat /\ FirstId \in Ids /\ FirstId + 3 \in Ids
    /\ \A i \in Ids : i \in Nat /\ i >= FirstId
    /\ \A i \in Nat : FirstId <= i /\ i <= FirstId + Cardinality(Queries) + 3 * MaxLogin => i \in Ids
<1>1. Cardinality(Queries) \in Nat
  BY FS_CardinalityType, CtpQueryAssumption
<1> QED BY <1>1, CtpQueryAssumption DEF Ids

LEMMA DrawnFinite ==
    /\ IsFiniteSet(Drawn) /\ Cardinality(Drawn) \in Nat /\ Cardinality(Drawn) <= Cardinality(Queries)
<1>1. Drawn \subseteq Queries
  BY DEF Drawn
<1> QED BY <1>1, FS_Subset, FS_CardinalityType, CtpQueryAssumption

\* Only the increment of the message loop draws an id for a query, and a query that has
\* one keeps it.
LEMMA DrawnStep ==
    ASSUME TypeOK, MsgsWait, HandledAsKind, [Next]_vars
    PROVE  /\ Cardinality(Drawn) <= Cardinality(Drawn')
           /\ StoreReqId => Cardinality(Drawn') = Cardinality(Drawn) + 1
<1>1. msgs \in Seq(Queries) /\ \A m, n \in 1..Len(msgs) : msgs[m] = msgs[n] => m = n
  BY DEF TypeOK, LoopType, MsgsWait
<1>2. \A q \in Range(msgs) : q \in Queries /\ q # cur
  <2>1. \A q \in Range(msgs) : q \in Queries
    BY <1>1 DEF Range
  <2> QED BY <2>1 DEF MsgsWait, Untouched
<1>3. CASE StoreReqId
  <2>1. at = "store" /\ at' = "send" /\ UNCHANGED <<asked, msgs, cur>>
    BY <1>3 DEF StoreReqId, hubVars
  <2>2. cur \in Queries /\ asked[cur] # NotAsked /\ cur \notin Range(msgs)
    <3>1. cur \in Queries
      BY <2>1 DEF HandledAsKind, TypeOK, LoopType
    <3> QED BY <1>2, <3>1 DEF MsgsWait, Untouched
  <2>3. Drawn' = Drawn \cup {cur} /\ cur \notin Drawn
    BY <2>1, <2>2 DEF Drawn
  <2>4. PICK D, q : D = Drawn /\ q = cur
    OBVIOUS
  <2>5. Cardinality(D \cup {q}) = Cardinality(D) + 1
    BY <2>3, <2>4, DrawnFinite, FS_AddElement
  <2> QED BY <2>3, <2>4, <2>5, DrawnFinite
<1>4. CASE ~StoreReqId
  <2>1. Drawn \subseteq Drawn'
    <3>1. CASE UNCHANGED <<asked, msgs, cur, at>>
      BY <3>1 DEF Drawn
    <3>2. ASSUME NEW c \in Clients, NEW q \in Queries, NEW k \in Kinds \cup {TradingDay}, OnMessage(c, q, k)
          PROVE  Drawn \subseteq Drawn'
      <4>1. /\ UNCHANGED <<cur, at>> /\ asked[q] = NotAsked /\ msgs' = Append(msgs, q)
            /\ asked' = [asked EXCEPT ![q] = [ws |-> c, kind |-> k]]
        BY <3>2 DEF OnMessage, loopVars
      <4>2. Range(msgs') = Range(msgs) \cup {q}
        BY <1>1, <4>1, AppendRange
      <4>3. \A p \in Queries \ {q} : asked'[p] = asked[p]
        BY <4>1 DEF TypeOK, LoopType
      <4> QED BY <4>1, <4>2, <4>3 DEF Drawn
    <3>3. CASE QueryTradingDay \/ QueryRefused \/ QueryBegin
      <4>1. /\ UNCHANGED asked /\ msgs # <<>> /\ msgs' = Tail(msgs)
            /\ at = "read" /\ (UNCHANGED <<cur, at>> \/ cur' = Head(msgs))
        BY <3>3 DEF QueryTradingDay, QueryRefused, QueryBegin, hubVars, loopVars
      <4>2. Range(msgs') \subseteq Range(msgs) /\ Head(msgs) \in Range(msgs)
        BY <1>1, <4>1, TailRange
      <4> QED BY <4>1, <4>2 DEF Drawn
    <3>4. CASE CacheQry \/ LoadReqId
      BY <3>4 DEF CacheQry, LoadReqId, hubVars, Drawn
    <3>5. CASE ReqQry \/ ReqQryFailed
      <4>1. UNCHANGED <<asked, msgs>> /\ cur' = NoQuery
        BY <3>5 DEF ReqQry, ReqQryFailed, hubVars
      <4> QED BY <4>1, CtpQueryAssumption DEF Drawn
    <3>6. CASE LinkLost \/ Callback
      <4>1. UNCHANGED <<asked, msgs, cur, at>>
        BY <3>6, Zenon DEF LinkLost, Callback, OnFrontDisconnected, OnFrontConnected, OnRspAuthenticate,
              OnRspUserLogin, SpiLoad, SpiStore, OnRspQry, OnRspQryLast, hubVars, loopVars
      <4> QED BY <3>1, <4>1
    <3>7. ASSUME NEW c \in Clients, OnConnection(c) \/ OnDisconnection(c) PROVE Drawn \subseteq Drawn'
      BY <3>1, <3>7 DEF OnConnection, OnDisconnection, loopVars
    <3>8. CASE UNCHANGED vars
      BY <3>1, <3>8 DEF vars, hubVars, loopVars
    <3> QED BY <1>4, <3>2, <3>3, <3>4, <3>5, <3>6, <3>7, <3>8 DEF Next, Hub, MessageLoop
  <2>2. Drawn' \subseteq Queries
    BY DEF Drawn
  <2>3. PICK D, E : D = Drawn /\ E = Drawn'
    OBVIOUS
  <2>4. IsFiniteSet(E) /\ D \in SUBSET E
    BY <2>1, <2>2, <2>3, FS_Subset, CtpQueryAssumption
  <2>5. Cardinality(D) <= Cardinality(E)
    BY <2>4, FS_Subset
  <2> QED BY <1>4, <2>3, <2>5
<1> QED BY <1>3, <1>4, DrawnFinite

\* Of the three ids of a login one is drawn by each increment of the callback thread.
LEMMA SpiDrawnStep ==
    ASSUME SpiType, [Next]_vars
    PROVE  /\ SpiDrawn \in Int /\ SpiDrawn <= SpiDrawn' /\ SpiDrawn' \in Int /\ SpiDrawn' <= 3 * MaxLogin
           /\ SpiStore => SpiDrawn' = SpiDrawn + 1
<1>1. CASE UNCHANGED <<stage, spi, logins>>
  <2>1. ~SpiStore
    BY <1>1 DEF SpiStore
  <2> QED BY <1>1, <2>1, CtpQueryAssumption DEF SpiType, SpiDrawn
<1>2. CASE OnFrontDisconnected \/ OnFrontConnected \/ OnRspAuthenticate \/ OnRspUserLogin
  <2>1. spi = "idle"
    BY <1>2 DEF OnFrontDisconnected, OnFrontConnected, OnRspAuthenticate, OnRspUserLogin
  <2>2. logins \in Nat /\ MaxLogin \in Nat /\ logins <= MaxLogin /\ ~SpiStore
    BY <2>1, CtpQueryAssumption DEF SpiType, SpiStore
  <2>3. CASE OnFrontDisconnected
    BY <2>1, <2>2, <2>3 DEF OnFrontDisconnected, SpiType, SpiDrawn
  <2>4. CASE OnFrontConnected
    <3>1. logins' = logins + 1 /\ logins' <= MaxLogin /\ stage = "none" /\ stage' = "auth" /\ spi' = "load"
      BY <2>2, <2>4 DEF OnFrontConnected
    <3> QED BY <2>1, <2>2, <3>1 DEF SpiDrawn
  <2>5. CASE OnRspAuthenticate
    BY <2>1, <2>2, <2>5 DEF OnRspAuthenticate, SpiDrawn
  <2>6. CASE OnRspUserLogin
    BY <2>1, <2>2, <2>6 DEF OnRspUserLogin, SpiDrawn
  <2> QED BY <1>2, <2>3, <2>4, <2>5, <2>6
<1>3. CASE SpiLoad \/ SpiStore
  <2>1. logins \in Nat /\ MaxLogin \in Nat /\ logins <= MaxLogin
    BY CtpQueryAssumption DEF SpiType
  <2>2. CASE SpiLoad
    <3>1. spi = "load" /\ spi' = "store" /\ UNCHANGED <<stage, logins>> /\ ~SpiStore
      BY <2>2 DEF SpiLoad, SpiStore
    <3> QED BY <2>1, <3>1 DEF SpiDrawn
  <2>3. CASE SpiStore
    <3>1. spi = "store" /\ spi' = "idle" /\ UNCHANGED <<stage, logins>>
      BY <2>3 DEF SpiStore
    <3> QED BY <2>1, <3>1 DEF SpiDrawn
  <2> QED BY <1>3, <2>2, <2>3
<1>4. CASE LinkLost
  BY <1>1, <1>4 DEF LinkLost
<1>5. CASE Hub \/ MessageLoop
  <2>1. UNCHANGED spiVars
    BY <1>5, Zenon DEF Hub, OnConnection, OnDisconnection, OnMessage, MessageLoop, QueryTradingDay, QueryRefused,
          QueryBegin, CacheQry, LoadReqId, StoreReqId, ReqQry, ReqQryFailed
  <2> QED BY <1>1, <2>1 DEF spiVars
<1>6. ASSUME NEW f \in flight, OnRspQry(f) \/ OnRspQryLast(f) PROVE UNCHANGED spiVars
  BY <1>6, Zenon DEF OnRspQry, OnRspQryLast
<1>7. CASE UNCHANGED vars
  BY <1>1, <1>7 DEF vars, spiVars
<1> QED BY <1>1, <1>2, <1>3, <1>4, <1>5, <1>6, <1>7 DEF Next, Callback, spiVars

\* The ids do not run out.
LEMMA IdsStep ==
    ASSUME TypeOK, IdsSuffice, MsgsWait, HandledAsKind, [Next]_vars
    PROVE  IdsSuffice' /\ req_id' \in Ids /\ got' \in Ids /\ spiGot' \in Ids
<1>1. PICK a, b, c, d : a = Cardinality(Drawn) /\ b = Cardinality(Drawn') /\ c = SpiDrawn /\ d = SpiDrawn'
  OBVIOUS
<1>2. a \in Nat /\ b \in Nat /\ a <= b /\ b <= Cardinality(Queries)
  <2>1. IsFiniteSet(Drawn') /\ Cardinality(Drawn') \in Nat /\ Cardinality(Drawn') <= Cardinality(Queries)
    <3>1. Drawn' \subseteq Queries
      BY DEF Drawn
    <3> QED BY <3>1, FS_Subset, FS_CardinalityType, CtpQueryAssumption
  <2> QED BY <1>1, <2>1, DrawnFinite, DrawnStep
<1>3. c \in Int /\ d \in Int /\ c <= d /\ d <= 3 * MaxLogin
  BY <1>1, SpiDrawnStep DEF TypeOK
<1>4. /\ req_id \in Nat /\ got \in Nat /\ spiGot \in Nat
      /\ req_id >= FirstId /\ got >= FirstId /\ spiGot >= FirstId
      /\ req_id <= FirstId + a + c /\ got <= FirstId + a + c /\ spiGot <= FirstId + a + c
  BY <1>1, IdsFacts DEF TypeOK, LoopType, SpiType, IdsSuffice
<1>5. /\ req_id' \in Nat /\ got' \in Nat /\ spiGot' \in Nat
      /\ req_id' >= FirstId /\ got' >= FirstId /\ spiGot' >= FirstId
      /\ req_id' <= FirstId + b + d /\ got' <= FirstId + b + d /\ spiGot' <= FirstId + b + d
  <2>0. FirstId \in Nat
    BY CtpQueryAssumption
  <2>1. CASE StoreReqId
    <3>1. req_id' = got + 1 /\ got' = got /\ spiGot' = spiGot /\ b = a + 1
      BY <1>1, <2>1, DrawnStep DEF StoreReqId, spiVars
    <3> QED BY <1>2, <1>3, <1>4, <2>0, <3>1
  <2>2. CASE SpiStore
    <3>1. req_id' = spiGot + 1 /\ got' = got /\ spiGot' = spiGot /\ d = c + 1
      BY <1>1, <2>2, SpiDrawnStep DEF SpiStore, loopVars, TypeOK
    <3> QED BY <1>2, <1>3, <1>4, <2>0, <3>1
  <2>3. CASE ~StoreReqId /\ ~SpiStore
    <3>1. req_id' = req_id /\ (got' = got \/ got' = req_id) /\ (spiGot' = spiGot \/ spiGot' = req_id)
      <4>1. CASE Hub \/ MessageLoop
        BY <2>3, <4>1, Zenon DEF Hub, OnConnection, OnDisconnection, OnMessage, MessageLoop, QueryTradingDay, QueryRefused,
            QueryBegin, CacheQry, LoadReqId, ReqQry, ReqQryFailed, loopVars, spiVars
      <4>2. CASE LinkLost \/ Callback
        BY <2>3, <4>2, Zenon DEF LinkLost, Callback, OnFrontDisconnected, OnFrontConnected, OnRspAuthenticate,
              OnRspUserLogin, SpiLoad, OnRspQry, OnRspQryLast, loopVars, spiVars
      <4>3. CASE UNCHANGED vars
        BY <4>3 DEF vars, loopVars, spiVars
      <4> QED BY <4>1, <4>2, <4>3 DEF Next
    <3> QED BY <1>2, <1>3, <1>4, <2>0, <3>1
  <2> QED BY <2>1, <2>2, <2>3
<1>6. req_id' \in Ids /\ got' \in Ids /\ spiGot' \in Ids
  <2>1. FirstId + b + d <= FirstId + Cardinality(Queries) + 3 * MaxLogin
    BY <1>2, <1>3, IdsFacts, CtpQueryAssumption
  <2>2. FirstId \in Nat /\ Cardinality(Queries) \in Nat /\ MaxLogin \in Nat
    BY IdsFacts, CtpQueryAssumption
  <2>3. /\ req_id' <= FirstId + Cardinality(Queries) + 3 * MaxLogin
        /\ got' <= FirstId + Cardinality(Queries) + 3 * MaxLogin
        /\ spiGot' <= FirstId + Cardinality(Queries) + 3 * MaxLogin
    BY <1>2, <1>3, <1>5, <2>1, <2>2
  <2> QED BY <1>5, <2>3, IdsFacts
<1> QED BY <1>1, <1>5, <1>6 DEF IdsSuffice

-----------------------------------------------------------------------------
(* The type invariant.                                                      *)

LEMMA TypeInit == ASSUME NEW up \in BOOLEAN, InitWith(up) PROVE TypeOK
<1>1. <<>> \in Seq(Queries)
  OBVIOUS
<1>2. LoopType
  BY <1>1, IdsFacts DEF InitWith, LoopType
<1>3. CacheType
  BY <1>1, IdsFacts DEF InitWith, CacheType, Row
<1>4. SpiType
  BY IdsFacts, CtpQueryAssumption DEF InitWith, SpiType
<1>5. SayType
  BY <1>1 DEF InitWith, SayType, Nothing, Row
<1> QED BY <1>2, <1>3, <1>4, <1>5 DEF TypeOK

LEMMA LoopTypeStep ==
    ASSUME LoopType, [Next]_vars, req_id' \in Ids, got' \in Ids PROVE LoopType'
<1> USE DEF hubVars, loopVars
<1>1. CASE UNCHANGED <<ws_set, asked, msgs, at, cur>>
  BY <1>1 DEF LoopType
<1>2. ASSUME NEW c \in Clients, OnConnection(c) \/ OnDisconnection(c) PROVE LoopType'
  BY <1>2 DEF LoopType, OnConnection, OnDisconnection
<1>3. ASSUME NEW c \in Clients, NEW q \in Queries, NEW k \in Kinds \cup {TradingDay}, OnMessage(c, q, k)
      PROVE  LoopType'
  <2>1. msgs' \in Seq(Queries)
    BY <1>3 DEF LoopType, OnMessage
  <2>2. asked' \in [Queries -> [ws : Clients, kind : Kinds \cup {TradingDay}] \cup {NotAsked}]
    BY <1>3 DEF LoopType, OnMessage
  <2> QED BY <1>3, <2>1, <2>2 DEF LoopType, OnMessage
<1>4. CASE QueryTradingDay \/ QueryRefused \/ QueryBegin
  <2>1. msgs # <<>> /\ msgs' = Tail(msgs) /\ msgs \in Seq(Queries)
    BY <1>4 DEF LoopType, QueryTradingDay, QueryRefused, QueryBegin
  <2>2. msgs' \in Seq(Queries) /\ Head(msgs) \in Queries
    BY <2>1
  <2> QED BY <1>4, <2>2 DEF LoopType, QueryTradingDay, QueryRefused, QueryBegin
<1>5. CASE CacheQry \/ LoadReqId \/ StoreReqId \/ ReqQry \/ ReqQryFailed
  BY <1>5 DEF LoopType, CacheQry, LoadReqId, StoreReqId, ReqQry, ReqQryFailed
<1>6. CASE LinkLost \/ Callback
  <2>1. UNCHANGED <<ws_set, asked, msgs, at, cur>>
    BY <1>6, Zenon DEF LinkLost, Callback, OnFrontDisconnected, OnFrontConnected, OnRspAuthenticate,
          OnRspUserLogin, SpiLoad, SpiStore, OnRspQry, OnRspQryLast
  <2> QED BY <1>1, <2>1
<1> QED BY <1>1, <1>2, <1>3, <1>4, <1>5, <1>6 DEF Next, Hub, MessageLoop, vars

LEMMA CacheTypeStep ==
    ASSUME LoopType, CacheType, HandledAsKind, [Next]_vars PROVE CacheType'
<1> USE DEF cacheVars
<1>1. CASE UNCHANGED <<cacheVars, flight>>
  BY <1>1 DEF CacheType
<1>2. CASE CacheQry
  <2>1. cur \in Queries /\ asked[cur].ws \in Clients /\ asked[cur].kind \in Kinds
    <3>1. cur \in Queries /\ asked[cur].kind \in Kinds
      BY <1>2 DEF CacheQry, LoopType, HandledAsKind
    <3>2. asked[cur] # NotAsked
      BY <3>1, CtpQueryAssumption DEF NotAsked
    <3> QED BY <3>1, <3>2 DEF LoopType
  <2>2. qry_ws' \in [Ids -> Clients \cup {NoWs}]
    BY <1>2, <2>1 DEF CacheQry, CacheType, LoopType
  <2>3. qry' \in [Kinds -> [Ids -> Queries \cup {NoQuery}]]
    <3>1. PICK k, q, i : k = asked[cur].kind /\ q = cur /\ i = req_id /\ k \in Kinds /\ q \in Queries /\ i \in Ids
      BY <2>1 DEF LoopType
    <3>2. qry' = [qry EXCEPT ![k][i] = q]
      BY <1>2, <3>1 DEF CacheQry
    <3> QED BY <3>1, <3>2 DEF CacheType
  <2> QED BY <1>2, <2>2, <2>3 DEF CacheQry, CacheType
<1>3. CASE ReqQry
  <2>1. 0 \in 0..MaxRows
    BY CtpQueryAssumption
  <2>2. [id |-> got, query |-> cur, rows |-> 0] \in [id : Ids, query : Queries, rows : 0..MaxRows]
    BY <1>3, <2>1 DEF ReqQry, LoopType, HandledAsKind
  <2> QED BY <1>3, <2>2 DEF ReqQry, CacheType
<1>4. ASSUME NEW k, NEW i, GetAndClear(k, i)
      PROVE  qry_ws' \in [Ids -> Clients \cup {NoWs}] /\ qry' \in [Kinds -> [Ids -> Queries \cup {NoQuery}]]
  BY <1>4 DEF GetAndClear, CacheType
<1>5. CASE ReqQryFailed
  <2>1. \E k, i : GetAndClear(k, i)
    BY <1>5, Zenon DEF ReqQryFailed
  <2> QED BY <1>4, <1>5, <2>1 DEF ReqQryFailed, CacheType
<1>6. ASSUME NEW f \in flight, OnRspQry(f) PROVE CacheType'
  <2>1. f \in [id : Ids, query : Queries, rows : 0..MaxRows] /\ f.rows < MaxRows
    BY <1>6 DEF CacheType, OnRspQry
  <2>2. [f EXCEPT !.rows = @ + 1] \in [id : Ids, query : Queries, rows : 0..MaxRows]
    BY <2>1, CtpQueryAssumption
  <2>3. flight' \subseteq [id : Ids, query : Queries, rows : 0..MaxRows]
    BY <1>6, <2>2 DEF CacheType, OnRspQry
  <2>4. rsp' \in [Kinds -> [Ids -> Seq(Row)]]
    <3>1. PICK k, q, i : k = asked[f.query].kind /\ q = f.query /\ i = f.id /\ q \in Queries /\ i \in Ids /\ k \in Kinds
      BY <2>1 DEF HandledAsKind
    <3>2. rsp' = [rsp EXCEPT ![k][i] = Append(rsp[k][i], q)]
      BY <1>6, <3>1, <2>1 DEF OnRspQry, CacheType
    <3>3. rsp \in [Kinds -> [Ids -> Seq(Queries)]] /\ rsp[k] \in [Ids -> Seq(Queries)]
      BY <3>1 DEF CacheType, Row
    <3>4. Append(rsp[k][i], q) \in Seq(Queries)
      BY <3>1, <3>3
    <3> QED BY <3>1, <3>2, <3>3, <3>4 DEF Row
  <2> QED BY <1>6, <2>3, <2>4 DEF OnRspQry, CacheType
<1>7. ASSUME NEW f \in flight, OnRspQryLast(f) PROVE CacheType'
  <2>1. \E k, i : GetAndClear(k, i) /\ rsp' = [rsp EXCEPT ![k][i] = <<>>]
    <3>1. PICK k : k = asked[f.query].kind
      OBVIOUS
    <3>2. GetAndClear(k, f.id) /\ rsp' = [rsp EXCEPT ![k][f.id] = <<>>]
      BY <1>7, <3>1 DEF OnRspQryLast
    <3> QED BY <3>2
  <2>2. <<>> \in Seq(Row)
    OBVIOUS
  <2>3. rsp' \in [Kinds -> [Ids -> Seq(Row)]]
    <3>1. PICK k, i, R : rsp' = [rsp EXCEPT ![k][i] = <<>>] /\ R = Seq(Row)
      BY <2>1
    <3>2. PICK none : none = <<>> /\ none \in R
      BY <2>2, <3>1
    <3>3. rsp' = [rsp EXCEPT ![k][i] = none] /\ rsp \in [Kinds -> [Ids -> R]]
      BY <3>1, <3>2 DEF CacheType
    <3>4. rsp' \in [Kinds -> [Ids -> R]]
      BY <3>2, <3>3
    <3> QED BY <3>1, <3>4
  <2>4. flight' \subseteq [id : Ids, query : Queries, rows : 0..MaxRows]
    BY <1>7 DEF OnRspQryLast, CacheType
  <2> QED BY <1>4, <2>1, <2>3, <2>4 DEF CacheType
<1>8. CASE LinkLost
  BY <1>8 DEF LinkLost, CacheType
<1>9. CASE OnFrontDisconnected \/ OnFrontConnected \/ OnRspAuthenticate \/ OnRspUserLogin \/ SpiLoad \/ SpiStore
  BY <1>1, <1>9 DEF OnFrontDisconnected, OnFrontConnected, OnRspAuthenticate, OnRspUserLogin, SpiLoad, SpiStore
<1>10. CASE QueryTradingDay \/ QueryRefused \/ QueryBegin \/ LoadReqId \/ StoreReqId
  BY <1>1, <1>10 DEF QueryTradingDay, QueryRefused, QueryBegin, LoadReqId, StoreReqId
<1>11. CASE Hub
  BY <1>1, <1>11 DEF Hub, OnConnection, OnDisconnection, OnMessage
<1> QED BY <1>1, <1>2, <1>3, <1>5, <1>6, <1>7, <1>8, <1>9, <1>10, <1>11 DEF Next, MessageLoop, Callback, vars

LEMMA SpiTypeStep == ASSUME SpiType, [Next]_vars, spiGot' \in Ids PROVE SpiType'
<1>1. CASE UNCHANGED spiVars
  BY <1>1 DEF SpiType, spiVars
<1>2. CASE LinkLost \/ OnFrontDisconnected \/ OnFrontConnected \/ OnRspAuthenticate \/ OnRspUserLogin
  <2>1. logins' \in 0..MaxLogin
    BY <1>2, CtpQueryAssumption
       DEF LinkLost, OnFrontDisconnected, OnFrontConnected, OnRspAuthenticate, OnRspUserLogin, SpiType
  <2>2. api_ready' \in BOOLEAN /\ link' \in BOOLEAN
    BY <1>2, Zenon DEF LinkLost, OnFrontDisconnected, OnFrontConnected, OnRspAuthenticate, OnRspUserLogin, SpiType
  <2>3. stage' \in {"none", "auth", "login", "settle"} /\ spi' \in {"idle", "load", "store"}
    BY <1>2 DEF LinkLost, OnFrontDisconnected, OnFrontConnected, OnRspAuthenticate, OnRspUserLogin, SpiType
  <2> QED BY <2>1, <2>2, <2>3 DEF SpiType
<1>3. CASE SpiLoad \/ SpiStore
  BY <1>3 DEF SpiLoad, SpiStore, SpiType
<1>4. CASE Hub \/ MessageLoop
  BY <1>1, <1>4, Zenon DEF Hub, OnConnection, OnDisconnection, OnMessage, MessageLoop, QueryTradingDay, QueryRefused,
        QueryBegin, CacheQry, LoadReqId, StoreReqId, ReqQry, ReqQryFailed
<1>5. ASSUME NEW f \in flight, OnRspQry(f) \/ OnRspQryLast(f) PROVE UNCHANGED spiVars
  BY <1>5, Zenon DEF OnRspQry, OnRspQryLast
<1>6. CASE UNCHANGED vars
  BY <1>1, <1>6 DEF vars
<1> QED BY <1>1, <1>2, <1>3, <1>4, <1>5, <1>6 DEF Next, Callback

\* What is sent is of the type of what was given to SendMsgToClient.
LEMMA SendType ==
    ASSUME LoopType, SayType, NEW c, NEW k \in Kinds \cup {TradingDay}, NEW q \in Queries \cup {NoQuery},
           NEW rows \in Seq(Row), SendMsgToClient(c, k, q, rows)
    PROVE  last' \in [to : Clients \cup {NoWs}, kind : Kinds \cup {TradingDay},
                      query : Queries \cup {NoQuery}, rows : Seq(Row)]
<1>1. CASE c \in ws_set
  <2>1. c \in Clients /\ last' = [to |-> c, kind |-> k, query |-> q, rows |-> rows]
    BY <1>1 DEF LoopType, SendMsgToClient
  <2> QED BY <2>1
<1>2. CASE c \notin ws_set
  BY <1>2 DEF SendMsgToClient, SayType
<1> QED BY <1>1, <1>2

LEMMA SayTypeStep ==
    ASSUME LoopType, CacheType, SayType, HandledAsKind, [Next]_vars PROVE SayType'
<1>1. CASE UNCHANGED <<sayVars, raced>>
  BY <1>1 DEF SayType, sayVars
<1>2. CASE QueryTradingDay
  <2>1. Head(msgs) \in Queries
    BY <1>2 DEF QueryTradingDay, LoopType
  <2>2. answers' \in [Queries -> Nat] /\ UNCHANGED <<errors, raced>>
    BY <1>2, <2>1 DEF QueryTradingDay, SayType
  <2>3. <<>> \in Seq(Row)
    OBVIOUS
  <2>4. \E c : \E q \in Queries : SendMsgToClient(c, TradingDay, q, <<>>)
    BY <1>2, <2>1 DEF QueryTradingDay
  <2>5. last' \in [to : Clients \cup {NoWs}, kind : Kinds \cup {TradingDay},
                   query : Queries \cup {NoQuery}, rows : Seq(Row)]
    BY <2>3, <2>4, SendType
  <2> QED BY <2>2, <2>5 DEF SayType
<1>3. CASE QueryRefused
  <2>1. Head(msgs) \in Queries
    BY <1>3 DEF QueryRefused, LoopType
  <2> QED BY <1>3, <2>1 DEF QueryRefused, OnClientMsgError, SayType
<1>4. CASE ReqQryFailed
  <2>1. errors' \in [Queries -> Nat]
    BY <1>4 DEF ReqQryFailed, OnClientMsgError, SayType, LoopType, HandledAsKind
  <2> QED BY <1>4, <2>1 DEF ReqQryFailed, SayType
<1>5. CASE StoreReqId \/ SpiStore
  <2>1. UNCHANGED sayVars
    BY <1>5, Zenon DEF StoreReqId, SpiStore
  <2>2. raced' \in BOOLEAN
    BY <1>5, Zenon DEF StoreReqId, SpiStore, SayType
  <2> QED BY <2>1, <2>2 DEF SayType, sayVars
<1>6. ASSUME NEW f \in flight, OnRspQryLast(f) PROVE SayType'
  <2>1. PICK k \in Kinds, i \in Ids : k = asked[f.query].kind /\ i = f.id
    BY DEF HandledAsKind, CacheType
  <2>2. PICK q, rows : /\ q = qry[k][i]
                       /\ rows = IF f.rows < MaxRows THEN Append(rsp[k][i], f.query) ELSE rsp[k][i]
    OBVIOUS
  <2>3. q \in Queries \cup {NoQuery} /\ rows \in Seq(Row)
    <3>1. q \in Queries \cup {NoQuery} /\ rsp[k][i] \in Seq(Queries) /\ f.query \in Queries
      BY <2>1, <2>2 DEF CacheType, Row
    <3> QED BY <2>2, <3>1 DEF Row
  <2>4. /\ UNCHANGED <<errors, raced>> /\ \E c \in FoundWs(i) : SendMsgToClient(c, k, q, rows)
        /\ answers' = IF q # NoQuery THEN [answers EXCEPT ![q] = @ + 1] ELSE answers
    BY <1>6, <2>1, <2>2, Zenon DEF OnRspQryLast
  <2>5. last' \in [to : Clients \cup {NoWs}, kind : Kinds \cup {TradingDay},
                   query : Queries \cup {NoQuery}, rows : Seq(Row)]
    BY <2>1, <2>3, <2>4, SendType
  <2>6. answers' \in [Queries -> Nat]
    BY <2>3, <2>4 DEF SayType
  <2> QED BY <2>4, <2>5, <2>6 DEF SayType
<1>7. CASE Hub \/ LinkLost \/ OnFrontDisconnected \/ OnFrontConnected \/ OnRspAuthenticate \/ OnRspUserLogin \/ SpiLoad
  BY <1>1, <1>7, Zenon DEF Hub, OnConnection, OnDisconnection, OnMessage, LinkLost, OnFrontDisconnected, OnFrontConnected,
     OnRspAuthenticate, OnRspUserLogin, SpiLoad
<1>8. CASE QueryBegin \/ CacheQry \/ LoadReqId \/ ReqQry
  BY <1>1, <1>8, Zenon DEF QueryBegin, CacheQry, LoadReqId, ReqQry
<1>9. ASSUME NEW f \in flight, OnRspQry(f) PROVE UNCHANGED <<sayVars, raced>>
  BY <1>9, Zenon DEF OnRspQry
<1>10. CASE UNCHANGED vars
  BY <1>1, <1>10 DEF vars
<1> QED BY <1>1, <1>2, <1>3, <1>4, <1>5, <1>6, <1>7, <1>8, <1>9, <1>10 DEF Next, MessageLoop, Callback

LEMMA TypeStep ==
    ASSUME TypeOK, IdsSuffice, MsgsWait, HandledAsKind, [Next]_vars PROVE TypeOK' /\ IdsSuffice'
BY IdsStep, LoopTypeStep, CacheTypeStep, SpiTypeStep, SayTypeStep DEF TypeOK

-----------------------------------------------------------------------------
(* The tunnel, and what was never read from it.                             *)

\* A cache of each kind after one entry was set.
LEMMA EntrySet ==
    ASSUME NEW K, NEW I, NEW V, NEW m \in [K -> [I -> V]], NEW k \in K, NEW i, NEW v, NEW n,
           n = [m EXCEPT ![k][i] = v]
    PROVE  \A l \in K : \A j \in I : n[l][j] = IF l = k /\ j = i THEN v ELSE m[l][j]
OBVIOUS

\* The caches after GetAndClear*.
LEMMA Cleared ==
    ASSUME CacheType, NEW k \in Kinds, NEW i, GetAndClear(k, i)
    PROVE  /\ \A j \in Ids : qry_ws'[j] = IF j = i THEN NoWs ELSE qry_ws[j]
           /\ \A l \in Kinds : \A j \in Ids : qry'[l][j] = IF l = k /\ j = i THEN NoQuery ELSE qry[l][j]
<1>1. \A j \in Ids : qry_ws'[j] = IF j = i THEN NoWs ELSE qry_ws[j]
  BY DEF CacheType, GetAndClear
<1>2. PICK m, n : m = qry /\ n = qry' /\ n = [m EXCEPT ![k][i] = NoQuery]
  BY DEF GetAndClear
<1>3. m \in [Kinds -> [Ids -> Queries \cup {NoQuery}]]
  BY <1>2 DEF CacheType
<1> QED BY <1>1, <1>2, <1>3, EntrySet

\* The query in hand, after the loop read it.
LEMMA InHand ==
    ASSUME TypeOK, MsgsWait, HandledAsKind, at # "read"
    PROVE  /\ cur \in Queries /\ asked[cur] # NotAsked /\ cur \notin Range(msgs)
           /\ asked[cur].kind \in Kinds /\ asked[cur].ws \in Clients
<1>1. cur \in Queries /\ asked[cur].kind \in Kinds
  BY DEF HandledAsKind, TypeOK, LoopType
<1>2. asked[cur] # NotAsked /\ cur \notin Range(msgs)
  BY <1>1 DEF MsgsWait, Untouched
<1> QED BY <1>1, <1>2 DEF TypeOK, LoopType

\* The message the loop reads next.
LEMMA NextMessage ==
    ASSUME TypeOK, MsgsWait, msgs # <<>>
    PROVE  /\ Head(msgs) \in Queries /\ Head(msgs) \in Range(msgs) /\ asked[Head(msgs)] # NotAsked
           /\ Untouched(Head(msgs))
           /\ Range(Tail(msgs)) = Range(msgs) \ {Head(msgs)}
           /\ \A m, n \in 1..Len(Tail(msgs)) : Tail(msgs)[m] = Tail(msgs)[n] => m = n
<1>1. msgs \in Seq(Queries) /\ \A m, n \in 1..Len(msgs) : msgs[m] = msgs[n] => m = n
  BY DEF TypeOK, LoopType, MsgsWait
<1>2. /\ Head(msgs) \in Queries /\ Head(msgs) \in Range(msgs)
      /\ Range(Tail(msgs)) = Range(msgs) \ {Head(msgs)}
      /\ \A m, n \in 1..Len(Tail(msgs)) : Tail(msgs)[m] = Tail(msgs)[n] => m = n
  BY <1>1, TailRange
<1> QED BY <1>2 DEF MsgsWait

\* A query in hand or with CTP was asked, and is not in the tunnel.
LEMMA WithCTP ==
    ASSUME TypeOK, MsgsWait, HandledAsKind, NEW f \in flight
    PROVE  /\ f \in [id : Ids, query : Queries, rows : 0..MaxRows]
           /\ f.query \notin Range(msgs) /\ asked[f.query] # NotAsked /\ asked[f.query].kind \in Kinds
BY DEF TypeOK, CacheType, MsgsWait, Untouched, HandledAsKind

LEMMA WaitInit == ASSUME NEW up, InitWith(up) PROVE MsgsWait /\ HandledAsKind
<1>1. Range(msgs) = {} /\ Len(msgs) = 0
  BY DEF InitWith, Range
<1> QED BY <1>1, CtpQueryAssumption DEF InitWith, MsgsWait, Untouched, HandledAsKind

\* Steps that leave the tunnel and the loop alone, and touch no query that waits.
LEMMA WaitKept ==
    ASSUME MsgsWait, HandledAsKind, UNCHANGED <<asked, msgs, at, cur>>,
           \A q \in Queries : Untouched(q) => Untouched(q)',
           \A f \in flight' : \E g \in flight : g.query = f.query
    PROVE  MsgsWait' /\ HandledAsKind'
<1>1. MsgsWait'
  BY DEF MsgsWait
<1>2. HandledAsKind'
  BY DEF HandledAsKind
<1> QED BY <1>1, <1>2

LEMMA WaitStep ==
    ASSUME TypeOK, MsgsWait, HandledAsKind, [Next]_vars PROVE MsgsWait' /\ HandledAsKind'
<1>1. CASE UNCHANGED <<asked, msgs, at, cur, qry, answers, errors>> /\ flight' \subseteq flight
  <2>1. \A q \in Queries : Untouched(q) => Untouched(q)'
    BY <1>1 DEF Untouched
  <2> QED BY <1>1, <2>1, WaitKept
<1>2. ASSUME NEW c \in Clients, NEW q \in Queries, NEW k \in Kinds \cup {TradingDay}, OnMessage(c, q, k)
      PROVE  MsgsWait' /\ HandledAsKind'
  <2>1. /\ UNCHANGED <<at, cur, qry, answers, errors, flight>> /\ asked[q] = NotAsked
        /\ msgs' = Append(msgs, q) /\ asked' = [asked EXCEPT ![q] = [ws |-> c, kind |-> k]]
    BY <1>2 DEF OnMessage, loopVars, cacheVars, sayVars
  <2>2. /\ msgs \in Seq(Queries) /\ \A m, n \in 1..Len(msgs) : msgs[m] = msgs[n] => m = n
        /\ Untouched(q) /\ q \notin Range(msgs)
    BY <2>1 DEF TypeOK, LoopType, MsgsWait
  <2>3. /\ Range(msgs') = Range(msgs) \cup {q}
        /\ \A m, n \in 1..Len(msgs') : msgs'[m] = msgs'[n] => m = n
    BY <2>1, <2>2, AppendRange
  <2>4. /\ asked'[q] # NotAsked
        /\ \A p \in Queries \ {q} : asked'[p] = asked[p]
    <3>1. asked'[q] = [ws |-> c, kind |-> k] /\ \A p \in Queries \ {q} : asked'[p] = asked[p]
      BY <2>1 DEF TypeOK, LoopType
    <3> QED BY <3>1, CtpQueryAssumption DEF NotAsked
  <2>5. \A p \in Queries : Untouched(p) => Untouched(p)'
    BY <2>1 DEF Untouched
  <2>6. \A p \in Range(msgs) : p \in Queries
    BY <2>2 DEF Range
  <2>7. MsgsWait'
    BY <2>2, <2>3, <2>4, <2>5, <2>6 DEF MsgsWait
  <2>8. HandledAsKind'
    <3>1. cur # q /\ \A f \in flight : f.query \in Queries \ {q}
      BY <2>1, <2>2, WithCTP DEF Untouched
    <3> QED BY <2>1, <2>4, <3>1 DEF HandledAsKind, TypeOK, LoopType
  <2> QED BY <2>7, <2>8
<1>3. CASE QueryTradingDay \/ QueryRefused
  <2>1. /\ UNCHANGED <<asked, at, cur, qry, flight>> /\ msgs # <<>> /\ msgs' = Tail(msgs)
        /\ \/ errors' = errors /\ answers' = [answers EXCEPT ![Head(msgs)] = @ + 1]
           \/ answers' = answers /\ errors' = [errors EXCEPT ![Head(msgs)] = @ + 1]
    BY <1>3 DEF QueryTradingDay, QueryRefused, OnClientMsgError, hubVars, loopVars, cacheVars
  <2>2. PICK h : h = Head(msgs)
    OBVIOUS
  <2>3. /\ h \in Queries /\ asked[h] # NotAsked /\ Range(msgs') = Range(msgs) \ {h}
        /\ \A m, n \in 1..Len(msgs') : msgs'[m] = msgs'[n] => m = n
    BY <2>1, <2>2, NextMessage
  <2>4. \A p \in Queries \ {h} : Untouched(p) => Untouched(p)'
    <3>1. \A p \in Queries \ {h} : answers'[p] = answers[p] /\ errors'[p] = errors[p]
      BY <2>1, <2>2, <2>3 DEF TypeOK, SayType
    <3> QED BY <2>1, <3>1 DEF Untouched
  <2>5. MsgsWait'
    BY <2>1, <2>3, <2>4 DEF MsgsWait
  <2>6. HandledAsKind'
    BY <2>1 DEF HandledAsKind
  <2> QED BY <2>5, <2>6
<1>4. CASE QueryBegin
  <2>1. /\ UNCHANGED <<asked, qry, flight, answers, errors>> /\ msgs # <<>> /\ msgs' = Tail(msgs)
        /\ at' = "cache" /\ cur' = Head(msgs) /\ asked[Head(msgs)].kind # TradingDay
    BY <1>4 DEF QueryBegin, hubVars, cacheVars, sayVars
  <2>2. PICK h : h = Head(msgs)
    OBVIOUS
  <2>3. /\ h \in Queries /\ asked[h] # NotAsked /\ Range(msgs') = Range(msgs) \ {h}
        /\ \A m, n \in 1..Len(msgs') : msgs'[m] = msgs'[n] => m = n
    BY <2>1, <2>2, NextMessage
  <2>4. \A p \in Queries \ {h} : Untouched(p) => Untouched(p)'
    BY <2>1, <2>2 DEF Untouched
  <2>5. MsgsWait'
    BY <2>1, <2>3, <2>4 DEF MsgsWait
  <2>6. asked[h].kind \in Kinds /\ h # NoQuery
    BY <2>1, <2>2, <2>3, CtpQueryAssumption DEF TypeOK, LoopType
  <2>7. HandledAsKind'
    BY <2>1, <2>2, <2>6 DEF HandledAsKind
  <2> QED BY <2>5, <2>7
<1>5. CASE CacheQry
  <2>1. PICK k, q, i : k = asked[cur].kind /\ q = cur /\ i = req_id
    OBVIOUS
  <2>2. /\ UNCHANGED <<asked, msgs, cur, flight, answers, errors>> /\ at = "cache" /\ at' = "load"
        /\ qry' = [qry EXCEPT ![k][i] = q]
    BY <1>5, <2>1 DEF CacheQry, hubVars, sayVars
  <2>3. k \in Kinds /\ qry \in [Kinds -> [Ids -> Queries \cup {NoQuery}]]
    BY <2>1, <2>2, InHand DEF TypeOK, CacheType
  <2>4. \A l \in Kinds : \A j \in Ids : qry'[l][j] = IF l = k /\ j = i THEN q ELSE qry[l][j]
    BY <2>2, <2>3, EntrySet
  <2>5. \A p \in Queries : Untouched(p) => Untouched(p)'
    BY <2>1, <2>2, <2>4 DEF Untouched
  <2> QED BY <2>2, <2>5 DEF MsgsWait, HandledAsKind
<1>6. CASE LoadReqId \/ StoreReqId
  <2>1. UNCHANGED <<asked, msgs, cur, qry, flight, answers, errors>> /\ at # "read" /\ at' # "read"
    BY <1>6 DEF LoadReqId, StoreReqId, hubVars, cacheVars, sayVars
  <2> QED BY <2>1 DEF MsgsWait, Untouched, HandledAsKind
<1>7. CASE ReqQry \/ ReqQryFailed
  <2>1. PICK q, k, i : q = cur /\ k = asked[cur].kind /\ i = req_id - 1
    OBVIOUS
  <2>2. UNCHANGED <<asked, msgs, answers>> /\ at # "read" /\ at' = "read" /\ cur' = NoQuery
    BY <1>7 DEF ReqQry, ReqQryFailed, hubVars, sayVars
  <2>3. /\ q \in Queries /\ asked[q] # NotAsked /\ q \notin Range(msgs)
        /\ asked[q].kind = k /\ k \in Kinds
    BY <2>1, <2>2, InHand
  <2>4. /\ \A p \in Queries \ {q} : errors'[p] = errors[p]
        /\ \A f \in flight' : f \in flight \/ f.query = q
        /\ \A l \in Kinds : \A j \in Ids : qry'[l][j] = qry[l][j] \/ qry'[l][j] = NoQuery
    <3>1. CASE ReqQry
      BY <2>1, <3>1 DEF ReqQry, cacheVars, sayVars
    <3>2. CASE ReqQryFailed
      <4>1. GetAndClear(k, i) /\ flight' = flight /\ errors' = [errors EXCEPT ![q] = @ + 1]
        BY <2>1, <3>2 DEF ReqQryFailed, OnClientMsgError
      <4>2. \A l \in Kinds : \A j \in Ids : qry'[l][j] = qry[l][j] \/ qry'[l][j] = NoQuery
        BY <2>3, <4>1, Cleared DEF TypeOK
      <4> QED BY <2>3, <4>1, <4>2 DEF TypeOK, SayType
    <3> QED BY <1>7, <3>1, <3>2
  <2>5. \A p \in Queries \ {q} : Untouched(p) => Untouched(p)'
    BY <2>2, <2>4, CtpQueryAssumption DEF Untouched
  <2>6. MsgsWait'
    BY <2>2, <2>3, <2>5 DEF MsgsWait
  <2>7. HandledAsKind'
    BY <2>2, <2>3, <2>4 DEF HandledAsKind
  <2> QED BY <2>6, <2>7
<1>8. ASSUME NEW f \in flight, OnRspQry(f) PROVE MsgsWait' /\ HandledAsKind'
  <2>1. /\ UNCHANGED <<asked, msgs, at, cur, qry, answers, errors>>
        /\ flight' = (flight \ {f}) \cup {[f EXCEPT !.rows = @ + 1]}
    BY <1>8, Zenon DEF OnRspQry, hubVars, loopVars, sayVars
  <2>2. [f EXCEPT !.rows = @ + 1].query = f.query
    <3>1. f \in [id : Ids, query : Queries, rows : 0..MaxRows]
      BY WithCTP
    <3> QED BY <3>1
  <2>3. \A g \in flight' : \E h \in flight : h.query = g.query
    BY <2>1, <2>2
  <2>4. \A q \in Queries : Untouched(q) => Untouched(q)'
    BY <2>1, <2>3 DEF Untouched
  <2> QED BY <2>1, <2>3, <2>4, WaitKept
<1>9. ASSUME NEW f \in flight, OnRspQryLast(f) PROVE MsgsWait' /\ HandledAsKind'
  <2>1. PICK k \in Kinds, i \in Ids : k = asked[f.query].kind /\ i = f.id
    BY WithCTP
  <2>2. PICK q : q = qry[k][i]
    OBVIOUS
  <2>3. /\ UNCHANGED <<asked, msgs, at, cur, errors>> /\ flight' = flight \ {f} /\ GetAndClear(k, i)
        /\ answers' = IF q # NoQuery THEN [answers EXCEPT ![q] = @ + 1] ELSE answers
    BY <1>9, <2>1, <2>2, Zenon DEF OnRspQryLast, hubVars, loopVars
  <2>4. \A l \in Kinds : \A j \in Ids : qry'[l][j] = qry[l][j] \/ qry'[l][j] = NoQuery
    BY <2>3, Cleared DEF TypeOK
  <2>5. \A p \in Queries : p # q => answers'[p] = answers[p]
    BY <2>3 DEF TypeOK, SayType
  <2>6. \A p \in Queries : Untouched(p) => Untouched(p)'
    BY <2>2, <2>3, <2>4, <2>5, CtpQueryAssumption DEF Untouched
  <2> QED BY <2>3, <2>6, WaitKept
<1>10. CASE LinkLost
  BY <1>1, <1>10 DEF LinkLost, hubVars, loopVars, cacheVars, sayVars
<1>11. CASE OnFrontDisconnected \/ OnFrontConnected \/ OnRspAuthenticate \/ OnRspUserLogin \/ SpiLoad \/ SpiStore
  BY <1>1, <1>11 DEF OnFrontDisconnected, OnFrontConnected, OnRspAuthenticate, OnRspUserLogin, SpiLoad, SpiStore,
     hubVars, loopVars, cacheVars, sayVars
<1>12. ASSUME NEW c \in Clients, OnConnection(c) \/ OnDisconnection(c) PROVE MsgsWait' /\ HandledAsKind'
  BY <1>1, <1>12 DEF OnConnection, OnDisconnection, loopVars, cacheVars, sayVars
<1>13. CASE UNCHANGED vars
  BY <1>1, <1>13 DEF vars, hubVars, loopVars, cacheVars, sayVars
<1> QED BY <1>2, <1>3, <1>4, <1>5, <1>6, <1>7, <1>8, <1>9, <1>10, <1>11, <1>12, <1>13 DEF Next, Hub, MessageLoop, Callback

-----------------------------------------------------------------------------
(* The caches, without a race.                                              *)

RaceFree == PassedAsRead /\ CachedOnce /\ FlightIsCached /\ CachedIsPending /\ AnsweredOnce

\* What Inv says of an entry.
LEMMA Entry ==
    ASSUME TypeOK, CachedOnce, CachedIsPending, ~raced,
           NEW k \in Kinds, NEW i \in Ids, qry[k][i] # NoQuery
    PROVE  /\ qry[k][i] \in Queries /\ qry_ws[i] \in Clients
           /\ asked[qry[k][i]] = [ws |-> qry_ws[i], kind |-> k] /\ asked[qry[k][i]] # NotAsked
           /\ answers[qry[k][i]] = 0 /\ errors[qry[k][i]] = 0
           /\ i < req_id \/ (i = req_id /\ at \in {"load", "store"})
<1>1. qry[k][i] \in Queries /\ qry_ws[i] # NoWs /\ qry_ws[i] \in Clients
  BY DEF TypeOK, CacheType, CachedIsPending
<1>2. PICK l \in Kinds : qry[l][i] # NoQuery /\ asked[qry[l][i]] = [ws |-> qry_ws[i], kind |-> l]
  BY <1>1 DEF CachedIsPending
<1>3. l = k
  BY <1>2 DEF CachedOnce
<1>4. [ws |-> qry_ws[i], kind |-> k] # NotAsked
  <2>1. [ws |-> qry_ws[i], kind |-> k].ws # NotAsked.ws
    BY <1>1 DEF NotAsked
  <2> QED BY <2>1
<1>5. answers[qry[k][i]] = 0 /\ errors[qry[k][i]] = 0
  <2>1. answers[qry[k][i]] \in Nat /\ errors[qry[k][i]] \in Nat
    BY <1>1 DEF TypeOK, SayType
  <2>2. answers[qry[k][i]] + errors[qry[k][i]] = 0
    BY DEF CachedIsPending
  <2> QED BY <2>1, <2>2
<1>6. i < req_id \/ (i = req_id /\ at \in {"load", "store"})
  <2>1. i \in Nat /\ req_id \in Nat
    BY IdsFacts DEF TypeOK, LoopType
  <2>2. ~(i > req_id \/ (i = req_id /\ at \notin {"load", "store"}))
    BY <1>1 DEF CachedOnce
  <2> QED BY <2>1, <2>2
<1> QED BY <1>1, <1>2, <1>3, <1>4, <1>5, <1>6

\* Two entries of one query, and of one id.
LEMMA EntryAlone ==
    ASSUME CachedOnce, ~raced, NEW k \in Kinds, NEW i \in Ids, qry[k][i] # NoQuery
    PROVE  \A l \in Kinds : \A j \in Ids : ~(l = k /\ j = i) =>
               qry[l][j] # qry[k][i] /\ (j = i => qry[l][j] = NoQuery)
<1> SUFFICES ASSUME NEW l \in Kinds, NEW j \in Ids, ~(l = k /\ j = i)
             PROVE  qry[l][j] # qry[k][i] /\ (j = i => qry[l][j] = NoQuery)
  OBVIOUS
<1>1. (i = j /\ qry[l][j] # NoQuery => k = l) /\ (qry[k][i] = qry[l][j] => i = j)
  BY DEF CachedOnce
<1> QED BY <1>1

\* The entry of the query in hand.
LEMMA InSlotFacts ==
    ASSUME TypeOK, MsgsWait, HandledAsKind, RaceFree, ~raced, InSlot
    PROVE  /\ Slot \in Ids /\ qry[asked[cur].kind][Slot] = cur /\ \A k \in Kinds : rsp[k][Slot] = <<>>
           /\ cur \in Queries /\ asked[cur].kind \in Kinds /\ cur # NoQuery
           /\ \A f \in flight : f.id # Slot
<1>1. Slot \in Ids
  BY DEF Slot, TypeOK, LoopType
<1>2. cur \in Queries /\ asked[cur].kind \in Kinds
  BY InHand DEF InSlot
<1> QED BY <1>1, <1>2, CtpQueryAssumption DEF RaceFree, PassedAsRead, FlightIsCached

\* The entry that CTP answers.
LEMMA FlightEntry ==
    ASSUME TypeOK, MsgsWait, HandledAsKind, RaceFree, ~raced, NEW f \in flight
    PROVE  /\ f \in [id : Ids, query : Queries, rows : 0..MaxRows]
           /\ asked[f.query].kind \in Kinds /\ qry[asked[f.query].kind][f.id] = f.query
           /\ f.query # NoQuery /\ f.id < req_id /\ (InSlot => f.id # Slot)
BY WithCTP, CtpQueryAssumption DEF RaceFree, FlightIsCached

LEMMA RaceFreeInit == ASSUME NEW up, InitWith(up) PROVE RaceFree
<1>1. Len(<<>>) = 0
  OBVIOUS
<1>2. PassedAsRead /\ FlightIsCached /\ CachedIsPending /\ AnsweredOnce
  BY DEF InitWith, PassedAsRead, FlightIsCached, CachedIsPending, AnsweredOnce, InSlot
<1>3. CachedOnce
  BY <1>1 DEF InitWith, CachedOnce
<1> QED BY <1>2, <1>3 DEF RaceFree

\* Steps that leave the caches and the loop alone.
LEMMA FreeKept ==
    ASSUME RaceFree, UNCHANGED <<asked, at, cur, got, req_id, qry_ws, qry, rsp, answers, errors, raced>>,
           flight' \subseteq flight, spi' = "store" => spiGot' = req_id' \/ (spi = "store" /\ spiGot' = spiGot)
    PROVE  RaceFree'
<1> USE DEF RaceFree
<1>1. PassedAsRead' /\ AnsweredOnce'
  BY DEF PassedAsRead, AnsweredOnce, InSlot, Slot
<1>2. CachedOnce' = CachedOnce
  BY DEF CachedOnce
<1>3. CachedIsPending'
  BY DEF CachedIsPending
<1>4. FlightIsCached'
  BY DEF FlightIsCached, InSlot, Slot
<1> QED BY <1>1, <1>2, <1>3, <1>4

\* The callback thread draws an id while the message loop does not.
LEMMA FreeSpiStore ==
    ASSUME TypeOK, RaceFree, ~raced, ~raced', SpiStore PROVE RaceFree'
<1>1. /\ UNCHANGED <<asked, at, cur, qry_ws, qry, rsp, answers, errors, flight>>
      /\ at \notin {"load", "store", "send"} /\ req_id' = spiGot + 1 /\ spi = "store" /\ spi' = "idle"
  BY DEF SpiStore, hubVars, loopVars, cacheVars, sayVars
<1>2. req_id' = req_id + 1 /\ req_id \in Nat
  BY <1>1, IdsFacts DEF RaceFree, PassedAsRead, TypeOK, LoopType
<1> USE DEF RaceFree
<1>3. PassedAsRead' /\ AnsweredOnce' /\ CachedIsPending'
  BY <1>1 DEF PassedAsRead, AnsweredOnce, CachedIsPending, InSlot
<1>4. CachedOnce'
  <2>1. \A i \in Ids : i \in Nat
    BY IdsFacts
  <2>2. \A i \in Ids : i > req_id' \/ i = req_id' => i > req_id
    BY <1>2, <2>1
  <2> QED BY <1>1, <2>2 DEF CachedOnce
<1>5. FlightIsCached'
  <2>1. \A f \in flight : f.id < req_id'
    <3>1. \A f \in flight : f.id \in Nat
      BY IdsFacts DEF TypeOK, CacheType
    <3> QED BY <1>2, <3>1 DEF FlightIsCached
  <2> QED BY <1>1, <2>1 DEF FlightIsCached, InSlot
<1> QED BY <1>3, <1>4, <1>5

\* A message comes.
LEMMA FreeMessage ==
    ASSUME TypeOK, MsgsWait, HandledAsKind, RaceFree, ~raced,
           NEW c \in Clients, NEW q \in Queries, NEW k \in Kinds \cup {TradingDay}, OnMessage(c, q, k)
    PROVE  RaceFree'
<1>1. /\ UNCHANGED <<at, cur, got, req_id, qry_ws, qry, rsp, answers, errors, flight, spi, spiGot, raced>>
      /\ asked[q] = NotAsked /\ asked' = [asked EXCEPT ![q] = [ws |-> c, kind |-> k]]
  BY DEF OnMessage, loopVars, cacheVars, sayVars, spiVars
<1>2. \A p \in Queries \ {q} : asked'[p] = asked[p]
  BY <1>1 DEF TypeOK, LoopType
<1>3. Untouched(q)
  BY <1>1 DEF MsgsWait
<1> USE DEF RaceFree
<1>4. PassedAsRead'
  <2>1. InSlot => asked'[cur] = asked[cur]
    BY <1>2, <1>3, InHand DEF InSlot, Untouched
  <2> QED BY <1>1, <2>1 DEF PassedAsRead, InSlot, Slot
<1>5. CachedOnce' /\ AnsweredOnce'
  BY <1>1 DEF CachedOnce, AnsweredOnce
<1>6. FlightIsCached'
  <2>1. \A f \in flight : asked'[f.query] = asked[f.query]
    BY <1>2, <1>3 DEF Untouched, TypeOK, CacheType
  <2> QED BY <1>1, <2>1 DEF FlightIsCached, InSlot, Slot
<1>7. CachedIsPending'
  <2>1. \A l \in Kinds : \A i \in Ids : qry[l][i] # NoQuery => asked'[qry[l][i]] = asked[qry[l][i]]
    BY <1>2, <1>3 DEF Untouched, TypeOK, CacheType
  <2> QED BY <1>1, <2>1 DEF CachedIsPending
<1> QED BY <1>4, <1>5, <1>6, <1>7

\* A message is read, and answered or refused at once.
LEMMA FreeAtOnce ==
    ASSUME TypeOK, MsgsWait, RaceFree, ~raced, QueryTradingDay \/ QueryRefused PROVE RaceFree'
<1>1. PICK h : h = Head(msgs)
  OBVIOUS
<1>2. /\ UNCHANGED <<asked, at, cur, got, req_id, qry_ws, qry, rsp, flight, spi, spiGot, raced>>
      /\ msgs # <<>> /\ at = "read"
      /\ \/ errors' = errors /\ answers' = [answers EXCEPT ![h] = @ + 1]
         \/ answers' = answers /\ errors' = [errors EXCEPT ![h] = @ + 1]
  BY <1>1 DEF QueryTradingDay, QueryRefused, OnClientMsgError, hubVars, loopVars, cacheVars, spiVars
<1>3. h \in Queries /\ Untouched(h)
  BY <1>1, <1>2, NextMessage
<1>4. /\ \A p \in Queries \ {h} : answers'[p] = answers[p] /\ errors'[p] = errors[p]
      /\ answers'[h] + errors'[h] = 1
  <2>1. answers \in [Queries -> Nat] /\ errors \in [Queries -> Nat] /\ answers[h] = 0 /\ errors[h] = 0
    BY <1>3 DEF TypeOK, SayType, Untouched
  <2> QED BY <1>2, <1>3, <2>1
<1> USE DEF RaceFree
<1>5. PassedAsRead' /\ CachedOnce' /\ FlightIsCached'
  BY <1>2 DEF PassedAsRead, CachedOnce, FlightIsCached, InSlot
<1>6. AnsweredOnce'
  BY <1>2, <1>4 DEF AnsweredOnce
<1>7. CachedIsPending'
  <2>1. \A l \in Kinds : \A i \in Ids : qry[l][i] # NoQuery => qry[l][i] \in Queries \ {h}
    BY <1>3 DEF Untouched, TypeOK, CacheType
  <2> QED BY <1>2, <1>4, <2>1 DEF CachedIsPending
<1> QED BY <1>5, <1>6, <1>7

\* A message is read, and its handler runs.
LEMMA FreeBegin ==
    ASSUME TypeOK, MsgsWait, RaceFree, ~raced, QueryBegin PROVE RaceFree'
<1>1. /\ UNCHANGED <<asked, req_id, qry_ws, qry, rsp, flight, spi, spiGot, answers, errors, raced>>
      /\ msgs # <<>> /\ at = "read" /\ at' = "cache" /\ cur' = Head(msgs)
  BY DEF QueryBegin, hubVars, cacheVars, spiVars, sayVars
<1>2. cur' \in Queries /\ Untouched(Head(msgs))
  BY <1>1, NextMessage
<1> USE DEF RaceFree
<1>3. PassedAsRead'
  BY <1>1, <1>2 DEF PassedAsRead, InSlot, Untouched
<1>4. CachedOnce' /\ FlightIsCached' /\ CachedIsPending' /\ AnsweredOnce'
  BY <1>1 DEF CachedOnce, FlightIsCached, CachedIsPending, AnsweredOnce, InSlot
<1> QED BY <1>3, <1>4

\* The query in hand is cached under the id that is next.
LEMMA FreeCacheQry ==
    ASSUME TypeOK, MsgsWait, HandledAsKind, RaceFree, ~raced, CacheQry PROVE RaceFree'
<1>1. PICK k, q, i : k = asked[cur].kind /\ q = cur /\ i = req_id
  OBVIOUS
<1>2. /\ UNCHANGED <<asked, cur, got, req_id, rsp, answers, errors, flight, spi, spiGot, raced>>
      /\ at = "cache" /\ at' = "load"
      /\ qry_ws' = [qry_ws EXCEPT ![i] = asked[q].ws] /\ qry' = [qry EXCEPT ![k][i] = q]
  BY <1>1 DEF CacheQry, hubVars, sayVars, spiVars
<1>3. /\ k \in Kinds /\ q \in Queries /\ q # NoQuery /\ i \in Ids /\ asked[q].ws \in Clients
      /\ asked[q] = [ws |-> asked[q].ws, kind |-> k]
  <2>1. k \in Kinds /\ q \in Queries /\ i \in Ids /\ asked[q].ws \in Clients /\ asked[q] # NotAsked /\ asked[q].kind = k
    BY <1>1, <1>2, InHand DEF TypeOK, LoopType
  <2>2. asked[q] \in [ws : Clients, kind : Kinds \cup {TradingDay}]
    BY <2>1 DEF TypeOK, LoopType
  <2> QED BY <2>1, <2>2, CtpQueryAssumption
<1>4. /\ \A j \in Ids : qry_ws'[j] = IF j = i THEN asked[q].ws ELSE qry_ws[j]
      /\ \A l \in Kinds : \A j \in Ids : qry'[l][j] = IF l = k /\ j = i THEN q ELSE qry[l][j]
  <2>1. \A j \in Ids : qry_ws'[j] = IF j = i THEN asked[q].ws ELSE qry_ws[j]
    BY <1>2 DEF TypeOK, CacheType
  <2>2. PICK m, n : m = qry /\ n = qry' /\ n = [m EXCEPT ![k][i] = q]
    BY <1>2
  <2>3. m \in [Kinds -> [Ids -> Queries \cup {NoQuery}]]
    BY <2>2 DEF TypeOK, CacheType
  <2> QED BY <1>3, <2>1, <2>2, <2>3, EntrySet
<1>5. /\ answers[q] = 0 /\ errors[q] = 0
      /\ \A l \in Kinds : \A j \in Ids : qry[l][j] # q
      /\ \A l \in Kinds : qry[l][i] = NoQuery /\ rsp[l][i] = <<>>
      /\ \A f \in flight : f.id \in Ids /\ f.id < i /\ f.query \in Queries
  <2>1. ~(at \in {"load", "store"})
    BY <1>2
  <2>2. \A f \in flight : f.id \in Ids /\ f.query \in Queries
    BY DEF TypeOK, CacheType
  <2> QED BY <1>1, <1>2, <1>3, <2>1, <2>2 DEF RaceFree, PassedAsRead, CachedOnce, FlightIsCached
<1> USE DEF RaceFree
<1>6. PassedAsRead'
  <2>1. Slot' = i /\ asked'[cur'].kind = k /\ qry'[k][i] = q
    BY <1>1, <1>2, <1>3, <1>4 DEF Slot
  <2>2. (at' = "cache" => FALSE) /\ (at' = "store" => FALSE) /\ (at' = "send" => FALSE)
    BY <1>2
  <2>3. spi' = "store" => spiGot' = req_id'
    BY <1>2 DEF PassedAsRead
  <2> QED BY <1>1, <1>2, <1>5, <2>1, <2>2, <2>3 DEF PassedAsRead
<1>7. FlightIsCached'
  <2>1. Slot' = i /\ \A f \in flight : f.id # i
    <3>1. i \in Nat /\ \A f \in flight : f.id \in Nat
      BY <1>3, <1>5, IdsFacts
    <3> QED BY <1>1, <1>2, <1>5, <3>1 DEF Slot
  <2>2. \A f \in flight : qry'[asked[f.query].kind][f.id] = f.query
    BY <1>4, <1>5, <2>1, WithCTP DEF FlightIsCached
  <2> QED BY <1>2, <2>1, <2>2 DEF FlightIsCached
<1>8. CachedIsPending'
  <2> SUFFICES ASSUME NEW j \in Ids
               PROVE  /\ qry_ws'[j] # NoWs => \E l \in Kinds : qry'[l][j] # NoQuery /\ asked[qry'[l][j]] = [ws |-> qry_ws'[j], kind |-> l]
                      /\ \A l \in Kinds : qry'[l][j] # NoQuery => qry_ws'[j] # NoWs /\ answers[qry'[l][j]] + errors[qry'[l][j]] = 0
    BY <1>2 DEF CachedIsPending
  <2>1. CASE j = i
    <3>1. qry_ws'[j] = asked[q].ws /\ asked[q].ws # NoWs /\ answers[q] + errors[q] = 0
      BY <1>3, <1>4, <1>5, <2>1, CtpQueryAssumption
    <3>2. \A l \in Kinds : qry'[l][j] = IF l = k THEN q ELSE NoQuery
      BY <1>4, <1>5, <2>1
    <3> QED BY <1>3, <3>1, <3>2
  <2>2. CASE j # i
    <3>1. qry_ws'[j] = qry_ws[j] /\ \A l \in Kinds : qry'[l][j] = qry[l][j]
      BY <1>4, <2>2
    <3> QED BY <3>1 DEF CachedIsPending
  <2> QED BY <2>1, <2>2
<1>9. CachedOnce'
  <2>1. \A j \in Ids : j > i \/ (j = i /\ at' \notin {"load", "store"}) =>
           qry_ws'[j] = NoWs /\ \A l \in Kinds : qry'[l][j] = NoQuery /\ rsp[l][j] = <<>>
    <3>1. i \in Nat /\ \A j \in Ids : j \in Nat
      BY <1>3, IdsFacts
    <3>2. \A j \in Ids : j > i => j # i
      BY <3>1
    <3> QED BY <1>1, <1>2, <1>4, <3>2 DEF CachedOnce
  <2>2. \A l, m \in Kinds : \A j, n \in Ids : qry'[l][j] # NoQuery =>
           (j = n /\ qry'[m][n] # NoQuery => l = m) /\ (qry'[l][j] = qry'[m][n] => j = n)
    <3>1. \A l, m \in Kinds : \A j, n \in Ids : qry[l][j] # NoQuery =>
             (j = n /\ qry[m][n] # NoQuery => l = m) /\ (qry[l][j] = qry[m][n] => j = n)
      BY DEF CachedOnce
    <3> QED BY <1>3, <1>4, <1>5, <3>1
  <2>3. \A l \in Kinds : \A j \in Ids : \A n \in 1..Len(rsp[l][j]) : rsp[l][j][n] = qry'[l][j]
    <3> SUFFICES ASSUME NEW l \in Kinds, NEW j \in Ids
                 PROVE  \A n \in 1..Len(rsp[l][j]) : rsp[l][j][n] = qry'[l][j]
      OBVIOUS
    <3>1. CASE j = i
      <4>1. rsp[l][j] = <<>> /\ Len(<<>>) = 0
        BY <1>5, <3>1
      <4>2. 1..Len(rsp[l][j]) = {}
        BY <4>1
      <4> QED BY <4>2
    <3>2. CASE j # i
      <4>1. qry'[l][j] = qry[l][j]
        BY <1>4, <3>2
      <4> QED BY <4>1 DEF CachedOnce
    <3> QED BY <3>1, <3>2
  <2> QED BY <1>1, <1>2, <2>1, <2>2, <2>3 DEF CachedOnce
<1>10. AnsweredOnce'
  BY <1>2 DEF AnsweredOnce
<1> QED BY <1>6, <1>7, <1>8, <1>9, <1>10

\* The id is read, and incremented.
LEMMA FreeLoad ==
    ASSUME TypeOK, RaceFree, ~raced, LoadReqId PROVE RaceFree'
<1>1. /\ UNCHANGED <<asked, cur, req_id, qry_ws, qry, rsp, answers, errors, flight, spi, spiGot, raced>>
      /\ at = "load" /\ at' = "store" /\ got' = req_id
  BY DEF LoadReqId, hubVars, cacheVars, sayVars, spiVars
<1> USE DEF RaceFree
<1>2. PassedAsRead'
  BY <1>1 DEF PassedAsRead, InSlot, Slot
<1>3. CachedOnce'
  BY <1>1 DEF CachedOnce
<1>4. FlightIsCached'
  BY <1>1 DEF FlightIsCached, InSlot, Slot
<1>5. CachedIsPending' /\ AnsweredOnce'
  BY <1>1 DEF CachedIsPending, AnsweredOnce
<1> QED BY <1>2, <1>3, <1>4, <1>5

LEMMA FreeStore ==
    ASSUME TypeOK, RaceFree, ~raced, ~raced', StoreReqId PROVE RaceFree'
<1>1. /\ UNCHANGED <<asked, cur, got, qry_ws, qry, rsp, answers, errors, flight, spi, spiGot>>
      /\ at = "store" /\ at' = "send" /\ req_id' = got + 1 /\ spi # "store"
  BY DEF StoreReqId, hubVars, cacheVars, sayVars, spiVars
<1>2. got = req_id /\ req_id' = req_id + 1 /\ req_id \in Nat
  BY <1>1, IdsFacts DEF RaceFree, PassedAsRead, TypeOK, LoopType
<1> USE DEF RaceFree
<1>3. PassedAsRead'
  BY <1>1, <1>2 DEF PassedAsRead, InSlot, Slot
<1>4. CachedOnce'
  <2>1. \A i \in Ids : i \in Nat
    BY IdsFacts
  <2>2. \A i \in Ids : i > req_id' \/ i = req_id' => i > req_id
    BY <1>2, <2>1
  <2> QED BY <1>1, <2>2 DEF CachedOnce
<1>5. FlightIsCached'
  <2>1. \A f \in flight : f.id < req_id'
    <3>1. \A f \in flight : f.id \in Nat
      BY IdsFacts DEF TypeOK, CacheType
    <3> QED BY <1>2, <3>1 DEF FlightIsCached
  <2> QED BY <1>1, <1>2, <2>1 DEF FlightIsCached, InSlot, Slot
<1>6. CachedIsPending' /\ AnsweredOnce'
  BY <1>1 DEF CachedIsPending, AnsweredOnce
<1> QED BY <1>3, <1>4, <1>5, <1>6

\* The request is made under the id of the query in hand.
LEMMA FreeReqQry ==
    ASSUME TypeOK, MsgsWait, HandledAsKind, RaceFree, ~raced, ReqQry PROVE RaceFree'
<1>1. /\ UNCHANGED <<asked, got, req_id, qry_ws, qry, rsp, answers, errors, spi, spiGot, raced>>
      /\ at = "send" /\ at' = "read"
      /\ flight' = flight \cup {[id |-> got, query |-> cur, rows |-> 0]}
  BY DEF ReqQry, hubVars, cacheVars, sayVars, spiVars
<1>2. PICK g : g = [id |-> got, query |-> cur, rows |-> 0]
  OBVIOUS
<1>3. g.id = got /\ g.query = cur /\ flight' = flight \cup {g}
  BY <1>1, <1>2
<1>4. InSlot /\ Slot = got
  BY <1>1 DEF InSlot, Slot
<1>5. qry[asked[g.query].kind][g.id] = g.query /\ g.id < req_id /\ \A f \in flight : f.id # g.id
  <2>1. got + 1 = req_id /\ got \in Nat
    BY <1>1, IdsFacts DEF RaceFree, PassedAsRead, TypeOK, LoopType
  <2> QED BY <1>3, <1>4, <2>1, InSlotFacts
<1> USE DEF RaceFree
<1>6. PassedAsRead'
  BY <1>1 DEF PassedAsRead, InSlot
<1>7. FlightIsCached'
  BY <1>1, <1>3, <1>5 DEF FlightIsCached, InSlot
<1>8. CachedOnce'
  BY <1>1 DEF CachedOnce
<1>9. CachedIsPending' /\ AnsweredOnce'
  BY <1>1 DEF CachedIsPending, AnsweredOnce
<1> QED BY <1>6, <1>7, <1>8, <1>9

\* Steps that clear an entry, and say one thing more about its query: the rest of the
\* caches stays as good as it was.
LEMMA FreeCleared ==
    ASSUME TypeOK, RaceFree, ~raced, NEW k \in Kinds, NEW i \in Ids, GetAndClear(k, i), qry[k][i] # NoQuery,
           UNCHANGED <<asked, req_id>>,
           at' = at \/ (at = "send" /\ at' = "read"),
           \A p \in Queries \ {qry[k][i]} : answers'[p] = answers[p] /\ errors'[p] = errors[p],
           answers'[qry[k][i]] + errors'[qry[k][i]] = 1,
           \A l \in Kinds : \A j \in Ids : ~(l = k /\ j = i) => rsp'[l][j] = rsp[l][j],
           rsp'[k][i] = <<>>
    PROVE  CachedOnce' /\ CachedIsPending' /\ AnsweredOnce'
<1>1. PICK q : q = qry[k][i]
  OBVIOUS
<1>2. /\ \A j \in Ids : qry_ws'[j] = IF j = i THEN NoWs ELSE qry_ws[j]
      /\ \A l \in Kinds : \A j \in Ids : qry'[l][j] = IF l = k /\ j = i THEN NoQuery ELSE qry[l][j]
  BY Cleared DEF TypeOK
<1>3. \A l \in Kinds : \A j \in Ids : ~(l = k /\ j = i) => qry[l][j] # q /\ (j = i => qry[l][j] = NoQuery)
  BY <1>1, EntryAlone DEF RaceFree
<1> USE DEF RaceFree
<1>4. CachedOnce'
  <2>1. \A j \in Ids : j > req_id \/ (j = req_id /\ at' \notin {"load", "store"}) =>
           qry_ws'[j] = NoWs /\ \A l \in Kinds : qry'[l][j] = NoQuery /\ rsp'[l][j] = <<>>
    BY <1>2 DEF CachedOnce
  <2>2. \A l, m \in Kinds : \A j, n \in Ids : qry'[l][j] # NoQuery =>
           (j = n /\ qry'[m][n] # NoQuery => l = m) /\ (qry'[l][j] = qry'[m][n] => j = n)
    <3>1. \A l, m \in Kinds : \A j, n \in Ids : qry[l][j] # NoQuery =>
             (j = n /\ qry[m][n] # NoQuery => l = m) /\ (qry[l][j] = qry[m][n] => j = n)
      BY DEF CachedOnce
    <3> QED BY <1>2, <3>1
  <2>3. \A l \in Kinds : \A j \in Ids : \A n \in 1..Len(rsp'[l][j]) : rsp'[l][j][n] = qry'[l][j]
    <3> SUFFICES ASSUME NEW l \in Kinds, NEW j \in Ids
                 PROVE  \A n \in 1..Len(rsp'[l][j]) : rsp'[l][j][n] = qry'[l][j]
      OBVIOUS
    <3>1. CASE l = k /\ j = i
      <4>1. rsp'[l][j] = <<>> /\ Len(<<>>) = 0
        BY <3>1
      <4>2. 1..Len(rsp'[l][j]) = {}
        BY <4>1
      <4> QED BY <4>2
    <3>2. CASE ~(l = k /\ j = i)
      <4>1. qry'[l][j] = qry[l][j] /\ rsp'[l][j] = rsp[l][j]
        BY <1>2, <3>2
      <4> QED BY <4>1 DEF CachedOnce
    <3> QED BY <3>1, <3>2
  <2> QED BY <2>1, <2>2, <2>3 DEF CachedOnce
<1>5. CachedIsPending'
  <2> SUFFICES ASSUME NEW j \in Ids
               PROVE  /\ qry_ws'[j] # NoWs => \E l \in Kinds : qry'[l][j] # NoQuery /\ asked[qry'[l][j]] = [ws |-> qry_ws'[j], kind |-> l]
                      /\ \A l \in Kinds : qry'[l][j] # NoQuery => qry_ws'[j] # NoWs /\ answers'[qry'[l][j]] + errors'[qry'[l][j]] = 0
    BY DEF CachedIsPending
  <2>1. CASE j = i
    BY <1>2, <1>3, <2>1
  <2>2. CASE j # i
    <3>1. qry_ws'[j] = qry_ws[j] /\ \A l \in Kinds : qry'[l][j] = qry[l][j] /\ qry[l][j] # q
      BY <1>2, <1>3, <2>2
    <3>2. \A l \in Kinds : qry[l][j] # NoQuery => qry[l][j] \in Queries \ {q}
      BY <3>1 DEF TypeOK, CacheType
    <3>3. \A l \in Kinds : qry[l][j] # NoQuery =>
             answers'[qry[l][j]] = answers[qry[l][j]] /\ errors'[qry[l][j]] = errors[qry[l][j]]
      BY <1>1, <3>2
    <3> QED BY <3>1, <3>3 DEF CachedIsPending
  <2> QED BY <2>1, <2>2
<1>6. AnsweredOnce'
  <2>1. q \in Queries
    BY <1>1 DEF TypeOK, CacheType
  <2>2. \A p \in Queries \ {q} : answers'[p] + errors'[p] <= 1
    BY <1>1 DEF AnsweredOnce
  <2> QED BY <1>1, <2>1, <2>2 DEF AnsweredOnce
<1> QED BY <1>4, <1>5, <1>6

\* The request fails: the entry under req_id_ - 1 is the one of the query in hand.
LEMMA FreeReqQryFailed ==
    ASSUME TypeOK, MsgsWait, HandledAsKind, RaceFree, ~raced, ReqQryFailed PROVE RaceFree'
<1>1. PICK k, q, i : k = asked[cur].kind /\ q = cur /\ i = req_id - 1
  OBVIOUS
<1>2. /\ UNCHANGED <<asked, got, req_id, rsp, answers, flight, spi, spiGot, raced>>
      /\ at = "send" /\ at' = "read" /\ GetAndClear(k, i) /\ errors' = [errors EXCEPT ![q] = @ + 1]
  BY <1>1 DEF ReqQryFailed, OnClientMsgError, hubVars, spiVars
<1>3. i = got /\ InSlot /\ Slot = got
  <2>1. got + 1 = req_id /\ got \in Nat
    BY <1>2, IdsFacts DEF RaceFree, PassedAsRead, TypeOK, LoopType
  <2> QED BY <1>1, <1>2, <2>1 DEF InSlot, Slot
<1>4. /\ k \in Kinds /\ i \in Ids /\ q \in Queries /\ qry[k][i] = q /\ q # NoQuery
      /\ rsp[k][i] = <<>> /\ \A f \in flight : f.id # i
  BY <1>1, <1>3, InSlotFacts
<1>5. answers[q] = 0 /\ errors[q] = 0
  BY <1>4, Entry DEF RaceFree
<1>6. \A p \in Queries \ {q} : errors'[p] = errors[p]
  BY <1>2 DEF TypeOK, SayType
<1>7. answers'[q] + errors'[q] = 1
  <2>1. errors'[q] = 1
    BY <1>2, <1>4, <1>5 DEF TypeOK, SayType
  <2> QED BY <1>2, <1>5, <2>1
<1>8. CachedOnce' /\ CachedIsPending' /\ AnsweredOnce'
  BY <1>2, <1>4, <1>6, <1>7, FreeCleared
<1> USE DEF RaceFree
<1>9. PassedAsRead'
  BY <1>2 DEF PassedAsRead, InSlot
<1>10. FlightIsCached'
  <2>1. \A l \in Kinds : \A j \in Ids : j # i => qry'[l][j] = qry[l][j]
    BY <1>2, <1>4, Cleared DEF TypeOK
  <2>2. \A f \in flight : qry'[asked[f.query].kind][f.id] = f.query
    BY <1>4, <2>1, FlightEntry
  <2> QED BY <1>2, <2>2 DEF FlightIsCached, InSlot
<1> QED BY <1>8, <1>9, <1>10

\* A row comes: it is put with the rows of the query that is cached.
LEMMA FreeRow ==
    ASSUME TypeOK, MsgsWait, HandledAsKind, RaceFree, ~raced, NEW f \in flight, OnRspQry(f) PROVE RaceFree'
<1>1. PICK k, q, i, g : k = asked[f.query].kind /\ q = f.query /\ i = f.id /\ g = [f EXCEPT !.rows = @ + 1]
  OBVIOUS
<1>2. /\ UNCHANGED <<asked, at, cur, got, req_id, qry_ws, qry, answers, errors, spi, spiGot, raced>>
      /\ flight' = (flight \ {f}) \cup {g} /\ rsp' = [rsp EXCEPT ![k][i] = Append(rsp[k][i], q)]
  <2>1. /\ UNCHANGED <<asked, at, cur, got, req_id, qry_ws, qry, answers, errors, spi, spiGot, raced>>
        /\ flight' = (flight \ {f}) \cup {g}
    BY <1>1, Zenon DEF OnRspQry, hubVars, loopVars, sayVars, spiVars
  <2>2. k \in Kinds /\ i \in Ids
    BY <1>1, WithCTP
  <2>3. rsp' = [rsp EXCEPT ![k][i] = Append(@, q)]
    BY <1>1, Zenon DEF OnRspQry
  <2> QED BY <2>1, <2>2, <2>3 DEF TypeOK, CacheType
<1>3. /\ f \in [id : Ids, query : Queries, rows : 0..MaxRows]
      /\ k \in Kinds /\ i \in Ids /\ q \in Queries /\ qry[k][i] = q /\ q # NoQuery
      /\ i < req_id /\ (InSlot => i # Slot)
  BY <1>1, FlightEntry
<1>4. g.id = i /\ g.query = q
  BY <1>1, <1>3
<1>5. PICK r : r = Append(rsp[k][i], q)
  OBVIOUS
<1>6. \A n \in 1..Len(r) : r[n] = q
  <2>1. rsp[k][i] \in Seq(Queries) /\ \A n \in 1..Len(rsp[k][i]) : rsp[k][i][n] = q
    BY <1>3 DEF RaceFree, CachedOnce, TypeOK, CacheType, Row
  <2>2. PICK s : s = rsp[k][i]
    OBVIOUS
  <2>3. s \in Seq(Queries) /\ r = Append(s, q) /\ \A n \in 1..Len(s) : s[n] = q
    BY <1>5, <2>1, <2>2
  <2> QED BY <1>3, <2>3
<1>7. \A l \in Kinds : \A j \in Ids : rsp'[l][j] = IF l = k /\ j = i THEN r ELSE rsp[l][j]
  <2>1. PICK m, n, V : m = rsp /\ n = rsp' /\ V = Seq(Row) /\ n = [m EXCEPT ![k][i] = r]
    BY <1>2, <1>5
  <2>2. m \in [Kinds -> [Ids -> V]]
    BY <2>1 DEF TypeOK, CacheType
  <2>3. \A l \in Kinds : \A j \in Ids : n[l][j] = IF l = k /\ j = i THEN r ELSE m[l][j]
    BY <1>3, <2>1, <2>2, EntrySet
  <2> QED BY <2>1, <2>3
<1> USE DEF RaceFree
<1>8. PassedAsRead'
  <2>1. InSlot => Slot \in Ids
    BY DEF Slot, TypeOK, LoopType
  <2>2. InSlot => \A l \in Kinds : rsp'[l][Slot] = rsp[l][Slot]
    BY <1>3, <1>7, <2>1
  <2> QED BY <1>2, <2>2 DEF PassedAsRead, InSlot, Slot
<1>9. FlightIsCached'
  <2>1. \A h \in flight : h = f \/ h.id # i
    BY <1>1 DEF FlightIsCached
  <2>2. \A h \in flight' : h = g \/ (h \in flight /\ h # f)
    BY <1>2
  <2>3. \A h, e \in flight' : h.id = e.id => h = e
    BY <1>4, <2>1, <2>2 DEF FlightIsCached
  <2>4. \A h \in flight' : /\ h.id < req_id /\ qry[asked[h.query].kind][h.id] = h.query
                           /\ InSlot => h.id # Slot
    BY <1>1, <1>3, <1>4, <2>2 DEF FlightIsCached
  <2> QED BY <1>2, <2>3, <2>4 DEF FlightIsCached, InSlot, Slot
<1>10. CachedOnce'
  <2>1. \A j \in Ids : j > req_id \/ (j = req_id /\ at \notin {"load", "store"}) =>
           qry_ws[j] = NoWs /\ \A l \in Kinds : qry[l][j] = NoQuery /\ rsp'[l][j] = <<>>
    <3>1. \A j \in Ids : j > req_id \/ j = req_id => j # i
      <4>1. i \in Nat /\ req_id \in Nat /\ \A j \in Ids : j \in Nat
        BY <1>3, IdsFacts DEF TypeOK, LoopType
      <4> QED BY <1>3, <4>1
    <3> QED BY <1>7, <3>1 DEF CachedOnce
  <2>2. \A l, m \in Kinds : \A j, n \in Ids : qry[l][j] # NoQuery =>
           (j = n /\ qry[m][n] # NoQuery => l = m) /\ (qry[l][j] = qry[m][n] => j = n)
    BY DEF CachedOnce
  <2>3. \A l \in Kinds : \A j \in Ids : \A n \in 1..Len(rsp'[l][j]) : rsp'[l][j][n] = qry[l][j]
    <3> SUFFICES ASSUME NEW l \in Kinds, NEW j \in Ids
                 PROVE  \A n \in 1..Len(rsp'[l][j]) : rsp'[l][j][n] = qry[l][j]
      OBVIOUS
    <3>1. CASE l = k /\ j = i
      <4>1. rsp'[l][j] = r /\ qry[l][j] = q
        BY <1>3, <1>7, <3>1
      <4> QED BY <1>6, <4>1
    <3>2. CASE ~(l = k /\ j = i)
      <4>1. rsp'[l][j] = rsp[l][j]
        BY <1>7, <3>2
      <4> QED BY <4>1 DEF CachedOnce
    <3> QED BY <3>1, <3>2
  <2> QED BY <1>2, <2>1, <2>2, <2>3 DEF CachedOnce
<1>11. CachedIsPending' /\ AnsweredOnce'
  BY <1>2 DEF CachedIsPending, AnsweredOnce
<1> QED BY <1>8, <1>9, <1>10, <1>11

\* The last row comes: the query it names is the one that CTP answered.
LEMMA FreeLast ==
    ASSUME TypeOK, MsgsWait, HandledAsKind, RaceFree, ~raced, NEW f \in flight, OnRspQryLast(f) PROVE RaceFree'
<1>1. PICK k, q, i : k = asked[f.query].kind /\ q = f.query /\ i = f.id
  OBVIOUS
<1>2. /\ f \in [id : Ids, query : Queries, rows : 0..MaxRows]
      /\ k \in Kinds /\ i \in Ids /\ q \in Queries /\ qry[k][i] = q /\ q # NoQuery
      /\ i < req_id /\ (InSlot => i # Slot)
  BY <1>1, FlightEntry
<1>3. /\ UNCHANGED <<asked, at, cur, got, req_id, errors, spi, spiGot, raced>>
      /\ flight' = flight \ {f} /\ GetAndClear(k, i) /\ rsp' = [rsp EXCEPT ![k][i] = <<>>]
      /\ answers' = [answers EXCEPT ![q] = @ + 1]
  <2>1. /\ UNCHANGED <<asked, at, cur, got, req_id, errors, spi, spiGot, raced>>
        /\ flight' = flight \ {f} /\ GetAndClear(k, i) /\ rsp' = [rsp EXCEPT ![k][i] = <<>>]
        /\ answers' = IF qry[k][i] # NoQuery THEN [answers EXCEPT ![qry[k][i]] = @ + 1] ELSE answers
    BY <1>1, Zenon DEF OnRspQryLast, hubVars, loopVars, spiVars
  <2> QED BY <1>2, <2>1
<1>4. answers[q] = 0 /\ errors[q] = 0
  BY <1>2, Entry DEF RaceFree
<1>5. /\ \A p \in Queries \ {q} : answers'[p] = answers[p]
      /\ answers'[q] + errors'[q] = 1
  <2>1. \A p \in Queries \ {q} : answers'[p] = answers[p]
    BY <1>3 DEF TypeOK, SayType
  <2>2. answers'[q] = 1
    BY <1>2, <1>3, <1>4 DEF TypeOK, SayType
  <2> QED BY <1>3, <1>4, <2>1, <2>2
<1>6. \A l \in Kinds : \A j \in Ids : rsp'[l][j] = IF l = k /\ j = i THEN <<>> ELSE rsp[l][j]
  <2>1. PICK m, n, V, e : m = rsp /\ n = rsp' /\ V = Seq(Row) /\ e = <<>> /\ n = [m EXCEPT ![k][i] = e]
    BY <1>3
  <2>2. m \in [Kinds -> [Ids -> V]]
    BY <2>1 DEF TypeOK, CacheType
  <2>3. \A l \in Kinds : \A j \in Ids : n[l][j] = IF l = k /\ j = i THEN e ELSE m[l][j]
    BY <1>2, <2>1, <2>2, EntrySet
  <2> QED BY <2>1, <2>3
<1>7. CachedOnce' /\ CachedIsPending' /\ AnsweredOnce'
  BY <1>2, <1>3, <1>5, <1>6, FreeCleared
<1>8. \A l \in Kinds : \A j \in Ids : qry'[l][j] = IF l = k /\ j = i THEN NoQuery ELSE qry[l][j]
  BY <1>2, <1>3, Cleared DEF TypeOK
<1> USE DEF RaceFree
<1>9. PassedAsRead'
  <2>1. InSlot => Slot \in Ids /\ asked[cur].kind \in Kinds
    BY InSlotFacts
  <2>2. InSlot => \A l \in Kinds : rsp'[l][Slot] = rsp[l][Slot] /\ qry'[l][Slot] = qry[l][Slot]
    BY <1>2, <1>6, <1>8, <2>1
  <2>3. InSlot => qry'[asked[cur].kind][Slot] = cur /\ \A l \in Kinds : rsp'[l][Slot] = <<>>
    BY <2>1, <2>2, InSlotFacts
  <2>4. at = "cache" => /\ answers'[cur] = 0 /\ errors[cur] = 0
                        /\ \A l \in Kinds : \A j \in Ids : qry'[l][j] # cur
    <3>1. at = "cache" => cur \in Queries /\ cur # NoQuery /\ cur # q
      BY <1>2, InHand, CtpQueryAssumption DEF PassedAsRead
    <3> QED BY <1>5, <1>8, <3>1 DEF PassedAsRead
  <2> QED BY <1>3, <2>3, <2>4 DEF PassedAsRead, InSlot, Slot
<1>10. FlightIsCached'
  <2>1. \A h \in flight \ {f} : h.id # i
    BY <1>1 DEF FlightIsCached
  <2>2. \A h \in flight \ {f} : qry'[asked[h.query].kind][h.id] = h.query
    BY <1>8, <2>1, FlightEntry
  <2> QED BY <1>3, <2>2 DEF FlightIsCached, InSlot, Slot
<1> QED BY <1>7, <1>9, <1>10

LEMMA RaceFreeStep ==
    ASSUME TypeOK, MsgsWait, HandledAsKind, RaceFree, [Next]_vars PROVE RaceFree'
<1>1. CASE raced'
  BY <1>1 DEF RaceFree, PassedAsRead, CachedOnce, FlightIsCached, CachedIsPending, AnsweredOnce
<1>2. CASE ~raced'
  <2>1. ~raced
    <3>1. CASE StoreReqId \/ SpiStore
      BY <1>2, <3>1 DEF StoreReqId, SpiStore
    <3>2. CASE ~StoreReqId /\ ~SpiStore
      <4>1. CASE Hub \/ MessageLoop
        BY <1>2, <3>2, <4>1, Zenon DEF Hub, OnConnection, OnDisconnection, OnMessage, MessageLoop, QueryTradingDay,
           QueryRefused, QueryBegin, CacheQry, LoadReqId, ReqQry, ReqQryFailed
      <4>2. CASE LinkLost \/ Callback
        BY <1>2, <3>2, <4>2, Zenon DEF LinkLost, Callback, OnFrontDisconnected, OnFrontConnected, OnRspAuthenticate,
           OnRspUserLogin, SpiLoad, OnRspQry, OnRspQryLast
      <4>3. CASE UNCHANGED vars
        BY <1>2, <4>3 DEF vars
      <4> QED BY <4>1, <4>2, <4>3 DEF Next
    <3> QED BY <3>1, <3>2
  <2>2. ASSUME NEW c \in Clients, OnConnection(c) \/ OnDisconnection(c) PROVE RaceFree'
    BY <2>2, FreeKept DEF OnConnection, OnDisconnection, loopVars, cacheVars, sayVars, spiVars
  <2>3. CASE LinkLost
    BY <2>3, FreeKept DEF LinkLost, hubVars, loopVars, cacheVars, sayVars
  <2>4. CASE OnFrontDisconnected \/ OnFrontConnected \/ OnRspAuthenticate \/ OnRspUserLogin \/ SpiLoad
    <3>1. /\ UNCHANGED <<asked, at, cur, got, req_id, qry_ws, qry, rsp, answers, errors, raced, flight>>
          /\ spi' = "store" => spiGot' = req_id'
      BY <2>4 DEF OnFrontDisconnected, OnFrontConnected, OnRspAuthenticate, OnRspUserLogin, SpiLoad,
         hubVars, loopVars, cacheVars, sayVars
    <3> QED BY <3>1, FreeKept
  <2>5. CASE UNCHANGED vars
    BY <2>5, FreeKept DEF vars, hubVars, loopVars, cacheVars, sayVars, spiVars
  <2> QED BY <1>2, <2>1, <2>2, <2>3, <2>4, <2>5, FreeSpiStore, FreeMessage, FreeAtOnce, FreeBegin, FreeCacheQry,
            FreeLoad, FreeStore, FreeReqQry, FreeReqQryFailed, FreeRow, FreeLast
         DEF Next, Hub, MessageLoop, Callback
<1> QED BY <1>1, <1>2

-----------------------------------------------------------------------------
(* The theorems, for both initial states.                                   *)

LEMMA InvInit == ASSUME NEW up \in BOOLEAN, InitWith(up) PROVE Inv
<1>1. IdsSuffice
  <2>1. Drawn = {}
    <3>1. Range(msgs) = {}
      BY DEF InitWith, Range
    <3> QED BY <3>1 DEF InitWith, Drawn
  <2>2. Cardinality(Drawn) = 0
    BY <2>1, FS_EmptySet
  <2>3. SpiDrawn = IF up THEN 3 ELSE 0
    BY DEF InitWith, SpiDrawn
  <2>4. PICK n : n = Cardinality(Drawn) /\ n = 0
    BY <2>2
  <2> QED BY <2>3, <2>4, CtpQueryAssumption DEF InitWith, IdsSuffice
<1> QED BY <1>1, TypeInit, WaitInit, RaceFreeInit DEF Inv, RaceFree

LEMMA InvStep == ASSUME Inv, [Next]_vars PROVE Inv'
<1>1. TypeOK /\ IdsSuffice /\ MsgsWait /\ HandledAsKind /\ RaceFree
  BY DEF Inv, RaceFree
<1>2. (TypeOK' /\ IdsSuffice') /\ (MsgsWait' /\ HandledAsKind') /\ RaceFree'
  BY <1>1, TypeStep, WaitStep, RaceFreeStep
<1> QED BY <1>2 DEF Inv, RaceFree

\* Inv holds while the gateway logs in for the first time and after: without a race for an
\* id, every id ties the client, the cached query, the rows and the request to one
\* another, no query that is over is cached, and none is answered twice.
THEOREM InvCorrect == Spec => []Inv
<1>1. Init => Inv
  BY InvInit DEF Init
<1>2. Inv /\ [Next]_vars => Inv'
  BY InvStep
<1> QED BY <1>1, <1>2, PTL DEF Spec

\* The same once the first login is over, the state the liveness run starts from.
THEOREM InvUpCorrect == SpecUp => []Inv
<1>1. InitUp => Inv
  BY InvInit DEF InitUp
<1>2. Inv /\ [Next]_vars => Inv'
  BY InvStep
<1> QED BY <1>1, <1>2, PTL DEF SpecUp

\* Every variable stays in its type: no request id leaves Ids, whatever is lost in a race.
THEOREM TypeCorrect == Spec => []TypeOK
<1>1. Inv => TypeOK
  BY DEF Inv
<1> QED BY <1>1, InvCorrect, PTL

\* What is sent for the entry that CTP answers.
LEMMA LastSent ==
    ASSUME TypeOK, MsgsWait, HandledAsKind, RaceFree, ~raced, NEW f \in flight, OnRspQryLast(f)
    PROVE  \/ UNCHANGED last
           \/ \E c \in Clients : \E r \in Seq(Row) :
                 /\ last' = [to |-> c, kind |-> asked[f.query].kind, query |-> f.query, rows |-> r]
                 /\ asked[f.query] = [ws |-> c, kind |-> asked[f.query].kind]
                 /\ \A n \in 1..Len(r) : r[n] = f.query
<1>1. PICK k, q, i : k = asked[f.query].kind /\ q = f.query /\ i = f.id
  OBVIOUS
<1>2. k \in Kinds /\ i \in Ids /\ q \in Queries /\ qry[k][i] = q /\ q # NoQuery
  BY <1>1, FlightEntry
<1>3. qry_ws[i] \in Clients /\ asked[q] = [ws |-> qry_ws[i], kind |-> k]
  BY <1>2, Entry DEF RaceFree
<1>4. FoundWs(i) = {qry_ws[i]}
  BY <1>3, CtpQueryAssumption DEF FoundWs
<1>5. PICK s, r : s = rsp[k][i] /\ r = IF f.rows < MaxRows THEN Append(s, q) ELSE s
  OBVIOUS
<1>6. s \in Seq(Queries) /\ \A n \in 1..Len(s) : s[n] = q
  BY <1>2, <1>5 DEF RaceFree, CachedOnce, TypeOK, CacheType, Row
<1>7. r \in Seq(Queries) /\ \A n \in 1..Len(r) : r[n] = q
  <2>1. Append(s, q) \in Seq(Queries) /\ \A n \in 1..Len(Append(s, q)) : Append(s, q)[n] = q
    BY <1>2, <1>6
  <2> QED BY <1>5, <1>6, <2>1
<1>8. \E c \in FoundWs(i) : SendMsgToClient(c, k, q, r)
  <2>1. \E c \in FoundWs(f.id) : SendMsgToClient(c, asked[f.query].kind, qry[asked[f.query].kind][f.id],
           IF f.rows < MaxRows THEN Append(rsp[asked[f.query].kind][f.id], f.query) ELSE rsp[asked[f.query].kind][f.id])
    BY Zenon DEF OnRspQryLast
  <2> QED BY <1>1, <1>2, <1>5, <2>1
<1>9. SendMsgToClient(qry_ws[i], k, q, r)
  BY <1>4, <1>8
<1>10. last' = last \/ last' = [to |-> qry_ws[i], kind |-> k, query |-> q, rows |-> r]
  BY <1>9 DEF SendMsgToClient
<1> QED BY <1>1, <1>3, <1>7, <1>10 DEF Row

\* Whatever step is made, the last result is still that of the client it went to.
LEMMA AskerStep == ASSUME Inv, AnswersAsker, [Next]_vars PROVE AnswersAsker'
<1>1. CASE raced'
  BY <1>1 DEF AnswersAsker
<1>2. CASE ~raced /\ UNCHANGED <<asked, last>>
  BY <1>2 DEF AnswersAsker
<1>3. ASSUME ~raced, NEW c \in Clients, NEW q \in Queries, NEW k \in Kinds \cup {TradingDay}, OnMessage(c, q, k)
      PROVE  AnswersAsker'
  <2>1. asked[q] = NotAsked /\ UNCHANGED last /\ asked' = [asked EXCEPT ![q] = [ws |-> c, kind |-> k]]
    BY <1>3 DEF OnMessage, sayVars
  <2>2. \A p \in Queries \ {q} : asked'[p] = asked[p]
    BY <2>1 DEF Inv, TypeOK, LoopType
  <2>3. ASSUME last # Nothing PROVE last.query \in Queries \ {q}
    <3>1. last.to # NoWs /\ last.query # NoQuery /\ asked[last.query] = [ws |-> last.to, kind |-> last.kind]
      BY <1>3, <2>3 DEF AnswersAsker
    <3>2. asked[last.query].ws = last.to /\ NotAsked.ws = NoWs
      BY <3>1 DEF NotAsked
    <3>3. last.query \in Queries
      BY <3>1 DEF Inv, TypeOK, SayType
    <3> QED BY <2>1, <3>1, <3>2, <3>3
  <2> QED BY <1>3, <2>1, <2>2, <2>3 DEF AnswersAsker
<1>4. CASE ~raced /\ QueryTradingDay
  <2>1. PICK h : h = Head(msgs)
    OBVIOUS
  <2>2. /\ UNCHANGED asked /\ msgs # <<>> /\ asked[h].kind = TradingDay
        /\ SendMsgToClient(asked[h].ws, TradingDay, h, <<>>)
    BY <1>4, <2>1 DEF QueryTradingDay, hubVars
  <2>3. h \in Queries /\ asked[h] # NotAsked
    BY <2>1, <2>2, NextMessage DEF Inv
  <2>4. asked[h] \in [ws : Clients, kind : Kinds \cup {TradingDay}]
    BY <2>3 DEF Inv, TypeOK, LoopType
  <2>5. PICK c, none : c = asked[h].ws /\ none = <<>>
    OBVIOUS
  <2>6. c \in Clients /\ asked[h] = [ws |-> c, kind |-> TradingDay] /\ h # NoQuery /\ c # NoWs
    BY <2>2, <2>3, <2>4, <2>5, CtpQueryAssumption
  <2>7. last' = last \/ last' = [to |-> c, kind |-> TradingDay, query |-> h, rows |-> none]
    BY <2>2, <2>5 DEF SendMsgToClient
  <2>8. 1..Len(none) = {}
    BY <2>5
  <2>9. CASE last' = [to |-> c, kind |-> TradingDay, query |-> h, rows |-> none]
    <3>1. last'.to = c /\ last'.kind = TradingDay /\ last'.query = h /\ last'.rows = none
      BY <2>9
    <3> QED BY <2>2, <2>6, <2>8, <3>1 DEF AnswersAsker
  <2> QED BY <1>2, <1>4, <2>2, <2>7, <2>9
<1>5. ASSUME ~raced, NEW f \in flight, OnRspQryLast(f) PROVE AnswersAsker'
  <2>1. PICK k, q : k = asked[f.query].kind /\ q = f.query
    OBVIOUS
  <2>2. UNCHANGED asked
    BY <1>5, Zenon DEF OnRspQryLast, hubVars
  <2>3. q \in Queries
    BY <2>1, WithCTP DEF Inv
  <2>4. ASSUME NEW c \in Clients, NEW r \in Seq(Row),
               last' = [to |-> c, kind |-> k, query |-> q, rows |-> r],
               asked[q] = [ws |-> c, kind |-> k], \A n \in 1..Len(r) : r[n] = q
        PROVE  AnswersAsker'
    <3>1. last'.to = c /\ last'.kind = k /\ last'.query = q /\ last'.rows = r
      BY <2>4
    <3> QED BY <2>2, <2>3, <2>4, <3>1, CtpQueryAssumption DEF AnswersAsker
  <2> QED BY <1>2, <1>5, <2>1, <2>2, <2>4, LastSent DEF Inv, RaceFree
<1>6. (~raced /\ ~raced') \/ raced'
  <2>1. raced => raced'
    <3>1. CASE Hub \/ MessageLoop
      BY <3>1, Zenon DEF Hub, OnConnection, OnDisconnection, OnMessage, MessageLoop, QueryTradingDay,
         QueryRefused, QueryBegin, CacheQry, LoadReqId, StoreReqId, ReqQry, ReqQryFailed
    <3>2. CASE LinkLost \/ Callback
      BY <3>2, Zenon DEF LinkLost, Callback, OnFrontDisconnected, OnFrontConnected, OnRspAuthenticate,
         OnRspUserLogin, SpiLoad, SpiStore, OnRspQry, OnRspQryLast
    <3>3. CASE UNCHANGED vars
      BY <3>3 DEF vars
    <3> QED BY <3>1, <3>2, <3>3 DEF Next
  <2> QED BY <2>1
<1>7. ASSUME NEW c \in Clients, OnConnection(c) \/ OnDisconnection(c) PROVE UNCHANGED <<asked, last>>
  BY <1>7 DEF OnConnection, OnDisconnection, sayVars
<1>8. CASE QueryRefused \/ QueryBegin \/ CacheQry \/ LoadReqId \/ StoreReqId \/ ReqQry \/ ReqQryFailed
  <2>1. UNCHANGED <<asked, last>>
    BY <1>8, Zenon DEF QueryRefused, QueryBegin, CacheQry, LoadReqId, StoreReqId, ReqQry, ReqQryFailed, hubVars, sayVars
  <2> QED BY <1>1, <1>2, <1>6, <2>1
<1>9. CASE LinkLost \/ OnFrontDisconnected \/ OnFrontConnected \/ OnRspAuthenticate \/ OnRspUserLogin \/ SpiLoad \/ SpiStore
  <2>1. UNCHANGED <<asked, last>>
    BY <1>9, Zenon DEF LinkLost, OnFrontDisconnected, OnFrontConnected, OnRspAuthenticate, OnRspUserLogin, SpiLoad,
       SpiStore, hubVars, sayVars
  <2> QED BY <1>1, <1>2, <1>6, <2>1
<1>10. ASSUME NEW f \in flight, OnRspQry(f) PROVE UNCHANGED <<asked, last>>
  BY <1>10, Zenon DEF OnRspQry, hubVars, sayVars
<1>11. CASE UNCHANGED vars
  BY <1>1, <1>2, <1>6, <1>11 DEF vars, hubVars, sayVars
<1> QED BY <1>1, <1>2, <1>3, <1>4, <1>5, <1>6, <1>7, <1>8, <1>9, <1>10, <1>11 DEF Next, Hub, MessageLoop, Callback

\* A result goes to the client that asked, with its own query and the rows of that query
\* only, as long as the two threads have not raced for a request id.
THEOREM AnswersAskerCorrect == Spec => []AnswersAsker
<1>1. Init => AnswersAsker
  BY DEF Init, InitWith, AnswersAsker
<1>2. Inv /\ AnswersAsker /\ [Next]_vars => AnswersAsker'
  BY AskerStep
<1> QED BY <1>1, <1>2, InvCorrect, PTL DEF Spec

\* The same once the first login is over.
THEOREM AnswersAskerUpCorrect == SpecUp => []AnswersAsker
<1>1. InitUp => AnswersAsker
  BY DEF InitUp, InitWith, AnswersAsker
<1>2. Inv /\ AnswersAsker /\ [Next]_vars => AnswersAsker'
  BY AskerStep
<1> QED BY <1>1, <1>2, InvUpCorrect, PTL DEF SpecUp
=============================================================================
