----------------------------- MODULE OkexProofs -----------------------------
(***************************************************************************)
(* The OKEx gateways: proofs about OkexTrade for any number of orders, ids *)
(* and statuses, any channel capacity and any expiry, and about            *)
(* OkexChannels for every set of channels, every configuration and any     *)
(* number of requests and broken connections. The channels a gateway says  *)
(* are subscribed are those OKEx sends up to the events that are due, and  *)
(* one that was asked for is in the map a reconnect restores from. That    *)
(* map is changed by the event of an unsubscription, which may be long on  *)
(* its way, so the invariants speak of the hub's channel, the wire and the *)
(* events too.                                                             *)
(***************************************************************************)
EXTENDS OkexTrade, OkexChannels, QueueLemmas

-----------------------------------------------------------------------------
(* The orders of the trade gateway: OkexTrade.                             *)

\* Facts about Append and Tail in the form the proofs use them.
LEMMA AppendFacts ==
    ASSUME NEW S, NEW s \in Seq(S), NEW e \in S
    PROVE  /\ Append(s, e) \in Seq(S)
           /\ Len(Append(s, e)) = Len(s) + 1
           /\ \A k \in 1..Len(s) : Append(s, e)[k] = s[k]
           /\ Append(s, e)[Len(s) + 1] = e
  OBVIOUS

LEMMA TailFacts ==
    ASSUME NEW S, NEW s \in Seq(S), s # <<>>
    PROVE  /\ Tail(s) \in Seq(S)
           /\ Len(Tail(s)) = Len(s) - 1
           /\ \A k \in 1..Len(s) - 1 : Tail(s)[k] = s[k + 1]
           /\ Head(s) = s[1]
           /\ Len(s) \in Nat /\ Len(s) >= 1
           /\ Head(s) \in S
  OBVIOUS

\* The effect of OnConfirmOrder on the confirmation of order o under id i.
LEMMA ConfirmEffect ==
    ASSUME NEW o, NEW i,
           OnConfirmOrder([type |-> "confirmorder", order |-> o, oid |-> i])
    PROVE  /\ cache' = AddCache(o, i)
           /\ i = NoOid => refused' = refused \cup {o} /\ UNCHANGED <<confirmed, feed, parked>>
           /\ i # NoOid =>
                /\ UNCHANGED refused
                /\ confirmed' = [confirmed EXCEPT ![i] = o]
                /\ feed' = [feed EXCEPT ![i] =
                       @ \o [k \in 1..Len(parked[i]) |-> Fill(o, parked[i][k])]]
                /\ parked' = [parked EXCEPT ![i] = <<>>]
<1> DEFINE m == [type |-> "confirmorder", order |-> o, oid |-> i]
<1>1. m.order = o /\ m.oid = i
  OBVIOUS
<1>2. OnConfirmOrder(m)
  OBVIOUS
<1> HIDE DEF m
<1> QED BY <1>1, <1>2, Zenon DEF OnConfirmOrder

-----------------------------------------------------------------------------
\* Every step of the gateway keeps the types.
LEMMA TypeStep == TypeOK /\ [Next]_vars => TypeOK'
<1> USE OkexTradeAssumption
<1> SUFFICES ASSUME TypeOK, [Next]_vars PROVE TypeOK'
  OBVIOUS
<1> USE DEF TypeOK, hubVars, exchangeVars
<1>1. CASE \E o \in Orders : InsertOrder(o) \/ InsertFailed(o)
  BY <1>1 DEF InsertOrder, InsertFailed
<1>2. CASE \E o \in Orders, i \in OutsideIds \cup {NoOid} : RestReturn(o, i)
  BY <1>2 DEF RestReturn
<1>3. CASE \E o \in Orders : PushConfirm(o)
  <2>1. PICK o \in Orders : PushConfirm(o)
    BY <1>3
  <2>2. [type |-> "confirmorder", order |-> o, oid |-> ret[o]] \in ConfirmMsg \cup StatusMsg
    BY DEF ConfirmMsg
  <2> QED BY <2>1, <2>2, AppendFacts DEF PushConfirm
<1>4. CASE \E i \in OutsideIds, o \in Orders \cup {NoOrder} : ExchangeAccept(i, o)
  BY <1>4 DEF ExchangeAccept
<1>5. CASE \E i \in OutsideIds, s \in LiveStatus \cup DeadStatus : OnOrder(i, s)
  <2>1. PICK i \in OutsideIds, s \in LiveStatus \cup DeadStatus : OnOrder(i, s)
    BY <1>5
  <2>2. s \in OrderStatus
    BY DEF OrderStatus
  <2>3. [type |-> "orderstatus", status |-> [oid |-> i, n |-> Len(log[i]) + 1, status |-> s]]
           \in ConfirmMsg \cup StatusMsg
    BY <2>2 DEF StatusMsg, Status
  <2> QED BY <2>1, <2>2, <2>3, AppendFacts DEF OnOrder
<1>6. CASE \E i \in OutsideIds : StatusLost(i)
  BY <1>6 DEF StatusLost
<1>7. CASE OnHubObjectMessage
  <2>1. /\ objCh' \in Seq(ConfirmMsg \cup StatusMsg)
        /\ Head(objCh) \in ConfirmMsg \cup StatusMsg
        /\ UNCHANGED <<pc, ret, owner, book, log, now>>
    BY <1>7, TailFacts DEF OnHubObjectMessage
  <2>2. CASE Head(objCh).type = "confirmorder" /\ OnConfirmOrder(Head(objCh))
    <3>1. PICK o \in Orders, i \in OutsideIds \cup {NoOid} :
             Head(objCh) = [type |-> "confirmorder", order |-> o, oid |-> i]
      BY <2>1, <2>2 DEF ConfirmMsg, StatusMsg
    <3>2. /\ cache' = AddCache(o, i)
          /\ i = NoOid => refused' = refused \cup {o} /\ UNCHANGED <<confirmed, feed, parked>>
          /\ i # NoOid =>
               /\ UNCHANGED refused
               /\ confirmed' = [confirmed EXCEPT ![i] = o]
               /\ feed' = [feed EXCEPT ![i] =
                      @ \o [k \in 1..Len(parked[i]) |-> Fill(o, parked[i][k])]]
               /\ parked' = [parked EXCEPT ![i] = <<>>]
      BY <2>2, <3>1, ConfirmEffect
    <3>3. cache' \in [OutsideIds -> CacheEntry \cup {Absent}]
      BY <3>1, <3>2 DEF AddCache, CacheEntry
    <3>4. CASE i = NoOid
      BY <2>1, <3>2, <3>3, <3>4
    <3>5. CASE i # NoOid
      <4>1. i \in OutsideIds /\ parked[i] \in Seq(Status) /\ feed[i] \in Seq(Published)
        BY <3>5
      <4>2. Len(parked[i]) \in Nat /\ \A k \in 1..Len(parked[i]) : parked[i][k] \in Status
        BY <4>1
      <4>3. \A k \in 1..Len(parked[i]) : Fill(o, parked[i][k]) \in Published
        BY <4>2 DEF Fill, Status, Published
      <4>4. feed[i] \o [k \in 1..Len(parked[i]) |-> Fill(o, parked[i][k])] \in Seq(Published)
        BY <4>1, <4>2, <4>3
      <4>5. feed' \in [OutsideIds -> Seq(Published)]
        BY <3>2, <3>5, <4>1, <4>4
      <4>6. parked' \in [OutsideIds -> Seq(Status)]
        <5>1. <<>> \in Seq(Status)
          OBVIOUS
        <5> QED BY <3>2, <3>5, <4>1, <5>1
      <4>7. confirmed' \in [OutsideIds -> Orders \cup {NoOrder}]
        BY <3>1, <3>2, <3>5, <4>1
      <4> QED BY <2>1, <3>2, <3>3, <3>5, <4>5, <4>6, <4>7
    <3> QED BY <3>4, <3>5
  <2>3. CASE Head(objCh).type = "orderstatus" /\ OnOrderTrade(Head(objCh))
    <3>1. PICK st \in Status : Head(objCh) = [type |-> "orderstatus", status |-> st]
      BY <2>1, <2>3 DEF ConfirmMsg, StatusMsg
    <3>2. PICK i \in OutsideIds : st.oid = i
      BY DEF Status
    <3>3. CASE Cached(i)
      <4>1. cache[i].order \in Orders /\ cache[i] \in CacheEntry
        BY <3>2, <3>3 DEF Cached, CacheEntry
      <4>2. /\ feed' = [feed EXCEPT ![i] = Append(@, Fill(cache[i].order, st))]
            /\ cache' = UpdateOrderStatus(i, st.status)
            /\ UNCHANGED <<parked, confirmed, refused>>
        BY <2>3, <3>1, <3>2, <3>3 DEF OnOrderTrade
      <4>3. Fill(cache[i].order, st) \in Published
        BY <4>1 DEF Fill, Published, Status
      <4>4. feed' \in [OutsideIds -> Seq(Published)]
        BY <4>2, <4>3
      <4>5. cache' \in [OutsideIds -> CacheEntry \cup {Absent}]
        BY <4>1, <4>2 DEF UpdateOrderStatus, CacheEntry
      <4> QED BY <2>1, <4>2, <4>4, <4>5
    <3>4. CASE ~Cached(i)
      <4>1. /\ parked' = [parked EXCEPT ![i] = Append(@, st)]
            /\ UNCHANGED <<cache, feed, confirmed, refused>>
        BY <2>3, <3>1, <3>2, <3>4 DEF OnOrderTrade
      <4>2. parked' \in [OutsideIds -> Seq(Status)]
        BY <4>1
      <4> QED BY <2>1, <4>1, <4>2
    <3> QED BY <3>3, <3>4
  <2> QED BY <1>7, <2>2, <2>3 DEF OnHubObjectMessage
<1>8. CASE OnTimerTicker \/ Clock
  BY <1>8 DEF OnTimerTicker, Clock, Absent
<1>9. CASE UNCHANGED vars
  BY <1>9 DEF vars
<1> QED BY <1>1, <1>2, <1>3, <1>4, <1>5, <1>6, <1>7, <1>8, <1>9
        DEF Next, Client, Exchange

\* The type invariant: no handler puts a value of the wrong shape anywhere.
THEOREM TypeCorrect == Spec => []TypeOK
<1>1. Init => TypeOK
  BY OkexTradeAssumption DEF Init, TypeOK, Absent
<1> QED BY <1>1, TypeStep, PTL DEF Spec

-----------------------------------------------------------------------------
(* What pushing to and taking from the channel does to the statuses of one  *)
(* id that are under way in it.                                             *)

Message == ConfirmMsg \cup StatusMsg

LEMMA StatusFacts ==
    ASSUME NEW m \in Message
    PROVE  /\ m.type \in {"confirmorder", "orderstatus"}
           /\ \A i : IsStatus(m, i) => m.status \in Status /\ m.status.n \in Nat
           /\ IsConfirm(m) => m.order \in Orders /\ m.oid \in OutsideIds \cup {NoOid}
  BY DEF Message, ConfirmMsg, StatusMsg, Status, IsStatus, IsConfirm

\* Whatever else is pushed, the statuses of id i stay as they are.
LEMMA PushOther ==
    ASSUME NEW ch \in Seq(Message), NEW m \in Message, NEW i, NEW t \in Nat,
           NEW h \in Seq(OrderStatus), Underway(ch, i, t, h), ~IsStatus(m, i)
    PROVE  Underway(Append(ch, m), i, t, h)
<1> DEFINE c == Append(ch, m)
<1>1. /\ Len(c) = Len(ch) + 1 /\ Len(ch) \in Nat
      /\ \A k \in 1..Len(ch) : c[k] = ch[k]
      /\ c[Len(ch) + 1] = m
  BY AppendFacts
<1> HIDE DEF c
<1>2. \A k \in 1..Len(c) : k \in 1..Len(ch) \/ k = Len(ch) + 1
  BY <1>1
<1>3. \A k \in 1..Len(c) : IsStatus(c[k], i) <=> k \in 1..Len(ch) /\ IsStatus(ch[k], i)
  BY <1>1, <1>2
<1>4. \A n \in t+1..Len(h) : \E k \in 1..Len(c) : IsStatus(c[k], i) /\ c[k].status.n = n
  <2> SUFFICES ASSUME NEW n \in t+1..Len(h)
               PROVE  \E k \in 1..Len(c) : IsStatus(c[k], i) /\ c[k].status.n = n
    OBVIOUS
  <2>1. PICK k \in 1..Len(ch) : IsStatus(ch[k], i) /\ ch[k].status.n = n
    BY DEF Underway
  <2> QED BY <1>1, <2>1
<1>5. \A k \in 1..Len(c) : IsStatus(c[k], i) =>
         c[k].status.n \in t+1..Len(h) /\ c[k].status.status = h[c[k].status.n]
  BY <1>1, <1>3 DEF Underway
<1>6. \A k, l \in 1..Len(c) : IsStatus(c[k], i) /\ IsStatus(c[l], i) /\ k < l
         => c[k].status.n < c[l].status.n
  BY <1>1, <1>3 DEF Underway
<1>7. Underway(c, i, t, h)
  BY <1>4, <1>5, <1>6 DEF Underway
<1> QED BY <1>7 DEF c

\* The next status of id i is pushed behind the others.
LEMMA PushOwn ==
    ASSUME NEW ch \in Seq(Message), NEW m \in Message, NEW i, NEW t \in Nat,
           NEW h \in Seq(OrderStatus), NEW s \in OrderStatus,
           t <= Len(h), Underway(ch, i, t, h),
           IsStatus(m, i), m.status.n = Len(h) + 1, m.status.status = s
    PROVE  Underway(Append(ch, m), i, t, Append(h, s))
<1> DEFINE c == Append(ch, m)
           g == Append(h, s)
<1>1. /\ Len(c) = Len(ch) + 1 /\ Len(ch) \in Nat
      /\ \A k \in 1..Len(ch) : c[k] = ch[k]
      /\ c[Len(ch) + 1] = m
  BY AppendFacts
<1>2. /\ Len(g) = Len(h) + 1 /\ Len(h) \in Nat
      /\ \A k \in 1..Len(h) : g[k] = h[k]
      /\ g[Len(h) + 1] = s
  BY AppendFacts
<1> HIDE DEF c, g
<1>3. \A k \in 1..Len(c) : k \in 1..Len(ch) \/ k = Len(ch) + 1
  BY <1>1
<1>4. \A k \in 1..Len(ch) : IsStatus(ch[k], i) => ch[k].status.n \in t+1..Len(h)
  BY DEF Underway
<1>5. \A k \in 1..Len(c) : IsStatus(c[k], i) =>
         c[k].status.n \in t+1..Len(g) /\ c[k].status.status = g[c[k].status.n]
  <2> SUFFICES ASSUME NEW k \in 1..Len(c), IsStatus(c[k], i)
               PROVE  c[k].status.n \in t+1..Len(g) /\ c[k].status.status = g[c[k].status.n]
    OBVIOUS
  <2>1. CASE k \in 1..Len(ch)
    <3>1. c[k] = ch[k] /\ ch[k].status.n \in t+1..Len(h)
      BY <1>1, <1>4, <2>1
    <3>2. ch[k].status.status = h[ch[k].status.n]
      BY <2>1, <3>1 DEF Underway
    <3>3. ch[k].status.n \in 1..Len(h)
      BY <3>1
    <3>4. g[ch[k].status.n] = h[ch[k].status.n]
      BY <1>2, <3>3
    <3> QED BY <1>2, <3>1, <3>2, <3>4
  <2>2. CASE k = Len(ch) + 1
    BY <1>1, <1>2, <2>2
  <2> QED BY <1>3, <2>1, <2>2
<1>6. \A n \in t+1..Len(g) : \E k \in 1..Len(c) : IsStatus(c[k], i) /\ c[k].status.n = n
  <2> SUFFICES ASSUME NEW n \in t+1..Len(g)
               PROVE  \E k \in 1..Len(c) : IsStatus(c[k], i) /\ c[k].status.n = n
    OBVIOUS
  <2>1. CASE n \in t+1..Len(h)
    <3>1. PICK k \in 1..Len(ch) : IsStatus(ch[k], i) /\ ch[k].status.n = n
      BY <2>1 DEF Underway
    <3> QED BY <1>1, <3>1
  <2>2. CASE n = Len(h) + 1
    <3>1. Len(ch) + 1 \in 1..Len(c)
      BY <1>1
    <3> QED BY <1>1, <2>2, <3>1
  <2> QED BY <1>2, <2>1, <2>2
<1>7. \A k, l \in 1..Len(c) : IsStatus(c[k], i) /\ IsStatus(c[l], i) /\ k < l
         => c[k].status.n < c[l].status.n
  <2> SUFFICES ASSUME NEW k \in 1..Len(c), NEW l \in 1..Len(c),
                      IsStatus(c[k], i), IsStatus(c[l], i), k < l
               PROVE  c[k].status.n < c[l].status.n
    OBVIOUS
  <2>1. k \in 1..Len(ch) /\ c[k] = ch[k]
    BY <1>1
  <2>2. CASE l \in 1..Len(ch)
    <3>1. c[l] = ch[l]
      BY <1>1, <2>2
    <3> QED BY <2>1, <2>2, <3>1 DEF Underway
  <2>3. CASE l = Len(ch) + 1
    BY <1>1, <1>2, <1>4, <2>1, <2>3
  <2> QED BY <1>3, <2>2, <2>3
<1>8. Underway(c, i, t, g)
  BY <1>5, <1>6, <1>7 DEF Underway
<1> QED BY <1>8 DEF c, g

\* Whatever else is taken, the statuses of id i stay as they are.
LEMMA TakeOther ==
    ASSUME NEW ch \in Seq(Message), ch # <<>>, NEW i, NEW t \in Nat,
           NEW h \in Seq(OrderStatus), Underway(ch, i, t, h), ~IsStatus(Head(ch), i)
    PROVE  Underway(Tail(ch), i, t, h)
<1> DEFINE c == Tail(ch)
<1>1. /\ Len(c) = Len(ch) - 1 /\ Len(ch) \in Nat /\ Len(ch) >= 1
      /\ \A k \in 1..Len(ch) - 1 : c[k] = ch[k + 1]
      /\ Head(ch) = ch[1]
  BY TailFacts
<1> HIDE DEF c
<1>2. \A k \in 1..Len(c) : k + 1 \in 1..Len(ch) /\ c[k] = ch[k + 1]
  BY <1>1
<1>3. \A k \in 1..Len(ch) : IsStatus(ch[k], i) => k - 1 \in 1..Len(c) /\ c[k - 1] = ch[k]
  <2> SUFFICES ASSUME NEW k \in 1..Len(ch), IsStatus(ch[k], i)
               PROVE  k - 1 \in 1..Len(c) /\ c[k - 1] = ch[k]
    OBVIOUS
  <2>1. k # 1
    BY <1>1
  <2>2. k - 1 \in 1..Len(c)
    BY <1>1, <2>1
  <2> QED BY <1>2, <2>2
<1>4. \A k \in 1..Len(c) : IsStatus(c[k], i) =>
         c[k].status.n \in t+1..Len(h) /\ c[k].status.status = h[c[k].status.n]
  BY <1>2 DEF Underway
<1>5. \A n \in t+1..Len(h) : \E k \in 1..Len(c) : IsStatus(c[k], i) /\ c[k].status.n = n
  <2> SUFFICES ASSUME NEW n \in t+1..Len(h)
               PROVE  \E k \in 1..Len(c) : IsStatus(c[k], i) /\ c[k].status.n = n
    OBVIOUS
  <2>1. PICK k \in 1..Len(ch) : IsStatus(ch[k], i) /\ ch[k].status.n = n
    BY DEF Underway
  <2> QED BY <1>3, <2>1
<1>6. \A k, l \in 1..Len(c) : IsStatus(c[k], i) /\ IsStatus(c[l], i) /\ k < l
         => c[k].status.n < c[l].status.n
  <2> SUFFICES ASSUME NEW k \in 1..Len(c), NEW l \in 1..Len(c),
                      IsStatus(c[k], i), IsStatus(c[l], i), k < l
               PROVE  c[k].status.n < c[l].status.n
    OBVIOUS
  <2>1. k + 1 \in 1..Len(ch) /\ l + 1 \in 1..Len(ch) /\ k + 1 < l + 1
    BY <1>2
  <2> QED BY <1>2, <2>1 DEF Underway
<1>7. Underway(c, i, t, h)
  BY <1>4, <1>5, <1>6 DEF Underway
<1> QED BY <1>7 DEF c

\* The oldest status of id i in the channel is the next one of its log.
LEMMA TakeOwn ==
    ASSUME NEW ch \in Seq(Message), ch # <<>>, NEW i, NEW t \in Nat,
           NEW h \in Seq(OrderStatus), Underway(ch, i, t, h), IsStatus(Head(ch), i)
    PROVE  /\ Head(ch).status.n = t + 1 /\ t + 1 <= Len(h)
           /\ Head(ch).status.status = h[t + 1]
           /\ Underway(Tail(ch), i, t + 1, h)
<1> DEFINE c == Tail(ch)
<1>1. /\ Len(c) = Len(ch) - 1 /\ Len(ch) \in Nat /\ Len(ch) >= 1
      /\ \A k \in 1..Len(ch) - 1 : c[k] = ch[k + 1]
      /\ Head(ch) = ch[1]
  BY TailFacts
<1> HIDE DEF c
<1>2. \A k \in 1..Len(c) : k + 1 \in 1..Len(ch) /\ c[k] = ch[k + 1]
  BY <1>1
<1>3. 1 \in 1..Len(ch) /\ IsStatus(ch[1], i)
  BY <1>1
<1>4. ch[1].status.n \in t+1..Len(h) /\ ch[1].status.status = h[ch[1].status.n]
  BY <1>3 DEF Underway
<1>5. \A k \in 1..Len(ch) : IsStatus(ch[k], i) /\ k # 1 => ch[1].status.n < ch[k].status.n
  BY <1>3 DEF Underway
<1>6. ch[1].status.n = t + 1
  <2>1. t + 1 \in t+1..Len(h)
    BY <1>4
  <2>2. PICK k \in 1..Len(ch) : IsStatus(ch[k], i) /\ ch[k].status.n = t + 1
    BY <2>1 DEF Underway
  <2> QED BY <1>4, <1>5, <2>2
<1>7. \A k \in 1..Len(c) : IsStatus(c[k], i) =>
         c[k].status.n \in t+1+1..Len(h) /\ c[k].status.status = h[c[k].status.n]
  <2> SUFFICES ASSUME NEW k \in 1..Len(c), IsStatus(c[k], i)
               PROVE  c[k].status.n \in t+1+1..Len(h) /\ c[k].status.status = h[c[k].status.n]
    OBVIOUS
  <2>1. k + 1 \in 1..Len(ch) /\ c[k] = ch[k + 1] /\ k + 1 # 1
    BY <1>2
  <2>2. ch[k + 1].status.n \in t+1..Len(h) /\ ch[k + 1].status.status = h[ch[k + 1].status.n]
    BY <2>1 DEF Underway
  <2>3. t + 1 < ch[k + 1].status.n
    BY <1>5, <1>6, <2>1
  <2> QED BY <2>1, <2>2, <2>3
<1>8. \A n \in t+1+1..Len(h) : \E k \in 1..Len(c) : IsStatus(c[k], i) /\ c[k].status.n = n
  <2> SUFFICES ASSUME NEW n \in t+1+1..Len(h)
               PROVE  \E k \in 1..Len(c) : IsStatus(c[k], i) /\ c[k].status.n = n
    OBVIOUS
  <2>1. n \in t+1..Len(h) /\ n # t + 1
    OBVIOUS
  <2>2. PICK k \in 1..Len(ch) : IsStatus(ch[k], i) /\ ch[k].status.n = n
    BY <2>1 DEF Underway
  <2>3. k # 1
    BY <1>6, <2>1, <2>2
  <2>4. k - 1 \in 1..Len(c) /\ (k - 1) + 1 = k
    BY <1>1, <2>3
  <2>5. c[k - 1] = ch[k]
    BY <1>2, <2>4
  <2> QED BY <2>2, <2>4, <2>5
<1>9. \A k, l \in 1..Len(c) : IsStatus(c[k], i) /\ IsStatus(c[l], i) /\ k < l
         => c[k].status.n < c[l].status.n
  <2> SUFFICES ASSUME NEW k \in 1..Len(c), NEW l \in 1..Len(c),
                      IsStatus(c[k], i), IsStatus(c[l], i), k < l
               PROVE  c[k].status.n < c[l].status.n
    OBVIOUS
  <2>1. k + 1 \in 1..Len(ch) /\ l + 1 \in 1..Len(ch) /\ k + 1 < l + 1
    BY <1>2
  <2> QED BY <1>2, <2>1 DEF Underway
<1>10. Underway(c, i, t + 1, h)
  BY <1>7, <1>8, <1>9 DEF Underway
<1> QED BY <1>1, <1>4, <1>6, <1>10 DEF c

-----------------------------------------------------------------------------
(* What the three ways to treat a status do to the accounts of its id.      *)

\* Another status of the id is received: the log grows, the rest stays.
LEMMA AccountReceived ==
    ASSUME NEW o, NEW f \in Seq(Published), NEW p \in Seq(Status), NEW h \in Seq(OrderStatus),
           NEW s \in OrderStatus, Accounted(o, f, p, h)
    PROVE  Accounted(o, f, p, Append(h, s))
<1> DEFINE g == Append(h, s)
<1>1. /\ Len(g) = Len(h) + 1 /\ Len(h) \in Nat /\ Len(f) \in Nat /\ Len(p) \in Nat
      /\ \A k \in 1..Len(h) : g[k] = h[k]
  BY AppendFacts
<1> HIDE DEF g
<1>2. \A k \in 1..Len(f) : k \in 1..Len(h)
  BY <1>1 DEF Accounted
<1>3. \A k \in 1..Len(p) : Len(f) + k \in 1..Len(h)
  BY <1>1 DEF Accounted
<1>4. Accounted(o, f, p, g)
  BY <1>1, <1>2, <1>3 DEF Accounted
<1> QED BY <1>4 DEF g

\* The next status is broadcast at once.
LEMMA AccountPublished ==
    ASSUME NEW o \in Orders, NEW f \in Seq(Published), NEW h \in Seq(OrderStatus),
           NEW st \in Status, Accounted(o, f, <<>>, h),
           st.n = Len(f) + 1, st.n <= Len(h), st.status = h[st.n]
    PROVE  Accounted(o, Append(f, Fill(o, st)), <<>>, h)
<1> DEFINE g == Append(f, Fill(o, st))
<1>1. Fill(o, st) \in Published
  BY DEF Fill, Published, Status
<1>2. /\ Len(g) = Len(f) + 1 /\ Len(f) \in Nat
      /\ \A k \in 1..Len(f) : g[k] = f[k]
      /\ g[Len(f) + 1] = Fill(o, st)
  BY <1>1, AppendFacts
<1> HIDE DEF g
<1>3. \A k \in 1..Len(g) : k \in 1..Len(f) \/ k = Len(f) + 1
  BY <1>2
<1>4. g[Len(f) + 1] = [order |-> o, n |-> Len(f) + 1, status |-> h[Len(f) + 1]]
  BY <1>2 DEF Fill
<1>5. \A k \in 1..Len(g) : g[k] = [order |-> o, n |-> k, status |-> h[k]]
  BY <1>2, <1>3, <1>4 DEF Accounted
<1>6. Len(<<>>) = 0 /\ Len(h) \in Nat /\ Len(g) <= Len(h)
  BY <1>2
<1>7. Accounted(o, g, <<>>, h)
  BY <1>2, <1>5, <1>6 DEF Accounted
<1> QED BY <1>7 DEF g

\* The next status is parked.
LEMMA AccountParked ==
    ASSUME NEW o, NEW f \in Seq(Published), NEW p \in Seq(Status), NEW h \in Seq(OrderStatus),
           NEW st \in Status, Accounted(o, f, p, h),
           st.n = Len(f) + Len(p) + 1, st.n <= Len(h), st.status = h[st.n]
    PROVE  Accounted(o, f, Append(p, st), h)
<1> DEFINE q == Append(p, st)
<1>1. /\ Len(q) = Len(p) + 1 /\ Len(p) \in Nat /\ Len(f) \in Nat
      /\ \A k \in 1..Len(p) : q[k] = p[k]
      /\ q[Len(p) + 1] = st
  BY AppendFacts
<1> HIDE DEF q
<1>2. \A k \in 1..Len(q) : k \in 1..Len(p) \/ k = Len(p) + 1
  BY <1>1
<1>3. \A k \in 1..Len(q) : q[k].n = Len(f) + k /\ q[k].status = h[Len(f) + k]
  <2> SUFFICES ASSUME NEW k \in 1..Len(q)
               PROVE  q[k].n = Len(f) + k /\ q[k].status = h[Len(f) + k]
    OBVIOUS
  <2>1. CASE k \in 1..Len(p)
    BY <1>1, <2>1 DEF Accounted
  <2>2. CASE k = Len(p) + 1
    BY <1>1, <2>2
  <2> QED BY <1>2, <2>1, <2>2
<1>4. Len(f) + Len(q) <= Len(h) /\ Len(h) \in Nat
  BY <1>1
<1>5. Accounted(o, f, q, h)
  BY <1>3, <1>4 DEF Accounted
<1> QED BY <1>5 DEF q

\* The parked statuses are replayed under the order they turn out to be of.
LEMMA AccountReplayed ==
    ASSUME NEW o \in Orders, NEW p \in Seq(Status), NEW h \in Seq(OrderStatus),
           Accounted(o, <<>>, p, h)
    PROVE  LET f == [k \in 1..Len(p) |-> Fill(o, p[k])]
           IN  Len(f) = Len(p) /\ f \in Seq(Published) /\ Accounted(o, f, <<>>, h)
<1> DEFINE f == [k \in 1..Len(p) |-> Fill(o, p[k])]
<1>1. Len(p) \in Nat /\ \A k \in 1..Len(p) : p[k] \in Status
  OBVIOUS
<1>2. \A k \in 1..Len(p) : Fill(o, p[k]) \in Published
  BY <1>1 DEF Fill, Published, Status
<1>3. f \in Seq(Published) /\ Len(f) = Len(p)
  BY <1>1, <1>2
<1>4. \A k \in 1..Len(p) : p[k].n = k /\ p[k].status = h[k]
  BY <1>1 DEF Accounted
<1>5. \A k \in 1..Len(f) : f[k] = [order |-> o, n |-> k, status |-> h[k]]
  BY <1>3, <1>4 DEF Fill
<1>6. Accounted(o, f, <<>>, h)
  <2>1. Len(p) <= Len(h) /\ Len(<<>>) = 0
    BY <1>1 DEF Accounted
  <2> HIDE DEF f
  <2> QED BY <1>1, <1>3, <1>5, <2>1 DEF Accounted
<1> QED BY <1>3, <1>6

-----------------------------------------------------------------------------
(* The inductive invariant, action by action.                               *)

\* All of IInv but the types, which TypeStep takes care of.
Coherent == OwnersInv /\ ConfirmInv /\ HubInv /\ FeedInv /\ ChannelInv /\ LogInv

LEMMA ConfirmFrame ==
    ASSUME ConfirmInv, UNCHANGED <<pc, ret, objCh, confirmed, owner>>
    PROVE  ConfirmInv'
  BY DEF ConfirmInv, IsConfirm

LEMMA HubFrame ==
    ASSUME HubInv, UNCHANGED <<cache, confirmed, parked, feed>>
    PROVE  HubInv'
  BY DEF HubInv, Cached, LastStatus

LEMMA FeedFrame ==
    ASSUME FeedInv, UNCHANGED <<owner, feed, parked, log>>
    PROVE  FeedInv'
  BY DEF FeedInv

LEMMA ChannelFrame ==
    ASSUME ChannelInv, UNCHANGED <<log, objCh, parked, feed>>
    PROVE  ChannelInv'
  BY DEF ChannelInv, Taken

\* The channel and the history of each id are sequences.
LEMMA Sequences ==
    ASSUME TypeOK
    PROVE  /\ objCh \in Seq(Message) /\ Len(objCh) \in Nat
           /\ \A i \in OutsideIds :
                /\ log[i] \in Seq(OrderStatus) /\ Len(log[i]) \in Nat
                /\ feed[i] \in Seq(Published) /\ Len(feed[i]) \in Nat
                /\ parked[i] \in Seq(Status) /\ Len(parked[i]) \in Nat
                /\ Taken(i) \in Nat
  BY DEF TypeOK, Message, Taken

LEMMA OneMore ==
    ASSUME NEW a \in Nat, NEW b \in Nat
    PROVE  (a + 1) + b = (a + b) + 1 /\ a + (b + 1) = (a + b) + 1
  OBVIOUS

\* Steps of OnRead that only move its program counter or its local variable.
LEMMA ReadStep ==
    ASSUME IInv, NEW o \in Orders,
           \/ InsertOrder(o) \/ InsertFailed(o)
           \/ \E i \in OutsideIds \cup {NoOid} : RestReturn(o, i)
    PROVE  Coherent'
<1> USE OkexTradeAssumption DEF IInv
<1>1. UNCHANGED <<owner, book, log, objCh, cache, parked, confirmed, refused, feed>>
  BY DEF InsertOrder, InsertFailed, RestReturn, exchangeVars, hubVars
<1>2. OwnersInv'
  <2>1. \A p \in Orders : pc'[p] = "idle" => pc[p] = "idle"
    BY DEF TypeOK, InsertOrder, InsertFailed, RestReturn
  <2>2. \A p \in Orders : p # o => pc'[p] = pc[p] /\ ret'[p] = ret[p]
    BY DEF TypeOK, InsertOrder, InsertFailed, RestReturn
  <2>3. pc'[o] \in {"replied", "answered"} /\ ret'[o] # NoOid => owner[ret'[o]] = o
    BY DEF TypeOK, InsertOrder, InsertFailed, RestReturn
  <2>4. \A i \in OutsideIds : owner[i] # NoOrder => owner[i] \in Orders
    BY DEF TypeOK
  <2> QED BY <1>1, <2>1, <2>2, <2>3, <2>4 DEF OwnersInv
<1>3. ConfirmInv'
  <2>1. \A p \in Orders : pc[p] = "answered" => p # o /\ pc'[p] = "answered" /\ ret'[p] = ret[p]
    BY DEF TypeOK, InsertOrder, InsertFailed, RestReturn
  <2>2. \A k \in 1..Len(objCh) : IsConfirm(objCh[k]) => objCh[k].order \in Orders
    BY DEF TypeOK, IsConfirm, ConfirmMsg, StatusMsg
  <2>3. \A i \in OutsideIds : confirmed[i] # NoOrder => confirmed[i] \in Orders
    BY DEF TypeOK
  <2> HIDE DEF IInv
  <2>4. ConfirmInv
    BY DEF IInv
  <2>5. \A k \in 1..Len(objCh) : IsConfirm(objCh[k]) =>
          /\ pc'[objCh[k].order] = "answered" /\ ret'[objCh[k].order] = objCh[k].oid
          /\ objCh[k].oid # NoOid => confirmed[objCh[k].oid] = NoOrder
    BY <2>1, <2>2, <2>4 DEF ConfirmInv
  <2>6. \A i \in OutsideIds : confirmed[i] # NoOrder =>
          confirmed[i] = owner[i] /\ pc'[confirmed[i]] = "answered"
    BY <2>1, <2>3, <2>4 DEF ConfirmInv
  <2> QED BY <1>1, <2>4, <2>5, <2>6 DEF ConfirmInv, IsConfirm
<1>4. HubInv' /\ FeedInv' /\ ChannelInv' /\ LogInv'
  BY <1>1, HubFrame, FeedFrame, ChannelFrame DEF LogInv
<1> QED BY <1>2, <1>3, <1>4 DEF Coherent

\* OnRead pushes the confirmation.
LEMMA PushConfirmStep ==
    ASSUME IInv, NEW o \in Orders, PushConfirm(o)
    PROVE  Coherent'
<1> USE OkexTradeAssumption DEF IInv
<1> DEFINE m == [type |-> "confirmorder", order |-> o, oid |-> ret[o]]
<1>1. /\ UNCHANGED <<ret, owner, book, log, cache, parked, confirmed, refused, feed>>
      /\ objCh' = Append(objCh, m) /\ pc[o] = "replied" /\ pc' = [pc EXCEPT ![o] = "answered"]
  BY DEF PushConfirm, exchangeVars, hubVars
<1>2. m \in Message /\ objCh \in Seq(Message)
  BY DEF Message, ConfirmMsg, TypeOK
<1>3. /\ Len(objCh') = Len(objCh) + 1 /\ Len(objCh) \in Nat
      /\ \A k \in 1..Len(objCh) : objCh'[k] = objCh[k]
      /\ objCh'[Len(objCh) + 1] = m
  BY <1>1, <1>2, AppendFacts
<1>4. /\ IsConfirm(m) /\ m.order = o /\ m.oid = ret[o]
      /\ \A i : ~IsStatus(m, i)
  BY DEF IsConfirm, IsStatus
<1> HIDE DEF m
<1>5. OwnersInv'
  BY <1>1 DEF OwnersInv, TypeOK
<1>6. ConfirmInv'
  <2>1. \A k \in 1..Len(objCh) : IsConfirm(objCh[k]) => objCh[k].order \in Orders /\ objCh[k].order # o
    <3>1. \A k \in 1..Len(objCh) : objCh[k] \in Message
      BY <1>2
    <3>2. \A k \in 1..Len(objCh) : IsConfirm(objCh[k]) => pc[objCh[k].order] = "answered"
      BY DEF ConfirmInv
    <3> QED BY <1>1, <3>1, <3>2, StatusFacts
  <2>2. ret[o] # NoOid => confirmed[ret[o]] = NoOrder
    BY <1>1 DEF OwnersInv, ConfirmInv, TypeOK
  <2>3. pc'[o] = "answered" /\ \A p \in Orders : pc[p] = "answered" => pc'[p] = "answered"
    BY <1>1 DEF TypeOK
  <2>4. \A k \in 1..Len(objCh') : k \in 1..Len(objCh) \/ k = Len(objCh) + 1
    BY <1>3
  <2>5. \A i \in OutsideIds : confirmed[i] # NoOrder =>
           confirmed[i] = owner[i] /\ pc'[confirmed[i]] = "answered"
    BY <2>3 DEF ConfirmInv, TypeOK
  <2>6. \A k \in 1..Len(objCh') : IsConfirm(objCh'[k]) =>
           /\ pc'[objCh'[k].order] = "answered" /\ ret'[objCh'[k].order] = objCh'[k].oid
           /\ objCh'[k].oid # NoOid => confirmed'[objCh'[k].oid] = NoOrder
    BY <1>1, <1>3, <1>4, <2>1, <2>2, <2>3, <2>4 DEF ConfirmInv
  <2>7. \A k, l \in 1..Len(objCh') :
           IsConfirm(objCh'[k]) /\ IsConfirm(objCh'[l]) /\ objCh'[k].order = objCh'[l].order
              => k = l
    BY <1>3, <1>4, <2>1, <2>4 DEF ConfirmInv
  <2> QED BY <1>1, <2>5, <2>6, <2>7 DEF ConfirmInv, IsConfirm
<1>7. HubInv' /\ FeedInv' /\ LogInv'
  BY <1>1, HubFrame, FeedFrame DEF LogInv
<1>8. ChannelInv'
  <2>1. \A i \in OutsideIds : Underway(Append(objCh, m), i, Taken(i), log[i])
    BY <1>2, <1>4, PushOther, Sequences DEF ChannelInv
  <2> QED BY <1>1, <2>1 DEF ChannelInv, Taken
<1> QED BY <1>5, <1>6, <1>7, <1>8 DEF Coherent

\* The exchange opens an order.
LEMMA AcceptStep ==
    ASSUME IInv, NEW i \in OutsideIds, NEW o \in Orders \cup {NoOrder}, ExchangeAccept(i, o)
    PROVE  Coherent'
<1> USE OkexTradeAssumption DEF IInv
<1>1. /\ UNCHANGED <<pc, ret, log, objCh, cache, parked, confirmed, refused, feed>>
      /\ book[i] = "free" /\ owner[i] = NoOrder /\ log[i] = <<>>
      /\ owner' = [owner EXCEPT ![i] = o] /\ book' = [book EXCEPT ![i] = "live"]
      /\ o # NoOrder => pc[o] = "calling" /\ \A j \in OutsideIds : owner[j] # o
  BY DEF ExchangeAccept, hubVars, OwnersInv
<1>2. /\ \A j \in OutsideIds : owner'[j] = IF j = i THEN o ELSE owner[j]
      /\ \A j \in OutsideIds : book'[j] = IF j = i THEN "live" ELSE book[j]
  BY <1>1 DEF TypeOK
<1>3. OwnersInv'
  <2>1. \A p \in Orders : pc[p] \in {"replied", "answered"} /\ ret[p] # NoOid =>
           ret[p] \in OutsideIds /\ ret[p] # i /\ owner[ret[p]] = p
    BY <1>1 DEF OwnersInv, TypeOK
  <2> QED BY <1>1, <1>2, <2>1 DEF OwnersInv
<1>4. Len(feed[i]) = 0 /\ Len(parked[i]) = 0 /\ Len(log[i]) = 0 /\ confirmed[i] = NoOrder
  <2>1. Len(feed[i]) + Len(parked[i]) <= Len(log[i])
    BY DEF FeedInv, Accounted
  <2>2. Len(log[i]) = 0
    BY <1>1
  <2>3. confirmed[i] = NoOrder
    BY <1>1 DEF ConfirmInv
  <2>4. Len(feed[i]) \in Nat /\ Len(parked[i]) \in Nat
    BY Sequences
  <2>5. Len(feed[i]) = 0 /\ Len(parked[i]) = 0
    <3> DEFINE f == Len(feed[i])
               p == Len(parked[i])
    <3>1. f \in Nat /\ p \in Nat /\ f + p <= 0
      BY <2>1, <2>2, <2>4
    <3> HIDE DEF f, p
    <3>2. f = 0 /\ p = 0
      BY <3>1
    <3> QED BY <3>2 DEF f, p
  <2> QED BY <2>2, <2>3, <2>5
<1>5. ConfirmInv'
  BY <1>1, <1>2, <1>4 DEF ConfirmInv, IsConfirm
<1>6. FeedInv'
  <2> SUFFICES ASSUME NEW j \in OutsideIds PROVE Accounted(owner'[j], feed[j], parked[j], log[j])
    BY <1>1 DEF FeedInv
  <2>1. CASE j = i
    <3>1. \A k \in 1..Len(feed[j]) : FALSE
      BY <1>4, <2>1
    <3>2. \A k \in 1..Len(parked[j]) : FALSE
      BY <1>4, <2>1
    <3>3. Len(feed[j]) + Len(parked[j]) <= Len(log[j])
      BY DEF FeedInv, Accounted
    <3> QED BY <3>1, <3>2, <3>3 DEF Accounted
  <2>2. CASE j # i
    BY <1>2, <2>2 DEF FeedInv
  <2> QED BY <2>1, <2>2
<1>7. HubInv' /\ ChannelInv'
  BY <1>1, HubFrame, ChannelFrame
<1>8. LogInv'
  BY <1>1, <1>2, <1>4 DEF LogInv
<1> QED BY <1>3, <1>5, <1>6, <1>7, <1>8 DEF Coherent

\* An order ends unheard.
LEMMA LostStep ==
    ASSUME IInv, NEW i \in OutsideIds, StatusLost(i)
    PROVE  Coherent'
<1> USE OkexTradeAssumption DEF IInv
<1>1. /\ UNCHANGED <<pc, ret, owner, log, objCh, cache, parked, confirmed, refused, feed>>
      /\ book[i] = "live" /\ book' = [book EXCEPT ![i] = "closed"]
  BY DEF StatusLost, hubVars
<1>2. OwnersInv'
  BY <1>1 DEF OwnersInv, TypeOK
<1>3. ConfirmInv' /\ HubInv' /\ FeedInv' /\ ChannelInv'
  BY <1>1, ConfirmFrame, HubFrame, FeedFrame, ChannelFrame
<1>4. LogInv'
  BY <1>1 DEF LogInv, TypeOK
<1> QED BY <1>2, <1>3, <1>4 DEF Coherent

\* CleanExpire and the clock: an entry is dropped as a whole or kept.
LEMMA TimeStep ==
    ASSUME IInv, OnTimerTicker \/ Clock
    PROVE  Coherent'
<1> USE OkexTradeAssumption DEF IInv
<1>1. UNCHANGED <<pc, ret, owner, book, log, objCh, parked, confirmed, refused, feed>>
  BY DEF OnTimerTicker, Clock, exchangeVars, hubVars
<1>2. \A i \in OutsideIds : cache'[i] \in {cache[i], Absent}
  BY DEF OnTimerTicker, Clock, hubVars
<1>3. HubInv'
  BY <1>1, <1>2 DEF HubInv, Cached, LastStatus, Absent
<1>4. OwnersInv' /\ ConfirmInv' /\ FeedInv' /\ ChannelInv' /\ LogInv'
  BY <1>1, ConfirmFrame, FeedFrame, ChannelFrame DEF OwnersInv, LogInv
<1> QED BY <1>3, <1>4 DEF Coherent

\* OnOrder pushes one more status of an id.
LEMMA OnOrderStep ==
    ASSUME IInv, NEW i \in OutsideIds, NEW s \in LiveStatus \cup DeadStatus, OnOrder(i, s)
    PROVE  Coherent'
<1> USE OkexTradeAssumption DEF IInv
<1> DEFINE st == [oid |-> i, n |-> Len(log[i]) + 1, status |-> s]
           m == [type |-> "orderstatus", status |-> st]
<1>1. /\ UNCHANGED <<pc, ret, owner, cache, parked, confirmed, refused, feed>>
      /\ book[i] = "live"
      /\ book' = [book EXCEPT ![i] = IF s \in DeadStatus THEN "closed" ELSE @]
      /\ objCh' = Append(objCh, m) /\ log' = [log EXCEPT ![i] = Append(@, s)]
  BY DEF OnOrder, hubVars
<1>2. s \in OrderStatus /\ (s \in Terminal <=> s \in DeadStatus)
  BY DEF OrderStatus
<1>3. m \in Message /\ objCh \in Seq(Message)
  BY <1>2, Sequences DEF Message, StatusMsg, Status
<1>4. /\ Len(objCh') = Len(objCh) + 1 /\ Len(objCh) \in Nat
      /\ \A k \in 1..Len(objCh) : objCh'[k] = objCh[k]
      /\ objCh'[Len(objCh) + 1] = m
  BY <1>1, <1>3, AppendFacts
<1>5. /\ IsStatus(m, i) /\ m.status.n = Len(log[i]) + 1 /\ m.status.status = s
      /\ ~IsConfirm(m) /\ \A j : j # i => ~IsStatus(m, j)
  BY DEF IsConfirm, IsStatus
<1> HIDE DEF m, st
<1>6. log'[i] = Append(log[i], s) /\ \A j \in OutsideIds : j # i => log'[j] = log[j]
  BY <1>1 DEF TypeOK
<1>7. /\ Len(log'[i]) = Len(log[i]) + 1 /\ log'[i][Len(log[i]) + 1] = s
      /\ \A k \in 1..Len(log[i]) : log'[i][k] = log[i][k]
  BY <1>2, <1>6, AppendFacts, Sequences
<1>8. OwnersInv'
  BY <1>1, <1>6 DEF OwnersInv, TypeOK
<1>9. ConfirmInv'
  <2>1. \A k \in 1..Len(objCh') : IsConfirm(objCh'[k]) =>
           k \in 1..Len(objCh) /\ objCh'[k] = objCh[k]
    BY <1>4, <1>5
  <2>2. ConfirmInv
    OBVIOUS
  <2> HIDE DEF IInv
  <2>3. \A k \in 1..Len(objCh') : IsConfirm(objCh'[k]) =>
          /\ pc[objCh'[k].order] = "answered" /\ ret[objCh'[k].order] = objCh'[k].oid
          /\ objCh'[k].oid # NoOid => confirmed[objCh'[k].oid] = NoOrder
    BY <2>1, <2>2 DEF ConfirmInv
  <2>4. \A k, l \in 1..Len(objCh') :
          IsConfirm(objCh'[k]) /\ IsConfirm(objCh'[l]) /\ objCh'[k].order = objCh'[l].order
            => k = l
    BY <2>1, <2>2 DEF ConfirmInv
  <2> QED BY <1>1, <2>2, <2>3, <2>4 DEF ConfirmInv, IsConfirm
<1>10. HubInv'
  BY <1>1, HubFrame
<1>11. FeedInv'
  <2> SUFFICES ASSUME NEW j \in OutsideIds PROVE Accounted(owner[j], feed[j], parked[j], log'[j])
    BY <1>1 DEF FeedInv
  <2>1. Accounted(owner[j], feed[j], parked[j], log[j])
    BY DEF FeedInv
  <2>2. Accounted(owner[j], feed[j], parked[j], Append(log[j], s))
    BY <1>2, <2>1, AccountReceived, Sequences
  <2> QED BY <1>6, <2>1, <2>2
<1>12. ChannelInv'
  <2> SUFFICES ASSUME NEW j \in OutsideIds PROVE Underway(Append(objCh, m), j, Taken(j), log'[j])
    BY <1>1 DEF ChannelInv, Taken
  <2>1. Underway(objCh, j, Taken(j), log[j])
    BY DEF ChannelInv
  <2>2. CASE j # i
    BY <1>3, <1>5, <1>6, <2>1, <2>2, PushOther, Sequences
  <2>3. CASE j = i
    <3>1. Taken(i) <= Len(log[i]) /\ Taken(i) \in Nat /\ log[i] \in Seq(OrderStatus)
      BY Sequences DEF FeedInv, Accounted, Taken
    <3>2. Underway(objCh, i, Taken(i), log[i])
      BY DEF ChannelInv
    <3>3. Underway(Append(objCh, m), i, Taken(i), Append(log[i], s))
      BY <1>2, <1>3, <1>5, <3>1, <3>2, PushOwn
    <3> QED BY <1>6, <2>3, <3>3
  <2> QED BY <2>2, <2>3
<1>13. LogInv'
  <2>1. \A k \in 1..Len(log[i]) : log[i][k] \notin Terminal
    BY <1>1 DEF LogInv
  <2>2. \A j \in OutsideIds : j # i => book'[j] = book[j]
    BY <1>1
  <2>3. s \in Terminal => book'[i] = "closed"
    BY <1>1, <1>2 DEF TypeOK
  <2>4. Len(log[i]) \in Nat
    BY Sequences
  <2> QED BY <1>6, <1>7, <2>1, <2>2, <2>3, <2>4 DEF LogInv
<1> QED BY <1>8, <1>9, <1>10, <1>11, <1>12, <1>13 DEF Coherent

\* The confirmation the hub takes is the answer of a request that waits for
\* it, and its id, if there is one, belongs to the request and is news.
LEMMA TakeConfirm ==
    ASSUME IInv, OnHubObjectMessage, IsConfirm(Head(objCh))
    PROVE  \E o \in Orders, i \in OutsideIds \cup {NoOid} :
             /\ objCh[1].order = o /\ objCh[1].oid = i /\ IsConfirm(objCh[1])
             /\ pc[o] = "answered" /\ ret[o] = i
             /\ i # NoOid => i \in OutsideIds /\ confirmed[i] = NoOrder /\ owner[i] = o
             /\ objCh' = Tail(objCh) /\ UNCHANGED <<pc, ret, owner, book, log>>
             /\ cache' = AddCache(o, i)
             /\ i = NoOid => UNCHANGED <<confirmed, feed, parked>>
             /\ i # NoOid =>
                  /\ confirmed' = [confirmed EXCEPT ![i] = o]
                  /\ feed' = [feed EXCEPT ![i] =
                         @ \o [k \in 1..Len(parked[i]) |-> Fill(o, parked[i][k])]]
                  /\ parked' = [parked EXCEPT ![i] = <<>>]
<1> USE OkexTradeAssumption DEF IInv
<1>1. /\ Head(objCh) \in Message /\ Head(objCh) = objCh[1] /\ 1 \in 1..Len(objCh)
  BY TailFacts, Sequences DEF OnHubObjectMessage
<1>2. PICK o \in Orders, i \in OutsideIds \cup {NoOid} :
         Head(objCh) = [type |-> "confirmorder", order |-> o, oid |-> i]
  BY <1>1 DEF Message, ConfirmMsg, StatusMsg, IsConfirm
<1>3. OnConfirmOrder(Head(objCh))
  BY DEF OnHubObjectMessage, IsConfirm
<1>4. objCh' = Tail(objCh) /\ UNCHANGED <<pc, ret, owner, book, log>>
  BY DEF OnHubObjectMessage, exchangeVars
<1>5. objCh[1].order = o /\ objCh[1].oid = i /\ IsConfirm(objCh[1])
  BY <1>1, <1>2
<1>6. /\ pc[o] = "answered" /\ ret[o] = i
      /\ i # NoOid => i \in OutsideIds /\ confirmed[i] = NoOrder /\ owner[i] = o
  BY <1>1, <1>2, <1>5 DEF ConfirmInv, OwnersInv
<1>7. /\ cache' = AddCache(o, i)
      /\ i = NoOid => refused' = refused \cup {o} /\ UNCHANGED <<confirmed, feed, parked>>
      /\ i # NoOid =>
           /\ UNCHANGED refused
           /\ confirmed' = [confirmed EXCEPT ![i] = o]
           /\ feed' = [feed EXCEPT ![i] =
                  @ \o [k \in 1..Len(parked[i]) |-> Fill(o, parked[i][k])]]
           /\ parked' = [parked EXCEPT ![i] = <<>>]
  BY <1>2, <1>3, ConfirmEffect
<1> QED BY <1>2, <1>4, <1>5, <1>6, <1>7, Zenon

\* The hub takes a confirmation: the parked statuses of its id are replayed.
LEMMA ConfirmStep ==
    ASSUME IInv, objCh # <<>>, OnHubObjectMessage, IsConfirm(Head(objCh))
    PROVE  Coherent'
<1> USE OkexTradeAssumption DEF IInv
<1>1. /\ Head(objCh) \in Message /\ Head(objCh) = objCh[1] /\ 1 \in 1..Len(objCh)
      /\ \A k \in 1..Len(Tail(objCh)) : k + 1 \in 1..Len(objCh) /\ Tail(objCh)[k] = objCh[k + 1]
      /\ \A j : ~IsStatus(Head(objCh), j)
  BY TailFacts, Sequences DEF IsConfirm, IsStatus
<1>2. PICK o \in Orders, i \in OutsideIds \cup {NoOid} :
         /\ objCh[1].order = o /\ objCh[1].oid = i /\ IsConfirm(objCh[1])
         /\ pc[o] = "answered" /\ ret[o] = i
         /\ i # NoOid => i \in OutsideIds /\ confirmed[i] = NoOrder /\ owner[i] = o
         /\ objCh' = Tail(objCh) /\ UNCHANGED <<pc, ret, owner, book, log>>
         /\ cache' = AddCache(o, i)
         /\ i = NoOid => UNCHANGED <<confirmed, feed, parked>>
         /\ i # NoOid =>
              /\ confirmed' = [confirmed EXCEPT ![i] = o]
              /\ feed' = [feed EXCEPT ![i] =
                     @ \o [k \in 1..Len(parked[i]) |-> Fill(o, parked[i][k])]]
              /\ parked' = [parked EXCEPT ![i] = <<>>]
  BY TakeConfirm
<1>4. /\ objCh' = Tail(objCh) /\ UNCHANGED <<pc, ret, owner, book, log>>
      /\ cache' = AddCache(o, i)
      /\ i = NoOid => UNCHANGED <<confirmed, feed, parked>>
      /\ i # NoOid =>
           /\ confirmed' = [confirmed EXCEPT ![i] = o]
           /\ feed' = [feed EXCEPT ![i] =
                  @ \o [k \in 1..Len(parked[i]) |-> Fill(o, parked[i][k])]]
           /\ parked' = [parked EXCEPT ![i] = <<>>]
  BY <1>2
<1>5. objCh[1].order = o /\ objCh[1].oid = i /\ IsConfirm(objCh[1])
  BY <1>2
<1>6. /\ pc[o] = "answered" /\ ret[o] = i
      /\ i # NoOid => i \in OutsideIds /\ confirmed[i] = NoOrder /\ owner[i] = o
  BY <1>2
<1>7. OwnersInv' /\ LogInv'
  BY <1>4 DEF OwnersInv, LogInv
<1>8. \A k \in 1..Len(Tail(objCh)) : IsConfirm(Tail(objCh)[k]) =>
         /\ Tail(objCh)[k].order \in Orders /\ Tail(objCh)[k].order # o
         /\ Tail(objCh)[k].oid # NoOid => Tail(objCh)[k].oid # i
  <2> SUFFICES ASSUME NEW k \in 1..Len(Tail(objCh)), IsConfirm(Tail(objCh)[k])
               PROVE  /\ Tail(objCh)[k].order \in Orders /\ Tail(objCh)[k].order # o
                      /\ Tail(objCh)[k].oid # NoOid => Tail(objCh)[k].oid # i
    OBVIOUS
  <2> DEFINE m == Tail(objCh)[k]
  <2>1. k + 1 \in 1..Len(objCh) /\ m = objCh[k + 1] /\ k + 1 # 1
    BY <1>1
  <2>2. m \in Message
    BY <2>1, Sequences
  <2>3. m.order \in Orders
    BY <2>2, StatusFacts
  <2>4. m.order # o
    BY <1>1, <1>5, <2>1 DEF ConfirmInv
  <2>5. pc[m.order] = "answered" /\ ret[m.order] = m.oid
    BY <2>1 DEF ConfirmInv
  <2>6. m.oid # NoOid => owner[m.oid] = m.order
    BY <2>3, <2>5 DEF OwnersInv
  <2> QED BY <1>6, <2>3, <2>4, <2>6
<1>9. ConfirmInv'
  <2>1. \A j \in OutsideIds : confirmed'[j] = IF j = i /\ i # NoOid THEN o ELSE confirmed[j]
    BY <1>4 DEF TypeOK
  <2>2. \A k \in 1..Len(Tail(objCh)) : IsConfirm(Tail(objCh)[k]) =>
           /\ pc[Tail(objCh)[k].order] = "answered"
           /\ ret[Tail(objCh)[k].order] = Tail(objCh)[k].oid
           /\ Tail(objCh)[k].oid # NoOid => confirmed[Tail(objCh)[k].oid] = NoOrder
    BY <1>1 DEF ConfirmInv
  <2>3. \A k \in 1..Len(Tail(objCh)) :
           IsConfirm(Tail(objCh)[k]) /\ Tail(objCh)[k].oid # NoOid => confirmed'[Tail(objCh)[k].oid] = NoOrder
    <3>1. \A k \in 1..Len(Tail(objCh)) : IsConfirm(Tail(objCh)[k]) =>
             Tail(objCh)[k].oid \in OutsideIds \cup {NoOid}
      BY <1>1, StatusFacts, Sequences
    <3> QED BY <1>8, <2>1, <2>2, <3>1
  <2>4. \A k, l \in 1..Len(Tail(objCh)) :
           /\ IsConfirm(Tail(objCh)[k]) /\ IsConfirm(Tail(objCh)[l])
           /\ Tail(objCh)[k].order = Tail(objCh)[l].order
           => k = l
    <3> SUFFICES ASSUME NEW k \in 1..Len(Tail(objCh)), NEW l \in 1..Len(Tail(objCh)),
                        IsConfirm(Tail(objCh)[k]), IsConfirm(Tail(objCh)[l]),
                        Tail(objCh)[k].order = Tail(objCh)[l].order
                 PROVE  k = l
      OBVIOUS
    <3>1. k + 1 = l + 1
      BY <1>1 DEF ConfirmInv
    <3> QED BY <3>1
  <2>5. \A j \in OutsideIds : confirmed'[j] # NoOrder =>
           confirmed'[j] = owner[j] /\ pc[confirmed'[j]] = "answered"
    BY <1>6, <2>1 DEF ConfirmInv
  <2> QED BY <1>4, <2>2, <2>3, <2>4, <2>5 DEF ConfirmInv, IsConfirm
<1>10. \A j \in OutsideIds : Underway(Tail(objCh), j, Taken(j), log[j])
  BY <1>1, TakeOther, Sequences DEF ChannelInv
<1>11. CASE i = NoOid
  <2>1. UNCHANGED <<cache, confirmed, feed, parked>>
    BY <1>4, <1>11 DEF AddCache
  <2>2. HubInv' /\ FeedInv'
    BY <1>4, <2>1, HubFrame, FeedFrame
  <2>3. ChannelInv'
    BY <1>4, <1>10, <2>1 DEF ChannelInv, Taken
  <2> QED BY <1>7, <1>9, <2>2, <2>3 DEF Coherent
<1>12. CASE i # NoOid
  <2> DEFINE r == [k \in 1..Len(parked[i]) |-> Fill(o, parked[i][k])]
  <2>1. i \in OutsideIds /\ feed[i] = <<>> /\ ~Cached(i)
    BY <1>6, <1>12 DEF HubInv
  <2>2. Accounted(o, <<>>, parked[i], log[i])
    BY <1>6, <1>12, <2>1 DEF FeedInv
  <2>3. Len(r) = Len(parked[i]) /\ r \in Seq(Published) /\ Accounted(o, r, <<>>, log[i])
    BY <2>1, <2>2, AccountReplayed, Sequences
  <2>4. feed[i] \o r = r
    BY <2>1, <2>3
  <2>5. /\ \A j \in OutsideIds : feed'[j] = IF j = i THEN r ELSE feed[j]
        /\ \A j \in OutsideIds : parked'[j] = IF j = i THEN <<>> ELSE parked[j]
        /\ \A j \in OutsideIds : confirmed'[j] = IF j = i THEN o ELSE confirmed[j]
    BY <1>4, <1>12, <2>1, <2>4 DEF TypeOK
  <2> HIDE DEF r
  <2>6. /\ \A j \in OutsideIds : j # i => cache'[j] = cache[j]
        /\ cache'[i] = [order |-> o, ts |-> 0]
    BY <1>4, <1>12, <2>1 DEF AddCache, TypeOK
  <2>7. HubInv'
    <3> SUFFICES ASSUME NEW j \in OutsideIds
                 PROVE  /\ confirmed'[j] = NoOrder => feed'[j] = <<>> /\ ~Cached(j)'
                        /\ Cached(j)' => cache'[j].order = confirmed'[j] /\ parked'[j] = <<>>
                        /\ cache'[j].ts > 0 => feed'[j] # <<>> /\ LastStatus(j)' \in Terminal
      BY DEF HubInv
    <3>1. CASE j = i
      BY <1>2, <2>5, <2>6, <3>1
    <3>2. CASE j # i
      BY <2>5, <2>6, <3>2 DEF HubInv, Cached, LastStatus
    <3> QED BY <3>1, <3>2
  <2>8. FeedInv'
    BY <1>4, <1>6, <1>12, <2>3, <2>5 DEF FeedInv
  <2>9. \A j \in OutsideIds : Taken(j)' = Taken(j)
    <3> SUFFICES ASSUME NEW j \in OutsideIds
                 PROVE  Len(feed'[j]) + Len(parked'[j]) = Len(feed[j]) + Len(parked[j])
      BY DEF Taken
    <3>1. CASE j = i
      <4>1. Len(feed[i]) = 0 /\ Len(parked'[i]) = 0 /\ Len(feed'[i]) = Len(parked[i])
        BY <2>1, <2>3, <2>5
      <4>2. Len(parked[i]) \in Nat
        BY <2>1, Sequences
      <4> QED BY <3>1, <4>1, <4>2
    <3>2. CASE j # i
      BY <2>5, <3>2
    <3> QED BY <3>1, <3>2
  <2>10. ChannelInv'
    BY <1>4, <1>10, <2>9 DEF ChannelInv
  <2> QED BY <1>7, <1>9, <2>7, <2>8, <2>10 DEF Coherent
<1> QED BY <1>11, <1>12

\* The status the hub takes is the next one of its id; it goes out under the
\* owner of the id if the id is cached, and is parked otherwise.
LEMMA TakeStatus ==
    ASSUME IInv, OnHubObjectMessage, ~IsConfirm(Head(objCh))
    PROVE  \E st \in Status, i \in OutsideIds :
             /\ IsStatus(Head(objCh), i) /\ Head(objCh).status = st
             /\ \A j \in OutsideIds : j # i => ~IsStatus(Head(objCh), j)
             /\ st.n = Taken(i) + 1 /\ st.n <= Len(log[i]) /\ st.status = log[i][st.n]
             /\ Underway(Tail(objCh), i, Taken(i) + 1, log[i])
             /\ objCh' = Tail(objCh)
             /\ UNCHANGED <<pc, ret, owner, book, log, confirmed, refused>>
             /\ Cached(i) =>
                  /\ confirmed[i] # NoOrder /\ cache[i].order = owner[i] /\ parked[i] = <<>>
                  /\ confirmed[i] = owner[i] /\ owner[i] \in Orders
                  /\ feed' = [feed EXCEPT ![i] = Append(@, Fill(cache[i].order, st))]
                  /\ cache' = UpdateOrderStatus(i, st.status)
                  /\ UNCHANGED parked
             /\ ~Cached(i) =>
                  /\ parked' = [parked EXCEPT ![i] = Append(@, st)]
                  /\ UNCHANGED <<cache, feed>>
<1> USE OkexTradeAssumption DEF IInv
<1>1. Head(objCh) \in Message
  BY TailFacts, Sequences DEF OnHubObjectMessage
<1>2. PICK st \in Status : Head(objCh) = [type |-> "orderstatus", status |-> st]
  BY <1>1 DEF Message, ConfirmMsg, StatusMsg, IsConfirm
<1>3. PICK i \in OutsideIds : st.oid = i
  BY DEF Status
<1>4. /\ IsStatus(Head(objCh), i) /\ Head(objCh).status = st
      /\ \A j \in OutsideIds : j # i => ~IsStatus(Head(objCh), j)
  BY <1>2, <1>3 DEF IsStatus
<1>5. /\ OnOrderTrade(Head(objCh)) /\ objCh' = Tail(objCh) /\ objCh # <<>>
      /\ UNCHANGED <<pc, ret, owner, book, log>>
  BY <1>4 DEF OnHubObjectMessage, exchangeVars, IsStatus
<1>6. UNCHANGED <<confirmed, refused>>
  BY <1>5 DEF OnOrderTrade
<1>7. /\ st.n = Taken(i) + 1 /\ st.n <= Len(log[i]) /\ st.status = log[i][st.n]
      /\ Underway(Tail(objCh), i, Taken(i) + 1, log[i])
  <2>1. Underway(objCh, i, Taken(i), log[i])
    BY DEF ChannelInv
  <2> QED BY <1>4, <1>5, <2>1, TakeOwn, Sequences
<1>8. Cached(i) =>
         /\ confirmed[i] # NoOrder /\ cache[i].order = owner[i] /\ parked[i] = <<>>
         /\ confirmed[i] = owner[i] /\ owner[i] \in Orders
  BY DEF HubInv, ConfirmInv, TypeOK
<1>9. /\ Cached(i) =>
           /\ feed' = [feed EXCEPT ![i] = Append(@, Fill(cache[i].order, st))]
           /\ cache' = UpdateOrderStatus(i, st.status)
           /\ UNCHANGED parked
      /\ ~Cached(i) =>
           /\ parked' = [parked EXCEPT ![i] = Append(@, st)]
           /\ UNCHANGED <<cache, feed>>
  BY <1>3, <1>4, <1>5 DEF OnOrderTrade
<1> QED BY <1>2, <1>3, <1>4, <1>5, <1>6, <1>7, <1>8, <1>9, Zenon

\* The hub takes a status.
LEMMA TradeStep ==
    ASSUME IInv, objCh # <<>>, OnHubObjectMessage, ~IsConfirm(Head(objCh))
    PROVE  Coherent'
<1> USE OkexTradeAssumption DEF IInv
<1>1. /\ Head(objCh) \in Message
      /\ \A k \in 1..Len(Tail(objCh)) : k + 1 \in 1..Len(objCh) /\ Tail(objCh)[k] = objCh[k + 1]
  BY TailFacts, Sequences
<1>2. PICK st \in Status, i \in OutsideIds :
         /\ IsStatus(Head(objCh), i) /\ Head(objCh).status = st
         /\ \A j \in OutsideIds : j # i => ~IsStatus(Head(objCh), j)
         /\ st.n = Taken(i) + 1 /\ st.n <= Len(log[i]) /\ st.status = log[i][st.n]
         /\ Underway(Tail(objCh), i, Taken(i) + 1, log[i])
         /\ objCh' = Tail(objCh)
         /\ UNCHANGED <<pc, ret, owner, book, log, confirmed, refused>>
         /\ Cached(i) =>
              /\ confirmed[i] # NoOrder /\ cache[i].order = owner[i] /\ parked[i] = <<>>
              /\ confirmed[i] = owner[i] /\ owner[i] \in Orders
              /\ feed' = [feed EXCEPT ![i] = Append(@, Fill(cache[i].order, st))]
              /\ cache' = UpdateOrderStatus(i, st.status)
              /\ UNCHANGED parked
         /\ ~Cached(i) =>
              /\ parked' = [parked EXCEPT ![i] = Append(@, st)]
              /\ UNCHANGED <<cache, feed>>
  BY TakeStatus
<1>4. /\ IsStatus(Head(objCh), i) /\ Head(objCh).status = st
      /\ \A j \in OutsideIds : j # i => ~IsStatus(Head(objCh), j)
  BY <1>2
<1>5. objCh' = Tail(objCh) /\ UNCHANGED <<pc, ret, owner, book, log>>
  BY <1>2
<1>6. UNCHANGED <<confirmed, refused>>
  BY <1>2
<1>7. OwnersInv' /\ LogInv'
  BY <1>5 DEF OwnersInv, LogInv
<1>8. ConfirmInv'
  <2>1. \A k \in 1..Len(Tail(objCh)) : k + 1 \in 1..Len(objCh) /\ Tail(objCh)[k] = objCh[k + 1]
    BY <1>1
  <2>2. \A k \in 1..Len(Tail(objCh)) : IsConfirm(Tail(objCh)[k]) =>
           /\ pc[Tail(objCh)[k].order] = "answered"
           /\ ret[Tail(objCh)[k].order] = Tail(objCh)[k].oid
           /\ Tail(objCh)[k].oid # NoOid => confirmed[Tail(objCh)[k].oid] = NoOrder
    BY <2>1 DEF ConfirmInv
  <2>3. \A k, l \in 1..Len(Tail(objCh)) :
           /\ IsConfirm(Tail(objCh)[k]) /\ IsConfirm(Tail(objCh)[l])
           /\ Tail(objCh)[k].order = Tail(objCh)[l].order
           => k = l
    <3> SUFFICES ASSUME NEW k \in 1..Len(Tail(objCh)), NEW l \in 1..Len(Tail(objCh)),
                        IsConfirm(Tail(objCh)[k]), IsConfirm(Tail(objCh)[l]),
                        Tail(objCh)[k].order = Tail(objCh)[l].order
                 PROVE  k = l
      OBVIOUS
    <3>1. k + 1 = l + 1
      BY <2>1 DEF ConfirmInv
    <3> QED BY <3>1
  <2> QED BY <1>5, <1>6, <2>2, <2>3 DEF ConfirmInv, IsConfirm
<1>9. /\ st.n = Taken(i) + 1 /\ st.n <= Len(log[i]) /\ st.status = log[i][st.n]
      /\ Underway(Tail(objCh), i, Taken(i) + 1, log[i])
  BY <1>2
<1>10. \A j \in OutsideIds : j # i => Underway(Tail(objCh), j, Taken(j), log[j])
  BY <1>4, TakeOther, Sequences DEF ChannelInv
<1>11. Accounted(owner[i], feed[i], parked[i], log[i])
  BY DEF FeedInv
<1>12. CASE Cached(i)
  <2>1. /\ feed' = [feed EXCEPT ![i] = Append(@, Fill(cache[i].order, st))]
        /\ cache' = UpdateOrderStatus(i, st.status)
        /\ UNCHANGED parked
    BY <1>2, <1>12
  <2>2. /\ confirmed[i] # NoOrder /\ cache[i].order = owner[i] /\ parked[i] = <<>>
        /\ confirmed[i] = owner[i] /\ owner[i] \in Orders
    BY <1>2, <1>12
  <2>3. Taken(i) = Len(feed[i]) /\ Len(feed[i]) \in Nat
    BY <2>2, Sequences DEF Taken
  <2>4. Accounted(owner[i], Append(feed[i], Fill(owner[i], st)), <<>>, log[i])
    BY <1>9, <1>11, <2>2, <2>3, AccountPublished, Sequences
  <2>5. /\ feed'[i] = Append(feed[i], Fill(owner[i], st))
        /\ \A j \in OutsideIds : j # i => feed'[j] = feed[j]
    BY <2>1, <2>2 DEF TypeOK
  <2>6. FeedInv'
    BY <1>5, <2>1, <2>2, <2>4, <2>5 DEF FeedInv
  <2>7. Fill(owner[i], st) \in Published /\ Fill(owner[i], st).status = st.status
    BY <2>2 DEF Fill, Published, Status
  <2>8. Len(feed'[i]) = Len(feed[i]) + 1 /\ feed'[i][Len(feed[i]) + 1] = Fill(owner[i], st)
    BY <2>5, <2>7, AppendFacts, Sequences
  <2>9. ChannelInv'
    <3>1. Taken(i)' = Taken(i) + 1 /\ \A j \in OutsideIds : j # i => Taken(j)' = Taken(j)
      <4>1. Taken(i)' = Len(feed[i]) + 1 + Len(parked[i])
        BY <2>1, <2>8 DEF Taken
      <4>2. Taken(i) = Len(feed[i]) + Len(parked[i])
        BY DEF Taken
      <4>3. \A j \in OutsideIds : j # i => Taken(j)' = Taken(j)
        BY <2>1, <2>5 DEF Taken
      <4>4. Len(feed[i]) \in Nat /\ Len(parked[i]) \in Nat
        BY Sequences
      <4>5. Taken(i)' = Taken(i) + 1
        <5> DEFINE f == Len(feed[i])
                   p == Len(parked[i])
        <5>1. f \in Nat /\ p \in Nat /\ Taken(i)' = f + 1 + p /\ Taken(i) = f + p
          BY <4>1, <4>2, <4>4
        <5> HIDE DEF f, p
        <5> QED BY <5>1, OneMore
      <4> QED BY <4>3, <4>5
    <3> QED BY <1>5, <1>9, <1>10, <3>1 DEF ChannelInv
  <2>10. cache[i].ts = 0
    <3>1. cache[i].ts \in Nat
      BY <1>12 DEF TypeOK, Cached, CacheEntry, Absent
    <3>2. ASSUME cache[i].ts > 0 PROVE FALSE
      <4>1. feed[i] # <<>> /\ LastStatus(i) \in Terminal
        BY <3>2 DEF HubInv
      <4>2. Len(feed[i]) \in 1..Len(feed[i])
        BY <2>3, <4>1, Sequences
      <4>3. log[i][Len(feed[i])] \in Terminal /\ Len(feed[i]) \in 1..Len(log[i])
        <5>1. feed[i][Len(feed[i])].status = log[i][Len(feed[i])]
          <6>1. feed[i][Len(feed[i])] =
                   [order |-> owner[i], n |-> Len(feed[i]), status |-> log[i][Len(feed[i])]]
            BY <1>11, <4>2, Zenon DEF Accounted
          <6> DEFINE e == feed[i][Len(feed[i])]
                     x == log[i][Len(feed[i])]
                     l == Len(feed[i])
          <6>2. e = [order |-> owner[i], n |-> l, status |-> x]
            BY <6>1
          <6> HIDE DEF e, x, l
          <6>3. e.status = x
            BY <6>2
          <6> QED BY <6>3 DEF e, x
        <5>2. Len(feed[i]) <= Len(log[i]) /\ Len(log[i]) \in Nat
          BY <1>9, <2>3, Sequences
        <5> QED BY <2>3, <4>1, <4>2, <5>1, <5>2 DEF LastStatus
      <4>4. Len(feed[i]) = Len(log[i])
        BY <4>3 DEF LogInv
      <4> QED BY <1>9, <2>3, <4>4
    <3> QED BY <3>1, <3>2
  <2>11. /\ \A j \in OutsideIds : j # i => cache'[j] = cache[j]
         /\ cache'[i].order = cache[i].order
         /\ cache'[i].ts > 0 => st.status \in Terminal
    BY <1>12, <2>1, <2>10 DEF UpdateOrderStatus, TypeOK, CacheEntry, Absent, Cached
  <2>12. HubInv'
    <3> SUFFICES ASSUME NEW j \in OutsideIds
                 PROVE  /\ confirmed'[j] = NoOrder => feed'[j] = <<>> /\ ~Cached(j)'
                        /\ Cached(j)' => cache'[j].order = confirmed'[j] /\ parked'[j] = <<>>
                        /\ cache'[j].ts > 0 => feed'[j] # <<>> /\ LastStatus(j)' \in Terminal
      BY DEF HubInv
    <3>1. CASE j = i
      <4>1. cache'[i].ts > 0 => feed'[i] # <<>> /\ LastStatus(i)' \in Terminal
        <5>1. LastStatus(i)' = st.status
          BY <2>7, <2>8 DEF LastStatus
        <5>2. feed'[i] # <<>>
          BY <2>3, <2>8
        <5> QED BY <2>11, <5>1, <5>2
      <4> QED BY <1>6, <2>1, <2>2, <2>11, <3>1, <4>1
    <3>2. CASE j # i
      BY <1>6, <2>1, <2>5, <2>11, <3>2 DEF HubInv, Cached, LastStatus
    <3> QED BY <3>1, <3>2
  <2> QED BY <1>7, <1>8, <2>6, <2>9, <2>12 DEF Coherent
<1>13. CASE ~Cached(i)
  <2>1. /\ parked' = [parked EXCEPT ![i] = Append(@, st)]
        /\ UNCHANGED <<cache, feed>>
    BY <1>2, <1>13
  <2>2. /\ parked'[i] = Append(parked[i], st)
        /\ \A j \in OutsideIds : j # i => parked'[j] = parked[j]
    BY <2>1 DEF TypeOK
  <2>3. Accounted(owner[i], feed[i], Append(parked[i], st), log[i])
    BY <1>9, <1>11, AccountParked, Sequences DEF Taken
  <2>4. FeedInv'
    BY <1>5, <2>1, <2>2, <2>3 DEF FeedInv
  <2>5. ChannelInv'
    <3>1. Taken(i)' = Taken(i) + 1 /\ \A j \in OutsideIds : j # i => Taken(j)' = Taken(j)
      <4>1. Len(parked'[i]) = Len(parked[i]) + 1
        BY <2>2, AppendFacts, Sequences
      <4>2. Taken(i)' = Len(feed[i]) + (Len(parked[i]) + 1)
        BY <2>1, <4>1 DEF Taken
      <4>3. Taken(i) = Len(feed[i]) + Len(parked[i])
        BY DEF Taken
      <4>4. \A j \in OutsideIds : j # i => Taken(j)' = Taken(j)
        BY <2>1, <2>2 DEF Taken
      <4>5. Len(feed[i]) \in Nat /\ Len(parked[i]) \in Nat
        BY Sequences
      <4>6. Taken(i)' = Taken(i) + 1
        <5> DEFINE f == Len(feed[i])
                   p == Len(parked[i])
        <5>1. f \in Nat /\ p \in Nat /\ Taken(i)' = f + (p + 1) /\ Taken(i) = f + p
          BY <4>2, <4>3, <4>5
        <5> HIDE DEF f, p
        <5> QED BY <5>1, OneMore
      <4> QED BY <4>4, <4>6
    <3> QED BY <1>5, <1>9, <1>10, <3>1 DEF ChannelInv
  <2>6. HubInv'
    BY <1>6, <1>13, <2>1, <2>2 DEF HubInv, Cached, LastStatus
  <2> QED BY <1>7, <1>8, <2>4, <2>5, <2>6 DEF Coherent
<1> QED BY <1>12, <1>13

-----------------------------------------------------------------------------
\* IInv is inductive.
LEMMA Inductive == IInv /\ [Next]_vars => IInv'
<1> SUFFICES ASSUME IInv, [Next]_vars PROVE IInv'
  OBVIOUS
<1>1. TypeOK'
  BY TypeStep DEF IInv
<1> SUFFICES Coherent'
  BY <1>1 DEF IInv, Coherent
<1>2. CASE \E o \in Orders : Client(o)
  BY <1>2, ReadStep, PushConfirmStep DEF Client
<1>3. CASE \E i \in OutsideIds : Exchange(i)
  BY <1>3, AcceptStep, OnOrderStep, LostStep DEF Exchange
<1>4. CASE OnHubObjectMessage
  <2>1. objCh # <<>>
    BY <1>4 DEF OnHubObjectMessage
  <2> QED BY <1>4, <2>1, ConfirmStep, TradeStep
<1>5. CASE OnTimerTicker \/ Clock
  BY <1>5, TimeStep
<1>6. CASE UNCHANGED vars
  <2>1. UNCHANGED <<pc, ret, owner, book, log, objCh, cache, parked, confirmed, feed>>
    BY <1>6 DEF vars, exchangeVars, hubVars
  <2>2. OwnersInv' /\ LogInv'
    BY <2>1 DEF IInv, OwnersInv, LogInv
  <2> QED BY <2>1, <2>2, ConfirmFrame, HubFrame, FeedFrame, ChannelFrame DEF IInv, Coherent
<1> QED BY <1>2, <1>3, <1>4, <1>5, <1>6 DEF Next

LEMMA InitIInv == Init => IInv
<1> SUFFICES ASSUME Init PROVE IInv
  OBVIOUS
<1> USE OkexTradeAssumption
<1>1. TypeOK
  BY DEF Init, TypeOK, Absent
<1>2. /\ \A i \in OutsideIds : log[i] = <<>> /\ feed[i] = <<>> /\ parked[i] = <<>>
      /\ \A i \in OutsideIds : owner[i] = NoOrder /\ confirmed[i] = NoOrder /\ cache[i] = Absent
      /\ objCh = <<>> /\ \A o \in Orders : pc[o] = "idle"
  BY DEF Init
<1>3. Len(<<>>) = 0 /\ \A k : k \notin 1..0
  OBVIOUS
<1>4. \A i \in OutsideIds : Taken(i) = 0
  <2> SUFFICES ASSUME NEW i \in OutsideIds PROVE Len(feed[i]) + Len(parked[i]) = 0
    BY DEF Taken
  <2>1. Len(feed[i]) = 0 /\ Len(parked[i]) = 0
    BY <1>2
  <2> QED BY <2>1
<1>5. OwnersInv /\ ConfirmInv /\ LogInv
  BY <1>2, <1>3 DEF OwnersInv, ConfirmInv, LogInv
<1>6. HubInv
  BY <1>2 DEF HubInv, Cached, Absent
<1>7. FeedInv /\ ChannelInv
  <2>1. \A i \in OutsideIds : Accounted(owner[i], feed[i], parked[i], log[i])
    <3> SUFFICES ASSUME NEW i \in OutsideIds
                 PROVE  Accounted(owner[i], feed[i], parked[i], log[i])
      OBVIOUS
    <3>1. Len(feed[i]) = 0 /\ Len(parked[i]) = 0 /\ Len(log[i]) = 0
      BY <1>2
    <3> QED BY <3>1 DEF Accounted
  <2>2. \A i \in OutsideIds : Len(log[i]) = 0
    BY <1>2
  <2>3. Len(objCh) = 0
    BY <1>2
  <2>4. \A i \in OutsideIds : Underway(objCh, i, 0, log[i])
    BY <2>2, <2>3 DEF Underway
  <2> QED BY <1>4, <2>1, <2>4 DEF FeedInv, ChannelInv
<1> QED BY <1>1, <1>5, <1>6, <1>7 DEF IInv

\* The hub's maps, the channel and the broadcasts account for every request
\* and every status, for any number of them and any interleaving.
THEOREM IInvCorrect == Spec => []IInv
  BY InitIInv, Inductive, PTL DEF Spec

-----------------------------------------------------------------------------
(* What the invariant says to the clients.                                  *)

LEMMA IInvMeaning ==
    ASSUME IInv
    PROVE  ConfirmedFirst /\ OwnIds /\ FeedInOrder /\ NoneParkedForCached
<1> USE OkexTradeAssumption DEF IInv
<1>1. ConfirmedFirst
  BY DEF ConfirmedFirst, HubInv
<1>2. FeedInOrder
  <2> SUFFICES ASSUME NEW i \in OutsideIds
               PROVE  /\ Len(feed[i]) <= Len(log[i])
                      /\ \A k \in 1..Len(feed[i]) :
                            feed[i][k].n = k /\ feed[i][k].status = log[i][k]
    BY DEF FeedInOrder
  <2>1. Accounted(owner[i], feed[i], parked[i], log[i])
    BY DEF FeedInv
  <2>2. Len(feed[i]) <= Len(log[i])
    <3> DEFINE f == Len(feed[i])
               p == Len(parked[i])
               h == Len(log[i])
    <3>1. f \in Nat /\ p \in Nat /\ h \in Nat /\ f + p <= h
      BY <2>1, Sequences DEF Accounted
    <3> HIDE DEF f, p, h
    <3>2. f <= h
      BY <3>1
    <3> QED BY <3>2 DEF f, h
  <2>3. ASSUME NEW k \in 1..Len(feed[i])
        PROVE  feed[i][k].n = k /\ feed[i][k].status = log[i][k]
    <3> DEFINE e == feed[i][k]
               x == log[i][k]
    <3>1. e = [order |-> owner[i], n |-> k, status |-> x]
      BY <2>1 DEF Accounted
    <3> HIDE DEF e, x
    <3>2. e.n = k /\ e.status = x
      BY <3>1
    <3> QED BY <3>2 DEF e, x
  <2> QED BY <2>2, <2>3
<1>3. OwnIds
  <2> SUFFICES ASSUME NEW i \in OutsideIds
               PROVE  /\ confirmed[i] \in {NoOrder, owner[i]}
                      /\ \A k \in 1..Len(feed[i]) : feed[i][k].order = owner[i]
    BY DEF OwnIds
  <2>1. confirmed[i] \in {NoOrder, owner[i]}
    BY DEF ConfirmInv
  <2>2. ASSUME NEW k \in 1..Len(feed[i]) PROVE feed[i][k].order = owner[i]
    <3> DEFINE e == feed[i][k]
               x == log[i][k]
    <3>1. e = [order |-> owner[i], n |-> k, status |-> x]
      BY DEF FeedInv, Accounted
    <3> HIDE DEF e, x
    <3>2. e.order = owner[i]
      BY <3>1
    <3> QED BY <3>2 DEF e
  <2> QED BY <2>1, <2>2
<1>4. NoneParkedForCached
  BY DEF NoneParkedForCached, HubInv
<1> QED BY <1>1, <1>2, <1>3, <1>4

\* No orderstatus goes out for an id before its confirmorder.
THEOREM ConfirmedFirstCorrect == Spec => []ConfirmedFirst
  BY IInvMeaning, IInvCorrect, PTL

\* Confirmations and statuses name the order the exchange holds under the id.
THEOREM OwnIdsCorrect == Spec => []OwnIds
  BY IInvMeaning, IInvCorrect, PTL

\* Each status goes out exactly once and in the exchange's order.
THEOREM FeedInOrderCorrect == Spec => []FeedInOrder
  BY IInvMeaning, IInvCorrect, PTL

\* An order in the cache has nothing parked.
THEOREM NoneParkedCorrect == Spec => []NoneParkedForCached
  BY IInvMeaning, IInvCorrect, PTL

\* Only CleanExpire removes entries: the other steps keep what is cached.
LEMMA CachedStays ==
    ASSUME IInv, [Next]_vars, ~OnTimerTicker
    PROVE  \A i \in OutsideIds : Cached(i) => Cached(i)'
<1> USE OkexTradeAssumption DEF IInv
<1> SUFFICES ASSUME NEW j \in OutsideIds, Cached(j) PROVE Cached(j)'
  OBVIOUS
<1>1. CASE OnHubObjectMessage /\ IsConfirm(Head(objCh))
  <2>1. PICK o \in Orders, i \in OutsideIds \cup {NoOid} : cache' = AddCache(o, i)
    BY <1>1, TakeConfirm
  <2> QED BY <2>1 DEF AddCache, Cached, TypeOK
<1>2. CASE OnHubObjectMessage /\ ~IsConfirm(Head(objCh))
  <2>1. PICK st \in Status, i \in OutsideIds :
           cache' = UpdateOrderStatus(i, st.status) \/ UNCHANGED cache
    BY <1>2, TakeStatus
  <2>2. cache[j] \in CacheEntry
    BY DEF TypeOK, Cached
  <2>3. cache' = UpdateOrderStatus(i, st.status) => cache'[j].order = cache[j].order
    BY <2>2 DEF UpdateOrderStatus, TypeOK
  <2>4. cache'[j].order \in Orders => Cached(j)'
    BY DEF Cached, Absent
  <2> QED BY <2>1, <2>2, <2>3, <2>4 DEF Cached, CacheEntry
<1>3. CASE UNCHANGED cache
  BY <1>3 DEF Cached
<1>4. CASE \E o \in Orders : Client(o)
  BY <1>3, <1>4 DEF Client, InsertOrder, InsertFailed, RestReturn, PushConfirm, hubVars
<1>5. CASE \E i \in OutsideIds : Exchange(i)
  BY <1>3, <1>5 DEF Exchange, ExchangeAccept, OnOrder, StatusLost, hubVars
<1>6. CASE Clock \/ UNCHANGED vars
  BY <1>3, <1>6 DEF Clock, vars, hubVars
<1> QED BY <1>1, <1>2, <1>4, <1>5, <1>6 DEF Next

\* CleanExpire forgets an order only when all it will ever hear of it is
\* broadcast, so no later status of the order can miss its ids.
THEOREM ForgottenCorrect == Spec => ForgottenOnlyWhenFinished
<1>1. ASSUME IInv, [Next]_vars, NEW i \in OutsideIds, Cached(i), ~Cached(i)'
      PROVE  feed[i] # <<>> /\ LastStatus(i) \in Terminal /\ Len(feed[i]) = Len(log[i])
  <2>1. OnTimerTicker
    BY <1>1, CachedStays
  <2>2. Expired(cache[i])
    BY <1>1, <2>1 DEF OnTimerTicker, Cached
  <2>3. feed[i] # <<>> /\ LastStatus(i) \in Terminal
    BY <1>1, <2>2 DEF Expired, IInv, HubInv
  <2>4. FeedInOrder /\ Len(feed[i]) \in Nat /\ feed[i] \in Seq(Published)
    BY <1>1, IInvMeaning, Sequences DEF IInv
  <2>5. Len(feed[i]) \in 1..Len(feed[i])
    BY <2>3, <2>4
  <2>6. log[i][Len(feed[i])] \in Terminal /\ Len(feed[i]) <= Len(log[i])
    BY <2>3, <2>4, <2>5 DEF FeedInOrder, LastStatus
  <2>7. Len(log[i]) \in Nat
    BY <1>1, Sequences DEF IInv
  <2>8. Len(feed[i]) \in 1..Len(log[i])
    BY <2>5, <2>6, <2>7
  <2>9. Len(feed[i]) = Len(log[i])
    BY <1>1, <2>6, <2>8 DEF IInv, LogInv
  <2> QED BY <2>3, <2>9
<1>2. IInv /\ [Next]_vars =>
         [\A i \in OutsideIds : Cached(i) /\ ~Cached(i)' =>
            /\ feed[i] # <<>> /\ LastStatus(i) \in Terminal
            /\ Len(feed[i]) = Len(log[i])]_vars
  BY <1>1
<1> QED BY <1>2, IInvCorrect, PTL DEF Spec, ForgottenOnlyWhenFinished

-----------------------------------------------------------------------------
(* The gateway implements the safety part of OrderFeed.                     *)

LEMMA FeedInitRefined == Init => Promise!FeedInit
  BY DEF Init, Promise!FeedInit

\* A confirmation with an id is a Confirm that publishes what was parked.
LEMMA ConfirmRefined ==
    ASSUME IInv, OnHubObjectMessage, IsConfirm(Head(objCh))
    PROVE  [Promise!FeedNext]_(Promise!feedVars)
<1> USE OkexTradeAssumption DEF IInv
<1>1. PICK o \in Orders, i \in OutsideIds \cup {NoOid} :
         /\ i # NoOid => i \in OutsideIds /\ confirmed[i] = NoOrder /\ owner[i] = o
         /\ UNCHANGED log
         /\ i = NoOid => UNCHANGED <<confirmed, feed>>
         /\ i # NoOid =>
              /\ confirmed' = [confirmed EXCEPT ![i] = o]
              /\ feed' = [feed EXCEPT ![i] =
                     @ \o [k \in 1..Len(parked[i]) |-> Fill(o, parked[i][k])]]
  BY TakeConfirm
<1>2. CASE i = NoOid
  BY <1>1, <1>2 DEF Promise!feedVars
<1>3. CASE i # NoOid
  <2> DEFINE n == Len(parked[i])
             r == [k \in 1..n |-> Fill(o, parked[i][k])]
             q == [k \in 1..n |-> Promise!Report(i, o, k)]
  <2>1. i \in OutsideIds /\ feed[i] = <<>> /\ n \in Nat
    BY <1>1, <1>3, Sequences DEF HubInv
  <2>2. Accounted(o, <<>>, parked[i], log[i])
    BY <1>1, <1>3, <2>1 DEF FeedInv
  <2>3. Len(r) = n /\ r \in Seq(Published)
    BY <2>1, <2>2, AccountReplayed, Sequences
  <2>4. <<>> \o r = r
    BY <2>3
  <2>5. Len(log[i]) \in Nat /\ n <= Len(log[i])
    BY <2>1, <2>2, Sequences DEF Accounted
  <2>6. \A k \in 1..n : parked[i][k].n = k /\ parked[i][k].status = log[i][k]
    BY <2>1, <2>2 DEF Accounted
  <2>7. r = q
    BY <2>6 DEF Fill, Promise!Report
  <2>8. feed' = [feed EXCEPT ![i] = q]
    BY <1>1, <1>3, <2>1, <2>4, <2>7
  <2>9. n \in 0..Len(log[i])
    BY <2>1, <2>5
  <2> HIDE DEF n, r
  <2>10. Promise!Confirm(i, o, n)
    BY <1>1, <1>3, <2>5, <2>8 DEF Promise!Confirm
  <2> QED BY <2>1, <2>9, <2>10 DEF Promise!FeedNext
<1> QED BY <1>2, <1>3

\* A status of a cached id is a Publish; a parked one is not seen.
LEMMA StatusRefined ==
    ASSUME IInv, OnHubObjectMessage, ~IsConfirm(Head(objCh))
    PROVE  [Promise!FeedNext]_(Promise!feedVars)
<1> USE OkexTradeAssumption DEF IInv
<1>1. PICK st \in Status, i \in OutsideIds :
         /\ st.n = Taken(i) + 1 /\ st.n <= Len(log[i]) /\ st.status = log[i][st.n]
         /\ UNCHANGED <<log, confirmed>>
         /\ Cached(i) =>
              /\ confirmed[i] # NoOrder /\ cache[i].order = owner[i] /\ parked[i] = <<>>
              /\ confirmed[i] = owner[i]
              /\ feed' = [feed EXCEPT ![i] = Append(@, Fill(cache[i].order, st))]
         /\ ~Cached(i) => UNCHANGED feed
  BY TakeStatus
<1>2. CASE ~Cached(i)
  BY <1>1, <1>2 DEF Promise!feedVars
<1>3. CASE Cached(i)
  <2> DEFINE l == Len(feed[i])
  <2>1. l \in Nat /\ Len(parked[i]) = 0 /\ Len(log[i]) \in Nat
    BY <1>1, <1>3, Sequences
  <2>2. Taken(i) = l
    BY <2>1 DEF Taken
  <2>3. Fill(cache[i].order, st) = Promise!Report(i, confirmed[i], l + 1)
    BY <1>1, <1>3, <2>2 DEF Fill, Promise!Report
  <2>4. feed' = [feed EXCEPT ![i] = Append(@, Promise!Report(i, confirmed[i], Len(@) + 1))]
    BY <1>1, <1>3, <2>3
  <2>5. l < Len(log[i])
    BY <1>1, <2>1, <2>2
  <2>6. Promise!Publish(i)
    BY <1>1, <1>3, <2>4, <2>5 DEF Promise!Publish
  <2> QED BY <2>6 DEF Promise!FeedNext
<1> QED BY <1>2, <1>3

LEMMA NextRefined ==
    ASSUME IInv, [Next]_vars
    PROVE  [Promise!FeedNext]_(Promise!feedVars)
<1> USE OkexTradeAssumption
<1>1. CASE \E i \in OutsideIds, s \in LiveStatus \cup DeadStatus : OnOrder(i, s)
  <2>1. PICK i \in OutsideIds, s \in LiveStatus \cup DeadStatus : OnOrder(i, s)
    BY <1>1
  <2>2. s \in OrderStatus
    BY DEF OrderStatus
  <2>3. Promise!Receive(i, s)
    BY <2>1 DEF OnOrder, Promise!Receive, hubVars
  <2> QED BY <2>2, <2>3 DEF Promise!FeedNext
<1>2. CASE UNCHANGED <<log, confirmed, feed>>
  BY <1>2 DEF Promise!feedVars
<1>3. CASE \E o \in Orders : Client(o)
  BY <1>2, <1>3 DEF Client, InsertOrder, InsertFailed, RestReturn, PushConfirm,
                    exchangeVars, hubVars
<1>4. CASE \E i \in OutsideIds :
              (\E o \in Orders \cup {NoOrder} : ExchangeAccept(i, o)) \/ StatusLost(i)
  BY <1>2, <1>4 DEF ExchangeAccept, StatusLost, hubVars
<1>5. CASE OnTimerTicker \/ Clock \/ UNCHANGED vars
  BY <1>2, <1>5 DEF OnTimerTicker, Clock, vars, exchangeVars, hubVars
<1>6. CASE OnHubObjectMessage
  BY <1>6, ConfirmRefined, StatusRefined
<1> QED BY <1>1, <1>3, <1>4, <1>5, <1>6 DEF Next, Exchange

\* The statuses of every order come out under that order, each once, none
\* skipped, in the exchange's order, and none before the confirmation.
THEOREM FeedRefined == Spec => Promise!FeedSafe
  BY FeedInitRefined, NextRefined, IInvCorrect, PTL DEF Spec, Promise!FeedSafe

-----------------------------------------------------------------------------
(* The channels of both gateways: OkexChannels.                            *)

(* OKEx: what was asked for is kept.                                       *)

\* A request to unsubscribe c waits in s, and the event of one does.
Asks(s, c)  == \E i \in DOMAIN s : s[i].op = "unsubscribe" /\ c \in s[i].args
Tells(s, c) == \E i \in DOMAIN s : s[i] = [event |-> "unsubscribe", channel |-> c]

\* The channels somebody asks for are in the map, and nothing that was sent before
\* takes them out.
Kept == \A c \in Channels \ crossed :
    asked[c] = "sub" => channels[c] # "none" /\ ~Unsubscribing(c)

ChannelsIInv == ChannelsTypeOK /\ Kept

-----------------------------------------------------------------------------
(* Sequences of requests and events.                                        *)

\* These three are what Unsubscribing says.
LEMMA UnsubscribingIs ==
    ASSUME NEW c PROVE Unsubscribing(c) <=> Asks(hub, c) \/ Asks(wire, c) \/ Tells(events, c)
BY DEF Unsubscribing, Asks, Tells

\* One more request asks for what it says.
LEMMA AskAppend ==
    ASSUME NEW s \in Seq(Request), NEW r \in Request, NEW c, Asks(Append(s, r), c)
    PROVE  Asks(s, c) \/ (r.op = "unsubscribe" /\ c \in r.args)
BY AppendProperties DEF Asks

\* One request less asks for no more, whether it was the first of them ...
LEMMA AskTail ==
    ASSUME NEW s \in Seq(Request), s # <<>>, NEW c
    PROVE  /\ Asks(Tail(s), c) => Asks(s, c)
           /\ Head(s).op = "unsubscribe" /\ c \in Head(s).args => Asks(s, c)
<1>1. /\ \A i \in DOMAIN Tail(s) : i + 1 \in DOMAIN s /\ Tail(s)[i] = s[i + 1]
      /\ 1 \in DOMAIN s /\ Head(s) = s[1]
  BY HeadTailProperties
<1> QED BY <1>1 DEF Asks

\* ... or one that has been served in part.
LEMMA AskLess ==
    ASSUME NEW s \in Seq(Request), s # <<>>, Head(s).op # "login", NEW d, NEW c
    PROVE  LET t == [s EXCEPT ![1].args = @ \ {d}] IN
           /\ t \in Seq(Request)
           /\ Asks(t, c) => Asks(s, c)
<1> DEFINE r == [s[1] EXCEPT !.args = @ \ {d}]
           t == [s EXCEPT ![1] = r]
<1>1. 1 \in DOMAIN s /\ Head(s) = s[1] /\ s[1] \in [op : {"subscribe", "unsubscribe"}, args : SUBSET Channels]
  BY DEF Request
<1>2. r \in Request /\ r.op = s[1].op /\ r.args = s[1].args \ {d}
  BY <1>1 DEF Request
<1> HIDE DEF r
<1>3. t \in Seq(Request) /\ DOMAIN t = DOMAIN s /\ t[1] = r /\ \A i \in DOMAIN s \ {1} : t[i] = s[i]
  BY <1>1, <1>2
<1> HIDE DEF t
<1>4. Asks(t, c) => Asks(s, c)
  BY <1>1, <1>2, <1>3 DEF Asks
<1> QED BY <1>3, <1>4 DEF t, r

\* The same of events.
LEMMA TellAppend ==
    ASSUME NEW s \in Seq(Event), NEW e \in Event, NEW c, Tells(Append(s, e), c)
    PROVE  Tells(s, c) \/ e = [event |-> "unsubscribe", channel |-> c]
BY AppendProperties DEF Tells

\* ... and one event less tells no more.
LEMMA TellTail ==
    ASSUME NEW s \in Seq(Event), s # <<>>, NEW c
    PROVE  /\ Tells(Tail(s), c) => Tells(s, c)
           /\ Head(s) = [event |-> "unsubscribe", channel |-> c] => Tells(s, c)
<1>1. /\ \A i \in DOMAIN Tail(s) : i + 1 \in DOMAIN s /\ Tail(s)[i] = s[i + 1]
      /\ 1 \in DOMAIN s /\ Head(s) = s[1]
  BY HeadTailProperties
<1> QED BY <1>1 DEF Tells

\* A connection that ends leaves a beginning of them, and says that it ended.
LEMMA TellBroken ==
    ASSUME NEW s \in Seq(Event), NEW n \in 0..Len(s), NEW c
    PROVE  LET t == Append(SubSeq(s, 1, n), [event |-> "closed"]) IN
           /\ t \in Seq(Event)
           /\ Tells(t, c) => Tells(s, c)
<1> DEFINE b == SubSeq(s, 1, n)
           e == [event |-> "closed"]
<1>1. \A i \in 1..n : s[i] \in Event /\ i \in DOMAIN s
  OBVIOUS
<1>2. /\ b \in Seq(Event) /\ Len(b) = n
      /\ \A i \in 1..n : b[i] = s[i]
  BY <1>1, SubSeqProperties
<1>3. e \in Event /\ e # [event |-> "unsubscribe", channel |-> c]
  <2>1. e \in Event
    BY DEF Event
  <2>2. e.event # "unsubscribe"
    OBVIOUS
  <2> QED BY <2>1, <2>2
<1> HIDE DEF b, e
<1>4. Append(b, e) \in Seq(Event)
  BY <1>2, <1>3
<1>5. Tells(Append(b, e), c) => Tells(b, c)
  BY <1>2, <1>3, TellAppend
<1>6. Tells(b, c) => Tells(s, c)
  BY <1>1, <1>2 DEF Tells
<1> QED BY <1>4, <1>5, <1>6 DEF b, e

-----------------------------------------------------------------------------
(* Types.                                                                   *)

\* A request that names channels is a request.
LEMMA ReqType ==
    ASSUME NEW op \in {"subscribe", "unsubscribe"}, NEW cs \in SUBSET Channels
    PROVE  Req(op, cs) \in Request /\ Req(op, cs).op = op /\ Req(op, cs).args = cs
BY DEF Req, Request

\* A request is put at the end of the hub's channel if that is not full.
LEMMA HubAppend ==
    ASSUME ChannelsTypeOK, Len(hub) < MaxQueued, NEW r \in Request, hub' = Append(hub, r)
    PROVE  hub' \in Seq(Request) /\ Len(hub') <= MaxQueued
BY OkexChannelsAssumption DEF ChannelsTypeOK

\* Restoring keeps the types.
LEMMA RestoreType ==
    ASSUME ChannelsTypeOK, Len(hub) < MaxQueued, Restore
    PROVE  /\ channels' \in [Channels -> {"none", "off", "on"}]
           /\ hub' \in Seq(Request) /\ Len(hub') <= MaxQueued
           /\ asked' \in [Channels -> {"nothing", "sub", "unsub"}] /\ crossed' \subseteq Channels
<1>1. SubTopicsConf \subseteq Channels /\ Listed \subseteq Channels
  BY OkexChannelsAssumption DEF Listed
<1>2. PICK cs \in SUBSET Channels : hub' = Append(hub, Req("subscribe", cs))
  BY <1>1 DEF Restore
<1>3. hub' \in Seq(Request) /\ Len(hub') <= MaxQueued
  BY <1>2, ReqType, HubAppend
<1> QED BY <1>1, <1>3 DEF Restore, ChannelsTypeOK

\* The types of an initial state.
LEMMA TypeInit == ChannelsInit => ChannelsTypeOK
<1> SUFFICES ASSUME ChannelsInit PROVE ChannelsTypeOK
  OBVIOUS
<1>1. hub \in Seq(Request) /\ wire \in Seq(Request) /\ events \in Seq(Event) /\ Len(hub) <= MaxQueued
  BY OkexChannelsAssumption DEF ChannelsInit
<1>2. calls \in 0..MaxCalls /\ breaks \in 0..MaxBreaks
  BY OkexChannelsAssumption DEF ChannelsInit
<1> QED BY <1>1, <1>2 DEF ChannelsInit, ChannelsTypeOK

\* Every step keeps the types.
LEMMA ChannelsTypeStep == ChannelsTypeOK /\ [ChannelsNext]_channelsVars => ChannelsTypeOK'
<1> SUFFICES ASSUME ChannelsTypeOK, [ChannelsNext]_channelsVars PROVE ChannelsTypeOK'
  OBVIOUS
<1> USE DEF serviceVars, okexVars, histVars
<1>0. <<>> \in Seq(Request) /\ <<>> \in Seq(Event)
  OBVIOUS
<1>1. CASE OnActive
  <2>1. wire' \in Seq(Request) /\ events' \in Seq(Event)
    BY <1>0, <1>1 DEF OnActive
  <2> QED BY <1>1, <2>1 DEF ChannelsTypeOK, OnActive
<1>2. CASE OnConnected
  <2>1. CASE Restore
    BY <1>2, <2>1, RestoreType DEF ChannelsTypeOK, OnConnected
  <2>2. CASE hub' = Append(hub, [op |-> "login"]) /\ UNCHANGED <<channels, asked, crossed>>
    <3>1. [op |-> "login"] \in Request
      BY DEF Request
    <3>2. hub' \in Seq(Request) /\ Len(hub') <= MaxQueued
      BY <1>2, <2>2, <3>1, HubAppend DEF OnConnected
    <3> QED BY <1>2, <2>2, <3>2 DEF ChannelsTypeOK, OnConnected
  <2> QED BY <1>2, <2>1, <2>2 DEF OnConnected
<1>3. ASSUME NEW e, Read(e) PROVE Tail(events) \in Seq(Event) /\ events # <<>> /\ Head(events) \in Event
  BY <1>3, HeadTailProperties DEF ChannelsTypeOK, Read
<1>4. CASE OnLogin
  <2>1. Tail(events) \in Seq(Event) /\ Restore /\ Len(hub) < MaxQueued
    BY <1>3, <1>4 DEF OnLogin
  <2>2. /\ channels' \in [Channels -> {"none", "off", "on"}]
        /\ hub' \in Seq(Request) /\ Len(hub') <= MaxQueued
        /\ asked' \in [Channels -> {"nothing", "sub", "unsub"}] /\ crossed' \subseteq Channels
    BY <2>1, RestoreType
  <2> QED BY <1>4, <2>1, <2>2 DEF ChannelsTypeOK, OnLogin, Read
<1>5. CASE OnSub
  BY <1>3, <1>5 DEF ChannelsTypeOK, OnSub, Read
<1>6. CASE OnUnsub
  BY <1>3, <1>6 DEF ChannelsTypeOK, OnUnsub, Read
<1>7. CASE OnInactive
  BY <1>3, <1>7 DEF ChannelsTypeOK, OnInactive, Read
<1>8. CASE OnDisconnected
  BY <1>8 DEF ChannelsTypeOK, OnDisconnected
<1>9. CASE OnHubByteMessage
  <2>1. hub \in Seq(Request) /\ hub # <<>> /\ wire \in Seq(Request) /\ Len(hub) <= MaxQueued
    BY <1>9 DEF ChannelsTypeOK, OnHubByteMessage
  <2>2. Head(hub) \in Request /\ Tail(hub) \in Seq(Request) /\ Len(Tail(hub)) <= MaxQueued
    BY <2>1, HeadTailProperties, OkexChannelsAssumption
  <2>3. wire' \in Seq(Request)
    BY <1>9, <2>1, <2>2 DEF OnHubByteMessage
  <2>4. Head(hub).op = "unsubscribe" => Head(hub).args \subseteq Channels
    BY <2>2 DEF Request
  <2>5. endangered' \subseteq Channels
    BY <1>9, <2>4 DEF OnHubByteMessage, ChannelsTypeOK
  <2> QED BY <1>9, <2>2, <2>3, <2>5 DEF ChannelsTypeOK, OnHubByteMessage
<1>10. ASSUME NEW cs \in SUBSET Channels, SubTopics(cs) PROVE ChannelsTypeOK'
  <2>1. hub' \in Seq(Request) /\ Len(hub') <= MaxQueued
    BY <1>10, ReqType, HubAppend DEF SubTopics
  <2>2. calls' \in 0..MaxCalls
    BY <1>10, OkexChannelsAssumption DEF SubTopics, ChannelsTypeOK
  <2> QED BY <1>10, <2>1, <2>2 DEF SubTopics, ChannelsTypeOK
<1>11. ASSUME NEW cs \in SUBSET Channels, UnsubTopics(cs) PROVE ChannelsTypeOK'
  <2>1. hub' \in Seq(Request) /\ Len(hub') <= MaxQueued
    BY <1>11, ReqType, HubAppend DEF UnsubTopics
  <2>2. calls' \in 0..MaxCalls
    BY <1>11, OkexChannelsAssumption DEF UnsubTopics, ChannelsTypeOK
  <2> QED BY <1>11, <2>1, <2>2 DEF UnsubTopics, ChannelsTypeOK
<1>12. CASE Break
  <2>1. PICK n \in 0..Len(events) : events' = Append(SubSeq(events, 1, n), [event |-> "closed"])
    BY <1>12 DEF Break
  <2>2. events' \in Seq(Event)
    BY <2>1, TellBroken DEF ChannelsTypeOK
  <2>3. breaks' \in 0..MaxBreaks /\ endangered' \subseteq Channels
    BY <1>12, OkexChannelsAssumption DEF Break, ChannelsTypeOK
  <2>4. wire' \in Seq(Request) /\ conn' \in BOOLEAN /\ logged' \in BOOLEAN /\ upstream' \subseteq Known
    BY <1>0, <1>12 DEF Break
  <2>5. UNCHANGED <<gateway, channels, stage, peer, hub, asked, crossed, denied, calls>>
    BY <1>12 DEF Break
  <2> QED BY <2>2, <2>3, <2>4, <2>5 DEF ChannelsTypeOK
<1>13. CASE ServeLogin
  <2>1. wire' \in Seq(Request)
    BY <1>13, HeadTailProperties DEF ServeLogin, ChannelsTypeOK
  <2>2. PICK e \in Event : e = [event |-> "login"]
    BY DEF Event
  <2>3. events' \in Seq(Event)
    <3>1. events \in Seq(Event) /\ (events' = events \/ events' = Append(events, e))
      BY <1>13, <2>2 DEF ServeLogin, ChannelsTypeOK
    <3> QED BY <3>1
  <2> QED BY <1>13, <2>1, <2>3 DEF ServeLogin, ChannelsTypeOK
<1>14. CASE Serve
  <2>1. wire \in Seq(Request) /\ wire # <<>> /\ Head(wire).op # "login" /\ events \in Seq(Event)
    BY <1>14 DEF Serve, ChannelsTypeOK
  <2>2. Tail(wire) \in Seq(Request) /\ Head(wire) \in [op : {"subscribe", "unsubscribe"}, args : SUBSET Channels]
    BY <2>1, HeadTailProperties DEF Request
  <2>3. CASE wire' = Tail(wire) /\ UNCHANGED <<events, upstream>>
    BY <1>14, <2>2, <2>3 DEF Serve, ChannelsTypeOK
  <2>4. CASE \E c \in Head(wire).args :
               /\ wire' \in {Tail(wire), [wire EXCEPT ![1].args = @ \ {c}]}
               /\ events' \in {events, Append(events, [event |-> Head(wire).op, channel |-> c])}
               /\ upstream' \in {upstream, upstream \ {c}} \/ (c \in Known /\ upstream' = upstream \cup {c})
    <3>1. PICK c \in Head(wire).args :
               /\ wire' \in {Tail(wire), [wire EXCEPT ![1].args = @ \ {c}]}
               /\ events' \in {events, Append(events, [event |-> Head(wire).op, channel |-> c])}
               /\ upstream' \in {upstream, upstream \ {c}} \/ (c \in Known /\ upstream' = upstream \cup {c})
      BY <2>4
    <3>2. wire' \in Seq(Request)
      BY <2>1, <2>2, <3>1, AskLess
    <3>3. [event |-> Head(wire).op, channel |-> c] \in Event
      BY <2>2 DEF Event
    <3>4. events' \in Seq(Event)
      BY <2>1, <3>1, <3>3
    <3>5. upstream' \subseteq Known
      BY <3>1 DEF ChannelsTypeOK
    <3> QED BY <1>14, <3>2, <3>4, <3>5 DEF Serve, ChannelsTypeOK
  <2> QED BY <1>14, <2>2, <2>3, <2>4 DEF Serve
<1>15. CASE UNCHANGED channelsVars
  BY <1>15 DEF ChannelsTypeOK, channelsVars
<1> QED BY <1>1, <1>2, <1>4, <1>5, <1>6, <1>7, <1>8, <1>9, <1>10, <1>11, <1>12, <1>13, <1>14, <1>15
        DEF ChannelsNext

\* Every reachable state is of its type: requests and events name channels there are.
THEOREM ChannelsTypeCorrect == ChannelsSpec => []ChannelsTypeOK
BY TypeInit, ChannelsTypeStep, PTL DEF ChannelsSpec

-----------------------------------------------------------------------------
(* What was asked for is kept.                                              *)

\* No step but an accepted request for c puts one to unsubscribe it on its way.
LEMMA NoNewUnsub ==
    ASSUME ChannelsTypeOK, [ChannelsNext]_channelsVars, NEW c \in Channels, ~Unsubscribing(c), asked'[c] # "unsub"
    PROVE  ~Unsubscribing(c)'
<1> USE DEF serviceVars, okexVars, histVars
<1> DEFINE Goal == ~Unsubscribing(c)'
<1>0. /\ hub \in Seq(Request) /\ wire \in Seq(Request) /\ events \in Seq(Event)
      /\ ~Asks(hub, c) /\ ~Asks(wire, c) /\ ~Tells(events, c)
  BY UnsubscribingIs DEF ChannelsTypeOK
<1>1. ASSUME ~Asks(hub', c), ~Asks(wire', c), ~Tells(events', c) PROVE Goal
  BY <1>1 DEF Unsubscribing, Asks, Tells
<1>2. ~Asks(<<>>, c) /\ ~Tells(<<>>, c)
  BY DEF Asks, Tells
<1>3. ASSUME NEW r \in Request, hub' = Append(hub, r), r.op # "unsubscribe" PROVE ~Asks(hub', c)
  BY <1>0, <1>3, AskAppend
<1>4. ASSUME Restore PROVE ~Asks(hub', c)
  <2>1. SubTopicsConf \subseteq Channels /\ Listed \subseteq Channels
    BY OkexChannelsAssumption DEF Listed
  <2>2. PICK cs \in SUBSET Channels : hub' = Append(hub, Req("subscribe", cs))
    BY <1>4, <2>1 DEF Restore
  <2> QED BY <1>3, <2>2, ReqType
<1>5. ASSUME NEW e, Read(e) PROVE ~Tells(events', c)
  BY <1>0, <1>5, TellTail DEF Read
<1>6. CASE OnActive
  BY <1>0, <1>1, <1>2, <1>6 DEF OnActive
<1>7. CASE OnConnected
  <2>1. [op |-> "login"] \in Request
    BY DEF Request
  <2>2. ~Asks(hub', c)
    BY <1>3, <1>4, <1>7, <2>1 DEF OnConnected
  <2> QED BY <1>0, <1>1, <1>7, <2>2 DEF OnConnected
<1>8. CASE OnLogin
  BY <1>0, <1>1, <1>4, <1>5, <1>8 DEF OnLogin, Read
<1>9. CASE OnSub \/ OnUnsub \/ OnInactive
  <2>1. hub' = hub /\ wire' = wire
    BY <1>9 DEF OnSub, OnUnsub, OnInactive, Read
  <2>2. ~Tells(events', c)
    BY <1>5, <1>9 DEF OnSub, OnUnsub, OnInactive
  <2> QED BY <1>0, <1>1, <2>1, <2>2
<1>10. CASE OnHubByteMessage
  <2>1. hub # <<>> /\ hub' = Tail(hub) /\ events' = events
    BY <1>10 DEF OnHubByteMessage
  <2>2. Head(hub) \in Request /\ ~(Head(hub).op = "unsubscribe" /\ c \in Head(hub).args) /\ ~Asks(hub', c)
    BY <1>0, <2>1, AskTail, HeadTailProperties
  <2>3. wire' = wire \/ wire' = Append(wire, Head(hub))
    BY <1>10 DEF OnHubByteMessage
  <2>4. ~Asks(wire', c)
    BY <1>0, <2>2, <2>3, AskAppend
  <2> QED BY <1>0, <1>1, <2>1, <2>2, <2>4
<1>11. ASSUME NEW cs \in SUBSET Channels, SubTopics(cs) PROVE Goal
  <2>1. ~Asks(hub', c)
    BY <1>3, <1>11, ReqType DEF SubTopics
  <2> QED BY <1>0, <1>1, <1>11, <2>1 DEF SubTopics
<1>12. ASSUME NEW cs \in SUBSET Channels, UnsubTopics(cs) PROVE Goal
  <2>1. c \notin cs
    BY <1>12 DEF UnsubTopics
  <2>2. hub' = Append(hub, Req("unsubscribe", cs))
    BY <1>12 DEF UnsubTopics
  <2>3. ~Asks(hub', c)
    BY <1>0, <2>1, <2>2, ReqType, AskAppend
  <2> QED BY <1>0, <1>1, <1>12, <2>3 DEF UnsubTopics
<1>13. CASE Break
  <2>1. PICK n \in 0..Len(events) : events' = Append(SubSeq(events, 1, n), [event |-> "closed"])
    BY <1>13 DEF Break
  <2>2. ~Tells(events', c)
    BY <1>0, <2>1, TellBroken
  <2>3. hub' = hub /\ wire' = <<>>
    BY <1>13 DEF Break
  <2> QED BY <1>0, <1>1, <1>2, <2>2, <2>3
<1>14. CASE ServeLogin
  <2>1. hub' = hub /\ ~Asks(wire', c)
    BY <1>0, <1>14, AskTail DEF ServeLogin
  <2>2. PICK e \in Event : e = [event |-> "login"]
    BY DEF Event
  <2>3. e.event # "unsubscribe" /\ (events' = events \/ events' = Append(events, e))
    BY <1>14, <2>2 DEF ServeLogin
  <2>4. e # [event |-> "unsubscribe", channel |-> c]
    BY <2>3
  <2>5. ~Tells(events', c)
    BY <1>0, <2>3, <2>4, TellAppend
  <2> QED BY <1>0, <1>1, <2>1, <2>5
<1>15. CASE Serve
  <2> DEFINE r == Head(wire)
  <2>1. wire # <<>> /\ r.op # "login" /\ hub' = hub
    BY <1>15 DEF Serve
  <2>2. r \in [op : {"subscribe", "unsubscribe"}, args : SUBSET Channels]
        /\ ~(r.op = "unsubscribe" /\ c \in r.args) /\ ~Asks(Tail(wire), c)
    BY <1>0, <2>1, AskTail, HeadTailProperties DEF Request
  <2>3. CASE wire' = Tail(wire) /\ events' = events
    BY <1>0, <1>1, <2>1, <2>2, <2>3
  <2>4. CASE \E d \in r.args :
               /\ wire' \in {Tail(wire), [wire EXCEPT ![1].args = @ \ {d}]}
               /\ events' \in {events, Append(events, [event |-> r.op, channel |-> d])}
    <3>1. PICK d \in r.args :
               /\ wire' \in {Tail(wire), [wire EXCEPT ![1].args = @ \ {d}]}
               /\ events' \in {events, Append(events, [event |-> r.op, channel |-> d])}
      BY <2>4
    <3>2. ~Asks(wire', c)
      <4> DEFINE t == [wire EXCEPT ![1].args = @ \ {d}]
      <4>1. Asks(t, c) => Asks(wire, c)
        BY <1>0, <2>1, AskLess
      <4>2. wire' = Tail(wire) \/ wire' = t
        BY <3>1
      <4> HIDE DEF t
      <4> QED BY <1>0, <2>2, <4>1, <4>2
    <3>3. PICK e \in Event : e = [event |-> r.op, channel |-> d]
      BY <2>2, <3>1 DEF Event
    <3>4. e # [event |-> "unsubscribe", channel |-> c]
      <4>1. e.event = r.op /\ e.channel = d
        BY <3>3
      <4>2. ASSUME e = [event |-> "unsubscribe", channel |-> c] PROVE r.op = "unsubscribe" /\ d = c
        BY <4>1, <4>2
      <4> QED BY <2>2, <3>1, <4>2
    <3>5. ~Tells(events', c)
      BY <1>0, <3>1, <3>3, <3>4, TellAppend
    <3> QED BY <1>0, <1>1, <2>1, <3>2, <3>5
  <2> QED BY <1>15, <2>3, <2>4 DEF Serve
<1>16. CASE OnDisconnected \/ UNCHANGED channelsVars
  BY <1>0, <1>1, <1>16 DEF OnDisconnected, channelsVars
<1> QED BY <1>6, <1>7, <1>8, <1>9, <1>10, <1>11, <1>12, <1>13, <1>14, <1>15, <1>16 DEF ChannelsNext

\* A channel that is asked for in a step is put in the map by it, and is crossed if
\* something to unsubscribe it is on its way.
LEMMA NewlyAsked ==
    ASSUME ChannelsTypeOK, [ChannelsNext]_channelsVars, NEW c \in Channels, asked[c] # "sub", asked'[c] = "sub"
    PROVE  channels'[c] # "none" /\ (Unsubscribing(c) => c \in crossed')
<1> USE DEF serviceVars, okexVars, histVars
<1>1. CASE Restore
  BY <1>1 DEF Restore, ChannelsTypeOK
<1>2. ASSUME NEW cs \in SUBSET Channels, SubTopics(cs)
      PROVE  channels'[c] # "none" /\ (Unsubscribing(c) => c \in crossed')
  BY <1>2 DEF SubTopics, ChannelsTypeOK
<1>3. ASSUME NEW cs \in SUBSET Channels, UnsubTopics(cs) PROVE FALSE
  BY <1>3 DEF UnsubTopics
<1>4. CASE ~Restore /\ ~\E cs \in SUBSET Channels : SubTopics(cs) \/ UnsubTopics(cs)
  BY <1>4 DEF ChannelsNext, channelsVars, OnActive, OnConnected, OnInactive, OnDisconnected, OnLogin, OnSub, OnUnsub,
              Read, OnHubByteMessage, Break, ServeLogin, Serve
<1> QED BY <1>1, <1>2, <1>3, <1>4

\* The map loses a channel only to the event of an unsubscription.
LEMMA MapKeeps ==
    ASSUME ChannelsTypeOK, [ChannelsNext]_channelsVars, NEW c \in Channels, channels[c] # "none", ~Unsubscribing(c)
    PROVE  channels'[c] # "none"
<1> USE DEF serviceVars, okexVars, histVars
<1>1. CASE OnUnsub
  <2>1. events \in Seq(Event) /\ events # <<>> /\ Head(events).event = "unsubscribe" /\ Head(events) \in Event
    BY <1>1, HeadTailProperties DEF OnUnsub, Read, ChannelsTypeOK
  <2>2. Head(events) = [event |-> "unsubscribe", channel |-> Head(events).channel]
    BY <2>1 DEF Event
  <2>3. Head(events).channel # c
    BY <2>1, <2>2, TellTail, UnsubscribingIs
  <2> QED BY <1>1, <2>3 DEF OnUnsub, ChannelsTypeOK
<1>2. CASE Restore
  BY <1>2 DEF Restore, ChannelsTypeOK
<1>3. CASE OnSub
  BY <1>3 DEF OnSub, ChannelsTypeOK
<1>4. CASE OnDisconnected
  BY <1>4 DEF OnDisconnected, ChannelsTypeOK
<1>5. ASSUME NEW cs \in SUBSET Channels, SubTopics(cs) PROVE channels'[c] # "none"
  BY <1>5 DEF SubTopics, ChannelsTypeOK
<1>6. CASE ~OnUnsub /\ ~Restore /\ ~OnSub /\ ~OnDisconnected /\ ~\E cs \in SUBSET Channels : SubTopics(cs)
  BY <1>6 DEF ChannelsNext, channelsVars, OnActive, OnConnected, OnInactive, OnLogin,
              Read, OnHubByteMessage, UnsubTopics, Break, ServeLogin, Serve
<1> QED BY <1>1, <1>2, <1>3, <1>4, <1>5, <1>6

\* No channel is uncrossed.
LEMMA CrossedGrows == ASSUME ChannelsTypeOK, [ChannelsNext]_channelsVars PROVE crossed \subseteq crossed'
BY DEF ChannelsNext, channelsVars, serviceVars, okexVars, histVars, OnActive, OnConnected, OnInactive, OnDisconnected,
       OnLogin, OnSub, OnUnsub, Read, Restore, OnHubByteMessage, SubTopics, UnsubTopics, Break,
       ServeLogin, Serve

\* Every step keeps what was asked for.
LEMMA KeptStep == ChannelsIInv /\ [ChannelsNext]_channelsVars => ChannelsIInv'
<1> SUFFICES ASSUME ChannelsIInv, [ChannelsNext]_channelsVars PROVE Kept'
  BY ChannelsTypeStep DEF ChannelsIInv
<1> USE DEF ChannelsIInv
<1>1. SUFFICES ASSUME NEW c \in Channels \ crossed', asked'[c] = "sub"
               PROVE  channels'[c] # "none" /\ ~Unsubscribing(c)'
  BY DEF Kept
<1>2. c \in Channels \ crossed
  BY <1>1, CrossedGrows
<1>3. ~Unsubscribing(c) /\ channels'[c] # "none"
  BY <1>1, <1>2, NewlyAsked, MapKeeps DEF Kept
<1> QED BY <1>1, <1>3, NoNewUnsub

\* A channel that was asked for, by the configuration or a client, stays in the map
\* that OnConnected and OnLogin restore from, however often the connection breaks
\* and whatever becomes of its request, unless it was subscribed while it was being
\* unsubscribed.
THEOREM KeptThroughBreaksCorrect == ChannelsSpec => []KeptThroughBreaks
<1>1. ChannelsInit => ChannelsIInv
  <2>1. ChannelsInit => Kept
    BY DEF ChannelsInit, Kept
  <2> QED BY <2>1, TypeInit DEF ChannelsIInv
<1>2. ChannelsIInv => KeptThroughBreaks
  BY DEF ChannelsIInv, Kept, KeptThroughBreaks
<1> QED BY <1>1, <1>2, KeptStep, PTL DEF ChannelsSpec

-----------------------------------------------------------------------------
(* OKEx: the map agrees with what is sent.                                  *)

\* The channels that are said to be subscribed, and the events that begin and end it.
Subed == {c \in Channels : channels[c] = "on"}
Begins(c) == {[event |-> "subscribe", channel |-> c]}
Ends(c) == {[event |-> "unsubscribe", channel |-> c], [event |-> "closed"]}

\* A connection has its goroutine; without one OKEx sends nothing and has nothing to
\* answer; its end is the last event of a connection, and the next begins without any.
LinkInv ==
    /\ conn => stage \in {"active", "up"}
    /\ ~conn => wire = <<>> /\ upstream = {}
    /\ \A i \in DOMAIN events : events[i].event = "closed" => i = Len(events) /\ ~conn
    /\ stage \in {"dialing", "inactive"} => events = <<>>

\* Between OnInactive and OnDisconnected the map is behind.
AgreeInv == stage # "inactive" => \A c \in Channels :
    Agrees(events, Begins(c), Ends(c), Channels, c, Subed, upstream)

SentInv == ChannelsTypeOK /\ LinkInv /\ AgreeInv

\* The event of one channel begins or ends no other's subscription.
LEMMA EventsDiffer ==
    ASSUME NEW c, NEW d
    PROVE  /\ Begins(c) \cap Ends(c) = {}
           /\ [event |-> "subscribe", channel |-> d] \notin Ends(c)
           /\ [event |-> "unsubscribe", channel |-> d] \notin Begins(c)
           /\ [event |-> "subscribe", channel |-> d] \in Begins(c) <=> c = d
           /\ [event |-> "unsubscribe", channel |-> d] \in Ends(c) <=> c = d
           /\ [event |-> "closed"] \in Ends(c) /\ [event |-> "closed"] \notin Begins(c)
           /\ [event |-> "login"] \notin Begins(c) \cup Ends(c)
<1> DEFINE s(x) == [event |-> "subscribe", channel |-> x]
           u(x) == [event |-> "unsubscribe", channel |-> x]
           e == [event |-> "closed"]
           l == [event |-> "login"]
<1>1. \A x : /\ s(x).event = "subscribe" /\ s(x).channel = x
             /\ u(x).event = "unsubscribe" /\ u(x).channel = x
  OBVIOUS
<1>2. e.event = "closed" /\ l.event = "login"
  OBVIOUS
<1>3. \A x, y : s(x) # u(y) /\ s(x) # e /\ u(x) # e /\ l # s(x) /\ l # u(x) /\ l # e
  BY <1>1, <1>2
<1>4. (s(d) = s(c) <=> c = d) /\ (u(d) = u(c) <=> c = d)
  BY <1>1
<1> HIDE DEF s, u, e, l
<1>5. Begins(c) = {s(c)} /\ Ends(c) = {u(c), e}
  BY DEF Begins, Ends, s, u, e
<1>6. Begins(c) \cap Ends(c) = {} /\ s(d) \notin Ends(c) /\ u(d) \notin Begins(c)
      /\ (s(d) \in Begins(c) <=> c = d) /\ (u(d) \in Ends(c) <=> c = d)
      /\ e \in Ends(c) /\ e \notin Begins(c) /\ l \notin Begins(c) \cup Ends(c)
  BY <1>3, <1>4, <1>5
<1> QED BY <1>6 DEF s, u, e, l

\* What the first event is.
LEMMA FirstEvent ==
    ASSUME ChannelsTypeOK, events # <<>>
    PROVE  /\ events \in Seq(Event) /\ Head(events) \in Event /\ 1 \in DOMAIN events /\ Head(events) = events[1]
           /\ \/ Head(events) = [event |-> "subscribe", channel |-> Head(events).channel]
                 /\ Head(events).event = "subscribe" /\ Head(events).channel \in Channels
              \/ Head(events) = [event |-> "unsubscribe", channel |-> Head(events).channel]
                 /\ Head(events).event = "unsubscribe" /\ Head(events).channel \in Channels
              \/ Head(events) = [event |-> "login"] /\ Head(events).event = "login"
              \/ Head(events) = [event |-> "closed"] /\ Head(events).event = "closed"
<1>1. events \in Seq(Event) /\ Head(events) \in Event /\ 1 \in DOMAIN events /\ Head(events) = events[1]
  BY HeadTailProperties DEF ChannelsTypeOK
<1>2. \A e \in Event :
         \/ e = [event |-> "subscribe", channel |-> e.channel] /\ e.event = "subscribe" /\ e.channel \in Channels
         \/ e = [event |-> "unsubscribe", channel |-> e.channel] /\ e.event = "unsubscribe" /\ e.channel \in Channels
         \/ e = [event |-> "login"] /\ e.event = "login"
         \/ e = [event |-> "closed"] /\ e.event = "closed"
  BY DEF Event
<1> QED BY <1>1, <1>2

\* Only the events and the end of a connection change what is said to be subscribed.
LEMMA SubedSame ==
    ASSUME ChannelsTypeOK, [ChannelsNext]_channelsVars, ~OnSub, ~OnUnsub, ~OnDisconnected PROVE Subed' = Subed
<1> USE DEF serviceVars, okexVars, histVars
<1>1. CASE Restore
  <2>1. \A c \in Channels : channels'[c] = "on" <=> channels[c] = "on"
    BY <1>1 DEF Restore, Listed, ChannelsTypeOK
  <2> QED BY <2>1 DEF Subed
<1>2. ASSUME NEW cs \in SUBSET Channels, SubTopics(cs) PROVE Subed' = Subed
  <2>1. \A c \in Channels : channels'[c] = "on" <=> channels[c] = "on"
    BY <1>2 DEF SubTopics, ChannelsTypeOK
  <2> QED BY <2>1 DEF Subed
<1>3. CASE ~Restore /\ ~\E cs \in SUBSET Channels : SubTopics(cs)
  <2>1. channels' = channels
    BY <1>3 DEF ChannelsNext, channelsVars, OnActive, OnConnected, OnInactive, OnLogin, Read, OnHubByteMessage,
                UnsubTopics, Break, ServeLogin, Serve
  <2> QED BY <2>1 DEF Subed
<1> QED BY <1>1, <1>2, <1>3

\* What is read of a connection leaves its end the last.
LEMMA ReadLink ==
    ASSUME ChannelsTypeOK, LinkInv, NEW e, Read(e)
    PROVE  /\ stage \in {"active", "up"} /\ wire' = wire /\ upstream' = upstream /\ conn' = conn
           /\ \A i \in DOMAIN events' : events'[i].event = "closed" => i = Len(events') /\ ~conn'
           /\ e = "closed" => events' = <<>> /\ ~conn
<1>1. /\ stage \in {"active", "up"} /\ events # <<>> /\ events' = Tail(events) /\ Head(events).event = e
      /\ wire' = wire /\ upstream' = upstream /\ conn' = conn
  BY DEF Read, okexVars
<1>2. events \in Seq(Event)
  BY DEF ChannelsTypeOK
<1>3. /\ \A i \in DOMAIN Tail(events) : i + 1 \in DOMAIN events /\ Tail(events)[i] = events[i + 1] /\ i \in Nat
      /\ 1 \in DOMAIN events /\ Head(events) = events[1]
      /\ Len(Tail(events)) = Len(events) - 1 /\ Len(events) \in Nat
      /\ Tail(events) \in Seq(Event)
  BY <1>1, <1>2, HeadTailProperties
<1>4. \A i \in DOMAIN Tail(events) : Tail(events)[i].event = "closed" => i + 1 = Len(events) /\ ~conn
  BY <1>3 DEF LinkInv
<1>5. \A i \in DOMAIN Tail(events) : Tail(events)[i].event = "closed" => i = Len(Tail(events)) /\ ~conn
  BY <1>3, <1>4
<1>6. ASSUME e = "closed" PROVE Tail(events) = <<>> /\ ~conn
  <2>1. 1 = Len(events) /\ ~conn
    BY <1>1, <1>3, <1>6 DEF LinkInv
  <2>2. Len(Tail(events)) = 0
    BY <1>3, <2>1
  <2> QED BY <1>3, <2>1, <2>2, EmptySeq
<1> QED BY <1>1, <1>5, <1>6

\* No event follows the end of a connection.
LEMMA AppendLink ==
    ASSUME ChannelsTypeOK, LinkInv, conn, NEW e \in Event, e.event # "closed"
    PROVE  \A i \in DOMAIN Append(events, e) : Append(events, e)[i].event # "closed"
<1>1. events \in Seq(Event) /\ \A i \in DOMAIN events : events[i].event # "closed"
  BY DEF ChannelsTypeOK, LinkInv
<1> QED BY <1>1, AppendProperties

\* What Serve does with one request, when there is one.
LEMMA ServeIs ==
    ASSUME ChannelsTypeOK, LinkInv, Serve
    PROVE  /\ conn /\ conn' = conn /\ UNCHANGED <<channels, stage>>
           /\ \/ events' = events /\ upstream' = upstream
              \/ \E c \in Channels :
                    /\ events' = Append(events, [event |-> "subscribe", channel |-> c])
                    /\ upstream' = upstream \cup {c}
              \/ \E c \in Channels :
                    /\ events' = Append(events, [event |-> "unsubscribe", channel |-> c])
                    /\ upstream' = upstream \ {c}
<1>1. wire # <<>> /\ conn' = conn /\ UNCHANGED <<channels, stage>>
  BY DEF Serve, serviceVars
<1>2. conn
  BY <1>1 DEF LinkInv, ChannelsTypeOK
<1>3. Head(wire) \in Request /\ Head(wire).op # "login"
  BY <1>1, HeadTailProperties DEF Serve, ChannelsTypeOK
<1>4. Head(wire).op \in {"subscribe", "unsubscribe"} /\ Head(wire).args \subseteq Channels
  BY <1>3 DEF Request
<1>5. \/ events' = events /\ upstream' = upstream
      \/ \E c \in Head(wire).args :
            /\ events' = Append(events, [event |-> Head(wire).op, channel |-> c])
            /\ upstream' = IF Head(wire).op = "subscribe" THEN upstream \cup {c} ELSE upstream \ {c}
  BY DEF Serve
<1>6. CASE Head(wire).op = "subscribe"
  BY <1>1, <1>2, <1>4, <1>5, <1>6
<1>7. CASE Head(wire).op = "unsubscribe"
  BY <1>1, <1>2, <1>4, <1>5, <1>7
<1> QED BY <1>4, <1>6, <1>7

\* The end of a connection is told after some of what was sent on it.
LEMMA BreakIs ==
    ASSUME ChannelsTypeOK, Break
    PROVE  \E b \in Seq(Event) :
              /\ events' = Append(b, [event |-> "closed"])
              /\ \A i \in DOMAIN b : \E j \in DOMAIN events : b[i] = events[j]
<1>1. PICK n \in 0..Len(events) : events' = Append(SubSeq(events, 1, n), [event |-> "closed"])
  BY DEF Break
<1>2. PICK b : b = SubSeq(events, 1, n)
  OBVIOUS
<1>3. \A i \in 1..n : events[i] \in Event /\ i \in DOMAIN events
  BY DEF ChannelsTypeOK
<1>4. b \in Seq(Event) /\ Len(b) = n /\ \A i \in 1..n : b[i] = events[i]
  BY <1>2, <1>3, SubSeqProperties DEF ChannelsTypeOK
<1> QED BY <1>1, <1>2, <1>3, <1>4

\* Every step keeps LinkInv.
LEMMA LinkStep == ChannelsTypeOK /\ LinkInv /\ [ChannelsNext]_channelsVars => LinkInv'
<1> SUFFICES ASSUME ChannelsTypeOK, LinkInv, [ChannelsNext]_channelsVars PROVE LinkInv'
  OBVIOUS
<1> USE DEF serviceVars, okexVars, histVars
<1>1. CASE OnActive
  <2>1. /\ conn' /\ stage' = "active" /\ events' = <<>>
    BY <1>1 DEF OnActive
  <2> QED BY <2>1 DEF LinkInv
<1>2. CASE OnConnected \/ OnHubByteMessage
  <2>1. /\ UNCHANGED <<conn, events, upstream>> /\ stage' \in {stage, "up"} /\ (conn => stage' \in {"active", "up"})
        /\ stage' \in {"dialing", "inactive"} => stage \in {"dialing", "inactive"}
    BY <1>2 DEF OnConnected, OnHubByteMessage, LinkInv
  <2>2. ~conn' => wire' = <<>>
    BY <1>2 DEF OnConnected, OnHubByteMessage, LinkInv
  <2> QED BY <2>1, <2>2 DEF LinkInv
<1>3. CASE OnLogin \/ OnSub \/ OnUnsub
  <2>1. PICK e : Read(e) /\ stage' = stage
    BY <1>3 DEF OnLogin, OnSub, OnUnsub
  <2>2. /\ stage \in {"active", "up"} /\ wire' = wire /\ upstream' = upstream /\ conn' = conn
        /\ \A i \in DOMAIN events' : events'[i].event = "closed" => i = Len(events') /\ ~conn'
    BY <2>1, ReadLink
  <2> QED BY <2>1, <2>2 DEF LinkInv
<1>4. CASE OnInactive
  <2>1. Read("closed") /\ stage' = "inactive"
    BY <1>4 DEF OnInactive
  <2>2. /\ wire' = wire /\ upstream' = upstream /\ conn' = conn
        /\ events' = <<>> /\ ~conn
    BY <2>1, ReadLink
  <2> QED BY <2>1, <2>2 DEF LinkInv
<1>5. CASE OnDisconnected
  BY <1>5 DEF OnDisconnected, LinkInv
<1>6. ASSUME NEW cs \in SUBSET Channels, SubTopics(cs) \/ UnsubTopics(cs) PROVE LinkInv'
  BY <1>6 DEF SubTopics, UnsubTopics, LinkInv
<1>7. CASE Break
  <2>1. PICK b \in Seq(Event) : /\ events' = Append(b, [event |-> "closed"])
                                /\ \A i \in DOMAIN b : \E j \in DOMAIN events : b[i] = events[j]
    BY <1>7, BreakIs
  <2>2. /\ conn /\ ~conn' /\ wire' = <<>> /\ upstream' = {} /\ stage' = stage
    BY <1>7 DEF Break, ChannelsTypeOK
  <2>3. stage' \in {"active", "up"} /\ \A i \in DOMAIN b : b[i].event # "closed"
    BY <2>1, <2>2 DEF LinkInv
  <2>4. [event |-> "closed"] \in Event
    BY DEF Event
  <2>5. \A i \in DOMAIN events' : events'[i].event = "closed" => i = Len(events')
    BY <2>1, <2>3, <2>4, AppendProperties
  <2> QED BY <2>2, <2>3, <2>5 DEF LinkInv
<1>8. CASE ServeLogin
  <2>1. wire # <<>> /\ UNCHANGED <<conn, upstream, stage>>
    BY <1>8 DEF ServeLogin
  <2>2. conn
    BY <2>1 DEF LinkInv, ChannelsTypeOK
  <2>3. PICK e \in Event : e = [event |-> "login"]
    BY DEF Event
  <2>4. e.event # "closed" /\ (events' = events \/ events' = Append(events, e))
    BY <1>8, <2>3 DEF ServeLogin
  <2>5. \A i \in DOMAIN events' : events'[i].event # "closed"
    BY <2>2, <2>4, AppendLink DEF LinkInv
  <2> QED BY <2>1, <2>2, <2>5 DEF LinkInv
<1>9. CASE Serve
  <2>1. conn /\ conn' = conn /\ UNCHANGED <<channels, stage>>
    BY <1>9, ServeIs
  <2>2. events' = events \/ \E e \in Event : e.event # "closed" /\ events' = Append(events, e)
    <3>1. \A c \in Channels :
            /\ [event |-> "subscribe", channel |-> c] \in Event /\ [event |-> "unsubscribe", channel |-> c] \in Event
            /\ [event |-> "subscribe", channel |-> c].event # "closed"
            /\ [event |-> "unsubscribe", channel |-> c].event # "closed"
      BY DEF Event
    <3> QED BY <1>9, <3>1, ServeIs
  <2>3. \A i \in DOMAIN events' : events'[i].event # "closed"
    BY <2>1, <2>2, AppendLink DEF LinkInv
  <2> QED BY <2>1, <2>3 DEF LinkInv
<1>10. CASE UNCHANGED channelsVars
  BY <1>10 DEF channelsVars, LinkInv
<1> QED BY <1>1, <1>2, <1>3, <1>4, <1>5, <1>6, <1>7, <1>8, <1>9, <1>10 DEF ChannelsNext

\* Every step keeps what the events say.
LEMMA AgreeStep == SentInv /\ [ChannelsNext]_channelsVars => AgreeInv'
<1> SUFFICES ASSUME SentInv, [ChannelsNext]_channelsVars PROVE AgreeInv'
  OBVIOUS
<1> USE DEF SentInv, serviceVars, okexVars, histVars
<1> DEFINE Ok(c) == Agrees(events, Begins(c), Ends(c), Channels, c, Subed, upstream)
           Goal == \A c \in Channels : Ok(c)'
<1>a. events \in Seq(Event) /\ \A c : Begins(c) \cap Ends(c) = {}
  BY EventsDiffer DEF ChannelsTypeOK
<1>b. stage # "inactive" => \A c \in Channels : Ok(c)
  BY DEF AgreeInv
<1>0. SUFFICES ASSUME stage' # "inactive" PROVE Goal
  BY DEF AgreeInv
<1>1. CASE OnActive
  <2>1. stage = "dialing" /\ events' = <<>> /\ upstream' = upstream /\ events = <<>>
    BY <1>1 DEF OnActive, LinkInv
  <2>2. Subed' = Subed
    BY <1>1, SubedSame DEF OnActive, OnSub, OnUnsub, OnDisconnected, Read
  <2> QED BY <1>b, <2>1, <2>2
<1>2. ASSUME UNCHANGED <<events, upstream>>, stage # "inactive", ~OnSub, ~OnUnsub, ~OnDisconnected PROVE Goal
  <2>1. Subed' = Subed
    BY <1>2, SubedSame
  <2> QED BY <1>b, <1>2, <2>1
<1>3. CASE OnConnected \/ OnHubByteMessage \/ UNCHANGED channelsVars \/ \E cs \in SUBSET Channels : SubTopics(cs) \/ UnsubTopics(cs)
  <2>1. UNCHANGED <<events, upstream>> /\ (stage = "inactive" => stage' = "inactive")
    BY <1>3 DEF OnConnected, OnHubByteMessage, SubTopics, UnsubTopics, channelsVars
  <2>2. ~OnSub /\ ~OnUnsub
    <3>1. ASSUME OnSub \/ OnUnsub PROVE events # <<>> /\ events' = Tail(events)
      BY <3>1 DEF OnSub, OnUnsub, Read
    <3>2. ASSUME events # <<>> PROVE Tail(events) # events
      <4>1. Len(Tail(events)) = Len(events) - 1 /\ Len(events) \in Nat
        BY <1>a, <3>2, HeadTailProperties
      <4>2. Len(Tail(events)) # Len(events)
        BY <4>1
      <4> QED BY <4>2
    <3> QED BY <2>1, <3>1, <3>2
  <2>3. ~OnDisconnected
    <3>1. OnDisconnected => stage = "inactive" /\ stage' = "dialing"
      BY DEF OnDisconnected
    <3> QED BY <2>1, <3>1
  <2> QED BY <1>0, <1>2, <2>1, <2>2, <2>3
<1>4. CASE OnLogin
  <2>1. stage # "inactive" /\ events # <<>> /\ events' = Tail(events) /\ upstream' = upstream
        /\ Head(events).event = "login"
    BY <1>4 DEF OnLogin, Read
  <2>2. Head(events) = [event |-> "login"]
    BY <2>1, FirstEvent
  <2>3. ~OnSub /\ ~OnUnsub /\ ~OnDisconnected
    BY <2>1 DEF OnSub, OnUnsub, OnDisconnected, Read
  <2>4. Subed' = Subed
    BY <2>3, SubedSame
  <2>5. ASSUME NEW c \in Channels PROVE Ok(c)'
    <3>0. [event |-> "login"] \notin Begins(c) \cup Ends(c)
      BY EventsDiffer
    <3>1. Head(events) \notin Begins(c) \cup Ends(c)
      BY <2>2, <3>0, Zenon
    <3>2. Agrees(Tail(events), Begins(c), Ends(c), Channels, c, Subed, upstream)
      BY <1>a, <1>b, <2>1, <3>1, AgreesTail, Zenon
    <3> QED BY <2>1, <2>4, <3>2
  <2> QED BY <2>5
<1>5. CASE OnSub
  <2>1. stage # "inactive" /\ events # <<>> /\ events' = Tail(events) /\ upstream' = upstream
        /\ Head(events).event = "subscribe" /\ channels' = [channels EXCEPT ![Head(events).channel] = "on"]
    BY <1>5 DEF OnSub, Read
  <2>2. PICK d \in Channels : Head(events) = [event |-> "subscribe", channel |-> d] /\ Head(events).channel = d
    BY <2>1, FirstEvent
  <2>3. Subed' = Subed \cup {d}
    BY <2>1, <2>2 DEF Subed, ChannelsTypeOK
  <2>4. ASSUME NEW c \in Channels PROVE Ok(c)'
    <3>0. /\ [event |-> "subscribe", channel |-> d] \notin Ends(c)
          /\ [event |-> "subscribe", channel |-> d] \in Begins(c) <=> c = d
      BY EventsDiffer
    <3>1. Head(events) \notin Ends(c) /\ (Head(events) \in Begins(c) <=> c = d)
      BY <2>2, <3>0, Zenon
    <3>2. \/ Head(events) \in Begins(c) /\ c \in Subed'
          \/ Head(events) \in Ends(c) /\ c \notin Subed'
          \/ Head(events) \notin Begins(c) \cup Ends(c) /\ (c \in Subed' <=> c \in Subed)
      BY <2>3, <3>1
    <3>3. Agrees(Tail(events), Begins(c), Ends(c), Channels, c, Subed', upstream)
      BY <1>a, <1>b, <2>1, <3>2, AgreesTail, Zenon
    <3> QED BY <2>1, <3>3
  <2> QED BY <2>4
<1>6. CASE OnUnsub
  <2>1. stage # "inactive" /\ events # <<>> /\ events' = Tail(events) /\ upstream' = upstream
        /\ Head(events).event = "unsubscribe" /\ channels' = [channels EXCEPT ![Head(events).channel] = "none"]
    BY <1>6 DEF OnUnsub, Read
  <2>2. PICK d \in Channels : Head(events) = [event |-> "unsubscribe", channel |-> d] /\ Head(events).channel = d
    BY <2>1, FirstEvent
  <2>3. Subed' = Subed \ {d}
    BY <2>1, <2>2 DEF Subed, ChannelsTypeOK
  <2>4. ASSUME NEW c \in Channels PROVE Ok(c)'
    <3>0. /\ [event |-> "unsubscribe", channel |-> d] \notin Begins(c)
          /\ [event |-> "unsubscribe", channel |-> d] \in Ends(c) <=> c = d
      BY EventsDiffer
    <3>1. Head(events) \notin Begins(c) /\ (Head(events) \in Ends(c) <=> c = d)
      BY <2>2, <3>0, Zenon
    <3>2. \/ Head(events) \in Begins(c) /\ c \in Subed'
          \/ Head(events) \in Ends(c) /\ c \notin Subed'
          \/ Head(events) \notin Begins(c) \cup Ends(c) /\ (c \in Subed' <=> c \in Subed)
      BY <2>3, <3>1
    <3>3. Agrees(Tail(events), Begins(c), Ends(c), Channels, c, Subed', upstream)
      BY <1>a, <1>b, <2>1, <3>2, AgreesTail, Zenon
    <3> QED BY <2>1, <3>3
  <2> QED BY <2>4
<1>7. CASE OnInactive
  BY <1>0, <1>7 DEF OnInactive
<1>8. CASE OnDisconnected
  <2>1. stage = "inactive" /\ events' = events /\ upstream' = upstream
        /\ channels' = [c \in Channels |-> IF channels[c] = "on" THEN "off" ELSE channels[c]]
    BY <1>8 DEF OnDisconnected
  <2>2. events' = <<>> /\ upstream' = {}
    BY <2>1 DEF LinkInv, ChannelsTypeOK
  <2>3. Subed' = {}
    BY <2>1 DEF Subed
  <2> QED BY <2>2, <2>3, AgreesEmpty
<1>9. CASE Break
  <2>1. PICK b \in Seq(Event) : events' = Append(b, [event |-> "closed"])
    BY <1>9, BreakIs
  <2>2. upstream' = {}
    BY <1>9 DEF Break
  <2>3. PICK e \in Event : e = [event |-> "closed"]
    BY DEF Event
  <2>4. ASSUME NEW c \in Channels PROVE Ok(c)'
    <3>1. e \in Ends(c)
      BY <2>3, EventsDiffer
    <3>2. c \notin upstream'
      BY <2>2
    <3> QED BY <1>a, <2>1, <2>3, <3>1, <3>2, AgreesAppend
  <2> QED BY <2>4
<1>10. CASE ServeLogin
  <2>1. wire # <<>> /\ UNCHANGED <<channels, upstream, stage>>
    BY <1>10 DEF ServeLogin
  <2>2. stage # "inactive" /\ Subed' = Subed
    BY <2>1 DEF Subed, LinkInv, ChannelsTypeOK
  <2>3. PICK e \in Event : e = [event |-> "login"]
    BY DEF Event
  <2>4. events' = events \/ events' = Append(events, e)
    BY <1>10, <2>3 DEF ServeLogin
  <2>5. ASSUME NEW c \in Channels PROVE Ok(c)'
    <3>1. e \notin Begins(c) \cup Ends(c)
      BY <2>3, EventsDiffer
    <3>2. CASE events' = Append(events, e)
      BY <1>a, <1>b, <2>1, <2>2, <3>1, <3>2, AgreesAppend
    <3>3. CASE events' = events
      BY <1>b, <2>1, <2>2, <3>3
    <3> QED BY <2>4, <3>2, <3>3
  <2> QED BY <2>5
<1>11. CASE Serve
  <2>1. conn /\ UNCHANGED <<channels, stage>>
    BY <1>11, ServeIs
  <2>2. stage # "inactive" /\ Subed' = Subed
    BY <2>1 DEF Subed, LinkInv
  <2>3. CASE events' = events /\ upstream' = upstream
    BY <1>b, <2>2, <2>3
  <2>4. ASSUME NEW d \in Channels, events' = Append(events, [event |-> "subscribe", channel |-> d]),
               upstream' = upstream \cup {d}
        PROVE  Goal
    <3>1. PICK e \in Event : e = [event |-> "subscribe", channel |-> d]
      BY DEF Event
    <3>2. ASSUME NEW c \in Channels PROVE Ok(c)'
      <4>1. e \notin Ends(c) /\ (e \in Begins(c) <=> c = d)
        BY <3>1, EventsDiffer
      <4> QED BY <1>a, <1>b, <2>2, <2>4, <3>1, <4>1, AgreesAppend
    <3> QED BY <3>2
  <2>5. ASSUME NEW d \in Channels, events' = Append(events, [event |-> "unsubscribe", channel |-> d]),
               upstream' = upstream \ {d}
        PROVE  Goal
    <3>1. PICK e \in Event : e = [event |-> "unsubscribe", channel |-> d]
      BY DEF Event
    <3>2. ASSUME NEW c \in Channels PROVE Ok(c)'
      <4>1. e \notin Begins(c) /\ (e \in Ends(c) <=> c = d)
        BY <3>1, EventsDiffer
      <4> QED BY <1>a, <1>b, <2>2, <2>5, <3>1, <4>1, AgreesAppend
    <3> QED BY <3>2
  <2> QED BY <1>11, <2>3, <2>4, <2>5, ServeIs
<1> QED BY <1>1, <1>3, <1>4, <1>5, <1>6, <1>7, <1>8, <1>9, <1>10, <1>11 DEF ChannelsNext

\* The map and OKEx agree up to the events that are due: what GetSubTopics reports as
\* subscribed is sent by OKEx, or the event that takes it back is due, and OKEx sends
\* nothing that is not subscribed, unless its event is.
THEOREM ChannelsInvCorrect == ChannelsSpec => []Inv
<1>1. ChannelsInit => SentInv
  <2> SUFFICES ASSUME ChannelsInit PROVE SentInv
    OBVIOUS
  <2>1. LinkInv
    BY DEF ChannelsInit, LinkInv
  <2>2. events = <<>> /\ upstream = {} /\ Subed = {}
    BY DEF ChannelsInit, Subed
  <2>3. AgreeInv
    BY <2>2, AgreesEmpty DEF AgreeInv
  <2> QED BY <2>1, <2>3, TypeInit DEF SentInv
<1>2. SentInv /\ [ChannelsNext]_channelsVars => SentInv'
  BY ChannelsTypeStep, LinkStep, AgreeStep DEF SentInv
<1>3. SentInv => Inv
  <2> SUFFICES ASSUME SentInv PROVE SubedIsTrue /\ UpstreamIsKnown
    BY DEF SentInv, Inv
  <2>1. CASE stage = "inactive"
    <3>1. upstream = {} /\ Ended
      BY <2>1 DEF SentInv, LinkInv, ChannelsTypeOK, Ended
    <3> QED BY <3>1 DEF SubedIsTrue, UpstreamIsKnown
  <2>2. CASE stage # "inactive"
    <3>1. ASSUME NEW c \in Channels
          PROVE  /\ channels[c] = "on" => c \in upstream \/ Ended \/ Due("unsubscribe", c)
                 /\ c \in upstream => channels[c] = "on" \/ Due("subscribe", c)
      <4>1. Agrees(events, Begins(c), Ends(c), Channels, c, Subed, upstream)
        BY <2>2 DEF SentInv, AgreeInv
      <4>2. ASSUME channels[c] = "on", c \notin upstream PROVE Ended \/ Due("unsubscribe", c)
        <5>1. c \in Subed
          BY <4>2 DEF Subed
        <5>2. PICK i \in DOMAIN events : events[i] \in Ends(c)
          BY <4>1, <4>2, <5>1 DEF Agrees, Stands
        <5>3. events[i] = [event |-> "unsubscribe", channel |-> c] \/ events[i].event = "closed"
          BY <5>2 DEF Ends
        <5> QED BY <5>3 DEF Ended, Due
      <4>3. ASSUME c \in upstream, channels[c] # "on" PROVE Due("subscribe", c)
        <5>1. c \in Channels \ Subed /\ c \notin Channels \ upstream
          BY <4>3 DEF Subed
        <5>2. PICK i \in DOMAIN events : events[i] \in Begins(c)
          BY <4>1, <5>1 DEF Agrees, Stands
        <5> QED BY <5>2 DEF Begins, Due
      <4> QED BY <4>2, <4>3
    <3>2. upstream \subseteq Channels
      BY OkexChannelsAssumption DEF SentInv, ChannelsTypeOK
    <3> QED BY <3>1, <3>2 DEF SubedIsTrue, UpstreamIsKnown
  <2> QED BY <2>1, <2>2
<1> QED BY <1>1, <1>2, <1>3, PTL DEF ChannelsSpec
=============================================================================
