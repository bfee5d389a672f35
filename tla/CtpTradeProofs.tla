---------------------------- MODULE CtpTradeProofs ----------------------------
(***************************************************************************)
(* Theorems about CtpTrade, for every set of orders and of exchange ids    *)
(* and for every bound. The invariant Inv is inductive: what the tunnel    *)
(* carries and the map holds is of the order the exchange has under the    *)
(* id, and a request has one record, until it is confirmed. Without it     *)
(* neither that an order is confirmed once nor whose ids a status carries  *)
(* could be told from one step to the next.                                *)
(***************************************************************************)
EXTENDS CtpTrade, TLAPS

-----------------------------------------------------------------------------
(* What the operators of the model return.                                  *)

\* A message keeps the type of what it carries.
LEMMA MsgType ==
    ASSUME NEW m \in StatusMsg \cup DealMsg
    PROVE  /\ m.type \in {"status", "deal"} /\ m.sys \in SysIds \cup {NoSys}
           /\ m.type = "deal" => m.sys \in SysIds
           /\ m.type = "status" => /\ m.order \in Orders \cup {NoOrder}
                                   /\ m.session \in Sessions
                                   /\ m.status \in Status /\ m.submit \in Submit
BY DEF StatusMsg, DealMsg

\* Entries of the map, and no entry, are told apart.
LEMMA EntryType ==
    /\ Absent.order = NoOrder /\ Absent.ts = 0 /\ Absent \notin MapEntry
    /\ \A e \in MapEntry : e.order \in Orders /\ e.ts \in Nat /\ e.order # NoOrder
BY CtpTradeAssumption DEF Absent, MapEntry

\* The map after one message has the type of the map before.
LEMMA MapsAfterType ==
    ASSUME TypeOK, NEW m \in StatusMsg \cup DealMsg
    PROVE  MapsAfter(m) \in [SysIds -> MapEntry \cup {Absent}]
<1>1. maps \in [SysIds -> MapEntry \cup {Absent}] /\ now \in Nat
  BY DEF TypeOK
<1>2. StampOrderInfoMap(m) \in [SysIds -> MapEntry \cup {Absent}]
  <2>1. CASE m.sys # NoSys /\ maps[m.sys] # Absent /\ Completes(m.status, m.submit)
    <3>1. m.sys \in SysIds /\ maps[m.sys] \in MapEntry
      BY <1>1, <2>1, MsgType
    <3>2. [maps[m.sys] EXCEPT !.ts = now] \in MapEntry
      BY <1>1, <3>1 DEF MapEntry
    <3> QED BY <1>1, <2>1, <3>1, <3>2 DEF StampOrderInfoMap
  <2>2. CASE ~(m.sys # NoSys /\ maps[m.sys] # Absent /\ Completes(m.status, m.submit))
    BY <1>1, <2>2 DEF StampOrderInfoMap
  <2> QED BY <2>1, <2>2
<1>3. ASSUME m.type = "status", Recorded(m)
      PROVE  CacheOrderInfoMap(m) \in [SysIds -> MapEntry \cup {Absent}]
  <2>1. m.order \in Orders
    BY <1>3 DEF Recorded, TypeOK
  <2>2. [order |-> m.order, ts |-> 0] \in MapEntry
    BY <2>1 DEF MapEntry
  <2> QED BY <1>1, <2>2 DEF CacheOrderInfoMap
<1> QED BY <1>1, <1>2, <1>3, MsgType DEF MapsAfter

\* Cleaning takes entries away and changes none.
LEMMA ClearType ==
    ASSUME NEW f \in [SysIds -> MapEntry \cup {Absent}]
    PROVE  /\ ClearOrderInfoMap(f) \in [SysIds -> MapEntry \cup {Absent}]
           /\ \A x \in SysIds : ClearOrderInfoMap(f)[x] \in {f[x], Absent}
           /\ \A x \in SysIds : f[x].ts = 0 => ClearOrderInfoMap(f)[x] = f[x]
BY DEF ClearOrderInfoMap

\* The submit status that clients are told is one of theirs.
LEMMA SubmitType ==
    \A b : ConvertOrderSubmitStatus(b) \in {"Unknown", "Submitted", "Accepted", "Rejected"}
BY DEF ConvertOrderSubmitStatus

-----------------------------------------------------------------------------
(* Types.                                                                   *)

\* A notification is written to the tunnel or lost; the batch stays within it.
LEMMA NotifyType ==
    ASSUME TypeOK, NEW m \in StatusMsg \cup DealMsg, Notify(m)
    PROVE  /\ tunnel' \in Seq(StatusMsg \cup DealMsg) /\ notified' \in 0..MaxNotify
           /\ batch \in 0..Len(tunnel')
<1>1. tunnel \in Seq(StatusMsg \cup DealMsg) /\ notified \in 0..MaxNotify /\ batch \in 0..Len(tunnel)
  BY DEF TypeOK
<1>2. tunnel' \in {tunnel, Append(tunnel, m)}
  BY DEF Notify
<1>3. Append(tunnel, m) \in Seq(StatusMsg \cup DealMsg) /\ Len(Append(tunnel, m)) = Len(tunnel) + 1
  BY <1>1
<1>4. notified' \in 0..MaxNotify
  BY <1>1, CtpTradeAssumption DEF Notify
<1> QED BY <1>1, <1>2, <1>3, <1>4

\* What OnRtnOrder and OnRtnTrade make of an order is a message.
LEMMA StatusIsMsg ==
    ASSUME NEW o \in Orders \cup {NoOrder}, NEW t \in Sessions, NEW x \in SysIds \cup {NoSys},
           NEW s \in Status, NEW b \in Submit
    PROVE  [type |-> "status", order |-> o, session |-> t, sys |-> x, status |-> s, submit |-> b]
              \in StatusMsg
BY DEF StatusMsg

\* Each step keeps the types, the whole of MessageLoop, callbacks and AsyncLoop.
LEMMA TypeStep == TypeOK /\ [Next]_vars => TypeOK'
<1> SUFFICES ASSUME TypeOK, [Next]_vars PROVE TypeOK'
  OBVIOUS
<1> USE CtpTradeAssumption
<1>1. 0 \in Sessions /\ MaxSession \in Nat
  BY DEF Sessions
<1>2. ASSUME NEW o \in Orders, MessageLoop(o) PROVE TypeOK'
  <2>1. CASE CheckReady(o) \/ ConvertFailed(o)
    BY <2>1 DEF TypeOK, CheckReady, ConvertFailed, sessionVars, loopVars, ctpVars, sayVars
  <2>2. CASE RecordOrder(o)
    BY <2>2 DEF TypeOK, RecordOrder, sessionVars, loopVars, ctpVars, sayVars
  <2>3. CASE ReqOrderInsert(o)
    BY <2>3 DEF TypeOK, ReqOrderInsert, sessionVars, loopVars, sayVars
  <2>4. CASE ReqOrderInsertFailed(o)
    BY <2>4 DEF TypeOK, ReqOrderInsertFailed, sessionVars, loopVars, ctpVars, sayVars
  <2> QED BY <1>2, <2>1, <2>2, <2>3, <2>4 DEF MessageLoop
<1>3. CASE LinkLost \/ OnFrontDisconnected
  BY <1>1, <1>3 DEF TypeOK, LinkLost, OnFrontDisconnected,
                    clientVars, sessionVars, loopVars, ctpVars, sayVars
<1>4. CASE OnRspUserLogin
  BY <1>1, <1>4 DEF TypeOK, OnRspUserLogin, Sessions,
                    clientVars, sessionVars, loopVars, ctpVars, sayVars
<1>5. ASSUME NEW o \in Orders, OnRspOrderInsert(o) PROVE TypeOK'
  BY <1>5 DEF TypeOK, OnRspOrderInsert, sessionVars, loopVars
<1>6. ASSUME NEW o \in Orders, NEW s \in Status, NEW b \in Submit, RtnOrderNoSys(o, s, b)
      PROVE  TypeOK'
  <2>1. sent[o] \in Sessions
    BY DEF TypeOK
  <2>2. tunnel' \in Seq(StatusMsg \cup DealMsg) /\ notified' \in 0..MaxNotify /\ batch \in 0..Len(tunnel')
    BY <1>6, <2>1, StatusIsMsg, NotifyType DEF RtnOrderNoSys
  <2> QED BY <1>6, <2>2 DEF TypeOK, RtnOrderNoSys, clientVars, sessionVars, loopVars, sayVars
<1>7. ASSUME NEW x \in SysIds, NEW o \in Orders \cup {NoOrder}, NEW s \in Status, RtnOrderNew(x, o, s)
      PROVE  TypeOK'
  <2> DEFINE t == IF o = NoOrder THEN 0 ELSE sent[o]
             m == [type |-> "status", order |-> o, session |-> t, sys |-> x, status |-> s,
                   submit |-> "Accepted"]
  <2>1. t \in Sessions
    BY <1>1 DEF TypeOK
  <2>2. m \in StatusMsg /\ Notify(m)
    BY <1>7, <2>1, StatusIsMsg DEF RtnOrderNew
  <2>3. tunnel' \in Seq(StatusMsg \cup DealMsg) /\ notified' \in 0..MaxNotify /\ batch \in 0..Len(tunnel')
    BY <2>2, NotifyType
  <2>4. book' \in [SysIds -> [order : Orders \cup {NoOrder}, state : {"free", "live", "done"}]]
    BY <1>7 DEF TypeOK, RtnOrderNew
  <2> QED BY <1>7, <2>3, <2>4 DEF TypeOK, RtnOrderNew, clientVars, sessionVars, loopVars, sayVars
<1>8. ASSUME NEW x \in SysIds, NEW s \in Status, NEW b \in Submit, RtnOrder(x, s, b)
      PROVE  TypeOK'
  <2>1. StatusOf(x, s, b) \in StatusMsg
    <3>1. book[x].order \in Orders \cup {NoOrder}
      BY DEF TypeOK
    <3>2. (IF book[x].order = NoOrder THEN 0 ELSE sent[book[x].order]) \in Sessions
      BY <1>1, <3>1 DEF TypeOK
    <3> QED BY <3>1, <3>2, StatusIsMsg DEF StatusOf
  <2>2. tunnel' \in Seq(StatusMsg \cup DealMsg) /\ notified' \in 0..MaxNotify /\ batch \in 0..Len(tunnel')
    BY <1>8, <2>1, NotifyType DEF RtnOrder
  <2>3. book' \in [SysIds -> [order : Orders \cup {NoOrder}, state : {"free", "live", "done"}]]
    <3> DEFINE R == [order : Orders \cup {NoOrder}, state : {"free", "live", "done"}]
               e == [book[x] EXCEPT !.state = IF s \in Final THEN "done" ELSE @]
    <3>1. book \in [SysIds -> R] /\ book[x] \in R
      BY DEF TypeOK
    <3>2. e \in R
      BY <3>1
    <3>3. book' = [book EXCEPT ![x] = e]
      BY <1>8 DEF RtnOrder
    <3> HIDE DEF e
    <3> QED BY <3>1, <3>2, <3>3
  <2>4. cancelRejected' \in SUBSET SysIds
    BY <1>8 DEF TypeOK, RtnOrder
  <2> QED BY <1>8, <2>2, <2>3, <2>4 DEF TypeOK, RtnOrder, clientVars, sessionVars, loopVars, sayVars
<1>9. ASSUME NEW x \in SysIds, RtnTrade(x) PROVE TypeOK'
  <2>1. [type |-> "deal", sys |-> x] \in DealMsg
    BY DEF DealMsg
  <2>2. tunnel' \in Seq(StatusMsg \cup DealMsg) /\ notified' \in 0..MaxNotify /\ batch \in 0..Len(tunnel')
    BY <1>9, <2>1, NotifyType DEF RtnTrade
  <2> QED BY <1>9, <2>2 DEF TypeOK, RtnTrade, clientVars, sessionVars, loopVars, sayVars
<1>10. CASE TunnelRead
  BY <1>10 DEF TypeOK, TunnelRead, clientVars, sessionVars, ctpVars, sayVars
<1>11. CASE AsyncLoop
  <2> DEFINE m == Head(tunnel)
             clean == batch = 1 /\ cnt + 1 >= CleanEvery
  <2>1. /\ tunnel \in Seq(StatusMsg \cup DealMsg) /\ tunnel # <<>> /\ m \in StatusMsg \cup DealMsg
        /\ tunnel' \in Seq(StatusMsg \cup DealMsg) /\ batch' \in 0..Len(tunnel')
    BY <1>11 DEF TypeOK, AsyncLoop
  <2>2. maps' \in [SysIds -> MapEntry \cup {Absent}]
    BY <1>11, <2>1, MapsAfterType, ClearType DEF AsyncLoop
  <2>3. cnt' \in 0..CleanEvery - 1
    BY <1>11 DEF TypeOK, AsyncLoop
  <2>4. \A x \in SysIds \cup {NoSys} : IdsOf(x) \in Orders \cup {NoOrder}
    BY EntryType DEF TypeOK, IdsOf
  <2>5. CASE m.type = "status"
    <3>1. OnOrderStatus(m)
      BY <1>11, <2>5 DEF AsyncLoop
    <3>2. wait' \in SUBSET (Orders \X Sessions)
      BY <3>1 DEF OnOrderStatus, TypeOK
    <3>3. confirms' \in [Orders -> Nat]
      <4>1. confirms \in [Orders -> Nat] /\ (Recorded(m) => m.order \in Orders)
        BY DEF TypeOK, Recorded
      <4>2. confirms' = confirms \/ (Recorded(m) /\ confirms' = [confirms EXCEPT ![m.order] = @ + 1])
        BY <3>1 DEF OnOrderStatus, sayVars
      <4> QED BY <4>1, <4>2
    <3>4. CASE Dropped(m)
      BY <1>11, <2>1, <2>2, <2>3, <3>1, <3>2, <3>3, <3>4
         DEF TypeOK, AsyncLoop, OnOrderStatus, sessionVars, ctpVars, sayVars
    <3>5. CASE ~Dropped(m)
      <4> DEFINE o == IF Recorded(m) THEN m.order ELSE IdsOf(m.sys)
      <4>1. m.sys \in SysIds \cup {NoSys} /\ m.order \in Orders \cup {NoOrder}
        BY <2>1, <2>5, MsgType
      <4>2. o \in Orders \cup {NoOrder}
        BY <2>4, <4>1
      <4>3. last' = [msg |-> "orderstatus", sys |-> m.sys, order |-> o,
                     submit |-> ConvertOrderSubmitStatus(m.submit)]
        BY <3>1, <3>5 DEF OnOrderStatus
      <4> HIDE DEF o
      <4>4. last' \in [msg : {"orderstatus"}, sys : SysIds \cup {NoSys}, order : Orders \cup {NoOrder},
                       submit : {"Unknown", "Submitted", "Accepted", "Rejected"}]
        BY <4>1, <4>2, <4>3, SubmitType
      <4>5. unnamed' = unnamed
        BY <3>1, <3>5 DEF OnOrderStatus
      <4> QED BY <1>11, <2>1, <2>2, <2>3, <3>2, <3>3, <4>4, <4>5
              DEF TypeOK, AsyncLoop, sessionVars, ctpVars
    <3> QED BY <3>4, <3>5
  <2>6. CASE m.type = "deal"
    <3>1. OnOrderDeal(m) /\ m.sys \in SysIds
      BY <1>11, <2>1, <2>6, MsgType DEF AsyncLoop
    <3>2. last' \in [msg : {"orderdeal"}, sys : SysIds, order : Orders \cup {NoOrder}]
      BY <2>4, <3>1 DEF OnOrderDeal
    <3> QED BY <1>11, <2>1, <2>2, <2>3, <3>1, <3>2
            DEF TypeOK, AsyncLoop, OnOrderDeal, sessionVars, ctpVars
  <2> QED BY <2>1, <2>5, <2>6, MsgType
<1>12. CASE Clock
  BY <1>12 DEF TypeOK, Clock, clientVars, sessionVars, loopVars, ctpVars, sayVars
<1>13. CASE UNCHANGED vars
  BY <1>13 DEF TypeOK, vars, clientVars, sessionVars, loopVars, ctpVars, sayVars
<1> QED BY <1>2, <1>3, <1>4, <1>5, <1>6, <1>7, <1>8, <1>9, <1>10, <1>11, <1>12, <1>13
        DEF Next, Callback

\* The gateway starts logged in, with nothing recorded.
LEMMA TypeInit == Init => TypeOK
BY CtpTradeAssumption DEF Init, TypeOK, Sessions

\* Every reachable state of the orders has its type, whatever the orders, the ids
\* and the bounds are: no entry of the map is made by a look-up, for one.
THEOREM TypeCorrect == Spec => []TypeOK
BY TypeInit, TypeStep, PTL DEF Spec

-----------------------------------------------------------------------------
(* A request has one record, until it is confirmed.                         *)

\* A record that is found confirms its order and is gone.
LEMMA FoundRecord ==
    ASSUME TypeOK, RecordOnce, ConfirmedOnce, NEW o, NEW s \in Sessions, req' = req,
           wait' = wait \ {<<o, s>>},
           confirms' = IF <<o, s>> \in wait THEN [confirms EXCEPT ![o] = @ + 1] ELSE confirms
    PROVE  /\ RecordOnce' /\ ConfirmedOnce'
           /\ \A p \in Orders : confirms'[p] >= confirms[p]
           /\ <<o, s>> \in wait => o \in Orders /\ confirms'[o] = 1
<1>1. confirms \in [Orders -> Nat] /\ wait \in SUBSET (Orders \X Sessions)
  BY DEF TypeOK
<1>2. CASE <<o, s>> \in wait
  <2>1. o \in Orders /\ confirms[o] = 0
    BY <1>1, <1>2 DEF RecordOnce
  <2>2. confirms' = [confirms EXCEPT ![o] = 1]
    BY <1>2, <2>1
  <2>3. \A t \in Sessions : <<o, t>> \notin wait'
    BY <1>2, <2>1 DEF RecordOnce
  <2>4. req[o] \notin {"idle", "checked"}
    BY <1>2, <2>1 DEF RecordOnce
  <2>5. ConfirmedOnce' /\ \A p \in Orders : confirms'[p] >= confirms[p]
    BY <1>1, <2>1, <2>2 DEF ConfirmedOnce
  <2>6. RecordOnce'
    BY <1>1, <2>1, <2>2, <2>3, <2>4 DEF RecordOnce
  <2> QED BY <1>1, <2>1, <2>2, <2>5, <2>6
<1>3. CASE <<o, s>> \notin wait
  <2>1. wait' = wait /\ confirms' = confirms
    BY <1>3
  <2> QED BY <1>1, <1>3, <2>1 DEF RecordOnce, ConfirmedOnce
<1> QED BY <1>2, <1>3

\* No step makes a second record of an order, or confirms it a second time.
LEMMA RecordStep ==
    TypeOK /\ RecordOnce /\ ConfirmedOnce /\ [Next]_vars
      => RecordOnce' /\ ConfirmedOnce' /\ \A o \in Orders : confirms'[o] >= confirms[o]
<1> SUFFICES ASSUME TypeOK, RecordOnce, ConfirmedOnce, [Next]_vars
             PROVE  RecordOnce' /\ ConfirmedOnce' /\ \A o \in Orders : confirms'[o] >= confirms[o]
  OBVIOUS
<1> DEFINE Goal == RecordOnce' /\ ConfirmedOnce' /\ \A o \in Orders : confirms'[o] >= confirms[o]
<1>1. confirms \in [Orders -> Nat] /\ wait \in SUBSET (Orders \X Sessions) /\ session \in Sessions
  BY DEF TypeOK
<1>2. ASSUME req' = req, wait' = wait, confirms' = confirms PROVE Goal
  BY <1>1, <1>2 DEF RecordOnce, ConfirmedOnce
<1>3. ASSUME NEW o \in Orders, MessageLoop(o) PROVE Goal
  <2>1. confirms' = confirms
    BY <1>3 DEF MessageLoop, CheckReady, ConvertFailed, RecordOrder, ReqOrderInsert,
                ReqOrderInsertFailed, sayVars
  <2>2. CASE CheckReady(o) \/ ConvertFailed(o) \/ ReqOrderInsert(o)
    <3>1. /\ wait' = wait /\ req \in [Orders -> {"idle", "checked", "recorded", "sent", "failed"}]
          /\ \A p \in Orders : req'[p] = "idle" \/ req'[p] = "checked" => req[p] \in {"idle", "checked"}
      BY <2>2 DEF TypeOK, CheckReady, ConvertFailed, ReqOrderInsert
    <3> QED BY <1>1, <2>1, <3>1 DEF RecordOnce, ConfirmedOnce
  <2>3. CASE RecordOrder(o)
    <3>1. /\ wait' = wait \cup {<<o, session>>} /\ req[o] = "checked"
          /\ req' = [req EXCEPT ![o] = "recorded"]
      BY <2>3 DEF RecordOrder
    <3>2. confirms[o] = 0 /\ \A s \in Sessions : <<o, s>> \notin wait
      BY <3>1 DEF RecordOnce
    <3>3. \A p \in Orders : p # o => req'[p] = req[p]
      BY <3>1 DEF TypeOK
    <3>4. req'[o] = "recorded"
      BY <3>1 DEF TypeOK
    <3> QED BY <1>1, <2>1, <3>1, <3>2, <3>3, <3>4 DEF RecordOnce, ConfirmedOnce
  <2>4. CASE ReqOrderInsertFailed(o)
    <3>1. /\ wait' \subseteq wait /\ req \in [Orders -> {"idle", "checked", "recorded", "sent", "failed"}]
          /\ \A p \in Orders : req'[p] = "idle" \/ req'[p] = "checked" => req[p] \in {"idle", "checked"}
      BY <2>4 DEF TypeOK, ReqOrderInsertFailed
    <3> QED BY <1>1, <2>1, <3>1 DEF RecordOnce, ConfirmedOnce
  <2> QED BY <1>3, <2>2, <2>3, <2>4 DEF MessageLoop
<1>4. ASSUME NEW o \in Orders, OnRspOrderInsert(o) PROVE Goal
  <2>1. confirms' = IF <<o, session>> \in wait THEN [confirms EXCEPT ![o] = @ + 1] ELSE confirms
    BY <1>1, <1>4 DEF OnRspOrderInsert
  <2>2. req' = req /\ wait' = wait \ {<<o, session>>}
    BY <1>4 DEF OnRspOrderInsert
  <2> QED BY <1>1, <2>1, <2>2, FoundRecord
<1>5. CASE AsyncLoop
  <2> DEFINE m == Head(tunnel)
  <2>1. m \in StatusMsg \cup DealMsg /\ req' = req
    BY <1>5 DEF AsyncLoop, TypeOK
  <2>2. CASE m.type = "status"
    <3>1. OnOrderStatus(m) /\ m.session \in Sessions
      BY <1>5, <2>1, <2>2, MsgType DEF AsyncLoop
    <3>2. CASE Dropped(m)
      BY <1>2, <2>1, <3>1, <3>2 DEF OnOrderStatus, sayVars
    <3>3. CASE ~Dropped(m)
      <4>1. /\ wait' = wait \ {<<m.order, m.session>>}
            /\ confirms' = IF <<m.order, m.session>> \in wait
                           THEN [confirms EXCEPT ![m.order] = @ + 1] ELSE confirms
        BY <3>1, <3>3 DEF OnOrderStatus, Recorded
      <4> HIDE DEF m
      <4> QED BY <2>1, <3>1, <4>1, FoundRecord
    <3> QED BY <3>2, <3>3
  <2>3. CASE m.type # "status"
    BY <1>2, <1>5, <2>1, <2>3 DEF AsyncLoop, OnOrderDeal
  <2> QED BY <2>2, <2>3
<1>6. CASE LinkLost \/ OnFrontDisconnected \/ OnRspUserLogin \/ TunnelRead \/ Clock \/ UNCHANGED vars
  BY <1>2, <1>6 DEF LinkLost, OnFrontDisconnected, OnRspUserLogin, TunnelRead, Clock, vars,
                    clientVars, sayVars
<1>7. ASSUME NEW o \in Orders, NEW s \in Status, NEW b \in Submit, RtnOrderNoSys(o, s, b) PROVE Goal
  BY <1>2, <1>7 DEF RtnOrderNoSys, clientVars, sayVars
<1>8. ASSUME NEW x \in SysIds, NEW o \in Orders \cup {NoOrder}, NEW s \in Status, RtnOrderNew(x, o, s)
      PROVE  Goal
  BY <1>2, <1>8 DEF RtnOrderNew, clientVars, sayVars
<1>9. ASSUME NEW x \in SysIds, NEW s \in Status, NEW b \in Submit, RtnOrder(x, s, b) PROVE Goal
  BY <1>2, <1>9 DEF RtnOrder, clientVars, sayVars
<1>10. ASSUME NEW x \in SysIds, RtnTrade(x) PROVE Goal
  BY <1>2, <1>10 DEF RtnTrade, clientVars, sayVars
<1> QED BY <1>3, <1>4, <1>5, <1>6, <1>7, <1>8, <1>9, <1>10 DEF Next, Callback

-----------------------------------------------------------------------------
(* Tunnel, map and exchange tell the same of an id.                         *)

\* What one message says is of the order the exchange has under its id, and comes
\* under the session in which that order went out.
Own(m) ==
    /\ m.sys # NoSys =>
          /\ Taken(m.sys)
          /\ m.type = "status" => /\ m.order = OwnerOf(m.sys)
                                  /\ Completes(m.status, m.submit) => Over(m.sys)
    /\ m.type = "status" /\ m.order # NoOrder =>
          m.order \in Orders /\ sent[m.order] # 0 /\ m.session = sent[m.order]

\* So is every message of the tunnel, and this is all the invariant says of it.
LEMMA TunnelIsOwn ==
    ASSUME TypeOK
    PROVE  /\ TunnelOwn /\ SentOwn => \A i \in DOMAIN tunnel : Own(tunnel[i])
           /\ (\A i \in DOMAIN tunnel : Own(tunnel[i])) => TunnelOwn
<1>1. \A i \in DOMAIN tunnel : tunnel[i] \in StatusMsg \cup DealMsg
  BY DEF TypeOK
<1>2. \A i \in DOMAIN tunnel : tunnel[i].type = "status" => tunnel[i].order \in Orders \cup {NoOrder}
  BY <1>1, MsgType
<1> QED BY <1>2 DEF TunnelOwn, SentOwn, Own

\* No step takes an id from its order, undoes an order's end or its being sent.
LEMMA ExchangeKeeps ==
    ASSUME TypeOK, SentOwn, [Next]_vars
    PROVE  /\ \A x \in SysIds : /\ Taken(x) => Taken(x)' /\ book'[x].order = book[x].order
                                /\ Over(x) => Over(x)'
           /\ \A o \in Orders : sent[o] # 0 => sent'[o] = sent[o]
<1> DEFINE Book == \A x \in SysIds : /\ Taken(x) => Taken(x)' /\ book'[x].order = book[x].order
                                     /\ Over(x) => Over(x)'
           Sent == \A o \in Orders : sent[o] # 0 => sent'[o] = sent[o]
<1>1. ASSUME book' = book, cancelRejected' = cancelRejected PROVE Book
  BY <1>1 DEF Taken, Over
<1>2. ASSUME NEW o \in Orders, MessageLoop(o) PROVE Book /\ Sent
  <2>1. CASE ReqOrderInsert(o)
    <3>1. sent[o] = 0
      BY <2>1 DEF ReqOrderInsert, SentOwn
    <3>2. sent' = [sent EXCEPT ![o] = link] /\ book' = book /\ cancelRejected' = cancelRejected
      BY <2>1 DEF ReqOrderInsert
    <3> QED BY <1>1, <3>1, <3>2 DEF TypeOK
  <2>2. CASE ~ReqOrderInsert(o)
    <3>1. book' = book /\ cancelRejected' = cancelRejected /\ sent' = sent
      BY <1>2, <2>2 DEF MessageLoop, CheckReady, ConvertFailed, RecordOrder, ReqOrderInsertFailed, ctpVars
    <3> QED BY <1>1, <3>1
  <2> QED BY <2>1, <2>2
<1>3. ASSUME NEW x \in SysIds, NEW o \in Orders \cup {NoOrder}, NEW s \in Status, RtnOrderNew(x, o, s)
      PROVE  Book /\ Sent
  <2>1. /\ book[x].state = "free" /\ cancelRejected' = cancelRejected /\ sent' = sent
        /\ \A y \in SysIds \ {x} : book'[y] = book[y]
        /\ book'[x].state # "free"
    BY <1>3 DEF RtnOrderNew, TypeOK
  <2> QED BY <2>1 DEF Taken, Over
<1>4. ASSUME NEW x \in SysIds, NEW s \in Status, NEW b \in Submit, RtnOrder(x, s, b)
      PROVE  Book /\ Sent
  <2>1. book[x].state = "live" /\ cancelRejected \subseteq cancelRejected' /\ sent' = sent
    BY <1>4 DEF RtnOrder
  <2>2. /\ \A y \in SysIds \ {x} : book'[y] = book[y]
        /\ book'[x].order = book[x].order /\ book'[x].state \in {"live", "done"}
    BY <1>4 DEF RtnOrder, TypeOK
  <2> QED BY <2>1, <2>2 DEF Taken, Over
<1>5. CASE LinkLost \/ OnFrontDisconnected \/ OnRspUserLogin \/ TunnelRead \/ AsyncLoop \/ Clock
            \/ UNCHANGED vars
  BY <1>1, <1>5 DEF LinkLost, OnFrontDisconnected, OnRspUserLogin, TunnelRead, AsyncLoop, Clock, vars, ctpVars
<1>6. ASSUME NEW o \in Orders, OnRspOrderInsert(o) PROVE Book /\ Sent
  BY <1>1, <1>6 DEF OnRspOrderInsert
<1>7. ASSUME NEW o \in Orders, NEW s \in Status, NEW b \in Submit, RtnOrderNoSys(o, s, b)
      PROVE  Book /\ Sent
  BY <1>1, <1>7 DEF RtnOrderNoSys
<1>8. ASSUME NEW x \in SysIds, RtnTrade(x) PROVE Book /\ Sent
  BY <1>1, <1>8 DEF RtnTrade
<1> QED BY <1>2, <1>3, <1>4, <1>5, <1>6, <1>7, <1>8 DEF Next, Callback

\* What is said of an order stays true of it.
LEMMA OwnKeeps ==
    ASSUME TypeOK, SentOwn, [Next]_vars, NEW m \in StatusMsg \cup DealMsg, Own(m)
    PROVE  Own(m)'
<1>1. m.sys \in SysIds \cup {NoSys} /\ (m.sys # NoSys => m.sys \in SysIds)
  BY MsgType
<1>2. \A x \in SysIds : Taken(x) => OwnerOf(x)' = OwnerOf(x)
  BY ExchangeKeeps, CtpTradeAssumption DEF OwnerOf
<1> QED BY <1>1, <1>2, ExchangeKeeps DEF Own

\* A step leaves the tunnel as it is, takes its first message, or appends one that
\* tells of the order the exchange then has.
LEMMA TunnelStep ==
    ASSUME TypeOK, SentOwn, TunnelOwn, [Next]_vars
    PROVE  \A m \in StatusMsg \cup DealMsg, i \in DOMAIN tunnel' : tunnel'[i] = m => Own(m)'
<1> DEFINE Goal == \A m \in StatusMsg \cup DealMsg, i \in DOMAIN tunnel' : tunnel'[i] = m => Own(m)'
<1>1. /\ tunnel \in Seq(StatusMsg \cup DealMsg)
      /\ \A m \in StatusMsg \cup DealMsg, i \in DOMAIN tunnel : tunnel[i] = m => Own(m)'
  <2>1. tunnel \in Seq(StatusMsg \cup DealMsg) /\ \A i \in DOMAIN tunnel : Own(tunnel[i])
    BY TunnelIsOwn DEF TypeOK
  <2>2. ASSUME NEW m \in StatusMsg \cup DealMsg, NEW i \in DOMAIN tunnel, tunnel[i] = m PROVE Own(m)'
    <3>1. Own(m)
      BY <2>1, <2>2
    <3> QED BY <3>1, OwnKeeps
  <2> QED BY <2>1, <2>2
<1>2. ASSUME tunnel' = tunnel PROVE Goal
  BY <1>1, <1>2
<1>3. ASSUME NEW m \in StatusMsg \cup DealMsg, Notify(m), Own(m)' PROVE Goal
  <2>1. CASE tunnel' = tunnel
    BY <1>2, <2>1
  <2>2. CASE tunnel' = Append(tunnel, m)
    <3>1. \A i \in DOMAIN tunnel' : tunnel'[i] = m \/ (i \in DOMAIN tunnel /\ tunnel'[i] = tunnel[i])
      BY <1>1, <2>2
    <3>2. ASSUME NEW n \in StatusMsg \cup DealMsg, NEW i \in DOMAIN tunnel', tunnel'[i] = n PROVE Own(n)'
      <4>1. CASE n = m
        BY <1>3, <4>1
      <4>2. CASE n # m
        BY <1>1, <3>1, <3>2, <4>2
      <4> QED BY <4>1, <4>2
    <3> QED BY <3>2
  <2> QED BY <1>3, <2>1, <2>2 DEF Notify
<1>4. ASSUME NEW o \in Orders, MessageLoop(o) PROVE Goal
  BY <1>2, <1>4 DEF MessageLoop, CheckReady, ConvertFailed, RecordOrder, ReqOrderInsert, ReqOrderInsertFailed
<1>5. CASE LinkLost \/ OnFrontDisconnected \/ OnRspUserLogin \/ TunnelRead \/ Clock \/ UNCHANGED vars
  BY <1>2, <1>5 DEF LinkLost, OnFrontDisconnected, OnRspUserLogin, TunnelRead, Clock, vars
<1>6. ASSUME NEW o \in Orders, OnRspOrderInsert(o) PROVE Goal
  BY <1>2, <1>6 DEF OnRspOrderInsert
<1>7. CASE AsyncLoop
  <2>1. tunnel' = Tail(tunnel) /\ tunnel # <<>>
    BY <1>7 DEF AsyncLoop, TypeOK
  <2>2. \A i \in DOMAIN tunnel' : i + 1 \in DOMAIN tunnel /\ tunnel'[i] = tunnel[i + 1]
    BY <1>1, <2>1
  <2>3. ASSUME NEW m \in StatusMsg \cup DealMsg, NEW i \in DOMAIN tunnel', tunnel'[i] = m PROVE Own(m)'
    BY <1>1, <2>2, <2>3
  <2> QED BY <2>3
<1>8. ASSUME NEW o \in Orders, NEW s \in Status, NEW b \in Submit, RtnOrderNoSys(o, s, b) PROVE Goal
  <2>1. PICK m \in StatusMsg : m = [type |-> "status", order |-> o, session |-> sent[o], sys |-> NoSys,
                                   status |-> s, submit |-> b]
    BY StatusIsMsg DEF TypeOK
  <2>2. Notify(m) /\ sent[o] # 0 /\ sent' = sent
    BY <1>8, <2>1 DEF RtnOrderNoSys
  <2>3. Own(m)'
    BY <2>1, <2>2 DEF Own
  <2> QED BY <1>3, <2>1, <2>2, <2>3
<1>9. ASSUME NEW x \in SysIds, NEW o \in Orders \cup {NoOrder}, NEW s \in Status, RtnOrderNew(x, o, s)
      PROVE  Goal
  <2>1. PICK m \in StatusMsg : m = [type |-> "status", order |-> o,
                                   session |-> IF o = NoOrder THEN 0 ELSE sent[o],
                                   sys |-> x, status |-> s, submit |-> "Accepted"]
    <3>1. (IF o = NoOrder THEN 0 ELSE sent[o]) \in Sessions /\ "Accepted" \in Submit
      BY CtpTradeAssumption DEF TypeOK, Sessions
    <3> QED BY <3>1, StatusIsMsg
  <2>2. /\ Notify(m) /\ (o # NoOrder => sent[o] # 0) /\ sent' = sent
        /\ book' = [book EXCEPT ![x] = [order |-> o, state |-> IF s \in Final THEN "done" ELSE "live"]]
    BY <1>9, <2>1 DEF RtnOrderNew
  <2>3. book'[x] = [order |-> o, state |-> IF s \in Final THEN "done" ELSE "live"]
    BY <2>2 DEF TypeOK
  <2>4. Completes(s, "Accepted") => s \in Final
    BY DEF Completes, ConvertOrderStatus, ConvertOrderSubmitStatus, Final
  <2>5. Own(m)'
    BY <2>1, <2>2, <2>3, <2>4, CtpTradeAssumption DEF Own, Taken, Over, OwnerOf
  <2> QED BY <1>3, <2>1, <2>2, <2>5
<1>10. ASSUME NEW x \in SysIds, NEW s \in Status, NEW b \in Submit, RtnOrder(x, s, b) PROVE Goal
  <2> DEFINE o == book[x].order
  <2>1. o \in Orders \cup {NoOrder} /\ book[x].state = "live"
    BY <1>10 DEF TypeOK, RtnOrder
  <2>2. PICK m \in StatusMsg : m = StatusOf(x, s, b)
    <3>1. (IF o = NoOrder THEN 0 ELSE sent[o]) \in Sessions
      BY <2>1, CtpTradeAssumption DEF TypeOK, Sessions
    <3> QED BY <2>1, <3>1, StatusIsMsg DEF StatusOf
  <2>3. Notify(m) /\ sent' = sent /\ (o # NoOrder => sent[o] # 0)
    BY <1>10, <2>2 DEF RtnOrder, SentOwn
  <2>4. /\ book'[x].order = o
        /\ book'[x].state = IF s \in Final THEN "done" ELSE "live"
        /\ ConvertOrderSubmitStatus(b) = "Rejected" => x \in cancelRejected'
    BY <1>10 DEF RtnOrder, TypeOK
  <2>5. Completes(s, b) => s \in Final \/ ConvertOrderSubmitStatus(b) = "Rejected"
    BY DEF Completes, ConvertOrderStatus, Final
  <2>6. Own(m)'
    BY <2>1, <2>2, <2>3, <2>4, <2>5, CtpTradeAssumption DEF Own, Taken, Over, OwnerOf, StatusOf
  <2> QED BY <1>3, <2>2, <2>3, <2>6
<1>11. ASSUME NEW x \in SysIds, RtnTrade(x) PROVE Goal
  <2> DEFINE m == [type |-> "deal", sys |-> x]
  <2>1. m \in DealMsg /\ Notify(m) /\ book[x].state # "free" /\ book' = book
    BY <1>11 DEF RtnTrade, DealMsg
  <2>2. Own(m)'
    BY <2>1 DEF Own, Taken
  <2> HIDE DEF m
  <2> QED BY <1>3, <2>1, <2>2
<1> QED BY <1>4, <1>5, <1>6, <1>7, <1>8, <1>9, <1>10, <1>11 DEF Next, Callback

\* The map after one message: no entry of it is lost, and each is of the order the
\* exchange has under its id, confirmed, and stamped only if that is over.
LEMMA MapsAfterOwn ==
    ASSUME TypeOK, RecordOnce, TunnelOwn, MapsOwn, AsyncLoop,
           \A o \in Orders : confirms[o] = 1 => confirms'[o] = 1,
           NEW x \in SysIds
    PROVE  LET e == MapsAfter(Head(tunnel))[x] IN
           /\ maps[x] # Absent => e # Absent
           /\ e # Absent => /\ e \in MapEntry /\ Taken(x) /\ e.order = book[x].order
                            /\ confirms'[e.order] = 1
                            /\ e.ts # 0 => Over(x)
<1> DEFINE m == Head(tunnel)
           Ok(e) == /\ maps[x] # Absent => e # Absent
                    /\ e # Absent => /\ e \in MapEntry /\ Taken(x) /\ e.order = book[x].order
                                     /\ confirms'[e.order] = 1
                                     /\ e.ts # 0 => Over(x)
<1>1. /\ 1 \in DOMAIN tunnel /\ m = tunnel[1] /\ m \in StatusMsg \cup DealMsg
      /\ maps \in [SysIds -> MapEntry \cup {Absent}] /\ now \in Nat
      /\ confirms \in [Orders -> Nat] /\ wait \in SUBSET (Orders \X Sessions)
  BY DEF AsyncLoop, TypeOK
<1>2. Ok(maps[x])
  BY <1>1, EntryType DEF MapsOwn
<1>3. CASE m.type = "status" /\ Recorded(m) /\ ~Dropped(m)
  <2>1. m.order \in Orders /\ m.order # NoOrder /\ m.session \in Sessions /\ confirms[m.order] = 0
    BY <1>1, <1>3, CtpTradeAssumption DEF Recorded, RecordOnce
  <2>2. confirms' = [confirms EXCEPT ![m.order] = @ + 1]
    BY <1>3 DEF AsyncLoop, OnOrderStatus
  <2>3. confirms'[m.order] = 1
    BY <1>1, <2>1, <2>2
  <2>4. MapsAfter(m) = CacheOrderInfoMap(m)
    BY <1>3 DEF MapsAfter
  <2>5. CASE m.sys = x /\ MapsAfter(m) = [maps EXCEPT ![m.sys] = [order |-> m.order, ts |-> 0]]
    <3> DEFINE e == [order |-> m.order, ts |-> 0]
    <3>1. MapsAfter(m)[x] = e
      BY <1>1, <2>5
    <3>2. e \in MapEntry /\ e # Absent /\ e.order = m.order /\ e.ts = 0
      BY <2>1 DEF MapEntry, Absent
    <3>3. Taken(x) /\ m.order = book[x].order
      BY <1>1, <1>3, <2>5, CtpTradeAssumption DEF TunnelOwn, OwnerOf
    <3> HIDE DEF e
    <3> QED BY <2>3, <3>1, <3>2, <3>3
  <2>6. CASE ~(m.sys = x /\ MapsAfter(m) = [maps EXCEPT ![m.sys] = [order |-> m.order, ts |-> 0]])
    <3>1. MapsAfter(m)[x] = maps[x]
      BY <1>1, <2>4, <2>6 DEF CacheOrderInfoMap
    <3> QED BY <1>2, <3>1
  <2> QED BY <2>5, <2>6
<1>4. CASE m.type = "status" /\ ~(Recorded(m) /\ ~Dropped(m))
  <2>1. MapsAfter(m) = StampOrderInfoMap(m)
    BY <1>4 DEF MapsAfter
  <2>2. CASE m.sys = x /\ maps[x] # Absent /\ Completes(m.status, m.submit)
    <3> DEFINE e == [maps[x] EXCEPT !.ts = now]
    <3>1. MapsAfter(m)[x] = e
      BY <1>1, <2>1, <2>2, CtpTradeAssumption DEF StampOrderInfoMap
    <3>2. maps[x] \in MapEntry /\ e \in MapEntry /\ e.order = maps[x].order
      BY <1>1, <2>2 DEF MapEntry
    <3>3. Over(x)
      BY <1>1, <1>4, <2>2, CtpTradeAssumption DEF TunnelOwn
    <3>4. e # Absent
      BY <3>2, EntryType
    <3> HIDE DEF e
    <3> QED BY <1>2, <2>2, <3>1, <3>2, <3>3, <3>4
  <2>3. CASE ~(m.sys = x /\ maps[x] # Absent /\ Completes(m.status, m.submit))
    <3>1. MapsAfter(m)[x] = maps[x]
      BY <1>1, <2>1, <2>3 DEF StampOrderInfoMap
    <3> QED BY <1>2, <3>1
  <2> QED BY <2>2, <2>3
<1>5. CASE m.type = "deal"
  BY <1>2, <1>5 DEF MapsAfter
<1>6. Ok(MapsAfter(m)[x])
  BY <1>1, <1>3, <1>4, <1>5, MsgType
<1> QED BY <1>6

\* Only AsyncLoop changes the map, one message at a time.
LEMMA MapsStep ==
    ASSUME TypeOK, RecordOnce, SentOwn, TunnelOwn, MapsOwn, [Next]_vars,
           \A o \in Orders : confirms[o] = 1 => confirms'[o] = 1
    PROVE  MapsOwn'
<1>1. ASSUME maps' = maps PROVE MapsOwn'
  <2>1. ASSUME NEW x \in SysIds, maps[x] # Absent PROVE maps[x] \in MapEntry /\ maps[x].order \in Orders
    BY <2>1, EntryType DEF TypeOK
  <2> QED BY <1>1, <2>1, ExchangeKeeps DEF MapsOwn
<1>2. CASE AsyncLoop
  <2> DEFINE f == MapsAfter(Head(tunnel))
  <2>1. book' = book /\ cancelRejected' = cancelRejected
    BY <1>2 DEF AsyncLoop, ctpVars
  <2>2. \A x \in SysIds : maps'[x] \in {f[x], Absent}
    BY <1>2 DEF AsyncLoop, ClearOrderInfoMap
  <2>3. \A x \in SysIds : f[x] # Absent =>
            /\ Taken(x) /\ f[x].order = book[x].order /\ confirms'[f[x].order] = 1
            /\ f[x].ts # 0 => Over(x)
    BY <1>2, MapsAfterOwn
  <2> HIDE DEF f
  <2> QED BY <2>1, <2>2, <2>3 DEF MapsOwn, Taken, Over
<1>3. CASE ~AsyncLoop
  <2>1. maps' = maps
    BY <1>3 DEF Next, vars, MessageLoop, CheckReady, ConvertFailed, RecordOrder, ReqOrderInsert,
                ReqOrderInsertFailed, LinkLost, Callback, OnFrontDisconnected, OnRspUserLogin,
                OnRspOrderInsert, RtnOrderNoSys, RtnOrderNew, RtnOrder, RtnTrade, TunnelRead,
                Clock, loopVars
  <2> QED BY <1>1, <2>1
<1> QED BY <1>2, <1>3

\* What is broadcast is found in the record or in the map.
LEMMA LastStep ==
    ASSUME TypeOK, RecordOnce, ConfirmedOnce, SentOwn, TunnelOwn, MapsOwn, LastOwn, IdsAreOwn,
           [Next]_vars, \A o \in Orders : confirms[o] = 1 => confirms'[o] = 1
    PROVE  LastOwn' /\ IdsAreOwn'
<1>0. /\ last = Nothing => last \notin [msg : {"orderstatus"}, sys : SysIds \cup {NoSys},
                                        order : Orders \cup {NoOrder},
                                        submit : {"Unknown", "Submitted", "Accepted", "Rejected"}]
      /\ last # Nothing => last.sys \in SysIds \cup {NoSys} /\ last.order \in Orders \cup {NoOrder}
  BY DEF TypeOK, Nothing
<1>1. ASSUME last' = last PROVE LastOwn' /\ IdsAreOwn'
  <2>1. \A x \in SysIds : Taken(x) => Taken(x)' /\ book'[x].order = book[x].order
    BY ExchangeKeeps
  <2>2. LastOwn'
    BY <1>0, <1>1, <2>1 DEF LastOwn
  <2>3. IdsAreOwn'
    BY <1>0, <1>1, <2>1 DEF LastOwn, IdsAreOwn, OwnerOf
  <2> QED BY <2>2, <2>3
<1>2. CASE AsyncLoop
  <2> DEFINE m == Head(tunnel)
  <2>1. /\ 1 \in DOMAIN tunnel /\ m = tunnel[1] /\ m \in StatusMsg \cup DealMsg
        /\ maps \in [SysIds -> MapEntry \cup {Absent}]
        /\ confirms \in [Orders -> Nat] /\ wait \in SUBSET (Orders \X Sessions)
        /\ book' = book
    BY <1>2 DEF AsyncLoop, TypeOK, ctpVars
  <2>2. /\ m.sys \in SysIds \cup {NoSys} /\ m.type \in {"status", "deal"}
        /\ m.sys # NoSys => Taken(m.sys) /\ (m.type = "status" => m.order = book[m.sys].order)
    BY <2>1, MsgType DEF TunnelOwn, OwnerOf
  <2>3. IdsOf(m.sys) # NoOrder => /\ m.sys # NoSys /\ confirms'[IdsOf(m.sys)] = 1
                                  /\ IdsOf(m.sys) = book[m.sys].order
    <3>1. CASE m.sys = NoSys
      BY <3>1 DEF IdsOf
    <3>2. CASE m.sys # NoSys /\ maps[m.sys] = Absent
      BY <3>2 DEF IdsOf, Absent
    <3>3. CASE m.sys # NoSys /\ maps[m.sys] # Absent
      <4>1. maps[m.sys].order \in Orders
        BY <2>1, <2>2, <3>3, EntryType
      <4> QED BY <2>2, <3>3, <4>1 DEF IdsOf, MapsOwn
    <3> QED BY <3>1, <3>2, <3>3
  <2>4. CASE m.type = "status"
    <3>1. OnOrderStatus(m)
      BY <1>2, <2>4 DEF AsyncLoop
    <3>2. CASE Dropped(m)
      BY <1>1, <3>1, <3>2 DEF OnOrderStatus, sayVars
    <3>3. CASE ~Dropped(m)
      <4>1. /\ last'.sys = m.sys /\ last'.order = IF Recorded(m) THEN m.order ELSE IdsOf(m.sys)
            /\ Recorded(m) => confirms' = [confirms EXCEPT ![m.order] = @ + 1]
        BY <3>1, <3>3 DEF OnOrderStatus
      <4>2. Recorded(m) => m.order \in Orders /\ confirms[m.order] = 0
        BY <2>1 DEF Recorded, RecordOnce
      <4>3. Recorded(m) => confirms'[m.order] = 1
        BY <2>1, <4>1, <4>2
      <4> HIDE DEF m
      <4>4. LastOwn'
        BY <2>1, <2>2, <4>1 DEF LastOwn, Taken
      <4>5. IdsAreOwn'
        BY <2>1, <2>2, <2>3, <2>4, <4>1, <4>3 DEF IdsAreOwn, OwnerOf
      <4> QED BY <4>4, <4>5
    <3> QED BY <3>2, <3>3
  <2>5. CASE m.type = "deal"
    <3>1. last'.sys = m.sys /\ last'.order = IdsOf(m.sys)
      BY <1>2, <2>5 DEF AsyncLoop, OnOrderDeal
    <3> HIDE DEF m
    <3> QED BY <2>1, <2>2, <2>3, <3>1 DEF LastOwn, Taken, IdsAreOwn, OwnerOf
  <2> QED BY <2>2, <2>4, <2>5
<1>3. CASE ~AsyncLoop
  <2>1. last' = last
    BY <1>3 DEF Next, vars, MessageLoop, CheckReady, ConvertFailed, RecordOrder, ReqOrderInsert,
                ReqOrderInsertFailed, LinkLost, Callback, OnFrontDisconnected, OnRspUserLogin,
                OnRspOrderInsert, RtnOrderNoSys, RtnOrderNew, RtnOrder, RtnTrade, TunnelRead,
                Clock, sayVars
  <2> QED BY <1>1, <2>1
<1> QED BY <1>2, <1>3

-----------------------------------------------------------------------------
(* An order that went out is recorded until it is confirmed.                *)

\* A record goes when its order is confirmed, when the order could not be sent, or
\* not at all; and the record that is taken for an order that was sent is the one
\* of the session it was sent in.
LEMMA RecordKeeps ==
    ASSUME TypeOK, RecordOnce, ConfirmedOnce, SentOwn, TunnelOwn, [Next]_vars,
           NEW o \in Orders, NEW s \in Sessions, <<o, s>> \in wait, <<o, s>> \notin wait'
    PROVE  \/ req[o] = "recorded" /\ req'[o] = "failed"
           \/ confirms'[o] = 1 /\ req'[o] = req[o] /\ (sent[o] # 0 => s = sent[o])
<1> DEFINE Goal == \/ req[o] = "recorded" /\ req'[o] = "failed"
                   \/ confirms'[o] = 1 /\ req'[o] = req[o] /\ (sent[o] # 0 => s = sent[o])
<1>1. /\ req \in [Orders -> {"idle", "checked", "recorded", "sent", "failed"}]
      /\ confirms \in [Orders -> Nat] /\ confirms[o] = 0
  BY DEF TypeOK, RecordOnce
<1>2. ASSUME NEW p \in Orders, ReqOrderInsertFailed(p) PROVE Goal
  BY <1>1, <1>2 DEF ReqOrderInsertFailed
<1>3. ASSUME NEW p \in Orders, OnRspOrderInsert(p) PROVE Goal
  <2>1. p = o /\ s = session /\ session = sent[o]
    BY <1>3 DEF OnRspOrderInsert
  <2>2. req' = req /\ confirms' = [confirms EXCEPT ![o] = @ + 1]
    BY <1>3, <2>1 DEF OnRspOrderInsert
  <2> QED BY <1>1, <2>1, <2>2
<1>4. CASE AsyncLoop
  <2> DEFINE m == Head(tunnel)
  <2>1. 1 \in DOMAIN tunnel /\ m = tunnel[1] /\ req' = req
    BY <1>4 DEF AsyncLoop, TypeOK
  <2>2. m.type = "status" /\ OnOrderStatus(m) /\ ~Dropped(m)
    BY <1>4 DEF AsyncLoop, OnOrderDeal, OnOrderStatus
  <2>3. o = m.order /\ s = m.session
    BY <2>2 DEF OnOrderStatus
  <2>4. confirms' = [confirms EXCEPT ![o] = @ + 1]
    BY <2>2, <2>3 DEF OnOrderStatus, Recorded
  <2>5. sent[o] # 0 => s = sent[o]
    BY <2>1, <2>2, <2>3, CtpTradeAssumption DEF SentOwn
  <2> QED BY <1>1, <2>1, <2>4, <2>5
<1>5. CASE ~AsyncLoop /\ ~\E p \in Orders : ReqOrderInsertFailed(p) \/ OnRspOrderInsert(p)
  <2>1. wait \subseteq wait'
    BY <1>5 DEF Next, vars, MessageLoop, CheckReady, ConvertFailed, RecordOrder, ReqOrderInsert,
                LinkLost, Callback, OnFrontDisconnected, OnRspUserLogin,
                RtnOrderNoSys, RtnOrderNew, RtnOrder, RtnTrade, TunnelRead, Clock, clientVars
  <2> QED BY <2>1
<1> QED BY <1>2, <1>3, <1>4, <1>5

\* A record is made before its order goes out, and kept until it is confirmed.
LEMMA SentStep ==
    ASSUME TypeOK, RecordOnce, ConfirmedOnce, SentOwn, TunnelOwn, [Next]_vars, TypeOK',
           \A o \in Orders : confirms[o] = 1 => confirms'[o] = 1
    PROVE  SentOwn'
<1> DEFINE Kept(o) == confirms[o] = 1 \/ \E s \in Sessions : <<o, s>> \in wait
<1>1. /\ req \in [Orders -> {"idle", "checked", "recorded", "sent", "failed"}]
      /\ sent \in [Orders -> Sessions] /\ session \in Sessions /\ link \in Sessions
  BY DEF TypeOK
<1>2. /\ \A o \in Orders : req'[o] = "sent" <=> sent'[o] # 0
      /\ \A o \in Orders : req'[o] \in {"recorded", "sent"} =>
             req[o] \in {"recorded", "sent"} \/ <<o, session>> \in wait'
  <2>1. ASSUME req' = req, sent' = sent
        PROVE  /\ \A o \in Orders : req'[o] = "sent" <=> sent'[o] # 0
               /\ \A o \in Orders : req'[o] \in {"recorded", "sent"} =>
                      req[o] \in {"recorded", "sent"} \/ <<o, session>> \in wait'
    BY <2>1 DEF SentOwn
  <2>2. ASSUME NEW o \in Orders, MessageLoop(o)
        PROVE  /\ \A p \in Orders : req'[p] = "sent" <=> sent'[p] # 0
               /\ \A p \in Orders : req'[p] \in {"recorded", "sent"} =>
                      req[p] \in {"recorded", "sent"} \/ <<p, session>> \in wait'
    <3>1. CASE CheckReady(o) \/ ConvertFailed(o) \/ ReqOrderInsertFailed(o)
      <4>1. /\ sent' = sent /\ req[o] # "sent"
            /\ req' = [req EXCEPT ![o] = "failed"] \/ req' = [req EXCEPT ![o] = "checked"]
        BY <3>1 DEF CheckReady, ConvertFailed, ReqOrderInsertFailed, ctpVars
      <4> QED BY <1>1, <4>1 DEF SentOwn
    <3>2. CASE RecordOrder(o)
      BY <1>1, <3>2 DEF RecordOrder, SentOwn, ctpVars
    <3>3. CASE ReqOrderInsert(o)
      <4>1. /\ req[o] = "recorded" /\ link # 0 /\ req' = [req EXCEPT ![o] = "sent"]
            /\ sent' = [sent EXCEPT ![o] = link]
        BY <3>3 DEF ReqOrderInsert
      <4> QED BY <1>1, <4>1 DEF SentOwn
    <3> QED BY <2>2, <3>1, <3>2, <3>3 DEF MessageLoop
  <2>3. CASE ~\E o \in Orders : MessageLoop(o)
    <3>1. req' = req /\ sent' = sent
      BY <2>3 DEF Next, vars, LinkLost, Callback, OnFrontDisconnected, OnRspUserLogin,
                  OnRspOrderInsert, RtnOrderNoSys, RtnOrderNew, RtnOrder, RtnTrade, TunnelRead,
                  AsyncLoop, Clock, clientVars, ctpVars
    <3> QED BY <2>1, <3>1
  <2> QED BY <2>2, <2>3
<1>3. ASSUME NEW o \in Orders, req'[o] \in {"recorded", "sent"}
      PROVE  confirms'[o] = 1 \/ \E s \in Sessions : <<o, s>> \in wait'
  <2>1. CASE <<o, session>> \in wait'
    BY <1>1, <2>1
  <2>2. CASE confirms[o] = 1
    BY <2>2
  <2>3. CASE \E s \in Sessions : <<o, s>> \in wait
    BY <1>3, <2>3, RecordKeeps
  <2> QED BY <1>2, <1>3, <2>1, <2>2, <2>3 DEF SentOwn
<1>4. ASSUME NEW x \in SysIds, book'[x].order # NoOrder PROVE sent'[book'[x].order] # 0
  <2>1. book[x].order \in Orders \cup {NoOrder} /\ book'[x].order \in Orders \cup {NoOrder}
    BY DEF TypeOK
  <2>2. CASE book'[x].order = book[x].order
    BY <1>4, <2>1, <2>2, ExchangeKeeps, CtpTradeAssumption DEF SentOwn
  <2>3. CASE book'[x].order # book[x].order
    <3>1. ASSUME NEW y \in SysIds, NEW s \in Status, NEW b \in Submit, RtnOrder(y, s, b) PROVE FALSE
      <4>1. book' = [book EXCEPT ![y].state = IF s \in Final THEN "done" ELSE @]
        BY <3>1 DEF RtnOrder
      <4>2. book'[x].order = book[x].order
        BY <4>1 DEF TypeOK
      <4> QED BY <2>3, <4>2
    <3>2. PICK y \in SysIds, o \in Orders \cup {NoOrder}, s \in Status : RtnOrderNew(y, o, s)
      BY <2>3, <3>1 DEF Next, vars, MessageLoop, CheckReady, ConvertFailed, RecordOrder, ReqOrderInsert,
                ReqOrderInsertFailed, LinkLost, Callback, OnFrontDisconnected, OnRspUserLogin,
                OnRspOrderInsert, RtnOrderNoSys, RtnTrade, TunnelRead, AsyncLoop, Clock, ctpVars
    <3>3. book' = [book EXCEPT ![y] = [order |-> o, state |-> IF s \in Final THEN "done" ELSE "live"]]
      BY <3>2 DEF RtnOrderNew
    <3>4. y = x /\ book'[x].order = o
      BY <2>3, <3>3 DEF TypeOK
    <3> QED BY <1>4, <3>2, <3>4 DEF RtnOrderNew
  <2> QED BY <2>2, <2>3
<1>5. ASSUME NEW i \in DOMAIN tunnel', tunnel'[i].type = "status", tunnel'[i].order # NoOrder
      PROVE  sent'[tunnel'[i].order] # 0 /\ tunnel'[i].session = sent'[tunnel'[i].order]
  <2>1. PICK m \in StatusMsg \cup DealMsg : tunnel'[i] = m
    BY DEF TypeOK
  <2>2. Own(m)'
    BY <2>1, TunnelStep
  <2> QED BY <1>5, <2>1, <2>2 DEF Own
<1> QED BY <1>2, <1>3, <1>4, <1>5 DEF SentOwn

-----------------------------------------------------------------------------
(* CTP answers an order before it is confirmed, and answers it once.        *)

\* What AnsweredFirst says of a message of the tunnel.
Answered(m) == m.type = "status" /\ m.order # NoOrder /\ ~Dropped(m) => m.order \in told

\* A step answers an order with the message it writes, or before.
LEMMA TunnelAnswered ==
    ASSUME TypeOK, AnsweredFirst, [Next]_vars, told \subseteq told'
    PROVE  \A m \in StatusMsg \cup DealMsg, i \in DOMAIN tunnel' : tunnel'[i] = m => Answered(m)'
<1> DEFINE Goal == \A m \in StatusMsg \cup DealMsg, i \in DOMAIN tunnel' : tunnel'[i] = m => Answered(m)'
<1>1. /\ tunnel \in Seq(StatusMsg \cup DealMsg)
      /\ \A m \in StatusMsg \cup DealMsg, i \in DOMAIN tunnel : tunnel[i] = m => Answered(m)'
  BY DEF TypeOK, AnsweredFirst, Answered, Dropped
<1>2. ASSUME tunnel' = tunnel PROVE Goal
  BY <1>1, <1>2
<1>3. ASSUME NEW m \in StatusMsg \cup DealMsg, Notify(m), Answered(m)' PROVE Goal
  <2>1. CASE tunnel' = tunnel
    BY <1>2, <2>1
  <2>2. CASE tunnel' = Append(tunnel, m)
    <3>1. \A i \in DOMAIN tunnel' : tunnel'[i] = m \/ (i \in DOMAIN tunnel /\ tunnel'[i] = tunnel[i])
      BY <1>1, <2>2
    <3>2. ASSUME NEW n \in StatusMsg \cup DealMsg, NEW i \in DOMAIN tunnel', tunnel'[i] = n
          PROVE  Answered(n)'
      <4>1. CASE n = m
        BY <1>3, <4>1
      <4>2. CASE n # m
        BY <1>1, <3>1, <3>2, <4>2
      <4> QED BY <4>1, <4>2
    <3> QED BY <3>2
  <2> QED BY <1>3, <2>1, <2>2 DEF Notify
<1>4. CASE AsyncLoop
  <2>1. tunnel' = Tail(tunnel) /\ tunnel # <<>>
    BY <1>4 DEF AsyncLoop, TypeOK
  <2>2. \A i \in DOMAIN tunnel' : i + 1 \in DOMAIN tunnel /\ tunnel'[i] = tunnel[i + 1]
    BY <1>1, <2>1
  <2>3. ASSUME NEW m \in StatusMsg \cup DealMsg, NEW i \in DOMAIN tunnel', tunnel'[i] = m
        PROVE  Answered(m)'
    BY <1>1, <2>2, <2>3
  <2> QED BY <2>3
<1>5. ASSUME NEW o \in Orders, NEW s \in Status, NEW b \in Submit, RtnOrderNoSys(o, s, b) PROVE Goal
  <2>1. PICK m \in StatusMsg : m = [type |-> "status", order |-> o, session |-> sent[o], sys |-> NoSys,
                                   status |-> s, submit |-> b]
    BY StatusIsMsg DEF TypeOK
  <2>2. Notify(m) /\ (s = "Unknown" \/ (s = "Canceled" /\ o \in told'))
    BY <1>5, <2>1 DEF RtnOrderNoSys
  <2>3. Answered(m)'
    BY <2>1, <2>2 DEF Answered, Dropped
  <2> QED BY <1>3, <2>1, <2>2, <2>3
<1>6. ASSUME NEW x \in SysIds, NEW o \in Orders \cup {NoOrder}, NEW s \in Status, RtnOrderNew(x, o, s)
      PROVE  Goal
  <2>1. PICK m \in StatusMsg : m = [type |-> "status", order |-> o,
                                   session |-> IF o = NoOrder THEN 0 ELSE sent[o],
                                   sys |-> x, status |-> s, submit |-> "Accepted"]
    <3>1. (IF o = NoOrder THEN 0 ELSE sent[o]) \in Sessions /\ "Accepted" \in Submit
      BY CtpTradeAssumption DEF TypeOK, Sessions
    <3> QED BY <3>1, StatusIsMsg
  <2>2. Notify(m) /\ (o # NoOrder => o \in told')
    BY <1>6, <2>1 DEF RtnOrderNew
  <2>3. Answered(m)'
    BY <2>1, <2>2 DEF Answered
  <2> QED BY <1>3, <2>1, <2>2, <2>3
<1>7. ASSUME NEW x \in SysIds, NEW s \in Status, NEW b \in Submit, RtnOrder(x, s, b) PROVE Goal
  <2> DEFINE o == book[x].order
  <2>1. o \in Orders \cup {NoOrder}
    BY DEF TypeOK
  <2>2. PICK m \in StatusMsg : m = StatusOf(x, s, b)
    <3>1. (IF o = NoOrder THEN 0 ELSE sent[o]) \in Sessions
      BY <2>1, CtpTradeAssumption DEF TypeOK, Sessions
    <3> QED BY <2>1, <3>1, StatusIsMsg DEF StatusOf
  <2>3. Notify(m) /\ (o # NoOrder => o \in told')
    BY <1>7, <2>2 DEF RtnOrder, AnsweredFirst
  <2>4. Answered(m)'
    BY <2>2, <2>3 DEF Answered, StatusOf
  <2> QED BY <1>3, <2>2, <2>3, <2>4
<1>8. ASSUME NEW x \in SysIds, RtnTrade(x) PROVE Goal
  <2> DEFINE m == [type |-> "deal", sys |-> x]
  <2>1. m \in DealMsg /\ Notify(m) /\ m.type = "deal"
    BY <1>8 DEF RtnTrade, DealMsg
  <2>2. Answered(m)'
    BY <2>1 DEF Answered
  <2> HIDE DEF m
  <2> QED BY <1>3, <2>1, <2>2
<1>9. ASSUME NEW o \in Orders, MessageLoop(o) PROVE Goal
  BY <1>2, <1>9 DEF MessageLoop, CheckReady, ConvertFailed, RecordOrder, ReqOrderInsert, ReqOrderInsertFailed
<1>10. CASE LinkLost \/ OnFrontDisconnected \/ OnRspUserLogin \/ TunnelRead \/ Clock \/ UNCHANGED vars
  BY <1>2, <1>10 DEF LinkLost, OnFrontDisconnected, OnRspUserLogin, TunnelRead, Clock, vars
<1>11. ASSUME NEW o \in Orders, OnRspOrderInsert(o) PROVE Goal
  BY <1>2, <1>11 DEF OnRspOrderInsert
<1> QED BY <1>4, <1>5, <1>6, <1>7, <1>8, <1>9, <1>10, <1>11 DEF Next, Callback

\* Each step answers an order no later than it confirms it.
LEMMA AnsweredStep ==
    ASSUME TypeOK, RecordOnce, AnsweredFirst, [Next]_vars, TypeOK'
    PROVE  AnsweredFirst' /\ told \subseteq told'
<1>1. told \subseteq told'
  BY DEF Next, vars, MessageLoop, CheckReady, ConvertFailed, RecordOrder, ReqOrderInsert,
         ReqOrderInsertFailed, LinkLost, Callback, OnFrontDisconnected, OnRspUserLogin,
         OnRspOrderInsert, RtnOrderNoSys, RtnOrderNew, RtnOrder, RtnTrade, TunnelRead,
         AsyncLoop, Clock, ctpVars
<1>2. ASSUME NEW o \in Orders, confirms'[o] = 1 PROVE o \in told'
  <2>1. CASE confirms'[o] = confirms[o]
    BY <1>1, <1>2, <2>1 DEF AnsweredFirst
  <2>2. CASE confirms'[o] # confirms[o] /\ AsyncLoop
    <3> DEFINE m == Head(tunnel)
    <3>1. 1 \in DOMAIN tunnel /\ m = tunnel[1]
      BY <2>2 DEF AsyncLoop, TypeOK
    <3>2. m.type = "status" /\ OnOrderStatus(m) /\ ~Dropped(m)
      BY <2>2 DEF AsyncLoop, OnOrderDeal, OnOrderStatus, sayVars
    <3>3. confirms' = [confirms EXCEPT ![m.order] = @ + 1]
      BY <2>2, <3>2 DEF OnOrderStatus
    <3>4. o = m.order /\ m.order # NoOrder
      BY <2>2, <3>3, CtpTradeAssumption DEF TypeOK
    <3> QED BY <1>1, <3>1, <3>2, <3>4 DEF AnsweredFirst
  <2>3. CASE confirms'[o] # confirms[o] /\ ~AsyncLoop
    <3>1. PICK p \in Orders : OnRspOrderInsert(p)
      BY <2>3 DEF Next, vars, MessageLoop, CheckReady, ConvertFailed, RecordOrder, ReqOrderInsert,
             ReqOrderInsertFailed, LinkLost, Callback, OnFrontDisconnected, OnRspUserLogin,
             RtnOrderNoSys, RtnOrderNew, RtnOrder, RtnTrade, TunnelRead, Clock, sayVars
    <3>2. p = o
      BY <2>3, <3>1 DEF OnRspOrderInsert, TypeOK
    <3> QED BY <3>1, <3>2 DEF OnRspOrderInsert
  <2> QED BY <2>1, <2>2, <2>3
<1>3. ASSUME NEW x \in SysIds, book'[x].order # NoOrder PROVE book'[x].order \in told'
  <2>1. CASE book'[x].order = book[x].order
    BY <1>1, <1>3, <2>1 DEF AnsweredFirst
  <2>2. CASE book'[x].order # book[x].order
    <3>1. ASSUME NEW y \in SysIds, NEW s \in Status, NEW b \in Submit, RtnOrder(y, s, b) PROVE FALSE
      <4>1. book' = [book EXCEPT ![y].state = IF s \in Final THEN "done" ELSE @]
        BY <3>1 DEF RtnOrder
      <4>2. book'[x].order = book[x].order
        BY <4>1 DEF TypeOK
      <4> QED BY <2>2, <4>2
    <3>2. PICK y \in SysIds, o \in Orders \cup {NoOrder}, s \in Status : RtnOrderNew(y, o, s)
      BY <2>2, <3>1 DEF Next, vars, MessageLoop, CheckReady, ConvertFailed, RecordOrder, ReqOrderInsert,
                ReqOrderInsertFailed, LinkLost, Callback, OnFrontDisconnected, OnRspUserLogin,
                OnRspOrderInsert, RtnOrderNoSys, RtnTrade, TunnelRead, AsyncLoop, Clock, ctpVars
    <3>3. book' = [book EXCEPT ![y] = [order |-> o, state |-> IF s \in Final THEN "done" ELSE "live"]]
      BY <3>2 DEF RtnOrderNew
    <3>4. y = x /\ book'[x].order = o
      BY <2>2, <3>3 DEF TypeOK
    <3> QED BY <1>3, <3>2, <3>4 DEF RtnOrderNew
  <2> QED BY <2>1, <2>2
<1>4. ASSUME NEW i \in DOMAIN tunnel', tunnel'[i].type = "status", tunnel'[i].order # NoOrder,
             ~Dropped(tunnel'[i])
      PROVE  tunnel'[i].order \in told'
  <2>1. PICK m \in StatusMsg \cup DealMsg : tunnel'[i] = m
    BY DEF TypeOK
  <2>2. Answered(m)'
    BY <1>1, <2>1, TunnelAnswered
  <2> QED BY <1>4, <2>1, <2>2 DEF Answered, Dropped
<1> QED BY <1>1, <1>2, <1>3, <1>4 DEF AnsweredFirst, Dropped

\* The record OnRspOrderInsert did not find is the one of another session, and stays.
LEMMA UnnamedStep ==
    ASSUME TypeOK, RecordOnce, ConfirmedOnce, SentOwn, TunnelOwn, AnsweredFirst, UnnamedIsMisfiled,
           [Next]_vars, TypeOK', RecordOnce', told \subseteq told'
    PROVE  UnnamedIsMisfiled'
<1> SUFFICES ASSUME NEW o \in unnamed'
             PROVE  /\ sent'[o] # 0 /\ o \in told' /\ confirms'[o] = 0
                    /\ \E s \in Sessions \ {sent'[o]} : <<o, s>> \in wait'
  BY DEF UnnamedIsMisfiled
<1>1. CASE o \in unnamed
  <2>1. PICK s \in Sessions \ {sent[o]} : <<o, s>> \in wait
    BY <1>1 DEF UnnamedIsMisfiled
  <2>2. o \in Orders /\ sent[o] # 0 /\ o \in told /\ sent'[o] = sent[o] /\ req[o] = "sent"
    BY <1>1, ExchangeKeeps DEF UnnamedIsMisfiled, TypeOK, SentOwn
  <2>3. <<o, s>> \in wait'
    BY <2>1, <2>2, RecordKeeps
  <2>4. confirms'[o] = 0
    BY <2>1, <2>2, <2>3 DEF RecordOnce
  <2> QED BY <2>1, <2>2, <2>3, <2>4
<1>2. CASE o \notin unnamed
  <2>1. PICK p \in Orders : OnRspOrderInsert(p)
    BY <1>2 DEF Next, vars, MessageLoop, CheckReady, ConvertFailed, RecordOrder, ReqOrderInsert,
           ReqOrderInsertFailed, LinkLost, Callback, OnFrontDisconnected, OnRspUserLogin,
           RtnOrderNoSys, RtnOrderNew, RtnOrder, RtnTrade, TunnelRead, AsyncLoop, OnOrderStatus,
           OnOrderDeal, Clock, sayVars
  <2>2. p = o /\ <<o, session>> \notin wait
    BY <1>2, <2>1 DEF OnRspOrderInsert
  <2>3. /\ sent[o] # 0 /\ sent' = sent /\ session = sent[o] /\ o \notin told /\ o \in told'
        /\ wait' = wait \ {<<o, session>>}
    BY <2>1, <2>2 DEF OnRspOrderInsert
  <2>4. PICK s \in Sessions : <<o, s>> \in wait
    BY <2>1, <2>2, <2>3 DEF SentOwn, AnsweredFirst
  <2>5. s # sent[o] /\ <<o, s>> \in wait'
    BY <2>2, <2>3, <2>4
  <2>6. confirms'[o] = 0
    BY <2>1, <2>2, <2>4, <2>5 DEF RecordOnce
  <2> QED BY <2>3, <2>4, <2>5, <2>6
<1> QED BY <1>1, <1>2

-----------------------------------------------------------------------------
(* The inductive invariant.                                                 *)

\* Every step keeps the whole.
LEMMA InvStep == Inv /\ [Next]_vars => Inv'
<1> SUFFICES ASSUME Inv, [Next]_vars PROVE Inv'
  OBVIOUS
<1> USE DEF Inv
<1>1. TypeOK'
  BY TypeStep
<1>2. RecordOnce' /\ ConfirmedOnce' /\ \A o \in Orders : confirms'[o] >= confirms[o]
  BY RecordStep
<1>3. \A o \in Orders : confirms[o] = 1 => confirms'[o] = 1
  BY <1>1, <1>2 DEF TypeOK, ConfirmedOnce
<1>4. SentOwn'
  BY <1>1, <1>3, SentStep
<1>5. TunnelOwn'
  <2>1. (\A i \in DOMAIN tunnel : Own(tunnel[i]))'
    <3>1. ASSUME NEW i \in DOMAIN tunnel' PROVE \E m \in StatusMsg \cup DealMsg : tunnel'[i] = m /\ Own(m)'
      <4>1. PICK m \in StatusMsg \cup DealMsg : tunnel'[i] = m
        BY <1>1 DEF TypeOK
      <4>2. Own(m)'
        BY <4>1, TunnelStep
      <4> QED BY <4>1, <4>2
    <3> QED BY <3>1 DEF Own
  <2> QED BY <1>1, <2>1, TunnelIsOwn, PTL
<1>6. MapsOwn'
  BY <1>3, MapsStep
<1>7. LastOwn' /\ IdsAreOwn'
  BY <1>3, LastStep
<1>8. AnsweredFirst' /\ told \subseteq told'
  BY <1>1, AnsweredStep
<1>9. UnnamedIsMisfiled'
  BY <1>1, <1>2, <1>8, UnnamedStep
<1> QED BY <1>1, <1>2, <1>4, <1>5, <1>6, <1>7, <1>8, <1>9

\* It holds at the start.
LEMMA InvInit == Init => Inv
<1> SUFFICES ASSUME Init PROVE Inv
  OBVIOUS
<1>1. TypeOK
  BY TypeInit
<1>2. RecordOnce /\ ConfirmedOnce /\ LastOwn /\ IdsAreOwn
  BY DEF Init, RecordOnce, ConfirmedOnce, LastOwn, IdsAreOwn
<1>3. TunnelOwn /\ MapsOwn /\ SentOwn /\ AnsweredFirst /\ UnnamedIsMisfiled
  BY DEF Init, TunnelOwn, MapsOwn, SentOwn, AnsweredFirst, UnnamedIsMisfiled
<1> QED BY <1>1, <1>2, <1>3 DEF Inv

\* Whatever the interleaving of the message loop, the callbacks and AsyncLoop,
\* however often the connection breaks: an order is confirmed at most once, and
\* records, tunnel, map and exchange tell the same of every order and every id.
THEOREM InvCorrect == Spec => []Inv
BY InvInit, InvStep, PTL DEF Spec

\* No order is confirmed twice, by OnRspOrderInsert and OnOrderStatus together.
THEOREM ConfirmedOnceCorrect == Spec => []ConfirmedOnce
<1>1. Inv => ConfirmedOnce
  BY DEF Inv
<1> QED BY <1>1, InvCorrect, PTL

\* No status and no deal carries the ids of another client's order.
THEOREM IdsAreOwnCorrect == Spec => []IdsAreOwn
<1>1. Inv => IdsAreOwn
  BY DEF Inv
<1> QED BY <1>1, InvCorrect, PTL

-----------------------------------------------------------------------------
(* What follows from it.                                                    *)

\* CleanOrderInfoMap forgets no id whose order is alive at the exchange, unless a
\* cancel of it was rejected.
THEOREM ForgottenCorrect == Spec => ForgottenWhenOver
<1> DEFINE Step == \A x \in SysIds : maps[x] # Absent /\ maps'[x] = Absent =>
                      book[x].state = "done" \/ x \in cancelRejected
<1>1. Inv /\ [Next]_vars => [Step]_vars
  <2> SUFFICES ASSUME Inv, [Next]_vars, NEW x \in SysIds, maps[x] # Absent, maps'[x] = Absent
               PROVE  Over(x)
    BY DEF Over
  <2>1. AsyncLoop
    BY DEF Next, vars, MessageLoop, CheckReady, ConvertFailed, RecordOrder, ReqOrderInsert,
           ReqOrderInsertFailed, LinkLost, Callback, OnFrontDisconnected, OnRspUserLogin,
           OnRspOrderInsert, RtnOrderNoSys, RtnOrderNew, RtnOrder, RtnTrade, TunnelRead,
           Clock, loopVars
  <2>2. \A o \in Orders : confirms[o] = 1 => confirms'[o] = 1
    <3>1. TypeOK' /\ ConfirmedOnce' /\ \A o \in Orders : confirms'[o] >= confirms[o]
      BY TypeStep, RecordStep DEF Inv
    <3> QED BY <3>1 DEF TypeOK, ConfirmedOnce
  <2> DEFINE e == MapsAfter(Head(tunnel))[x]
  <2>3. e # Absent /\ (e.ts # 0 => Over(x))
    BY <2>1, <2>2, MapsAfterOwn DEF Inv
  <2>4. maps'[x] = e \/ e.ts # 0
    BY <2>1 DEF AsyncLoop, ClearOrderInfoMap
  <2> QED BY <2>3, <2>4
<1> QED BY <1>1, InvCorrect, PTL DEF Spec, ForgottenWhenOver

\* A status is told of a confirmed order, or of one that is recorded under another
\* session than it went out in.
Known(o) == confirms[o] = 1 \/ \E s \in Sessions \ {sent[o]} : <<o, s>> \in wait

\* What is known of an order that went out stays known.
LEMMA KnownKeeps ==
    ASSUME Inv, [Next]_vars, NEW o \in Orders, sent[o] # 0, Known(o)
    PROVE  Known(o)'
<1> USE DEF Inv
<1>1. sent'[o] = sent[o] /\ req[o] = "sent"
  BY ExchangeKeeps DEF SentOwn
<1>2. CASE confirms[o] = 1
  <2>1. TypeOK' /\ ConfirmedOnce' /\ confirms'[o] >= confirms[o]
    BY TypeStep, RecordStep
  <2> QED BY <1>2, <2>1 DEF TypeOK, ConfirmedOnce, Known
<1>3. CASE \E s \in Sessions \ {sent[o]} : <<o, s>> \in wait
  BY <1>1, <1>3, RecordKeeps DEF Known
<1> QED BY <1>2, <1>3 DEF Known

\* The status AsyncLoop handles is of a known order.
LEMMA SessionStep == Inv /\ ConfirmedInSession /\ [Next]_vars => ConfirmedInSession'
<1> DEFINE o == OwnerOf(last.sys)
           Told == last # Nothing /\ last.msg = "orderstatus"
<1> SUFFICES ASSUME Inv, ConfirmedInSession, [Next]_vars, Told', o' # NoOrder
             PROVE  Known(o)'
  BY DEF ConfirmedInSession, Known
<1> USE DEF Inv
<1>1. \A y \in SysIds \cup {NoSys} :
          /\ OwnerOf(y) \in Orders \cup {NoOrder}
          /\ OwnerOf(y) # NoOrder => OwnerOf(y) \in Orders /\ sent[OwnerOf(y)] # 0
  BY DEF TypeOK, OwnerOf, SentOwn
<1>2. CASE last' = last
  <2>1. last.sys \in SysIds \cup {NoSys} /\ Told
    BY <1>2 DEF TypeOK
  <2>2. o' = o
    BY <1>2, <2>1, ExchangeKeeps DEF OwnerOf, LastOwn
  <2>3. Known(o)
    BY <2>1, <2>2 DEF ConfirmedInSession, Known
  <2>4. PICK p \in Orders : p = o /\ sent[p] # 0
    BY <1>1, <2>1, <2>2
  <2>5. Known(p)'
    BY <2>3, <2>4, KnownKeeps
  <2> QED BY <2>2, <2>4, <2>5 DEF Known
<1>3. CASE last' # last
  <2> DEFINE m == Head(tunnel)
  <2>1. AsyncLoop
    BY <1>3 DEF Next, vars, MessageLoop, CheckReady, ConvertFailed, RecordOrder, ReqOrderInsert,
           ReqOrderInsertFailed, LinkLost, Callback, OnFrontDisconnected, OnRspUserLogin,
           OnRspOrderInsert, RtnOrderNoSys, RtnOrderNew, RtnOrder, RtnTrade, TunnelRead,
           Clock, sayVars
  <2>2. 1 \in DOMAIN tunnel /\ m = tunnel[1] /\ m \in StatusMsg \cup DealMsg /\ book' = book /\ sent' = sent
    BY <2>1 DEF AsyncLoop, TypeOK, ctpVars
  <2>3. m.type = "status" /\ OnOrderStatus(m) /\ ~Dropped(m)
    BY <1>3, <2>1, <2>2 DEF AsyncLoop, OnOrderDeal, OnOrderStatus, sayVars
  <2>4. /\ last'.sys = m.sys /\ wait' = wait \ {<<m.order, m.session>>}
        /\ confirms' = IF Recorded(m) THEN [confirms EXCEPT ![m.order] = @ + 1] ELSE confirms
    BY <2>3 DEF OnOrderStatus
  <2>5. o' = OwnerOf(m.sys) /\ m.sys \in SysIds \cup {NoSys}
    BY <2>2, <2>4, MsgType DEF OwnerOf
  <2>6. PICK p \in Orders : p = o' /\ p = m.order /\ sent[p] # 0 /\ m.session = sent[p]
    <3>1. OwnerOf(m.sys) \in Orders /\ sent[OwnerOf(m.sys)] # 0 /\ OwnerOf(m.sys) # NoOrder
      BY <1>1, <2>5
    <3>2. m.order = OwnerOf(m.sys)
      BY <2>2, <2>3, <3>1 DEF TunnelOwn, OwnerOf
    <3>3. m.session = sent[m.order]
      BY <2>2, <2>3, <3>1, <3>2 DEF SentOwn
    <3> QED BY <2>5, <3>1, <3>2, <3>3
  <2>7. CASE Recorded(m)
    <3>1. confirms[p] = 0 /\ sent[p] \in Sessions
      BY <2>6, <2>7 DEF Recorded, RecordOnce, TypeOK
    <3>2. confirms'[p] = 1
      BY <2>4, <2>6, <2>7, <3>1 DEF TypeOK
    <3> QED BY <2>6, <3>2 DEF Known
  <2>8. CASE ~Recorded(m)
    <3>1. confirms' = confirms /\ wait' = wait /\ <<p, sent[p]>> \notin wait
      BY <2>4, <2>6, <2>8 DEF Recorded
    <3>2. confirms[p] = 1 \/ \E s \in Sessions : <<p, s>> \in wait
      BY <2>6 DEF SentOwn
    <3> QED BY <2>2, <2>6, <3>1, <3>2 DEF Known
  <2> QED BY <2>7, <2>8
<1> QED BY <1>2, <1>3

\* A status of a client's order is told only after the order was confirmed, unless
\* the order was recorded under another session than it was sent in: that window
\* between RecordOrder and ReqOrderInsert is the only one.
THEOREM ConfirmedInSessionCorrect == Spec => []ConfirmedInSession
<1>1. Init => ConfirmedInSession
  BY DEF Init, ConfirmedInSession
<1> QED BY <1>1, SessionStep, InvCorrect, PTL DEF Spec
=============================================================================
