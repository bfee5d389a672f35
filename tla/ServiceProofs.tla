--------------------------- MODULE ServiceProofs ----------------------------
(***************************************************************************)
(* Parts that stand alone: the klines of the quote service, the session of *)
(* the CTP gateway, and the conversions of the trade gateways.             *)
(*                                                                         *)
(* What KlineBuilder keeps holds for every set of instruments, minutes,    *)
(* prices and volumes: the klines are those of their minutes as long as no *)
(* two ticks are a day apart (OneDay); the volumes need no such            *)
(* assumption. For every number of retries and every bound the gateway of  *)
(* CtpLogin is ready in the session CTP granted last, and it gives up only *)
(* after the retries it promises, whenever the detached threads wake on    *)
(* the connection their logins were refused on.                            *)
(*                                                                         *)
(* For all texts, of any length, that ConversionsAssumption allows, an     *)
(* order does at the market what its direction says, notices and cancels   *)
(* are of that order, and a quote bears the topic it was subscribed by.    *)
(* The invariant says of what each text was made; what the conversions     *)
(* make of a text is in the lemmas before it.                              *)
(***************************************************************************)
EXTENDS KlineBuilder, CtpLogin, Conversions, QueueLemmas, TLAPS

-----------------------------------------------------------------------------
(* The klines: KlineBuilder.                                               *)

\* Between calls the history is that of the kline in the cache: nothing is
\* remembered without one, and its volume is that of the last tick.
HistoryInv ==
    \A k \in Keys :
        /\ ~Started(k) => bar[k] = <<>>
        /\ Started(k) => caches[k].kline.vol = feed[k].vol

\* The kline is stamped with the last tick taken.
StampInv ==
    \A k \in Keys : Started(k) => caches[k].kline.ts = bar[k][Len(bar[k])].ts

\* What the kline has beyond the volume it starts from was traded since.
TradedInv ==
    \A k \in Keys : Started(k) =>
        began[k] \/ caches[k].kline.vol - caches[k].start_vol = traded[k]

VolumeInv == TypeOK /\ HistoryInv /\ TradedInv
IInv      == VolumeInv /\ StampInv /\ CacheIsTheMinute

-----------------------------------------------------------------------------
\* Times, prices and volumes are integers.
LEMMA Ints == Minutes \subseteq Int /\ Prices \subseteq Int /\ Vols \subseteq Int
<1>1. Minutes \subseteq Int
  BY KlineBuilderAssumption
<1>2. Prices \subseteq Int
  BY KlineBuilderAssumption
<1>3. Vols \subseteq Int
  BY KlineBuilderAssumption
<1> QED BY <1>1, <1>2, <1>3

\* So are those of a tick.
LEMMA TickType ==
    ASSUME NEW md \in Tick
    PROVE  /\ md.ts \in Minutes /\ md.last \in Prices /\ md.vol \in Vols
           /\ md.ts \in Int /\ md.last \in Int /\ md.vol \in Int
<1>1. md.ts \in Minutes /\ md.last \in Prices /\ md.vol \in Vols
  BY DEF Tick
<1> QED BY <1>1, Ints

\* The volume of a kline can be replaced by another.
LEMMA KlineVol ==
    ASSUME NEW kl \in Kline, NEW d \in Int
    PROVE  [kl EXCEPT !.vol = @ - d] \in Kline
<1>1. kl.vol \in Int /\ kl.vol - d \in Int
  BY DEF Kline
<1> QED BY <1>1 DEF Kline

\* A kline made of one tick is a kline.
LEMMA KlineOfType ==
    ASSUME NEW md \in Tick
    PROVE  KlineOf(md) \in Kline
BY TickType DEF KlineOf, Kline

\* Widening keeps a kline a kline, and what widens is the high and low alone.
LEMMA WidenType ==
    ASSUME NEW kl \in Kline, NEW p \in Prices
    PROVE  /\ Widen(kl, p) \in Kline
           /\ Widen(kl, p).open = kl.open /\ Widen(kl, p).close = kl.close
           /\ Widen(kl, p).ts = kl.ts /\ Widen(kl, p).vol = kl.vol
           /\ Widen(kl, p).high = IF p > kl.high THEN p ELSE kl.high
           /\ Widen(kl, p).low = IF p < kl.low THEN p ELSE kl.low
BY DEF Widen, Kline

\* Recording a tick keeps the histories sequences of ticks.
LEMMA RecordType ==
    ASSUME NEW k \in Keys, NEW md \in Tick, Record(k, md),
           bar \in [Keys -> Seq(Tick)], prev \in [Keys -> Seq(Tick)]
    PROVE  bar' \in [Keys -> Seq(Tick)] /\ prev' \in [Keys -> Seq(Tick)]
<1> DEFINE b == bar[k]
           same == b # <<>> /\ b[Len(b)].ts = md.ts
<1>1. b \in Seq(Tick) /\ <<md>> \in Seq(Tick) /\ Append(b, md) \in Seq(Tick)
  OBVIOUS
<1>2. /\ bar' = [bar EXCEPT ![k] = IF same THEN Append(b, md) ELSE <<md>>]
      /\ prev' = [prev EXCEPT ![k] = IF same THEN @ ELSE b]
  BY DEF Record
<1> QED BY <1>1, <1>2

\* What the exchange trades between two ticks is an amount.
LEMMA TradedType ==
    ASSUME TypeOK, NEW k \in Keys, NEW md \in Tick
    PROVE  feed[k].vol \in Int /\ Traded(k, md) \in Int
<1>1. feed[k] \in Tick \cup {NoTick}
  BY DEF TypeOK
<1>2. feed[k].vol \in Int
  BY <1>1, TickType DEF NoTick
<1> QED BY <1>2, TickType DEF Traded

\* The histories of volumes keep their types.
LEMMA HistoryType ==
    ASSUME TypeOK, NEW k \in Keys, NEW n \in Int, NEW b \in BOOLEAN,
           traded' = [traded EXCEPT ![k] = n], began' = [began EXCEPT ![k] = b]
    PROVE  traded' \in [Keys -> Int] /\ began' \in [Keys -> BOOLEAN]
<1>1. traded' \in [Keys -> Int]
  BY DEF TypeOK
<1>2. began' \in [Keys -> BOOLEAN]
  BY Zenon DEF TypeOK
<1> QED BY <1>1, <1>2

\* The types of an initial state.
LEMMA InitType == Init => TypeOK
BY DEF Init, TypeOK, Cache, NoCache, NewCache, NoTick, Nothing

\* Every step keeps the types.
LEMMA StepType == TypeOK /\ [Next]_vars => TypeOK'
<1> SUFFICES ASSUME TypeOK, [Next]_vars PROVE TypeOK'
  OBVIOUS
<1>1. ASSUME NEW k \in Keys, Add(k) PROVE TypeOK'
  BY <1>1 DEF TypeOK, Add, historyVars, NewCache, NoCache
<1>2. ASSUME NEW k \in Keys, Del(k) PROVE TypeOK'
  BY <1>2 DEF TypeOK, Del, Forget
<1>3. ASSUME NEW k \in Keys, NEW md \in Tick, UpdateMarketData(k, md) PROVE TypeOK'
  <2>1. feed' \in [Keys -> Tick \cup {NoTick}]
    BY <1>3 DEF TypeOK, UpdateMarketData
  <2>2. CASE Ignored(k, md)
    BY <2>1, <2>2 DEF TypeOK, Ignored, historyVars
  <2>3. ASSUME Record(k, md) PROVE bar' \in [Keys -> Seq(Tick)] /\ prev' \in [Keys -> Seq(Tick)]
    BY <2>3, RecordType DEF TypeOK
  <2>4. md.vol \in Int /\ md.last \in Prices /\ md.ts \in Minutes
    BY TickType
  <2>5. CASE FirstUpdate(k, md)
    <3>1. [state |-> "started", start_vol |-> md.vol, kline |-> KlineOf(md)] \in Cache
      BY <2>4, KlineOfType DEF Cache
    <3>2. caches' \in [Keys -> {NoCache, NewCache} \cup Cache]
      BY <2>5, <3>1 DEF TypeOK, FirstUpdate
    <3>3. traded' \in [Keys -> Int] /\ began' \in [Keys -> BOOLEAN]
      <4>1. 0 \in Int /\ FALSE \in BOOLEAN
        OBVIOUS
      <4> QED BY <2>5, <4>1, HistoryType, Zenon DEF FirstUpdate
    <3> QED BY <2>1, <2>3, <2>4, <2>5, <3>2, <3>3 DEF TypeOK, FirstUpdate
  <2>6. ASSUME Started(k) PROVE caches[k] \in Cache
    <3>1. caches[k] \in {NoCache, NewCache} \cup Cache
      BY DEF TypeOK
    <3>2. NoCache.state # "started" /\ NewCache.state # "started"
      BY DEF NoCache, NewCache
    <3> QED BY <2>6, <3>1, <3>2 DEF Started
  <2>7. CASE FinishKline(k, md)
    <3> DEFINE c == caches[k]
               kl == [Widen(c.kline, md.last) EXCEPT !.vol = @ - c.start_vol]
    <3>1. c \in Cache /\ c.kline \in Kline /\ c.start_vol \in Int /\ c.kline.vol \in Int
      BY <2>6, <2>7 DEF FinishKline, Cache, Kline
    <3>2. kl \in Kline
      BY <3>1, <2>4, WidenType, KlineVol
    <3>3. [state |-> "started", start_vol |-> c.kline.vol, kline |-> KlineOf(md)] \in Cache
      BY <3>1, KlineOfType DEF Cache
    <3>4. result' \in Result
      BY <3>2, <2>7 DEF FinishKline, Result
    <3>5. caches' \in [Keys -> {NoCache, NewCache} \cup Cache]
      BY <2>7, <3>3 DEF TypeOK, FinishKline
    <3>6. traded' \in [Keys -> Int] /\ began' \in [Keys -> BOOLEAN]
      <4>1. DayBegan(k, md) \in BOOLEAN /\ Traded(k, md) \in Int
        BY TradedType DEF DayBegan
      <4> QED BY <2>7, <4>1, HistoryType, Zenon DEF FinishKline
    <3>7. Record(k, md)
      BY <2>7 DEF FinishKline
    <3> QED BY <2>1, <2>3, <3>4, <3>5, <3>6, <3>7 DEF TypeOK
  <2>8. CASE UpdateKline(k, md)
    <3> DEFINE c == caches[k]
               kl == [Widen(c.kline, md.last) EXCEPT !.close = md.last, !.ts = md.ts, !.vol = md.vol]
    <3>1. c \in Cache /\ c.kline \in Kline /\ c.start_vol \in Int
      BY <2>6, <2>8 DEF UpdateKline, Cache
    <3>2. kl \in Kline
      BY <3>1, <2>4, WidenType DEF Kline
    <3>3. [kl EXCEPT !.vol = @ - c.start_vol] \in Kline
      BY <3>1, <3>2, KlineVol
    <3>4. result' \in {Nothing} \cup Result
      BY <3>3, <2>8 DEF UpdateKline, Result
    <3>5. [c EXCEPT !.kline = kl] \in Cache
      BY <3>1, <3>2 DEF Cache
    <3>6. caches' = [caches EXCEPT ![k] = [c EXCEPT !.kline = kl]]
      BY <2>8, <3>1 DEF UpdateKline, Cache, TypeOK
    <3>7. caches' \in [Keys -> {NoCache, NewCache} \cup Cache]
      BY <3>5, <3>6 DEF TypeOK
    <3>8. traded' \in [Keys -> Int] /\ began' \in [Keys -> BOOLEAN]
      <4>1. PICK n, b : n = traded[k] + Traded(k, md) /\ b = (began[k] \/ DayBegan(k, md))
        OBVIOUS
      <4>2. n \in Int
        <5>1. traded[k] \in Int
          BY DEF TypeOK
        <5> QED BY <4>1, <5>1, TradedType
      <4>3. b \in BOOLEAN
        BY <4>1
      <4>4. traded' = [traded EXCEPT ![k] = n] /\ began' = [began EXCEPT ![k] = b]
        BY <2>8, <4>1, Zenon DEF UpdateKline
      <4> QED BY <4>2, <4>3, <4>4, HistoryType, Zenon
    <3>9. Record(k, md)
      BY <2>8 DEF UpdateKline
    <3> QED BY <2>1, <2>3, <3>4, <3>7, <3>8, <3>9 DEF TypeOK
  <2> QED BY <1>3, <2>2, <2>5, <2>7, <2>8 DEF UpdateMarketData
<1>4. CASE UNCHANGED vars
  BY <1>4 DEF TypeOK, vars, historyVars
<1> QED BY <1>1, <1>2, <1>3, <1>4 DEF Next

\* Every reachable state is of its type: in particular updateMarketData returns
\* a whole kline whenever it returns true.
THEOREM TypeCorrect == Spec => []TypeOK
BY InitType, StepType, PTL DEF Spec

-----------------------------------------------------------------------------
\* What a step does to the other instruments: nothing.
Untouched(k) ==
    \A j \in Keys \ {k} :
        /\ caches'[j] = caches[j] /\ feed'[j] = feed[j]
        /\ bar'[j] = bar[j] /\ prev'[j] = prev[j]
        /\ traded'[j] = traded[j] /\ began'[j] = began[j]

\* Adding or deleting an instrument leaves the others alone.
LEMMA AddDelUntouched ==
    ASSUME TypeOK, NEW k \in Keys, Add(k) \/ Del(k)
    PROVE  Untouched(k)
<1>1. CASE Add(k)
  BY <1>1 DEF TypeOK, Add, historyVars, Untouched
<1>2. CASE Del(k)
  BY <1>2 DEF TypeOK, Del, Forget, Untouched
<1> QED BY <1>1, <1>2

\* So does a tick.
LEMMA TickUntouched ==
    ASSUME TypeOK, NEW k \in Keys, NEW md \in Tick, UpdateMarketData(k, md)
    PROVE  Untouched(k) /\ feed'[k] = md
<1>1. feed'[k] = md /\ \A j \in Keys \ {k} : feed'[j] = feed[j]
  BY DEF TypeOK, UpdateMarketData
<1>2. ASSUME Record(k, md)
      PROVE  \A j \in Keys \ {k} : bar'[j] = bar[j] /\ prev'[j] = prev[j]
  BY <1>2 DEF TypeOK, Record
<1>3. CASE Ignored(k, md)
  BY <1>1, <1>3 DEF Ignored, historyVars, Untouched
<1>4. CASE FirstUpdate(k, md)
  BY <1>1, <1>2, <1>4 DEF FirstUpdate, TypeOK, Untouched
<1>5. CASE FinishKline(k, md)
  BY <1>1, <1>2, <1>5 DEF FinishKline, TypeOK, Untouched
<1>6. CASE UpdateKline(k, md)
  BY <1>1, <1>2, <1>6 DEF UpdateKline, TypeOK, Untouched
<1> QED BY <1>3, <1>4, <1>5, <1>6 DEF UpdateMarketData

\* An entry that took no tick is not started.
LEMMA NotStarted == NoCache.state # "started" /\ NewCache.state # "started"
BY DEF NoCache, NewCache

\* A new kline, field by field.
LEMMA NewFields ==
    ASSUME NEW md, NEW v, NEW c,
           c = [state |-> "started", start_vol |-> v, kline |-> KlineOf(md)]
    PROVE  /\ c.state = "started" /\ c.start_vol = v
           /\ c.kline.ts = md.ts /\ c.kline.vol = md.vol
           /\ c.kline.open = md.last /\ c.kline.close = md.last
           /\ c.kline.high = md.last /\ c.kline.low = md.last
BY DEF KlineOf

\* The cache of a started kline.
LEMMA StartedCache ==
    ASSUME TypeOK, NEW k \in Keys, Started(k)
    PROVE  /\ caches[k] \in Cache /\ caches[k].kline \in Kline
           /\ caches[k].start_vol \in Int /\ caches[k].kline.vol \in Int
<1>1. caches[k] \in {NoCache, NewCache} \cup Cache
  BY DEF TypeOK
<1>2. NoCache.state # "started" /\ NewCache.state # "started"
  BY DEF NoCache, NewCache
<1>3. caches[k] \in Cache
  BY <1>1, <1>2 DEF Started
<1> QED BY <1>3 DEF Cache, Kline

\* The three ways a tick is taken, as what they leave in the cache of its key.
LEMMA FirstUpdateCache ==
    ASSUME TypeOK, NEW k \in Keys, NEW md \in Tick, FirstUpdate(k, md)
    PROVE  /\ caches'[k] = [state |-> "started", start_vol |-> md.vol, kline |-> KlineOf(md)]
           /\ traded'[k] = 0
           /\ ~Started(k) /\ Record(k, md)
BY DEF TypeOK, FirstUpdate, NewCache, Started

LEMMA FinishKlineCache ==
    ASSUME TypeOK, NEW k \in Keys, NEW md \in Tick, FinishKline(k, md)
    PROVE  /\ caches'[k] = [state |-> "started", start_vol |-> caches[k].kline.vol,
                            kline |-> KlineOf(md)]
           /\ traded'[k] = Traded(k, md) /\ (began'[k] <=> DayBegan(k, md))
           /\ Started(k) /\ Record(k, md)
BY DEF TypeOK, FinishKline

LEMMA UpdateKlineCache ==
    ASSUME TypeOK, NEW k \in Keys, NEW md \in Tick, UpdateKline(k, md)
    PROVE  /\ caches'[k] = [caches[k] EXCEPT
                !.kline = [Widen(@, md.last) EXCEPT !.close = md.last, !.ts = md.ts, !.vol = md.vol]]
           /\ traded'[k] = traded[k] + Traded(k, md)
           /\ (began'[k] <=> began[k] \/ DayBegan(k, md))
           /\ Started(k) /\ Record(k, md)
<1>1. caches[k] \in Cache
  BY StartedCache DEF UpdateKline
<1> QED BY <1>1 DEF TypeOK, UpdateKline, Cache

\* An updated cache, field by field.
LEMMA UpdatedFields ==
    ASSUME TypeOK, NEW k \in Keys, NEW md \in Tick, UpdateKline(k, md)
    PROVE  /\ caches'[k].state = "started"
           /\ caches'[k].start_vol = caches[k].start_vol
           /\ caches'[k].kline.ts = md.ts /\ caches'[k].kline.vol = md.vol
           /\ caches'[k].kline.open = caches[k].kline.open
           /\ caches'[k].kline.close = md.last
           /\ caches'[k].kline.high = IF md.last > caches[k].kline.high
                                      THEN md.last ELSE caches[k].kline.high
           /\ caches'[k].kline.low = IF md.last < caches[k].kline.low
                                     THEN md.last ELSE caches[k].kline.low
<1> DEFINE c == caches[k]
           w == Widen(c.kline, md.last)
           kl == [w EXCEPT !.close = md.last, !.ts = md.ts, !.vol = md.vol]
<1>1. Started(k) /\ caches'[k] = [c EXCEPT !.kline = kl]
  BY UpdateKlineCache
<1>2. c \in Cache /\ c.kline \in Kline /\ c.state = "started"
  BY <1>1, StartedCache DEF Started
<1>3. md.last \in Prices
  BY TickType
<1>4. /\ w \in Kline /\ w.open = c.kline.open
      /\ w.high = IF md.last > c.kline.high THEN md.last ELSE c.kline.high
      /\ w.low = IF md.last < c.kline.low THEN md.last ELSE c.kline.low
  BY <1>2, <1>3, WidenType
<1> HIDE DEF w
<1>5. /\ kl.open = w.open /\ kl.high = w.high /\ kl.low = w.low
      /\ kl.close = md.last /\ kl.ts = md.ts /\ kl.vol = md.vol
  BY <1>4 DEF Kline
<1> HIDE DEF kl
<1>6. caches'[k].kline = kl /\ caches'[k].start_vol = c.start_vol /\ caches'[k].state = c.state
  BY <1>1, <1>2 DEF Cache
<1> QED BY <1>2, <1>4, <1>5, <1>6

-----------------------------------------------------------------------------
\* Nothing is lost or counted twice in an initial state.
LEMMA InitVolume == Init => VolumeInv
<1>1. Init => \A k \in Keys : caches[k] = NoCache /\ bar[k] = <<>>
  BY DEF Init
<1>2. Init => \A k \in Keys : ~Started(k) /\ bar[k] = <<>>
  BY <1>1, NotStarted DEF Started
<1> QED BY <1>2, InitType DEF VolumeInv, HistoryInv, TradedInv

\* A volume that ends one kline begins the next.
LEMMA StepVolume == VolumeInv /\ [Next]_vars => VolumeInv'
<1> SUFFICES ASSUME VolumeInv, [Next]_vars PROVE HistoryInv' /\ TradedInv'
  BY StepType DEF VolumeInv
<1> USE DEF VolumeInv
<1>1. ASSUME NEW k \in Keys, Untouched(k),
             ~Started(k)' => bar'[k] = <<>>,
             Started(k)' =>
                 /\ caches'[k].kline.vol = feed'[k].vol
                 /\ began'[k] \/ caches'[k].kline.vol - caches'[k].start_vol = traded'[k]
      PROVE  HistoryInv' /\ TradedInv'
  BY <1>1 DEF Untouched, HistoryInv, TradedInv, Started
<1>2. ASSUME NEW k \in Keys, Add(k) PROVE HistoryInv' /\ TradedInv'
  <2>1. /\ bar' = bar /\ feed' = feed /\ traded' = traded /\ began' = began
        /\ caches'[k] = IF caches[k] = NoCache THEN NewCache ELSE caches[k]
    BY <1>2 DEF Add, historyVars, TypeOK
  <2>2. Started(k)' <=> Started(k)
    BY <2>1, NotStarted DEF Started
  <2>3. Started(k) => caches'[k] = caches[k]
    BY <2>1, NotStarted DEF Started
  <2> QED BY <2>1, <2>2, <2>3, <1>2, <1>1, AddDelUntouched DEF HistoryInv, TradedInv
<1>3. ASSUME NEW k \in Keys, Del(k) PROVE HistoryInv' /\ TradedInv'
  <2>1. bar'[k] = <<>> /\ ~Started(k)'
    BY <1>3 DEF Del, Forget, TypeOK, Started, NoCache
  <2> QED BY <2>1, <1>3, <1>1, AddDelUntouched
<1>4. ASSUME NEW k \in Keys, NEW md \in Tick, UpdateMarketData(k, md)
      PROVE  HistoryInv' /\ TradedInv'
  <2> USE <1>4
  <2>1. Untouched(k) /\ feed'[k] = md /\ md.vol \in Int
    BY TickUntouched, TickType
  <2>2. CASE Ignored(k, md)
    <3>1. ~Started(k) /\ ~Started(k)' /\ bar'[k] = bar[k]
      BY <2>2 DEF Ignored, historyVars, Started, NoCache
    <3> QED BY <3>1, <2>1, <1>1 DEF HistoryInv
  <2>3. CASE FirstUpdate(k, md)
    <3>1. /\ Started(k)' /\ caches'[k].kline.vol = md.vol /\ caches'[k].start_vol = md.vol
          /\ traded'[k] = 0
      <4>1. caches'[k] = [state |-> "started", start_vol |-> md.vol, kline |-> KlineOf(md)]
        BY <2>3, FirstUpdateCache
      <4>2. /\ caches'[k].state = "started" /\ caches'[k].start_vol = md.vol
            /\ caches'[k].kline.vol = md.vol
        BY <4>1, NewFields
      <4> QED BY <2>3, <4>2, FirstUpdateCache DEF Started
    <3> QED BY <3>1, <2>1, <1>1
  <2>4. CASE FinishKline(k, md)
    <3>1. /\ Started(k)' /\ caches'[k].kline.vol = md.vol
          /\ caches'[k].start_vol = caches[k].kline.vol
          /\ traded'[k] = Traded(k, md) /\ (began'[k] <=> DayBegan(k, md))
          /\ Started(k)
      <4>1. caches'[k] = [state |-> "started", start_vol |-> caches[k].kline.vol,
                          kline |-> KlineOf(md)]
        BY <2>4, FinishKlineCache
      <4>2. /\ caches'[k].state = "started" /\ caches'[k].start_vol = caches[k].kline.vol
            /\ caches'[k].kline.vol = md.vol
        BY <4>1, NewFields
      <4> QED BY <2>4, <4>2, FinishKlineCache DEF Started
    <3>2. caches[k].kline.vol = feed[k].vol
      BY <3>1 DEF HistoryInv
    <3>3. DayBegan(k, md) \/ Traded(k, md) = md.vol - feed[k].vol
      BY DEF Traded
    <3>4. began'[k] \/ caches'[k].kline.vol - caches'[k].start_vol = traded'[k]
      BY <3>1, <3>2, <3>3
    <3> QED BY <3>1, <3>4, <2>1, <1>1
  <2>5. CASE UpdateKline(k, md)
    <3>1. /\ Started(k)' /\ Started(k) /\ caches'[k].kline.vol = md.vol
          /\ caches'[k].start_vol = caches[k].start_vol
          /\ traded'[k] = traded[k] + Traded(k, md)
          /\ (began'[k] <=> began[k] \/ DayBegan(k, md))
      BY <2>5, UpdatedFields, UpdateKlineCache DEF Started
    <3>2. /\ caches[k].kline.vol \in Int /\ caches[k].start_vol \in Int
          /\ traded[k] \in Int
      BY <3>1, StartedCache DEF TypeOK
    <3>3. /\ caches[k].kline.vol = feed[k].vol
          /\ began[k] \/ caches[k].kline.vol - caches[k].start_vol = traded[k]
      BY <3>1 DEF HistoryInv, TradedInv
    <3>4. DayBegan(k, md) \/ Traded(k, md) = md.vol - feed[k].vol
      BY DEF Traded
    <3>5. began'[k] \/ caches'[k].kline.vol - caches'[k].start_vol = traded'[k]
      BY <3>1, <3>2, <3>3, <3>4, <2>1
    <3> QED BY <3>1, <3>5, <2>1, <1>1
  <2> QED BY <2>2, <2>3, <2>4, <2>5 DEF UpdateMarketData
<1>5. CASE UNCHANGED vars
  BY <1>5 DEF vars, historyVars, HistoryInv, TradedInv, Started
<1> QED BY <1>2, <1>3, <1>4, <1>5 DEF Next

\* What VolumeIsTraded says of one step.
VolumeStep ==
    result'.ret =>
        LET k == result'.key IN
        IF result'.finished THEN began[k] \/ result'.kline.vol = traded[k]
        ELSE began'[k] \/ result'.kline.vol = traded'[k]

\* The kline that a tick makes updateMarketData return.
LEMMA VolumeTold ==
    ASSUME VolumeInv, VolumeInv', NEW k \in Keys, NEW md \in Tick, UpdateMarketData(k, md)
    PROVE  VolumeStep
<1> USE DEF VolumeInv
<1>1. CASE result' = Nothing
  BY <1>1 DEF VolumeStep, Nothing
<1>2. CASE FinishKline(k, md)
  <2> DEFINE c == caches[k]
             w == Widen(c.kline, md.last)
             kl == [w EXCEPT !.vol = @ - c.start_vol]
  <2>1. Started(k) /\ result' = [ret |-> TRUE, key |-> k, finished |-> TRUE, kline |-> kl]
    BY <1>2 DEF FinishKline
  <2>2. c.kline \in Kline /\ w \in Kline /\ w.vol = c.kline.vol
    BY <2>1, StartedCache, TickType, WidenType
  <2> HIDE DEF w
  <2>3. kl.vol = c.kline.vol - c.start_vol
    BY <2>2 DEF Kline
  <2>4. began[k] \/ c.kline.vol - c.start_vol = traded[k]
    BY <2>1 DEF TradedInv
  <2> HIDE DEF kl
  <2> QED BY <2>1, <2>3, <2>4 DEF VolumeStep
<1>3. CASE UpdateKline(k, md)
  <2> DEFINE c == caches[k]
             new == [Widen(c.kline, md.last) EXCEPT !.close = md.last, !.ts = md.ts, !.vol = md.vol]
             kl == [new EXCEPT !.vol = @ - c.start_vol]
  <2>1. c \in Cache /\ c.kline \in Kline
    BY <1>3, StartedCache DEF UpdateKline
  <2>2. Widen(c.kline, md.last) \in Kline /\ md.last \in Prices /\ md.ts \in Minutes /\ md.vol \in Int
    BY <2>1, TickType, WidenType
  <2>3. new \in Kline /\ new.vol = md.vol
    BY <2>2 DEF Kline
  <2>4. result' \in {Nothing, [ret |-> TRUE, key |-> k, finished |-> FALSE, kline |-> kl]}
    BY <1>3 DEF UpdateKline
  <2> HIDE DEF new
  <2>5. kl.vol = md.vol - c.start_vol
    BY <2>3 DEF Kline
  <2> HIDE DEF kl
  <2>6. Started(k)' /\ caches'[k].kline.vol = md.vol /\ caches'[k].start_vol = c.start_vol
    BY <1>3, UpdatedFields DEF Started
  <2>7. began'[k] \/ kl.vol = traded'[k]
    BY <2>5, <2>6 DEF TradedInv
  <2> QED BY <1>1, <2>4, <2>7 DEF VolumeStep
<1> QED BY <1>1, <1>2, <1>3 DEF UpdateMarketData, Ignored, FirstUpdate

\* Every kline that is pushed has the volume traded since the end of the minute before,
\* whatever the clock does, unless a trading day began in that time.
THEOREM VolumeIsTradedCorrect == Spec => VolumeIsTraded
<1>1. ASSUME VolumeInv, VolumeInv', [Next]_vars PROVE VolumeStep \/ UNCHANGED vars
  <2>1. ASSUME NEW k \in Keys, Add(k) \/ Del(k) PROVE VolumeStep
    BY <2>1 DEF Add, Del, Nothing, VolumeStep
  <2> QED BY <1>1, <2>1, VolumeTold DEF Next
<1>2. VolumeInv /\ VolumeInv' /\ [Next]_vars => [VolumeStep]_vars
  BY <1>1
<1>3. [][VolumeStep]_vars => VolumeIsTraded
  BY PTL DEF VolumeIsTraded, VolumeStep
<1> QED BY <1>2, <1>3, InitVolume, StepVolume, PTL DEF Spec

-----------------------------------------------------------------------------
\* The bar after a tick that was taken: one longer in the same minute, new in
\* another.
LEMMA RecordedBar ==
    ASSUME TypeOK, NEW k \in Keys, NEW md \in Tick, Record(k, md)
    PROVE  LET b == bar[k]
               same == b # <<>> /\ b[Len(b)].ts = md.ts IN
           /\ bar'[k] = IF same THEN Append(b, md) ELSE <<md>>
           /\ prev'[k] = IF same THEN prev[k] ELSE b
BY DEF TypeOK, Record

\* A kline of one tick.
LEMMA SingleBar ==
    ASSUME NEW md \in Tick, NEW kl, kl.open = md.last, kl.close = md.last,
           kl.high = md.last, kl.low = md.last
    PROVE  OpenCloseOf(kl, <<md>>) /\ HighLowOf(kl, <<md>>)
<1>1. md.last \in Int
  BY TickType
<1>2. Len(<<md>>) = 1 /\ <<md>>[1] = md
  OBVIOUS
<1>3. 1 \in 1..Len(<<md>>) /\ \A n \in 1..Len(<<md>>) : n = 1
  BY <1>2
<1> HIDE <1>2
<1>4. \A n \in 1..Len(<<md>>) : <<md>>[n].last = md.last
  BY <1>2, <1>3
<1> QED BY <1>1, <1>2, <1>3, <1>4 DEF OpenCloseOf, HighLowOf

\* A kline of some ticks, widened by one more.
LEMMA AppendBar ==
    ASSUME NEW b \in Seq(Tick), b # <<>>, NEW md \in Tick,
           NEW kl \in Kline, OpenCloseOf(kl, b), HighLowOf(kl, b),
           NEW new, new.open = kl.open, new.close = md.last,
           new.high = IF md.last > kl.high THEN md.last ELSE kl.high,
           new.low = IF md.last < kl.low THEN md.last ELSE kl.low
    PROVE  OpenCloseOf(new, Append(b, md)) /\ HighLowOf(new, Append(b, md))
<1> DEFINE a == Append(b, md)
<1>1. /\ Len(a) = Len(b) + 1 /\ Len(b) \in Nat \ {0}
      /\ a[Len(a)] = md /\ \A n \in 1..Len(b) : a[n] = b[n]
  OBVIOUS
<1>2. \A n \in 1..Len(b) : b[n] \in Tick
  OBVIOUS
<1>3. \A n \in 1..Len(b) : b[n].last \in Int
  BY <1>2, TickType
<1>4. md.last \in Int /\ kl.high \in Int /\ kl.low \in Int
  BY TickType, Ints DEF Kline
<1> HIDE DEF a
<1>5. OpenCloseOf(new, a)
  BY <1>1 DEF OpenCloseOf
<1>6. ASSUME NEW n \in 1..Len(a)
      PROVE  new.low <= a[n].last /\ a[n].last <= new.high
  <2>1. CASE n = Len(a)
    BY <2>1, <1>1, <1>4
  <2>2. CASE n # Len(a)
    <3>1. n \in 1..Len(b)
      BY <2>2, <1>1
    <3>2. kl.low <= b[n].last /\ b[n].last <= kl.high
      BY <3>1 DEF HighLowOf
    <3> QED BY <3>1, <3>2, <1>1, <1>3, <1>4
  <2> QED BY <2>1, <2>2
<1>7. \E n \in 1..Len(a) : a[n].last = new.high
  <2>1. CASE md.last > kl.high
    BY <2>1, <1>1
  <2>2. CASE ~(md.last > kl.high)
    <3>1. PICK n \in 1..Len(b) : b[n].last = kl.high
      BY DEF HighLowOf
    <3> QED BY <3>1, <2>2, <1>1
  <2> QED BY <2>1, <2>2
<1>8. \E n \in 1..Len(a) : a[n].last = new.low
  <2>1. CASE md.last < kl.low
    BY <2>1, <1>1
  <2>2. CASE ~(md.last < kl.low)
    <3>1. PICK n \in 1..Len(b) : b[n].last = kl.low
      BY DEF HighLowOf
    <3> QED BY <3>1, <2>2, <1>1
  <2> QED BY <2>1, <2>2
<1> QED BY <1>5, <1>6, <1>7, <1>8 DEF a, HighLowOf

\* What CacheIsTheMinute and StampInv say of one instrument.
MinuteOf(k) ==
    Started(k) =>
        LET kl == caches[k].kline
            b == bar[k] IN
        /\ b # <<>> /\ kl.ts = b[1].ts /\ kl.ts = b[Len(b)].ts /\ kl.vol = b[Len(b)].vol
        /\ OpenCloseOf(kl, b) /\ HighLowOf(kl, b)

LEMMA MinuteOfAll == CacheIsTheMinute /\ StampInv <=> \A k \in Keys : MinuteOf(k)
BY DEF CacheIsTheMinute, StampInv, MinuteOf

LEMMA MinuteOfAllPrimed == CacheIsTheMinute' /\ StampInv' <=> \A k \in Keys : MinuteOf(k)'
BY DEF CacheIsTheMinute, StampInv, MinuteOf, Started

\* The kline a finished one makes room for, or the first, is that of its tick.
LEMMA NewMinute ==
    ASSUME NEW k \in Keys, NEW md \in Tick, NEW v, bar'[k] = <<md>>,
           caches'[k] = [state |-> "started", start_vol |-> v, kline |-> KlineOf(md)]
    PROVE  MinuteOf(k)'
<1>1. /\ caches'[k].kline.ts = md.ts /\ caches'[k].kline.vol = md.vol
      /\ caches'[k].kline.open = md.last /\ caches'[k].kline.close = md.last
      /\ caches'[k].kline.high = md.last /\ caches'[k].kline.low = md.last
  BY NewFields
<1>2. OpenCloseOf(caches'[k].kline, bar'[k]) /\ HighLowOf(caches'[k].kline, bar'[k])
  BY <1>1, SingleBar
<1>3. bar'[k] # <<>> /\ bar'[k][1] = md /\ bar'[k][Len(bar'[k])] = md
  OBVIOUS
<1> QED BY <1>1, <1>2, <1>3 DEF MinuteOf, OpenCloseOf, HighLowOf

\* A tick is in the minute of the kline exactly when the code says so.
LEMMA SameMinute ==
    ASSUME OneDay, TypeOK, NEW k \in Keys, NEW md \in Tick, Started(k), MinuteOf(k)
    PROVE  MinuteUpdate(k, md) <=> bar[k][Len(bar[k])].ts # md.ts
<1>1. caches[k].kline.ts \in Minutes /\ md.ts \in Minutes
  BY StartedCache, TickType DEF Kline
<1> QED BY <1>1 DEF OneDay, MinuteUpdate, MinuteOf

\* A finished kline leaves its minute behind as prev.
LEMMA FinishedBar ==
    ASSUME OneDay, TypeOK, NEW k \in Keys, NEW md \in Tick, FinishKline(k, md), MinuteOf(k)
    PROVE  bar'[k] = <<md>> /\ prev'[k] = bar[k]
<1>1. bar[k][Len(bar[k])].ts # md.ts
  BY SameMinute DEF FinishKline
<1> QED BY <1>1, FinishKlineCache, RecordedBar

\* An updated kline keeps its minute.
LEMMA UpdatedBar ==
    ASSUME OneDay, TypeOK, NEW k \in Keys, NEW md \in Tick, UpdateKline(k, md), MinuteOf(k)
    PROVE  /\ bar[k] # <<>> /\ bar[k] \in Seq(Tick) /\ bar[k][Len(bar[k])].ts = md.ts
           /\ bar'[k] = Append(bar[k], md)
<1>1. bar[k] # <<>> /\ bar[k][Len(bar[k])].ts = md.ts /\ Record(k, md)
  BY SameMinute, UpdateKlineCache DEF UpdateKline, MinuteOf
<1> QED BY <1>1, RecordedBar DEF TypeOK

LEMMA UpdatedMinute ==
    ASSUME OneDay, TypeOK, NEW k \in Keys, NEW md \in Tick, UpdateKline(k, md), MinuteOf(k)
    PROVE  MinuteOf(k)'
<1> DEFINE b == bar[k]
           kl == caches[k].kline
           new == caches'[k].kline
<1>1. b \in Seq(Tick) /\ b # <<>> /\ b[Len(b)].ts = md.ts /\ bar'[k] = Append(b, md)
  BY UpdatedBar
<1>2. Started(k) /\ kl \in Kline /\ OpenCloseOf(kl, b) /\ HighLowOf(kl, b) /\ b[1].ts = kl.ts /\ b[Len(b)].ts = kl.ts
  BY UpdateKlineCache, StartedCache DEF MinuteOf
<1>3. /\ new.ts = md.ts /\ new.vol = md.vol /\ new.open = kl.open /\ new.close = md.last
      /\ new.high = IF md.last > kl.high THEN md.last ELSE kl.high
      /\ new.low = IF md.last < kl.low THEN md.last ELSE kl.low
  BY UpdatedFields
<1> HIDE DEF b, kl, new
<1>4. OpenCloseOf(new, Append(b, md)) /\ HighLowOf(new, Append(b, md))
  BY <1>1, <1>2, <1>3, AppendBar
<1>5. /\ Append(b, md) # <<>> /\ Append(b, md)[1] = b[1]
      /\ Append(b, md)[Len(Append(b, md))] = md
  BY <1>1
<1>6. new.ts = b[1].ts
  BY <1>1, <1>2, <1>3
<1> QED BY <1>1, <1>3, <1>4, <1>5, <1>6 DEF MinuteOf, OpenCloseOf, HighLowOf, new

-----------------------------------------------------------------------------
LEMMA InitMinute == Init => IInv
<1>1. Init => \A k \in Keys : caches[k] = NoCache
  BY DEF Init
<1>2. Init => \A k \in Keys : ~Started(k)
  BY <1>1, NotStarted DEF Started
<1>3. Init => StampInv /\ CacheIsTheMinute
  BY <1>2 DEF StampInv, CacheIsTheMinute
<1> QED BY <1>3, InitVolume DEF IInv

\* Every step keeps each kline that of its minute.
LEMMA StepMinute ==
    ASSUME OneDay, TypeOK, HistoryInv, \A k \in Keys : MinuteOf(k), [Next]_vars
    PROVE  \A k \in Keys : MinuteOf(k)'
<1>1. ASSUME NEW k \in Keys, Untouched(k), MinuteOf(k)' PROVE \A j \in Keys : MinuteOf(j)'
  <2>1. ASSUME NEW j \in Keys \ {k} PROVE MinuteOf(j)'
    <3>1. caches'[j] = caches[j] /\ bar'[j] = bar[j] /\ MinuteOf(j)
      BY <1>1, <2>1 DEF Untouched
    <3> QED BY <3>1 DEF MinuteOf, Started, OpenCloseOf, HighLowOf
  <2> QED BY <1>1, <2>1
<1>2. ASSUME NEW k \in Keys, Add(k) PROVE \A j \in Keys : MinuteOf(j)'
  <2>1. bar' = bar /\ caches'[k] = IF caches[k] = NoCache THEN NewCache ELSE caches[k]
    BY <1>2 DEF Add, historyVars, TypeOK
  <2>2. (Started(k)' => Started(k)) /\ (Started(k) => caches'[k] = caches[k])
    BY <2>1, NotStarted DEF Started
  <2>3. MinuteOf(k)'
    BY <2>1, <2>2 DEF MinuteOf, OpenCloseOf, HighLowOf
  <2> QED BY <2>3, <1>1, <1>2, AddDelUntouched
<1>3. ASSUME NEW k \in Keys, Del(k) PROVE \A j \in Keys : MinuteOf(j)'
  <2>1. caches'[k] = NoCache
    BY <1>3 DEF Del, TypeOK
  <2>2. MinuteOf(k)'
    BY <2>1, NotStarted DEF MinuteOf, Started
  <2> QED BY <2>2, <1>1, <1>3, AddDelUntouched
<1>4. ASSUME NEW k \in Keys, NEW md \in Tick, UpdateMarketData(k, md)
      PROVE  \A j \in Keys : MinuteOf(j)'
  <2>1. Untouched(k)
    BY <1>4, TickUntouched
  <2>2. CASE Ignored(k, md)
    <3>1. caches'[k] = NoCache
      BY <2>2 DEF Ignored
    <3> QED BY <3>1, <2>1, <1>1, NotStarted DEF MinuteOf, Started
  <2>3. CASE FirstUpdate(k, md)
    <3>1. /\ caches'[k] = [state |-> "started", start_vol |-> md.vol, kline |-> KlineOf(md)]
          /\ ~Started(k) /\ Record(k, md)
      BY <2>3, FirstUpdateCache
    <3>2. bar'[k] = <<md>>
      BY <3>1, RecordedBar DEF HistoryInv
    <3> QED BY <3>1, <3>2, <2>1, <1>1, NewMinute
  <2>4. CASE FinishKline(k, md)
    <3>1. bar'[k] = <<md>>
      BY <2>4, FinishedBar
    <3> QED BY <3>1, <2>1, <2>4, <1>1, FinishKlineCache, NewMinute
  <2>5. CASE UpdateKline(k, md)
    BY <2>5, <2>1, <1>1, UpdatedMinute
  <2> QED BY <1>4, <2>2, <2>3, <2>4, <2>5 DEF UpdateMarketData
<1>5. CASE UNCHANGED vars
  BY <1>5 DEF vars, historyVars, MinuteOf, Started, OpenCloseOf, HighLowOf
<1> QED BY <1>2, <1>3, <1>4, <1>5 DEF Next

LEMMA StepIInv == ASSUME OneDay PROVE IInv /\ [Next]_vars => IInv'
<1> SUFFICES ASSUME IInv, [Next]_vars PROVE IInv'
  OBVIOUS
<1>1. TypeOK /\ HistoryInv /\ \A k \in Keys : MinuteOf(k)
  BY MinuteOfAll DEF IInv, VolumeInv
<1>2. \A k \in Keys : MinuteOf(k)'
  BY <1>1, StepMinute
<1>3. VolumeInv'
  BY StepVolume DEF IInv
<1> QED BY <1>2, <1>3, MinuteOfAllPrimed DEF IInv

\* As long as no two ticks are a day apart, the kline in the cache is that of
\* all ticks of its minute, however often its key was added and deleted.
THEOREM CacheIsTheMinuteCorrect == ASSUME OneDay PROVE Spec => []CacheIsTheMinute
<1>1. IInv => CacheIsTheMinute
  BY DEF IInv
<1>2. IInv /\ [Next]_vars => IInv'
  BY StepIInv
<1> QED BY <1>1, <1>2, InitMinute, PTL DEF Spec

\* So is a finished kline as far as its open and close go.
LEMMA StepFinished ==
    ASSUME OneDay PROVE IInv /\ FinishedOpenClose /\ [Next]_vars => FinishedOpenClose'
<1> SUFFICES ASSUME IInv, FinishedOpenClose, [Next]_vars PROVE FinishedOpenClose'
  OBVIOUS
<1>1. TypeOK /\ \A k \in Keys : MinuteOf(k)
  BY MinuteOfAll DEF IInv, VolumeInv
<1>2. ASSUME result' = Nothing PROVE FinishedOpenClose'
  BY <1>2 DEF FinishedOpenClose, Nothing
<1>3. ASSUME NEW k \in Keys, NEW md \in Tick, FinishKline(k, md) PROVE FinishedOpenClose'
  <2> DEFINE c == caches[k]
             w == Widen(c.kline, md.last)
             kl == [w EXCEPT !.vol = @ - c.start_vol]
  <2>1. Started(k) /\ result' = [ret |-> TRUE, key |-> k, finished |-> TRUE, kline |-> kl]
    BY <1>3 DEF FinishKline
  <2>2. prev'[k] = bar[k]
    BY <1>1, <1>3, FinishedBar
  <2>3. c.kline \in Kline /\ OpenCloseOf(c.kline, bar[k])
    BY <1>1, <2>1, StartedCache DEF MinuteOf
  <2>4. w \in Kline /\ w.open = c.kline.open /\ w.close = c.kline.close
    BY <2>3, TickType, WidenType
  <2> HIDE DEF w
  <2>5. kl.open = w.open /\ kl.close = w.close
    BY <2>4 DEF Kline
  <2> HIDE DEF kl
  <2> QED BY <2>1, <2>2, <2>3, <2>4, <2>5 DEF FinishedOpenClose, OpenCloseOf
<1>4. ASSUME NEW k \in Keys, NEW md \in Tick, UpdateKline(k, md) PROVE FinishedOpenClose'
  BY <1>4 DEF UpdateKline, FinishedOpenClose, Nothing
<1>5. CASE UNCHANGED vars
  BY <1>5 DEF vars, historyVars, FinishedOpenClose, OpenCloseOf
<1> QED BY <1>2, <1>3, <1>4, <1>5
        DEF Next, Add, Del, UpdateMarketData, Ignored, FirstUpdate

THEOREM FinishedOpenCloseCorrect == ASSUME OneDay PROVE Spec => []FinishedOpenClose
<1>1. Init => FinishedOpenClose
  BY DEF Init, FinishedOpenClose, Nothing
<1>2. IInv /\ FinishedOpenClose /\ [Next]_vars => FinishedOpenClose'
  BY StepFinished
<1>3. IInv /\ [Next]_vars => IInv'
  BY StepIInv
<1> QED BY <1>1, <1>2, <1>3, InitMinute, PTL DEF Spec

\* Its high and low are those of the minute widened by the tick that ends it.
LEMMA StepHighLow ==
    ASSUME OneDay PROVE IInv /\ FinishedHighLow /\ [Next]_vars => FinishedHighLow'
<1> SUFFICES ASSUME IInv, FinishedHighLow, [Next]_vars PROVE FinishedHighLow'
  OBVIOUS
<1>1. TypeOK /\ \A k \in Keys : MinuteOf(k)
  BY MinuteOfAll DEF IInv, VolumeInv
<1>2. ASSUME result' = Nothing PROVE FinishedHighLow'
  BY <1>2 DEF FinishedHighLow, Nothing
<1>3. ASSUME NEW k \in Keys, NEW md \in Tick, FinishKline(k, md) PROVE FinishedHighLow'
  <2> DEFINE c == caches[k]
             b == bar[k]
             w == Widen(c.kline, md.last)
             v == [w EXCEPT !.close = md.last]
             kl == [w EXCEPT !.vol = @ - c.start_vol]
  <2>1. Started(k) /\ result' = [ret |-> TRUE, key |-> k, finished |-> TRUE, kline |-> kl]
    BY <1>3 DEF FinishKline
  <2>2. prev'[k] = b /\ bar'[k] = <<md>>
    BY <1>1, <1>3, FinishedBar
  <2>3. c.kline \in Kline /\ OpenCloseOf(c.kline, b) /\ HighLowOf(c.kline, b) /\ b # <<>> /\ b \in Seq(Tick)
    BY <1>1, <2>1, StartedCache DEF MinuteOf, TypeOK
  <2>4. /\ w \in Kline /\ w.open = c.kline.open
        /\ w.high = IF md.last > c.kline.high THEN md.last ELSE c.kline.high
        /\ w.low = IF md.last < c.kline.low THEN md.last ELSE c.kline.low
    BY <2>3, TickType, WidenType
  <2> HIDE DEF w, b
  <2>5. v.open = w.open /\ v.close = md.last /\ v.high = w.high /\ v.low = w.low
    BY <2>4 DEF Kline
  <2>6. kl.high = w.high /\ kl.low = w.low
    BY <2>4 DEF Kline
  <2> HIDE DEF v
  <2>7. HighLowOf(v, Append(b, md))
    BY <2>3, <2>4, <2>5, AppendBar
  <2> HIDE DEF kl
  <2>8. HighLowOf(kl, Append(b, md))
    BY <2>5, <2>6, <2>7 DEF HighLowOf
  <2>9. bar'[k][1] = md
    BY <2>2
  <2>10. b # <<>> /\ b \in Seq(Tick)
    BY <2>3
  <2>11. \A n \in 1..Len(b) : n \in 1..Len(Append(b, md)) /\ Append(b, md)[n] = b[n]
    BY <2>10
  <2>12. /\ \A n \in 1..Len(b) : kl.low <= b[n].last /\ b[n].last <= kl.high
         /\ \E n \in 1..Len(Append(b, md)) : Append(b, md)[n].last = kl.high
         /\ \E n \in 1..Len(Append(b, md)) : Append(b, md)[n].last = kl.low
    BY <2>8, <2>11 DEF HighLowOf
  <2> QED BY <2>1, <2>2, <2>9, <2>12 DEF FinishedHighLow
<1>4. ASSUME NEW k \in Keys, NEW md \in Tick, UpdateKline(k, md) PROVE FinishedHighLow'
  BY <1>4 DEF UpdateKline, FinishedHighLow, Nothing
<1>5. CASE UNCHANGED vars
  BY <1>5 DEF vars, historyVars, FinishedHighLow
<1> QED BY <1>2, <1>3, <1>4, <1>5
        DEF Next, Add, Del, UpdateMarketData, Ignored, FirstUpdate

\* A kline that updateMarketData returns as finished is that of its minute, but for a
\* high or a low that the first price of the next minute may have replaced.
THEOREM FinishedKlineCorrect == ASSUME OneDay PROVE Spec => []FinishedKline
<1>1. Init => FinishedHighLow
  BY DEF Init, FinishedHighLow, Nothing
<1>2. IInv /\ FinishedHighLow /\ [Next]_vars => FinishedHighLow'
  BY StepHighLow
<1>3. IInv /\ [Next]_vars => IInv'
  BY StepIInv
<1>4. FinishedOpenClose /\ FinishedHighLow => FinishedKline
  BY DEF FinishedKline
<1> QED BY <1>1, <1>2, <1>3, <1>4, InitMinute, FinishedOpenCloseCorrect, PTL DEF Spec

\* A kline pushed within its minute is the one in the cache but for its volume.
LEMMA StepSoFar == ASSUME OneDay PROVE IInv /\ PushedSoFar /\ [Next]_vars => PushedSoFar'
<1> SUFFICES ASSUME IInv, PushedSoFar, [Next]_vars PROVE PushedSoFar'
  OBVIOUS
<1>1. TypeOK /\ (\A k \in Keys : MinuteOf(k)) /\ \A k \in Keys : MinuteOf(k)'
  BY MinuteOfAll, StepMinute DEF IInv, VolumeInv
<1>2. ASSUME result' = Nothing PROVE PushedSoFar'
  BY <1>2 DEF PushedSoFar, Nothing
<1>3. ASSUME NEW k \in Keys, NEW md \in Tick, FinishKline(k, md) PROVE PushedSoFar'
  BY <1>3 DEF FinishKline, PushedSoFar
<1>4. ASSUME NEW k \in Keys, NEW md \in Tick, UpdateKline(k, md) PROVE PushedSoFar'
  <2> DEFINE c == caches[k]
             new == [Widen(c.kline, md.last) EXCEPT !.close = md.last, !.ts = md.ts, !.vol = md.vol]
             kl == [new EXCEPT !.vol = @ - c.start_vol]
  <2>1. c \in Cache /\ c.kline \in Kline
    BY <1>1, <1>4, StartedCache DEF UpdateKline
  <2>2. Widen(c.kline, md.last) \in Kline /\ md.last \in Prices /\ md.ts \in Minutes /\ md.vol \in Int
    BY <2>1, TickType, WidenType
  <2>3. new \in Kline
    BY <2>2 DEF Kline
  <2>4. caches'[k] = [c EXCEPT !.kline = new] /\ Started(k)
    BY <1>1, <1>4, UpdateKlineCache
  <2>5. result' \in {Nothing, [ret |-> TRUE, key |-> k, finished |-> FALSE, kline |-> kl]}
    BY <1>4 DEF UpdateKline
  <2> HIDE DEF new
  <2>6. kl.open = new.open /\ kl.close = new.close /\ kl.high = new.high /\ kl.low = new.low
    BY <2>3 DEF Kline
  <2>7. caches'[k].kline = new /\ Started(k)'
    BY <2>1, <2>4 DEF Cache, Started
  <2>8. OpenCloseOf(new, bar'[k]) /\ HighLowOf(new, bar'[k])
    BY <1>1, <2>7 DEF MinuteOf, OpenCloseOf, HighLowOf
  <2> HIDE DEF kl
  <2>9. OpenCloseOf(kl, bar'[k]) /\ HighLowOf(kl, bar'[k])
    BY <2>6, <2>8 DEF OpenCloseOf, HighLowOf
  <2> QED BY <2>5, <2>9 DEF PushedSoFar, OpenCloseOf, HighLowOf, Nothing
<1>5. CASE UNCHANGED vars
  BY <1>5 DEF vars, historyVars, PushedSoFar, OpenCloseOf, HighLowOf
<1> QED BY <1>2, <1>3, <1>4, <1>5
        DEF Next, Add, Del, UpdateMarketData, Ignored, FirstUpdate

THEOREM PushedSoFarCorrect == ASSUME OneDay PROVE Spec => []PushedSoFar
<1>1. Init => PushedSoFar
  BY DEF Init, PushedSoFar, Nothing
<1>2. IInv /\ PushedSoFar /\ [Next]_vars => PushedSoFar'
  BY StepSoFar
<1>3. IInv /\ [Next]_vars => IInv'
  BY StepIInv
<1> QED BY <1>1, <1>2, <1>3, InitMinute, PTL DEF Spec

\* A price outside a high and low that are those of some ticks is outside all of
\* their prices.
LEMMA OutsideAll ==
    ASSUME NEW b \in Seq(Tick), NEW kl \in Kline, HighLowOf(kl, b), NEW p \in Int
    PROVE  /\ p > kl.high <=> \A n \in 1..Len(b) : p > b[n].last
           /\ p < kl.low <=> \A n \in 1..Len(b) : p < b[n].last
<1>1. \A n \in 1..Len(b) : b[n] \in Tick
  OBVIOUS
<1>2. \A n \in 1..Len(b) : b[n].last \in Int
  BY <1>1, TickType
<1>3. kl.high \in Int /\ kl.low \in Int
  BY Ints DEF Kline
<1>4. \A n \in 1..Len(b) : kl.low <= b[n].last /\ b[n].last <= kl.high
  BY DEF HighLowOf
<1>5. PICK h \in 1..Len(b) : b[h].last = kl.high
  BY DEF HighLowOf
<1>6. PICK l \in 1..Len(b) : b[l].last = kl.low
  BY DEF HighLowOf
<1> QED BY <1>2, <1>3, <1>4, <1>5, <1>6

\* What PushedWhenNew says of one instrument and one step.
PushedNow(k) ==
    LET b == bar[k]  md == bar'[k][Len(bar'[k])] IN
    result'.ret <=> \/ Len(bar'[k]) = 1
                    \/ \A n \in 1..Len(b) : md.last > b[n].last
                    \/ \A n \in 1..Len(b) : md.last < b[n].last

LEMMA UpdatePushes ==
    ASSUME OneDay, TypeOK, NEW k \in Keys, NEW md \in Tick, UpdateKline(k, md), MinuteOf(k)
    PROVE  PushedNow(k)
<1> DEFINE b == bar[k]
           kl == caches[k].kline
<1>1. b \in Seq(Tick) /\ b # <<>> /\ bar'[k] = Append(b, md)
  BY UpdatedBar
<1>2. kl \in Kline /\ HighLowOf(kl, b)
  BY UpdateKlineCache, StartedCache DEF MinuteOf
<1>3. Len(Append(b, md)) # 1 /\ Append(b, md)[Len(Append(b, md))] = md
  BY <1>1
<1>4. result'.ret <=> ValUpdate(k, md)
  BY DEF UpdateKline, Nothing
<1>5. md.last \in Int
  BY TickType
<1>6. /\ md.last > kl.high <=> \A n \in 1..Len(b) : md.last > b[n].last
      /\ md.last < kl.low <=> \A n \in 1..Len(b) : md.last < b[n].last
  BY <1>1, <1>2, <1>5, OutsideAll
<1> QED BY <1>1, <1>3, <1>4, <1>6 DEF PushedNow, ValUpdate

\* A kline is pushed at the first tick of a minute and at each that exceeds what
\* the minute saw before, and at no other.
THEOREM PushedWhenNewCorrect == ASSUME OneDay PROVE Spec => PushedWhenNew
<1>1. ASSUME IInv, [Next]_vars
      PROVE  [\A k \in Keys : Started(k) /\ bar'[k] # bar[k] /\ bar'[k] # <<>> =>
                LET b == bar[k]  md == bar'[k][Len(bar'[k])] IN
                result'.ret <=> \/ Len(bar'[k]) = 1
                                \/ \A n \in 1..Len(b) : md.last > b[n].last
                                \/ \A n \in 1..Len(b) : md.last < b[n].last]_vars
  <2> SUFFICES ASSUME Next, NEW k \in Keys, Started(k), bar'[k] # bar[k], bar'[k] # <<>>
               PROVE  PushedNow(k)
    BY <1>1 DEF PushedNow
  <2>1. TypeOK /\ MinuteOf(k)
    BY <1>1, MinuteOfAll DEF IInv, VolumeInv
  <2>2. ~ \E j \in Keys : Add(j) \/ Del(j)
    <3>1. ASSUME NEW j \in Keys, Add(j) PROVE FALSE
      BY <3>1 DEF Add, historyVars
    <3>2. ASSUME NEW j \in Keys, Del(j) PROVE FALSE
      BY <3>2, <2>1 DEF Del, Forget, TypeOK
    <3> QED BY <3>1, <3>2
  <2>3. PICK j \in Keys, md \in Tick : UpdateMarketData(j, md)
    BY <2>2 DEF Next
  <2>4. UpdateMarketData(k, md)
    <3>1. Untouched(j)
      BY <2>1, <2>3, TickUntouched
    <3> QED BY <2>3, <3>1 DEF Untouched
  <2>5. ~Ignored(k, md) /\ ~FirstUpdate(k, md)
    BY <2>1, FirstUpdateCache DEF Ignored, historyVars
  <2>6. CASE FinishKline(k, md)
    <3>1. bar'[k] = <<md>> /\ result'.ret
      BY <2>1, <2>6, FinishedBar DEF FinishKline
    <3> QED BY <3>1 DEF PushedNow
  <2>7. CASE UpdateKline(k, md)
    BY <2>1, <2>7, UpdatePushes
  <2> QED BY <2>4, <2>5, <2>6, <2>7 DEF UpdateMarketData
<1>2. IInv /\ [Next]_vars => IInv'
  BY StepIInv
<1> QED BY <1>1, <1>2, InitMinute, PTL DEF Spec, PushedWhenNew

-----------------------------------------------------------------------------
(* The session: CtpLogin.                                                  *)

(* The callbacks the API has still to make.                                 *)

\* What is due after one callback more.
LEMMA Appended ==
    ASSUME NEW S, NEW s \in Seq(S), NEW x, NEW r, r = Append(s, x)
    PROVE  /\ x \in S => r \in Seq(S)
           /\ r # <<>> /\ Len(s) \in Nat /\ Len(r) = Len(s) + 1
           /\ DOMAIN s = 1..Len(s) /\ DOMAIN r = 1..(Len(s) + 1)
           /\ \A i \in 1..Len(s) : r[i] = s[i]
           /\ r[Len(s) + 1] = x
OBVIOUS

\* What is due after the first was made.
LEMMA Removed ==
    ASSUME NEW S, NEW s \in Seq(S), s # <<>>, NEW r, r = Tail(s)
    PROVE  /\ r \in Seq(S) /\ Len(s) \in Nat /\ Len(s) >= 1 /\ Len(r) = Len(s) - 1
           /\ Head(s) = s[1] /\ Head(s) \in S
           /\ DOMAIN s = 1..Len(s) /\ DOMAIN r = 1..(Len(s) - 1)
           /\ \A i \in 1..(Len(s) - 1) : r[i] = s[i + 1]
           /\ r # <<>> => Len(s) >= 2
OBVIOUS

-----------------------------------------------------------------------------
(* The type invariant.                                                      *)

LEMMA TypeStep == ASSUME LoginTypeOK, EndIsLast, [LoginNext]_loginVars PROVE LoginTypeOK'
<1> USE CtpLoginAssumption
<1>1. Seq(Rsp) # {} /\ wire \in Seq({"auth", "login"}) /\ rsps \in Seq(Rsp)
  BY DEF LoginTypeOK
<1>2. PICK W : /\ W = Seq({"auth", "login"}) /\ wire \in W /\ <<>> \in W
               /\ \A r \in {"auth", "login"} : Append(wire, r) \in W
  <2>1. PICK A : A = {"auth", "login"}
    OBVIOUS
  <2>2. wire \in Seq(A)
    BY <1>1, <2>1
  <2>3. <<>> \in Seq(A) /\ \A r \in A : Append(wire, r) \in Seq(A)
    BY <2>2
  <2> QED BY <2>1, <2>2, <2>3
<1>3. ASSUME NEW op, Callback(op)
      PROVE  /\ rsps' \in Seq(Rsp) /\ Head(rsps) \in Rsp /\ Head(rsps).op = op /\ epoch >= 1
             /\ UNCHANGED <<link, epoch, granted, refusals, sessions, stale>>
  <2>1. rsps # <<>> /\ rsps' = Tail(rsps) /\ Head(rsps).op = op /\ UNCHANGED <<link, epoch, granted, refusals, sessions, stale>>
    BY <1>3 DEF Callback, ctpVars, countVars
  <2>2. rsps' \in Seq(Rsp) /\ Head(rsps) \in Rsp
    BY <1>1, <2>1, Removed
  <2> QED BY <2>1, <2>2 DEF EndIsLast, LoginTypeOK
<1>4. CASE OnFrontConnected \/ OnRspAuthenticate \/ OnFrontDisconnected
  <2>1. \E op : Callback(op)
    BY <1>4, Zenon DEF OnFrontConnected, OnRspAuthenticate, OnFrontDisconnected
  <2>2. wire' \in W
    BY <1>2, <1>4, Zenon DEF OnFrontConnected, OnRspAuthenticate, OnFrontDisconnected, Send
  <2>3. api_ready' \in BOOLEAN /\ session' \in 0..MaxSession
    <3>1. (api_ready' = api_ready /\ session' = session) \/ (api_ready' = FALSE /\ session' = 0)
      BY <1>4, Zenon DEF OnFrontConnected, OnRspAuthenticate, OnFrontDisconnected, ClearConnectionInfo
    <3>2. 0 \in 0..MaxSession /\ session \in 0..MaxSession /\ api_ready \in BOOLEAN
      BY DEF LoginTypeOK
    <3> QED BY <3>1, <3>2, Zenon
  <2>4. exited' \in {"no", "auth", "login"} /\ UNCHANGED <<req_login_cnt, threads, retried>>
    BY <1>4 DEF LoginTypeOK, OnFrontConnected, OnRspAuthenticate, OnFrontDisconnected
  <2> QED BY <1>2, <1>3, <2>1, <2>2, <2>3, <2>4 DEF LoginTypeOK
<1>5. CASE OnRspUserLogin
  <2>1. CASE Callback("refused") /\ threads' = threads \cup {[n |-> Head(rsps).n, epoch |-> epoch, at |-> "check", got |-> 0]}
             /\ UNCHANGED <<api_ready, session, req_login_cnt, exited, wire, retried>>
    <3>1. Head(rsps) \in Rsp /\ Head(rsps).op = "refused" /\ epoch >= 1
      BY <1>3, <2>1
    <3>2. Head(rsps).n \in 1..MaxRefused
      BY <3>1 DEF Rsp
    <3>3. epoch \in 1..MaxBreaks + 1
      BY <3>1 DEF LoginTypeOK
    <3>4. [n |-> Head(rsps).n, epoch |-> epoch, at |-> "check", got |-> 0] \in Thread
      BY <3>2, <3>3 DEF Thread
    <3> QED BY <1>3, <2>1, <3>4 DEF LoginTypeOK
  <2>2. CASE Callback("login") /\ FillConnectionInfo(Head(rsps).session) /\ retried' = 0
             /\ UNCHANGED <<threads, exited, wire>>
    <3>1. Head(rsps) \in Rsp /\ Head(rsps).op = "login"
      BY <1>3, <2>2
    <3>2. Head(rsps).session \in 1..MaxSession
      BY <3>1 DEF Rsp
    <3> QED BY <1>3, <2>2, <3>2 DEF LoginTypeOK, FillConnectionInfo
  <2> QED BY <1>5, <2>1, <2>2 DEF OnRspUserLogin
<1>6. ASSUME NEW t \in threads, Check(t) \/ Wake(t) \/ Retry(t) PROVE LoginTypeOK'
  <2>1. t \in Thread /\ t.got \in Nat
    BY DEF LoginTypeOK, Thread
  <2>2. [t EXCEPT !.at = "sleep"] \in Thread /\ [t EXCEPT !.at = "store", !.got = req_login_cnt] \in Thread
    BY <2>1 DEF Thread, LoginTypeOK
  <2>3. threads' \subseteq Thread
    BY <1>6, <2>2 DEF LoginTypeOK, Check, Wake, Retry
  <2>4. wire' \in W
    BY <1>2, <1>6, Zenon DEF Check, Wake, Retry, Send
  <2>5. req_login_cnt' \in Nat /\ retried' \in Nat
    <3>1. \/ UNCHANGED <<req_login_cnt, retried>>
          \/ req_login_cnt' = t.got + 1 /\ retried' = retried + 1
      BY <1>6, Zenon DEF Check, Wake, Retry
    <3> QED BY <2>1, <3>1 DEF LoginTypeOK
  <2>6. exited' \in {"no", "auth", "login"} /\ UNCHANGED <<api_ready, session, ctpVars, rsps, countVars>>
    BY <1>6 DEF LoginTypeOK, Check, Wake, Retry
  <2>7. stale' \in BOOLEAN
    BY <1>6, Zenon DEF LoginTypeOK, Check, Wake, Retry
  <2> QED BY <1>2, <2>3, <2>4, <2>5, <2>6, <2>7 DEF LoginTypeOK, ctpVars, countVars
<1>7. CASE Connect \/ Break
  <2>1. rsps' \in Seq(Rsp)
    <3>1. Rsps("connected") \in Rsp /\ Rsps("disconnected") \in Rsp
      BY DEF Rsps, Rsp
    <3> QED BY <1>1, <1>7, <3>1, Appended DEF Connect, Break
  <2>2. epoch' \in 0..MaxBreaks + 1 /\ granted' \in 0..MaxSession
    BY <1>7 DEF LoginTypeOK, EndIsLast, Connect, Break
  <2>3. wire' \in W
    BY <1>2, <1>7 DEF Connect, Break
  <2>4. link' \in BOOLEAN
    BY <1>7 DEF Connect, Break
  <2> QED BY <1>2, <1>7, <2>1, <2>2, <2>3, <2>4 DEF LoginTypeOK, Connect, Break, countVars
<1>8. CASE ServeAuth \/ Grant \/ Refuse
  <2>1. \E x \in Rsp : rsps' = Append(rsps, x)
    <3>1. CASE ServeAuth
      <4>1. \A op \in {"auth", "authrefused"} : Rsps(op) \in Rsp
        BY DEF Rsps, Rsp
      <4> QED BY <3>1, <4>1 DEF ServeAuth
    <3>2. CASE Grant
      <4>1. sessions + 1 \in 1..MaxSession
        BY <3>2 DEF Grant, LoginTypeOK
      <4>2. [op |-> "login", session |-> sessions + 1] \in Rsp
        BY <4>1 DEF Rsp
      <4> QED BY <3>2, <4>2 DEF Grant
    <3>3. CASE Refuse
      <4>1. refusals + 1 \in 1..MaxRefused
        BY <3>3 DEF Refuse, LoginTypeOK
      <4>2. [op |-> "refused", n |-> refusals + 1] \in Rsp
        BY <4>1 DEF Rsp
      <4> QED BY <3>3, <4>2 DEF Refuse
    <3> QED BY <1>8, <3>1, <3>2, <3>3
  <2>2. rsps' \in Seq(Rsp)
    BY <1>1, <2>1, Appended
  <2>3. wire' \in Seq({"auth", "login"}) /\ UNCHANGED <<api_ready, session, req_login_cnt, threads, exited, link, epoch, retried, stale>>
    <3>1. \E r : Served(r)
      BY <1>8, Zenon DEF ServeAuth, Grant, Refuse
    <3>2. wire # <<>> /\ wire' = Tail(wire)
      BY <3>1 DEF Served
    <3> QED BY <1>1, <3>1, <3>2, Removed DEF Served
  <2>4. granted' \in 0..MaxSession /\ refusals' \in 0..MaxRefused /\ sessions' \in 0..MaxSession
    BY <1>8 DEF LoginTypeOK, ServeAuth, Grant, Refuse, countVars
  <2> QED BY <2>2, <2>3, <2>4 DEF LoginTypeOK
<1>9. CASE UNCHANGED loginVars
  BY <1>9 DEF LoginTypeOK, loginVars, ctpVars, countVars
<1> QED BY <1>4, <1>5, <1>6, <1>7, <1>8, <1>9 DEF LoginNext

-----------------------------------------------------------------------------
(* What a step does to the callbacks that are due.                          *)

LEMMA CallbackFacts ==
    ASSUME LoginTypeOK, NEW op, Callback(op)
    PROVE  /\ exited = "no" /\ rsps # <<>> /\ Head(rsps) = rsps[1] /\ rsps[1].op = op /\ 1 \in DOMAIN rsps
           /\ Head(rsps) \in Rsp
           /\ UNCHANGED <<link, epoch, granted, stale>>
           /\ \A i \in DOMAIN rsps' : i + 1 \in DOMAIN rsps /\ i + 1 # 1 /\ i + 1 > 1 /\ rsps'[i] = rsps[i + 1]
           /\ \A i \in DOMAIN rsps' : i + 1 = Len(rsps) => i = Len(rsps')
           /\ \A i \in DOMAIN rsps : i = 1 \/ (i - 1 \in DOMAIN rsps' /\ rsps'[i - 1] = rsps[i])
           /\ \A i, j \in DOMAIN rsps' : (i + 1 = j + 1 => i = j) /\ (j > i <=> j + 1 > i + 1)
           /\ \A i \in DOMAIN rsps' : \A j \in DOMAIN rsps : j > i + 1 => j # 1 /\ j - 1 > i
           /\ rsps' # <<>> => rsps'[Len(rsps')] = rsps[Len(rsps)]
<1>1. rsps \in Seq(Rsp) /\ rsps # <<>> /\ rsps' = Tail(rsps)
  BY DEF LoginTypeOK, Callback
<1>2. PICK s, r, n : s = rsps /\ r = rsps' /\ n = Len(rsps)
  OBVIOUS
<1>3. /\ n \in Nat /\ n >= 1 /\ Len(r) = n - 1 /\ Len(s) = n
      /\ Head(s) = s[1] /\ Head(s) \in Rsp
      /\ DOMAIN s = 1..n /\ DOMAIN r = 1..(n - 1)
      /\ \A i \in 1..(n - 1) : r[i] = s[i + 1]
      /\ r # <<>> => n >= 2
  BY <1>1, <1>2, Removed
<1>4. \A i \in DOMAIN r : i + 1 \in DOMAIN s /\ i + 1 # 1 /\ i + 1 > 1 /\ r[i] = s[i + 1] /\ (i + 1 = n => i = n - 1)
  BY <1>3
<1>5. \A i \in DOMAIN s : i = 1 \/ (i - 1 \in DOMAIN r /\ r[i - 1] = s[i])
  BY <1>3
<1>6. \A i, j \in DOMAIN r : (i + 1 = j + 1 => i = j) /\ (j > i <=> j + 1 > i + 1)
  BY <1>3
<1>7. \A i \in DOMAIN r : \A j \in DOMAIN s : j > i + 1 => j # 1 /\ j - 1 > i
  BY <1>3
<1>8. r # <<>> => r[Len(r)] = s[n]
  BY <1>3
<1>9. exited = "no" /\ Head(rsps).op = op /\ UNCHANGED <<link, epoch, granted, stale>>
  BY DEF Callback, ctpVars
<1>10. 1 \in DOMAIN s
  BY <1>3
<1> QED BY <1>1, <1>2, <1>3, <1>4, <1>5, <1>6, <1>7, <1>8, <1>9, <1>10

LEMMA TellFacts ==
    ASSUME LoginTypeOK, NEW x, rsps' = Append(rsps, x)
    PROVE  \E n \in Nat :
           /\ n = Len(rsps') /\ DOMAIN rsps' = DOMAIN rsps \cup {n} /\ rsps'[n] = x /\ rsps' # <<>>
           /\ \A i \in DOMAIN rsps : n > i /\ i # n /\ ~(i > n) /\ rsps'[i] = rsps[i]
<1>1. rsps \in Seq(Rsp)
  BY DEF LoginTypeOK
<1>2. PICK s, r, m : s = rsps /\ r = rsps' /\ m = Len(rsps)
  OBVIOUS
<1>3. /\ r # <<>> /\ m \in Nat /\ Len(r) = m + 1
      /\ DOMAIN s = 1..m /\ DOMAIN r = 1..(m + 1)
      /\ \A i \in 1..m : r[i] = s[i]
      /\ r[m + 1] = x
  BY <1>1, <1>2, Appended
<1>4. DOMAIN r = DOMAIN s \cup {m + 1} /\ m + 1 \in Nat
  BY <1>3
<1>5. \A i \in DOMAIN s : m + 1 > i /\ i # m + 1 /\ ~(i > m + 1) /\ r[i] = s[i]
  BY <1>3
<1> QED BY <1>2, <1>3, <1>4, <1>5

LEMMA NothingDue == ASSUME LoginTypeOK PROVE rsps # <<>> => Len(rsps) \in DOMAIN rsps
BY DEF LoginTypeOK

\* CTP answers one request, with one callback.
LEMMA ServeFacts ==
    ASSUME LoginTypeOK, ServeAuth \/ Grant \/ Refuse
    PROVE  /\ exited = "no" /\ wire # <<>> /\ wire' = Tail(wire)
           /\ UNCHANGED <<api_ready, session, req_login_cnt, threads, exited, link, epoch, retried, stale>>
           /\ \E x : /\ rsps' = Append(rsps, x) /\ x.op # "disconnected"
                     /\ IF x.op = "login" THEN x.session = granted' ELSE granted' = granted
<1>1. \E r : Served(r)
  BY Zenon DEF ServeAuth, Grant, Refuse
<1>2. /\ exited = "no" /\ wire # <<>> /\ wire' = Tail(wire)
      /\ UNCHANGED <<api_ready, session, req_login_cnt, threads, exited, link, epoch, retried, stale>>
  BY <1>1 DEF Served
<1>3. \E x : /\ rsps' = Append(rsps, x) /\ x.op # "disconnected"
             /\ IF x.op = "login" THEN x.session = granted' ELSE granted' = granted
  <2>1. CASE ServeAuth
    <3>1. PICK op \in {"auth", "authrefused"} : rsps' = Append(rsps, Rsps(op))
      BY <2>1 DEF ServeAuth
    <3>2. Rsps(op).op = op
      BY DEF Rsps
    <3>3. granted' = granted
      BY <2>1 DEF ServeAuth
    <3> QED BY <3>1, <3>2, <3>3
  <2>2. CASE Grant
    <3>1. PICK x : x = [op |-> "login", session |-> sessions + 1]
      OBVIOUS
    <3>2. x.op = "login" /\ x.session = sessions + 1
      BY <3>1
    <3>3. rsps' = Append(rsps, x) /\ granted' = sessions + 1
      BY <2>2, <3>1 DEF Grant
    <3> QED BY <3>2, <3>3
  <2>3. CASE Refuse
    <3>1. PICK x : x = [op |-> "refused", n |-> refusals + 1]
      OBVIOUS
    <3>2. x.op = "refused"
      BY <3>1
    <3>3. rsps' = Append(rsps, x) /\ granted' = granted
      BY <2>3, <3>1 DEF Refuse
    <3> QED BY <3>2, <3>3
  <2> QED BY <2>1, <2>2, <2>3
<1> QED BY <1>2, <1>3

\* What a detached thread does.
LEMMA ThreadFacts ==
    ASSUME LoginTypeOK, NEW t \in threads, Check(t) \/ Wake(t) \/ Retry(t)
    PROVE  /\ exited = "no" /\ UNCHANGED <<api_ready, session, link, epoch, granted, rsps>>
           /\ \E w : threads' \subseteq (threads \ {t}) \cup {w} /\ w.epoch = t.epoch
           /\ wire' = wire \/ (Retry(t) /\ wire' = Append(wire, "login") /\ link /\ threads' = threads \ {t})
<1>1. exited = "no" /\ UNCHANGED <<api_ready, session, link, epoch, granted, rsps>>
  BY Zenon DEF Check, Wake, Retry, ctpVars
<1>2. t \in Thread
  BY DEF LoginTypeOK
<1>3. PICK u, v : u = [t EXCEPT !.at = "sleep"] /\ v = [t EXCEPT !.at = "store", !.got = req_login_cnt]
  OBVIOUS
<1>4. u.epoch = t.epoch /\ v.epoch = t.epoch
  BY <1>2, <1>3 DEF Thread
<1>5. threads' \in {threads, (threads \ {t}) \cup {u}, (threads \ {t}) \cup {v}, threads \ {t}}
  BY <1>3, Zenon DEF Check, Wake, Retry
<1>6. wire' = wire \/ (Retry(t) /\ wire' = Append(wire, "login") /\ link /\ threads' = threads \ {t})
  BY Zenon DEF Check, Wake, Retry, Send
<1>7. \E w : threads' \subseteq (threads \ {t}) \cup {w} /\ w.epoch = t.epoch
  <2>1. threads \subseteq (threads \ {t}) \cup {t}
    OBVIOUS
  <2> QED BY <1>4, <1>5, <2>1
<1> QED BY <1>1, <1>6, <1>7

-----------------------------------------------------------------------------
(* The connections and their ends.                                          *)

LEMMA EndIsLastStep == ASSUME LoginTypeOK, EndIsLast, [LoginNext]_loginVars PROVE EndIsLast'
<1> USE DEF EndIsLast
<1>1. epoch \in Nat
  BY CtpLoginAssumption DEF LoginTypeOK
<1>2. CASE UNCHANGED loginVars
  BY <1>2 DEF loginVars, ctpVars
<1>3. ASSUME NEW op, Callback(op), wire' = wire \/ link, threads' = threads \/ \A u \in threads' : u \in threads \/ u.epoch = epoch
      PROVE  EndIsLast'
  <2>1. UNCHANGED <<link, epoch>>
    BY <1>3, CallbackFacts
  <2>2. \A i \in DOMAIN rsps' : rsps'[i].op = "disconnected" => ~link /\ i = Len(rsps')
    BY <1>3, CallbackFacts
  <2>3. ~link /\ rsps' # <<>> => epoch >= 1 /\ rsps'[Len(rsps')].op = "disconnected"
    BY <1>3, CallbackFacts
  <2>4. \A t \in threads' : t.epoch <= epoch
    BY <1>1, <1>3
  <2> QED BY <1>3, <2>1, <2>2, <2>3, <2>4
<1>4. CASE OnFrontConnected \/ OnRspAuthenticate \/ OnFrontDisconnected
  <2>1. /\ \E op : Callback(op)
        /\ wire' = wire \/ link
        /\ threads' = threads
    BY <1>4, Zenon DEF OnFrontConnected, OnRspAuthenticate, OnFrontDisconnected, Send
  <2> QED BY <1>3, <2>1
<1>5. CASE OnRspUserLogin
  <2>1. CASE Callback("refused") /\ threads' = threads \cup {[n |-> Head(rsps).n, epoch |-> epoch, at |-> "check", got |-> 0]}
             /\ UNCHANGED wire
    BY <1>3, <2>1
  <2>2. CASE Callback("login") /\ UNCHANGED <<threads, wire>>
    BY <1>3, <2>2
  <2> QED BY <1>5, <2>1, <2>2 DEF OnRspUserLogin
<1>6. ASSUME NEW t \in threads, Check(t) \/ Wake(t) \/ Retry(t) PROVE EndIsLast'
  <2>1. /\ UNCHANGED <<link, epoch, rsps>> /\ (wire' = wire \/ link)
        /\ \E w : threads' \subseteq (threads \ {t}) \cup {w} /\ w.epoch = t.epoch
    BY <1>6, ThreadFacts
  <2>2. \A u \in threads' : u.epoch <= epoch
    BY <2>1
  <2> QED BY <2>1, <2>2
<1>7. CASE Connect
  <2>1. /\ ~link /\ link' /\ epoch' = epoch + 1 /\ threads' = threads
        /\ \A i \in DOMAIN rsps : rsps[i].op # "disconnected"
        /\ rsps' = Append(rsps, Rsps("connected"))
    BY <1>7 DEF Connect
  <2>2. DOMAIN rsps = {}
    BY <2>1, NothingDue DEF LoginTypeOK
  <2>3. Rsps("connected").op # "disconnected"
    BY DEF Rsps
  <2>4. \A i \in DOMAIN rsps' : rsps'[i].op # "disconnected"
    BY <2>1, <2>2, <2>3, TellFacts
  <2>5. \A t \in threads : t.epoch <= epoch'
    <3>1. \A t \in threads : t.epoch \in Nat
      BY CtpLoginAssumption DEF LoginTypeOK, Thread
    <3> QED BY <1>1, <2>1, <3>1
  <2> QED BY <1>1, <2>1, <2>4, <2>5
<1>8. CASE Break
  <2>1. /\ link /\ ~link' /\ UNCHANGED <<epoch, threads>> /\ wire' = <<>> /\ epoch <= MaxBreaks
        /\ rsps' = Append(rsps, Rsps("disconnected"))
    BY <1>8 DEF Break
  <2>2. Rsps("disconnected").op = "disconnected"
    BY DEF Rsps
  <2>3. \A i \in DOMAIN rsps' : rsps'[i].op = "disconnected" => i = Len(rsps')
    BY <2>1, TellFacts
  <2>4. rsps'[Len(rsps')].op = "disconnected"
    BY <2>1, <2>2, TellFacts
  <2> QED BY <1>1, <2>1, <2>3, <2>4
<1>9. CASE ServeAuth \/ Grant \/ Refuse
  <2>1. PICK x : rsps' = Append(rsps, x) /\ x.op # "disconnected"
    BY <1>9, ServeFacts
  <2>2. UNCHANGED <<link, epoch, threads>> /\ link
    BY <1>9, ServeFacts
  <2>3. \A i \in DOMAIN rsps' : rsps'[i].op # "disconnected"
    BY <2>1, <2>2, TellFacts
  <2> QED BY <1>1, <2>2, <2>3
<1> QED BY <1>2, <1>4, <1>5, <1>6, <1>7, <1>8, <1>9 DEF LoginNext

\* Before the connection ends nothing says that it did.
LEMMA NextConnection == ASSUME LoginTypeOK, EndIsLast, Connect PROVE DOMAIN rsps = {} /\ wire = <<>>
BY NothingDue DEF Connect, EndIsLast, LoginTypeOK

LEMMA ToldLastStep == ASSUME LoginTypeOK, ToldLast, [LoginNext]_loginVars PROVE ToldLast'
<1> USE DEF ToldLast
<1>1. CASE UNCHANGED <<granted, rsps>>
  BY <1>1
<1>2. CASE Spi
  <2>1. PICK op : Callback(op)
    BY <1>2, Zenon DEF Spi, OnFrontConnected, OnRspAuthenticate, OnRspUserLogin, OnFrontDisconnected
  <2> SUFFICES ASSUME NEW i \in DOMAIN rsps', rsps'[i].op = "login",
                      \A j \in DOMAIN rsps' : j > i => rsps'[j].op \notin Ends
               PROVE  rsps'[i].session = granted
    BY <2>1, CallbackFacts
  <2>2. i + 1 \in DOMAIN rsps /\ rsps'[i] = rsps[i + 1]
    BY <2>1, CallbackFacts
  <2>3. \A j \in DOMAIN rsps : j > i + 1 => rsps[j].op \notin Ends
    BY <2>1, CallbackFacts
  <2> QED BY <2>2, <2>3
<1>3. CASE ServeAuth \/ Grant \/ Refuse
  <2>1. PICK x : /\ rsps' = Append(rsps, x)
                 /\ IF x.op = "login" THEN x.session = granted' ELSE granted' = granted
    BY <1>3, ServeFacts
  <2>2. PICK n : /\ DOMAIN rsps' = DOMAIN rsps \cup {n} /\ rsps'[n] = x
                 /\ \A i \in DOMAIN rsps : n > i /\ i # n /\ ~(i > n) /\ rsps'[i] = rsps[i]
    BY <2>1, TellFacts
  <2>3. CASE x.op = "login"
    BY <2>1, <2>2, <2>3 DEF Ends
  <2>4. CASE x.op # "login"
    BY <2>1, <2>2, <2>4
  <2> QED BY <2>3, <2>4
<1>4. CASE Connect
  <2>1. rsps' = Append(rsps, Rsps("connected")) /\ granted' = granted
    BY <1>4 DEF Connect
  <2>2. Rsps("connected").op # "login"
    BY DEF Rsps
  <2> QED BY <2>1, <2>2, TellFacts
<1>5. CASE Break
  <2>1. rsps' = Append(rsps, Rsps("disconnected"))
    BY <1>5 DEF Break
  <2>2. Rsps("disconnected").op = "disconnected"
    BY DEF Rsps
  <2> QED BY <2>1, <2>2, TellFacts DEF Ends
<1>6. ASSUME NEW t \in threads, Check(t) \/ Wake(t) \/ Retry(t) PROVE ToldLast'
  BY <1>1, <1>6, ThreadFacts
<1>7. CASE UNCHANGED loginVars
  BY <1>1, <1>7 DEF loginVars, ctpVars
<1> QED BY <1>2, <1>3, <1>4, <1>5, <1>6, <1>7 DEF LoginNext, Spi

\* The gateway's session is CTP's, or the callback that changes it is due.
LEMMA ReadyStep == ASSUME LoginTypeOK, ToldLast, ReadyInSession, [LoginNext]_loginVars PROVE ReadyInSession'
<1> USE DEF ReadyInSession, Due
<1>1. CASE UNCHANGED <<api_ready, session, granted, rsps>> /\ exited = "no"
  BY <1>1
<1>2. CASE Spi
  <2>1. PICK op : Callback(op)
    BY <1>2, Zenon DEF Spi, OnFrontConnected, OnRspAuthenticate, OnRspUserLogin, OnFrontDisconnected
  <2>2. CASE op \notin Ends
    <3>1. UNCHANGED <<api_ready, session>>
      <4>1. Head(rsps).op = op
        BY <2>1 DEF Callback
      <4> QED BY <1>2, <2>2, <4>1 DEF Spi, OnFrontConnected, OnRspAuthenticate, OnRspUserLogin, OnFrontDisconnected,
              Callback, Ends
    <3>2. \A i \in DOMAIN rsps : rsps[i].op \in Ends => i - 1 \in DOMAIN rsps' /\ rsps'[i - 1] = rsps[i]
      BY <2>1, <2>2, CallbackFacts
    <3> QED BY <2>1, <3>1, <3>2, CallbackFacts DEF Ends
  <2>3. CASE op = "login"
    <3>1. session' = rsps[1].session
      <4>1. Head(rsps).op = "login"
        BY <2>1, <2>3 DEF Callback
      <4>2. FillConnectionInfo(Head(rsps).session)
        BY <1>2, <4>1 DEF Spi, OnFrontConnected, OnRspAuthenticate, OnRspUserLogin, OnFrontDisconnected, Callback
      <4> QED BY <2>1, <4>2, CallbackFacts DEF FillConnectionInfo
    <3>2. rsps[1].session # 0
      <4>1. rsps[1] \in Rsp /\ rsps[1].op = "login"
        BY <2>1, <2>3, CallbackFacts
      <4> QED BY <4>1 DEF Rsp
    <3>3. CASE \E j \in DOMAIN rsps : j > 1 /\ rsps[j].op \in Ends
      <4>1. PICK j \in DOMAIN rsps : j > 1 /\ rsps[j].op \in Ends
        BY <3>3
      <4>2. j - 1 \in DOMAIN rsps' /\ rsps'[j - 1] = rsps[j]
        BY <2>1, <4>1, CallbackFacts
      <4> QED BY <4>1, <4>2 DEF Ends
    <3>4. CASE \A j \in DOMAIN rsps : j > 1 => rsps[j].op \notin Ends
      <4>1. rsps[1].session = granted /\ granted' = granted
        BY <2>1, <2>3, <3>4, CallbackFacts DEF ToldLast
      <4> QED BY <3>1, <3>2, <4>1
    <3> QED BY <3>3, <3>4
  <2>4. CASE op = "disconnected"
    <3>1. Head(rsps).op = "disconnected"
      BY <2>1, <2>4 DEF Callback
    <3>2. api_ready' = FALSE
      BY <1>2, <3>1 DEF Spi, OnFrontConnected, OnRspAuthenticate, OnRspUserLogin, OnFrontDisconnected, Callback,
         ClearConnectionInfo
    <3> QED BY <3>2
  <2> QED BY <2>2, <2>3, <2>4 DEF Ends
<1>3. CASE ServeAuth \/ Grant \/ Refuse
  <2>1. PICK x : /\ rsps' = Append(rsps, x)
                 /\ IF x.op = "login" THEN x.session = granted' ELSE granted' = granted
    BY <1>3, ServeFacts
  <2>2. UNCHANGED <<api_ready, session, exited>>
    BY <1>3, ServeFacts
  <2> QED BY <2>1, <2>2, TellFacts
<1>4. CASE Connect
  <2>1. rsps' = Append(rsps, Rsps("connected")) /\ UNCHANGED <<granted, api_ready, session, exited>>
    BY <1>4 DEF Connect
  <2> QED BY <2>1, TellFacts
<1>5. CASE Break
  <2>1. rsps' = Append(rsps, Rsps("disconnected"))
    BY <1>5 DEF Break
  <2>2. Rsps("disconnected").op = "disconnected"
    BY DEF Rsps
  <2> QED BY <2>1, <2>2, TellFacts
<1>6. ASSUME NEW t \in threads, Check(t) \/ Wake(t) \/ Retry(t) PROVE ReadyInSession'
  BY <1>1, <1>6, ThreadFacts
<1>7. CASE UNCHANGED loginVars
  BY <1>7 DEF loginVars, ctpVars
<1> QED BY <1>2, <1>3, <1>4, <1>5, <1>6, <1>7 DEF LoginNext, Spi

-----------------------------------------------------------------------------
(* The retries of one connection.                                           *)

\* What is under way on a wire that had no more than one request.
LEMMA WireFacts ==
    ASSUME LoginTypeOK
    PROVE  /\ wire # <<>> /\ Len(wire) <= 1 => Tail(wire) = <<>>
           /\ wire = <<>> => \A r : Len(Append(wire, r)) <= 1
           /\ Len(<<>>) <= 1
<1>1. PICK w : w = wire /\ w \in Seq({"auth", "login"})
  BY DEF LoginTypeOK
<1>2. w # <<>> /\ Len(w) <= 1 => Tail(w) = <<>>
  BY <1>1
<1>3. w = <<>> => \A r : Len(Append(w, r)) <= 1
  BY <1>1
<1> QED BY <1>1, <1>2, <1>3

LEMMA OneUnderWayStep ==
    ASSUME LoginTypeOK, EndIsLast, OneUnderWay, ~stale, ~stale', [LoginNext]_loginVars PROVE OneUnderWay'
<1> USE DEF OneUnderWay
<1>1. CASE UNCHANGED loginVars
  BY <1>1 DEF loginVars, ctpVars
<1>2. CASE Spi
  <2>1. PICK op : Callback(op)
    BY <1>2, Zenon DEF Spi, OnFrontConnected, OnRspAuthenticate, OnRspUserLogin, OnFrontDisconnected
  <2>2. CASE op = "disconnected"
    <3>1. UNCHANGED <<threads, wire, epoch>>
      <4>1. Head(rsps).op = "disconnected"
        BY <2>1, <2>2 DEF Callback
      <4> QED BY <1>2, <4>1 DEF Spi, OnFrontConnected, OnRspAuthenticate, OnRspUserLogin, OnFrontDisconnected, Callback, ctpVars
    <3>2. DOMAIN rsps' = {}
      <4>1. 1 = Len(rsps) /\ rsps \in Seq(Rsp) /\ rsps' = Tail(rsps)
        BY <2>1, <2>2, CallbackFacts DEF EndIsLast, LoginTypeOK, Callback
      <4>2. PICK s, r : s = rsps /\ r = rsps'
        OBVIOUS
      <4>3. 1 = Len(s) /\ s \in Seq(Rsp) /\ r = Tail(s)
        BY <4>1, <4>2
      <4>4. s # <<>>
        BY <4>3
      <4>5. DOMAIN r = 1..(Len(s) - 1)
        BY <4>3, <4>4, Removed
      <4> QED BY <4>2, <4>3, <4>5
    <3> QED BY <3>1, <3>2
  <2>3. CASE op # "disconnected"
    <3>1. /\ wire = <<>> /\ \A i \in DOMAIN rsps : i # 1 => rsps[i].op = "disconnected"
          /\ \A t \in threads : t.epoch # epoch
      BY <2>1, <2>3, CallbackFacts
    <3>2. \A i \in DOMAIN rsps' : rsps'[i].op = "disconnected"
      BY <2>1, <3>1, CallbackFacts
    <3>3. epoch' = epoch
      BY <2>1, CallbackFacts
    <3>4. \/ threads' = threads /\ (wire' = <<>> \/ \E r : wire' = Append(wire, r))
          \/ wire' = <<>> /\ \E u : threads' = threads \cup {u}
      BY <1>2, <3>1, Zenon DEF Spi, OnFrontConnected, OnRspAuthenticate, OnRspUserLogin, OnFrontDisconnected, Send
    <3>5. Len(wire') <= 1
      BY <3>1, <3>4, WireFacts
    <3>6. \A t, u \in threads' : t.epoch = epoch /\ u.epoch = epoch => t = u
      BY <3>1, <3>4
    <3>7. \A t \in threads' : t.epoch = epoch => wire' = <<>>
      BY <3>1, <3>4
    <3> QED BY <3>2, <3>3, <3>5, <3>6, <3>7
  <2> QED BY <2>2, <2>3
<1>3. ASSUME NEW t \in threads, Check(t) \/ Wake(t) \/ Retry(t) PROVE OneUnderWay'
  <2>1. /\ UNCHANGED <<epoch, rsps>>
        /\ \E w : threads' \subseteq (threads \ {t}) \cup {w} /\ w.epoch = t.epoch
        /\ wire' = wire \/ (Retry(t) /\ wire' = Append(wire, "login") /\ threads' = threads \ {t})
    BY <1>3, ThreadFacts
  <2>2. \A u, v \in threads' : u.epoch = epoch /\ v.epoch = epoch => u = v
    BY <2>1
  <2>3. \A u \in threads' : u.epoch = epoch => \E v \in threads : v.epoch = epoch
    BY <2>1
  <2>4. CASE wire' = wire
    BY <2>1, <2>2, <2>3, <2>4
  <2>5. CASE Retry(t) /\ wire' = Append(wire, "login") /\ threads' = threads \ {t}
    <3>1. t.epoch = epoch
      BY <2>5 DEF Retry
    <3>2. wire = <<>> /\ \A i \in DOMAIN rsps : rsps[i].op = "disconnected"
      BY <3>1
    <3>3. \A u \in threads' : u.epoch # epoch
      BY <2>5, <3>1
    <3>4. Len(wire') <= 1
      BY <2>5, <3>2, WireFacts
    <3> QED BY <2>1, <3>2, <3>3, <3>4
  <2> QED BY <2>1, <2>4, <2>5
<1>4. CASE Connect
  <2>1. /\ UNCHANGED <<wire, threads>> /\ epoch' = epoch + 1 /\ rsps' = Append(rsps, Rsps("connected"))
        /\ DOMAIN rsps = {} /\ wire = <<>>
    BY <1>4, NextConnection DEF Connect
  <2>2. \A t \in threads : t.epoch # epoch'
    <3>1. epoch \in Nat /\ \A t \in threads : t.epoch \in Nat /\ t.epoch <= epoch
      BY CtpLoginAssumption DEF LoginTypeOK, Thread, EndIsLast
    <3> QED BY <2>1, <3>1
  <2>3. \A i, j \in DOMAIN rsps' : i = j
    BY <2>1, TellFacts
  <2> QED BY <2>1, <2>2, <2>3
<1>5. CASE Break
  <2>1. UNCHANGED <<threads, epoch>> /\ wire' = <<>> /\ rsps' = Append(rsps, Rsps("disconnected"))
    BY <1>5 DEF Break
  <2>2. Rsps("disconnected").op = "disconnected"
    BY DEF Rsps
  <2>3. \A i \in DOMAIN rsps' : rsps'[i].op = "disconnected" \/ (i \in DOMAIN rsps /\ rsps'[i] = rsps[i])
    BY <2>1, <2>2, TellFacts
  <2> QED BY <2>1, <2>3, WireFacts
<1>6. CASE ServeAuth \/ Grant \/ Refuse
  <2>1. /\ wire # <<>> /\ wire' = Tail(wire) /\ UNCHANGED <<threads, epoch>>
        /\ \E x : rsps' = Append(rsps, x)
    BY <1>6, ServeFacts
  <2>2. wire' = <<>> /\ \A i \in DOMAIN rsps : rsps[i].op = "disconnected"
    BY <2>1, WireFacts
  <2>3. \A t \in threads : t.epoch # epoch
    BY <2>1
  <2>4. PICK n : DOMAIN rsps' = DOMAIN rsps \cup {n} /\ \A i \in DOMAIN rsps : rsps'[i] = rsps[i]
    BY <2>1, TellFacts
  <2>5. \A i, j \in DOMAIN rsps' : rsps'[i].op # "disconnected" /\ rsps'[j].op # "disconnected" => i = j
    BY <2>2, <2>4
  <2> QED BY <2>1, <2>2, <2>3, <2>5, WireFacts
<1> QED BY <1>1, <1>2, <1>3, <1>4, <1>5, <1>6 DEF LoginNext, Spi

LEMMA CountsStep ==
    ASSUME LoginTypeOK, EndIsLast, OneUnderWay, CountsRetries, ~stale, ~stale', [LoginNext]_loginVars PROVE CountsRetries'
<1> USE DEF CountsRetries
<1>1. req_login_cnt \in Nat /\ retried \in Nat /\ epoch \in Nat /\ \A t \in threads : t.got \in Nat
  BY CtpLoginAssumption DEF LoginTypeOK, Thread
<1>2. CASE UNCHANGED <<req_login_cnt, retried, threads, epoch>>
  BY <1>2
<1>3. CASE OnFrontConnected \/ OnRspAuthenticate \/ OnFrontDisconnected
  BY <1>2, <1>3, Zenon DEF OnFrontConnected, OnRspAuthenticate, OnFrontDisconnected, Callback, ctpVars
<1>4. CASE OnRspUserLogin
  <2>1. CASE /\ Callback("refused") /\ UNCHANGED <<req_login_cnt, retried>>
             /\ threads' = threads \cup {[n |-> Head(rsps).n, epoch |-> epoch, at |-> "check", got |-> 0]}
    <3>1. epoch' = epoch
      BY <2>1, CallbackFacts
    <3> QED BY <2>1, <3>1
  <2>2. CASE Callback("login") /\ FillConnectionInfo(Head(rsps).session) /\ retried' = 0 /\ UNCHANGED threads
    <3>1. \A t \in threads : t.epoch # epoch
      BY <2>2, CallbackFacts DEF OneUnderWay
    <3>2. epoch' = epoch /\ req_login_cnt' = 0
      BY <2>2, CallbackFacts DEF FillConnectionInfo
    <3> QED BY <2>2, <3>1, <3>2
  <2> QED BY <1>4, <2>1, <2>2 DEF OnRspUserLogin
<1>5. ASSUME NEW t \in threads, Check(t) \/ Wake(t) \/ Retry(t) PROVE CountsRetries'
  <2>0. t \in Thread /\ epoch' = epoch
    BY <1>5, ThreadFacts DEF LoginTypeOK
  <2>1. CASE Check(t)
    <3>1. PICK u : u = [t EXCEPT !.at = "sleep"]
      OBVIOUS
    <3>2. u.at = "sleep"
      BY <2>0, <3>1 DEF Thread
    <3>3. UNCHANGED <<req_login_cnt, retried>> /\ (threads' = threads \/ threads' = (threads \ {t}) \cup {u})
      BY <2>1, <3>1, Zenon DEF Check
    <3> QED BY <2>0, <3>2, <3>3
  <2>2. CASE Wake(t)
    <3>1. PICK u : u = [t EXCEPT !.at = "store", !.got = req_login_cnt]
      OBVIOUS
    <3>2. u.got = req_login_cnt
      BY <2>0, <3>1 DEF Thread
    <3>3. UNCHANGED <<req_login_cnt, retried>> /\ threads' = (threads \ {t}) \cup {u}
      BY <2>2, <3>1, Zenon DEF Wake
    <3> QED BY <2>0, <3>2, <3>3
  <2>3. CASE Retry(t)
    <3>1. t.epoch = epoch /\ t.at = "store"
      BY <2>3 DEF Retry
    <3>2. req_login_cnt' = t.got + 1 /\ retried' = retried + 1 /\ threads' = threads \ {t}
      BY <2>3 DEF Retry
    <3>3. t.got <= retried
      BY <3>1
    <3> QED BY <1>1, <2>0, <3>2, <3>3
  <2> QED BY <1>5, <2>1, <2>2, <2>3
<1>6. CASE Connect
  <2>1. UNCHANGED <<req_login_cnt, retried, threads>> /\ epoch' = epoch + 1
    BY <1>6 DEF Connect
  <2>2. \A t \in threads : t.epoch # epoch'
    <3>1. \A t \in threads : t.epoch \in Nat /\ t.epoch <= epoch
      BY CtpLoginAssumption DEF LoginTypeOK, Thread, EndIsLast
    <3> QED BY <1>1, <2>1, <3>1
  <2> QED BY <2>1, <2>2
<1>7. CASE Break
  BY <1>2, <1>7 DEF Break
<1>8. CASE ServeAuth \/ Grant \/ Refuse
  BY <1>2, <1>8, ServeFacts
<1>9. CASE UNCHANGED loginVars
  BY <1>2, <1>9 DEF loginVars, ctpVars
<1> QED BY <1>3, <1>4, <1>5, <1>6, <1>7, <1>8, <1>9 DEF LoginNext

-----------------------------------------------------------------------------
(* The theorems.                                                            *)

\* A wrong connection is never forgotten.
LEMMA StaleStays == ASSUME stale, [LoginNext]_loginVars PROVE stale'
BY Zenon DEF LoginNext, OnFrontConnected, OnRspAuthenticate, OnRspUserLogin, OnFrontDisconnected, Callback, Check, Wake, Retry,
   Connect, Break, Served, ServeAuth, Grant, Refuse, loginVars

LEMMA InvInit == ASSUME LoginInit PROVE Inv
<1>1. <<>> \in Seq({"auth", "login"}) /\ <<>> \in Seq(Rsp) /\ DOMAIN <<>> = {} /\ Len(<<>>) = 0
  OBVIOUS
<1>2. LoginTypeOK
  <2>1. 0 \in 0..MaxSession /\ 0 \in 0..MaxRefused /\ 0 \in 0..MaxBreaks + 1 /\ 0 \in Nat
    BY CtpLoginAssumption
  <2>2. "no" \in {"no", "auth", "login"} /\ {} \subseteq Thread
    OBVIOUS
  <2> QED BY <1>1, <2>1, <2>2, Zenon DEF LoginInit, LoginTypeOK
<1>3. EndIsLast /\ ToldLast /\ ReadyInSession
  BY <1>1, CtpLoginAssumption DEF LoginInit, EndIsLast, ToldLast, ReadyInSession
<1>4. OneUnderWay /\ CountsRetries
  BY <1>1 DEF LoginInit, OneUnderWay, CountsRetries
<1> QED BY <1>2, <1>3, <1>4 DEF Inv

LEMMA InvStep == ASSUME Inv, [LoginNext]_loginVars PROVE Inv'
<1>1. LoginTypeOK /\ EndIsLast /\ ToldLast /\ OneUnderWay /\ CountsRetries /\ ReadyInSession
  BY DEF Inv
<1>2. LoginTypeOK' /\ EndIsLast' /\ ToldLast' /\ ReadyInSession'
  BY <1>1, TypeStep, EndIsLastStep, ToldLastStep, ReadyStep
<1>3. OneUnderWay' /\ CountsRetries'
  <2>1. CASE stale'
    BY <2>1 DEF OneUnderWay, CountsRetries
  <2>2. CASE ~stale'
    BY <1>1, <2>2, StaleStays, OneUnderWayStep, CountsStep
  <2> QED BY <2>1, <2>2
<1> QED BY <1>2, <1>3 DEF Inv

\* Inv holds whatever the detached threads and the connection do to each other: orders find the
\* session that CTP granted last, or its end is on the way.
THEOREM InvCorrect == LoginSpec => []Inv
<1>1. LoginInit => Inv
  BY InvInit
<1>2. Inv /\ [LoginNext]_loginVars => Inv'
  BY InvStep
<1> QED BY <1>1, <1>2, PTL DEF LoginSpec

\* Every variable stays in its type.
THEOREM LoginTypeCorrect == LoginSpec => []LoginTypeOK
<1>1. Inv => LoginTypeOK
  BY DEF Inv
<1> QED BY <1>1, InvCorrect, PTL

\* The process exits for a refused login only after Retries retries since the last one that was
\* granted, if no thread of OnRspUserLogin woke on another connection.
THEOREM GivesUpCorrect == LoginSpec => []GivesUpAfterRetries
<1>1. LoginInit => GivesUpAfterRetries
  BY DEF LoginInit, GivesUpAfterRetries
<1>2. ASSUME Inv, GivesUpAfterRetries, [LoginNext]_loginVars PROVE GivesUpAfterRetries'
  <2>1. CASE exited' = "login" /\ exited = "no" /\ ~stale'
    <3>0. exited' = exited \/ exited' = "auth" \/ \E t \in threads : Check(t)
      BY <1>2, Zenon DEF LoginNext, OnFrontConnected, OnRspAuthenticate, OnRspUserLogin, OnFrontDisconnected, Wake, Retry,
         Connect, Break, Served, ServeAuth, Grant, Refuse, loginVars
    <3>1. PICK t \in threads : Check(t)
      BY <2>1, <3>0
    <3>2. req_login_cnt >= Retries /\ UNCHANGED <<retried, stale>>
      BY <2>1, <3>1 DEF Check
    <3>3. req_login_cnt <= retried
      BY <1>2, <2>1, <3>2 DEF Inv, CountsRetries
    <3>4. req_login_cnt \in Nat /\ retried \in Nat
      BY <1>2 DEF Inv, LoginTypeOK
    <3> QED BY <3>2, <3>3, <3>4, CtpLoginAssumption DEF GivesUpAfterRetries
  <2>2. CASE exited # "no"
    <3>1. UNCHANGED loginVars
      BY <1>2, <2>2, Zenon DEF LoginNext, OnFrontConnected, OnRspAuthenticate, OnRspUserLogin, OnFrontDisconnected, Callback,
         Check, Wake, Retry, Connect, Break, Served, ServeAuth, Grant, Refuse
    <3> QED BY <1>2, <3>1 DEF loginVars, GivesUpAfterRetries
  <2> QED BY <2>1, <2>2 DEF GivesUpAfterRetries
<1> QED BY <1>1, <1>2, InvCorrect, PTL DEF LoginSpec

-----------------------------------------------------------------------------
(* The texts of orders, notices, ids and topics: Conversions.               *)

LEMMA MinIs ==
    ASSUME NEW I \in SUBSET Nat, NEW m \in I, \A j \in I : m <= j
    PROVE  Min(I) = m
<1>1. \A x \in I : (\A j \in I : x <= j) => x = m
  OBVIOUS
<1> QED BY <1>1, Zenon DEF Min

LEMMA MaxIs ==
    ASSUME NEW I \in SUBSET Nat, NEW m \in I, \A j \in I : m >= j
    PROVE  Max(I) = m
<1>1. \A x \in I : (\A j \in I : x >= j) => x = m
  OBVIOUS
<1> QED BY <1>1, Zenon DEF Max

\* The first of some words, and the last w, of a text.
LEMMA FirstIs ==
    ASSUME NEW q, NEW w, NEW i \in 1..Len(q), Len(q) \in Nat, q[i] \in w,
           \A j \in 1..Len(q) : q[j] \in w => i <= j
    PROVE  FirstAt(q, w) = i
<1> DEFINE I == {k \in 1..Len(q) : q[k] \in w}
<1>1. I \in SUBSET Nat /\ i \in I /\ \A j \in I : i <= j
  OBVIOUS
<1>2. Min(I) = i
  BY <1>1, MinIs
<1> QED BY <1>1, <1>2 DEF FirstAt, SelectInSeq

LEMMA LastIs ==
    ASSUME NEW q, NEW w, NEW i \in 1..Len(q), Len(q) \in Nat, q[i] = w,
           \A j \in 1..Len(q) : q[j] = w => i >= j
    PROVE  LastAt(q, w) = i
<1> DEFINE I == {k \in 1..Len(q) : q[k] = w}
<1>1. I \in SUBSET Nat /\ i \in I /\ \A j \in I : i >= j
  OBVIOUS
<1>2. Max(I) = i
  BY <1>1, MaxIs
<1> QED BY <1>1, <1>2 DEF LastAt, SelectLastInSeq

LEMMA NoneFirst ==
    ASSUME NEW q, NEW w, \A j \in 1..Len(q) : q[j] \notin w
    PROVE  FirstAt(q, w) = 0
<1>1. {k \in 1..Len(q) : q[k] \in w} = {}
  OBVIOUS
<1> QED BY <1>1 DEF FirstAt, SelectInSeq

\* A text of two parts.
LEMMA TwoParts ==
    ASSUME NEW T, NEW a \in Seq(T), NEW b \in Seq(T), NEW q, q = a \o b
    PROVE  /\ q \in Seq(T) /\ Len(a) \in Nat /\ Len(b) \in Nat /\ Len(q) = Len(a) + Len(b)
           /\ \A j \in 1..Len(a) : q[j] = a[j]
           /\ \A j \in 1..Len(b) : q[Len(a) + j] = b[j]
           /\ SubSeq(q, 1, Len(a)) = a
           /\ SubSeq(q, Len(a) + 1, Len(q)) = b
<1>1. Len(a) \in Nat /\ Len(b) \in Nat
  BY LenProperties
<1>2. q \in Seq(T) /\ Len(q) = Len(a) + Len(b)
      /\ \A i \in 1..Len(a) + Len(b) : q[i] = IF i <= Len(a) THEN a[i] ELSE b[i - Len(a)]
  BY ConcatProperties
<1>3. /\ \A j \in 1..Len(a) : q[j] = a[j]
      /\ \A j \in 1..Len(b) : q[Len(a) + j] = b[j]
  BY <1>1, <1>2
<1>4. \A i \in 1..Len(q) : q[i] \in T
  BY <1>2, LenProperties
<1>5. SubSeq(q, 1, Len(a)) = a
  <2>1. SubSeq(q, 1, Len(a)) \in Seq(T) /\ Len(SubSeq(q, 1, Len(a))) = Len(a)
        /\ \A i \in 1..Len(a) : SubSeq(q, 1, Len(a))[i] = q[i]
    BY <1>1, <1>2, <1>4, SubSeqProperties
  <2> QED BY <1>1, <1>3, <2>1, SeqEqual
<1>6. SubSeq(q, Len(a) + 1, Len(q)) = b
  <2>1. PICK k \in Int : k = Len(a) + 1
    BY <1>1
  <2>2. PICK n \in Int : n = Len(q)
    BY <1>1, <1>2
  <2>3. PICK s : s = q
    OBVIOUS
  <2>4. \A i \in k..n : s[i] \in T
    BY <1>1, <1>2, <1>4, <2>1, <2>2, <2>3
  <2>5. /\ SubSeq(s, k, n) \in Seq(T)
        /\ Len(SubSeq(s, k, n)) = IF k <= n THEN n - k + 1 ELSE 0
        /\ \A i \in 1..n - k + 1 : SubSeq(s, k, n)[i] = s[k + i - 1]
    BY <2>4, SubSeqProperties
  <2>6. Len(SubSeq(s, k, n)) = Len(b)
    BY <1>1, <1>2, <2>1, <2>2, <2>5
  <2>7. \A i \in 1..Len(b) : SubSeq(s, k, n)[i] = b[i]
    BY <1>1, <1>2, <1>3, <2>1, <2>2, <2>3, <2>5
  <2>8. SubSeq(s, k, n) = b
    BY <2>5, <2>6, <2>7, SeqEqual
  <2> QED BY <2>1, <2>2, <2>3, <2>8, Zenon
<1> QED BY <1>1, <1>2, <1>3, <1>5, <1>6

LEMMA Tuples ==
    ASSUME NEW T
    PROVE  /\ \A w \in T : <<w>> \in Seq(T) /\ Len(<<w>>) = 1 /\ <<w>>[1] = w
           /\ \A v, w, x, y \in T : <<v, w, x, y>> \in Seq(T)
OBVIOUS

\* A text that w divides.
LEMMA Divided ==
    ASSUME NEW T, NEW a \in Seq(T), NEW b \in Seq(T), NEW w \in T, NEW q, q = a \o <<w>> \o b
    PROVE  /\ q \in Seq(T) /\ Len(q) = Len(a) + 1 + Len(b)
           /\ Len(a) \in Nat /\ Len(b) \in Nat
           /\ \A j \in 1..Len(a) : q[j] = a[j]
           /\ q[Len(a) + 1] = w
           /\ \A j \in 1..Len(b) : q[Len(a) + 1 + j] = b[j]
           /\ SubSeq(q, 1, Len(a)) = a
           /\ SubSeq(q, Len(a) + 2, Len(q)) = b
<1>1. <<w>> \in Seq(T) /\ Len(<<w>>) = 1 /\ <<w>>[1] = w
  OBVIOUS
<1>2. PICK p : p = a \o <<w>>
  OBVIOUS
<1>3. /\ p \in Seq(T) /\ Len(a) \in Nat /\ Len(p) = Len(a) + 1
      /\ \A j \in 1..Len(a) : p[j] = a[j]
      /\ \A j \in 1..Len(<<w>>) : p[Len(a) + j] = <<w>>[j]
  BY <1>1, <1>2, TwoParts
<1>4. p[Len(a) + 1] = w
  BY <1>1, <1>3
<1>5. q = p \o b
  BY <1>2
<1>6. /\ q \in Seq(T) /\ Len(b) \in Nat /\ Len(q) = Len(p) + Len(b)
      /\ \A j \in 1..Len(p) : q[j] = p[j]
      /\ \A j \in 1..Len(b) : q[Len(p) + j] = b[j]
      /\ SubSeq(q, Len(p) + 1, Len(q)) = b
  BY <1>3, <1>5, TwoParts
<1>7. PICK r : r = <<w>> \o b
  OBVIOUS
<1>8. r \in Seq(T) /\ q = a \o r
  BY <1>1, <1>7, ConcatProperties, ConcatAssociative
<1>9. SubSeq(q, 1, Len(a)) = a
  BY <1>8, TwoParts
<1>10. SubSeq(q, Len(a) + 2, Len(q)) = b
  BY <1>3, <1>6
<1> QED BY <1>3, <1>4, <1>6, <1>9, <1>10

\* The last w divides a text, if w is not in what follows.
LEMMA LastDivides ==
    ASSUME NEW T, NEW a \in Seq(T), NEW b \in Seq(T), NEW w \in T, NEW q,
           w \notin Range(b), q = a \o <<w>> \o b
    PROVE  LastAt(q, w) = Len(a) + 1
<1>1. /\ Len(q) = Len(a) + 1 + Len(b)
      /\ Len(a) \in Nat /\ Len(b) \in Nat
      /\ q[Len(a) + 1] = w
      /\ \A j \in 1..Len(b) : q[Len(a) + 1 + j] = b[j]
  BY Divided
<1>2. \A j \in 1..Len(b) : b[j] # w
  BY LenProperties DEF Range
<1>3. \A j \in 1..Len(q) : q[j] = w => Len(a) + 1 >= j
  <2>1. ASSUME NEW j \in 1..Len(q), j > Len(a) + 1 PROVE q[j] # w
    <3>1. PICK k \in 1..Len(b) : j = Len(a) + 1 + k
      <4>1. j - (Len(a) + 1) \in 1..Len(b) /\ j = Len(a) + 1 + (j - (Len(a) + 1))
        BY <1>1, <2>1
      <4> QED BY <4>1
    <3> QED BY <1>1, <1>2, <3>1
  <2>2. Len(q) \in Nat /\ Len(a) + 1 \in Nat
    BY <1>1
  <2>3. PICK n \in Nat, m \in Nat : n = Len(q) /\ m = Len(a) + 1
    BY <2>2
  <2>4. ASSUME NEW j \in 1..n, q[j] = w PROVE m >= j
    BY <2>1, <2>3, <2>4
  <2> QED BY <2>3, <2>4
<1>4. LastAt(q, w) = Len(a) + 1
  <2>1. PICK i : i = Len(a) + 1
    OBVIOUS
  <2>2. Len(q) \in Nat /\ i \in 1..Len(q) /\ q[i] = w /\ \A j \in 1..Len(q) : q[j] = w => i >= j
    BY <1>1, <1>3, <2>1
  <2>3. LastAt(q, w) = i
    BY <2>2, LastIs
  <2> QED BY <2>1, <2>3
<1> QED BY <1>1, <1>4

-----------------------------------------------------------------------------
(* The instruments of OKEx.                                                 *)

\* The parts that the last w divides are found again.
LEMMA CutIs ==
    ASSUME NEW s \in Text, NEW c \in Text, NEW w \in Words, NEW q, w \notin Range(c), q = s \o <<w>> \o c
    PROVE  CutAtLast(q, w) = [at |-> Len(s) + 1, front |-> s, rest |-> c]
<1>1. s \in Seq(Words) /\ c \in Seq(Words)
  BY DEF Text
<1>2. Len(s) \in Nat
  BY <1>1, LenProperties
<1>3. /\ LastAt(q, w) = Len(s) + 1 /\ Len(q) = Len(s) + 1 + Len(c)
      /\ SubSeq(q, 1, Len(s)) = s /\ SubSeq(q, Len(s) + 2, Len(q)) = c
  <2>1. LastAt(q, w) = Len(s) + 1
    BY <1>1, LastDivides
  <2>2. /\ Len(q) = Len(s) + 1 + Len(c)
        /\ SubSeq(q, 1, Len(s)) = s /\ SubSeq(q, Len(s) + 2, Len(q)) = c
    BY <1>1, Divided
  <2> QED BY <2>1, <2>2
<1>4. PICK at \in Nat : at = LastAt(q, w) /\ at = Len(s) + 1
  BY <1>2, <1>3
<1>5. at - 1 = Len(s) /\ at + 1 = Len(s) + 2
  BY <1>2, <1>4
<1>6. SubSeq(q, 1, at - 1) = s /\ SubSeq(q, at + 1, Len(q)) = c
  BY <1>3, <1>5
<1> QED BY <1>4, <1>6 DEF CutAtLast

\* A symbol and a contract are found again in their instrument.
LEMMA InstrumentCut ==
    ASSUME NEW s \in Text, NEW c \in Text, NEW q, "-" \notin Range(c), q = s \o <<"-">> \o c
    PROVE  CutAtLast(q, "-") = [at |-> Len(s) + 1, front |-> s, rest |-> c]
<1>1. "-" \in Words
  BY ConversionsAssumption
<1> QED BY <1>1, CutIs

LEMMA InstrumentType ==
    ASSUME NEW o, o.symbol \in Text, o.contract \in Text
    PROVE  InstrumentId(o) \in Text
<1>1. <<"-">> \in Seq(Words)
  BY ConversionsAssumption, Tuples
<1> QED BY <1>1, ConcatProperties DEF Text, InstrumentId

-----------------------------------------------------------------------------
(* Topics.                                                                  *)

LEMMA InfoIs == \A i \in DOMAIN Infos : InfoOf(Infos[i]) = i /\ Infos[i] # ":"
                                        /\ (Infos[i] = "candle60s" <=> i = "kline")
<1>1. DOMAIN Infos = {"ticker", "depth", "depthl2", "kline"}
  BY DEF Infos
<1>2. /\ Infos["ticker"] = "ticker" /\ Infos["depth"] = "depth5"
      /\ Infos["depthl2"] = "depth" /\ Infos["kline"] = "candle60s"
  BY DEF Infos
<1>3. \A i, j \in DOMAIN Infos : Infos[i] = Infos[j] => i = j
  BY <1>1, <1>2
<1>4. ASSUME NEW i \in DOMAIN Infos PROVE InfoOf(Infos[i]) = i
  BY <1>3, <1>4, Zenon DEF InfoOf
<1>5. \A i \in DOMAIN Infos : Infos[i] # ":" /\ (Infos[i] = "candle60s" <=> i = "kline")
  BY <1>1, <1>2
<1> QED BY <1>4, <1>5

\* The words of a channel.
ChannelWords(t, p, i, b) == t[1] = p /\ t[3] = i /\ FirstAt(t, {":"}) = 4 /\ SubSeq(t, 5, Len(t)) = b

LEMMA ChannelIs ==
    ASSUME NEW p \in Words, NEW i \in Words, NEW b \in Text, NEW t,
           p # ":", i # ":", t = <<p, "/", i, ":">> \o b
    PROVE  ChannelWords(t, p, i, b)
<1>1. PICK a : a = <<p, "/", i, ":">>
  OBVIOUS
<1>2. a \in Seq(Words) /\ Len(a) = 4 /\ a[1] = p /\ a[2] = "/" /\ a[3] = i /\ a[4] = ":"
  <2>1. ":" \in Words /\ "/" \in Words
    BY ConversionsAssumption
  <2>2. <<p, "/", i, ":">> \in Seq(Words)
    BY <2>1, Tuples, Zenon
  <2> QED BY <1>1, <2>2
<1>3. t = a \o b /\ b \in Seq(Words)
  BY <1>1 DEF Text
<1>4. /\ Len(b) \in Nat /\ Len(t) = Len(a) + Len(b)
      /\ \A j \in 1..Len(a) : t[j] = a[j]
      /\ SubSeq(t, Len(a) + 1, Len(t)) = b
  BY <1>2, <1>3, TwoParts
<1>5. t[1] = p /\ t[2] = "/" /\ t[3] = i /\ t[4] = ":" /\ Len(t) \in Nat /\ 4 \in 1..Len(t)
  BY <1>2, <1>4
<1>6. \A j \in 1..Len(t) : t[j] = ":" => 4 <= j
  BY <1>5
<1>7. FirstAt(t, {":"}) = 4
  <2>1. PICK u, n, w : u = t /\ n = 4 /\ w = {":"}
    OBVIOUS
  <2>2. Len(u) \in Nat /\ n \in 1..Len(u) /\ u[n] \in w /\ \A j \in 1..Len(u) : u[j] \in w => n <= j
    BY <1>5, <1>6, <2>1
  <2>3. FirstAt(u, w) = n
    BY <2>2, FirstIs
  <2> QED BY <2>1, <2>3, Zenon
<1> QED BY <1>2, <1>4, <1>5, <1>7 DEF ChannelWords

\* The words of the channel of a subscription.
ChannelOf(q, t) ==
    /\ q.type \in {"future", "spot"} /\ ProductType(q) \in {"spot", "futures", "swap"}
    /\ ProductType(q) = "spot" <=> q.type = "spot"
    /\ q.info \in DOMAIN Infos /\ (q.info = "kline" => q.extra = "1m")
    /\ InstrumentId(q) \in Text
    /\ t[1] = ProductType(q) /\ t[3] = Infos[q.info] /\ FirstAt(t, {":"}) = 4
    /\ SubSeq(t, 5, Len(t)) = InstrumentId(q)

LEMMA ChannelWordsOf ==
    ASSUME NEW q \in Quotes, ConvertQuoteToChannel(q) # Refused,
           NEW t, t = ConvertQuoteToChannel(q).text
    PROVE  ChannelOf(q, t)
<1>1. q.symbol \in Text /\ q.contract \in Text
  BY ConversionsAssumption
<1>2. PICK p : p = ProductType(q)
  OBVIOUS
<1>3. PICK b : b = InstrumentId(q)
  OBVIOUS
<1>4. /\ p # "" /\ q.info \in DOMAIN Infos /\ (q.info = "kline" => q.extra = "1m")
      /\ t = <<p, "/", Infos[q.info], ":">> \o b
  BY <1>2, <1>3 DEF ConvertQuoteToChannel
<1>5. /\ q.type \in {"future", "spot"} /\ p \in {"spot", "futures", "swap"}
      /\ p = "spot" <=> q.type = "spot"
  BY <1>2, <1>4 DEF ProductType
<1>6. PICK i : i = Infos[q.info]
  OBVIOUS
<1>7. i \in Words /\ p \in Words /\ i # ":" /\ p # ":" /\ b \in Text
  <2>1. i \in Range(Infos)
    BY <1>4, <1>6 DEF Range
  <2>2. i \in Words /\ p \in Words
    BY <1>5, <2>1, ConversionsAssumption
  <2>3. b \in Text
    BY <1>1, <1>3, InstrumentType
  <2> QED BY <1>4, <1>5, <1>6, <2>2, <2>3, InfoIs
<1>8. t[1] = p /\ t[3] = i /\ FirstAt(t, {":"}) = 4 /\ SubSeq(t, 5, Len(t)) = b
  <2>1. t = <<p, "/", i, ":">> \o b
    BY <1>4, <1>6
  <2>2. ChannelWords(t, p, i, b)
    BY <1>7, <2>1, ChannelIs
  <2> QED BY <2>2 DEF ChannelWords
<1> QED BY <1>2, <1>3, <1>4, <1>5, <1>6, <1>7, <1>8, Zenon DEF ChannelOf

\* A channel, and a row of its table, have the topic of their subscription.
LEMMA TopicOf ==
    ASSUME NEW q \in Quotes, ConvertQuoteToChannel(q) # Refused,
           NEW t, t = ConvertQuoteToChannel(q).text,
           NEW a, a \in {SplitChannel(t), RowTopic(t[1], t[3], SubSeq(t, 5, Len(t)))}, a # Refused
    PROVE  /\ a.is = "topic"
           /\ \A f \in {"type", "symbol", "contract", "info", "extra"} : a[f] = q[f]
<1>1. /\ q.symbol \in Text /\ q.contract \in Text /\ "-" \notin Range(q.contract)
      /\ q.type = "spot" => q.contract = <<>>
      /\ q.info # "kline" => q.extra = ""
  BY ConversionsAssumption
<1>2. PICK p : p = ProductType(q)
  OBVIOUS
<1>3. PICK b : b = InstrumentId(q)
  OBVIOUS
<1>4. PICK i : i = Infos[q.info]
  OBVIOUS
<1>5. ChannelOf(q, t)
  BY ChannelWordsOf
<1>6. q.info \in DOMAIN Infos /\ (q.info = "kline" => q.extra = "1m")
  BY <1>5 DEF ChannelOf
<1>7. q.type \in {"future", "spot"} /\ (p = "spot" <=> q.type = "spot")
  BY <1>2, <1>5 DEF ChannelOf
<1>8. t[1] = p /\ t[3] = i /\ FirstAt(t, {":"}) = 4 /\ SubSeq(t, 5, Len(t)) = b
  BY <1>2, <1>3, <1>4, <1>5, Zenon DEF ChannelOf
<1>9. InfoOf(i) = q.info /\ (IF i = "candle60s" THEN "1m" ELSE "") = q.extra
  <2>1. InfoOf(i) = q.info /\ (i = "candle60s" <=> q.info = "kline")
    BY <1>6, <1>4, InfoIs
  <2> QED BY <1>1, <1>6, <2>1
<1>10. PICK cut : cut = CutAtLast(b, "-")
  OBVIOUS
<1>11. q.type = "spot" => b = q.symbol /\ q.contract = <<>>
  BY <1>1, <1>3 DEF InstrumentId
<1>12. q.type = "future" => cut.front = q.symbol /\ cut.rest = q.contract
  <2>1. q.type = "future" => b = q.symbol \o <<"-">> \o q.contract
    BY <1>3 DEF InstrumentId
  <2>2. ASSUME q.type = "future" PROVE cut = [at |-> Len(q.symbol) + 1, front |-> q.symbol, rest |-> q.contract]
    BY <1>1, <1>10, <2>1, <2>2, InstrumentCut
  <2> QED BY <2>2
<1>13. a = [is |-> "topic", type |-> IF p = "spot" THEN "spot" ELSE "future",
            symbol |-> IF p = "spot" THEN b ELSE cut.front,
            contract |-> IF p = "spot" THEN <<>> ELSE cut.rest,
            info |-> InfoOf(i), extra |-> IF i = "candle60s" THEN "1m" ELSE ""]
  <2>1. CASE a = SplitChannel(t)
    <3>1. SubSeq(t, FirstAt(t, {":"}) + 1, Len(t)) = b
      BY <1>8
    <3> QED BY <1>8, <1>10, <2>1, <3>1 DEF SplitChannel
  <2>2. CASE a = RowTopic(t[1], t[3], SubSeq(t, 5, Len(t)))
    <3>1. a = RowTopic(p, i, b)
      BY <1>8, <2>2
    <3> QED BY <1>10, <3>1 DEF RowTopic
  <2> QED BY <2>1, <2>2
<1>14. CASE q.type = "spot"
  <2>1. a.type = q.type /\ a.symbol = q.symbol /\ a.contract = q.contract
    BY <1>7, <1>11, <1>13, <1>14
  <2>2. a.is = "topic" /\ a.info = q.info /\ a.extra = q.extra
    BY <1>9, <1>13
  <2> QED BY <2>1, <2>2
<1>15. CASE q.type = "future"
  <2>1. a.type = q.type /\ a.symbol = q.symbol /\ a.contract = q.contract
    BY <1>7, <1>12, <1>13, <1>15
  <2>2. a.is = "topic" /\ a.info = q.info /\ a.extra = q.extra
    BY <1>9, <1>13
  <2> QED BY <2>1, <2>2
<1> QED BY <1>7, <1>14, <1>15

\* The channel of a complete subscription splits, and so do the rows of its table.
LEMMA CompleteSplits ==
    ASSUME NEW q \in Quotes, ConvertQuoteToChannel(q) # Refused, Complete(q),
           NEW t, t = ConvertQuoteToChannel(q).text
    PROVE  SplitChannel(t) # Refused /\ RowTopic(t[1], t[3], SubSeq(t, 5, Len(t))) # Refused
<1>1. q.symbol \in Text /\ q.contract \in Text /\ "-" \notin Range(q.contract) /\ q.symbol # <<>>
      /\ (q.type = "future" => q.contract # <<>>)
  BY ConversionsAssumption DEF Complete
<1>2. PICK b : b = InstrumentId(q)
  OBVIOUS
<1>3. ChannelOf(q, t)
  BY ChannelWordsOf
<1>4. q.type \in {"future", "spot"} /\ (t[1] = "spot" <=> q.type = "spot") /\ b \in Text
  BY <1>2, <1>3 DEF ChannelOf
<1>5. FirstAt(t, {":"}) = 4 /\ SubSeq(t, 5, Len(t)) = b
  BY <1>2, <1>3 DEF ChannelOf
<1>6. PICK cut : cut = CutAtLast(b, "-")
  OBVIOUS
<1>7. b # <<>> /\ (q.type = "future" => cut.at \notin {0, 1, Len(b)})
  <2>1. CASE q.type = "spot"
    BY <1>1, <1>2, <2>1 DEF InstrumentId
  <2>2. CASE q.type = "future"
    <3>1. PICK s, c : s = q.symbol /\ c = q.contract
      OBVIOUS
    <3>2. s \in Seq(Words) /\ c \in Seq(Words) /\ s # <<>> /\ c # <<>> /\ "-" \in Words
      BY <1>1, <2>2, <3>1, ConversionsAssumption DEF Text
    <3>3. PICK m, n : m = Len(s) /\ n = Len(c) /\ m \in Nat \ {0} /\ n \in Nat \ {0}
      BY <3>2, EmptySeq, LenProperties
    <3>4. b = s \o <<"-">> \o c
      BY <1>2, <2>2, <3>1 DEF InstrumentId
    <3>5. Len(b) = m + 1 + n
      BY <3>2, <3>3, <3>4, Divided
    <3>6. cut.at = m + 1
      <4>1. s \in Text /\ c \in Text /\ "-" \notin Range(c)
        BY <1>1, <3>1
      <4>2. CutAtLast(b, "-") = [at |-> Len(s) + 1, front |-> s, rest |-> c]
        BY <3>4, <4>1, InstrumentCut
      <4> QED BY <1>6, <3>3, <4>2
    <3>7. b # <<>>
      BY <3>3, <3>5
    <3> QED BY <3>3, <3>5, <3>6, <3>7
  <2> QED BY <1>4, <2>1, <2>2
<1>8. SplitChannel(t).is = "topic"
  <2>1. SubSeq(t, FirstAt(t, {":"}) + 1, Len(t)) = b
    BY <1>5
  <2> QED BY <1>4, <1>6, <1>7, <2>1 DEF SplitChannel
<1>9. RowTopic(t[1], t[3], b).is = "topic"
  <2>1. PICK p, i : p = t[1] /\ i = t[3]
    OBVIOUS
  <2>2. ~(p # "spot" /\ cut.at \in {0, 1, Len(b)})
    BY <1>4, <1>7, <2>1
  <2>3. PICK a : a = RowTopic(p, i, b)
    OBVIOUS
  <2>4. a.is = "topic"
    BY <1>6, <2>2, <2>3 DEF RowTopic
  <2> QED BY <2>1, <2>3, <2>4
<1>10. \A a : a.is = "topic" => a # Refused
  BY DEF Refused
<1> QED BY <1>5, <1>8, <1>9, <1>10, Zenon

-----------------------------------------------------------------------------
(* Ids.                                                                     *)

\* An id with no "_" in it is found again behind anything.
LEMMA RestIs ==
    ASSUME NEW a \in Text, NEW i \in Text, NEW w \in Words, NEW q, w \notin Range(i), q = a \o <<w>> \o i
    PROVE  SubSeq(q, LastAt(q, w) + 1, Len(q)) = i
<1>1. PICK cut : cut = CutAtLast(q, w)
  OBVIOUS
<1>2. cut = [at |-> Len(a) + 1, front |-> a, rest |-> i]
  BY <1>1, CutIs
<1>3. cut.rest = SubSeq(q, LastAt(q, w) + 1, Len(q))
  BY <1>1 DEF CutAtLast
<1> QED BY <1>2, <1>3

LEMMA IdBehind ==
    ASSUME NEW a \in Text, NEW i \in Text, NEW q, Bar \notin Range(i), q = a \o <<Bar>> \o i
    PROVE  GetIdFromExtend(q) = i
<1>1. Bar \in Words
  BY ConversionsAssumption
<1> QED BY <1>1, RestIs, Zenon DEF GetIdFromExtend

\* So it is in what clients are told.
LEMMA IdOfExtend ==
    ASSUME NEW v \in Text, NEW d \in Text, NEW i \in Text, Bar \notin Range(i), i # <<>>
    PROVE  GetIdFromExtend(ExtendId(v, d, i)) = i
<1>1. PICK a : a = v \o <<Bar>> \o d
  OBVIOUS
<1>2. a \in Text
  <2>1. <<Bar>> \in Seq(Words)
    BY ConversionsAssumption, Tuples
  <2> QED BY <1>1, <2>1, ConcatProperties DEF Text
<1>3. ExtendId(v, d, i) = a \o <<Bar>> \o i
  BY <1>1 DEF ExtendId
<1> QED BY <1>2, <1>3, IdBehind

-----------------------------------------------------------------------------
(* The instruments of CTP.                                                  *)

\* The two parts are the whole.
LEMMA SplitWhole ==
    ASSUME NEW q \in Text, NEW ds
    PROVE  LET c == CTPSplitInstrument(q, ds) IN
           c.symbol \in Text /\ c.contract \in Text /\ c.symbol \o c.contract = q
<1>1. q \in Seq(Words) /\ Len(q) \in Nat
  BY LenProperties DEF Text
<1>2. PICK at : at = IF FirstAt(q, ds) = 0 THEN Len(q) + 1 ELSE FirstAt(q, ds)
  OBVIOUS
<1>3. at \in 1..Len(q) + 1
  <2>1. CASE \A j \in 1..Len(q) : q[j] \notin ds
    BY <1>1, <1>2, <2>1, NoneFirst
  <2>2. CASE \E j \in 1..Len(q) : q[j] \in ds
    <3>1. PICK T : T = {j \in 1..Len(q) : q[j] \in ds}
      OBVIOUS
    <3>2. T \in SUBSET Nat /\ T # {}
      BY <2>2, <3>1
    <3>3. PICK m \in T : \A k \in T : m <= k
      BY <3>2, Least
    <3>4. m \in 1..Len(q) /\ q[m] \in ds /\ \A j \in 1..Len(q) : q[j] \in ds => m <= j
      BY <3>1, <3>3
    <3>5. FirstAt(q, ds) = m
      BY <1>1, <3>4, FirstIs
    <3> QED BY <1>1, <1>2, <3>4, <3>5
  <2> QED BY <2>1, <2>2
<1>4. PICK k \in Nat : at = k + 1 /\ k <= Len(q)
  <2>1. at - 1 \in Nat /\ at = (at - 1) + 1 /\ at - 1 <= Len(q)
    BY <1>1, <1>3
  <2> QED BY <2>1
<1>5. SubSeq(q, 1, k) \o SubSeq(q, k + 1, Len(q)) = q
  <2>1. SubSeq(q, 1, k) \o SubSeq(q, k + 1, Len(q)) = SubSeq(q, 1, Len(q))
    <3>1. 1 \in 1..Len(q) + 1 /\ k \in 1 - 1..Len(q) /\ Len(q) \in k..Len(q)
      BY <1>1, <1>4
    <3> QED BY <1>1, <3>1, ConcatAdjacentSubSeq
  <2> QED BY <1>1, <2>1, SubSeqFull
<1>6. SubSeq(q, 1, k) \in Seq(Words) /\ SubSeq(q, k + 1, Len(q)) \in Seq(Words)
  BY <1>1, <1>4
<1>7. CTPSplitInstrument(q, ds) = [symbol |-> SubSeq(q, 1, k), contract |-> SubSeq(q, k + 1, Len(q))]
  <2>1. at - 1 = k
    BY <1>4
  <2> QED BY <1>2, <1>4, <2>1 DEF CTPSplitInstrument
<1>8. PICK c : c = CTPSplitInstrument(q, ds)
  OBVIOUS
<1>9. c.symbol = SubSeq(q, 1, k) /\ c.contract = SubSeq(q, k + 1, Len(q))
  BY <1>7, <1>8
<1>10. c.symbol \in Text /\ c.contract \in Text /\ c.symbol \o c.contract = q
  BY <1>5, <1>6, <1>9 DEF Text
<1> QED BY <1>8, <1>10

\* A symbol without digits and a contract that begins with one are found again.
LEMMA SplitParts ==
    ASSUME NEW s \in Text, NEW c \in Text, NEW ds, c # <<>>,
           Range(s) \cap ds = {}, c[1] \in ds
    PROVE  CTPSplitInstrument(s \o c, ds) = [symbol |-> s, contract |-> c]
<1>1. s \in Seq(Words) /\ c \in Seq(Words)
  BY DEF Text
<1>2. PICK q : q = s \o c
  OBVIOUS
<1>3. /\ Len(s) \in Nat /\ Len(c) \in Nat /\ Len(q) = Len(s) + Len(c)
      /\ \A j \in 1..Len(s) : q[j] = s[j]
      /\ \A j \in 1..Len(c) : q[Len(s) + j] = c[j]
  BY <1>1, <1>2, TwoParts
<1>4. SubSeq(q, 1, Len(s)) = s
  BY <1>1, <1>2, TwoParts
<1>5. SubSeq(q, Len(s) + 1, Len(q)) = c
  BY <1>1, <1>2, TwoParts
<1>6. Len(c) \in Nat \ {0}
  BY <1>1, EmptySeq
<1>7. PICK n \in Nat : n = Len(s) + 1
  BY <1>3
<1>8. n \in 1..Len(q) /\ q[n] \in ds /\ Len(q) \in Nat
  BY <1>3, <1>6, <1>7
<1>9. \A j \in 1..Len(q) : q[j] \in ds => n <= j
  <2>1. ASSUME NEW j \in 1..Len(q), j < n PROVE q[j] \notin ds
    <3>1. j \in 1..Len(s)
      BY <1>3, <1>7, <2>1
    <3>2. s[j] \in Range(s)
      BY <1>1, <3>1, LenProperties DEF Range
    <3> QED BY <1>3, <3>1, <3>2
  <2> QED BY <1>3, <1>7, <2>1
<1>10. FirstAt(q, ds) = n
  BY <1>8, <1>9, FirstIs
<1>11. CTPSplitInstrument(q, ds) = [symbol |-> SubSeq(q, 1, n - 1), contract |-> SubSeq(q, n, Len(q))]
  <2>1. n # 0
    BY <1>8
  <2> QED BY <1>10, <2>1, Zenon DEF CTPSplitInstrument
<1>12. n - 1 = Len(s)
  BY <1>3, <1>7
<1> QED BY <1>2, <1>4, <1>5, <1>7, <1>11, <1>12

-----------------------------------------------------------------------------
(* Directions.                                                              *)

LEMMA PrefixIs ==
    ASSUME NEW T, NEW s \in Seq(T), NEW t \in Seq(T)
    PROVE  IsPrefix(s, t) <=> Len(s) <= Len(t) /\ \A j \in 1..Len(s) : s[j] = t[j]
<1>1. Len(s) \in Nat /\ Len(t) \in Nat /\ \A j \in 1..Len(t) : t[j] \in T
  BY LenProperties, ElementOfSeq
<1>2. CASE Len(s) <= Len(t)
  <2>1. PICK u : u = SubSeq(t, 1, Len(s))
    OBVIOUS
  <2>2. u \in Seq(T) /\ Len(u) = Len(s) /\ \A j \in 1..Len(s) : u[j] = t[j]
    BY <1>1, <1>2, <2>1, SubSeqProperties
  <2>3. IsPrefix(s, t) <=> s = u
    BY <1>2, <2>1, SubSeqFull DEF IsPrefix
  <2> QED BY <1>2, <2>2, <2>3, SeqEqual
<1>3. CASE ~(Len(s) <= Len(t))
  BY <1>3 DEF IsPrefix
<1> QED BY <1>2, <1>3

\* The first of some texts that is at the front.
LEMMA FrontIs ==
    ASSUME NEW ts, NEW t, NEW i \in 1..Len(ts), Len(ts) \in Nat, IsPrefix(ts[i], t),
           \A j \in 1..Len(ts) : IsPrefix(ts[j], t) => i <= j
    PROVE  FrontOf(ts, t) = i
<1> DEFINE I == {k \in 1..Len(ts) : IsPrefix(ts[k], t)}
<1>1. I \in SUBSET Nat /\ i \in I /\ \A j \in I : i <= j
  OBVIOUS
<1>2. Min(I) = i
  BY <1>1, MinIs
<1> QED BY <1>1, <1>2 DEF FrontOf, SelectInSeq

LEMMA NoFront ==
    ASSUME NEW ts, NEW t, \A j \in 1..Len(ts) : ~IsPrefix(ts[j], t)
    PROVE  FrontOf(ts, t) = 0
<1>1. {k \in 1..Len(ts) : IsPrefix(ts[k], t)} = {}
  OBVIOUS
<1> QED BY <1>1 DEF FrontOf, SelectInSeq

Names == {"open", "close", "today", "history", "force", "buy", "sell", "long", "short", Bar}
Actions == {Open, Close, CloseToday, CloseHistory, ForceClose}

\* The same of texts of these words.
LEMMA NamesPrefix ==
    ASSUME NEW s \in Seq(Names), NEW t \in Seq(Names)
    PROVE  IsPrefix(s, t) <=> Len(s) <= Len(t) /\ \A j \in 1..Len(s) : s[j] = t[j]
BY PrefixIs, SMTT(60)

\* The words of a direction.
LEMMA BarIsNone ==
    Bar \notin {"open", "close", "today", "history", "force", "buy", "sell", "long", "short"}
BY Zenon DEF Bar

LEMMA ActionIs ==
    /\ \A a \in OrderAction :
          a \in Seq(Names) /\ Len(a) \in {1, 2} /\ a[1] # Bar /\ (Len(a) = 2 => a[2] # Bar)
    /\ Len(Open) = 1 /\ Open[1] = "open" /\ Len(Close) = 1 /\ Close[1] = "close"
    /\ Len(CloseToday) = 2 /\ CloseToday[1] = "close" /\ CloseToday[2] = "today"
    /\ Len(CloseHistory) = 2 /\ CloseHistory[1] = "close" /\ CloseHistory[2] = "history"
    /\ Len(ForceClose) = 2 /\ ForceClose[1] = "force" /\ ForceClose[2] = "close"
    /\ Len(Buy) = 1 /\ Buy[1] = "buy" /\ Len(Sell) = 1 /\ Sell[1] = "sell"
    /\ Len(Long) = 1 /\ Long[1] = "long" /\ Long \in Seq(Names)
    /\ Len(Short) = 1 /\ Short[1] = "short" /\ Short \in Seq(Names)
BY BarIsNone DEF OrderAction, Open, Close, CloseToday, CloseHistory, ForceClose, Buy, Sell, Long, Short, Names

\* What tells the text of an action and a direction from another.
JoinedWords(t, a, d) ==
    /\ t \in Seq(Names) /\ Len(t) = Len(a) + 1 + Len(d)
    /\ \A j \in 1..Len(a) : t[j] = a[j]
    /\ t[Len(a) + 1] = Bar
    /\ SubSeq(t, Len(a) + 2, Len(t)) = d

LEMMA JoinedAny ==
    ASSUME NEW s \in Seq(Names), NEW c \in Seq(Names), NEW q, q = s \o <<Bar>> \o c
    PROVE  JoinedWords(q, s, c)
<1>1. Bar \in Names
  BY DEF Names, Bar
<1>2. /\ q \in Seq(Names) /\ Len(q) = Len(s) + 1 + Len(c)
      /\ \A j \in 1..Len(s) : q[j] = s[j]
      /\ q[Len(s) + 1] = Bar
  BY <1>1, Divided
<1>3. SubSeq(q, Len(s) + 2, Len(q)) = c
  BY <1>1, Divided
<1> QED BY <1>2, <1>3 DEF JoinedWords

JoinedText(t, a, d) ==
    /\ Len(a) \in {1, 2} /\ t \in Seq(Names) /\ Len(t) = Len(a) + 2
    /\ t[1] = a[1] /\ t[2] = IF Len(a) = 1 THEN Bar ELSE a[2]
    /\ FirstAt(t, {Bar}) = Len(a) + 1
    /\ SubSeq(t, Len(a) + 2, Len(t)) = d

LEMMA JoinedIs ==
    ASSUME NEW a \in Actions, NEW d \in {Long, Short}
    PROVE  JoinedText(Joined(a, d), a, d)
<1>1. PICK t : t = Joined(a, d)
  OBVIOUS
<1>2. a \in Seq(Names) /\ d \in Seq(Names) /\ Len(a) \in {1, 2} /\ a[1] # Bar /\ (Len(a) = 2 => a[2] # Bar) /\ Len(d) = 1
  <2>1. a \in OrderAction
    BY DEF Actions, OrderAction
  <2> QED BY <2>1, ActionIs
<1>3. JoinedWords(t, a, d)
  BY <1>1, <1>2, JoinedAny DEF Joined
<1>4. /\ t \in Seq(Names) /\ Len(t) = Len(a) + 2
      /\ \A j \in 1..Len(a) : t[j] = a[j]
      /\ t[Len(a) + 1] = Bar
      /\ SubSeq(t, Len(a) + 2, Len(t)) = d
  BY <1>2, <1>3 DEF JoinedWords
<1>5. t[1] = a[1] /\ t[2] = IF Len(a) = 1 THEN Bar ELSE a[2]
  BY <1>2, <1>4
<1>6. PICK at : at = Len(a) + 1
  OBVIOUS
<1>7. PICK ws : ws = {Bar}
  OBVIOUS
<1>8. at \in 1..Len(t) /\ t[at] \in ws /\ Len(t) \in Nat
  BY <1>2, <1>4, <1>6, <1>7
<1>9. \A j \in 1..Len(t) : t[j] \in ws => at <= j
  BY <1>2, <1>4, <1>6, <1>7
<1>10. FirstAt(t, ws) = at
  BY <1>8, <1>9, FirstIs
<1>11. JoinedText(t, a, d)
  BY <1>2, <1>4, <1>5, <1>6, <1>7, <1>10 DEF JoinedText
<1> QED BY <1>1, <1>11

\* What is at the front of it.
LEMMA JoinedFront ==
    ASSUME NEW a \in Actions, NEW t \in Seq(Names), Len(t) = Len(a) + 2,
           t[1] = a[1], t[2] = IF Len(a) = 1 THEN Bar ELSE a[2]
    PROVE  IF a = ForceClose THEN FrontOf(SplitActions, t) = 0
           ELSE /\ FrontOf(SplitActions, t) \in 1..4
                /\ SplitActions[FrontOf(SplitActions, t)] = a
<1>1. PICK ts : ts = SplitActions
  OBVIOUS
<1>2. Len(ts) = 4 /\ ts[1] = Open /\ ts[2] = CloseToday /\ ts[3] = CloseHistory /\ ts[4] = Close
  BY <1>1 DEF SplitActions
<1>3. Bar # "today" /\ Bar # "history"
  BY BarIsNone
<1>4. /\ IsPrefix(ts[1], t) <=> t[1] = "open"
      /\ IsPrefix(ts[2], t) <=> t[1] = "close" /\ t[2] = "today"
      /\ IsPrefix(ts[3], t) <=> t[1] = "close" /\ t[2] = "history"
      /\ IsPrefix(ts[4], t) <=> t[1] = "close"
  <2>1. Len(t) >= 3
    BY ActionIs DEF Actions
  <2>2. Open \in Seq(Names) /\ Close \in Seq(Names) /\ CloseToday \in Seq(Names) /\ CloseHistory \in Seq(Names)
    BY ActionIs DEF OrderAction
  <2>3. IsPrefix(Open, t) <=> Len(Open) <= Len(t) /\ \A j \in 1..Len(Open) : Open[j] = t[j]
    BY <2>2, NamesPrefix, Zenon
  <2>4. IsPrefix(Close, t) <=> Len(Close) <= Len(t) /\ \A j \in 1..Len(Close) : Close[j] = t[j]
    BY <2>2, NamesPrefix, Zenon
  <2>5. IsPrefix(CloseToday, t) <=> Len(CloseToday) <= Len(t) /\ \A j \in 1..Len(CloseToday) : CloseToday[j] = t[j]
    BY <2>2, NamesPrefix, Zenon
  <2>6. IsPrefix(CloseHistory, t) <=>
            Len(CloseHistory) <= Len(t) /\ \A j \in 1..Len(CloseHistory) : CloseHistory[j] = t[j]
    BY <2>2, NamesPrefix, Zenon
  <2> QED BY <1>2, <2>1, <2>3, <2>4, <2>5, <2>6, ActionIs
<1>5. CASE a = Open
  <2>1. \A j \in 1..Len(ts) : IsPrefix(ts[j], t) => 1 <= j
    BY <1>2
  <2>2. IsPrefix(ts[1], t) /\ 1 \in 1..Len(ts) /\ Len(ts) \in Nat
    BY <1>2, <1>4, <1>5, ActionIs
  <2>3. FrontOf(ts, t) = 1
    BY <2>1, <2>2, FrontIs
  <2> QED BY <1>1, <1>2, <1>5, <2>3, ActionIs
<1>6. CASE a = CloseToday
  <2>1. \A j \in 1..Len(ts) : IsPrefix(ts[j], t) => 2 <= j
    BY <1>2, <1>4, <1>6, ActionIs
  <2>2. IsPrefix(ts[2], t) /\ 2 \in 1..Len(ts) /\ Len(ts) \in Nat
    BY <1>2, <1>4, <1>6, ActionIs
  <2>3. FrontOf(ts, t) = 2
    BY <2>1, <2>2, FrontIs
  <2> QED BY <1>1, <1>2, <1>6, <2>3, ActionIs
<1>7. CASE a = CloseHistory
  <2>1. \A j \in 1..Len(ts) : IsPrefix(ts[j], t) => 3 <= j
    BY <1>2, <1>4, <1>7, ActionIs
  <2>2. IsPrefix(ts[3], t) /\ 3 \in 1..Len(ts) /\ Len(ts) \in Nat
    BY <1>2, <1>4, <1>7, ActionIs
  <2>3. FrontOf(ts, t) = 3
    BY <2>1, <2>2, FrontIs
  <2> QED BY <1>1, <1>2, <1>7, <2>3, ActionIs
<1>8. CASE a = Close
  <2>1. \A j \in 1..Len(ts) : IsPrefix(ts[j], t) => 4 <= j
    BY <1>2, <1>3, <1>4, <1>8, ActionIs
  <2>2. IsPrefix(ts[4], t) /\ 4 \in 1..Len(ts) /\ Len(ts) \in Nat
    BY <1>2, <1>4, <1>8, ActionIs
  <2>3. FrontOf(ts, t) = 4
    BY <2>1, <2>2, FrontIs
  <2> QED BY <1>1, <1>2, <1>8, <2>3, ActionIs
<1>9. CASE a = ForceClose
  <2>1. \A j \in 1..Len(ts) : ~IsPrefix(ts[j], t)
    BY <1>2, <1>4, <1>9, ActionIs
  <2>2. FrontOf(ts, t) = 0
    BY <2>1, NoFront
  <2> QED BY <1>1, <1>9, <2>2
<1> QED BY <1>5, <1>6, <1>7, <1>8, <1>9 DEF Actions

\* One of two single words is at its own front.
LEMMA PairFront ==
    ASSUME NEW v \in Seq(Names), NEW w \in Seq(Names), NEW d \in {v, w},
           Len(v) = 1, Len(w) = 1, v[1] # w[1]
    PROVE  FrontOf(<<v, w>>, d) = IF d = v THEN 1 ELSE 2
<1>1. PICK ts : ts = <<v, w>>
  OBVIOUS
<1>2. Len(ts) = 2 /\ ts[1] = v /\ ts[2] = w
  BY <1>1
<1>3. /\ IsPrefix(ts[1], d) <=> d[1] = v[1]
      /\ IsPrefix(ts[2], d) <=> d[1] = w[1]
  <2>1. d \in Seq(Names) /\ Len(d) = 1
    OBVIOUS
  <2>2. IsPrefix(v, d) <=> Len(v) <= Len(d) /\ \A j \in 1..Len(v) : v[j] = d[j]
    BY <2>1, NamesPrefix, SMTT(30)
  <2>3. IsPrefix(w, d) <=> Len(w) <= Len(d) /\ \A j \in 1..Len(w) : w[j] = d[j]
    BY <2>1, NamesPrefix, SMTT(30)
  <2> QED BY <1>2, <2>1, <2>2, <2>3
<1>4. CASE d = v
  <2>1. \A j \in 1..Len(ts) : IsPrefix(ts[j], d) => 1 <= j
    BY <1>2
  <2>2. IsPrefix(ts[1], d) /\ 1 \in 1..Len(ts) /\ Len(ts) \in Nat
    BY <1>2, <1>3, <1>4
  <2>3. FrontOf(ts, d) = 1
    BY <2>1, <2>2, FrontIs
  <2> QED BY <1>1, <1>2, <1>4, <2>3
<1>5. CASE d = w
  <2>1. \A j \in 1..Len(ts) : IsPrefix(ts[j], d) => 2 <= j
    BY <1>2, <1>3, <1>5
  <2>2. IsPrefix(ts[2], d) /\ 2 \in 1..Len(ts) /\ Len(ts) \in Nat
    BY <1>2, <1>3, <1>5
  <2>3. FrontOf(ts, d) = 2
    BY <2>1, <2>2, FrontIs
  <2> QED BY <1>1, <1>2, <1>5, <2>3
<1> QED BY <1>4, <1>5

LEMMA DirFront ==
    ASSUME NEW d \in {Long, Short}
    PROVE  /\ FrontOf(<<Long, Short>>, d) # 0
           /\ <<Long, Short>>[FrontOf(<<Long, Short>>, d)] = d
<1>1. FrontOf(<<Long, Short>>, d) = IF d = Long THEN 1 ELSE 2
  BY ActionIs, PairFront
<1>2. PICK k : k = FrontOf(<<Long, Short>>, d)
  OBVIOUS
<1>3. k # 0 /\ <<Long, Short>>[k] = d
  BY <1>1, <1>2
<1> QED BY <1>2, <1>3

\* The outcome of SplitOrderDir for the directions of the document.
Split(action, dir) == [is |-> "split", action |-> action, dir |-> dir]

LEMMA SplitJoined ==
    ASSUME NEW a \in Actions, NEW d \in {Long, Short}
    PROVE  SplitOrderDir(Joined(a, d)) = IF a = ForceClose THEN {Refused} ELSE {Split(a, d)}
<1>1. PICK t : t = Joined(a, d)
  OBVIOUS
<1>2. Len(a) \in {1, 2}
  BY JoinedIs DEF JoinedText
<1>3. /\ t \in Seq(Names) /\ Len(t) = Len(a) + 2
      /\ t[1] = a[1] /\ t[2] = IF Len(a) = 1 THEN Bar ELSE a[2]
      /\ FirstAt(t, {Bar}) = Len(a) + 1
      /\ SubSeq(t, Len(a) + 2, Len(t)) = d
  BY <1>1, JoinedIs DEF JoinedText
<1>4. PICK at : at = FirstAt(t, {Bar})
  OBVIOUS
<1>5. at > 1 /\ ~(at = 1) /\ ~(at = 0) /\ SubSeq(t, at + 1, Len(t)) = d
  <2>1. at = Len(a) + 1
    BY <1>3, <1>4, Zenon
  <2>2. PICK n : n = Len(a)
    OBVIOUS
  <2>3. n \in {1, 2} /\ at = n + 1
    BY <1>2, <2>1, <2>2
  <2>4. at \in {2, 3} /\ at + 1 = n + 2
    BY <2>3
  <2>5. at \in {2, 3} /\ at + 1 = Len(a) + 2
    BY <2>2, <2>4
  <2>6. SubSeq(t, at + 1, Len(t)) = d
    BY <1>3, <2>5
  <2> QED BY <2>5, <2>6
<1>6. PICK dir : dir = FrontOf(<<Long, Short>>, d)
  OBVIOUS
<1>7. dir # 0 /\ <<Long, Short>>[dir] = d
  BY <1>6, DirFront
<1>8. PICK action : action = FrontOf(SplitActions, t)
  OBVIOUS
<1>9. IF a = ForceClose THEN action = 0 ELSE action # 0 /\ SplitActions[action] = a
  BY <1>3, <1>8, JoinedFront
<1>10. SplitOrderDir(t) =
           IF action = 0 THEN {Refused}
           ELSE {[is |-> "split", action |-> SplitActions[action], dir |-> <<Long, Short>>[dir]]}
  BY <1>4, <1>5, <1>6, <1>7, <1>8 DEF SplitOrderDir
<1> QED BY <1>1, <1>7, <1>9, <1>10 DEF Split

LEMMA SplitSingle ==
    ASSUME NEW t \in {Buy, Sell}
    PROVE  SplitOrderDir(t) = {Split(t, Net)}
<1>1. Len(t) = 1 /\ t[1] # Bar
  BY ActionIs DEF OrderAction
<1>2. FirstAt(t, {Bar}) = 0
  <2>1. PICK ws : ws = {Bar}
    OBVIOUS
  <2>2. FirstAt(t, ws) = 0
    BY <1>1, <2>1, NoneFirst
  <2> QED BY <2>1, <2>2
<1>3. PICK single : single = FrontOf(<<Buy, Sell>>, t)
  OBVIOUS
<1>4. single = IF t = Buy THEN 1 ELSE 2
  BY <1>3, ActionIs, PairFront DEF OrderAction
<1>5. single # 0 /\ <<Buy, Sell>>[single] = t
  BY <1>4
<1>6. SplitOrderDir(t) = {[is |-> "split", action |-> <<Buy, Sell>>[single], dir |-> Net]}
  BY <1>2, <1>3, <1>5 DEF SplitOrderDir
<1> QED BY <1>5, <1>6 DEF Split

\* No text says two directions.
LEMMA JoinedOnce ==
    /\ \A a, b \in Actions : \A d, e \in {Long, Short} : Joined(a, d) = Joined(b, e) => a = b /\ d = e
    /\ \A a \in Actions : \A d \in {Long, Short} : Joined(a, d) # Buy /\ Joined(a, d) # Sell
    /\ Buy # Sell /\ Long # Short
<1>1. ASSUME NEW a \in Actions, NEW b \in Actions, NEW d \in {Long, Short}, NEW e \in {Long, Short},
             Joined(a, d) = Joined(b, e)
      PROVE  a = b /\ d = e
  <2>1. PICK t : t = Joined(a, d) /\ t = Joined(b, e)
    BY <1>1
  <2>2. JoinedText(t, a, d)
    BY <2>1, JoinedIs
  <2>3. JoinedText(t, b, e)
    BY <2>1, JoinedIs
  <2>4. Len(a) = Len(b) /\ d = e
    BY <2>2, <2>3 DEF JoinedText
  <2>5. a[1] = b[1] /\ (Len(a) = 2 => a[2] = b[2])
    BY <2>2, <2>3, <2>4 DEF JoinedText
  <2> QED BY <2>4, <2>5, ActionIs DEF Actions
<1>2. ASSUME NEW a \in Actions, NEW d \in {Long, Short}
      PROVE  Joined(a, d) # Buy /\ Joined(a, d) # Sell
  <2>1. PICK t : t = Joined(a, d)
    OBVIOUS
  <2>2. JoinedText(t, a, d)
    BY <2>1, JoinedIs
  <2>3. Len(t) = Len(a) + 2 /\ Len(a) \in {1, 2}
    BY <2>2 DEF JoinedText
  <2>4. Len(t) # 1
    BY <2>3
  <2>5. t # Buy /\ t # Sell
    BY <2>4, ActionIs
  <2> QED BY <2>1, <2>5
<1>3. Buy # Sell /\ Long # Short
  BY ActionIs
<1> QED BY <1>1, <1>2, <1>3

\* What a direction means.
LEMMA MeaningOfJoined ==
    ASSUME NEW a \in Actions, NEW d \in {Long, Short}
    PROVE  Meaning(Joined(a, d)) = [leg |-> IF d = Long THEN "long" ELSE "short",
                                    more |-> IF a = Open THEN TRUE ELSE FALSE]
<1>1. PICK t : t = Joined(a, d)
  OBVIOUS
<1>2. \A b \in Actions : \A e \in {Long, Short} : t = Joined(b, e) <=> a = b /\ d = e
  BY <1>1, JoinedOnce
<1>3. /\ t = Joined(Open, Long) <=> a = Open /\ d = Long
      /\ t = Joined(Open, Short) <=> a = Open /\ d = Short
  BY <1>2 DEF Actions
<1> DEFINE Closes == {Close, CloseToday, CloseHistory, ForceClose}
<1>4. Actions = {Open} \cup Closes /\ Open \notin Closes
  BY ActionIs DEF Actions
<1>5. /\ t \in Closing(Long) <=> a # Open /\ d = Long
      /\ t \in Closing(Short) <=> a # Open /\ d = Short
  <2>1. /\ t \in {Joined(x, Long) : x \in Closes} <=> a # Open /\ d = Long
        /\ t \in {Joined(x, Short) : x \in Closes} <=> a # Open /\ d = Short
    <3> HIDE DEF Closes
    <3> QED BY <1>2, <1>4
  <2> QED BY <2>1, Zenon DEF Closing
<1>6. Long # Short /\ t # Buy /\ t # Sell
  BY <1>1, JoinedOnce
<1>7. Meaning(t) = [leg |-> IF d = Long THEN "long" ELSE "short",
                    more |-> IF a = Open THEN TRUE ELSE FALSE]
  <2>1. CASE a = Open /\ d = Long
    BY <1>3, <1>5, <1>6, <2>1 DEF Meaning
  <2>2. CASE a = Open /\ d = Short
    BY <1>3, <1>5, <1>6, <2>2 DEF Meaning
  <2>3. CASE a # Open /\ d = Long
    BY <1>3, <1>5, <1>6, <2>3 DEF Meaning
  <2>4. CASE a # Open /\ d = Short
    BY <1>3, <1>5, <1>6, <2>4 DEF Meaning
  <2> QED BY <2>1, <2>2, <2>3, <2>4
<1> QED BY <1>1, <1>7

LEMMA MeaningOfSingle ==
    /\ Meaning(Buy) = [leg |-> "net", more |-> TRUE]
    /\ Meaning(Sell) = [leg |-> "net", more |-> FALSE]
<1>1. ASSUME NEW t \in {Buy, Sell}
      PROVE  Meaning(t) = IF t = Buy THEN [leg |-> "net", more |-> TRUE] ELSE [leg |-> "net", more |-> FALSE]
  <2> DEFINE Closes == {Close, CloseToday, CloseHistory, ForceClose}
  <2>1. Closes \subseteq Actions /\ Open \in Actions
    BY DEF Actions
  <2> HIDE DEF Closes
  <2>2. /\ t # Joined(Open, Long) /\ t # Joined(Open, Short)
        /\ t \notin Closing(Long) /\ t \notin Closing(Short)
    <3>1. /\ t # Joined(Open, Long) /\ t # Joined(Open, Short)
          /\ t \notin {Joined(x, Long) : x \in Closes}
          /\ t \notin {Joined(x, Short) : x \in Closes}
      BY <2>1, JoinedOnce
    <3> QED BY <3>1, Zenon DEF Closing, Closes
  <2>3. Buy # Sell
    BY JoinedOnce
  <2> QED BY <2>2, <2>3 DEF Meaning
<1>2. Buy # Sell
  BY JoinedOnce
<1> QED BY <1>1, <1>2

\* The directions of the document.
LEMMA DirectionsAre ==
    ASSUME NEW t \in Directions
    PROVE  t \in {Buy, Sell} \/ \E a \in Actions, d \in {Long, Short} : t = Joined(a, d)
<1>1. OrderAction \ {Buy, Sell} \subseteq Actions
  BY DEF OrderAction, Actions
<1> QED BY <1>1 DEF Directions

\* What a gateway takes for a direction.
LEMMA Splits ==
    ASSUME NEW t, t \in Directions \/ SplitOrderDir(t) \subseteq {Refused, Crashed},
           NEW s \in SplitOrderDir(t)
    PROVE  \/ s \in {Refused, Crashed}
           \/ s = Split(t, Net) /\ t \in {Buy, Sell}
           \/ \E a \in Actions \ {ForceClose}, d \in {Long, Short} : s = Split(a, d) /\ t = Joined(a, d)
<1>1. CASE SplitOrderDir(t) \subseteq {Refused, Crashed}
  BY <1>1
<1>2. CASE t \in {Buy, Sell}
  <2>1. SplitOrderDir(t) = {Split(t, Net)}
    BY <1>2, SplitSingle
  <2> QED BY <1>2, <2>1
<1>3. CASE \E a \in Actions, d \in {Long, Short} : t = Joined(a, d)
  <2>1. PICK a \in Actions, d \in {Long, Short} : t = Joined(a, d)
    BY <1>3
  <2>2. SplitOrderDir(t) = IF a = ForceClose THEN {Refused} ELSE {Split(a, d)}
    BY <2>1, SplitJoined
  <2> QED BY <2>1, <2>2
<1> QED BY <1>1, <1>2, <1>3, DirectionsAre

LEMMA ResultsDiffer ==
    /\ Refused.is = "refused" /\ Crashed.is = "crashed"
    /\ \A a, d : Split(a, d).is = "split" /\ Split(a, d).action = a /\ Split(a, d).dir = d
BY DEF Refused, Crashed, Split

-----------------------------------------------------------------------------
(* Orders of CTP.                                                           *)

LEMMA CtpDir ==
    ASSUME NEW t, t \in Directions \/ SplitOrderDir(t) \subseteq {Refused, Crashed},
           NEW x \in ConvertOrderDirCommon2CTP(t)
    PROVE  \/ x \in {Refused, Crashed}
           \/ \E a \in Actions \ {ForceClose}, d \in {Long, Short} :
                 t = Joined(a, d) /\ x = [is |-> "dir", offset |-> Offsets[a], side |-> SideOf(a, d)]
<1>1. PICK s \in SplitOrderDir(t) :
         x = IF s.is # "split" THEN s
             ELSE IF s.action \notin DOMAIN Offsets THEN Refused
             ELSE [is |-> "dir", offset |-> Offsets[s.action], side |-> SideOf(s.action, s.dir)]
  BY DEF ConvertOrderDirCommon2CTP
<1>2. DOMAIN Offsets = Actions \ {ForceClose}
  BY ActionIs DEF Offsets, Actions
<1>3. CASE s \in {Refused, Crashed}
  BY <1>1, <1>3, ResultsDiffer
<1>4. CASE s = Split(t, Net) /\ t \in {Buy, Sell}
  <2>1. s.is = "split" /\ s.action = t
    BY <1>4, ResultsDiffer
  <2>2. t \notin DOMAIN Offsets
    BY <1>2, <1>4, ActionIs DEF Actions
  <2> QED BY <1>1, <2>1, <2>2
<1>5. CASE \E a \in Actions \ {ForceClose}, d \in {Long, Short} : s = Split(a, d) /\ t = Joined(a, d)
  <2>1. PICK a \in Actions \ {ForceClose}, d \in {Long, Short} : s = Split(a, d) /\ t = Joined(a, d)
    BY <1>5
  <2>2. s.is = "split" /\ s.action = a /\ s.dir = d
    BY <2>1, ResultsDiffer
  <2> QED BY <1>1, <1>2, <2>1, <2>2
<1> QED BY <1>3, <1>4, <1>5, Splits

\* What CTP is asked for an order.
LEMMA CtpReq ==
    ASSUME NEW o \in Orders["ctp"], NEW r \in ConvertInsertOrderCommon2CTP(o), r \notin {Refused, Crashed}
    PROVE  /\ o.symbol # <<>> /\ o.contract # <<>>
           /\ ConvertOrderTypeCommon2CTP(o.order_type) # ""
           /\ \E a \in Actions \ {ForceClose}, d \in {Long, Short} :
                 /\ o.dir = Joined(a, d)
                 /\ r = [is |-> "req", exchange |-> o.exchange, instrument |-> o.symbol \o o.contract,
                         type |-> ConvertOrderTypeCommon2CTP(o.order_type),
                         offset |-> Offsets[a], side |-> SideOf(a, d),
                         hedge |-> ConvertOrderFlag1Common2CTP(o.order_flag1)]
<1>1. o.symbol # <<>> /\ o.contract # <<>> /\ ConvertOrderTypeCommon2CTP(o.order_type) # ""
  BY DEF ConvertInsertOrderCommon2CTP
<1>2. PICK x \in ConvertOrderDirCommon2CTP(o.dir) :
         r = IF x.is # "dir" THEN x
             ELSE [is |-> "req", exchange |-> o.exchange, instrument |-> o.symbol \o o.contract,
                   type |-> ConvertOrderTypeCommon2CTP(o.order_type), offset |-> x.offset, side |-> x.side,
                   hedge |-> ConvertOrderFlag1Common2CTP(o.order_flag1)]
  BY <1>1 DEF ConvertInsertOrderCommon2CTP
<1>3. o.dir \in Directions \/ SplitOrderDir(o.dir) \subseteq {Refused, Crashed}
  BY ConversionsAssumption
<1>4. x \notin {Refused, Crashed}
  BY <1>2, ResultsDiffer
<1>5. PICK a \in Actions \ {ForceClose}, d \in {Long, Short} :
         o.dir = Joined(a, d) /\ x = [is |-> "dir", offset |-> Offsets[a], side |-> SideOf(a, d)]
  BY <1>3, <1>4, CtpDir
<1>6. x.is = "dir" /\ x.offset = Offsets[a] /\ x.side = SideOf(a, d)
  BY <1>5
<1> QED BY <1>1, <1>2, <1>5, <1>6

CtpOffset == {"Open", "Close", "CloseToday", "CloseYesterday", "ForceClose", "ForceOff"}

\* What CTP reports of an order.
LEMMA CtpFields ==
    ASSUME NEW r, r \in Foreign \/ \E o \in Orders["ctp"] :
                                       r \in ConvertInsertOrderCommon2CTP(o) \ {Refused, Crashed}
    PROVE  /\ r.is = "req" /\ r.instrument \in Text /\ r.hedge \in HedgeFlag \cup {"0"}
           /\ r.side \in {"Buy", "Sell"} /\ r.offset \in CtpOffset
<1>1. CASE r \in Foreign
  BY <1>1, ConversionsAssumption DEF CtpOffset
<1>2. ASSUME NEW o \in Orders["ctp"], r \in ConvertInsertOrderCommon2CTP(o) \ {Refused, Crashed}
      PROVE  /\ r.is = "req" /\ r.instrument \in Text /\ r.hedge \in HedgeFlag \cup {"0"}
             /\ r.side \in {"Buy", "Sell"} /\ r.offset \in CtpOffset
  <2>1. PICK a \in Actions \ {ForceClose}, d \in {Long, Short} :
           r = [is |-> "req", exchange |-> o.exchange, instrument |-> o.symbol \o o.contract,
                type |-> ConvertOrderTypeCommon2CTP(o.order_type),
                offset |-> Offsets[a], side |-> SideOf(a, d),
                hedge |-> ConvertOrderFlag1Common2CTP(o.order_flag1)]
    BY <1>2, CtpReq
  <2>2. r.is = "req" /\ r.instrument = o.symbol \o o.contract /\ r.offset = Offsets[a] /\ r.side = SideOf(a, d)
        /\ r.hedge = ConvertOrderFlag1Common2CTP(o.order_flag1)
    BY <2>1
  <2>3. o.symbol \in Text /\ o.contract \in Text
    BY ConversionsAssumption
  <2>4. o.symbol \o o.contract \in Text
    BY <2>3, ConcatProperties DEF Text
  <2>5. ConvertOrderFlag1Common2CTP(o.order_flag1) \in HedgeFlag \cup {"0"}
    BY DEF ConvertOrderFlag1Common2CTP, HedgeFlag
  <2>6. Offsets[a] \in CtpOffset
    BY ActionIs DEF Offsets, CtpOffset, Actions
  <2>7. SideOf(a, d) \in {"Buy", "Sell"}
    BY DEF SideOf
  <2> QED BY <2>2, <2>4, <2>5, <2>6, <2>7
<1> QED BY <1>1, <1>2

\* A direction comes back as it was sent.
LEMMA CtpDirBack ==
    ASSUME NEW a \in Actions \ {ForceClose}, NEW d \in {Long, Short}
    PROVE  ConvertOrderDirCTP2Common(SideOf(a, d), Offsets[a]) = Joined(a, d)
<1>1. Offsets[a] = CASE a = Open -> "Open" [] a = Close -> "Close"
                     [] a = CloseToday -> "CloseToday" [] a = CloseHistory -> "CloseYesterday"
  BY DEF Offsets, Actions
<1>2. Long # Short
  BY JoinedOnce
<1>3. PICK offset : offset = Offsets[a]
  OBVIOUS
<1>4. (SideOf(a, d) = "Buy") <=> ((a = Open) <=> (d = Long))
  BY <1>2 DEF SideOf
<1>5. CASE a = Open
  <2>1. offset = "Open"
    BY <1>1, <1>3, <1>5, ActionIs
  <2> QED BY <1>2, <1>3, <1>4, <1>5, <2>1 DEF ConvertOrderDirCTP2Common
<1>6. CASE a = Close
  <2>1. offset = "Close" /\ a # Open
    BY <1>1, <1>3, <1>6, ActionIs
  <2> QED BY <1>2, <1>3, <1>4, <1>6, <2>1 DEF ConvertOrderDirCTP2Common
<1>7. CASE a = CloseToday
  <2>1. offset = "CloseToday" /\ a # Open
    BY <1>1, <1>3, <1>7, ActionIs
  <2> QED BY <1>2, <1>3, <1>4, <1>7, <2>1 DEF ConvertOrderDirCTP2Common
<1>8. CASE a = CloseHistory
  <2>1. offset = "CloseYesterday" /\ a # Open
    BY <1>1, <1>3, <1>8, ActionIs
  <2> QED BY <1>2, <1>3, <1>4, <1>8, <2>1 DEF ConvertOrderDirCTP2Common
<1> QED BY <1>5, <1>6, <1>7, <1>8 DEF Actions

\* What CTP reports is told as what it does to the position.
LEMMA CtpMeaning ==
    ASSUME NEW r, r.side \in {"Buy", "Sell"}, r.offset \in CtpOffset, gateway = "ctp"
    PROVE  Meaning(ConvertOrderDirCTP2Common(r.side, r.offset)) = Effect(r)
<1>1. PICK a \in Actions : /\ a = CASE r.offset = "Open" -> Open
                                    [] r.offset = "CloseToday" -> CloseToday
                                    [] r.offset = "CloseYesterday" -> CloseHistory
                                    [] r.offset \in {"ForceClose", "ForceOff"} -> ForceClose
                                    [] OTHER -> Close
                           /\ a = Open <=> r.offset = "Open"
  <2>1. Open # Close /\ Open # CloseToday /\ Open # CloseHistory /\ Open # ForceClose
    BY ActionIs
  <2> QED BY <2>1 DEF CtpOffset, Actions
<1>2. PICK d \in {Long, Short} : d = IF (r.side = "Buy") = (r.offset = "Open") THEN Long ELSE Short
  OBVIOUS
<1>3. ConvertOrderDirCTP2Common(r.side, r.offset) = Joined(a, d)
  BY <1>1, <1>2 DEF ConvertOrderDirCTP2Common
<1>4. PICK m : m = Meaning(Joined(a, d))
  OBVIOUS
<1>5. m = [leg |-> IF d = Long THEN "long" ELSE "short", more |-> IF a = Open THEN TRUE ELSE FALSE]
  BY <1>4, MeaningOfJoined
<1>6. Long # Short
  BY JoinedOnce
<1>7. PICK offset : offset = r.offset
  OBVIOUS
<1>8. PICK side \in {"Buy", "Sell"} : side = r.side
  OBVIOUS
<1>9. d = IF side = "Buy" THEN (IF offset = "Open" THEN Long ELSE Short)
          ELSE (IF offset = "Open" THEN Short ELSE Long)
  BY <1>2, <1>7, <1>8
<1>10. Effect(r) = [leg |-> IF (offset = "Open") = (side = "Buy") THEN "long" ELSE "short",
                    more |-> offset = "Open"]
  BY <1>7, <1>8 DEF Effect
<1>11. Effect(r) = [leg |-> IF d = Long THEN "long" ELSE "short",
                    more |-> IF offset = "Open" THEN TRUE ELSE FALSE]
  <2>1. CASE offset = "Open"
    BY <1>6, <1>9, <1>10, <2>1
  <2>2. CASE offset # "Open"
    BY <1>6, <1>9, <1>10, <2>2
  <2> QED BY <2>1, <2>2
<1> QED BY <1>1, <1>3, <1>4, <1>5, <1>7, <1>11

-----------------------------------------------------------------------------
(* Orders of XTP.                                                           *)

LEMMA SidesAre ==
    ASSUME NEW p \in DOMAIN Sides, NEW a \in DOMAIN Sides[p]
    PROVE  /\ a \in {Buy, Sell}
           /\ Sides[p][a] \in IF a = Buy THEN {"Buy", "Purchase"} ELSE {"Sell", "Redemption"}
<1>1. DOMAIN Sides = {"spot", "etf", "ipo"}
  BY DEF Sides
<1>2. CASE p = "spot"
  <2>1. Sides[p] = [x \in {Buy, Sell} |-> IF x = Buy THEN "Buy" ELSE "Sell"]
    BY <1>2 DEF Sides
  <2> QED BY <2>1
<1>3. CASE p = "etf"
  <2>1. Sides[p] = [x \in {Buy, Sell} |-> IF x = Buy THEN "Purchase" ELSE "Redemption"]
    BY <1>3 DEF Sides
  <2> QED BY <2>1
<1>4. CASE p = "ipo"
  <2>1. Sides[p] = [x \in {Buy} |-> "Buy"]
    BY <1>4 DEF Sides
  <2> QED BY <2>1
<1> QED BY <1>1, <1>2, <1>3, <1>4

\* What XTP is asked for an order.
LEMMA XtpReq ==
    ASSUME NEW o \in Orders["xtp"], NEW r \in ConvertInsertOrderCommon2XTP(o), r \notin {Refused, Crashed}
    PROVE  /\ o.dir \in {Buy, Sell}
           /\ r.is = "req" /\ r.ticker = o.symbol
           /\ r.market = ConvertExchangeMarketTypeCommon2XTP(o.exchange)
           /\ r.side \in IF o.dir = Buy THEN {"Buy", "Purchase"} ELSE {"Sell", "Redemption"}
<1>1. PICK x \in ConvertOrderDirCommon2XTP(o.type, o.dir) :
         r = IF x.is # "dir" THEN x
             ELSE [is |-> "req", ticker |-> o.symbol, side |-> x.side,
                   market |-> ConvertExchangeMarketTypeCommon2XTP(o.exchange),
                   type |-> ConvertOrderTypeCommon2XTP(o.type, o.order_type)]
  BY DEF ConvertInsertOrderCommon2XTP
<1>2. PICK s \in SplitOrderDir(o.dir) :
         x = IF s.is # "split" THEN s
             ELSE IF o.type \notin DOMAIN Sides THEN Refused
             ELSE IF s.action \notin DOMAIN Sides[o.type] THEN Refused
             ELSE [is |-> "dir", side |-> Sides[o.type][s.action]]
  BY DEF ConvertOrderDirCommon2XTP
<1>3. x \notin {Refused, Crashed} /\ s \notin {Refused, Crashed}
  BY <1>1, <1>2, ResultsDiffer
<1>4. o.dir \in Directions \/ SplitOrderDir(o.dir) \subseteq {Refused, Crashed}
  BY ConversionsAssumption
<1>5. \/ s = Split(o.dir, Net) /\ o.dir \in {Buy, Sell}
      \/ \E a \in Actions \ {ForceClose}, d \in {Long, Short} : s = Split(a, d) /\ o.dir = Joined(a, d)
  BY <1>3, <1>4, Splits
<1>6. s.is = "split" /\ o.type \in DOMAIN Sides /\ s.action \in DOMAIN Sides[o.type]
      /\ x = [is |-> "dir", side |-> Sides[o.type][s.action]]
  BY <1>2, <1>3, <1>5, ResultsDiffer
<1>7. s.action \in {Buy, Sell}
      /\ Sides[o.type][s.action] \in IF s.action = Buy THEN {"Buy", "Purchase"} ELSE {"Sell", "Redemption"}
  BY <1>6, SidesAre
<1>8. s = Split(o.dir, Net) /\ o.dir \in {Buy, Sell}
  <2>1. ASSUME NEW a \in Actions, NEW d, s = Split(a, d) PROVE FALSE
    <3>1. s.action = a
      BY <2>1, ResultsDiffer
    <3> QED BY <1>7, <3>1, ActionIs DEF Actions
  <2> QED BY <1>5, <2>1
<1>9. s.action = o.dir
  BY <1>8, ResultsDiffer
<1>10. x.is = "dir" /\ x.side = Sides[o.type][s.action]
  BY <1>6
<1>11. r.is = "req" /\ r.ticker = o.symbol /\ r.side = Sides[o.type][s.action]
       /\ r.market = ConvertExchangeMarketTypeCommon2XTP(o.exchange)
  BY <1>1, <1>10
<1> QED BY <1>7, <1>8, <1>9, <1>11

-----------------------------------------------------------------------------
(* Orders of OKEx.                                                          *)

LEMMA TypesAre ==
    /\ DOMAIN Types = {"1", "2", "3", "4"}
    /\ Types["1"] = Joined(Open, Long) /\ Types["2"] = Joined(Open, Short)
    /\ Types["3"] = Joined(Close, Long) /\ Types["4"] = Joined(Close, Short)
BY DEF Types

\* The action and the direction of a type.
ActionOf(t) == IF t \in {"1", "2"} THEN Open ELSE Close
HeldOf(t) == IF t \in {"1", "3"} THEN Long ELSE Short

LEMMA TypeIs ==
    ASSUME NEW t \in DOMAIN Types
    PROVE  /\ Types[t] = Joined(ActionOf(t), HeldOf(t))
           /\ ActionOf(t) \in Actions /\ HeldOf(t) \in {Long, Short}
<1>1. ActionOf(t) \in Actions /\ HeldOf(t) \in {Long, Short}
  <2>1. ActionOf(t) \in {Open, Close} /\ HeldOf(t) \in {Long, Short}
    BY Zenon DEF ActionOf, HeldOf
  <2> QED BY <2>1 DEF Actions
<1>2. t \in {"1", "2", "3", "4"}
  BY TypesAre
<1>3. Types[t] = Joined(ActionOf(t), HeldOf(t))
  <2>1. CASE t = "1"
    <3>1. ActionOf(t) = Open /\ HeldOf(t) = Long
      BY <2>1 DEF ActionOf, HeldOf
    <3> QED BY <2>1, <3>1, TypesAre, Zenon
  <2>2. CASE t = "2"
    <3>1. ActionOf(t) = Open /\ HeldOf(t) = Short
      BY <2>2 DEF ActionOf, HeldOf
    <3> QED BY <2>2, <3>1, TypesAre, Zenon
  <2>3. CASE t = "3"
    <3>1. ActionOf(t) = Close /\ HeldOf(t) = Long
      BY <2>3 DEF ActionOf, HeldOf
    <3> QED BY <2>3, <3>1, TypesAre, Zenon
  <2>4. CASE t = "4"
    <3>1. ActionOf(t) = Close /\ HeldOf(t) = Short
      BY <2>4 DEF ActionOf, HeldOf
    <3> QED BY <2>4, <3>1, TypesAre, Zenon
  <2> QED BY <1>2, <2>1, <2>2, <2>3, <2>4
<1> QED BY <1>1, <1>3

LEMMA TypesDiffer ==
    ASSUME NEW t \in DOMAIN Types, NEW u \in DOMAIN Types, Types[t] = Types[u]
    PROVE  t = u
<1>1. Joined(ActionOf(t), HeldOf(t)) = Joined(ActionOf(u), HeldOf(u))
  BY TypeIs, Zenon
<1>2. ActionOf(t) = ActionOf(u) /\ HeldOf(t) = HeldOf(u)
  <2>1. PICK a \in Actions, d \in {Long, Short} : a = ActionOf(t) /\ d = HeldOf(t)
    BY TypeIs
  <2>2. PICK b \in Actions, e \in {Long, Short} : b = ActionOf(u) /\ e = HeldOf(u)
    BY TypeIs
  <2>3. Joined(a, d) = Joined(b, e)
    BY <1>1, <2>1, <2>2, Zenon
  <2> QED BY <2>1, <2>2, <2>3, JoinedOnce
<1>3. Open # Close /\ Long # Short
  BY ActionIs, JoinedOnce
<1>4. t \in {"1", "2", "3", "4"} /\ u \in {"1", "2", "3", "4"}
  BY TypesAre
<1> QED BY <1>2, <1>3, <1>4 DEF ActionOf, HeldOf

\* What a future's order on OKEx does to the position is what its direction means.
LEMMA TypesMean ==
    ASSUME NEW r, r.product # "spot", r.type \in DOMAIN Types, gateway = "okex"
    PROVE  Meaning(Types[r.type]) = Effect(r)
<1>1. Open # Close /\ Long # Short
  BY ActionIs, JoinedOnce
<1>2. PICK t \in DOMAIN Types : t = r.type
  OBVIOUS
<1>3. Effect(r) = [leg |-> IF t \in {"1", "3"} THEN "long" ELSE "short",
                   more |-> IF t \in {"1", "2"} THEN TRUE ELSE FALSE]
  <2>1. t \in {"1", "2", "3", "4"}
    BY TypesAre
  <2>2. CASE t = "1"
    BY <1>2, <2>2 DEF Effect
  <2>3. CASE t = "2"
    BY <1>2, <2>3 DEF Effect
  <2>4. CASE t \in {"3", "4"}
    <3>1. (t \in {"1", "2"}) = FALSE
      BY <2>4
    <3>2. (IF t \in {"1", "2"} THEN TRUE ELSE FALSE) = FALSE
      BY <2>4
    <3>3. Effect(r) = [leg |-> IF t \in {"1", "3"} THEN "long" ELSE "short", more |-> t \in {"1", "2"}]
      BY <1>2 DEF Effect
    <3> QED BY <3>1, <3>2, <3>3, Zenon
  <2> QED BY <2>1, <2>2, <2>3, <2>4
<1>4. PICK a \in Actions, d \in {Long, Short} : a = ActionOf(t) /\ d = HeldOf(t)
  BY TypeIs
<1>5. Meaning(Joined(a, d)) = [leg |-> IF d = Long THEN "long" ELSE "short",
                               more |-> IF a = Open THEN TRUE ELSE FALSE]
  BY MeaningOfJoined
<1>6. /\ d = Long <=> t \in {"1", "3"}
      /\ a = Open <=> t \in {"1", "2"}
  BY <1>1, <1>4 DEF ActionOf, HeldOf
<1>7. Meaning(Joined(a, d)) = Effect(r)
  <2>1. (IF t \in {"1", "2"} THEN TRUE ELSE FALSE) = (IF a = Open THEN TRUE ELSE FALSE)
    BY <1>6
  <2>2. (IF t \in {"1", "3"} THEN "long" ELSE "short") = (IF d = Long THEN "long" ELSE "short")
    BY <1>6
  <2>3. PICK leg, more : /\ leg = IF d = Long THEN "long" ELSE "short"
                         /\ more = IF a = Open THEN TRUE ELSE FALSE
    OBVIOUS
  <2>4. Meaning(Joined(a, d)) = [leg |-> leg, more |-> more]
    BY <1>5, <2>3, Zenon
  <2>5. Effect(r) = [leg |-> leg, more |-> more]
    BY <1>3, <2>1, <2>2, <2>3, Zenon
  <2> QED BY <2>4, <2>5
<1>8. Types[t] = Joined(a, d)
  BY <1>4, TypeIs
<1> QED BY <1>2, <1>7, <1>8, Zenon

\* What OKEx is asked for an order.
OkexAsks(o, r) ==
    /\ r.is = "req" /\ r.product = ProductType(o) /\ r.instrument = InstrumentId(o)
    /\ o.type \in {"future", "spot"} /\ r.product \in {"spot", "futures", "swap"}
    /\ r.product = "spot" <=> o.type = "spot"
    /\ o.type = "future" =>
          /\ o.order_type # "market" /\ r.type \in DOMAIN Types /\ Types[r.type] = o.dir
          /\ r.sized = "amount"
    /\ o.type = "spot" =>
          /\ r.type = o.order_type /\ r.side = o.dir
          /\ o.order_type = "limit" => r.sized = "amount"
          /\ o.order_type = "market" => r.sized = IF o.dir = Buy THEN "total_price" ELSE "amount"

LEMMA OkexReq ==
    ASSUME NEW o, NEW r, r = ConvertInsertOrderCommon2Okex(o), r # Refused
    PROVE  OkexAsks(o, r)
<1>1. /\ ProductType(o) # ""
      /\ o.type = "future" => o.order_type # "market" /\ o.dir \in Range(Types)
  BY DEF ConvertInsertOrderCommon2Okex
<1>2. o.type \in {"future", "spot"} /\ ProductType(o) \in {"spot", "futures", "swap"}
      /\ (ProductType(o) = "spot" <=> o.type = "spot")
  BY <1>1 DEF ProductType
<1>3. PICK type : type = IF o.type = "future" THEN CHOOSE t \in DOMAIN Types : Types[t] = o.dir
                         ELSE o.order_type
  OBVIOUS
<1>4. PICK side : side = IF o.type = "future" THEN <<>> ELSE o.dir
  OBVIOUS
<1>5. PICK sized : sized = CASE o.type = "future" \/ o.order_type = "limit" -> "amount"
                             [] o.type = "spot" /\ o.order_type = "market" ->
                                   IF o.dir = Buy THEN "total_price" ELSE "amount"
                             [] OTHER -> ""
  OBVIOUS
<1>6. r = [is |-> "req", product |-> ProductType(o), instrument |-> InstrumentId(o),
           type |-> type, side |-> side, sized |-> sized]
  <2>1. ~(\/ ProductType(o) = ""
          \/ o.type = "future" /\ (o.order_type = "market" \/ o.dir \notin Range(Types)))
    BY <1>1
  <2> QED BY <1>3, <1>4, <1>5, <2>1, Zenon DEF ConvertInsertOrderCommon2Okex
<1>7. r.is = "req" /\ r.product = ProductType(o) /\ r.instrument = InstrumentId(o)
      /\ r.type = type /\ r.side = side /\ r.sized = sized
  BY <1>6
<1>8. CASE o.type = "future"
  <2>1. \E t \in DOMAIN Types : Types[t] = o.dir
    BY <1>1, <1>8, Zenon DEF Range
  <2>2. type \in DOMAIN Types /\ Types[type] = o.dir
    BY <1>3, <1>8, <2>1, Zenon
  <2>3. sized = "amount"
    BY <1>5, <1>8
  <2> QED BY <1>1, <1>2, <1>7, <1>8, <2>2, <2>3 DEF OkexAsks
<1>9. CASE o.type = "spot"
  <2>1. type = o.order_type /\ side = o.dir
    BY <1>3, <1>4, <1>9
  <2>2. o.order_type = "limit" => sized = "amount"
    BY <1>5, <1>9
  <2>3. o.order_type = "market" => sized = IF o.dir = Buy THEN "total_price" ELSE "amount"
    BY <1>5, <1>9
  <2> QED BY <1>2, <1>7, <1>9, <2>1, <2>2, <2>3 DEF OkexAsks
<1> QED BY <1>2, <1>8, <1>9

-----------------------------------------------------------------------------
(* The invariant.                                                           *)

\* What each gateway makes of an order, which requests its market has names for, and
\* what it tells of them.
Asked(g, o) ==
    CASE g = "ctp" -> ConvertInsertOrderCommon2CTP(o)
      [] g = "xtp" -> ConvertInsertOrderCommon2XTP(o)
      [] g = "okex" -> {ConvertInsertOrderCommon2Okex(o)}
KnownTo(g, r) ==
    CASE g = "ctp" -> r.hedge \in HedgeFlag
      [] g = "xtp" -> r.market # "Unknown" /\ r.type # "Unknown"
      [] g = "okex" -> r.product # "spot" \/ (r.type \in {"limit", "market"} /\ r.side \in {Buy, Sell})
ToldBy(g, r, i, s) ==
    CASE g = "ctp" -> ConvertRtnOrderCTP2Common(r, i, s, Investor, Day, Digits)
      [] g = "xtp" -> ConvertOrderInfoXTP2Common(r, i, s, Investor, Day)
      [] g = "okex" -> ConvertOrderTradeOkex2Common(r, i, s)

LEMMA ByGateway ==
    /\ \A o : ToMarket(o) = Asked(gateway, o)
    /\ \A r : Known(r) <=> KnownTo(gateway, r)
    /\ \A r, i, s : Told(r, i, s) = ToldBy(gateway, r, i, s)
<1>1. \A o : ToMarket(o) = Asked(gateway, o)
  BY Zenon DEF ToMarket, Asked
<1>2. \A r : Known(r) <=> KnownTo(gateway, r)
  BY Zenon DEF Known, KnownTo
<1>3. \A r, i, s : Told(r, i, s) = ToldBy(gateway, r, i, s)
  BY Zenon DEF Told, ToldBy
<1> QED BY <1>1, <1>2, <1>3

\* Who the process follows.
StateInv ==
    /\ gateway \in {"ctp", "xtp", "okex", "quotes"} /\ down \in BOOLEAN
    /\ order # None => order \in Orders[gateway]
    /\ id \in Ids \cup {<<>>}
    /\ status # None => status \in Statuses[gateway]
    /\ quote \in Quotes \cup {None}

\* What the market was asked is what became of the client's order, or another's request.
ReqInv ==
    req # None =>
        \/ gateway # "quotes" /\ order \in Orders[gateway]
           /\ req \in Asked(gateway, order) \ {Refused, Crashed}
        \/ gateway = "ctp" /\ order = None /\ req \in Foreign

\* The clients are told of the last report.
NoticeInv ==
    notice # None =>
        /\ req # None /\ KnownTo(gateway, req) /\ gateway # "quotes" /\ status \in Statuses[gateway]
        /\ id # <<>> \/ gateway = "ctp"
        /\ notice = ToldBy(gateway, req, id, status) /\ notice # Refused

\* What is to be cancelled has an id, and is the order the market was asked for.
CancelInv ==
    cancel # None =>
        /\ req # None /\ id # <<>> /\ cancel.is = "cancel" /\ cancel.id = id
        /\ gateway = "ctp" => cancel.exchange = req.exchange /\ cancel.instrument = req.instrument
        /\ gateway = "okex" => cancel.product = req.product /\ cancel.instrument = req.instrument

\* What is said is said of the channel that the quote's became.
TopicInv ==
    /\ channel # None =>
          /\ quote \in Quotes /\ ConvertQuoteToChannel(quote) # Refused
          /\ channel = ConvertQuoteToChannel(quote)
    /\ said # None =>
          /\ channel # None
          /\ said \in {Listed(channel.text),
                       RowTopic(channel.text[1], channel.text[3],
                                SubSeq(channel.text, 5, Len(channel.text)))}

ConversionsInv == StateInv /\ ReqInv /\ NoticeInv /\ CancelInv /\ TopicInv

LEMMA StateStep ==
    ASSUME StateInv, [ConversionsNext]_conversionsVars
    PROVE  StateInv'
<1>1. CASE UNCHANGED conversionsVars
  BY <1>1 DEF StateInv, conversionsVars, orderVars, topicVars
<1>2. ASSUME NEW o \in Orders[gateway], InsertOrder(o) PROVE StateInv'
  BY <1>2 DEF StateInv, InsertOrder, topicVars
<1>3. ASSUME NEW r \in Foreign, ForeignOrder(r) PROVE StateInv'
  BY <1>3 DEF StateInv, ForeignOrder, topicVars
<1>4. ASSUME NEW i \in Ids \cup {<<>>}, NEW s \in Statuses[gateway], Report(i, s) PROVE StateInv'
  BY <1>4 DEF StateInv, Report, topicVars
<1>5. CASE CancelOrder
  BY <1>5 DEF StateInv, CancelOrder, topicVars
<1>6. ASSUME NEW q \in Quotes, SubTopics(q) PROVE StateInv'
  BY <1>6 DEF StateInv, SubTopics, orderVars
<1>7. CASE GetSubTopics
  BY <1>7 DEF StateInv, GetSubTopics, orderVars
<1>8. CASE OnQuote
  BY <1>8 DEF StateInv, OnQuote, orderVars
<1> QED BY <1>1, <1>2, <1>3, <1>4, <1>5, <1>6, <1>7, <1>8 DEF ConversionsNext

LEMMA ReqStep ==
    ASSUME StateInv, ReqInv, [ConversionsNext]_conversionsVars
    PROVE  ReqInv'
<1>1. CASE UNCHANGED <<gateway, order, req>>
  BY <1>1 DEF ReqInv
<1>2. ASSUME NEW o \in Orders[gateway], InsertOrder(o), gateway # "quotes" PROVE ReqInv'
  <2>1. PICK r \in Asked(gateway, o) \ {Refused} :
           order' = o /\ req' = (IF r = Crashed THEN None ELSE r) /\ gateway' = gateway
    BY <1>2, ByGateway DEF InsertOrder
  <2> QED BY <1>2, <2>1 DEF ReqInv
<1>3. ASSUME NEW r \in Foreign, ForeignOrder(r) PROVE ReqInv'
  BY <1>3 DEF ReqInv, ForeignOrder
<1>4. ASSUME NEW i, NEW s, Report(i, s) PROVE UNCHANGED <<gateway, order, req>>
  BY <1>4 DEF Report
<1>5. CancelOrder => UNCHANGED <<gateway, order, req>>
  BY DEF CancelOrder
<1>6. ASSUME NEW q, SubTopics(q) PROVE UNCHANGED <<gateway, order, req>>
  BY <1>6 DEF SubTopics, orderVars
<1>7. GetSubTopics \/ OnQuote => UNCHANGED <<gateway, order, req>>
  BY DEF GetSubTopics, OnQuote, orderVars
<1>8. UNCHANGED conversionsVars => UNCHANGED <<gateway, order, req>>
  BY DEF conversionsVars, orderVars
<1> QED BY <1>1, <1>2, <1>3, <1>4, <1>5, <1>6, <1>7, <1>8 DEF ConversionsNext

\* What the OKEx gateway refuses to tell of an order.
LEMMA OkexTold ==
    ASSUME NEW r, NEW i, NEW s, NEW n, n = ToldBy("okex", r, i, s), n # Refused
    PROVE  /\ s \in KnownStatus
           /\ r.product # "spot" => CutAtLast(r.instrument, "-").at \notin {0, Len(r.instrument)}
<1>1. n = ConvertOrderTradeOkex2Common(r, i, s)
  BY DEF ToldBy
<1>2. s \in KnownStatus
  BY <1>1, Zenon DEF ConvertOrderTradeOkex2Common
<1>3. PICK cut : cut = CutAtLast(r.instrument, "-")
  OBVIOUS
<1>4. ASSUME r.product # "spot", cut.at \in {0, Len(r.instrument)} PROVE FALSE
  BY <1>1, <1>2, <1>3, <1>4, Zenon DEF ConvertOrderTradeOkex2Common
<1> QED BY <1>2, <1>3, <1>4

LEMMA NoticeStep ==
    ASSUME StateInv, NoticeInv, [ConversionsNext]_conversionsVars
    PROVE  NoticeInv'
<1>1. CASE UNCHANGED <<gateway, req, id, status, notice>>
  BY <1>1 DEF NoticeInv
<1>2. ASSUME NEW o, InsertOrder(o) PROVE NoticeInv'
  <2>1. notice = None /\ notice' = notice
    BY <1>2 DEF InsertOrder, NoticeInv
  <2> QED BY <2>1 DEF NoticeInv
<1>3. ASSUME NEW r, ForeignOrder(r) PROVE NoticeInv'
  <2>1. notice = None /\ notice' = notice
    BY <1>3 DEF ForeignOrder, NoticeInv
  <2> QED BY <2>1 DEF NoticeInv
<1>4. ASSUME NEW i \in Ids \cup {<<>>}, NEW s \in Statuses[gateway], Report(i, s), gateway # "quotes"
      PROVE  NoticeInv'
  <2>1. /\ req # None /\ KnownTo(gateway, req) /\ (i # <<>> \/ gateway = "ctp")
        /\ id' = i /\ status' = s /\ gateway' = gateway /\ req' = req
        /\ notice' = ToldBy(gateway, req, i, s) /\ ToldBy(gateway, req, i, s) # Refused
    BY <1>4, ByGateway DEF Report
  <2>2. notice' = ToldBy(gateway', req', id', status') /\ notice' # Refused
    BY <2>1
  <2>3. req' # None /\ KnownTo(gateway', req') /\ gateway' # "quotes" /\ status' \in Statuses[gateway']
        /\ (id' # <<>> \/ gateway' = "ctp")
    BY <1>4, <2>1
  <2> QED BY <2>2, <2>3 DEF NoticeInv
<1>5. CancelOrder => UNCHANGED <<gateway, req, id, status, notice>>
  BY DEF CancelOrder
<1>6. ASSUME NEW q, SubTopics(q) PROVE UNCHANGED <<gateway, req, id, status, notice>>
  BY <1>6 DEF SubTopics, orderVars
<1>7. GetSubTopics \/ OnQuote => UNCHANGED <<gateway, req, id, status, notice>>
  BY DEF GetSubTopics, OnQuote, orderVars
<1>8. UNCHANGED conversionsVars => UNCHANGED <<gateway, req, id, status, notice>>
  BY DEF conversionsVars, orderVars
<1> QED BY <1>1, <1>2, <1>3, <1>4, <1>5, <1>6, <1>7, <1>8 DEF ConversionsNext

LEMMA TopicStep ==
    ASSUME StateInv, TopicInv, [ConversionsNext]_conversionsVars
    PROVE  TopicInv'
<1>1. CASE UNCHANGED <<quote, channel, said>>
  BY <1>1 DEF TopicInv
<1>2. ASSUME NEW q \in Quotes, SubTopics(q) PROVE TopicInv'
  <2>1. said = None
    BY <1>2, ConversionsAssumption DEF TopicInv, SubTopics
  <2>2. quote' = q /\ channel' = ConvertQuoteToChannel(q) /\ ConvertQuoteToChannel(q) # Refused /\ said' = None
    BY <1>2, <2>1 DEF SubTopics
  <2> QED BY <2>2 DEF TopicInv
<1>3. CASE GetSubTopics
  BY <1>3 DEF TopicInv, GetSubTopics
<1>4. CASE OnQuote
  BY <1>4 DEF TopicInv, OnQuote
<1>5. ASSUME NEW o, InsertOrder(o) PROVE UNCHANGED <<quote, channel, said>>
  BY <1>5 DEF InsertOrder, topicVars
<1>6. ASSUME NEW r, ForeignOrder(r) PROVE UNCHANGED <<quote, channel, said>>
  BY <1>6 DEF ForeignOrder, topicVars
<1>7. ASSUME NEW i, NEW s, Report(i, s) PROVE UNCHANGED <<quote, channel, said>>
  BY <1>7 DEF Report, topicVars
<1>8. CancelOrder => UNCHANGED <<quote, channel, said>>
  BY DEF CancelOrder, topicVars
<1>9. UNCHANGED conversionsVars => UNCHANGED <<quote, channel, said>>
  BY DEF conversionsVars, topicVars
<1> QED BY <1>1, <1>2, <1>3, <1>4, <1>5, <1>6, <1>7, <1>8, <1>9 DEF ConversionsNext

-----------------------------------------------------------------------------
(* What the clients are told.                                               *)

ToldByCtp(n, r, i, s, c) ==
    /\ n.outside_id = ExtendId(Investor, Day, i) /\ n.exchange = r.exchange /\ n.type = "future"
    /\ n.symbol = c.symbol /\ n.contract = c.contract /\ c.symbol \o c.contract = r.instrument
    /\ n.order_type = IF r.type = "AnyPrice" THEN "market" ELSE "limit"
    /\ n.dir = ConvertOrderDirCTP2Common(r.side, r.offset)
    /\ n.status = ConvertOrderStatusCTP2Common(s)

LEMMA CtpNotice ==
    ASSUME NEW r, r.instrument \in Text, NEW i, NEW s, NEW n, n = ToldBy("ctp", r, i, s)
    PROVE  ToldByCtp(n, r, i, s, CTPSplitInstrument(r.instrument, Digits))
<1>1. PICK c : c = CTPSplitInstrument(r.instrument, Digits)
  OBVIOUS
<1>2. c.symbol \o c.contract = r.instrument
  BY <1>1, SplitWhole
<1>3. PICK st : st = ConvertOrderStatusCTP2Common(s)
  OBVIOUS
<1>4. PICK dir : dir = ConvertOrderDirCTP2Common(r.side, r.offset)
  OBVIOUS
<1>5. PICK flag : flag = IF r.hedge \in HedgeFlag THEN r.hedge ELSE ""
  OBVIOUS
<1>6. n = [outside_id |-> ExtendId(Investor, Day, i), exchange |-> r.exchange, type |-> "future",
           symbol |-> c.symbol, contract |-> c.contract,
           order_type |-> IF r.type = "AnyPrice" THEN "market" ELSE "limit",
           order_flag1 |-> flag, dir |-> dir, status |-> st]
  BY <1>1, <1>3, <1>4, <1>5, Zenon DEF ToldBy, ConvertRtnOrderCTP2Common
<1>7. /\ n.outside_id = ExtendId(Investor, Day, i) /\ n.exchange = r.exchange /\ n.type = "future"
      /\ n.symbol = c.symbol /\ n.contract = c.contract
      /\ n.order_type = IF r.type = "AnyPrice" THEN "market" ELSE "limit"
      /\ n.dir = dir /\ n.status = st
  BY <1>6
<1>8. ToldByCtp(n, r, i, s, c)
  BY <1>2, <1>3, <1>4, <1>7, Zenon DEF ToldByCtp
<1> QED BY <1>1, <1>8

\* A client of CTP is told of the order it wrote.
LEMMA CtpNoticeOfOrder ==
    ASSUME NEW o \in Orders["ctp"], NEW r \in ConvertInsertOrderCommon2CTP(o) \ {Refused, Crashed},
           NEW i, NEW s, NEW n, n = ToldBy("ctp", r, i, s)
    PROVE  /\ n.exchange = o.exchange /\ n.symbol = o.symbol /\ n.contract = o.contract
           /\ n.type = o.type /\ n.dir = o.dir
           /\ o.order_type # "best" => n.order_type = o.order_type
<1>1. PICK a \in Actions \ {ForceClose}, d \in {Long, Short} :
         /\ o.dir = Joined(a, d)
         /\ r = [is |-> "req", exchange |-> o.exchange, instrument |-> o.symbol \o o.contract,
                 type |-> ConvertOrderTypeCommon2CTP(o.order_type),
                 offset |-> Offsets[a], side |-> SideOf(a, d),
                 hedge |-> ConvertOrderFlag1Common2CTP(o.order_flag1)]
  BY CtpReq
<1>2. r.exchange = o.exchange /\ r.instrument = o.symbol \o o.contract
      /\ r.type = ConvertOrderTypeCommon2CTP(o.order_type) /\ r.offset = Offsets[a] /\ r.side = SideOf(a, d)
  BY <1>1
<1>3. r.instrument \in Text
  BY CtpFields
<1>4. PICK c : c = CTPSplitInstrument(r.instrument, Digits)
  OBVIOUS
<1>5. /\ n.exchange = r.exchange /\ n.type = "future" /\ n.symbol = c.symbol /\ n.contract = c.contract
      /\ n.order_type = IF r.type = "AnyPrice" THEN "market" ELSE "limit"
      /\ n.dir = ConvertOrderDirCTP2Common(r.side, r.offset)
  <2>1. ToldByCtp(n, r, i, s, c)
    BY <1>3, <1>4, CtpNotice
  <2> QED BY <2>1, Zenon DEF ToldByCtp
<1>6. o.symbol # <<>> /\ o.contract # <<>> /\ o.type = "future"
      /\ o.order_type \in {"limit", "market", "best"}
      /\ o.symbol \in Text /\ o.contract \in Text
      /\ Range(o.symbol) \cap Digits = {} /\ o.contract[1] \in Digits
  BY CtpReq, ConversionsAssumption
<1>7. n.symbol = o.symbol /\ n.contract = o.contract
  <2>1. CTPSplitInstrument(o.symbol \o o.contract, Digits) = [symbol |-> o.symbol, contract |-> o.contract]
    BY <1>6, SplitParts
  <2>2. c = [symbol |-> o.symbol, contract |-> o.contract]
    BY <1>2, <1>4, <2>1, Zenon
  <2> QED BY <1>5, <2>2
<1>8. n.dir = o.dir
  BY <1>1, <1>2, <1>5, CtpDirBack
<1>9. o.order_type # "best" => n.order_type = o.order_type
  BY <1>2, <1>5, <1>6 DEF ConvertOrderTypeCommon2CTP
<1> QED BY <1>2, <1>5, <1>6, <1>7, <1>8, <1>9

ToldByXtp(n, r, i, s) ==
    /\ n.outside_id = ExtendId(Investor, Day, i)
    /\ n.exchange = ConvertMarketTypeExchangeXTP2Common(r.market)
    /\ n.symbol = r.ticker /\ n.contract = <<>>
    /\ n.dir = ConvertOrderDirXTP2Common(r.side)
    /\ n.status = ConvertOrderStatusXTP2Common(s)

LEMMA XtpNotice ==
    ASSUME NEW r, NEW i, NEW s, NEW n, n = ToldBy("xtp", r, i, s)
    PROVE  ToldByXtp(n, r, i, s)
<1>1. PICK st : st = ConvertOrderStatusXTP2Common(s)
  OBVIOUS
<1>2. PICK dir : dir = ConvertOrderDirXTP2Common(r.side)
  OBVIOUS
<1>3. PICK exchange : exchange = ConvertMarketTypeExchangeXTP2Common(r.market)
  OBVIOUS
<1>4. PICK none : none = ""
  OBVIOUS
<1>5. n = [outside_id |-> ExtendId(Investor, Day, i), exchange |-> exchange, type |-> none,
           symbol |-> r.ticker, contract |-> <<>>, order_type |-> none, order_flag1 |-> none,
           dir |-> dir, status |-> st]
  BY <1>1, <1>2, <1>3, <1>4, Zenon DEF ToldBy, ConvertOrderInfoXTP2Common
<1>6. /\ n.outside_id = ExtendId(Investor, Day, i) /\ n.exchange = exchange
      /\ n.symbol = r.ticker /\ n.contract = <<>> /\ n.dir = dir /\ n.status = st
  BY <1>5
<1> QED BY <1>1, <1>2, <1>3, <1>6, Zenon DEF ToldByXtp

\* A client of XTP is told of the order it wrote.
LEMMA XtpNoticeOfOrder ==
    ASSUME NEW o \in Orders["xtp"], NEW r \in ConvertInsertOrderCommon2XTP(o) \ {Refused, Crashed},
           KnownTo("xtp", r), NEW i, NEW s, NEW n, n = ToldBy("xtp", r, i, s)
    PROVE  n.exchange = o.exchange /\ n.symbol = o.symbol /\ n.contract = o.contract /\ n.dir = o.dir
<1>1. /\ o.dir \in {Buy, Sell} /\ r.ticker = o.symbol
      /\ r.market = ConvertExchangeMarketTypeCommon2XTP(o.exchange)
      /\ r.side \in IF o.dir = Buy THEN {"Buy", "Purchase"} ELSE {"Sell", "Redemption"}
  BY XtpReq
<1>2. r.market # "Unknown"
  BY DEF KnownTo
<1>3. ConvertMarketTypeExchangeXTP2Common(r.market) = o.exchange
  BY <1>1, <1>2 DEF ConvertMarketTypeExchangeXTP2Common, ConvertExchangeMarketTypeCommon2XTP
<1>4. ConvertOrderDirXTP2Common(r.side) = o.dir
  BY <1>1 DEF ConvertOrderDirXTP2Common
<1>5. o.contract = <<>>
  BY ConversionsAssumption
<1>6. ToldByXtp(n, r, i, s)
  BY XtpNotice
<1> QED BY <1>1, <1>3, <1>4, <1>5, <1>6 DEF ToldByXtp

\* A client of OKEx is told of the order it wrote.
LEMMA OkexNoticeOfOrder ==
    ASSUME NEW o \in Orders["okex"], NEW r, OkexAsks(o, r), KnownTo("okex", r),
           NEW i, NEW s, NEW n, n = ToldBy("okex", r, i, s), n # Refused
    PROVE  /\ n.outside_id = i /\ n.exchange = o.exchange /\ n.type = o.type
           /\ n.symbol = o.symbol /\ n.contract = o.contract /\ n.dir = o.dir
           /\ o.order_type # "best" => n.order_type = o.order_type
           /\ n.sized = r.sized /\ n.status = StatusOf(s) /\ s \in KnownStatus
<1>1. o.exchange = "okex" /\ "-" \notin Range(o.contract) /\ (o.type = "spot" => o.contract = <<>>)
      /\ o.symbol \in Text /\ o.contract \in Text /\ o.order_type \in {"limit", "market", "best"}
  BY ConversionsAssumption
<1>2. PICK st : st = StatusOf(s)
  OBVIOUS
<1>3. o.type \in {"spot", "future"} /\ (r.product = "spot" <=> o.type = "spot")
  BY DEF OkexAsks
<1>4. n = ConvertOrderTradeOkex2Common(r, i, s) /\ s \in KnownStatus
  BY OkexTold DEF ToldBy
<1>5. r.product # "spot" => CutAtLast(r.instrument, "-").at \notin {0, Len(r.instrument)}
  BY OkexTold
<1>6. PICK none : none = ""
  OBVIOUS
<1>7. CASE o.type = "spot"
  <2>1. r.product = "spot" /\ r.instrument = o.symbol /\ r.type = o.order_type /\ r.side = o.dir
        /\ (o.order_type = "limit" => r.sized = "amount")
        /\ (o.order_type = "market" => r.sized = IF o.dir = Buy THEN "total_price" ELSE "amount")
    BY <1>3, <1>7 DEF OkexAsks, InstrumentId
  <2>2. r.type \in {"limit", "market"} /\ r.side \in {Buy, Sell}
    BY <2>1 DEF KnownTo
  <2>3. PICK sized : sized = CASE r.type = "limit" -> "amount"
                               [] r.type = "market" /\ r.side = Buy -> "total_price"
                               [] r.type = "market" /\ r.side = Sell -> "amount"
                               [] OTHER -> ""
    OBVIOUS
  <2>4. sized = r.sized
    BY <2>1, <2>2, <2>3, JoinedOnce
  <2>5. n = [outside_id |-> i, exchange |-> "okex", type |-> "spot", symbol |-> r.instrument,
             contract |-> <<>>, order_type |-> r.type, order_flag1 |-> none, dir |-> r.side,
             sized |-> sized, status |-> st]
    BY <1>2, <1>4, <1>6, <2>1, <2>3, Zenon DEF ConvertOrderTradeOkex2Common
  <2>6. /\ n.outside_id = i /\ n.exchange = "okex" /\ n.type = "spot" /\ n.symbol = r.instrument
        /\ n.contract = <<>> /\ n.order_type = r.type /\ n.dir = r.side
        /\ n.sized = sized /\ n.status = st
    BY <2>5
  <2> QED BY <1>1, <1>2, <1>4, <1>7, <2>1, <2>4, <2>6
<1>8. CASE o.type = "future"
  <2>1. r.product # "spot" /\ r.instrument = o.symbol \o <<"-">> \o o.contract
        /\ Types[r.type] = o.dir /\ o.order_type # "market" /\ r.sized = "amount"
    BY <1>3, <1>8 DEF OkexAsks, InstrumentId
  <2>2. PICK cut : cut = CutAtLast(r.instrument, "-")
    OBVIOUS
  <2>3. cut = [at |-> Len(o.symbol) + 1, front |-> o.symbol, rest |-> o.contract]
    BY <1>1, <2>1, <2>2, InstrumentCut
  <2>4. n = [outside_id |-> i, exchange |-> "okex", type |-> "future", symbol |-> cut.front,
             contract |-> cut.rest, order_type |-> "limit", order_flag1 |-> none,
             dir |-> Types[r.type], sized |-> "amount", status |-> st]
    <3>1. CutAtLast(r.instrument, "-").at \notin {0, Len(r.instrument)}
      BY <1>5, <2>1
    <3> QED BY <1>2, <1>4, <1>6, <2>1, <2>2, <3>1, Zenon DEF ConvertOrderTradeOkex2Common
  <2>5. cut.front = o.symbol /\ cut.rest = o.contract
    BY <2>3
  <2>6. /\ n.outside_id = i /\ n.exchange = "okex" /\ n.type = "future" /\ n.symbol = cut.front
        /\ n.contract = cut.rest /\ n.order_type = "limit" /\ n.dir = Types[r.type]
        /\ n.sized = "amount" /\ n.status = st
    BY <2>4
  <2>7. n.dir = o.dir /\ n.sized = r.sized /\ n.symbol = o.symbol /\ n.contract = o.contract
    BY <2>1, <2>5, <2>6, Zenon
  <2>8. o.order_type # "best" => o.order_type = "limit"
    BY <1>1, <2>1
  <2> QED BY <1>1, <1>2, <1>4, <1>8, <2>6, <2>7, <2>8, Zenon
<1> QED BY <1>3, <1>7, <1>8

-----------------------------------------------------------------------------
(* Cancellations.                                                           *)

\* Whose order a notice is of.
LEMMA ReqOfCtp ==
    ASSUME ReqInv, req # None, gateway = "ctp"
    PROVE  \/ req \in Foreign /\ order = None
           \/ order \in Orders["ctp"] /\ req \in ConvertInsertOrderCommon2CTP(order) \ {Refused, Crashed}
<1>1. ~(gateway = "quotes") /\ Asked("ctp", order) = ConvertInsertOrderCommon2CTP(order)
  BY DEF Asked
<1> QED BY <1>1 DEF ReqInv

LEMMA ReqOfXtp ==
    ASSUME ReqInv, req # None, gateway = "xtp"
    PROVE  order \in Orders["xtp"] /\ req \in ConvertInsertOrderCommon2XTP(order) \ {Refused, Crashed}
<1>1. Asked("xtp", order) = ConvertInsertOrderCommon2XTP(order)
  BY DEF Asked
<1> QED BY <1>1 DEF ReqInv

LEMMA ReqOfOkex ==
    ASSUME ReqInv, req # None, gateway = "okex"
    PROVE  order \in Orders["okex"] /\ OkexAsks(order, req)
<1>1. Asked("okex", order) = {ConvertInsertOrderCommon2Okex(order)}
  BY DEF Asked
<1>2. order \in Orders["okex"] /\ req = ConvertInsertOrderCommon2Okex(order) /\ req # Refused
  BY <1>1 DEF ReqInv
<1> QED BY <1>2, OkexReq

LEMMA IdIs ==
    ASSUME StateInv
    PROVE  id \in Text /\ (id # <<>> => GetIdFromExtend(ExtendId(Investor, Day, id)) = id)
<1>1. <<>> \in Text
  BY DEF Text
<1>2. id \in Text /\ (id # <<>> => Bar \notin Range(id))
  BY <1>1, ConversionsAssumption DEF StateInv
<1>3. Investor \in Text /\ Day \in Text
  BY ConversionsAssumption
<1> QED BY <1>2, <1>3, IdOfExtend

LEMMA CtpCancels ==
    ASSUME StateInv, ReqInv, NoticeInv, notice # None, gateway = "ctp",
           NEW c, c = ConvertCancelOrderCommon2CTP(notice), c # Refused
    PROVE  /\ req # None /\ id # <<>> /\ c.is = "cancel" /\ c.id = id
           /\ c.exchange = req.exchange /\ c.instrument = req.instrument
<1>1. req # None /\ notice = ToldBy("ctp", req, id, status)
  BY DEF NoticeInv
<1>2. req.instrument \in Text
  BY <1>1, ReqOfCtp, CtpFields
<1>3. ToldByCtp(notice, req, id, status, CTPSplitInstrument(req.instrument, Digits))
  BY <1>1, <1>2, CtpNotice
<1>4. /\ notice.outside_id = ExtendId(Investor, Day, id) /\ notice.exchange = req.exchange
      /\ notice.symbol \o notice.contract = req.instrument
  BY <1>3 DEF ToldByCtp
<1>5. PICK q, i : q = notice.symbol \o notice.contract /\ i = GetIdFromExtend(notice.outside_id)
  OBVIOUS
<1>6. /\ notice.outside_id # <<>>
      /\ c = [is |-> "cancel", exchange |-> notice.exchange, instrument |-> q, id |-> i]
  BY <1>5, Zenon DEF ConvertCancelOrderCommon2CTP
<1>7. id # <<>>
  BY <1>4, <1>6, Zenon DEF ExtendId
<1>8. i = id
  BY <1>4, <1>5, <1>7, IdIs, Zenon
<1>9. c.is = "cancel" /\ c.exchange = notice.exchange /\ c.instrument = q /\ c.id = i
  BY <1>6
<1> QED BY <1>1, <1>4, <1>5, <1>7, <1>8, <1>9, Zenon

LEMMA XtpCancels ==
    ASSUME StateInv, ReqInv, NoticeInv, notice # None, gateway = "xtp",
           NEW c, c = CancelOrderXTP(notice), c # Refused
    PROVE  req # None /\ id # <<>> /\ c.is = "cancel" /\ c.id = id
<1>1. req # None /\ notice = ToldBy("xtp", req, id, status) /\ id # <<>>
  BY DEF NoticeInv
<1>2. notice.outside_id = ExtendId(Investor, Day, id)
  BY <1>1, XtpNotice DEF ToldByXtp
<1>3. PICK i : i = GetXTPIdFromExtend(notice.outside_id)
  OBVIOUS
<1>4. i # <<>> /\ c = [is |-> "cancel", id |-> i]
  BY <1>3, Zenon DEF CancelOrderXTP
<1>5. i = GetIdFromExtend(notice.outside_id)
  BY <1>3, <1>4, Zenon DEF GetXTPIdFromExtend
<1>6. i = id
  BY <1>1, <1>2, <1>5, IdIs, Zenon
<1> QED BY <1>1, <1>4, <1>6

LEMMA OkexCancels ==
    ASSUME StateInv, ReqInv, NoticeInv, notice # None, gateway = "okex",
           NEW c, c = ConvertCancelOrderCommon2Okex(notice), c # Refused
    PROVE  /\ req # None /\ id # <<>> /\ c.is = "cancel" /\ c.id = id
           /\ c.product = req.product /\ c.instrument = req.instrument
<1>1. req # None /\ notice = ToldBy("okex", req, id, status) /\ id # <<>> /\ KnownTo("okex", req) /\ notice # Refused
  BY DEF NoticeInv
<1>2. order \in Orders["okex"] /\ OkexAsks(order, req)
  BY <1>1, ReqOfOkex
<1>3. notice.outside_id = id /\ notice.type = order.type
      /\ notice.symbol = order.symbol /\ notice.contract = order.contract
  BY <1>1, <1>2, OkexNoticeOfOrder
<1>4. ProductType(notice) = ProductType(order)
  BY <1>3 DEF ProductType
<1>5. InstrumentId(notice) = InstrumentId(order)
  BY <1>3, Zenon DEF InstrumentId
<1>6. c = [is |-> "cancel", product |-> ProductType(notice), instrument |-> InstrumentId(notice),
           id |-> notice.outside_id]
  BY Zenon DEF ConvertCancelOrderCommon2Okex
<1>7. req.product = ProductType(order) /\ req.instrument = InstrumentId(order)
  BY <1>2 DEF OkexAsks
<1> QED BY <1>1, <1>3, <1>4, <1>5, <1>6, <1>7

LEMMA CancelStep ==
    ASSUME StateInv, ReqInv, NoticeInv, CancelInv, [ConversionsNext]_conversionsVars
    PROVE  CancelInv'
<1>1. CASE UNCHANGED <<gateway, req, id, cancel>>
  BY <1>1 DEF CancelInv
<1>2. ASSUME NEW o, InsertOrder(o) PROVE CancelInv'
  <2>1. cancel = None /\ cancel' = cancel
    BY <1>2 DEF InsertOrder, CancelInv
  <2> QED BY <2>1 DEF CancelInv
<1>3. ASSUME NEW r, ForeignOrder(r) PROVE CancelInv'
  <2>1. cancel = None /\ cancel' = cancel
    BY <1>3 DEF ForeignOrder, CancelInv
  <2> QED BY <2>1 DEF CancelInv
<1>4. ASSUME NEW i, NEW s, Report(i, s) PROVE CancelInv'
  <2>1. id \in {<<>>, i} /\ id' = i /\ UNCHANGED <<gateway, req, cancel>>
    BY <1>4 DEF Report
  <2> QED BY <2>1 DEF CancelInv
<1>5. CASE CancelOrder
  <2>1. notice # None /\ UNCHANGED <<gateway, req, id>>
        /\ gateway \in {"ctp", "xtp", "okex"}
    BY <1>5 DEF CancelOrder, NoticeInv, StateInv
  <2>2. PICK c : c = CASE gateway = "ctp" -> ConvertCancelOrderCommon2CTP(notice)
                       [] gateway = "xtp" -> CancelOrderXTP(notice)
                       [] gateway = "okex" -> ConvertCancelOrderCommon2Okex(notice)
    OBVIOUS
  <2>3. c # Refused /\ cancel' = c
    BY <1>5, <2>2, Zenon DEF CancelOrder
  <2>4. CASE gateway = "ctp"
    <3>1. c = ConvertCancelOrderCommon2CTP(notice)
      BY <2>2, <2>4
    <3>2. /\ req # None /\ id # <<>> /\ c.is = "cancel" /\ c.id = id
          /\ c.exchange = req.exchange /\ c.instrument = req.instrument
      BY <2>1, <2>3, <2>4, <3>1, CtpCancels
    <3> QED BY <2>1, <2>3, <2>4, <3>2 DEF CancelInv
  <2>5. CASE gateway = "xtp"
    <3>1. c = CancelOrderXTP(notice)
      BY <2>2, <2>5
    <3>2. req # None /\ id # <<>> /\ c.is = "cancel" /\ c.id = id
      BY <2>1, <2>3, <2>5, <3>1, XtpCancels
    <3> QED BY <2>1, <2>3, <2>5, <3>2 DEF CancelInv
  <2>6. CASE gateway = "okex"
    <3>1. c = ConvertCancelOrderCommon2Okex(notice)
      BY <2>2, <2>6
    <3>2. /\ req # None /\ id # <<>> /\ c.is = "cancel" /\ c.id = id
          /\ c.product = req.product /\ c.instrument = req.instrument
      BY <2>1, <2>3, <2>6, <3>1, OkexCancels
    <3> QED BY <2>1, <2>3, <2>6, <3>2 DEF CancelInv
  <2> QED BY <2>1, <2>4, <2>5, <2>6
<1>6. ASSUME NEW q, SubTopics(q) PROVE UNCHANGED <<gateway, req, id, cancel>>
  BY <1>6 DEF SubTopics, orderVars
<1>7. GetSubTopics \/ OnQuote => UNCHANGED <<gateway, req, id, cancel>>
  BY DEF GetSubTopics, OnQuote, orderVars
<1>8. UNCHANGED conversionsVars => UNCHANGED <<gateway, req, id, cancel>>
  BY DEF conversionsVars, orderVars
<1> QED BY <1>1, <1>2, <1>3, <1>4, <1>5, <1>6, <1>7, <1>8 DEF ConversionsNext

LEMMA ConversionsInvariant == ConversionsSpec => []ConversionsInv
<1>1. ConversionsInit => ConversionsInv
  BY DEF ConversionsInit, ConversionsInv, StateInv, ReqInv, NoticeInv, CancelInv, TopicInv
<1>2. ConversionsInv /\ [ConversionsNext]_conversionsVars => ConversionsInv'
  BY StateStep, ReqStep, NoticeStep, CancelStep, TopicStep DEF ConversionsInv
<1> QED BY <1>1, <1>2, PTL DEF ConversionsSpec

-----------------------------------------------------------------------------
(* The properties.                                                          *)

LEMMA Placed ==
    ASSUME ConversionsInv, req # None, Known(req), order # None \/ gateway # "ctp"
    PROVE  Effect(req) = Meaning(order.dir)
<1>1. ReqInv /\ KnownTo(gateway, req) /\ gateway \in {"ctp", "xtp", "okex"}
  BY ByGateway DEF ConversionsInv, StateInv, ReqInv
<1>2. CASE gateway = "ctp"
  <2>1. order \in Orders["ctp"] /\ req \in ConvertInsertOrderCommon2CTP(order) \ {Refused, Crashed}
    BY <1>1, <1>2, ReqOfCtp
  <2>2. PICK n : n = ToldBy("ctp", req, id, status)
    OBVIOUS
  <2>3. n.dir = order.dir
    BY <2>1, <2>2, CtpNoticeOfOrder
  <2>4. req.instrument \in Text /\ req.side \in {"Buy", "Sell"} /\ req.offset \in CtpOffset
    BY <2>1, CtpFields
  <2>5. n.dir = ConvertOrderDirCTP2Common(req.side, req.offset)
    <3>1. PICK c : ToldByCtp(n, req, id, status, c)
      BY <2>2, <2>4, CtpNotice
    <3> QED BY <3>1, Zenon DEF ToldByCtp
  <2> QED BY <1>2, <2>3, <2>4, <2>5, CtpMeaning
<1>3. CASE gateway = "xtp"
  <2>1. order.dir \in {Buy, Sell}
        /\ req.side \in IF order.dir = Buy THEN {"Buy", "Purchase"} ELSE {"Sell", "Redemption"}
    BY <1>1, <1>3, ReqOfXtp, XtpReq
  <2>2. CASE order.dir = Buy
    <3>1. (req.side \in {"Buy", "Purchase"}) = TRUE
      BY <2>1, <2>2
    <3>2. Effect(req) = [leg |-> "net", more |-> TRUE]
      BY <1>3, <3>1 DEF Effect
    <3> QED BY <2>2, <3>2, MeaningOfSingle
  <2>3. CASE order.dir = Sell /\ order.dir # Buy
    <3>1. (req.side \in {"Buy", "Purchase"}) = FALSE
      BY <2>1, <2>3
    <3>2. Effect(req) = [leg |-> "net", more |-> req.side \in {"Buy", "Purchase"}]
      BY <1>3 DEF Effect
    <3>3. Effect(req) = [leg |-> "net", more |-> FALSE]
      BY <3>1, <3>2, Zenon
    <3> QED BY <2>3, <3>3, MeaningOfSingle
  <2> QED BY <2>1, <2>2, <2>3
<1>4. CASE gateway = "okex"
  <2>1. OkexAsks(order, req)
    BY <1>1, <1>4, ReqOfOkex
  <2>2. order.type \in {"future", "spot"} /\ (req.product = "spot" <=> order.type = "spot")
    BY <2>1 DEF OkexAsks
  <2>3. CASE order.type = "future"
    <3>1. req.product # "spot" /\ req.type \in DOMAIN Types /\ Types[req.type] = order.dir
      BY <2>1, <2>2, <2>3 DEF OkexAsks
    <3> QED BY <1>4, <3>1, TypesMean
  <2>4. CASE order.type = "spot"
    <3>1. req.product = "spot" /\ req.side = order.dir
      BY <2>1, <2>2, <2>4 DEF OkexAsks
    <3>2. order.dir \in {Buy, Sell}
      BY <1>1, <1>4, <3>1 DEF KnownTo
    <3>3. CASE order.dir = Buy
      <4>1. Effect(req) = [leg |-> "net", more |-> TRUE]
        BY <1>4, <3>1, <3>3 DEF Effect
      <4> QED BY <3>3, <4>1, MeaningOfSingle
    <3>4. CASE order.dir = Sell
      <4>1. (req.side = Buy) = FALSE
        BY <3>1, <3>4, JoinedOnce
      <4>2. Effect(req) = [leg |-> "net", more |-> req.side = Buy]
        BY <1>4, <3>1 DEF Effect
      <4>3. Effect(req) = [leg |-> "net", more |-> FALSE]
        BY <4>1, <4>2, Zenon
      <4> QED BY <3>4, <4>3, MeaningOfSingle
    <3> QED BY <3>2, <3>3, <3>4
  <2> QED BY <2>2, <2>3, <2>4
<1> QED BY <1>1, <1>2, <1>3, <1>4

\* The order a market takes does to the position what the client wrote, for every text of
\* an order: at CTP, at XTP and at OKEx.
THEOREM PlacedCorrect == ConversionsSpec => []PlacedAsMeant
<1>1. ConversionsInv => PlacedAsMeant
  BY Placed DEF PlacedAsMeant
<1> QED BY <1>1, ConversionsInvariant, PTL

\* What the clients are told of an order of their own is what they wrote.
THEOREM NoticeIsTheOrderCorrect == ConversionsSpec => []NoticeIsTheOrder
<1>1. ASSUME ConversionsInv, order # None, notice # None
      PROVE  /\ notice.dir = order.dir /\ notice.exchange = order.exchange
             /\ notice.symbol = order.symbol /\ notice.contract = order.contract
             /\ gateway # "xtp" => notice.type = order.type
             /\ gateway # "xtp" /\ order.order_type # "best" => notice.order_type = order.order_type
             /\ gateway = "okex" => notice.sized = req.sized
  <2>1. /\ ReqInv /\ req # None /\ KnownTo(gateway, req) /\ gateway \in {"ctp", "xtp", "okex"}
        /\ notice = ToldBy(gateway, req, id, status) /\ notice # Refused
    BY <1>1 DEF ConversionsInv, StateInv, NoticeInv
  <2>2. CASE gateway = "ctp"
    <3>1. order \in Orders["ctp"] /\ req \in ConvertInsertOrderCommon2CTP(order) \ {Refused, Crashed}
      BY <1>1, <2>1, <2>2, ReqOfCtp
    <3>2. notice = ToldBy("ctp", req, id, status)
      BY <2>1, <2>2
    <3> QED BY <2>2, <3>1, <3>2, CtpNoticeOfOrder
  <2>3. CASE gateway = "xtp"
    <3>1. order \in Orders["xtp"] /\ req \in ConvertInsertOrderCommon2XTP(order) \ {Refused, Crashed}
      BY <2>1, <2>3, ReqOfXtp
    <3>2. notice = ToldBy("xtp", req, id, status) /\ KnownTo("xtp", req)
      BY <2>1, <2>3
    <3> QED BY <2>3, <3>1, <3>2, XtpNoticeOfOrder
  <2>4. CASE gateway = "okex"
    <3>1. order \in Orders["okex"] /\ OkexAsks(order, req)
      BY <2>1, <2>4, ReqOfOkex
    <3>2. notice = ToldBy("okex", req, id, status) /\ KnownTo("okex", req) /\ notice # Refused
      BY <2>1, <2>4
    <3> QED BY <2>4, <3>1, <3>2, OkexNoticeOfOrder
  <2> QED BY <2>1, <2>2, <2>3, <2>4
<1>2. ConversionsInv => NoticeIsTheOrder
  BY <1>1 DEF NoticeIsTheOrder
<1> QED BY <1>2, ConversionsInvariant, PTL

\* A cancellation made of a notice names the order the notice is of, whatever the id, the
\* investor and the instrument are.
THEOREM CancelCorrect == ConversionsSpec => []CancelNamesOrder
<1>1. ConversionsInv => CancelNamesOrder
  BY DEF ConversionsInv, CancelInv, CancelNamesOrder
<1> QED BY <1>1, ConversionsInvariant, PTL

\* What is said of a channel is the list's, or a row's; it is a topic if they split it.
LEMMA SaidOf ==
    ASSUME ConversionsInv, said # None
    PROVE  /\ said.is \in {"topic", "refused", "panic"}
           /\ Complete(quote) => said.is = "topic"
           /\ said.is = "topic" =>
                 \A f \in {"type", "symbol", "contract", "info", "extra"} : said[f] = quote[f]
<1>1. /\ channel # None /\ quote \in Quotes /\ ConvertQuoteToChannel(quote) # Refused
      /\ channel = ConvertQuoteToChannel(quote)
  BY DEF ConversionsInv, TopicInv
<1>2. PICK t : t = channel.text
  OBVIOUS
<1>3. said \in {Listed(t), RowTopic(t[1], t[3], SubSeq(t, 5, Len(t)))}
  BY <1>2, Zenon DEF ConversionsInv, TopicInv
<1>4. Refused.is = "refused" /\ Panicked.is = "panic"
  BY DEF Refused, Panicked
<1>5. said \in {Refused, Panicked} \/ (said \in {SplitChannel(t), RowTopic(t[1], t[3], SubSeq(t, 5, Len(t)))}
                                      /\ said # Refused)
  BY <1>3, Zenon DEF Listed
<1>6. CASE said \in {SplitChannel(t), RowTopic(t[1], t[3], SubSeq(t, 5, Len(t)))} /\ said # Refused
  BY <1>1, <1>2, <1>6, TopicOf
<1>7. CASE said \in {Refused, Panicked}
  <2>1. ~Complete(quote)
    <3>1. ASSUME Complete(quote) PROVE FALSE
      <4>1. SplitChannel(t) # Refused /\ RowTopic(t[1], t[3], SubSeq(t, 5, Len(t))) # Refused
        BY <1>1, <1>2, <3>1, CompleteSplits
      <4>2. said # Refused /\ said \in {SplitChannel(t), RowTopic(t[1], t[3], SubSeq(t, 5, Len(t)))}
        BY <1>3, <4>1, Zenon DEF Listed
      <4>3. said.is = "topic"
        BY <1>1, <1>2, <4>2, TopicOf
      <4> QED BY <1>4, <1>7, <4>3
    <3> QED BY <3>1
  <2> QED BY <1>4, <1>7, <2>1
<1> QED BY <1>5, <1>6, <1>7

\* A complete subscription is listed and its rows are published, and what is listed or
\* published has the topic that was asked for.
THEOREM TopicCorrect == ConversionsSpec => []TopicIsOwn
<1>1. ConversionsInv => TopicIsOwn
  BY SaidOf DEF TopicIsOwn
<1> QED BY <1>1, ConversionsInvariant, PTL

\* What is told of an order of the account.
LEMMA NoticeTold ==
    ASSUME ConversionsInv, notice # None
    PROVE  /\ gateway \in {"ctp", "xtp", "okex"} /\ status \in Statuses[gateway]
           /\ Meaning(notice.dir) = Effect(req)
           /\ notice.status = CASE gateway = "ctp" -> ConvertOrderStatusCTP2Common(status)
                                [] gateway = "xtp" -> ConvertOrderStatusXTP2Common(status)
                                [] gateway = "okex" -> StatusOf(status)
           /\ gateway = "okex" => status \in KnownStatus
<1>1. /\ ReqInv /\ req # None /\ KnownTo(gateway, req) /\ gateway \in {"ctp", "xtp", "okex"}
      /\ notice = ToldBy(gateway, req, id, status) /\ notice # Refused /\ status \in Statuses[gateway]
  BY DEF ConversionsInv, StateInv, NoticeInv
<1>2. Known(req)
  BY <1>1, ByGateway
<1>3. CASE gateway = "ctp"
  <2>1. req.instrument \in Text /\ req.side \in {"Buy", "Sell"} /\ req.offset \in CtpOffset
    BY <1>1, <1>3, ReqOfCtp, CtpFields
  <2>2. notice = ToldBy("ctp", req, id, status)
    BY <1>1, <1>3
  <2>3. PICK c : ToldByCtp(notice, req, id, status, c)
    BY <2>1, <2>2, CtpNotice
  <2>4. notice.dir = ConvertOrderDirCTP2Common(req.side, req.offset)
        /\ notice.status = ConvertOrderStatusCTP2Common(status)
    BY <2>3, Zenon DEF ToldByCtp
  <2>5. Meaning(notice.dir) = Effect(req)
    BY <1>3, <2>1, <2>4, CtpMeaning
  <2> QED BY <1>1, <1>3, <2>4, <2>5
<1>4. CASE gateway = "xtp"
  <2>1. order \in Orders["xtp"] /\ req \in ConvertInsertOrderCommon2XTP(order) \ {Refused, Crashed}
    BY <1>1, <1>4, ReqOfXtp
  <2>2. notice = ToldBy("xtp", req, id, status) /\ KnownTo("xtp", req)
    BY <1>1, <1>4
  <2>3. notice.dir = order.dir
    BY <2>1, <2>2, XtpNoticeOfOrder
  <2>4. notice.status = ConvertOrderStatusXTP2Common(status)
    <3>1. ToldByXtp(notice, req, id, status)
      BY <2>2, XtpNotice
    <3> QED BY <3>1, Zenon DEF ToldByXtp
  <2>5. Meaning(notice.dir) = Effect(req)
    BY <1>1, <1>2, <1>4, <2>3, Placed
  <2> QED BY <1>1, <1>4, <2>4, <2>5
<1>5. CASE gateway = "okex"
  <2>1. order \in Orders["okex"] /\ OkexAsks(order, req)
    BY <1>1, <1>5, ReqOfOkex
  <2>2. notice = ToldBy("okex", req, id, status) /\ KnownTo("okex", req) /\ notice # Refused
    BY <1>1, <1>5
  <2>3. notice.dir = order.dir /\ notice.status = StatusOf(status) /\ status \in KnownStatus
    BY <2>1, <2>2, OkexNoticeOfOrder
  <2>4. Meaning(notice.dir) = Effect(req)
    BY <1>1, <1>2, <1>5, <2>3, Placed
  <2> QED BY <1>1, <1>5, <2>3, <2>4
<1> QED BY <1>1, <1>3, <1>4, <1>5

\* What the clients are told for each status, and which of them end an order.
LEMMA StatusTold ==
    ASSUME ConversionsInv, notice # None
    PROVE  /\ notice.status \in OrderStatus
           /\ notice.status \in EndStatus => status \in Final[gateway]
           /\ status \in Final[gateway] =>
                 notice.status \in EndStatus \/ (gateway = "ctp" /\ status = "NoTradeNotQueueing")
<1>1. CASE gateway = "ctp"
  <2>1. status \in CtpStatus /\ notice.status = ConvertOrderStatusCTP2Common(status)
    BY <1>1, NoticeTold DEF Statuses
  <2>2. Final[gateway] = {"AllTraded", "PartTradedNotQueueing", "NoTradeNotQueueing", "Canceled"}
    BY <1>1 DEF Final
  <2> QED BY <1>1, <2>1, <2>2 DEF CtpStatus, ConvertOrderStatusCTP2Common, OrderStatus, EndStatus
<1>2. CASE gateway = "xtp"
  <2>1. status \in XtpStatus /\ notice.status = ConvertOrderStatusXTP2Common(status)
    BY <1>2, NoticeTold DEF Statuses
  <2>2. Final[gateway] = {"AllTraded", "PartTradedNotQueueing", "Canceled", "Rejected"}
    BY <1>2 DEF Final
  <2> QED BY <2>1, <2>2 DEF XtpStatus, ConvertOrderStatusXTP2Common, OrderStatus, EndStatus
<1>3. CASE gateway = "okex"
  <2>1. status \in KnownStatus /\ notice.status = StatusOf(status)
    BY <1>3, NoticeTold
  <2>2. Final[gateway] = {"-2", "-1", "2"}
    BY <1>3 DEF Final
  <2> QED BY <2>1, <2>2 DEF KnownStatus, StatusOf, OrderStatus, EndStatus
<1> QED BY <1>1, <1>2, <1>3, NoticeTold

LEMMA TypesKept ==
    ASSUME ConversionsInv
    PROVE  ConversionsTypeOK
<1>1. req # None => req.is = "req" /\ (gateway = "ctp" => req.hedge \in HedgeFlag \cup {"0"})
  <2>1. CASE req # None /\ gateway = "ctp"
    BY <2>1, ReqOfCtp, CtpFields DEF ConversionsInv
  <2>2. CASE req # None /\ gateway = "xtp"
    BY <2>2, ReqOfXtp, XtpReq DEF ConversionsInv
  <2>3. CASE req # None /\ gateway = "okex"
    BY <2>3, ReqOfOkex DEF ConversionsInv, OkexAsks
  <2>4. req # None => gateway \in {"ctp", "xtp", "okex"}
    BY DEF ConversionsInv, StateInv, ReqInv
  <2> QED BY <2>1, <2>2, <2>3, <2>4
<1>2. channel # None => channel.is = "channel"
  <2>1. ASSUME channel # None PROVE channel.is = "channel"
    <3>1. PICK t : t = <<ProductType(quote), "/", Infos[quote.info], ":">> \o InstrumentId(quote)
      OBVIOUS
    <3>2. channel = ConvertQuoteToChannel(quote) /\ channel # Refused
      BY <2>1 DEF ConversionsInv, TopicInv
    <3>3. channel = [is |-> "channel", text |-> t]
      BY <3>1, <3>2, Zenon DEF ConvertQuoteToChannel
    <3> QED BY <3>3
  <2> QED BY <2>1
<1>3. said # None => said.is \in {"topic", "refused", "panic"}
  BY SaidOf
<1>4. notice # None => notice.status \in OrderStatus
  BY StatusTold
<1>5. cancel # None => cancel.is = "cancel"
  BY DEF ConversionsInv, CancelInv
<1>6. StateInv
  BY DEF ConversionsInv
<1> QED BY <1>1, <1>2, <1>3, <1>4, <1>5, <1>6 DEF ConversionsTypeOK, StateInv

\* What the clients are told of an order of the account, theirs or not, is of the form they
\* know, is what the order does to the position, and says it is over only when it is, and
\* whenever it is unless CTP reports that it left the queue with nothing traded.
THEOREM NoticeIsTrueCorrect == ConversionsSpec => []NoticeIsTrue
<1>1. ConversionsInv => ToldAsPlaced
  BY NoticeTold DEF ToldAsPlaced
<1>2. ConversionsInv => EndIsTold
  BY StatusTold DEF EndIsTold
<1>3. ConversionsInv => NoticeIsTrue
  BY <1>1, <1>2, TypesKept DEF NoticeIsTrue
<1> QED BY <1>3, ConversionsInvariant, PTL

=============================================================================
