----------------------------- MODULE KlineBuilder -----------------------------
(***************************************************************************)
(* KlineBuilder: one-minute klines made of the ticks of a quote feed. The  *)
(* callback thread of CTP or XTP adds and deletes keys as subscriptions    *)
(* are confirmed and passes every tick to updateMarketData.                *)
(*                                                                         *)
(* A time stamp is the number of its minute: nothing in the builder looks  *)
(* at seconds. A tick carries the last price and the volume traded so far  *)
(* on its trading day, which starts again from zero on the next.           *)
(***************************************************************************)
EXTENDS Integers, Sequences

CONSTANTS
    Keys,         \* the instruments
    Minutes,      \* the minutes in which ticks come
    Prices,       \* last prices
    Vols,         \* traded volumes
    DayMinutes,   \* minutes with one tm_hour and tm_min are a day apart: 1440
    OpenMinutes,  \* the minutes in which a trading day begins
    MaxTicks      \* bound on the ticks of one minute

ASSUME KlineBuilderAssumption ==
    /\ Minutes \subseteq Nat /\ Prices \subseteq Nat /\ Vols \subseteq Nat
    /\ DayMinutes \in Nat \ {0} /\ MaxTicks \in Nat \ {0}

\* No two of the minutes are a day or more apart and have the same hour and minute.
OneDay == \A m, n \in Minutes : m % DayMinutes = n % DayMinutes => m = n

VARIABLES
    caches,     \* caches_
    result,     \* what the last call of updateMarketData returned
    feed,       \* exchange: the last tick of each instrument
    bar,        \* history: the ticks taken in the minute of the last of them
    prev,       \* history: the ticks taken in the minute before
    traded,     \* history: what was traded since the last tick of the minute before,
                \* or since the first of all
    began       \* history: a trading day began since then

historyVars == <<bar, prev, traded, began>>
vars == <<caches, result, feed, historyVars>>

Tick  == [ts : Minutes, last : Prices, vol : Vols]
Kline == [ts : Minutes, open : Prices, high : Prices, low : Prices, close : Prices, vol : Int]

\* A KlineCache: no entry, one that is only added, one that took a tick.
NoCache  == [state |-> "none"]
NewCache == [state |-> "new"]
Cache    == [state : {"started"}, start_vol : Int, kline : Kline]

\* updateMarketData returned false, or true and a kline.
Nothing == [ret |-> FALSE]
Result  == [ret : {TRUE}, key : Keys, finished : BOOLEAN, kline : Kline]

NoTick == [ts |-> 0, last |-> 0, vol |-> 0]

TypeOK ==
    /\ caches \in [Keys -> {NoCache, NewCache} \cup Cache]
    /\ result \in {Nothing} \cup Result
    /\ feed \in [Keys -> Tick \cup {NoTick}]
    /\ bar \in [Keys -> Seq(Tick)] /\ prev \in [Keys -> Seq(Tick)]
    /\ traded \in [Keys -> Int] /\ began \in [Keys -> BOOLEAN]

Init ==
    /\ caches = [k \in Keys |-> NoCache]
    /\ result = Nothing
    /\ feed = [k \in Keys |-> NoTick]
    /\ bar = [k \in Keys |-> <<>>] /\ prev = [k \in Keys |-> <<>>]
    /\ traded = [k \in Keys |-> 0] /\ began = [k \in Keys |-> FALSE]

Started(k) == caches[k].state = "started"

-----------------------------------------------------------------------------
Forget(k) ==
    /\ bar' = [bar EXCEPT ![k] = <<>>] /\ prev' = [prev EXCEPT ![k] = <<>>]
    /\ traded' = [traded EXCEPT ![k] = 0] /\ began' = [began EXCEPT ![k] = FALSE]

\* Mutant of Add: the entry is overwritten, as a reconnect adds every key again.
AddAgain(k) ==
    /\ caches' = [caches EXCEPT ![k] = NewCache]
    /\ result' = Nothing
    /\ UNCHANGED <<feed, historyVars>>

Add(k) ==
    /\ caches' = [caches EXCEPT ![k] = IF @ = NoCache THEN NewCache ELSE @]
    /\ result' = Nothing
    /\ UNCHANGED <<feed, historyVars>>

Del(k) ==
    /\ caches' = [caches EXCEPT ![k] = NoCache]
    /\ result' = Nothing
    /\ Forget(k)
    /\ UNCHANGED feed

\* A trading day begins between the last tick and this one, and what the exchange
\* traded between the two.
DayBegan(k, md) == \E m \in OpenMinutes : feed[k].ts < m /\ m <= md.ts
Traded(k, md) == IF DayBegan(k, md) THEN md.vol ELSE md.vol - feed[k].vol

\* The history of a tick the builder takes.
Record(k, md) ==
    LET b == bar[k]
        same == b # <<>> /\ b[Len(b)].ts = md.ts IN
    /\ bar'  = [bar EXCEPT ![k] = IF same THEN Append(b, md) ELSE <<md>>]
    /\ prev' = [prev EXCEPT ![k] = IF same THEN @ ELSE b]

\* A kline with one tick in it.
KlineOf(md) ==
    [ts |-> md.ts, open |-> md.last, high |-> md.last, low |-> md.last,
     close |-> md.last, vol |-> md.vol]

\* The key is not there.
Ignored(k, md) ==
    /\ caches[k] = NoCache
    /\ result' = Nothing
    /\ UNCHANGED <<caches, historyVars>>

\* The first tick only starts the kline.
FirstUpdate(k, md) ==
    /\ caches[k] = NewCache
    /\ caches' = [caches EXCEPT ![k] = [state |-> "started", start_vol |-> md.vol,
                                        kline |-> KlineOf(md)]]
    /\ result' = Nothing
    /\ traded' = [traded EXCEPT ![k] = 0] /\ began' = [began EXCEPT ![k] = FALSE]
    /\ Record(k, md)

\* Mutant of MinuteUpdate: every tick begins a minute.
MinuteUpdateAlways(k, md) == TRUE

\* The tick is of another minute: tm_min or tm_hour differ.
MinuteUpdate(k, md) == caches[k].kline.ts % DayMinutes # md.ts % DayMinutes

ValUpdate(k, md) ==
    md.last > caches[k].kline.high \/ md.last < caches[k].kline.low

\* Mutant of Widen: a price replaces the high when it is below it.
WidenHigh(kl, p) == [kl EXCEPT !.high = IF p < @ THEN p ELSE @]

\* The kline with high and low updated.
Widen(kl, p) == [kl EXCEPT !.high = IF p > @ THEN p ELSE @,
                           !.low  = IF p < @ THEN p ELSE @]

\* Mutant of FinishKline: the new kline starts from the volume of the new tick.
FinishKlineLoses(k, md) ==
    LET c == caches[k] IN
    /\ Started(k) /\ MinuteUpdate(k, md)
    /\ result' = [ret |-> TRUE, key |-> k, finished |-> TRUE,
                  kline |-> [Widen(c.kline, md.last) EXCEPT !.vol = @ - c.start_vol]]
    /\ caches' = [caches EXCEPT ![k] = [state |-> "started", start_vol |-> md.vol,
                                        kline |-> KlineOf(md)]]
    /\ traded' = [traded EXCEPT ![k] = Traded(k, md)]
    /\ began' = [began EXCEPT ![k] = DayBegan(k, md)]
    /\ Record(k, md)

\* The first tick of a minute: the kline of the last one is returned, with the
\* high and low this tick has already been compared with, and a new one begins
\* where the volume of the last one ended.
FinishKline(k, md) ==
    LET c == caches[k] IN
    /\ Started(k) /\ MinuteUpdate(k, md)
    /\ result' = [ret |-> TRUE, key |-> k, finished |-> TRUE,
                  kline |-> [Widen(c.kline, md.last) EXCEPT !.vol = @ - c.start_vol]]
    /\ caches' = [caches EXCEPT ![k] = [state |-> "started", start_vol |-> c.kline.vol,
                                        kline |-> KlineOf(md)]]
    /\ traded' = [traded EXCEPT ![k] = Traded(k, md)]
    /\ began' = [began EXCEPT ![k] = DayBegan(k, md)]
    /\ Record(k, md)

\* A further tick of a minute: the kline so far is returned if the high or the
\* low changed.
UpdateKline(k, md) ==
    LET c == caches[k]
        kline == [Widen(c.kline, md.last) EXCEPT !.close = md.last, !.ts = md.ts, !.vol = md.vol] IN
    /\ Started(k) /\ ~MinuteUpdate(k, md)
    /\ caches' = [caches EXCEPT ![k].kline = kline]
    /\ result' = IF ValUpdate(k, md)
                 THEN [ret |-> TRUE, key |-> k, finished |-> FALSE,
                       kline |-> [kline EXCEPT !.vol = @ - c.start_vol]]
                 ELSE Nothing
    /\ traded' = [traded EXCEPT ![k] = @ + Traded(k, md)]
    /\ began' = [began EXCEPT ![k] = @ \/ DayBegan(k, md)]
    /\ Record(k, md)

\* The ticks an exchange can send next: time does not go back, and neither does
\* the volume unless a trading day begins in between. MaxTicks bounds a minute.
Follows(k, md) ==
    /\ md.ts >= feed[k].ts
    /\ ~DayBegan(k, md) => md.vol >= feed[k].vol
    /\ Len(bar[k]) < MaxTicks \/ md.ts > feed[k].ts

UpdateMarketData(k, md) ==
    /\ Follows(k, md)
    /\ feed' = [feed EXCEPT ![k] = md]
    /\ \/ Ignored(k, md)
       \/ FirstUpdate(k, md)
       \/ FinishKline(k, md)
       \/ UpdateKline(k, md)

Next ==
    \E k \in Keys :
        \/ Add(k)
        \/ Del(k)
        \/ \E md \in Tick : UpdateMarketData(k, md)

Spec == Init /\ [][Next]_vars

-----------------------------------------------------------------------------
(* Properties.                                                              *)

\* kl has the open and close of the ticks b, and its high and low are among
\* their prices and bound all of them.
OpenCloseOf(kl, b) == kl.open = b[1].last /\ kl.close = b[Len(b)].last
HighLowOf(kl, b) ==
    /\ \A n \in 1..Len(b) : kl.low <= b[n].last /\ b[n].last <= kl.high
    /\ \E n \in 1..Len(b) : b[n].last = kl.high
    /\ \E n \in 1..Len(b) : b[n].last = kl.low

\* The kline in the cache is that of all ticks of its minute and no others,
\* across subscriptions that come and go and are confirmed twice.
CacheIsTheMinute ==
    \A k \in Keys : Started(k) =>
        LET kl == caches[k].kline IN
        /\ bar[k] # <<>> /\ kl.ts = bar[k][1].ts /\ kl.vol = bar[k][Len(bar[k])].vol
        /\ OpenCloseOf(kl, bar[k]) /\ HighLowOf(kl, bar[k])

\* A kline that is pushed within its minute is the one of the ticks so far.
PushedSoFar ==
    result.ret /\ ~result.finished =>
        /\ OpenCloseOf(result.kline, bar[result.key])
        /\ HighLowOf(result.kline, bar[result.key])

\* A kline that is pushed when its minute is over has the open and the close of
\* that minute.
FinishedOpenClose ==
    result.ret /\ result.finished => OpenCloseOf(result.kline, prev[result.key])

\* A kline that is pushed says what was traded since the end of the minute before,
\* so that no volume is lost between two klines or counted in both; but not the one
\* kline in whose span a trading day began: from its volume, which starts again from
\* zero, that of the day before is subtracted.
VolumeIsTraded ==
    [][result'.ret =>
         LET k == result'.key IN
         IF result'.finished THEN began[k] \/ result'.kline.vol = traded[k]
         ELSE began'[k] \/ result'.kline.vol = traded'[k]]_vars

\* A kline is pushed exactly when a minute begins or a tick exceeds what the
\* minute saw before ("pushed when the high or the low of the kline changes, or
\* when there is a new kline").
PushedWhenNew ==
    [][\A k \in Keys : Started(k) /\ bar'[k] # bar[k] /\ bar'[k] # <<>> =>
         LET b == bar[k]  md == bar'[k][Len(bar'[k])] IN
         result'.ret <=> \/ Len(bar'[k]) = 1
                         \/ \A n \in 1..Len(b) : md.last > b[n].last
                         \/ \A n \in 1..Len(b) : md.last < b[n].last]_vars

\* The high and low of a finished kline bound all prices of its minute. Each is one
\* of them, or the first price of the next minute: updateMarketData compares before
\* it looks at the minute.
FinishedHighLow ==
    result.ret /\ result.finished =>
        LET kl == result.kline
            b == prev[result.key]
            a == Append(b, bar[result.key][1]) IN
        /\ \A n \in 1..Len(b) : kl.low <= b[n].last /\ b[n].last <= kl.high
        /\ \E n \in 1..Len(a) : a[n].last = kl.high
        /\ \E n \in 1..Len(a) : a[n].last = kl.low

\* So every kline that is pushed when its minute is over is that minute's, but for a
\* high or a low that is too far out by the next minute's first price.
FinishedKline == FinishedOpenClose /\ FinishedHighLow

\* What the document of the quote service says: "high" and "low" of a one-minute kline
\* are the highest and the lowest price of that minute.
HighLowIsTheMinute ==
    result.ret /\ result.finished => HighLowOf(result.kline, prev[result.key])
=============================================================================
