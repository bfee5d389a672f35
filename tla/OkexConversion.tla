--------------------------- MODULE OkexConversion ---------------------------
(***************************************************************************)
(* What the OKEx gateways make of orders and subscriptions, and of what    *)
(* OKEx reports. Channels are texts such as                                *)
(*   futures/depth5:BTC-USD-190329                                         *)
(* in the words  "futures" "/" "depth5" ":" "BTC" "-" "USD" "-" "190329".  *)
(***************************************************************************)
EXTENDS OrderText

\* The statuses the gateway knows; an order that is being placed or being cancelled
\* has another.
KnownStatus == {"-2", "-1", "0", "1", "2"}
OkexStatus == KnownStatus \cup {"3", "4"}

\* The Type of a future's order, and the direction it stands for.
Types == [t \in {"1", "2", "3", "4"} |->
    CASE t = "1" -> Joined(Open, Long) [] t = "2" -> Joined(Open, Short)
      [] t = "3" -> Joined(Close, Long) [] t = "4" -> Joined(Close, Short)]

\* "Symbol-Contract" of a future, the symbol of anything else, and which of OKEx's
\* three interfaces has it.
InstrumentId(o) == IF o.type = "future" THEN o.symbol \o <<"-">> \o o.contract ELSE o.symbol
ProductType(o) ==
    CASE o.type = "future" -> IF o.contract = <<"SWAP">> THEN "swap" ELSE "futures"
      [] o.type = "spot" -> "spot"
      [] OTHER -> ""

\* ConvertInsertOrderCommon2Okex. A spot order goes out with the client's own type
\* and direction; which field says how much is to be traded depends on both.
ConvertInsertOrderCommon2Okex(o) ==
    IF \/ ProductType(o) = ""
       \/ o.type = "future" /\ (o.order_type = "market" \/ o.dir \notin Range(Types))
    THEN Refused
    ELSE [is |-> "req", product |-> ProductType(o), instrument |-> InstrumentId(o),
          type |-> IF o.type = "future" THEN CHOOSE t \in DOMAIN Types : Types[t] = o.dir
                   ELSE o.order_type,
          side |-> IF o.type = "future" THEN <<>> ELSE o.dir,
          sized |-> CASE o.type = "future" \/ o.order_type = "limit" -> "amount"
                      [] o.type = "spot" /\ o.order_type = "market" ->
                            IF o.dir = Buy THEN "total_price" ELSE "amount"
                      [] OTHER -> ""]

\* ConvertCancelOrderCommon2Okex; the id goes with it as it is.
ConvertCancelOrderCommon2Okex(o) ==
    IF ProductType(o) = "" THEN Refused
    ELSE [is |-> "cancel", product |-> ProductType(o), instrument |-> InstrumentId(o),
          id |-> o.outside_id]

\* The switch over Status of ConvertOrderTradeOkex2Common
StatusOf(status) ==
    CASE status = "-2" -> "Rejected" [] status = "-1" -> "Canceled" [] status = "0" -> "Unknown"
      [] status = "1" -> "PartDealed" [] status = "2" -> "AllDealed"

\* ConvertOrderTradeOkex2Common, for the request, the id and the status OKEx
\* reports.
ConvertOrderTradeOkex2Common(req, id, status) ==
    LET cut == CutAtLast(req.instrument, "-") IN
    IF status \notin KnownStatus THEN Refused
    ELSE IF req.product = "spot"
    THEN [outside_id |-> id, exchange |-> "okex", type |-> "spot", symbol |-> req.instrument,
          contract |-> <<>>, order_type |-> req.type, order_flag1 |-> "", dir |-> req.side,
          sized |-> CASE req.type = "limit" -> "amount"
                      [] req.type = "market" /\ req.side = Buy -> "total_price"
                      [] req.type = "market" /\ req.side = Sell -> "amount"
                      [] OTHER -> "",
          status |-> StatusOf(status)]
    ELSE IF cut.at \in {0, Len(req.instrument)} THEN Refused
    ELSE [outside_id |-> id, exchange |-> "okex", type |-> "future", symbol |-> cut.front,
          contract |-> cut.rest, order_type |-> "limit", order_flag1 |-> "",
          dir |-> Types[req.type], sized |-> "amount",
          status |-> StatusOf(status)]

-----------------------------------------------------------------------------
(* Channels.                                                                *)

Infos == [ticker |-> "ticker", depth |-> "depth5", depthl2 |-> "depth", kline |-> "candle60s"]
InfoOf(word) == CHOOSE i \in DOMAIN Infos : Infos[i] = word

\* ConvertQuoteToChannel. A symbol or a contract may be missing: SplitChannel then
\* refuses what is made here.
ConvertQuoteToChannel(q) ==
    IF \/ ProductType(q) = "" \/ q.info \notin DOMAIN Infos
       \/ q.info = "kline" /\ q.extra # "1m"
    THEN Refused
    ELSE [is |-> "channel",
          text |-> <<ProductType(q), "/", Infos[q.info], ":">> \o InstrumentId(q)]

\* Mutant of SplitChannel: the contract begins after the first "-".
SplitChannelFirst(text) ==
    LET colon == FirstAt(text, {":"})
        instrument == SubSeq(text, colon + 1, Len(text))
        dash == FirstAt(instrument, {"-"}) IN
    IF instrument = <<>> \/ (text[1] # "spot" /\ dash = 0) THEN Refused
    ELSE [is |-> "topic", type |-> IF text[1] = "spot" THEN "spot" ELSE "future",
          symbol |-> IF text[1] = "spot" THEN instrument ELSE SubSeq(instrument, 1, dash - 1),
          contract |-> IF text[1] = "spot" THEN <<>>
                       ELSE SubSeq(instrument, dash + 1, Len(instrument)),
          info |-> InfoOf(text[3]), extra |-> IF text[3] = "candle60s" THEN "1m" ELSE ""]

\* SplitChannel of a channel; its first three words are those of
\* ConvertQuoteToChannel, the product, "/" and the info.
SplitChannel(text) ==
    LET colon == FirstAt(text, {":"})
        instrument == SubSeq(text, colon + 1, Len(text))
        cut == CutAtLast(instrument, "-") IN
    IF instrument = <<>> \/ (text[1] # "spot" /\ cut.at \in {0, Len(instrument)}) THEN Refused
    ELSE [is |-> "topic", type |-> IF text[1] = "spot" THEN "spot" ELSE "future",
          symbol |-> IF text[1] = "spot" THEN instrument ELSE cut.front,
          contract |-> IF text[1] = "spot" THEN <<>> ELSE cut.rest,
          info |-> InfoOf(text[3]), extra |-> IF text[3] = "candle60s" THEN "1m" ELSE ""]

\* ConvertTickerToQuotes and its like: the table is a channel without its
\* instrument, which each row names.
RowTopic(product, info, instrument) ==
    LET cut == CutAtLast(instrument, "-") IN
    IF product # "spot" /\ cut.at \in {0, 1, Len(instrument)} THEN Refused
    ELSE [is |-> "topic", type |-> IF product = "spot" THEN "spot" ELSE "future",
          symbol |-> IF product = "spot" THEN instrument ELSE cut.front,
          contract |-> IF product = "spot" THEN <<>> ELSE cut.rest,
          info |-> InfoOf(info), extra |-> IF info = "candle60s" THEN "1m" ELSE ""]
=============================================================================
