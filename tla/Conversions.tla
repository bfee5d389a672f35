----------------------------- MODULE Conversions -----------------------------
(***************************************************************************)
(* What becomes of an order on its way to a market and back, in each of    *)
(* the three trade gateways, and of a subscription in the OKEx quotes      *)
(* gateway. An order is converted for the market's API; what the market    *)
(* reports of it is converted to a notice for the clients; a client makes  *)
(* a cancellation of a notice. The meaning that the markets give to their  *)
(* fields (Effect of a request, which statuses are final) is theirs, and   *)
(* the reference the conversions are held to.                              *)
(*                                                                         *)
(* One order, or one subscription, is followed at a time: nothing is kept  *)
(* between two conversions.                                                *)
(***************************************************************************)
EXTENDS CtpConversion, XtpConversion, OkexConversion

CONSTANTS
    Words,     \* what texts are made of
    Orders,    \* for each trade gateway, the orders a client may write
    Foreign,   \* requests CTP reports that another terminal, or the broker, made
    Ids,       \* ids that a market gives to orders; <<>> is none yet
    Quotes,    \* the subscriptions a client may ask for
    Digits,    \* the words that begin with a digit
    Investor, Day, \* conf_.user_id and the trading day
    None

Text == Seq(Words)

\* What tells one text from another stands nowhere else in it: there is no digit in
\* a symbol of CTP, no "-" in a contract of OKEx and no "_" in an id. A direction is
\* one of the document's, or nothing a gateway takes for a direction. What a product
\* has no use for is not given.
ASSUME ConversionsAssumption ==
    /\ {Bar, "-", "/", ":", "spot", "futures", "swap"} \cup Range(Infos) \subseteq Words
    /\ \A g \in {"ctp", "xtp", "okex"} : \A o \in Orders[g] :
          o.symbol \in Text /\ o.contract \in Text /\ o.order_type \in {"limit", "market", "best"}
    /\ \A o \in Orders["ctp"] \cup Orders["xtp"] :
          o.dir \in Directions \/ SplitOrderDir(o.dir) \subseteq {Refused, Crashed}
    /\ \A o \in Orders["ctp"] :
          /\ o.type = "future" /\ Range(o.symbol) \cap Digits = {}
          /\ o.contract = <<>> \/ o.contract[1] \in Digits
    /\ \A o \in Orders["xtp"] : o.contract = <<>>
    /\ \A o \in Orders["okex"] :
          o.exchange = "okex" /\ "-" \notin Range(o.contract) /\ (o.type = "spot" => o.contract = <<>>)
    /\ \A r \in Foreign :
          /\ r.is = "req" /\ r.instrument \in Text /\ r.hedge \in HedgeFlag /\ r.side \in {"Buy", "Sell"}
          /\ r.offset \in {"Open", "Close", "CloseToday", "CloseYesterday", "ForceClose", "ForceOff"}
    /\ \A i \in Ids : i \in Text /\ i # <<>> /\ Bar \notin Range(i)
    /\ \A q \in Quotes :
          /\ q.symbol \in Text /\ q.contract \in Text /\ "-" \notin Range(q.contract)
          /\ (q.type = "spot" => q.contract = <<>>) /\ (q.info # "kline" => q.extra = "")
    /\ None \notin Quotes /\ Investor \in Text /\ Day \in Text

VARIABLES
    gateway,  \* "ctp", "xtp", "okex", or "quotes": OKEx's quotes gateway
    down,     \* the process crashed
    order,    \* what the client wrote; None for an order of somebody else
    req,      \* what the market was asked
    id, status, \* what the market says of it, in the last report that could be converted
    notice,   \* what the clients are told
    cancel,   \* what the market is asked to cancel
    quote, channel, \* a subscription, and the channel it became
    said      \* the topic that a list of topics, or a quote, names, or the panic

orderVars == <<order, req, id, status, notice, cancel>>
topicVars == <<quote, channel, said>>
conversionsVars == <<gateway, down, orderVars, topicVars>>

Statuses == [ctp |-> CtpStatus, xtp |-> XtpStatus, okex |-> OkexStatus]
OrderStatus == {"Unknown", "PartDealed", "PartCanceled", "AllDealed", "Canceled", "Rejected"}

ConversionsTypeOK ==
    /\ gateway \in {"ctp", "xtp", "okex", "quotes"} /\ down \in BOOLEAN
    /\ (order # None => order \in Orders[gateway])
    /\ req # None => req.is = "req"
    /\ req # None /\ gateway = "ctp" => req.hedge \in HedgeFlag \cup {"0"}
    /\ id \in Ids \cup {<<>>}
    /\ status # None => status \in Statuses[gateway]
    /\ notice # None => notice.status \in OrderStatus
    /\ cancel # None => cancel.is = "cancel"
    /\ quote \in Quotes \cup {None} /\ (channel # None => channel.is = "channel")
    /\ said # None => said.is \in {"topic", "refused", "panic"}

ConversionsInit ==
    /\ gateway \in {"ctp", "xtp", "okex", "quotes"} /\ down = FALSE
    /\ order = None /\ req = None /\ id = <<>> /\ status = None
    /\ notice = None /\ cancel = None
    /\ quote = None /\ channel = None /\ said = None

-----------------------------------------------------------------------------
(* Orders.                                                                  *)

\* The outcomes of InsertOrder's conversion.
ToMarket(o) ==
    CASE gateway = "ctp" -> ConvertInsertOrderCommon2CTP(o)
      [] gateway = "xtp" -> ConvertInsertOrderCommon2XTP(o)
      [] gateway = "okex" -> {ConvertInsertOrderCommon2Okex(o)}

\* A market takes what it has a name for; it answers with an error otherwise.
Known(r) ==
    CASE gateway = "ctp" -> r.hedge \in HedgeFlag
      [] gateway = "xtp" -> r.market # "Unknown" /\ r.type # "Unknown"
      [] gateway = "okex" -> r.product # "spot" \/ (r.type \in {"limit", "market"} /\ r.side \in {Buy, Sell})

InsertOrder(o) ==
    /\ ~down /\ order = None /\ req = None
    /\ \E r \in ToMarket(o) \ {Refused} :
          /\ order' = o
          /\ req' = IF r = Crashed THEN None ELSE r
          /\ down' = (r = Crashed)
    /\ UNCHANGED <<gateway, id, status, notice, cancel, topicVars>>

\* CTP reports the orders of the whole account.
ForeignOrder(r) ==
    /\ gateway = "ctp" /\ ~down /\ order = None /\ req = None
    /\ req' = r
    /\ UNCHANGED <<gateway, down, order, id, status, notice, cancel, topicVars>>

Told(r, i, s) ==
    CASE gateway = "ctp" -> ConvertRtnOrderCTP2Common(r, i, s, Investor, Day, Digits)
      [] gateway = "xtp" -> ConvertOrderInfoXTP2Common(r, i, s, Investor, Day)
      [] gateway = "okex" -> ConvertOrderTradeOkex2Common(r, i, s)

\* OnRtnOrder, OnOrderEvent, OnOrder: CTP has no id for an order at first. What
\* cannot be converted is dropped.
Report(i, s) ==
    /\ req # None /\ Known(req)
    /\ i # <<>> \/ gateway = "ctp"
    /\ id \in {<<>>, i}
    /\ Told(req, i, s) # Refused
    /\ id' = i /\ status' = s /\ notice' = Told(req, i, s)
    /\ UNCHANGED <<gateway, down, order, req, cancel, topicVars>>

\* CancelOrder, of an order a client was told of.
CancelOrder ==
    /\ notice # None /\ cancel = None
    /\ LET c == CASE gateway = "ctp" -> ConvertCancelOrderCommon2CTP(notice)
                  [] gateway = "xtp" -> CancelOrderXTP(notice)
                  [] gateway = "okex" -> ConvertCancelOrderCommon2Okex(notice) IN
       c # Refused /\ cancel' = c
    /\ UNCHANGED <<gateway, down, order, req, id, status, notice, topicVars>>

-----------------------------------------------------------------------------
(* Topics of OKEx.                                                          *)

SubTopics(q) ==
    /\ gateway = "quotes" /\ quote = None
    /\ ConvertQuoteToChannel(q) # Refused
    /\ quote' = q /\ channel' = ConvertQuoteToChannel(q)
    /\ UNCHANGED <<gateway, down, orderVars, said>>

\* net/http recovers from the panic of a request's goroutine: the caller gets no
\* list at all, and the gateway goes on.
Panicked == [is |-> "panic"]

\* The list that GetSubTopics makes; it writes into what ConvertChannelToSubUnsub
\* returns although that is nil for a channel that does not split.
Listed(text) == IF SplitChannel(text) = Refused THEN Panicked ELSE SplitChannel(text)

GetSubTopics ==
    /\ channel # None
    /\ said' = Listed(channel.text)
    /\ UNCHANGED <<gateway, down, orderVars, quote, channel>>

\* A row of the channel's table is published.
OnQuote ==
    /\ channel # None
    /\ said' = RowTopic(channel.text[1], channel.text[3], SubSeq(channel.text, 5, Len(channel.text)))
    /\ UNCHANGED <<gateway, down, orderVars, quote, channel>>

ConversionsNext ==
    \/ gateway # "quotes" /\ \E o \in Orders[gateway] : InsertOrder(o)
    \/ \E r \in Foreign : ForeignOrder(r)
    \/ gateway # "quotes" /\ \E i \in Ids \cup {<<>>}, s \in Statuses[gateway] : Report(i, s)
    \/ CancelOrder
    \/ \E q \in Quotes : SubTopics(q)
    \/ GetSubTopics \/ OnQuote

ConversionsSpec == ConversionsInit /\ [][ConversionsNext]_conversionsVars

-----------------------------------------------------------------------------
(* Properties.                                                              *)

\* The directions that close what is held in one direction.
Closing(dir) == {Joined(a, dir) : a \in {Close, CloseToday, CloseHistory, ForceClose}}

\* What a direction says is done to the holder's position.
Meaning(text) ==
    CASE text = Joined(Open, Long) -> [leg |-> "long", more |-> TRUE]
      [] text = Joined(Open, Short) -> [leg |-> "short", more |-> TRUE]
      [] text \in Closing(Long) -> [leg |-> "long", more |-> FALSE]
      [] text \in Closing(Short) -> [leg |-> "short", more |-> FALSE]
      [] text = Buy -> [leg |-> "net", more |-> TRUE]
      [] text = Sell -> [leg |-> "net", more |-> FALSE]

\* What the market does to it: a future is bought to open a long or to close a
\* short; types 1 to 4 of OKEx open long, open short, close long, close short.
Effect(r) ==
    CASE gateway = "ctp" ->
            [leg |-> IF (r.offset = "Open") = (r.side = "Buy") THEN "long" ELSE "short",
             more |-> r.offset = "Open"]
      [] gateway = "xtp" -> [leg |-> "net", more |-> r.side \in {"Buy", "Purchase"}]
      [] gateway = "okex" ->
            IF r.product = "spot" THEN [leg |-> "net", more |-> r.side = Buy]
            ELSE [leg |-> IF r.type \in {"1", "3"} THEN "long" ELSE "short", more |-> r.type \in {"1", "2"}]

Final == [ctp |-> {"AllTraded", "PartTradedNotQueueing", "NoTradeNotQueueing", "Canceled"},
          xtp |-> {"AllTraded", "PartTradedNotQueueing", "Canceled", "Rejected"},
          okex |-> {"-2", "-1", "2"}]

\* The order a market takes does to the position what the client wrote: the action,
\* the direction and the product are looked up in tables of three programs.
PlacedAsMeant == order # None /\ req # None /\ Known(req) => Effect(req) = Meaning(order.dir)

\* What the clients are told of any order of the account, their own or not, is what
\* it does to the position: who adds up notices has the position.
ToldAsPlaced == notice # None => Meaning(notice.dir) = Effect(req)

\* The notice of an order says what its client wrote: direction, exchange, instrument
\* and type, where the market's report has them at all. (A future on OKEx is a limit
\* order whatever its type is, if it is not "market".)
NoticeIsTheOrder ==
    order # None /\ notice # None =>
        /\ notice.dir = order.dir /\ notice.exchange = order.exchange
        /\ notice.symbol = order.symbol /\ notice.contract = order.contract
        /\ gateway # "xtp" => notice.type = order.type
        /\ gateway # "xtp" /\ order.order_type # "best" => notice.order_type = order.order_type
        /\ gateway = "okex" => notice.sized = req.sized

\* The ends of an order that clients know.
EndStatus == {"PartCanceled", "AllDealed", "Canceled", "Rejected"}

\* Clients are never told that an order is over while the market may still trade it,
\* and are told of every end but one: that CTP took an order of which nothing was
\* traded out of its queue is told as "unknown", as what is still under way is.
EndIsTold ==
    notice # None =>
        /\ notice.status \in EndStatus => status \in Final[gateway]
        /\ status \in Final[gateway] =>
              notice.status \in EndStatus \/ (gateway = "ctp" /\ status = "NoTradeNotQueueing")

\* A notice is of the form clients know, and true of the order, whoever made it.
NoticeIsTrue == ConversionsTypeOK /\ ToldAsPlaced /\ EndIsTold

\* A cancellation that is made of a notice names the order the notice is of.
CancelNamesOrder ==
    cancel # None =>
        /\ cancel.id = id
        /\ gateway = "ctp" => cancel.exchange = req.exchange /\ cancel.instrument = req.instrument
        /\ gateway = "okex" => cancel.product = req.product /\ cancel.instrument = req.instrument

\* A subscription with the fields the REST document demands: a symbol and, for a
\* future, a contract.
Complete(q) == q.symbol # <<>> /\ (q.type = "future" => q.contract # <<>>)

\* A complete subscription is listed, and its quotes are published, without a panic or
\* an error; and whatever is listed or published has the topic that was asked for.
\* SubTopics takes incomplete ones too; with a future that has no contract, or a spot
\* product that has no symbol, every list panics.
TopicIsOwn ==
    said # None =>
        /\ Complete(quote) => said.is = "topic"
        /\ said.is = "topic" =>
              \A f \in {"type", "symbol", "contract", "info", "extra"} : said[f] = quote[f]
=============================================================================
