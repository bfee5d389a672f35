---------------------------- MODULE XtpConversion ----------------------------
(***************************************************************************)
(* What the XTP trade gateway makes of an order, and of what XTP reports   *)
(* of one. It sets no business type, so the zero of the structure, CASH,   *)
(* is sent for every product; what it does not know it sends as unknown.   *)
(***************************************************************************)
EXTENDS OrderText

\* XTP_ORDER_STATUS_TYPE
XtpStatus == {"Init", "AllTraded", "PartTradedQueueing", "PartTradedNotQueueing", "NoTradeQueueing",
              "Canceled", "Rejected", "Unknown"}

\* ConvertExchangeMarketTypeCommon2XTP
ConvertExchangeMarketTypeCommon2XTP(exchange) ==
    CASE exchange = "SSE" -> "SH_A" [] exchange = "SZSE" -> "SZ_A" [] OTHER -> "Unknown"

\* ConvertOrderTypeCommon2XTP: a market order of anything but a stock is a limit order.
ConvertOrderTypeCommon2XTP(product, type) ==
    CASE type = "limit" -> "Limit"
      [] type = "market" -> IF product = "spot" THEN "Best5OrCancel" ELSE "Limit"
      [] OTHER -> "Unknown"

\* ConvertOrderSideCommon2XTP_*
Sides == [spot |-> [a \in {Buy, Sell} |-> IF a = Buy THEN "Buy" ELSE "Sell"],
          etf  |-> [a \in {Buy, Sell} |-> IF a = Buy THEN "Purchase" ELSE "Redemption"],
          ipo  |-> [a \in {Buy} |-> "Buy"]]

\* ConvertOrderDirCommon2XTP: its outcomes.
ConvertOrderDirCommon2XTP(product, text) ==
    {IF s.is # "split" THEN s
     ELSE IF product \notin DOMAIN Sides THEN Refused
     ELSE IF s.action \notin DOMAIN Sides[product] THEN Refused
     ELSE [is |-> "dir", side |-> Sides[product][s.action]]
        : s \in SplitOrderDir(text)}

\* ConvertInsertOrderCommon2XTP: its outcomes. Only the direction is tested.
ConvertInsertOrderCommon2XTP(o) ==
    {IF d.is # "dir" THEN d
     ELSE [is |-> "req", ticker |-> o.symbol, side |-> d.side,
           market |-> ConvertExchangeMarketTypeCommon2XTP(o.exchange),
           type |-> ConvertOrderTypeCommon2XTP(o.type, o.order_type)]
        : d \in ConvertOrderDirCommon2XTP(o.type, o.dir)}

\* ConvertMarketTypeExchangeXTP2Common
ConvertMarketTypeExchangeXTP2Common(market) ==
    CASE market = "SH_A" -> "SSE" [] market = "SZ_A" -> "SZSE" [] OTHER -> ""

\* ConvertOrderDirXTP2Common
ConvertOrderDirXTP2Common(side) ==
    CASE side \in {"Buy", "Purchase"} -> Buy [] side \in {"Sell", "Redemption"} -> Sell [] OTHER -> <<>>

\* ConvertOrderStatusXTP2Common
ConvertOrderStatusXTP2Common(status) ==
    CASE status = "AllTraded" -> "AllDealed"
      [] status = "PartTradedQueueing" -> "PartDealed"
      [] status = "PartTradedNotQueueing" -> "PartCanceled"
      [] status = "Canceled" -> "Canceled"
      [] status = "Rejected" -> "Rejected"
      [] OTHER -> "Unknown"

\* ConvertOrderInfoXTP2Common, for the request, the id and the status XTP reports.
\* It names neither the product nor the type of the order.
ConvertOrderInfoXTP2Common(req, id, status, investor, day) ==
    [outside_id |-> ExtendId(investor, day, id),
     exchange |-> ConvertMarketTypeExchangeXTP2Common(req.market), type |-> "",
     symbol |-> req.ticker, contract |-> <<>>, order_type |-> "", order_flag1 |-> "",
     dir |-> ConvertOrderDirXTP2Common(req.side),
     status |-> ConvertOrderStatusXTP2Common(status)]

\* GetXTPIdFromExtend; <<>> is the 0 of a text that has no such id.
GetXTPIdFromExtend(text) == IF Bar \in Range(text) THEN GetIdFromExtend(text) ELSE <<>>

\* CancelOrder: the id is all that names the order.
CancelOrderXTP(o) ==
    LET id == GetXTPIdFromExtend(o.outside_id) IN
    IF id = <<>> THEN Refused ELSE [is |-> "cancel", id |-> id]
=============================================================================
