---------------------------- MODULE CtpConversion ----------------------------
(***************************************************************************)
(* What the CTP trade gateway makes of an order, and of what CTP reports   *)
(* of one. Offsets, sides and statuses have CTP's names; amounts, prices   *)
(* and the fields that are the same for every order are left out.          *)
(***************************************************************************)
EXTENDS OrderText

\* TThostFtdcOrderStatusType
CtpStatus == {"AllTraded", "PartTradedQueueing", "PartTradedNotQueueing", "NoTradeQueueing",
              "NoTradeNotQueueing", "Canceled", "Unknown", "NotTouched", "Touched"}
HedgeFlag == {"speculation", "arbitrage", "hedge", "marketmaker"}

\* ConvertOrderTypeCommon2CTP
ConvertOrderTypeCommon2CTP(type) ==
    CASE type = "limit" -> "LimitPrice" [] type = "market" -> "AnyPrice" [] OTHER -> ""

\* The strncmp of ConvertOrderDirCommon2CTP compare as many characters as a pointer
\* has bytes, less one; 7 are enough to tell the four apart (3 would not be).
Offsets == [a \in {Open, Close, CloseToday, CloseHistory} |->
    CASE a = Open -> "Open" [] a = Close -> "Close"
      [] a = CloseToday -> "CloseToday" [] a = CloseHistory -> "CloseYesterday"]

\* Mutant of SideOf: a direction is always bought or sold as it is named.
SideOfName(action, dir) == IF dir = Long THEN "Buy" ELSE "Sell"

\* A long position is bought when it is opened, and sold when it is closed.
SideOf(action, dir) == IF (action = Open) = (dir = Long) THEN "Buy" ELSE "Sell"

\* ConvertOrderDirCommon2CTP: its outcomes.
ConvertOrderDirCommon2CTP(text) ==
    {IF s.is # "split" THEN s
     ELSE IF s.action \notin DOMAIN Offsets THEN Refused
     ELSE [is |-> "dir", offset |-> Offsets[s.action], side |-> SideOf(s.action, s.dir)]
        : s \in SplitOrderDir(text)}

\* ConvertOrderFlag1Common2CTP; no flag is speculation, an unknown one is sent as 0.
ConvertOrderFlag1Common2CTP(flag) ==
    CASE flag = "" -> "speculation" [] flag \in HedgeFlag -> flag [] OTHER -> "0"

\* ConvertInsertOrderCommon2CTP: its outcomes. Only a missing field, the type and
\* the direction are tested.
ConvertInsertOrderCommon2CTP(o) ==
    LET type == ConvertOrderTypeCommon2CTP(o.order_type) IN
    IF o.symbol = <<>> \/ o.contract = <<>> \/ type = ""
    THEN {Refused}
    ELSE {IF d.is # "dir" THEN d
          ELSE [is |-> "req", exchange |-> o.exchange, instrument |-> o.symbol \o o.contract,
                type |-> type, offset |-> d.offset, side |-> d.side,
                hedge |-> ConvertOrderFlag1Common2CTP(o.order_flag1)]
            : d \in ConvertOrderDirCommon2CTP(o.dir)}

\* CTPSplitInstrument: the contract begins with the first digit.
CTPSplitInstrument(instrument, digits) ==
    LET first == FirstAt(instrument, digits)
        at == IF first = 0 THEN Len(instrument) + 1 ELSE first IN
    [symbol |-> SubSeq(instrument, 1, at - 1),
     contract |-> SubSeq(instrument, at, Len(instrument))]

\* Mutant of ConvertOrderDirCTP2Common: what is bought is told as long.
ConvertOrderDirCTP2CommonSide(side, offset) ==
    LET action == CASE offset = "Open" -> Open
                    [] offset = "CloseToday" -> CloseToday
                    [] offset = "CloseYesterday" -> CloseHistory
                    [] offset \in {"ForceClose", "ForceOff"} -> ForceClose
                    [] OTHER -> Close IN
    Joined(action, IF side = "Buy" THEN Long ELSE Short)

\* ConvertOrderDirCTP2Common
ConvertOrderDirCTP2Common(side, offset) ==
    LET action == CASE offset = "Open" -> Open
                    [] offset = "CloseToday" -> CloseToday
                    [] offset = "CloseYesterday" -> CloseHistory
                    [] offset \in {"ForceClose", "ForceOff"} -> ForceClose
                    [] OTHER -> Close IN
    Joined(action, IF (side = "Buy") = (offset = "Open") THEN Long ELSE Short)

\* ConvertOrderStatusCTP2Common; it has no case for NoTradeNotQueueing.
ConvertOrderStatusCTP2Common(status) ==
    CASE status = "PartTradedQueueing" -> "PartDealed"
      [] status = "PartTradedNotQueueing" -> "PartCanceled"
      [] status = "AllTraded" -> "AllDealed"
      [] status = "Canceled" -> "Canceled"
      [] OTHER -> "Unknown"

\* ConvertRtnOrderCTP2Common, for the request, the id and the status CTP reports.
ConvertRtnOrderCTP2Common(req, id, status, investor, day, digits) ==
    LET split == CTPSplitInstrument(req.instrument, digits) IN
    [outside_id |-> ExtendId(investor, day, id), exchange |-> req.exchange, type |-> "future",
     symbol |-> split.symbol, contract |-> split.contract,
     order_type |-> IF req.type = "AnyPrice" THEN "market" ELSE "limit",
     order_flag1 |-> IF req.hedge \in HedgeFlag THEN req.hedge ELSE "",
     dir |-> ConvertOrderDirCTP2Common(req.side, req.offset),
     status |-> ConvertOrderStatusCTP2Common(status)]

\* ConvertCancelOrderCommon2CTP. What GetCTPIdFromExtend returns is not tested.
ConvertCancelOrderCommon2CTP(o) ==
    IF o.outside_id = <<>> \/ o.exchange = "" \/ o.symbol = <<>> \/ o.contract = <<>>
    THEN Refused
    ELSE [is |-> "cancel", exchange |-> o.exchange, instrument |-> o.symbol \o o.contract,
          id |-> GetIdFromExtend(o.outside_id)]
=============================================================================
