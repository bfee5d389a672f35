---------------------------- MODULE MCConversions ----------------------------
\* Every direction with every type and product, and instruments of each kind.
EXTENDS Conversions

Written == {Joined(a, d) : a \in OrderAction \ {Buy, Sell}, d \in {Long, Short, Net}}
                \cup OrderAction \cup {<<>>, <<Bar, "long">>, <<"borrow">>}

\* Symbol, contract and exchange.
Instruments == [
    ctp |-> {<< <<"rb">>, <<"1901">>, "SHFE">>, << <<"m">>, <<"1905", "-C-2700">>, "DCE">>,
             << <<"rb">>, <<>>, "SHFE">>},
    xtp |-> {<< <<"600519">>, <<>>, "SSE">>, << <<"000001">>, <<>>, "SZSE">>, << <<"rb">>, <<>>, "SHFE">>},
    okex |-> {<< <<"BTC", "-", "USD">>, <<"SWAP">>, "okex">>, << <<"BTC", "-", "USD">>, <<"190329">>, "okex">>,
              << <<"BTC", "-", "USDT">>, <<>>, "okex">>}]
Products == [ctp |-> {"future"}, xtp |-> {"spot", "etf", "ipo", "option"}, okex |-> {"future", "spot", "option"}]
Flags == [ctp |-> {"", "hedge", "quick"}, xtp |-> {""}, okex |-> {""}]

\* A future has a contract on OKEx, a spot product has none.
Sensible(g, p, n) == g = "okex" => (p = "future") = (n[2] # <<>>)

MCWords == STRING
MCOrders == [g \in {"ctp", "xtp", "okex"} |->
    {[symbol |-> n[1], contract |-> n[2], exchange |-> n[3], type |-> p, order_type |-> t,
      order_flag1 |-> f, dir |-> d]
        : <<n, p, t, f, d>> \in
            {x \in Instruments[g] \X Products[g] \X {"limit", "market", "best"} \X Flags[g] \X Written :
                Sensible(g, x[2], x[1])}}]

MCForeign ==
    [is : {"req"}, exchange : {"SHFE"}, instrument : {<<"rb", "1901">>}, type : {"LimitPrice"},
     offset : {"Open", "Close", "CloseToday", "CloseYesterday", "ForceClose", "ForceOff"},
     side : {"Buy", "Sell"}, hedge : HedgeFlag]

MCQuotes ==
    {q \in [type : {"future", "spot", "option"},
            symbol : {<<"BTC", "-", "USD">>, <<"BTC", "-", "USDT">>, <<>>},
            contract : {<<>>, <<"SWAP">>, <<"190329">>},
            info : {"ticker", "depth", "depthl2", "kline", "marketdata"}, extra : {"", "1m"}] :
        (q.type = "spot" => q.contract = <<>>) /\ (q.extra = "1m" => q.info = "kline")}

MCIds == {<<"   274491">>, <<"   274492">>}
MCDigits == {"1901", "1905"}
MCInvestor == <<"104027">>
MCDay == <<"20181101">>
=============================================================================
