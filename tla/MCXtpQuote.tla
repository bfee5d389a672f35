------------------------------ MODULE MCXtpQuote ------------------------------
\* Small instances of XtpQuote: a symbol that both exchanges have, and one that
\* only the first has.
EXTENDS XtpQuote

MCSymbolOrder == <<"000001", "600000">>
MCExchanges == {"SSE", "SZSE"}
MCListed == {<<"000001", "SSE">>, <<"000001", "SZSE">>, <<"600000", "SSE">>}
MCStreams == <<"marketdata", "orderbook">>
=============================================================================
