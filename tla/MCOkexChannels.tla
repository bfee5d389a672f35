---------------------------- MODULE MCOkexChannels ----------------------------
\* A small instance of OkexChannels: one channel is configured, one a client has
\* to ask for.
EXTENDS OkexChannels

MCChannels == {"depth", "ticker"}
MCConf == {"depth"}
MCGateways == {"quote", "trade"}
=============================================================================
