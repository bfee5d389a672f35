------------------------------ MODULE MCXtpTrade ------------------------------
\* Small instances of XtpTrade.
EXTENDS XtpTrade
=============================================================================
