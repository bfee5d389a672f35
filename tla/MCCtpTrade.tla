------------------------------ MODULE MCCtpTrade ------------------------------
\* Small instances of CtpTrade.
EXTENDS CtpTrade, TLC

CONSTANTS o1, o2, x1, x2

MCStatus == {"Unknown", "NoTradeQueueing", "Canceled"}
MCSubmit == {"InsertSubmitted", "InsertRejected", "Accepted", "CancelRejected"}

MCSymmetry == Permutations({o1, o2}) \cup Permutations({x1, x2})
=============================================================================
