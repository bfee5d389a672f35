---------------------------- MODULE MCOkexTrade ----------------------------
\* Small instance of OkexTrade: two clients' orders, two exchange ids.
EXTENDS OkexTrade, TLC

CONSTANTS o1, o2, x1, x2

MCLive == {"PartDealed"}
MCDead == {"AllDealed"}

\* Requests, and ids of the exchange, are interchangeable.
MCSymmetry == Permutations({o1, o2}) \cup Permutations({x1, x2})
=============================================================================
