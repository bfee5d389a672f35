---------------------------- MODULE MCKlineBuilder ----------------------------
\* Small instances of KlineBuilder: a day has four minutes, two hours of two.
EXTENDS KlineBuilder

\* Minutes of two days, of which no two have the same hour and minute.
MCMinutes == {0, 2, 5, 7}

\* A trading day begins between the second and the third of them.
MCOpenMinutes == {4}
=============================================================================
