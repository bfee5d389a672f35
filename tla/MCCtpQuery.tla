------------------------------ MODULE MCCtpQuery ------------------------------
\* A small instance of CtpQuery: two clients with a query each. There is no
\* symmetry, the run checks a liveness property.
EXTENDS CtpQuery

CONSTANTS c1, c2, q1, q2, order
=============================================================================
