----------------------------- MODULE QueryPromise -----------------------------
(***************************************************************************)
(* What a gateway promises a client about its queries, with no request id, *)
(* cache, thread or session in it: a query that was asked ends at most     *)
(* once, in an error or in one result; the result goes to the client that  *)
(* asked, names its query, and has rows of that query only.                *)
(***************************************************************************)
EXTENDS Sequences, Naturals

CONSTANTS Clients, Queries,
          NoWs,      \* no client
          NoQuery,   \* a result that names no query
          MaxRows    \* bound on the rows of a result

VARIABLES
    asker,       \* who asked each query
    delivered,   \* the results sent for it: to whom, with which rows
    errors       \* how many error messages were sent for it

vars == <<asker, delivered, errors>>

Init ==
    /\ asker = [q \in Queries |-> NoWs]
    /\ delivered = [q \in Queries \cup {NoQuery} |-> <<>>]
    /\ errors = [q \in Queries |-> 0]

Ask(c, q) ==
    /\ asker[q] = NoWs
    /\ asker' = [asker EXCEPT ![q] = c]
    /\ UNCHANGED <<delivered, errors>>

Pending(q) == asker[q] # NoWs /\ delivered[q] = <<>> /\ errors[q] = 0

Refuse(q) ==
    /\ Pending(q)
    /\ errors' = [errors EXCEPT ![q] = 1]
    /\ UNCHANGED <<asker, delivered>>

\* A query that is refused at once: it is not converted, or there is no session.
AskInVain(c, q) ==
    /\ asker[q] = NoWs
    /\ asker' = [asker EXCEPT ![q] = c]
    /\ errors' = [errors EXCEPT ![q] = 1]
    /\ UNCHANGED delivered

Answer(q) ==
    /\ Pending(q)
    /\ \E n \in 0..MaxRows :
          delivered' = [delivered EXCEPT ![q] = <<[to |-> asker[q], rows |-> [k \in 1..n |-> q]]>>]
    /\ UNCHANGED <<asker, errors>>

Next == \E q \in Queries :
    \/ \E c \in Clients : Ask(c, q) \/ AskInVain(c, q)
    \/ Refuse(q)
    \/ Answer(q)

Spec == Init /\ [][Next]_vars
=============================================================================
