------------------------------ MODULE OrderFeed ------------------------------
(***************************************************************************)
(* What a trade gateway promises the clients that listen to its            *)
(* broadcasts, whatever threads and caches it is made of: every outside id *)
(* is confirmed for at most one order, and from then on the statuses the   *)
(* exchange reported for the id come out under that order, each once, none *)
(* skipped, in the order of the reports, and none before the confirmation. *)
(***************************************************************************)
EXTENDS Naturals, Sequences

CONSTANTS
    Orders,     \* the orders of the clients
    Ids,        \* the ids of the exchange
    Nobody,     \* not an order: an id that is not confirmed
    Statuses    \* what the exchange reports of an order

VARIABLES
    log,        \* the reports received for each id
    confirmed,  \* the order each id is confirmed for
    feed        \* what was broadcast for each id

feedVars == <<log, confirmed, feed>>

FeedInit ==
    /\ log = [i \in Ids |-> <<>>]
    /\ confirmed = [i \in Ids |-> Nobody]
    /\ feed = [i \in Ids |-> <<>>]

\* The k-th report of id i, as the clients see it.
Report(i, o, k) == [order |-> o, n |-> k, status |-> log[i][k]]

Receive(i, s) ==
    /\ log' = [log EXCEPT ![i] = Append(@, s)]
    /\ UNCHANGED <<confirmed, feed>>

\* The confirmation goes out, followed by the first n reports at once.
Confirm(i, o, n) ==
    /\ confirmed[i] = Nobody
    /\ n <= Len(log[i])
    /\ confirmed' = [confirmed EXCEPT ![i] = o]
    /\ feed' = [feed EXCEPT ![i] = [k \in 1..n |-> Report(i, o, k)]]
    /\ UNCHANGED log

Publish(i) ==
    /\ confirmed[i] # Nobody
    /\ Len(feed[i]) < Len(log[i])
    /\ feed' = [feed EXCEPT ![i] = Append(@, Report(i, confirmed[i], Len(@) + 1))]
    /\ UNCHANGED <<log, confirmed>>

FeedNext ==
    \E i \in Ids :
        \/ \E s \in Statuses : Receive(i, s)
        \/ \E o \in Orders, n \in 0..Len(log[i]) : Confirm(i, o, n)
        \/ Publish(i)

FeedSafe == FeedInit /\ [][FeedNext]_feedVars

\* Nothing that may be published is withheld for ever.
FeedSpec == FeedSafe /\ \A i \in Ids : WF_feedVars(Publish(i))
=============================================================================
