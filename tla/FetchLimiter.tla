---------------------------- MODULE FetchLimiter ----------------------------
(***************************************************************************)
(* What throttling promises the sites that are scanned, whatever the       *)
(* machinery behind it: a page is fetched by one lane at a time, and no    *)
(* more than Cap[s] pages of a source at once.                             *)
(***************************************************************************)
EXTENDS Naturals, FiniteSets

CONSTANTS Sources, Urls, Cap

VARIABLE fetching     \* fetching[s]: the URLs lanes of s are fetching

Init == fetching = [s \in Sources |-> {}]

Begin(s, u) ==
    /\ \A t \in Sources : u \notin fetching[t]
    /\ Cardinality(fetching[s]) < Cap[s]
    /\ fetching' = [fetching EXCEPT ![s] = @ \union {u}]

\* The result is stored, or the lane died.
End(s, u) ==
    /\ u \in fetching[s]
    /\ fetching' = [fetching EXCEPT ![s] = @ \ {u}]

Next == \E s \in Sources, u \in Urls : Begin(s, u) \/ End(s, u)

Spec == Init /\ [][Next]_fetching
=============================================================================
