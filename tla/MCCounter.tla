----------------------------- MODULE MCCounter -----------------------------
(* An instance of Counter, with its history variables, for TLC. *)
EXTENDS CounterPeak

CONSTANTS n1, n2, c1, c2

MCNames == {n1, n2}

\* Two connections can share n1; the sum of two resources for n2 wraps.
MCRequests == [n \in Names |-> IF n = n1 THEN {<<1, 2>>} ELSE {<<2, 3>>}]
MCReleases == [n \in Names |-> IF n = n1 THEN {1, 2} ELSE {2}]

MCOneBucket == [n \in Names |-> 1]
=============================================================================
