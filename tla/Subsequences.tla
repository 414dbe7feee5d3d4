----------------------------- MODULE Subsequences -----------------------------
(* The elements of a sequence that a filter keeps, by their positions instead *)
(* of a recursion over the sequence, which the proofs could not follow.       *)
EXTENDS Naturals, FiniteSets

\* How many positions of S there are up to i, and the k-th of them.
Rank(S, i) == Cardinality({j \in S : j <= i})
Nth(S, k) == CHOOSE i \in S : Rank(S, i) = k

\* The elements of s at the positions of S, in their order.
Pick(s, S) == [k \in 1 .. Cardinality(S) |-> s[Nth(S, k)]]
=============================================================================
