------------------------------ MODULE PairOrder ------------------------------
(***************************************************************************)
(* Pairs of ids in the order in which a sorted file lists them: the place  *)
(* of one among the pairs of a set, from 0, and the one at a place.        *)
(***************************************************************************)
EXTENDS Integers, FiniteSets

Before(q, r) == q[1] < r[1] \/ (q[1] = r[1] /\ q[2] < r[2])

Rank(pairs, q) == Cardinality({r \in pairs : Before(r, q)})

Nth(pairs, k) == CHOOSE q \in pairs : Rank(pairs, q) = k
=============================================================================
