------------------------------ MODULE MCRanges ------------------------------
(***************************************************************************)
(* Levels of a trie for TLC, from the contents of their ranges.            *)
(***************************************************************************)
EXTENDS Integers, Sequences, FiniteSetsExt

(* Up to max_ranges ranges of at least min_range values of 0 .. max_value, *)
(* with min_size to max_size values in all.                                *)
SomeRanges(max_ranges, min_range, max_value, min_size, max_size) ==
  {sets \in UNION {[1 .. k -> {S \in SUBSET (0 .. max_value) : Cardinality(S) >= min_range}] :
                     k \in 1 .. max_ranges} :
     MapThenSumSet(LAMBDA k : Cardinality(sets[k]), DOMAIN sets) \in min_size .. max_size}

InOrder(S) ==
  IF S = {} THEN <<>>
  ELSE LET to == CHOOSE m \in S : \A v \in S : v <= m
       IN  SelectSeq([i \in 1 .. to + 1 |-> i - 1], LAMBDA v : v \in S)

(* The nodes of ranges with these contents, and where the ranges begin.    *)
Nodes(sets) ==
  LET from[k \in 0 .. Len(sets)] ==
        IF k = 0 THEN <<>> ELSE from[k - 1] \o InOrder(sets[k])
  IN  from[Len(sets)]

Pointers(sets) == [k \in 1 .. Len(sets) + 1 |-> Len(Nodes(SubSeq(sets, 1, k - 1)))]

Highest(sets) == CHOOSE v \in UNION {sets[k] : k \in DOMAIN sets} :
                   \A k \in DOMAIN sets : \A w \in sets[k] : w <= v
=============================================================================
