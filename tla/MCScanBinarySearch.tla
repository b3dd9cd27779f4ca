------------------------- MODULE MCScanBinarySearch -------------------------
(***************************************************************************)
(* Searches for TLC: every increasing sequence of some of the values       *)
(* 0 .. MaxValue, every range of it, and every id up to one past them.     *)
(***************************************************************************)
EXTENDS ScanBinarySearch

CONSTANT MaxValue

(* The values of a set, in order.                                          *)
InOrder(S) == SelectSeq([i \in 1 .. MaxValue + 1 |-> i - 1], LAMBDA v : v \in S)

Calls(sequence) ==
  {[sequence |-> sequence, begin |-> r[1], end |-> r[2], id |-> id] :
     r \in {<<b, e>> \in (0 .. Len(sequence)) \X (0 .. Len(sequence)) : b < e},
     id \in 0 .. MaxValue + 1}

MCSearches == UNION {Calls(InOrder(S)) : S \in SUBSET (0 .. MaxValue)}
=============================================================================
