--------------------------- MODULE MCBlockSequence ---------------------------
(***************************************************************************)
(* Levels for TLC: up to MaxRanges ranges of values of 0 .. MaxValue, at   *)
(* most MaxSize of them, and ids up to one past the values.                *)
(***************************************************************************)
EXTENDS BlockSequence, MCRanges

CONSTANTS MaxRanges, MaxValue, MaxSize

MCLevels ==
  {[from |-> Nodes(sets), pointers |-> Pointers(sets), ids |-> 0 .. MaxValue + 1] :
     sets \in SomeRanges(MaxRanges, 1, MaxValue, 1, MaxSize)}
=============================================================================
