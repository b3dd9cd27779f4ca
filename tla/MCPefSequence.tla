---------------------------- MODULE MCPefSequence ----------------------------
(***************************************************************************)
(* Levels for TLC: all of up to MaxRanges ranges, with MinSize to MaxSize  *)
(* values of 0 .. MaxValue, and some with a range so long that it takes    *)
(* several turns of bsearch.                                               *)
(***************************************************************************)
EXTENDS PefSequence, MCRanges

CONSTANTS MaxRanges, MaxValue, MinSize, MaxSize,
          LongRange,    \* the greatest value of a long range; 0 for no such level
          PastBounds    \* whether to look for ids that make bsearch leave its bounds

(* A range of every value but one, after a short one.                      *)
LongRanges ==
  IF LongRange = 0 THEN {}
  ELSE {<<0 .. k, 0 .. LongRange \ {gap}>> : k \in 0 .. 1, gap \in 1 .. LongRange}

(* Ids up to two past all values; when the last of several partitions is   *)
(* full, no id past the last value, unless PastBounds.                     *)
Ids(sets) ==
  LET from == Nodes(sets)
      full == Len(from) > partition_size /\ Len(from) % partition_size = 0
  IN  0 .. IF full /\ ~ PastBounds THEN from[Len(from)] ELSE Highest(sets) + 2

MCLevels ==
  {[from |-> Nodes(sets), pointers |-> Pointers(sets), ids |-> Ids(sets)] :
     sets \in SomeRanges(MaxRanges, 1, MaxValue, MinSize, MaxSize) \cup LongRanges}
=============================================================================
