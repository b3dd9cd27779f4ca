---------------------------- MODULE MCEfSequence ----------------------------
(***************************************************************************)
(* Inputs for TLC: the nodes of levels with up to MaxRanges ranges, some   *)
(* of them empty, of single ranges of wide values, and of up to 4 ranges   *)
(* of a few values far apart; increasing lists of pointers.                *)
(***************************************************************************)
EXTENDS EfSequence

Contents == INSTANCE MCRanges

CONSTANTS MaxRanges, MaxValue, MaxSize,
          MaxWide, MaxWideSize,            \* values of a single range
          FarApart,
          MaxPointer, MaxPointers

WidthFor(max) == ceil_log2(max + 1)

Level(by, sets) ==
  [kind |-> "nodes", by |-> by, values |-> Contents!Nodes(sets),
   pointers |-> Contents!Pointers(sets), width |-> WidthFor(Contents!Highest(sets))]

MCNodes ==
  LET levels == Contents!SomeRanges(MaxRanges, 0, MaxValue, 1, MaxSize)
                  \cup Contents!SomeRanges(1, 1, MaxWide, 1, MaxWideSize)
      apart == {sets \in [1 .. 3 -> SUBSET FarApart] \cup [1 .. 4 -> {{}, {0}, FarApart}] :
                  \E k \in DOMAIN sets : sets[k] # {}}
  IN  {Level(by, sets) : by \in {"push_back", "set"}, sets \in levels}
      \cup {Level("push_back", sets) : sets \in apart}

MCPointers ==
  {[kind |-> "pointers", by |-> "push_back", pointers |-> <<>>, width |-> WidthFor(MaxPointer),
    values |-> Contents!InOrder(S \cup {0})] :
     S \in {T \in SUBSET (1 .. MaxPointer) : Cardinality(T) \in 1 .. MaxPointers}}

MCInputs == MCNodes \cup MCPointers
=============================================================================
