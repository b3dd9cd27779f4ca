------------------------ MODULE PredicateIndexBuilder ------------------------
(***************************************************************************)
(* p_index::builder: two scans of the SPO file. The first counts the       *)
(* subjects of every predicate, shifted by one, and the counts become      *)
(* offsets; the second writes each subject at the offset of its predicate, *)
(* which it moves. The pointers are written between the two, from the same *)
(* array that the second scan then changes.                                *)
(***************************************************************************)
EXTENDS PredicateIndex, FiniteSets

CONSTANT Inputs   \* [lines |-> an SPO file, params |-> the counts of its .stats]

(* The i-th triplet of an input's file, i from 1, and its pair of ids.     *)
Read(in, i) == read_next("spo", in.lines[i])
Pair(in, i) == <<Read(in, i).second, Read(in, i).first>>
PairsUpTo(in, n) == {Pair(in, i) : i \in 1 .. n}

(* An input: the file is strictly sorted; the counts are those of the      *)
(* file, in which every predicate's id is below the number of predicates.  *)
WellFormed(in) ==
  LET n == Len(in.lines)
  IN  /\ in.lines \in Seq(Nat \X Nat \X Nat)
      /\ n > 0
      /\ \A i \in 1 .. n - 1 : Precedes(Read(in, i), Read(in, i + 1))
      /\ num_types(in.params, "spo", 2) \in Nat
      /\ \A i \in 1 .. n : Read(in, i).second < num_types(in.params, "spo", 2)
      /\ num_nodes(in.params, "spo", 2) = Cardinality(PairsUpTo(in, n))

ASSUME InputsAssumption == \A in \in Inputs : WellFormed(in)

VARIABLES
  input,
  pc,         \* "count", "accumulate", "place", "done"
  it,         \* lines read in this scan
  i,          \* the next offset to accumulate
  prev,
  offsets,    \* 0-based in the code: offsets[p + 1] here is that of p
  pointers,
  nodes,      \* written by position: 0 until it is set
  p_index

vars == <<input, pc, it, i, prev, offsets, pointers, nodes, p_index>>

predicates == num_types(input.params, "spo", 2)
pairs == num_nodes(input.params, "spo", 2)

Current == Read(input, it + 1)

(* Mutant: a pair told apart by any id.                                    *)
NewSubjectPredicate_AnyId == Current # prev

NewSubjectPredicate == Current.first # prev.first \/ Current.second # prev.second

Init ==
  /\ input \in Inputs
  /\ pc = "count"
  /\ it = 0
  /\ i = 2
  /\ prev = no_triplet
  /\ offsets = [p \in 1 .. predicates + 1 |-> 0]
  /\ pointers = <<>>
  /\ nodes = [k \in 1 .. pairs |-> 0]
  /\ p_index = [pointers |-> <<>>, nodes |-> <<>>]

Count ==
  /\ pc = "count"
  /\ it < Len(input.lines)
  /\ offsets' = [offsets EXCEPT
       ![Current.second + 2] = IF NewSubjectPredicate THEN @ + 1 ELSE @]
  /\ prev' = Current
  /\ it' = it + 1
  /\ UNCHANGED <<input, pc, i, pointers, nodes, p_index>>

EndCount ==
  /\ pc = "count"
  /\ it = Len(input.lines)
  /\ pc' = "accumulate"
  /\ UNCHANGED <<input, it, i, prev, offsets, pointers, nodes, p_index>>

(* Mutant: one offset too many.                                            *)
Accumulate_PastEnd ==
  /\ pc = "accumulate"
  /\ i <= Len(offsets)
  /\ offsets' = [offsets EXCEPT ![i + 1] = @ + offsets[i]]
  /\ i' = i + 1
  /\ UNCHANGED <<input, pc, it, prev, pointers, nodes, p_index>>

Accumulate ==
  /\ pc = "accumulate"
  /\ i < Len(offsets)
  /\ offsets' = [offsets EXCEPT ![i + 1] = @ + offsets[i]]
  /\ i' = i + 1
  /\ UNCHANGED <<input, pc, it, prev, pointers, nodes, p_index>>

(* Mutant: prev is kept, as the last line of the first scan.               *)
FillPointers_PrevKept ==
  /\ pc = "accumulate"
  /\ i >= Len(offsets)
  /\ pointers' = offsets
  /\ p_index' = [p_index EXCEPT !.pointers = offsets]
  /\ pc' = "place"
  /\ it' = 0
  /\ UNCHANGED <<input, i, prev, offsets, nodes>>

(* pointers.fill, and the second scan starts afresh.                       *)
FillPointers ==
  /\ pc = "accumulate"
  /\ i >= Len(offsets)
  /\ pointers' = offsets
  /\ p_index' = [p_index EXCEPT !.pointers = offsets]
  /\ pc' = "place"
  /\ it' = 0
  /\ prev' = no_triplet
  /\ UNCHANGED <<input, i, offsets, nodes>>

Place ==
  LET pos == offsets[Current.second + 1] IN
  /\ pc = "place"
  /\ it < Len(input.lines)
  /\ IF NewSubjectPredicate
     THEN /\ nodes' = [nodes EXCEPT ![pos + 1] = Current.first]
          /\ offsets' = [offsets EXCEPT ![Current.second + 1] = pos + 1]
     ELSE UNCHANGED <<nodes, offsets>>
  /\ prev' = Current
  /\ it' = it + 1
  /\ UNCHANGED <<input, pc, i, pointers, p_index>>

(* Mutant: the pointers are written from the offsets the scan has moved.   *)
BuildNodes_PointersLate ==
  /\ pc = "place"
  /\ it = Len(input.lines)
  /\ p_index' = [pointers |-> offsets, nodes |-> nodes]
  /\ pc' = "done"
  /\ UNCHANGED <<input, it, i, prev, offsets, pointers, nodes>>

BuildNodes ==
  /\ pc = "place"
  /\ it = Len(input.lines)
  /\ p_index' = [p_index EXCEPT !.nodes = nodes]
  /\ pc' = "done"
  /\ UNCHANGED <<input, it, i, prev, offsets, pointers, nodes>>

Next == Count \/ EndCount \/ Accumulate \/ FillPointers \/ Place \/ BuildNodes

Spec == Init /\ [][Next]_vars
-----------------------------------------------------------------------------
(* Types: as many offsets as predicates and one, as many nodes as pairs.   *)
TypeOK ==
  /\ pc \in {"count", "accumulate", "place", "done"}
  /\ it \in 0 .. Len(input.lines)
  /\ i \in 2 .. predicates + 1
  /\ prev \in [first : Int, second : Int, third : Int]
  /\ offsets \in [1 .. predicates + 1 -> Nat]
  /\ pointers \in Seq(Nat)
  /\ nodes \in [1 .. pairs -> Nat]

(* The assertion of the builder: the last offset is the number of pairs    *)
(* the .stats file counted (index_2to.hpp:63).                             *)
OffsetsMatchStats == pc = "place" => pointers[Len(pointers)] = pairs

(* The write cursor of a predicate stays within the predicate's range, so  *)
(* that the second scan overwrites no subject of another one; and it has   *)
(* passed over the whole range when the scan ends.                         *)
WritesStayInRange ==
  pc \in {"place", "done"} =>
    \A p \in 1 .. predicates :
      /\ pointers[p] <= offsets[p] /\ offsets[p] <= pointers[p + 1]
      /\ pc = "done" => offsets[p] = pointers[p + 1]

(* The finished index lists, for every predicate, its subjects in the      *)
(* order of the file, each once.                                           *)
PredicatesListed ==
  pc = "done" => p_index = PredicateIndexOf(input.lines, predicates)
=============================================================================
