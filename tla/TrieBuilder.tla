----------------------------- MODULE TrieBuilder -----------------------------
(***************************************************************************)
(* trie::builder (trie.hpp): one pass over a sorted permutation file       *)
(* writes the pointers of the first level and the nodes and pointers of    *)
(* the second, into vectors sized in advance from the .stats file; a       *)
(* second pass writes the nodes of the third through the mapper.           *)
(*                                                                         *)
(* The built trie holds the sequences the encoders are asked to store; how *)
(* an encoder stores one is not modelled here.                             *)
(***************************************************************************)
EXTENDS TrieContents, FiniteSets

CONSTANT Inputs   \* the runs of the builder: what it is given, see WellFormed

(* The i-th triplet of an input's file, i from 1.                          *)
Read(in, i) == read_next(in.perm, in.lines[i])

PairsUpTo(in, n) == {<<Read(in, i).first, Read(in, i).second>> : i \in 1 .. n}

(* An input: the permutation, the lines of its file, the counts of the     *)
(* .stats file and the mapper. The file is strictly sorted and its first   *)
(* column has no gap; the counts are those of the file; the mapper of the  *)
(* POS trie holds two levels of a finished trie, with a range for every id *)
(* of the second column.                                                   *)
WellFormed(in) ==
  LET n == Len(in.lines)
  IN  /\ in.perm \in permutation_type
      /\ in.lines \in Seq(Nat \X Nat \X Nat)
      /\ n > 0
      /\ Read(in, 1).first = 0
      /\ \A i \in 1 .. n - 1 :
           /\ Precedes(Read(in, i), Read(in, i + 1))
           /\ Read(in, i + 1).first <= Read(in, i).first + 1
      /\ num_nodes(in.params, in.perm, 1) = Read(in, n).first + 1
      /\ num_nodes(in.params, in.perm, 2) = Cardinality(PairsUpTo(in, n))
      /\ num_nodes(in.params, in.perm, 3) = n
      /\ \A level \in 2 .. 3 : num_types(in.params, in.perm, level) \in Nat
      /\ \A i \in 1 .. n :
           LET t == Read(in, i) IN
           /\ t.first < num_nodes(in.params, in.perm, 1)
           /\ t.second < num_types(in.params, in.perm, 2)
           /\ map(in.mapper, t) \in 0 .. num_types(in.params, in.perm, 3)
           /\ unmap(in.mapper, Triplet(t.first, t.second, map(in.mapper, t))) = t.third
      /\ in.mapper.kind # "identity" =>
           /\ WellFormedRanges(in.mapper.nodes, in.mapper.pointers)
           /\ num_types(in.params, in.perm, 2) < Len(in.mapper.pointers)

ASSUME InputsAssumption == \A in \in Inputs : WellFormed(in)

VARIABLES
  input,            \* the file, the counts and the mapper
  pc,               \* which of the two passes, or done
  it,               \* lines read in this pass
  prev,             \* the triplet read before
  pointer_first,    \* nodes of the second level so far
  pointer_second,   \* triplets so far
  first_pointers,   \* m_first.pointers, what has been pushed
  second_nodes,     \* m_second.nodes
  second_pointers,  \* m_second.pointers
  third_nodes,      \* m_third.nodes
  trie              \* the trie under construction

counters == <<prev, pointer_first, pointer_second>>
builders == <<first_pointers, second_nodes, second_pointers, third_nodes>>
vars == <<input, pc, it, counters, builders, trie>>

(* trie::builder's resize of each vector: its size and its largest value.  *)
Size(in, vector) ==
  CASE vector = "first_pointers"  -> num_nodes(in.params, in.perm, 1) + 1
    [] vector = "second_nodes"    -> num_nodes(in.params, in.perm, 2)
    [] vector = "second_pointers" -> num_nodes(in.params, in.perm, 2) + 1
    [] vector = "third_nodes"     -> num_nodes(in.params, in.perm, 3)

MaxValue(in, vector) ==
  CASE vector = "first_pointers"  -> num_nodes(in.params, in.perm, 2)
    [] vector = "second_nodes"    -> num_types(in.params, in.perm, 2)
    [] vector = "second_pointers" -> num_nodes(in.params, in.perm, 3)
    [] vector = "third_nodes"     -> num_types(in.params, in.perm, 3)

(* A compact_vector::builder turned into a sequence: always of the size it *)
(* was resized to, with zeros where nothing was pushed.                    *)
Built(pushed, size) == [i \in 1 .. size |-> IF i <= Len(pushed) THEN pushed[i] ELSE 0]

empty_trie == [perm |-> "none", first_pointers |-> <<>>, second_nodes |-> <<>>,
               second_pointers |-> <<>>, third_nodes |-> <<>>]

(* Mutant: the count of pairs starts like prev, with wildcards.            *)
Init_CountFromWildcard ==
  /\ input \in Inputs
  /\ pc = "first_and_second"
  /\ it = 0
  /\ prev = no_triplet
  /\ pointer_first = wildcard_symbol
  /\ pointer_second = 0
  /\ first_pointers = <<>>
  /\ second_nodes = <<>>
  /\ second_pointers = <<>>
  /\ third_nodes = <<>>
  /\ trie = empty_trie

Init ==
  /\ input \in Inputs
  /\ pc = "first_and_second"
  /\ it = 0
  /\ prev = no_triplet
  /\ pointer_first = 0
  /\ pointer_second = 0
  /\ first_pointers = <<>>
  /\ second_nodes = <<>>
  /\ second_pointers = <<>>
  /\ third_nodes = <<>>
  /\ trie = empty_trie

NewFirst(last, curr) == curr.first # last.first

(* Mutants: a pair told apart by its second id alone, or by any id.        *)
NewPair_SecondOnly(last, curr) == curr.second # last.second
NewPair_AnyId(last, curr) == curr # last

NewPair(last, curr) == curr.first # last.first \/ curr.second # last.second

PushIf(condition, vector, value) ==
  IF condition THEN Append(vector, value) ELSE vector

(* The body of the first loop: `while (input)` stops after the last line,  *)
(* whether or not a newline ends it.                                       *)
ReadTriplet ==
  LET curr == Read(input, it + 1) IN
  /\ pc = "first_and_second"
  /\ it < Len(input.lines)
  /\ first_pointers' = PushIf(NewFirst(prev, curr), first_pointers, pointer_first)
  /\ second_pointers' = PushIf(NewPair(prev, curr), second_pointers, pointer_second)
  /\ second_nodes' = PushIf(NewPair(prev, curr), second_nodes, curr.second)
  /\ pointer_first' = IF NewPair(prev, curr) THEN pointer_first + 1 ELSE pointer_first
  /\ pointer_second' = pointer_second + 1
  /\ prev' = curr
  /\ it' = it + 1
  /\ UNCHANGED <<input, pc, third_nodes, trie>>

(* Mutant: the last range of the second level is not closed.               *)
CompressFirstAndSecond_Unclosed ==
  /\ pc = "first_and_second"
  /\ it = Len(input.lines)
  /\ first_pointers' = Append(first_pointers, pointer_first)
  /\ trie' = [trie EXCEPT
       !.first_pointers = Built(first_pointers', Size(input, "first_pointers")),
       !.second_nodes = Built(second_nodes, Size(input, "second_nodes")),
       !.second_pointers = Built(second_pointers, Size(input, "second_pointers"))]
  /\ pc' = "third"
  /\ it' = 0
  /\ UNCHANGED <<input, counters, second_nodes, second_pointers, third_nodes>>

(* The end of build_first_and_second_level: the closing pointers, and the  *)
(* three sequences compressed.                                             *)
CompressFirstAndSecond ==
  /\ pc = "first_and_second"
  /\ it = Len(input.lines)
  /\ first_pointers' = Append(first_pointers, pointer_first)
  /\ second_pointers' = Append(second_pointers, pointer_second)
  /\ trie' = [trie EXCEPT
       !.first_pointers = Built(first_pointers', Size(input, "first_pointers")),
       !.second_nodes = Built(second_nodes, Size(input, "second_nodes")),
       !.second_pointers = Built(second_pointers', Size(input, "second_pointers"))]
  /\ pc' = "third"
  /\ it' = 0
  /\ UNCHANGED <<input, counters, second_nodes, third_nodes>>

(* The body of the loop of build_third_level.                              *)
MapTriplet ==
  /\ pc = "third"
  /\ it < Len(input.lines)
  /\ third_nodes' = Append(third_nodes, map(input.mapper, Read(input, it + 1)))
  /\ it' = it + 1
  /\ UNCHANGED <<input, pc, counters, first_pointers, second_nodes, second_pointers, trie>>

(* The end of build_third_level: the builder is swapped with an empty one. *)
CompressThird ==
  /\ pc = "third"
  /\ it = Len(input.lines)
  /\ trie' = [trie EXCEPT !.third_nodes = Built(third_nodes, Size(input, "third_nodes")),
                          !.perm = input.perm]
  /\ pc' = "done"
  /\ first_pointers' = <<>>
  /\ second_nodes' = <<>>
  /\ second_pointers' = <<>>
  /\ third_nodes' = <<>>
  /\ UNCHANGED <<input, it, counters>>

Next == ReadTriplet \/ CompressFirstAndSecond \/ MapTriplet \/ CompressThird

Spec == Init /\ [][Next]_vars
-----------------------------------------------------------------------------
(* Types: the cursors are counts of lines and the vectors hold naturals.   *)
TypeOK ==
  /\ pc \in {"first_and_second", "third", "done"}
  /\ it \in 0 .. Len(input.lines)
  /\ prev \in [first : Int, second : Int, third : Int]
  /\ pointer_first \in Nat
  /\ pointer_second \in Nat
  /\ first_pointers \in Seq(Nat)
  /\ second_nodes \in Seq(Nat)
  /\ second_pointers \in Seq(Nat)
  /\ third_nodes \in Seq(Nat)
  /\ trie \in [perm : permutation_type \cup {"none"}, first_pointers : Seq(Nat),
               second_nodes : Seq(Nat), second_pointers : Seq(Nat), third_nodes : Seq(Nat)]

Fits(pushed, vector) ==
  /\ Len(pushed) <= Size(input, vector)
  /\ \A i \in DOMAIN pushed : pushed[i] <= MaxValue(input, vector)

(* No push_back goes past the size the vector was given from the .stats    *)
(* file, nor pushes a value wider than the width it was given: push_back   *)
(* checks neither (trie.hpp:16-32, compact_vector.hpp:142).                *)
WithinStats ==
  /\ Fits(first_pointers, "first_pointers")
  /\ Fits(second_nodes, "second_nodes")
  /\ Fits(second_pointers, "second_pointers")
  /\ Fits(third_nodes, "third_nodes")

(* Position k of the third level lies under node j of the second, which    *)
(* lies under node f of the first (all from 0).                            *)
LiesUnder(k, j, pointers) == pointers[j + 1] <= k /\ k < pointers[j + 2]

(* The first two levels, closed after n lines, place each of those lines   *)
(* under exactly one node of the second level, which holds its second id   *)
(* and lies under the node of the first level numbered by its first id.    *)
Describes(fp, sn, sp, in, n) ==
  /\ Len(sp) = Len(sn) + 1
  /\ Len(fp) = (IF n = 0 THEN 0 ELSE Read(in, n).first + 1) + 1
  /\ \A i \in 1 .. n :
       \E j \in 0 .. Len(sn) - 1 :
         /\ LiesUnder(i - 1, j, sp)
         /\ sn[j + 1] = Read(in, i).second
         /\ LiesUnder(j, Read(in, i).first, fp)
         /\ \A h \in 0 .. Len(sn) - 1 : LiesUnder(i - 1, h, sp) => h = j

(* After any number of lines the vectors, once closed by the two last      *)
(* pushes, describe the lines read so far (trie.hpp:44-65).                *)
DescribesPrefix ==
  pc = "first_and_second" =>
    Describes(Append(first_pointers, pointer_first), second_nodes,
              Append(second_pointers, pointer_second), input, it)

(* The triplet at position k of a trie, unmapped, as a lookup through the  *)
(* pointers finds it.                                                      *)
TripletAt(t, mapper, k) ==
  LET j == CHOOSE j \in 0 .. Len(t.second_nodes) - 1 : LiesUnder(k, j, t.second_pointers)
      f == CHOOSE f \in 0 .. Len(t.first_pointers) - 2 : LiesUnder(j, f, t.first_pointers)
      v == Triplet(f, t.second_nodes[j + 1], t.third_nodes[k + 1])
  IN  [v EXCEPT !.third = unmap(mapper, v)]

(* The finished trie holds exactly the lines of its file, in order: the    *)
(* sizes of the .stats file, the two passes and the mapper agree.          *)
BuiltTrieIsFile ==
  pc = "done" =>
    /\ trie.perm = input.perm
    /\ Len(trie.third_nodes) = Len(input.lines)
    /\ \A i \in 1 .. Len(input.lines) : TripletAt(trie, input.mapper, i - 1) = Read(input, i)

(* The two passes write the trie of the file, vector by vector: what the   *)
(* queries are modelled to read.                                           *)
BuiltTrieIsTrieOf ==
  pc = "done" => trie = TrieOf(input.perm, input.lines, input.mapper)

IncreasesWithin(nodes, pointers) ==
  \A p \in 1 .. Len(pointers) - 1 :
    \A i \in pointers[p] + 1 .. pointers[p + 1] - 1 : nodes[i] < nodes[i + 1]

(* The children of every node are strictly increasing in both levels, also *)
(* after the mapper: the binary search of find and the encoders rely on it *)
(* (util.hpp:47, ef_sequence.hpp:287).                                     *)
ChildrenIncrease ==
  pc = "done" =>
    /\ IncreasesWithin(trie.second_nodes, trie.first_pointers)
    /\ IncreasesWithin(trie.third_nodes, trie.second_pointers)
=============================================================================
