---------------------------- MODULE TrieContents ----------------------------
(***************************************************************************)
(* The trie of a permutation file, defined at once: what trie::builder is  *)
(* meant to write, which its two passes are checked to write               *)
(* (TrieBuilder), and what the queries read (Index).                       *)
(***************************************************************************)
EXTENDS Mappers, PairOrder

(* A node of the second level for every pair; its children are the lines   *)
(* with that pair, which follow those of the pairs before.                 *)
TrieOf(perm, file, mapper) ==
  LET n == Len(file)
      line == [i \in 1 .. n |-> read_next(perm, file[i])]
      pair == [i \in 1 .. n |-> <<line[i].first, line[i].second>>]
      pairs == {pair[i] : i \in 1 .. n}
      m == Cardinality(pairs)
  IN  [perm |-> perm,
       first_pointers |-> [f \in 1 .. line[n].first + 2 |-> Cardinality({q \in pairs : q[1] < f - 1})],
       second_nodes |-> [j \in 1 .. m |-> Nth(pairs, j - 1)[2]],
       second_pointers |-> [j \in 1 .. m + 1 |->
                              Cardinality({i \in 1 .. n : j <= m => Before(pair[i], Nth(pairs, j - 1))})],
       third_nodes |-> [i \in 1 .. n |-> map(mapper, line[i])]]
=============================================================================
