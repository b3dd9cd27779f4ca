--------------------------- MODULE PredicateIndex ---------------------------
(***************************************************************************)
(* index_2to::p_index: for every predicate, the subjects it occurs with,   *)
(* and the iterator that visits their objects in the SPO trie.             *)
(***************************************************************************)
EXTENDS Trie

(* What p_index::builder is meant to write (PredicateIndexBuilder checks   *)
(* that it does): the (predicate, subject) pairs of the SPO file in order, *)
(* of each its subject, and where those of each predicate begin.           *)
PredicateIndexOf(file, predicates) ==
  LET pairs == {<<file[i][Predicate], file[i][Subject]>> : i \in DOMAIN file}
  IN  [pointers |-> [p \in 1 .. predicates + 1 |-> Cardinality({q \in pairs : q[1] < p - 1})],
       nodes |-> [k \in 1 .. Cardinality(pairs) |-> Nth(pairs, k - 1)[2]]]

EncodedPredicateIndex(index, encoding) ==
  [pointers |-> index.pointers, nodes |-> build(encoding, index.nodes, index.pointers)]
-----------------------------------------------------------------------------
(* iterator_p; its triplets are permuted as (p, s, o).                     *)
select_p(p_index, q) ==
  LET r == RangeAt(p_index.pointers, q.second)
  IN  [kind |-> "iterator_p", i |-> 0, j |-> 0, size |-> r.end - r.begin, range_len |-> 0,
       second |-> level_iterator(p_index.nodes, p_index.pointers,
                                 cursor(p_index.nodes, r, r.begin), q.second),
       third |-> <<>>,
       val |-> Triplet(q.second, 0, 0)]

(* has_next moves to the objects of the next subject; the predicate is     *)
(* asserted to be among the children of the subject.                       *)
iterator_p_has_next(p_index, spo, it) ==
  LET s == it.second.node
      pos == find_node(spo.second_nodes, RangeAt(spo.first_pointers, s), it.val.first)
      r == RangeAt(spo.second_pointers, pos)
  IN  IF it.j < it.range_len THEN Turn(it, "yes")
      ELSE IF it.i >= it.size THEN Turn(it, "no")
      ELSE Turn([it EXCEPT !.val.second = s, !.j = 0, !.range_len = r.end - r.begin,
                   !.third = ThirdIterator(spo, cursor(spo.third_nodes, r, r.begin), pos),
                   !.second = advance(p_index.nodes, p_index.pointers, @),
                   !.i = @ + 1],
                "yes")
=============================================================================
