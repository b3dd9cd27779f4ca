--------------------------------- MODULE Trie ---------------------------------
(***************************************************************************)
(* The selections of trie (algorithms.hpp) and their iterators. An         *)
(* iterator is a record; kind says which of iterator, iterator_so,         *)
(* iterator_po it is. has_next is one turn of its loop: it gives the       *)
(* iterator and an answer, "yes", "no", or "again" when the loop goes on.  *)
(*                                                                         *)
(* A trie t is what TrieOf describes, with the nodes of its last two       *)
(* levels encoded and with its mapper.                                     *)
(***************************************************************************)
EXTENDS TrieLevel, TrieContents

Encoded(t, second_encoding, third_encoding, mapper) ==
  [perm            |-> t.perm,
   first_pointers  |-> t.first_pointers,
   second_nodes    |-> build(second_encoding, t.second_nodes, t.first_pointers),
   second_pointers |-> t.second_pointers,
   third_nodes     |-> build(third_encoding, t.third_nodes, t.second_pointers),
   mapper          |-> mapper]

triplets(t) == size(t.third_nodes)

SecondIterator(t, nodes_it, i) ==
  level_iterator(t.second_nodes, t.first_pointers, nodes_it, i)
ThirdIterator(t, nodes_it, i) ==
  level_iterator(t.third_nodes, t.second_pointers, nodes_it, i)

advance_second(t, it) == advance(t.second_nodes, t.first_pointers, it)
advance_third(t, it) == advance(t.third_nodes, t.second_pointers, it)

Turn(it, answer) == [it |-> it, answer |-> answer]
YesIf(condition) == IF condition THEN "yes" ELSE "no"
-----------------------------------------------------------------------------
(* trie::iterator                                                          *)
Unmapped(t, val) == [val EXCEPT !.third = unmap(t.mapper, val)]

iterator(t, first, second_it, third_it, num_triplets) ==
  [kind |-> "iterator", i |-> 0, size |-> num_triplets,
   second |-> second_it, third |-> third_it,
   val |-> Unmapped(t, Triplet(first, second_it.node, third_it.node))]

select_all(t) ==
  iterator(t, 0, SecondIterator(t, first_cursor(t.second_nodes), 0),
                 ThirdIterator(t, first_cursor(t.third_nodes), 0), triplets(t))

(* The node of the second level that select starts from; not_found, when   *)
(* the pair is not in the trie, is used as any other position.             *)
SelectedNode(t, q) ==
  LET r == RangeAt(t.first_pointers, q.first)
  IN  IF q.second = wildcard_symbol THEN r.begin
      ELSE find_node(t.second_nodes, r, q.second)

select(t, q) ==
  LET r == RangeAt(t.first_pointers, q.first)
      j == SelectedNode(t, q)
      children == RangeAt(t.second_pointers, j)
      num_triplets ==
        IF q.second = wildcard_symbol
        THEN RangeAt(t.second_pointers, r.end - 1).end
               - RangeAt(t.second_pointers, r.begin).begin
        ELSE children.end - children.begin
  IN  iterator(t, q.first,
        SecondIterator(t, cursor(t.second_nodes, r, j), q.first),
        ThirdIterator(t, cursor(t.third_nodes, children, children.begin), j),
        num_triplets)

(* Mutant: the first id is counted up with every pair.                     *)
iterator_next_FirstWithSecond(t, it) ==
  LET moved == [it EXCEPT !.i = @ + 1]
      third_it == advance_third(t, it.third)
      second_it == IF third_it.switch_range THEN advance_second(t, it.second) ELSE it.second
      first == it.val.first + (IF third_it.switch_range THEN 1 ELSE 0)
  IN  IF moved.i = it.size THEN moved
      ELSE [moved EXCEPT !.second = second_it, !.third = third_it,
              !.val = Unmapped(t, Triplet(first, second_it.node, third_it.node))]

(* operator++: nothing is read past the last triplet.                      *)
iterator_next(t, it) ==
  LET moved == [it EXCEPT !.i = @ + 1]
      third_it == advance_third(t, it.third)
      second_it == IF third_it.switch_range THEN advance_second(t, it.second) ELSE it.second
      first == it.val.first + (IF third_it.switch_range /\ second_it.switch_range THEN 1 ELSE 0)
  IN  IF moved.i = it.size THEN moved
      ELSE [moved EXCEPT !.second = second_it, !.third = third_it,
              !.val = Unmapped(t, Triplet(first, second_it.node, third_it.node))]
-----------------------------------------------------------------------------
(* iterator_so: the triplets of a first and a third id, trying every child *)
(* of the first. Its triplets are permuted as (o, s, p).                   *)
select_so(t, q) ==
  LET r == RangeAt(t.first_pointers, q.first)
      children == RangeAt(t.second_pointers, r.begin)
      second_it == SecondIterator(t, cursor(t.second_nodes, r, r.begin), q.first)
  IN  [kind |-> "iterator_so", i |-> 0, size |-> r.end - r.begin,
       second |-> second_it,
       third |-> ThirdIterator(t, cursor(t.third_nodes, children, children.begin), r.begin),
       val |-> Triplet(q.third, q.first, second_it.node)]

iterator_so_next(t, it) ==
  [it EXCEPT !.third = next_pointer(t.second_pointers, @),
             !.second = advance_second(t, @),
             !.i = @ + 1]

iterator_so_has_next(t, it) ==
  LET tried == [it EXCEPT !.val.third = it.second.node]
  IN  IF it.i >= it.size THEN Turn(it, "no")
      ELSE IF find_node(t.third_nodes, pointer(it.third), it.val.first) # not_found
           THEN Turn(tried, "yes")
           ELSE Turn(iterator_so_next(t, tried), "again")
-----------------------------------------------------------------------------
(* iterator_po: the triplets of a second id, looked for among the children *)
(* of every node of the first level.                                       *)
select_o(t, q) ==
  [kind |-> "iterator_po", i |-> 0, j |-> 0,
   size |-> Len(t.first_pointers) - 1, range_len |-> 0,
   second |-> SecondIterator(t, first_cursor(t.second_nodes), 0),
   third |-> <<>>,
   val |-> Triplet(q.second, 0, 0)]

(* Mutant: has_next moves on though there are triplets left to read.       *)
iterator_po_has_next_Eager(t, it) ==
  LET pos == find_node(t.second_nodes, pointer(it.second), it.val.first)
      r == RangeAt(t.second_pointers, pos)
      tried == [it EXCEPT !.second = next_pointer(t.first_pointers, @), !.i = @ + 1]
  IN  IF it.i >= it.size THEN Turn(it, "no")
      ELSE IF pos = not_found THEN Turn(tried, "again")
      ELSE Turn([tried EXCEPT !.val.second = it.i, !.j = 0, !.range_len = r.end - r.begin,
                   !.third = ThirdIterator(t, cursor(t.third_nodes, r, r.begin), pos)],
                "yes")

iterator_po_has_next(t, it) ==
  LET pos == find_node(t.second_nodes, pointer(it.second), it.val.first)
      r == RangeAt(t.second_pointers, pos)
      tried == [it EXCEPT !.second = next_pointer(t.first_pointers, @), !.i = @ + 1]
  IN  IF it.j < it.range_len THEN Turn(it, "yes")
      ELSE IF it.i >= it.size THEN Turn(it, "no")
      ELSE IF pos = not_found THEN Turn(tried, "again")
      ELSE Turn([tried EXCEPT !.val.second = it.i, !.j = 0, !.range_len = r.end - r.begin,
                   !.third = ThirdIterator(t, cursor(t.third_nodes, r, r.begin), pos)],
                "yes")

iterator_po_next(t, it) ==
  [it EXCEPT !.j = @ + 1, !.third = advance_third(t, @)]
-----------------------------------------------------------------------------
(* Mutant: a position counted from the start of the range.                 *)
is_member_InRange(t, q) ==
  LET j == find_node(t.second_nodes, RangeAt(t.first_pointers, q.first), q.second)
      r == RangeAt(t.second_pointers, j)
      k == find_node(t.third_nodes, r, map(t.mapper, q))
  IN  IF j = not_found \/ k = not_found THEN not_found ELSE k - r.begin

(* The position of a triplet in the third level, or not_found.             *)
is_member(t, q) ==
  LET j == find_node(t.second_nodes, RangeAt(t.first_pointers, q.first), q.second)
  IN  IF j = not_found THEN j
      ELSE find_node(t.third_nodes, RangeAt(t.second_pointers, j), map(t.mapper, q))
=============================================================================
