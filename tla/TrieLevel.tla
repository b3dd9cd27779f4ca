------------------------------ MODULE TrieLevel ------------------------------
(***************************************************************************)
(* trie_level::iterator: walks the nodes of a level together with the      *)
(* pointers that delimit the ranges of siblings, and says when a step      *)
(* leaves a range.                                                         *)
(***************************************************************************)
EXTENDS NodesSequence

(* next() of the iterator on the pointers: past the end it gives the last. *)
PointerAt(pointers, i) == pointers[IF i < Len(pointers) THEN i + 1 ELSE Len(pointers)]

pointer(it) == [begin |-> it.begin, end |-> it.end]

next_pointer(pointers, it) ==
  [it EXCEPT !.begin = it.end,
             !.end = PointerAt(pointers, it.pointers_it),
             !.pointers_it = IF @ < Len(pointers) THEN @ + 1 ELSE @]

(* read(): the node under the cursor, in its range.                        *)
read_node(nodes, it) ==
  LET c == IF it.switch_range THEN switch_range(nodes, it.nodes_it) ELSE it.nodes_it
  IN  [it EXCEPT !.node = value(nodes, c), !.nodes_it = read(nodes, c)]

(* The constructor, on a cursor and the i-th pointer.                      *)
level_iterator(nodes, pointers, nodes_it, i) ==
  read_node(nodes, next_pointer(pointers,
    [nodes_it |-> nodes_it, pointers_it |-> i + 1,
     begin |-> 0, end |-> PointerAt(pointers, i),
     pos_in_range |-> 0, node |-> 0, switch_range |-> FALSE]))

(* operator++; its result is the switch_range it leaves.                   *)
advance(nodes, pointers, it) ==
  LET moved == [it EXCEPT !.pos_in_range = @ + 1, !.nodes_it = next(nodes, @)]
      left == moved.pos_in_range = it.end - it.begin
  IN  read_node(nodes,
        IF left THEN [next_pointer(pointers, moved) EXCEPT !.pos_in_range = 0,
                                                           !.switch_range = TRUE]
        ELSE [moved EXCEPT !.switch_range = FALSE])
=============================================================================
