------------------------------- MODULE Mappers -------------------------------
(***************************************************************************)
(* What a trie writes in its third level: the id itself (identity_mapper), *)
(* or, in the POS trie of pef_r_3t, the rank of the subject among the      *)
(* subjects of the object (sorted_array_mapper), which needs the first two *)
(* levels of the OSP trie both to be written and to be read back.          *)
(***************************************************************************)
EXTENDS RdfTypes

identity_mapper == [kind |-> "identity"]

(* initialize(&osp): the mapper keeps the OSP trie's first pointers and    *)
(* second nodes.                                                           *)
sorted_array_mapper(pointers, nodes) ==
  [kind |-> "sorted_array", pointers |-> pointers, nodes |-> nodes]

(* The range of the i-th node's children (pointers and positions are       *)
(* 0-based in the code, sequences 1-based here).                           *)
RangeAt(pointers, i) == [begin |-> pointers[i + 1], end |-> pointers[i + 2]]

Positions(r) == r.begin .. r.end - 1

(* What every nodes.find promises: the position of id in the range.        *)
find(nodes, r, id) ==
  IF \E pos \in Positions(r) : nodes[pos + 1] = id
  THEN CHOOSE pos \in Positions(r) : nodes[pos + 1] = id
  ELSE not_found

get_parent(t) == t.second

map(mapper, t) ==
  IF mapper.kind = "identity" THEN t.third
  ELSE LET r == RangeAt(mapper.pointers, get_parent(t))
       IN  find(mapper.nodes, r, t.third) - r.begin

(* Mutant: the range's begin is taken away, as map does.                   *)
unmap_AsMap(mapper, t) ==
  IF mapper.kind = "identity" THEN t.third
  ELSE t.third - RangeAt(mapper.pointers, get_parent(t)).begin

unmap(mapper, t) ==
  IF mapper.kind = "identity" THEN t.third
  ELSE mapper.nodes[t.third + RangeAt(mapper.pointers, get_parent(t)).begin + 1]

(* The nodes of a finished level, and the pointers that delimit its ranges *)
(* of siblings: none is empty and each is increasing. TrieBuilder_proofs   *)
(* shows that both levels of every built trie are so.                      *)
WellFormedRanges(nodes, pointers) ==
  /\ nodes \in Seq(Nat) /\ pointers \in Seq(Nat)
  /\ Len(pointers) > 1
  /\ pointers[1] = 0 /\ pointers[Len(pointers)] = Len(nodes)
  /\ \A p \in 1 .. Len(pointers) - 1 :
       /\ pointers[p] < pointers[p + 1]
       /\ \A k, j \in pointers[p] + 1 .. pointers[p + 1] : k < j => nodes[k] < nodes[j]

(* A level given to an encoder, and the ids that are looked up in it.      *)
WellFormedLevel(l) == WellFormedRanges(l.from, l.pointers) /\ l.ids \subseteq Nat
=============================================================================
