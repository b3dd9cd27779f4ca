------------------------------ MODULE RdfTypes ------------------------------
(***************************************************************************)
(* The vocabulary of the library: triplets of integer ids, the wildcard,   *)
(* the five permutations of (subject, predicate, object), the order in     *)
(* which a permutation file lists its lines, and the counts that size the  *)
(* builders.                                                               *)
(*                                                                         *)
(* A line of a data file is a tuple <<s, p, o>>, whatever the permutation  *)
(* it is sorted by; a triplet is the record the program works on, whose    *)
(* fields are already in the order of the permutation.                     *)
(***************************************************************************)
EXTENDS Integers, Sequences

(* uint64_t(-1): no id, position or count of the program reaches it.       *)
wildcard_symbol == -1
not_found == -1

(* What a read outside a sequence returns, when the program discards it.   *)
garbage == -2

permutation_type == {"spo", "pos", "osp", "ops", "pso"}

Triplet(a, b, c) == [first |-> a, second |-> b, third |-> c]

(* The default constructor: three wildcards.                               *)
no_triplet == Triplet(wildcard_symbol, wildcard_symbol, wildcard_symbol)

Subject == 1
Predicate == 2
Object == 3

(* The column of a line that each level of a permutation's trie holds.     *)
Columns == [spo |-> <<Subject, Predicate, Object>>,
            pos |-> <<Predicate, Object, Subject>>,
            osp |-> <<Object, Subject, Predicate>>,
            ops |-> <<Object, Predicate, Subject>>,
            pso |-> <<Predicate, Subject, Object>>]

(* triplets_iterator::read_next: one line, in the order of perm.           *)
read_next(perm, line) ==
  LET c == Columns[perm]
  IN  Triplet(line[c[1]], line[c[2]], line[c[3]])

(* The strict lexicographic order of sort -n -u on a permutation's columns.*)
Precedes(t, u) ==
  \/ t.first < u.first
  \/ t.first = u.first /\ t.second < u.second
  \/ t.first = u.first /\ t.second = u.second /\ t.third < u.third

(* parameters::num_types: the number of distinct ids at a level of a trie. *)
num_types(params, perm, level) == params.num_elements[Columns[perm][level]]

(* parameters::num_nodes: the number of nodes at a level of a trie.        *)
PairCount == [spo |-> 4, pos |-> 5, osp |-> 6, ops |-> 5, pso |-> 4]

num_nodes(params, perm, level) ==
  IF level = 3 THEN params.num_triplets
  ELSE params.num_elements[IF level = 1 THEN Columns[perm][1] ELSE PairCount[perm]]
=============================================================================
