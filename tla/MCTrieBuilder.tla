---------------------------- MODULE MCTrieBuilder ----------------------------
(***************************************************************************)
(* The inputs of the builder for TLC: every dense set of lines over a few  *)
(* ids, sorted by each permutation, with the counts of the .stats file;    *)
(* POS also with the mapper of pef_r_3t over the OSP trie of those lines.  *)
(***************************************************************************)
EXTENDS TrieBuilder, DataPreparation

CONSTANTS Subjects, Predicates, Objects   \* how many ids of each kind, at most

Lines == (0 .. Subjects - 1) \X (0 .. Predicates - 1) \X (0 .. Objects - 1)

Datasets == {lines \in SUBSET Lines : Dense(lines)}

(* The mapper of pef_r_3t: it keeps two levels of the OSP trie.             *)
OspMapper(lines) ==
  LET osp == TrieOf("osp", PermutationFile("osp", lines), identity_mapper)
  IN  sorted_array_mapper(osp.first_pointers, osp.second_nodes)

Input(perm, lines, mapper) ==
  [perm |-> perm, lines |-> PermutationFile(perm, lines),
   params |-> StatsFile(lines), mapper |-> mapper]

MCInputs ==
  {Input(perm, lines, identity_mapper) : perm \in permutation_type, lines \in Datasets}
    \cup {Input("pos", lines, OspMapper(lines)) : lines \in Datasets}
=============================================================================
