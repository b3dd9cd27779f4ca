------------------------------- MODULE MCIndex -------------------------------
(***************************************************************************)
(* The data sets of an index for TLC: every dense set of lines over a few  *)
(* ids, and two more, with the five permutation files of each.             *)
(***************************************************************************)
EXTENDS Index, DataPreparation

CONSTANTS Subjects, Predicates, Objects   \* how many ids of each kind, at most

Lines == (0 .. Subjects - 1) \X (0 .. Predicates - 1) \X (0 .. Objects - 1)

(* With four nodes in the second level of the SPO trie, and of the POS     *)
(* trie, the last two siblings; among them is_member and select, and       *)
(* select_o, may look for an id past all the level's.                      *)
FullPartitions ==
  {{<<0, 0, 0>>, <<0, 2, 0>>, <<1, 0, 0>>, <<1, 1, 0>>},
   {<<0, 0, 0>>, <<0, 0, 2>>, <<0, 1, 0>>, <<1, 1, 1>>}}

MCDatasets ==
  {[lines |-> lines,
    file |-> [perm \in permutation_type |-> PermutationFile(perm, lines)]] :
     lines \in {ls \in SUBSET Lines : Dense(ls)} \cup FullPartitions}
=============================================================================
