----------------------- MODULE MCPredicateIndexBuilder -----------------------
(***************************************************************************)
(* The inputs of p_index::builder for TLC: the SPO files of every dense    *)
(* set of lines over a few ids.                                            *)
(***************************************************************************)
EXTENDS PredicateIndexBuilder, DataPreparation

CONSTANTS Subjects, Predicates, Objects   \* how many ids of each kind, at most

Lines == (0 .. Subjects - 1) \X (0 .. Predicates - 1) \X (0 .. Objects - 1)

MCInputs ==
  {[lines |-> PermutationFile("spo", lines), params |-> StatsFile(lines)] :
     lines \in {ls \in SUBSET Lines : Dense(ls)}}
=============================================================================
