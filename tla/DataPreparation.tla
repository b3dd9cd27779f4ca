--------------------------- MODULE DataPreparation ---------------------------
(***************************************************************************)
(* What the scripts hand to the program: the permutation files that        *)
(* sort.py sorts, and the .stats file that build_stats.py counts on three  *)
(* of them and parameters::load reads back.                                *)
(***************************************************************************)
EXTENDS RdfTypes, FiniteSetsExt, TLC

(* The permutation file of a set of lines: sorted, without duplicates.     *)
PermutationFile(perm, lines) ==
  SortSeq(FoldSet(LAMBDA l, file : Append(file, l), <<>>, lines),
          LAMBDA l, m : Precedes(read_next(perm, l), read_next(perm, m)))

(* build_stats.py, collect_stats: one pass over a sorted file that counts  *)
(* the changes of one column and of a pair of columns.                     *)
collect_stats(file, x, y) ==
  LET Changes(cols) == {i \in DOMAIN file :
                          i = 1 \/ \E c \in cols : file[i - 1][c] # file[i][c]}
  IN  [unigrams |-> Cardinality(Changes({x})),
       bigrams  |-> Cardinality(Changes({x, y})),
       total    |-> Len(file)]

(* The .stats file, as parameters::load reads it back: the number of       *)
(* triplets and the six num_elements S, P, O, SP, PO, OS.                  *)
StatsFile(lines) ==
  LET Scan(perm) == collect_stats(PermutationFile(perm, lines),
                                  Columns[perm][1], Columns[perm][2])
  IN  [num_triplets |-> Scan("osp").total,
       num_elements |-> <<Scan("spo").unigrams, Scan("pos").unigrams, Scan("osp").unigrams,
                          Scan("spo").bigrams, Scan("pos").bigrams, Scan("osp").bigrams>>]

(* The sets of lines the data preparation can produce: not empty, and with *)
(* every column numbered from 0 without gaps, as the vocabularies are.     *)
Dense(lines) ==
  /\ lines # {}
  /\ \A c \in {Subject, Predicate, Object} :
       LET ids == {l[c] : l \in lines} IN ids = 0 .. Cardinality(ids) - 1
=============================================================================
