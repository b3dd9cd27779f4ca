\* The patterns of compact_3t that give two ids of the data, together in no
\* triplet of it.
SPECIFICATION Spec
CONSTANTS
  partition_size = 2
  linear_scan_threshold = 1
  IndexTypes = {"compact_3t"}
  Subjects = 2
  Predicates = 2
  Objects = 2
  Datasets <- MCDatasets
  Unguarded = TRUE
INVARIANT NeverUndefined
CHECK_DEADLOCK FALSE
