\* The eight index types of the three layouts, on every dense data set over 2
\* subjects, 2 predicates and 2 objects and on some with full partitions; the
\* pef types on those whose pef levels hold several partitions (Unguarded =
\* FALSE). A client asks one query.
SPECIFICATION Spec
CONSTANTS
  partition_size = 2
  linear_scan_threshold = 1
  IndexTypes = {"compact_3t", "ef_3t", "pef_3t", "pef_r_3t", "vb_3t", "pef_2tp", "vb_2tp", "pef_2to"}
  Subjects = 2
  Predicates = 2
  Objects = 2
  Datasets <- MCDatasets
  Unguarded = FALSE
INVARIANTS
  TypeOK
  InFileOrder
  MemberPosition
PROPERTIES
  AskingAgainIsHarmless
  StoreSpec
CHECK_DEADLOCK FALSE
