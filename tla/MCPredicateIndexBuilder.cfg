\* Every dense data set over 2 subjects, 3 predicates and 2 objects; the
\* builder stops when the index is built.
SPECIFICATION Spec
CONSTANTS
  partition_size = 2
  linear_scan_threshold = 1
  Subjects = 2
  Predicates = 3
  Objects = 2
  Inputs <- MCInputs
INVARIANTS
  TypeOK
  OffsetsMatchStats
  WritesStayInRange
  PredicatesListed
CHECK_DEADLOCK FALSE
