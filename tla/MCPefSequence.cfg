\* Partitions of 2 nodes: every level of up to 6 nodes in up to 2 ranges, which
\* partitions cut anywhere, and ranges over 4 partitions for bsearch.
SPECIFICATION Spec
CONSTANTS
  word_width = 8
  byte_width = 2
  linear_scan_threshold = 1
  partition_size = 2
  MaxRanges = 2
  MaxValue = 3
  MinSize = 1
  MaxSize = 6
  LongRange = 7
  PastBounds = FALSE
  Levels <- MCLevels
INVARIANTS
  TypeOK
  AccessGivesNode
  FindsExactly
  WalkGivesNodes
PROPERTY SearchEnds
