\* Blocks of 2 nodes: levels of up to 6 nodes in 3 ranges, which may share a
\* block or span four; ids of the range only.
SPECIFICATION Spec
CONSTANTS
  group = 2
  max_bytes = 3
  block_size = 2
  linear_scan_threshold = 1
  AbsentIds = FALSE
  MaxRanges = 3
  MaxValue = 4
  MaxSize = 6
  Levels <- MCLevels
INVARIANTS
  TypeOK
  AccessGivesNode
  FindsPresent
  StaysInBlock
  WalkGivesNodes
