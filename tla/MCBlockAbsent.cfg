\* Ids that are not in the range.
SPECIFICATION Spec
CONSTANTS
  group = 2
  max_bytes = 3
  block_size = 2
  linear_scan_threshold = 1
  AbsentIds = TRUE
  MaxRanges = 2
  MaxValue = 3
  MaxSize = 5
  Levels <- MCLevels
INVARIANT FindRefusesAbsent
