\* Full partitions, and ids above all values.
SPECIFICATION Spec
CONSTANTS
  word_width = 8
  byte_width = 2
  linear_scan_threshold = 1
  partition_size = 2
  MaxRanges = 2
  MaxValue = 3
  MinSize = 3
  MaxSize = 6
  LongRange = 0
  PastBounds = TRUE
  Levels <- MCLevels
INVARIANT ReadsBounds
