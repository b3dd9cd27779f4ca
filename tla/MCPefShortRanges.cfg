\* A single partition, and ranges that find scans with an iterator.
SPECIFICATION Spec
CONSTANTS
  word_width = 8
  byte_width = 2
  linear_scan_threshold = 1
  partition_size = 2
  MaxRanges = 2
  MaxValue = 2
  MinSize = 1
  MaxSize = 2
  LongRange = 0
  PastBounds = FALSE
  Levels <- MCLevels
INVARIANT FindsInAnyRange
