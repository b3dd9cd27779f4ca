\* Every increasing sequence of at most 8 values, with a threshold that lets
\* the search halve the range twice before it scans.
SPECIFICATION SearchSpec
CONSTANTS
  linear_scan_threshold = 1
  MaxValue = 7
  Searches <- MCSearches
INVARIANTS
  SearchTypeOK
  ReadsStayInRange
  FindsExactly
PROPERTY Returns
CHECK_DEADLOCK FALSE
