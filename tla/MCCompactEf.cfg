\* Every list of up to 5 values of 0 .. 10: up to one low bit, and enough ones
\* and zeros for a pointer of each kind and for every branch of a skip.
SPECIFICATION Spec
CONSTANTS
  linear_scan_threshold = 1
  log_sampling0 = 2
  log_sampling1 = 2
  MaxLength = 5
  MaxValue = 10
  BaseOffsets = {5}
  word_width = 8
  byte_width = 2
  Lists <- MCLists
INVARIANTS
  TypeOK
  FieldsIntact
  PrevValueKnown
  CursorAtPosition
  NextGeqAsPromised
