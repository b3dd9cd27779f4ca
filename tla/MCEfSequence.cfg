\* Words of 4 bits: values of 1 to 4 bits cross them, and up to 3 low bits
\* leave some over. Blocks of 4 ones, dense below a distance of 6.
SPECIFICATION Spec
CONSTANTS
  word_width = 4
  byte_width = 2
  block_size = 4
  subblock_size = 2
  max_in_block_distance = 6
  MaxRanges = 3
  MaxValue = 3
  MaxSize = 5
  MaxWide = 15
  MaxWideSize = 3
  FarApart = {0, 7, 15}
  MaxPointer = 12
  MaxPointers = 5
  Inputs <- MCInputs
INVARIANTS
  TypeOK
  ReadsBack
  SelectFindsOnes
  AccessGivesNode
  WalkGivesNodes
  WalkGivesPointers
CHECK_DEADLOCK FALSE
