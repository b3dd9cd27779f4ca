\* Every dense data set over 2 subjects, 2 predicates and 3 objects, in the
\* five permutations; the builder stops when the trie is built.
SPECIFICATION Spec
CONSTANTS
  Subjects = 2
  Predicates = 2
  Objects = 3
  Inputs <- MCInputs
INVARIANTS
  TypeOK
  WithinStats
  DescribesPrefix
  BuiltTrieIsFile
  BuiltTrieIsTrieOf
  ChildrenIncrease
CHECK_DEADLOCK FALSE
