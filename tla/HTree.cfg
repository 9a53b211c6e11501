SPECIFICATION Spec
CONSTANTS
  Short = a
  Twins = {b, c}
  Odd = d
  Names <- MCNames
  Hash <- MCHash
  Minor <- MCMinor
  Size <- MCSize
  Ranks <- MCRanks
  DotSize = 1
  BlockSize = 7
  TailSize = 1
  RootLimit = 2
  NodeLimit = 2
  Levels = 3
  MaxBlocks = 12
SYMMETRY Symmetry
INVARIANTS EntriesFit IndexValid LookupExact ListedOnce
CHECK_DEADLOCK FALSE
