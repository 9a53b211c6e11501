SPECIFICATION Spec
CONSTANTS
  Names <- MCNames
  Hash <- MCHash
  Minor <- MCMinor
  Size <- MCSize
  Ranks <- MCRanks
  DotSize = 6
  BlockSize = 253
  TailSize = 3
  RootLimit = 2
  NodeLimit = 2
  Levels = 2
  MaxBlocks = 5
INVARIANTS EntriesFit
CHECK_DEADLOCK FALSE
