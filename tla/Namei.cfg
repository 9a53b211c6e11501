CONSTANTS
  Root = root
  NoIno = none
  Others = {i1, i2, i3}
  Inos <- MCInos
  Names = {a, b}
  LinkMax = 3
  DirNlink = TRUE
SPECIFICATION Spec
SYMMETRY Symmetry
INVARIANTS LinkCounts DirectoryTree LookupsClean OrphansExact
PROPERTIES FailedKeeps
CHECK_DEADLOCK FALSE
