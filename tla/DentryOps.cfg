SPECIFICATION Spec
CONSTANTS
  Threads = {t1, t2}
  Dir = 1
  File = 2
  Pinned = {3}
  Names = {"a"}
  Slots = 4
  Ops = {"add", "delete", "update", "read"}
  Targets = {2, 3}
  Indexes = {2, 3}
  MayAbort = TRUE
  MaxNlink = 2
SYMMETRY Symmetry
INVARIANTS LinksCoverEntries EntriesAreLive NoLinklessInode
CHECK_DEADLOCK FALSE
