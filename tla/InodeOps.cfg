SPECIFICATION Spec
CONSTANTS
  Threads = {t1, t2}
  NumInodes = 2
  Untrackable = {}
  QuotaMayFail = FALSE
  MaxLinks = 1
SYMMETRY Symmetry
INVARIANTS TrackedIsAllocated  DiskCountExact  NlinkAccounts NoDanglingEntry
PROPERTIES FreesOnlyEvfsInodes
