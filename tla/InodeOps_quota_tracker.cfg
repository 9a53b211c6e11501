SPECIFICATION Spec
CONSTANTS
  Threads = {t1}
  NumInodes = 1
  Untrackable = {}
  QuotaMayFail = TRUE
  MaxLinks = 1
PROPERTIES FreesOnlyEvfsInodes
