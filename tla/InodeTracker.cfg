SPECIFICATION FairSpec
CONSTANTS
  Threads = {t1, t2}
  NumBits = 3
  BitsPerBm = 2
  AllocMayFail = FALSE
INVARIANTS SemaphoreDiscipline ReaderSeesBitmap
PROPERTIES NoLostBit ImplementsInodeSet CallsReturn
