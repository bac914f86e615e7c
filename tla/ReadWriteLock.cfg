SPECIFICATION FairSpec
CONSTANTS
  t1 = t1
  t2 = t2
  t3 = t3
  t4 = t4
  w1 = w1
  w2 = w2
  Readers <- MCReaders
  Writers <- MCOneWriter
  Cancels = TRUE
INVARIANTS Exclusion NeverHangs
PROPERTIES WriterFirst WriterNotStarved ReaderWoken
