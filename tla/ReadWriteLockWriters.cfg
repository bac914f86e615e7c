SPECIFICATION LockSpec
CONSTANTS
  t1 = t1
  t2 = t2
  t3 = t3
  t4 = t4
  w1 = w1
  w2 = w2
  Readers <- MCTwoReaders
  Writers <- MCTwoWriters
  Cancels = FALSE
INVARIANTS Exclusion
