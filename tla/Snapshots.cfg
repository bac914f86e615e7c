SPECIFICATION Spec
CONSTANTS
  n1 = n1
  n2 = n2
  Names <- MCNames
  Archives <- MCNames
  ArchiveOf <- MCOwn
  MaxSaves = 2
  MaxImports = 1
  MaxCrashes = 1
  Loaders = {1}
  MayCompress = TRUE
  Missing = Missing
  Torn = Torn
INVARIANTS Durable FirstSaveAtomic
SYMMETRY MCSymmetry
CHECK_DEADLOCK FALSE
