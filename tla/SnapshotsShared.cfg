SPECIFICATION Spec
CONSTANTS
  n1 = n1
  n2 = n2
  Names <- MCNames
  Archives <- MCNames
  ArchiveOf <- MCShared
  MaxSaves = 2
  MaxImports = 0
  MaxCrashes = 0
  Loaders = {1}
  MayCompress = TRUE
  Missing = Missing
  Torn = Torn
INVARIANTS Durable
CHECK_DEADLOCK FALSE
