SPECIFICATION Spec
CONSTANTS
  a = a
  b = b
  vpc = vpc
  vpc2 = vpc2
  app = app
  x = x
  Names <- MCNames
  Resources <- MCResources
  Logical <- MCLogical
  Imports <- MCImports
  Retained <- MCRetained
  Templates <- MCTemplates
  ChangeSets <- MCChangeSets
  Budget = 3
  MaxChangeSets = 2
INVARIANT OneUndeleted
CHECK_DEADLOCK FALSE
