SPECIFICATION Spec
CONSTANTS
  Names <- MCNames
  NameSize <- MCNameSize
  PropNames = {"p"}
  ValueSizes = {0, 5}
  Paths <- MCPaths
  NodesPerSlab = 2
  PropsPerSlab = 3
  MaxSlabs = 2
INVARIANTS
  NodesConserved
  FlattenIsExact
  CreationIsStable
CHECK_DEADLOCK FALSE
