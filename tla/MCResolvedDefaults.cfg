CONSTANTS
  Schemas <- Nodes
  Graph <- Graphs
  Resolvable <- ReadablePairs
  Requests <- AskedDefaults
  Data <- MCData
  Structs <- MCStructs
  CacheBound = 2
SPECIFICATION Spec
INVARIANT ResolvedReads
CHECK_DEADLOCK FALSE
