CONSTANTS
  Schemas <- Nodes
  Graph <- Graphs
  Resolvable <- ReadablePairs
  Requests <- Asked
  Data <- MCData
  Structs <- MCStructs
  CacheBound = 2
SPECIFICATION Spec
INVARIANTS
  CompatibleResolves
  DecodingIsResolution
  SkippingKeepsPlace
  CacheSeparatesPlans
CHECK_DEADLOCK FALSE
