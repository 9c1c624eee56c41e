CONSTANTS
  Passes <- MCPasses
  Resources <- MCResources
  Graphs <- MCGraphs
  PipelinePasses <- MCPipelinePasses
  PassType <- MCPassType
  Kind <- MCKind
SPECIFICATION FairSpec
INVARIANTS
  TypeOK
  TopologicalOrder
  ReadersSeeFinalWrite
  BarriersAreTight
PROPERTIES
  KeepsPromise
