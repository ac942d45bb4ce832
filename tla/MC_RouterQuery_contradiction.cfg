CONSTANTS
  Relations <- MCRelations
  PartitionMethod <- MCPartitionMethod
  ShardsOf <- MCShardsOf
  Nodes <- MCNodes
  PlacementsOf <- MCPlacementsOf
  MaxRefs <- MCMaxRefs
  INVALID_SHARD_ID = 0
  NoWorker = NoWorker
  NoError = NoError
  Pending = Pending

SPECIFICATION Spec

INVARIANT ContradictionUpdateEmitsTask

\* a planning call returns: its final state has no successor
CHECK_DEADLOCK FALSE
