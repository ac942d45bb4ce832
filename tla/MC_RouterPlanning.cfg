\* CreateModifyPlan and CreateRouterPlan composed with their components
CONSTANTS
  Relations <- MCRelations
  PartitionMethod <- MCPartitionMethod
  ShardsOf <- MCShardsOf
  Nodes <- MCNodes
  PlacementsOf <- MCPlacementsOf
  MaxRefs <- MCMaxRefs
  INVALID_SHARD_ID = 0
  NoWorker = NoWorker
  Pending = Pending
  Tables <- MCTables
  Values <- MCValues
  HashOf <- MCHashOf
  Missing = Missing
  NonConst = NonConst
  Null = Null
  Queries <- MCQueries
  NoExpr = NoExpr
  NoError = NoError
  NotCalled = NotCalled
  NoPlan = NoPlan
  CteCommands <- MCCteCommands

SPECIFICATION Spec

INVARIANT WriteRoutedOnlyIfSupported
INVARIANT RewriteOnlyOnSuccess

\* a planning call returns: its final state has no successor
CHECK_DEADLOCK FALSE
