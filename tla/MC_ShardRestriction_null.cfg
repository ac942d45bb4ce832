CONSTANTS
  r1 = r1
  r2 = r2
  Rows <- MCRows
  Values <- MCValues
  HashOf <- MCHashOf
  ExprOf <- MCExprOf
  IntervalLists <- MCIntervalLists
  TargetLists <- MCTargetLists
  Null = Null
  Unknown = Unknown
  NoWhere = NoWhere
  NoVar = NoVar
  NoError = NoError
  MaxRestrictions = 2

SPECIFICATION Spec

INVARIANT SelectedRowsReachAShard


CHECK_DEADLOCK FALSE
