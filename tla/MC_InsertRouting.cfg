\* RouterInsertJob over every small catalog entry and partition value
CONSTANTS
  Tables <- MCTables
  Values <- MCValues
  HashOf <- MCHashOf
  NoError = NoError
  Missing = Missing
  NonConst = NonConst
  Null = Null

SPECIFICATION Spec

INVARIANT InsertRoutedAsSpecified

\* one planning call returns
CHECK_DEADLOCK FALSE
