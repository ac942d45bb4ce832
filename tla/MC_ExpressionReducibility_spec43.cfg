CONSTANTS
  MaxDepth <- MCMaxDepth
  MaxBinaryDepth <- MCMaxBinaryDepth

SPECIFICATION Spec

INVARIANT StableColumnArgumentRejected


\* one call of MasterIrreducibleExpression: it returns and planning goes on
CHECK_DEADLOCK FALSE
