CONSTANTS
  MaxDepth <- MCMaxDepth
  MaxBinaryDepth <- MCMaxBinaryDepth

SPECIFICATION Spec

INVARIANT IrreducibleHasReason
INVARIANT FlagsMatchIrreducible

\* one call of MasterIrreducibleExpression: it returns and planning goes on
CHECK_DEADLOCK FALSE
