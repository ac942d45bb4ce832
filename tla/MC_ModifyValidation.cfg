\* ModifyQuerySupported over ShapeQueries and ExpressionQueries
CONSTANTS
  Queries <- AllQueries
  NoExpr = NoExpr
  NoError = NoError

SPECIFICATION Spec

INVARIANT AcceptsExactlySupported

\* one validation is one call of ModifyQuerySupported: it returns
CHECK_DEADLOCK FALSE
