\* ModifyQuerySupported over the statements of AllQueries
CONSTANTS
  Queries <- AllQueries
  NoExpr = NoExpr
  NoError = NoError

SPECIFICATION Spec

INVARIANT ReferenceRejectionNeedsReferenceTarget

\* one validation is one call of ModifyQuerySupported: it returns
CHECK_DEADLOCK FALSE
