--------------------- MODULE MC_ExpressionReducibility ---------------------
(* Every expression tree of depth 2 with one or two arguments per node     *)
(* (siblings in both orders around a CASE, COALESCE or column) and every   *)
(* chain of depth 4 (a CASE/COALESCE calling a stable function below a     *)
(* stable function, a column below an immutable below a stable function).  *)
EXTENDS ExpressionReducibility

MCMaxDepth == 4
MCMaxBinaryDepth == 2
=============================================================================
