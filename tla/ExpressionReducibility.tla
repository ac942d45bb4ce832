------------------------ MODULE ExpressionReducibility ------------------------
(***************************************************************************)
(* One call of MasterIrreducibleExpression (multi_router_planner.c) on an  *)
(* expression with no volatile function, as ModifyQuerySupported makes it  *)
(* for every UPDATE target entry and for the WHERE clause.                 *)
(***************************************************************************)
EXTENDS ExpressionWalker

VARIABLES
  expr,         \* the expression handed to MasterIrreducibleExpression
  analyzed,     \* the call has returned
  result,       \* its return value
  varArgument,  \* *varArgument after the call
  badCoalesce   \* *badCoalesce after the call

vars == <<expr, analyzed, result, varArgument, badCoalesce>>

-----------------------------------------------------------------------------
CONSTANTS
  MaxDepth,       \* depth of the expression trees checked
  MaxBinaryDepth  \* depth up to which nodes have two arguments

\* the walker assumes volatile functions were rejected before it
Init ==
  /\ expr \in Exprs(MaxBinaryDepth, {"i", "s"}, TRUE) \cup Exprs(MaxDepth, {"i", "s"}, FALSE)
  /\ analyzed = FALSE
  /\ result = FALSE
  /\ varArgument = FALSE
  /\ badCoalesce = FALSE

AnalyzeExpression ==
  /\ ~analyzed
  /\ LET r == MasterIrreducibleExpression(expr, FALSE, FALSE)
     IN /\ result' = r.result
        /\ varArgument' = r.varArgument
        /\ badCoalesce' = r.badCoalesce
  /\ analyzed' = TRUE
  /\ UNCHANGED expr

Next == AnalyzeExpression

Spec == Init /\ [][Next]_vars

-----------------------------------------------------------------------------
(* Properties                                                              *)

(* ModifyQuerySupported asserts Assert(hasVarArgument || hasBadCoalesce)    *)
(* whenever MasterIrreducibleExpression returns true: a rejected expression *)
(* always carries the reason the caller reports, however the short-circuit  *)
(* of expression_tree_walker and the fresh child state of a STABLE node     *)
(* interleave.                                                              *)
IrreducibleHasReason == (analyzed /\ result) => (varArgument \/ badCoalesce)

(* The flags the caller acts on are set exactly for the expressions that    *)
(* have a CASE/COALESCE calling a mutable function or a STABLE function     *)
(* applied to a column on a path the walker descends.                       *)
FlagsMatchIrreducible ==
  analyzed => ((varArgument \/ badCoalesce) <=> Irreducible(expr))

(* Spec section 4.3: a STABLE function is irreducible when any of its       *)
(* children contains a column reference.  The walker returns at a CASE or   *)
(* COALESCE without recording the columns inside it, so                     *)
(* stable_f(COALESCE(col, 0)) is treated as reducible.                      *)
SpecIrreducible(e) ==
  \/ \E n \in Subexpressions(e) :
       n.kind \in {"Case", "Coalesce"} /\ ContainMutableFunctions(n)
  \/ \E n \in Subexpressions(e) :
       /\ n.kind = "Func" /\ n.volatility = "s"
       /\ \E m \in Subexpressions(n) : m.kind = "Var"

StableColumnArgumentRejected ==
  analyzed => ((varArgument \/ badCoalesce) <=> SpecIrreducible(expr))

=============================================================================
