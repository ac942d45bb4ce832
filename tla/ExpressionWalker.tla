--------------------------- MODULE ExpressionWalker ---------------------------
(***************************************************************************)
(* MasterIrreducibleExpression and its walker (multi_router_planner.c):    *)
(* whether an expression of a modification can be evaluated once on the   *)
(* coordinator.  An expression is a tree of nodes [kind, volatility, args]: *)
(* "Var" (a column), "Const", "Func" (a node calling one function, of      *)
(* volatility "i" immutable, "s" stable or "v" volatile), "Coalesce" and   *)
(* "Case".  Pure operators, used by ExpressionReducibility and by          *)
(* ModifyValidation.                                                       *)
(***************************************************************************)
EXTENDS Integers, Sequences

Leaf(k) == [kind |-> k, volatility |-> "none", args |-> <<>>]
Var == Leaf("Var")
Const == Leaf("Const")

\* expression trees of the given depth whose functions have the given
\* volatilities, with one or, if binary, two arguments per node
RECURSIVE Exprs(_, _, _)
Exprs(depth, vols, binary) ==
  IF depth = 0 THEN {Var, Const}
  ELSE LET sub == Exprs(depth - 1, vols, binary)
           argLists == {<<a>> : a \in sub} \cup
                       IF binary THEN {<<a, b>> : a, b \in sub} ELSE {}
       IN {Var, Const}
          \cup {[kind |-> "Func", volatility |-> v, args |-> as] : v \in vols, as \in argLists}
          \cup {[kind |-> k, volatility |-> "none", args |-> as] :
                  k \in {"Coalesce", "Case"}, as \in argLists}

\* contain_mutable_functions (PostgreSQL): a function that is not immutable
\* anywhere in the tree
RECURSIVE ContainMutableFunctions(_)
ContainMutableFunctions(e) ==
  \/ e.kind = "Func" /\ e.volatility # "i"
  \/ \E i \in DOMAIN e.args : ContainMutableFunctions(e.args[i])

ArgsContainMutableFunctions(e) ==
  \E i \in DOMAIN e.args : ContainMutableFunctions(e.args[i])

\* MasterIrreducibleExpressionFunctionChecker: fold one function's
\* volatility into the running flag, volatile above stable above immutable
MasterIrreducibleExpressionFunctionChecker(funcVolatility, volatileContext) ==
  IF funcVolatility = "v" \/ volatileContext = "v" THEN "v"
  ELSE IF funcVolatility = "s" \/ volatileContext = "s" THEN "s"
  ELSE "i"

\* check_functions_in_node: the flag after checking the node's own function
NodeVolatileFlag(e) ==
  IF e.kind = "Func"
  THEN MasterIrreducibleExpressionFunctionChecker(e.volatility, "none")
  ELSE "none"

NoWalkerState == [containsVar |-> FALSE, varArgument |-> FALSE, badCoalesce |-> FALSE]

\* expression_tree_walker: the children in order, stopping at the first
\* one for which the walker returns true
RECURSIVE ExpressionTreeWalker(_, _)

\* MasterIrreducibleExpressionWalker: [result, state] after walking e
RECURSIVE MasterIrreducibleExpressionWalker(_, _)

ExpressionTreeWalker(args, state) ==
  IF args = <<>> THEN [result |-> FALSE, state |-> state]
  ELSE LET r == MasterIrreducibleExpressionWalker(Head(args), state)
       IN IF r.result THEN r ELSE ExpressionTreeWalker(Tail(args), r.state)

\* Fault: the children of a non-stable node are walked with a fresh state.
FreshStateWalker(args, state) ==
  LET r == ExpressionTreeWalker(args, NoWalkerState)
  IN [result |-> r.result,
      state |-> [state EXCEPT !.varArgument = @ \/ r.state.varArgument,
                              !.badCoalesce = @ \/ r.state.badCoalesce]]

\* Fault: the stable branch drops the child's badCoalesce.
StableChildFlagsNoCoalesce(state, child) ==
  [state EXCEPT !.varArgument = @ \/ child.containsVar \/ child.varArgument]

\* the flags a STABLE node takes over from the walk of its children
StableChildFlags(state, child) ==
  [state EXCEPT !.varArgument = @ \/ child.containsVar \/ child.varArgument,
                !.badCoalesce = @ \/ child.badCoalesce]

\* the walk of the children of a node that is not STABLE
ImmutableChildrenWalk(args, state) == ExpressionTreeWalker(args, state)

MasterIrreducibleExpressionWalker(e, state) ==
  CASE e.kind = "Coalesce" ->
         IF ArgsContainMutableFunctions(e)
         THEN [result |-> TRUE, state |-> [state EXCEPT !.badCoalesce = TRUE]]
         ELSE [result |-> FALSE, state |-> state]
    [] e.kind = "Case" ->
         IF ContainMutableFunctions(e)
         THEN [result |-> TRUE, state |-> [state EXCEPT !.badCoalesce = TRUE]]
         ELSE [result |-> FALSE, state |-> state]
    [] e.kind = "Var" ->
         [result |-> FALSE, state |-> [state EXCEPT !.containsVar = TRUE]]
    [] NodeVolatileFlag(e) = "s" ->
         LET child == ExpressionTreeWalker(e.args, NoWalkerState)
         IN [result |-> child.result \/ child.state.containsVar,
             state |-> StableChildFlags(state, child.state)]
    [] OTHER -> ImmutableChildrenWalk(e.args, state)

\* MasterIrreducibleExpression: walk with a fresh state and OR the flags
\* into the caller's
\* Fault: the flags the caller passes in are overwritten, not or-ed into.
MasterIrreducibleExpressionOverwrite(e, varArg, badCoal) ==
  LET r == MasterIrreducibleExpressionWalker(e, NoWalkerState)
  IN [result |-> r.result,
      varArgument |-> r.state.varArgument,
      badCoalesce |-> r.state.badCoalesce]

MasterIrreducibleExpression(e, varArg, badCoal) ==
  LET r == MasterIrreducibleExpressionWalker(e, NoWalkerState)
  IN [result |-> r.result,
      varArgument |-> varArg \/ r.state.varArgument,
      badCoalesce |-> badCoal \/ r.state.badCoalesce]

\* contain_volatile_functions (PostgreSQL): a volatile function anywhere
RECURSIVE ContainVolatileFunctions(_)
ContainVolatileFunctions(e) ==
  \/ e.kind = "Func" /\ e.volatility = "v"
  \/ \E i \in DOMAIN e.args : ContainVolatileFunctions(e.args[i])

RECURSIVE Subexpressions(_)
Subexpressions(e) ==
  {e} \cup UNION {Subexpressions(e.args[i]) : i \in DOMAIN e.args}

\* the nodes the walker can reach: it never looks inside CASE or COALESCE
RECURSIVE WalkedNodes(_)
WalkedNodes(e) ==
  IF e.kind \in {"Case", "Coalesce"} THEN {e}
  ELSE {e} \cup UNION {WalkedNodes(e.args[i]) : i \in DOMAIN e.args}

\* what the walker decides: a CASE/COALESCE calling a mutable function, or
\* a STABLE function with a column below it on a walked path
Irreducible(e) ==
  \/ \E n \in WalkedNodes(e) :
       n.kind \in {"Case", "Coalesce"} /\ ContainMutableFunctions(n)
  \/ \E n \in WalkedNodes(e) :
       /\ n.kind = "Func" /\ n.volatility = "s"
       /\ \E m \in WalkedNodes(n) : m.kind = "Var"

=============================================================================
