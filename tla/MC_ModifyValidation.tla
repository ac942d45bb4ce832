------------------------ MODULE MC_ModifyValidation ------------------------
(***************************************************************************)
(* Statements for ModifyValidation.  ShapeQueries varies what the range    *)
(* table loop and the command-level checks read (command, callers'         *)
(* multi-shard flag, coordinator, sublinks, CTEs, range table entries)     *)
(* over simple expressions; ExpressionQueries varies the target list,      *)
(* WHERE, RETURNING and ON CONFLICT over a one-table statement.            *)
(***************************************************************************)
EXTENDS ModifyValidation

Func(v, a) == [kind |-> "Func", volatility |-> v, args |-> <<a>>]
Coalesce(a) == [kind |-> "Coalesce", volatility |-> "none", args |-> <<a>>]

Dist == [rtekind |-> "relation", partitionMethod |-> "hash", relkind |-> "table"]
Ref == [rtekind |-> "relation", partitionMethod |-> "none", relkind |-> "table"]
View == [rtekind |-> "relation", partitionMethod |-> "hash", relkind |-> "view"]
Other(k) == [rtekind |-> k]

TE(junk, part, e, varPart, implied) ==
  [resjunk |-> junk, onPartition |-> part, expr |-> e,
   varIsPartition |-> varPart, impliedByWhere |-> implied]

CS(part, isVar, varPart, vol) ==
  [onPartition |-> part, isVar |-> isVar, varIsPartition |-> varPart, volatility |-> vol]

Query(cmd, multi, coord, sub, cte, rtes, tl, where, ret, oc) ==
  [command |-> cmd, multiShardQuery |-> multi, isCoordinator |-> coord,
   hasSubLinks |-> sub, hasCte |-> cte, rtes |-> rtes, targetList |-> tl,
   where |-> where, returning |-> ret, onConflict |-> oc]

SeqsUpTo2(S) == {<<>>} \cup {<<a>> : a \in S} \cup {<<a, b>> : a, b \in S}

-----------------------------------------------------------------------------
ShapeRangeTables ==
  {<<f>> : f \in {Dist, Ref}}
  \cup {<<f, s>> : f \in {Dist, Ref},
                   s \in {Dist, Ref, View} \cup {Other(k) : k \in {"values", "subquery", "join", "function"}}}
  \cup {<<Dist, s, Other("join")>> : s \in {Dist, Ref}}

ShapeQueries ==
  {Query(cmd, multi, coord, sub, cte, rtes, tl, where, "none", NoExpr) :
     cmd \in {"INSERT", "UPDATE", "DELETE"}, multi \in BOOLEAN, coord \in BOOLEAN,
     sub \in BOOLEAN, cte \in BOOLEAN, rtes \in ShapeRangeTables,
     tl \in {<<>>, <<TE(FALSE, FALSE, Const, FALSE, FALSE)>>},
     where \in {NoExpr, Const}}

-----------------------------------------------------------------------------
\* non-partition target expressions the walker tells apart
TargetExprs ==
  {Var, Const, Func("i", Var), Func("s", Const), Func("s", Var), Func("v", Const),
   Coalesce(Func("s", Const)), Func("s", Coalesce(Var))}

UpdateTargetEntries ==
  {TE(TRUE, FALSE, Const, FALSE, FALSE)}
  \cup {TE(FALSE, FALSE, e, FALSE, FALSE) : e \in TargetExprs}
  \cup {TE(FALSE, TRUE, Var, vp, FALSE) : vp \in BOOLEAN}
  \cup {TE(FALSE, TRUE, Const, FALSE, im) : im \in BOOLEAN}
  \cup {TE(FALSE, TRUE, Func("s", Var), FALSE, FALSE)}

WhereExprs == {NoExpr, Const, Func("v", Var), Func("s", Var), Coalesce(Func("s", Const))}

ConflictSets ==
  SeqsUpTo2({CS(TRUE, TRUE, TRUE, "none"), CS(TRUE, FALSE, FALSE, "i"),
             CS(FALSE, TRUE, FALSE, "none"), CS(FALSE, FALSE, FALSE, "s"),
             CS(FALSE, FALSE, FALSE, "v")})

OnConflicts ==
  {NoExpr} \cup [set : ConflictSets, arbiter : {"none", "s"}, where : {"none", "v"}]

ExpressionQueries ==
  {Query("UPDATE", FALSE, TRUE, FALSE, FALSE, rtes, tl, where, ret, NoExpr) :
     rtes \in {<<Dist>>, <<Ref>>}, tl \in SeqsUpTo2(UpdateTargetEntries),
     where \in WhereExprs, ret \in Volatilities}
  \cup {Query("DELETE", FALSE, TRUE, FALSE, FALSE, rtes, <<>>, where, ret, NoExpr) :
          rtes \in {<<Dist>>, <<Ref>>}, where \in WhereExprs, ret \in Volatilities}
  \cup {Query("INSERT", FALSE, TRUE, FALSE, FALSE, rtes, tl, NoExpr, ret, oc) :
          rtes \in {<<Dist>>, <<Ref>>},
          tl \in {<<>>, <<TE(FALSE, TRUE, Const, FALSE, FALSE)>>,
                  <<TE(FALSE, FALSE, Func("v", Const), FALSE, FALSE)>>},
          ret \in Volatilities, oc \in OnConflicts}

AllQueries == ShapeQueries \cup ExpressionQueries

=============================================================================
