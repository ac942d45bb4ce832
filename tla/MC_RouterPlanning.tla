------------------------- MODULE MC_RouterPlanning -------------------------
(***************************************************************************)
(* A catalog and statements for RouterPlanning.                            *)
(*   1: hash table with shards 11, 12     2: hash table with shard 21      *)
(*   3: reference table with shard 31     5: append table with shard 51    *)
(* Write statements on one or two tables (distributed or reference), with  *)
(* and without a CTE, a sublink or a volatile WHERE, on and off the        *)
(* coordinator, with a target list that                                    *)
(* keeps or changes the partition column; SELECTs over any one or two     *)
(* relation restrictions, with and without FOR UPDATE and modifying CTEs. *)
(* INSERT targets: a hash table with two or one (gapped) intervals, a     *)
(* reference table with one shard and one with none.                      *)
(***************************************************************************)
EXTENDS RouterPlanning, TLC

a1 == [name |-> "a", port |-> 1]
a2 == [name |-> "a", port |-> 2]
b1 == [name |-> "b", port |-> 1]

MCRelations == {1, 2, 3, 5}
MCPartitionMethod == (1 :> "hash") @@ (2 :> "hash") @@ (3 :> "none") @@ (5 :> "append")
MCShardsOf == (1 :> {11, 12}) @@ (2 :> {21}) @@ (3 :> {31}) @@ (5 :> {51})
MCNodes == {a1, a2, b1}
MCPlacementsOf == (11 :> {a1, b1}) @@ (12 :> {b1}) @@ (21 :> {a1, a2})
                  @@ (31 :> {a2, b1}) @@ (51 :> {a1})
MCMaxRefs == 2

MCValues == 1..2
MCHashOf == [v \in MCValues |-> (3 * v) % 4]
MCTables ==
  {[partitionMethod |-> "hash", intervals |-> <<[min |-> 0, max |-> 1], [min |-> 2, max |-> 3]>>],
   [partitionMethod |-> "hash", intervals |-> <<[min |-> 0, max |-> 1]>>],
   [partitionMethod |-> "none", intervals |-> <<[min |-> 0, max |-> 3]>>],
   [partitionMethod |-> "none", intervals |-> <<>>]}

MCCteCommands == {<<>>, <<"SELECT">>, <<"UPDATE">>, <<"SELECT", "INSERT">>}

-----------------------------------------------------------------------------
Dist == [rtekind |-> "relation", partitionMethod |-> "hash", relkind |-> "table"]
Ref == [rtekind |-> "relation", partitionMethod |-> "none", relkind |-> "table"]

TE(part, e) ==
  [resjunk |-> FALSE, onPartition |-> part, expr |-> e,
   varIsPartition |-> FALSE, impliedByWhere |-> FALSE]

Query(cmd, coord, cte, rtes, tl, ret, oc) ==
  [command |-> cmd, multiShardQuery |-> FALSE, isCoordinator |-> coord,
   hasSubLinks |-> FALSE, hasCte |-> cte, rtes |-> rtes, targetList |-> tl,
   where |-> NoExpr, returning |-> ret, onConflict |-> oc]

\* an UPDATE or DELETE with a sublink and a WHERE clause
WithWhere(q, sub, w) == [q EXCEPT !.hasSubLinks = sub, !.where = w]

Const == [kind |-> "Const", volatility |-> "none", args |-> <<>>]
NonConstValue == [kind |-> "Func", volatility |-> "s", args |-> <<Const>>]
VolatileCall == [kind |-> "Func", volatility |-> "v", args |-> <<>>]

WriteRangeTables == {<<Dist>>, <<Ref>>, <<Dist, Dist>>, <<Ref, Dist>>}

MCQueries ==
  {WithWhere(Query("UPDATE", coord, cte, rtes, tl, ret, NoExpr), sub, w) :
     coord \in BOOLEAN, cte \in BOOLEAN, rtes \in WriteRangeTables,
     tl \in {<<TE(FALSE, Const)>>, <<TE(TRUE, Const)>>}, ret \in {"none", "s"},
     sub \in BOOLEAN, w \in {NoExpr, VolatileCall}}
  \cup {WithWhere(Query("DELETE", coord, cte, rtes, <<>>, ret, NoExpr), sub, w) :
          coord \in BOOLEAN, cte \in BOOLEAN, rtes \in WriteRangeTables,
          ret \in {"none", "s"}, sub \in BOOLEAN, w \in {NoExpr, VolatileCall}}
  \cup {Query("INSERT", coord, cte, rtes, tl, "none", oc) :
          coord \in BOOLEAN, cte \in BOOLEAN, rtes \in {<<Dist>>, <<Ref>>},
          tl \in {<<>>, <<TE(TRUE, Const)>>, <<TE(TRUE, NonConstValue)>>},
          oc \in {NoExpr, [set |-> <<>>, arbiter |-> "none", where |-> "none"]}}

=============================================================================
