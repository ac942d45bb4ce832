-------------------------- MODULE ModifyValidation --------------------------
(***************************************************************************)
(* ModifyQuerySupported (multi_router_planner.c): the checks an INSERT,    *)
(* UPDATE or DELETE must pass before it is routed.  The statement is an    *)
(* input chosen in Init; each block of the function between two early      *)
(* returns is an action, each iteration of its three loops (range table,   *)
(* target list, ON CONFLICT SET list) is one step.  A statement is a record *)
(*   [command, multiShardQuery, isCoordinator, hasSubLinks, hasCte,        *)
(*    rtes, targetList, where, returning, onConflict]                      *)
(* whose expressions are trees of ExpressionWalker; RETURNING and the ON   *)
(* CONFLICT predicates matter only through the most mutable function they  *)
(* call, so they are a volatility class.                                   *)
(***************************************************************************)
EXTENDS ExpressionWalker, FiniteSets

CONSTANTS
  Queries,  \* the statements a model checks, a set of records as above
  NoExpr,   \* a missing WHERE clause or ON CONFLICT clause
  NoError   \* ModifyQuerySupported returned NULL

\* the volatility of the most mutable function in a clause, "none" if it
\* calls none; contain_mutable_functions holds for the last two
Volatilities == {"none", "i", "s", "v"}
Mutable(v) == v \in {"s", "v"}

RangeTableEntries ==
  [rtekind : {"relation"}, partitionMethod : {"hash", "none"}, relkind : {"table", "view"}]
  \cup [rtekind : {"values", "subquery", "join", "function"}]

\* a target entry; varIsPartition and impliedByWhere describe a Var or a
\* Const expression (the column it reads, predicate_implied_by's answer)
TargetEntries(exprs) ==
  [resjunk : BOOLEAN, onPartition : BOOLEAN, expr : exprs,
   varIsPartition : BOOLEAN, impliedByWhere : BOOLEAN]

ConflictSetEntries ==
  [onPartition : BOOLEAN, isVar : BOOLEAN, varIsPartition : BOOLEAN,
   volatility : Volatilities]

Errors ==
  {"SubqueryInModification", "CommonTableExpression",
   "ReferenceModificationOffCoordinator", "ModifyView",
   "UnsupportedRangeTableEntry", "JoinInModification", "MultiRowInsert",
   "VolatileInUpdate", "VolatileInWhere", "StableFunctionWithColumn",
   "MutableInConditional", "MutableInReturning", "MutableInConflictSet",
   "MutableInConflictWhere", "PartitionValueChange"}

VARIABLES
  query,                   \* the statement being validated
  pc,                      \* the block of ModifyQuerySupported to run next
  pos,                     \* the loop's current list cell
  queryTableCount,
  hasValuesScan,
  specifiesPartitionValue,
  hasVarArgument,
  hasBadCoalesce,
  error                    \* NoError, or the DeferredError returned

vars == <<query, pc, pos, queryTableCount, hasValuesScan,
          specifiesPartitionValue, hasVarArgument, hasBadCoalesce, error>>

-----------------------------------------------------------------------------
\* Fault: DELETE is not recognised as a modification with a WHERE clause.
UpdateQueryOnly == query.command = "UPDATE"

UpdateOrDeleteQuery == query.command \in {"UPDATE", "DELETE"}

\* ExtractFirstDistributedTableId: the range table entries in walk order,
\* the first relation that is a distributed table (a view is not), or
\* InvalidOid (0) when there is none
ExtractFirstDistributedTableId(rtes) ==
  LET dist == {i \in DOMAIN rtes : rtes[i].rtekind = "relation" /\ rtes[i].relkind = "table"}
  IN IF dist = {} THEN 0 ELSE CHOOSE i \in dist : \A j \in dist : i <= j

\* PartitionColumn(ExtractFirstDistributedTableId(...), 1): NULL for a
\* reference table
HasPartitionColumn ==
  LET t == ExtractFirstDistributedTableId(query.rtes)
  IN t # 0 /\ query.rtes[t].partitionMethod # "none"

\* TargetEntryChangesValue: SET col = col and SET col = <x> WHERE col = <x>
\* leave the partition column as it is, anything else may change it
TargetEntryChangesValue(te) ==
  /\ te.onPartition
  /\ te.expr.kind = "Var" => ~te.varIsPartition
  /\ te.expr.kind = "Const" => ~te.impliedByWhere

\* what PostgreSQL's parser can hand over: the result relation first, one
\* entry per assigned column, no target list for DELETE, ON CONFLICT and a
\* VALUES scan only for INSERT, predicate_implied_by only with a WHERE
WellFormed(q) ==
  LET nonJunk == {i \in DOMAIN q.targetList : ~q.targetList[i].resjunk}
  IN /\ q.rtes[1].rtekind = "relation" /\ q.rtes[1].relkind = "table"
     /\ q.command = "DELETE" => q.targetList = <<>>
     /\ q.command = "INSERT" => \A i \in DOMAIN q.targetList : ~q.targetList[i].resjunk
     /\ q.command # "INSERT" =>
          /\ q.onConflict = NoExpr
          /\ \A i \in DOMAIN q.rtes : q.rtes[i].rtekind # "values"
     /\ \A i, j \in nonJunk :
          q.targetList[i].onPartition /\ q.targetList[j].onPartition => i = j
     /\ \A i \in DOMAIN q.targetList :
          LET te == q.targetList[i]
          IN /\ te.onPartition => q.rtes[1].partitionMethod # "none"
             /\ te.varIsPartition => te.expr.kind = "Var"
             /\ te.impliedByWhere => te.expr.kind = "Const" /\ q.where # NoExpr
     /\ q.onConflict # NoExpr =>
          LET set == q.onConflict.set
          IN /\ \A i, j \in DOMAIN set : set[i].onPartition /\ set[j].onPartition => i = j
             /\ \A i \in DOMAIN set :
                  /\ set[i].onPartition => q.rtes[1].partitionMethod # "none"
                  /\ set[i].varIsPartition => set[i].isVar
                  /\ set[i].isVar => set[i].volatility = "none"

Reject(e) == /\ error' = e /\ pc' = "done"

Init ==
  /\ query \in {q \in Queries : WellFormed(q)}
  /\ pc = "sublinks"
  /\ pos = 1
  /\ queryTableCount = 0
  /\ hasValuesScan = FALSE
  /\ specifiesPartitionValue = FALSE
  /\ hasVarArgument = FALSE
  /\ hasBadCoalesce = FALSE
  /\ error = NoError

\* subqueries in SELECT or WHERE, and common table expressions
CheckSubLinksAndCte ==
  /\ pc = "sublinks"
  /\ \/ /\ query.hasSubLinks
        /\ ~UpdateOrDeleteQuery \/ query.multiShardQuery
        /\ Reject("SubqueryInModification")
     \/ /\ ~(query.hasSubLinks /\ (~UpdateOrDeleteQuery \/ query.multiShardQuery))
        /\ query.hasCte
        /\ Reject("CommonTableExpression")
     \/ /\ ~(query.hasSubLinks /\ (~UpdateOrDeleteQuery \/ query.multiShardQuery))
        /\ ~query.hasCte
        /\ pc' = "rte"
        /\ UNCHANGED error
  /\ UNCHANGED <<query, pos, queryTableCount, hasValuesScan, specifiesPartitionValue,
                 hasVarArgument, hasBadCoalesce>>

\* one iteration of the loop over the range table entries
RangeTableEntryStep ==
  /\ pc = "rte"
  /\ pos <= Len(query.rtes)
  /\ LET rte == query.rtes[pos]
     IN \/ /\ rte.rtekind = "relation"
           /\ rte.partitionMethod = "none" /\ ~query.isCoordinator
           /\ Reject("ReferenceModificationOffCoordinator")
           /\ UNCHANGED <<pos, queryTableCount, hasValuesScan>>
        \/ /\ rte.rtekind = "relation"
           /\ ~(rte.partitionMethod = "none" /\ ~query.isCoordinator)
           /\ queryTableCount' = queryTableCount + 1
           /\ IF rte.relkind = "view"
              THEN Reject("ModifyView") /\ UNCHANGED pos
              ELSE pos' = pos + 1 /\ UNCHANGED <<pc, error>>
           /\ UNCHANGED hasValuesScan
        \/ /\ rte.rtekind = "values"
           /\ hasValuesScan' = TRUE
           /\ pos' = pos + 1
           /\ UNCHANGED <<pc, error, queryTableCount>>
        \/ /\ rte.rtekind \notin {"relation", "values"}
           /\ IF UpdateOrDeleteQuery /\ ~query.multiShardQuery
              THEN pos' = pos + 1 /\ UNCHANGED <<pc, error>>
              ELSE Reject("UnsupportedRangeTableEntry") /\ UNCHANGED pos
           /\ UNCHANGED <<queryTableCount, hasValuesScan>>
  /\ UNCHANGED <<query, specifiesPartitionValue, hasVarArgument, hasBadCoalesce>>

\* after the loop: joins outside single-shard UPDATE/DELETE, multi-row
\* INSERTs
CheckJoinsAndValues ==
  /\ pc = "rte"
  /\ pos > Len(query.rtes)
  /\ LET joined == /\ query.command # "INSERT" /\ queryTableCount # 1
                   /\ ~UpdateOrDeleteQuery \/ query.multiShardQuery
     IN \/ joined /\ Reject("JoinInModification")
        \/ ~joined /\ hasValuesScan /\ Reject("MultiRowInsert")
        \/ ~joined /\ ~hasValuesScan /\ pc' = "targets" /\ UNCHANGED error
  /\ pos' = 1
  /\ UNCHANGED <<query, queryTableCount, hasValuesScan, specifiesPartitionValue,
                 hasVarArgument, hasBadCoalesce>>

\* one iteration of the loop over the target list
TargetEntryStep ==
  /\ pc = "targets"
  /\ pos <= Len(query.targetList)
  /\ LET te == query.targetList[pos]
         update == query.command = "UPDATE"
         r == MasterIrreducibleExpression(te.expr, hasVarArgument, hasBadCoalesce)
     IN \/ /\ te.resjunk
           /\ UNCHANGED <<specifiesPartitionValue, hasVarArgument, hasBadCoalesce, error, pc>>
        \/ /\ ~te.resjunk
           /\ update /\ ContainVolatileFunctions(te.expr)
           /\ Reject("VolatileInUpdate")
           /\ UNCHANGED <<specifiesPartitionValue, hasVarArgument, hasBadCoalesce>>
        \/ /\ ~te.resjunk
           /\ ~(update /\ ContainVolatileFunctions(te.expr))
           /\ specifiesPartitionValue' =
                (specifiesPartitionValue \/ (update /\ HasPartitionColumn
                                                    /\ TargetEntryChangesValue(te)))
           /\ hasVarArgument' = IF update THEN r.varArgument ELSE hasVarArgument
           /\ hasBadCoalesce' = IF update THEN r.badCoalesce ELSE hasBadCoalesce
           /\ UNCHANGED <<error, pc>>
  /\ pos' = pos + 1
  /\ UNCHANGED <<query, queryTableCount, hasValuesScan>>

\* after the loop: the WHERE clause, then the flags the walker gathered,
\* then RETURNING
CheckWhereAndReturning ==
  /\ pc = "targets"
  /\ pos > Len(query.targetList)
  /\ LET quals == query.where
         volatileWhere == quals # NoExpr /\ ContainVolatileFunctions(quals)
         r == IF quals = NoExpr
              THEN [varArgument |-> hasVarArgument, badCoalesce |-> hasBadCoalesce]
              ELSE MasterIrreducibleExpression(quals, hasVarArgument, hasBadCoalesce)
     IN IF volatileWhere
        THEN Reject("VolatileInWhere") /\ UNCHANGED <<hasVarArgument, hasBadCoalesce>>
        ELSE /\ hasVarArgument' = r.varArgument
             /\ hasBadCoalesce' = r.badCoalesce
             /\ CASE r.varArgument -> Reject("StableFunctionWithColumn")
                  [] r.badCoalesce -> Reject("MutableInConditional")
                  [] Mutable(query.returning) -> Reject("MutableInReturning")
                  [] OTHER -> pc' = "conflict" /\ UNCHANGED error
  /\ pos' = 1
  /\ UNCHANGED <<query, queryTableCount, hasValuesScan, specifiesPartitionValue>>

\* the ON CONFLICT DO UPDATE SET list of an INSERT, empty otherwise
OnConflictSet ==
  IF query.command = "INSERT" /\ query.onConflict # NoExpr
  THEN query.onConflict.set ELSE <<>>

\* one iteration of the loop over the ON CONFLICT SET list
OnConflictSetStep ==
  /\ pc = "conflict"
  /\ pos <= Len(OnConflictSet)
  /\ LET te == OnConflictSet[pos]
     IN \/ /\ HasPartitionColumn /\ te.onPartition
           /\ specifiesPartitionValue' = ~(te.isVar /\ te.varIsPartition)
           /\ UNCHANGED <<pc, error>>
        \/ /\ ~(HasPartitionColumn /\ te.onPartition)
           /\ IF ~te.isVar /\ Mutable(te.volatility)
              THEN Reject("MutableInConflictSet")
              ELSE UNCHANGED <<pc, error>>
           /\ UNCHANGED specifiesPartitionValue
  /\ pos' = pos + 1
  /\ UNCHANGED <<query, queryTableCount, hasValuesScan, hasVarArgument, hasBadCoalesce>>

\* after the loop: the ON CONFLICT predicates, then the partition value
CheckConflictWhereAndPartition ==
  /\ pc = "conflict"
  /\ pos > Len(OnConflictSet)
  /\ LET oc == IF query.command = "INSERT" THEN query.onConflict ELSE NoExpr
         mutableWhere == oc # NoExpr /\ (Mutable(oc.arbiter) \/ Mutable(oc.where))
     IN CASE mutableWhere -> Reject("MutableInConflictWhere")
          [] specifiesPartitionValue -> Reject("PartitionValueChange")
          [] OTHER -> pc' = "done" /\ UNCHANGED error
  /\ UNCHANGED <<query, pos, queryTableCount, hasValuesScan, specifiesPartitionValue,
                 hasVarArgument, hasBadCoalesce>>

Next ==
  \/ CheckSubLinksAndCte
  \/ RangeTableEntryStep
  \/ CheckJoinsAndValues
  \/ TargetEntryStep
  \/ CheckWhereAndReturning
  \/ OnConflictSetStep
  \/ CheckConflictWhereAndPartition

Spec == Init /\ [][Next]_vars /\ WF_vars(Next)

-----------------------------------------------------------------------------
(* Properties                                                              *)

\* the rules ModifyQuerySupported enforces, stated over the whole
\* statement: every range table entry, every target entry, WHERE,
\* RETURNING and the ON CONFLICT clause at once
Supported(q) ==
  LET singleShardModify == q.command \in {"UPDATE", "DELETE"} /\ ~q.multiShardQuery
      relations == {i \in DOMAIN q.rtes : q.rtes[i].rtekind = "relation"}
      updated == IF q.command = "UPDATE"
                 THEN {q.targetList[i].expr : i \in {j \in DOMAIN q.targetList :
                                                       ~q.targetList[j].resjunk}}
                 ELSE {}
      walked == updated \cup (IF q.where = NoExpr THEN {} ELSE {q.where})
      set == IF q.command = "INSERT" /\ q.onConflict # NoExpr THEN q.onConflict.set ELSE <<>>
      partitioned == q.rtes[1].partitionMethod # "none"
  IN /\ q.hasSubLinks => singleShardModify
     /\ ~q.hasCte
     /\ \A i \in relations :
          /\ q.rtes[i].partitionMethod = "none" => q.isCoordinator
          /\ q.rtes[i].relkind # "view"
     /\ \A i \in DOMAIN q.rtes :
          q.rtes[i].rtekind \notin {"relation", "values"} => singleShardModify
     /\ q.command # "INSERT" /\ Cardinality(relations) # 1 => singleShardModify
     /\ \A i \in DOMAIN q.rtes : q.rtes[i].rtekind # "values"
     /\ \A e \in walked : ~ContainVolatileFunctions(e) /\ ~Irreducible(e)
     /\ ~Mutable(q.returning)
     /\ \A i \in DOMAIN set :
          ~(partitioned /\ set[i].onPartition) /\ ~set[i].isVar => ~Mutable(set[i].volatility)
     /\ q.command = "INSERT" /\ q.onConflict # NoExpr =>
          ~Mutable(q.onConflict.arbiter) /\ ~Mutable(q.onConflict.where)
     /\ q.command = "UPDATE" =>
          \A i \in DOMAIN q.targetList :
            ~q.targetList[i].resjunk => ~TargetEntryChangesValue(q.targetList[i])
     /\ \A i \in DOMAIN set :
          set[i].onPartition => set[i].isVar /\ set[i].varIsPartition

(* ModifyQuerySupported accepts a statement exactly when every rule holds   *)
(* of it: no early return skips a check that a later entry of a loop, the  *)
(* WHERE clause or the ON CONFLICT clause would fail, and the walker flags *)
(* gathered over all UPDATE target entries and WHERE are not lost between  *)
(* the calls that set them and the checks that read them.                  *)
AcceptsExactlySupported ==
  pc = "done" => (error = NoError <=> Supported(query))

(* Spec section 4.2: a statement is rejected off the coordinator when the  *)
(* reference table is the target it modifies.  The range table loop       *)
(* rejects any reference table the statement reads, e.g. in UPDATE ...    *)
(* FROM reference_table.                                                   *)
ReferenceRejectionNeedsReferenceTarget ==
  pc = "done" /\ error = "ReferenceModificationOffCoordinator"
    => query.rtes[1].partitionMethod = "none"

=============================================================================
