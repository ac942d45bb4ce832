--------------------------- MODULE ShardRestriction ---------------------------
(***************************************************************************)
(* AddShardIntervalRestrictionToSelect and ShardIntervalOpExpressions      *)
(* (multi_router_planner.c), the restrictions INSERT ... SELECT planning   *)
(* puts on the SELECT it sends to each shard of a hash-distributed table.  *)
(* The caller copies the subquery once per shard interval and calls        *)
(* AddShardIntervalRestrictionToSelect on each copy; one behaviour is that *)
(* loop over the table's sorted intervals.  The rows the SELECT reads are  *)
(* a small set, each with its partition key (possibly NULL) and another    *)
(* column; WHERE is kept only as its SQL truth value on each row.          *)
(*                                                                         *)
(* For each shard the caller also copies the SELECT's relation            *)
(* restriction context (CopyRelationRestrictionContext), adds the shard's  *)
(* ShardIntervalOpExpressions to each copied baserestrictinfo and prunes   *)
(* the copy (the restriction loop of TargetShardIntervalsForRouter).  The  *)
(* contexts live on a small heap: restriction structs, RelOptInfos and     *)
(* RestrictInfo lists are sequences indexed by address, so a shallow copy  *)
(* shares an address and a deep copy allocates one.  The SELECT reads one  *)
(* hash table (possibly several times), colocated with the target.         *)
(***************************************************************************)
EXTENDS Integers, Sequences, FiniteSets

CONSTANTS
  Rows,          \* the rows the subquery reads
  Values,        \* non-NULL partition column values
  Null,          \* the SQL NULL
  Unknown,       \* the third truth value of SQL
  HashOf,        \* worker_hash on the column's type, Values -> Int
  ExprOf,        \* an expression over the partition column, Values -> Values
  IntervalLists, \* sorted hash shard interval arrays of the table
  TargetLists,   \* target lists, sequences over TargetEntryKinds
  NoWhere,       \* jointree->quals = NULL
  NoVar,
  NoError,
  MaxRestrictions  \* bound on the relation restrictions of the SELECT

\* a target entry: the partition column as a Var, another column, or an
\* expression over the partition column (IsPartitionColumn holds, no Var)
TargetEntryKinds == {"partVar", "otherVar", "partExpr"}
Truth == {TRUE, FALSE, Unknown}

VARIABLES
  intervals, targetList, key, other, where, hashProc,   \* inputs
  shard,       \* the interval the caller is restricting to
  pc,          \* "find", "bounds", "next" or "done"
  teIdx,       \* the target entry the foreach is at
  partVar,     \* targetPartitionColumnVar
  quals,       \* jointree->quals of each shard's copy: a set of conjuncts,
               \* WhereQual and the bounds on a column
  error,       \* ereport(ERROR) raised by a call
  nRestrictions, \* length of the original relationRestrictionList (input)
  structs,     \* RelationRestriction heap: [relOptInfo, prunedShardIntervalList]
  relOpts,     \* RelOptInfo heap: [baserestrictinfo |-> list address or NIL]
  lists,       \* RestrictInfo list heap: the set of RestrictInfos of each list
  copies,      \* shard -> the restriction addresses of that shard's copy
  cidx         \* the restriction the copy, extend or prune loop is at

inputs == <<intervals, targetList, key, other, where, hashProc, nRestrictions>>
heap == <<structs, relOpts, lists, copies, cidx>>
vars == <<inputs, shard, pc, teIdx, partVar, quals, error, heap>>

-----------------------------------------------------------------------------
\* the WHERE clause of the subquery before any restriction is added
WhereQual == [column |-> "where", min |-> 0, max |-> 0]

OriginalQuals == IF where = NoWhere THEN {} ELSE {WhereQual}

\* the list address NIL; the heaps' addresses start at 1
NIL == 0

\* a RestrictInfo wrapping a clause; the WHERE clause as pushed down to
\* the relation is a clause PruneShards cannot use
RestrictInfo(c) == [clause |-> c, pseudoconstant |-> FALSE]
WhereClause == [column |-> "where", bounded |-> FALSE, min |-> 0, max |-> 0]

\* the original context: restriction k owns RelOptInfo k and list k, whose
\* baserestrictinfo is NIL without a WHERE clause
OriginalContext == [k \in 1..nRestrictions |-> k]

Init ==
  /\ intervals \in IntervalLists
  /\ targetList \in TargetLists
  /\ key \in [Rows -> Values \cup {Null}]
  /\ other \in [Rows -> Values]
  /\ where \in {NoWhere} \cup [Rows -> Truth]
  /\ hashProc \in BOOLEAN
  /\ shard = 1
  /\ pc = "find"
  /\ teIdx = 1
  /\ partVar = NoVar
  /\ quals = [s \in 1..Len(intervals) |-> OriginalQuals]
  /\ error = NoError
  /\ nRestrictions \in 1..MaxRestrictions
  /\ structs = [k \in 1..nRestrictions |-> [relOptInfo |-> k, pruned |-> {}]]
  /\ relOpts = [k \in 1..nRestrictions |-> [baserestrictinfo |-> IF where = NoWhere THEN NIL ELSE k]]
  /\ lists = IF where = NoWhere THEN <<>> ELSE [k \in 1..nRestrictions |-> {RestrictInfo(WhereClause)}]
  /\ copies = [s \in 1..Len(intervals) |-> <<>>]
  /\ cidx = 1

\* Fault: the first Var of the target list, partition column or not.
IsAnyColumnVar(e) == e \in {"partVar", "otherVar"}

\* IsPartitionColumn(targetEntry->expr, subqery) && IsA(targetEntry->expr, Var)
IsPartitionColumnVar(e) == e = "partVar"

\* one iteration of the foreach over the target list, with its break; the
\* caller guarantees a partition column Var (the Assert after the loop)
FindPartitionColumnStep ==
  /\ pc = "find"
  /\ IF IsPartitionColumnVar(targetList[teIdx])
     THEN partVar' = teIdx /\ pc' = "bounds" /\ UNCHANGED teIdx
     ELSE teIdx' = teIdx + 1 /\ UNCHANGED <<partVar, pc>>
  /\ UNCHANGED <<inputs, shard, quals, error, heap>>

\* hashfunc(partCol) >= minValue AND hashfunc(partCol) <= maxValue
Bounds(var, interval) == [column |-> targetList[var], min |-> interval.min, max |-> interval.max]

\* Fault: the shard's bounds replace the subquery's WHERE clause.
ReplaceQual(q, b) == {b}

\* the end of the function: a NULL jointree->quals becomes the bounds,
\* otherwise make_and_qual conjoins them
AndQual(q, b) == IF q = {} THEN {b} ELSE q \cup {b}

\* the hash function lookup and the quals added to this shard's copy
AddShardBounds ==
  /\ pc = "bounds"
  /\ \/ /\ ~hashProc
        /\ error' = "UndefinedHashFunction"
        /\ pc' = "done"
        /\ UNCHANGED quals
     \/ /\ hashProc
        /\ quals' = [quals EXCEPT ![shard] = AndQual(quals[shard], Bounds(partVar, intervals[shard]))]
        /\ pc' = "copy"
        /\ UNCHANGED error
  /\ UNCHANGED <<inputs, shard, teIdx, partVar, heap>>

\* the caller's loop (outside this file) moves to the next shard interval
CallerNextShard ==
  /\ pc = "next"
  /\ IF shard < Len(intervals)
     THEN shard' = shard + 1 /\ teIdx' = 1 /\ partVar' = NoVar /\ pc' = "find"
     ELSE pc' = "done" /\ UNCHANGED <<shard, teIdx, partVar>>
  /\ UNCHANGED <<inputs, quals, error, heap>>

TypeOK ==
  /\ pc \in {"find", "bounds", "copy", "extend", "prune", "next", "done"}
  /\ shard \in 1..Len(intervals)
  /\ teIdx \in 1..Len(targetList)
  /\ partVar \in {NoVar} \cup 1..Len(targetList)
  /\ DOMAIN quals = 1..Len(intervals)
  \* a bound is hashfunc(partCol), on the table's partition column Var
  /\ \A s \in DOMAIN quals :
       quals[s] \subseteq {WhereQual} \cup [column : {"partVar"}, min : Int, max : Int]
  /\ error \in {NoError, "UndefinedHashFunction", "MultiShardQuery"}
  /\ cidx \in 1..nRestrictions
  /\ \A s \in DOMAIN copies : Len(copies[s]) <= nRestrictions
  /\ \A a \in DOMAIN structs : structs[a].relOptInfo \in DOMAIN relOpts
  /\ \A o \in DOMAIN relOpts : relOpts[o].baserestrictinfo \in {NIL} \cup DOMAIN lists

\* ShardIntervalOpExpressions: the constraint pruning puts on a shard, on
\* the hashed value (MakeInt4Column) for a hash table and on the partition
\* column otherwise; UpdateConstraint sets its bounds only when both of the
\* interval's boundaries exist
ShardIntervalOpExpressions(interval, method) ==
  IF method \in {"hash", "range", "append"}
  THEN [column |-> IF method = "hash" THEN "hashed" ELSE "partition",
        bounded |-> interval.bounded, min |-> interval.min, max |-> interval.max]
  ELSE [error |-> "NotHashRangeOrAppend"]

-----------------------------------------------------------------------------
(* The per-shard copy of the relation restriction context, its extension   *)
(* by the caller and its pruning.                                          *)

\* the RestrictInfos of a list; NIL is the empty list
Contents(l) == IF l = NIL THEN {} ELSE lists[l]

\* get_all_actual_clauses: the bare clauses of a RestrictInfo list
ActualClauses(restrictinfoList) == {rinfo.clause : rinfo \in restrictinfoList}

\* Fault: the copied RelOptInfo keeps the original's baserestrictinfo list.
SameList(l) == l

\* copyObject of a list: NIL stays NIL, any other list gets a new address
CopyList(l) == IF l = NIL THEN NIL ELSE Len(lists) + 1

\* one iteration of the loop of CopyRelationRestrictionContext: a new
\* RelationRestriction, a flat copy of the RelOptInfo with a copied
\* baserestrictinfo, and the prunedShardIntervalList shared
CopyRestrictionStep ==
  /\ pc = "copy"
  /\ LET old == structs[OriginalContext[cidx]]
         base == relOpts[old.relOptInfo].baserestrictinfo
         newRelOpt == [relOpts[old.relOptInfo] EXCEPT !.baserestrictinfo = CopyList(base)]
     IN /\ lists' = IF base = NIL THEN lists ELSE Append(lists, lists[base])
        /\ relOpts' = Append(relOpts, newRelOpt)
        /\ structs' = Append(structs, [old EXCEPT !.relOptInfo = Len(relOpts) + 1])
        /\ copies' = [copies EXCEPT ![shard] = Append(@, Len(structs) + 1)]
  /\ IF cidx = nRestrictions THEN pc' = "extend" /\ cidx' = 1
                              ELSE cidx' = cidx + 1 /\ UNCHANGED pc
  /\ UNCHANGED <<inputs, shard, teIdx, partVar, quals, error>>

\* The caller (not in this file) adds the shard's interval constraint to
\* the copied baserestrictinfo with list_concat, which returns the added
\* list for a NIL first argument and otherwise appends to the first list in
\* place; that in-place append is why the copy decouples baserestrictinfo.
ExtendCopyStep ==
  /\ pc = "extend"
  /\ LET ro == structs[copies[shard][cidx]].relOptInfo
         l == relOpts[ro].baserestrictinfo
         added == {RestrictInfo(ShardIntervalOpExpressions(intervals[shard], "hash"))}
     IN IF l = NIL
        THEN /\ lists' = Append(lists, added)
             /\ relOpts' = [relOpts EXCEPT ![ro].baserestrictinfo = Len(lists) + 1]
        ELSE /\ lists' = [lists EXCEPT ![l] = @ \cup added]
             /\ UNCHANGED relOpts
  /\ IF cidx = nRestrictions THEN pc' = "prune" /\ cidx' = 1
                              ELSE cidx' = cidx + 1 /\ UNCHANGED pc
  /\ UNCHANGED <<inputs, shard, teIdx, partVar, quals, error, structs, copies>>

\* The contract of the external PruneShards on a hash table: it never drops
\* a shard whose hash range meets every constraint on the hashed column,
\* ignores the clauses it cannot use, and may keep shards it cannot rule out.
MatchingShards(clauses) ==
  {t \in 1..Len(intervals) :
     \A c \in clauses : c.column = "hashed" =>
       c.min <= intervals[t].max /\ intervals[t].min <= c.max}

PruneShardsResults(clauses) ==
  {p \in SUBSET (1..Len(intervals)) : MatchingShards(clauses) \subseteq p}

\* one iteration of the restriction loop of TargetShardIntervalsForRouter on
\* the shard's copy: prune on its baserestrictinfo, bail out as a
\* multi-shard query with more than one shard left, otherwise record the
\* pruned list in the copied restriction
PruneCopyStep ==
  /\ pc = "prune"
  /\ LET a == copies[shard][cidx]
         clauses == ActualClauses(Contents(relOpts[structs[a].relOptInfo].baserestrictinfo))
     IN \E pruned \in PruneShardsResults(clauses) :
          IF Cardinality(pruned) > 1
          THEN /\ structs' = [structs EXCEPT ![a].pruned = {}]
               /\ error' = "MultiShardQuery"
               /\ pc' = "done"
               /\ UNCHANGED cidx
          ELSE /\ structs' = [structs EXCEPT ![a].pruned = pruned]
               /\ UNCHANGED error
               /\ IF cidx = nRestrictions THEN pc' = "next" /\ cidx' = 1
                                           ELSE cidx' = cidx + 1 /\ UNCHANGED pc
  /\ UNCHANGED <<inputs, shard, teIdx, partVar, quals, relOpts, lists, copies>>

Next ==
  \/ FindPartitionColumnStep \/ AddShardBounds \/ CallerNextShard
  \/ CopyRestrictionStep \/ ExtendCopyStep \/ PruneCopyStep

Spec == Init /\ [][Next]_vars /\ WF_vars(Next)

(* The original restriction context is never changed by the per-shard    *)
(* copies: its restrictions keep their clauses and pruned lists in every   *)
(* state, including after a copy's pruning bails out half-way through its  *)
(* loop; and when planning succeeds every restriction of every shard's     *)
(* copy is pruned to exactly that shard.  The copies of                    *)
(* CopyRelationRestrictionContext must not share the baserestrictinfo      *)
(* lists the caller extends in place, or the constraints of earlier shards *)
(* pile up in later shards' pruning and in the original.                   *)
CopiesPruneToOwnShard ==
  /\ \A k \in 1..nRestrictions :
       /\ structs[k].pruned = {}
       /\ ActualClauses(Contents(relOpts[structs[k].relOptInfo].baserestrictinfo))
            = IF where = NoWhere THEN {} ELSE {WhereClause}
  /\ pc = "done" /\ error = NoError =>
       \A s \in 1..Len(intervals), k \in 1..nRestrictions :
         structs[copies[s][k]].pruned = {s}

-----------------------------------------------------------------------------
(* SQL evaluation of the shard subqueries, to state what they return       *)

And3(S) == IF FALSE \in S THEN FALSE ELSE IF Unknown \in S THEN Unknown ELSE TRUE

ColumnValue(col, r) ==
  CASE col = "partVar" -> key[r]
    [] col = "otherVar" -> other[r]
    [] col = "partExpr" -> IF key[r] = Null THEN Null ELSE ExprOf[key[r]]

\* worker_hash is strict: NULL in, NULL out; a comparison with NULL is unknown
InRange(h, lo, hi) == IF h = Null THEN Unknown ELSE lo <= h /\ h <= hi

Hashed(v) == IF v = Null THEN Null ELSE HashOf[v]

ConjunctValue(c, r) ==
  IF c = WhereQual THEN where[r] ELSE InRange(Hashed(ColumnValue(c.column, r)), c.min, c.max)

\* the row is in the result of shard s's subquery
Returns(s, r) == And3({ConjunctValue(c, r) : c \in quals[s]}) = TRUE

\* the row is in the result of the original subquery
Selected(r) == where = NoWhere \/ where[r] = TRUE

ShardsOf(r) == {s \in 1..Len(intervals) : Returns(s, r)}

\* the shards whose hash range holds the value's worker_hash: where the row
\* belongs once it is inserted into the hash-distributed target
OwningShards(v) == {s \in 1..Len(intervals) : intervals[s].min <= HashOf[v] /\ HashOf[v] <= intervals[s].max}

(* INSERT ... SELECT splits the SELECT into one subquery per shard of a    *)
(* hash-distributed table and inserts what shard s's subquery returns into *)
(* shard s.  Each row with a non-NULL partition key that the SELECT        *)
(* returns must be returned by the shard owning its key's hash and by no   *)
(* other, and no other row by any shard.  It is about the target list      *)
(* search of AddShardIntervalRestrictionToSelect (bounds on another column *)
(* or on an expression over the key still split the rows, but send them to *)
(* the wrong shard) and its conjoining of the bounds with the existing     *)
(* WHERE under SQL's three-valued logic.                                   *)
ShardsPartitionSelect ==
  pc = "done" /\ error = NoError =>
    \A r \in Rows : key[r] # Null =>
      ShardsOf(r) = IF Selected(r) THEN OwningShards(key[r]) ELSE {}

(* Spec section 7 makes a NULL partition value of an INSERT a fatal error, *)
(* never a silent loss.  Every row the SELECT of an INSERT ... SELECT      *)
(* returns should therefore be returned by some shard's subquery, or       *)
(* planning should fail.  The bounds AddShardIntervalRestrictionToSelect   *)
(* adds compare worker_hash(partCol), which is NULL for a NULL key, so     *)
(* such a row passes no shard's filter.                                    *)
SelectedRowsReachAShard ==
  pc = "done" /\ error = NoError =>
    \A r \in Rows : Selected(r) => ShardsOf(r) # {}


=============================================================================
