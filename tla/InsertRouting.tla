---------------------------- MODULE InsertRouting ----------------------------
(***************************************************************************)
(* RouterInsertJob and the calls it makes (multi_router_planner.c):        *)
(* CanShardPrune, RouterInsertTaskList, ErrorIfNoShardsExist,              *)
(* FindShardForInsert, ExtractInsertPartitionValue, CreateTask, CreateJob. *)
(* One planning call of a single-row INSERT is one behaviour; the table's  *)
(* catalog entry and the statement are inputs chosen in Init.  A shard is  *)
(* its position in the sorted shard interval array, an interval a record   *)
(* [min, max] over the values the partition column hashes or compares to.  *)
(***************************************************************************)
EXTENDS Integers, Sequences, FiniteSets

CONSTANTS
  Tables,       \* catalog entries [partitionMethod, intervals], intervals sorted by min
  Values,       \* constant partition values
  HashOf,       \* the hash function of the partition column's type, Values -> Int
  NoError,
  Missing,      \* no target entry for the partition column
  NonConst,     \* a partition value that is not a Const (a function call, a parameter)
  Null          \* a NULL Const

PartitionValues == Values \cup {Missing, NonConst, Null}

VARIABLES
  table,                     \* DistributedTableCacheEntry of the target
  partitionValue,            \* the expression assigned to the partition column
  masterEvaluation,          \* RequiresMasterEvaluation(originalQuery)
  onConflict,                \* the INSERT has ON CONFLICT
  pc,                        \* "prune", "tasks", "job" or "done"
  taskList,
  deferredPruning,
  requiresMasterEvaluation,
  planningError,
  fatalError,                \* an ereport(ERROR) raised while planning
  job                        \* NoError (no job returned) or the Job

inputs == <<table, partitionValue, masterEvaluation, onConflict>>
vars == <<inputs, pc, taskList, deferredPruning, requiresMasterEvaluation,
          planningError, fatalError, job>>

-----------------------------------------------------------------------------
ShardCount == Len(table.intervals)

Contains(i, v) == table.intervals[i].min <= v /\ v <= table.intervals[i].max

\* FindShardInterval (shard interval cache, outside this file): the shard
\* whose interval holds the hashed value for a hash table, the value itself
\* for a range table; with overlapping range intervals, one of them
FindShardInterval(v) ==
  LET key == IF table.partitionMethod = "hash" THEN HashOf[v] ELSE v
  IN {i \in 1..ShardCount : Contains(i, key)}

\* PruneShards with the restriction partitionColumn = v (outside this file)
PruneShards(v) == {i \in 1..ShardCount : Contains(i, v)}

Fatal(e) == /\ fatalError' = e /\ pc' = "done"

\* CreateTask(MODIFY_TASK) for the shard, as RouterInsertTaskList fills it
ModifyTask(shard) ==
  [taskType |-> "MODIFY_TASK", anchorShardId |-> shard, upsertQuery |-> onConflict,
   queryString |-> FALSE]

Init ==
  /\ table \in Tables
  /\ partitionValue \in PartitionValues
  /\ masterEvaluation \in BOOLEAN
  /\ onConflict \in BOOLEAN
  /\ pc = "prune"
  /\ taskList = <<>>
  /\ deferredPruning = FALSE
  /\ requiresMasterEvaluation = FALSE
  /\ planningError = NoError
  /\ fatalError = NoError
  /\ job = NoError

\* ExtractInsertPartitionValue: no target entry for the partition column
ExtractInsertPartitionValueFails == partitionValue = Missing

\* Fault: a NULL Const is taken for a value still to be evaluated.
CanShardPruneNonNull ==
  \/ table.partitionMethod = "none"
  \/ partitionValue \in Values

\* CanShardPrune: a reference table, or a Const in the partition column
CanShardPrune ==
  \/ table.partitionMethod = "none"
  \/ partitionValue \in Values \cup {Null}

\* the start of RouterInsertJob: prune now, or defer pruning to execution
CheckShardPrune ==
  /\ pc = "prune"
  /\ \/ /\ table.partitionMethod # "none" /\ ExtractInsertPartitionValueFails
        /\ Fatal("InsertWithoutPartitionValue")
        /\ UNCHANGED <<deferredPruning, requiresMasterEvaluation>>
     \/ /\ CanShardPrune
        /\ pc' = "tasks"
        /\ UNCHANGED <<deferredPruning, requiresMasterEvaluation, fatalError>>
     \/ /\ ~CanShardPrune /\ ~ExtractInsertPartitionValueFails
        /\ deferredPruning' = TRUE
        /\ requiresMasterEvaluation' = TRUE
        /\ pc' = "job"
        /\ UNCHANGED fatalError
  /\ UNCHANGED <<inputs, taskList, planningError, job>>

ErrorIfNoShardsExist == ShardCount = 0

Raised(e) == [fatalError |-> e, planningError |-> NoError, shards |-> {}]
NotRouted(e) == [fatalError |-> NoError, planningError |-> e, shards |-> {}]
Found(shards) == [fatalError |-> NoError, planningError |-> NoError, shards |-> shards]

\* FindShardForInsert: the shards it may return (FindShardInterval picks
\* one of overlapping intervals), or the error it raises or reports
FindShardForInsert ==
  LET method == table.partitionMethod
      candidates == IF method \in {"hash", "range"} THEN FindShardInterval(partitionValue)
                    ELSE PruneShards(partitionValue)
  IN CASE method = "none" /\ ShardCount # 1 -> Raised("ReferenceTableShardCount")
       [] method = "none" -> Found({1})
       [] partitionValue = Null -> Raised("NullPartitionValue")
       [] method \in {"hash", "range"} /\ candidates # {} -> Found(candidates)
       [] method = "append" /\ Cardinality(candidates) = 1 -> Found(candidates)
       [] candidates = {} -> NotRouted("InsertTargetsNoShards")
       [] OTHER -> NotRouted("InsertTargetsMultipleShards")

\* RouterInsertTaskList; on a planning error RouterInsertJob returns no job
BuildInsertTaskList ==
  /\ pc = "tasks"
  /\ IF ErrorIfNoShardsExist
     THEN Fatal("NoShards") /\ UNCHANGED <<taskList, planningError>>
     ELSE LET r == FindShardForInsert
          IN \/ /\ r.fatalError # NoError
                /\ Fatal(r.fatalError)
                /\ UNCHANGED <<taskList, planningError>>
             \/ /\ r.planningError # NoError
                /\ planningError' = r.planningError
                /\ pc' = "done"
                /\ UNCHANGED <<taskList, fatalError>>
             \/ /\ r.shards # {}
                /\ \E shard \in r.shards : taskList' = <<ModifyTask(shard)>>
                /\ pc' = "job"
                /\ UNCHANGED <<planningError, fatalError>>
  /\ requiresMasterEvaluation' = masterEvaluation
  /\ UNCHANGED <<inputs, deferredPruning, job>>

\* CreateJob: a Job with no task, pruned at planning time, that needs no
\* master evaluation
CreateJob == [taskList |-> <<>>, requiresMasterEvaluation |-> FALSE, deferredPruning |-> FALSE]

\* the end of RouterInsertJob: RebuildQueryStrings when nothing is left to
\* evaluate on the coordinator, then CreateJob
BuildInsertJob ==
  /\ pc = "job"
  /\ LET tasks == IF requiresMasterEvaluation THEN taskList
                  ELSE [i \in DOMAIN taskList |-> [taskList[i] EXCEPT !.queryString = TRUE]]
     IN /\ taskList' = tasks
        /\ job' = [CreateJob EXCEPT !.taskList = tasks,
                                     !.requiresMasterEvaluation = requiresMasterEvaluation,
                                     !.deferredPruning = deferredPruning]
  /\ pc' = "done"
  /\ UNCHANGED <<inputs, deferredPruning, requiresMasterEvaluation, planningError, fatalError>>

Next == CheckShardPrune \/ BuildInsertTaskList \/ BuildInsertJob

Spec == Init /\ [][Next]_vars /\ WF_vars(Next)

-----------------------------------------------------------------------------
(* Properties                                                              *)

\* the shards a constant value may be routed to
Candidates(v) ==
  IF table.partitionMethod \in {"hash", "range"} THEN FindShardInterval(v) ELSE PruneShards(v)

\* what spec sections 7 and 8 say planning an INSERT yields: catalog
\* corruption and NULL are fatal, a non-constant partition value defers
\* pruning to execution, a constant one is routed to one shard holding it
\* or reported as not routable
Expected ==
  LET method == table.partitionMethod
      done(tasks, defer) == [fatalError |-> NoError, planningError |-> NoError,
                             deferredPruning |-> defer, tasks |-> tasks]
      fatal(e) == {[fatalError |-> e, planningError |-> NoError,
                    deferredPruning |-> FALSE, tasks |-> <<>>]}
      failed(e) == {[fatalError |-> NoError, planningError |-> e,
                     deferredPruning |-> FALSE, tasks |-> <<>>]}
      routed(shard) == <<[ModifyTask(shard) EXCEPT !.queryString = ~masterEvaluation]>>
  IN CASE method # "none" /\ partitionValue = Missing -> fatal("InsertWithoutPartitionValue")
       [] method # "none" /\ partitionValue = NonConst -> {done(<<>>, TRUE)}
       [] ShardCount = 0 -> fatal("NoShards")
       [] method = "none" /\ ShardCount # 1 -> fatal("ReferenceTableShardCount")
       [] method = "none" -> {done(routed(1), FALSE)}
       [] partitionValue = Null -> fatal("NullPartitionValue")
       [] Candidates(partitionValue) = {} -> failed("InsertTargetsNoShards")
       [] method = "append" /\ Cardinality(Candidates(partitionValue)) > 1
            -> failed("InsertTargetsMultipleShards")
       [] OTHER -> {done(routed(shard), FALSE) : shard \in Candidates(partitionValue)}

Outcome ==
  [fatalError |-> fatalError, planningError |-> planningError,
   deferredPruning |-> IF job = NoError THEN FALSE ELSE job.deferredPruning,
   tasks |-> IF job = NoError THEN <<>> ELSE job.taskList]

(* A planned INSERT ends as spec sections 7 and 8 say, across the order    *)
(* of CanShardPrune, ErrorIfNoShardsExist and FindShardForInsert: a job    *)
(* exists exactly when no error was raised, it defers pruning exactly for  *)
(* a non-constant partition value (and then must be evaluated on the       *)
(* coordinator), and its one task targets a shard holding the value and    *)
(* carries a query string exactly when RebuildQueryStrings ran.            *)
InsertRoutedAsSpecified ==
  pc = "done" =>
    /\ Outcome \in Expected
    /\ job # NoError => job.requiresMasterEvaluation = (deferredPruning \/ masterEvaluation)

(* Spec section 7: several candidate shards for a literal INSERT value is  *)
(* a fatal invariant violation.  FindShardForInsert reports it as a        *)
(* DeferredError, which the caller may answer by planning differently.     *)
MultipleCandidatesFatal ==
  pc = "done" /\ partitionValue \in Values /\ table.partitionMethod # "none"
  /\ Cardinality(Candidates(partitionValue)) > 1
    => fatalError # NoError

=============================================================================
