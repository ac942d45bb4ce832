---------------------------- MODULE RouterQuery ----------------------------
(***************************************************************************)
(* Router planning of a SELECT, UPDATE or DELETE that has reached          *)
(* RouterJob (multi_router_planner.c): shard pruning per relation          *)
(* restriction (TargetShardIntervalsForRouter), the single-shard checks,   *)
(* placement resolution and relation rewriting (PlanRouterQuery and its    *)
(* helpers), and the assembly of the Job (RouterJob).                      *)
(*                                                                         *)
(* One planning call is one behaviour.  The query and the catalog are      *)
(* inputs: the query's relation restrictions, what the external PruneShards *)
(* returns for each of them, and the finalized placements of every shard.  *)
(* Every iteration of the pruning loop is a step; the later loops of       *)
(* PlanRouterQuery touch no state outside the call and are operators.      *)
(***************************************************************************)
EXTENDS Integers, Sequences, FiniteSets, SequencesExt

CONSTANTS
  Relations,        \* oids of distributed tables (integers: shards sort by them)
  PartitionMethod,  \* [Relations -> {"hash", "range", "append", "none"}]
  ShardsOf,         \* [Relations -> SUBSET Nat]: the table's shard interval array
  Nodes,            \* worker nodes, records [name |-> _, port |-> _]
  PlacementsOf,     \* [Shards -> SUBSET Nodes]: FinalizedShardPlacementList
  MaxRefs,          \* bound on the relation restrictions of one query
  INVALID_SHARD_ID, \* shard id 0
  NoWorker,         \* ActivePrimaryNodeList is empty
  NoError,          \* planningError == NULL
  Pending           \* the abstract outcome before the call returns

Shards == UNION {ShardsOf[r] : r \in Relations}

ASSUME INVALID_SHARD_ID \notin Shards
ASSUME \A r \in Relations : PartitionMethod[r] = "none" => Cardinality(ShardsOf[r]) = 1

\* the relation owning a shard (shardInterval->relationId)
RelationOf(s) == CHOOSE r \in Relations : s \in ShardsOf[r]

\* What the external PruneShards may return for one relation restriction:
\* any subset of the table's shards, and all shards of a reference table,
\* which has no partition column to prune on.
PruneShardsResults(rel) ==
  IF PartitionMethod[rel] = "none" THEN {ShardsOf[rel]} ELSE SUBSET ShardsOf[rel]

\* A relation restriction: the relation, whether its joininfo holds a
\* pseudo-constant false clause, and what PruneShards returns for its
\* baserestrictinfo.
RestrictionChoices ==
  UNION {{[rel |-> r, whereFalse |-> wf, pruned |-> p] :
            p \in {q \in PruneShardsResults(r) : wf => q = {}}} :
         r \in Relations, wf \in BOOLEAN}

Commands == {"SELECT", "UPDATE", "DELETE"}

Errors == {"MultiShardCommand", "RelationPrunesToMultipleShards",
           "NoWorkerWithAllPlacements"}

VARIABLES
  command,                  \* originalQuery->commandType
  restrictions,             \* restrictionContext->relationRestrictionList
  requiresMasterEvaluation, \* RequiresMasterEvaluation(originalQuery)
  pc,                       \* "prune", "route", "job" or "done"
  idx,                      \* position of the pruning loop
  prunedRelationShardList,  \* pruned shard list per restriction, so far
  multiShardQuery,          \* a relation pruned to more than one shard
  relationShardList,        \* RelationShard records of PlanRouterQuery
  anchorShardId,
  placementList,
  rteKind,                  \* per restriction: "relation", "shard" or "subquery"
  contextPruned,            \* per restriction: relationRestriction->prunedShardIntervalList
  planningError,            \* DeferredErrorMessage or NoError
  fatalError,               \* ereport(ERROR) raised by RouterJob
  job                       \* the Job returned, or NoError for NULL

inputs == <<command, restrictions, requiresMasterEvaluation>>
vars == <<inputs, pc, idx, prunedRelationShardList, multiShardQuery,
          relationShardList, anchorShardId, placementList, rteKind,
          contextPruned, planningError, fatalError, job>>

-----------------------------------------------------------------------------
(* Helpers of the planner                                                  *)

UpdateOrDeleteQuery == command \in {"UPDATE", "DELETE"}

\* GetUpdateOrDeleteRTE: the result relation carries ACL_UPDATE/ACL_DELETE
\* and is the first range table entry; a SELECT has none.
UpdateOrDeleteRTE(k) == UpdateOrDeleteQuery /\ k = 1

\* PlanRouterQuery's loop over the pruned lists: one RelationShard per
\* relation that kept a shard, owner taken from the shard interval.
RelationShards(lists) ==
  FlattenSeq([k \in DOMAIN lists |->
    IF lists[k] = {} THEN <<>>
    ELSE LET s == CHOOSE x \in lists[k] : TRUE
         IN <<[relationId |-> RelationOf(s), shardId |-> s]>>])

\* Fault: the relation id of the first mapping taken for its shard id.
AnchorShardRelation(rsList) ==
  IF rsList = <<>> THEN INVALID_SHARD_ID ELSE rsList[1].relationId

\* the anchor: the shard of the first relation that kept one
AnchorShard(rsList) ==
  IF rsList = <<>> THEN INVALID_SHARD_ID ELSE rsList[1].shardId

\* Fault: neighbours compared without sorting the list first.
UnsortedPrunesToMultipleShards(rsList) ==
  \E i \in 2..Len(rsList) :
    /\ rsList[i].relationId = rsList[i - 1].relationId
    /\ rsList[i].shardId # rsList[i - 1].shardId

\* Sort by (relationId, shardId) as CompareRelationShards does, then look
\* for two neighbours of one relation on different shards.
RelationPrunesToMultipleShards(rsList) ==
  LET Before(a, b) == \/ a.relationId < b.relationId
                      \/ a.relationId = b.relationId /\ a.shardId < b.shardId
      sorted == SortSeq(rsList, Before)
  IN \E i \in 2..Len(sorted) :
       /\ sorted[i].relationId = sorted[i - 1].relationId
       /\ sorted[i].shardId # sorted[i - 1].shardId

\* keep the rhs placements whose nodeName and nodePort match an lhs one
IntersectPlacementList(lhs, rhs) ==
  {r \in rhs : \E l \in lhs : r.port = l.port /\ r.name = l.name}

\* Intersect the placements of every pruned shard, skipping empty lists and
\* stopping as soon as the running intersection is empty.
RECURSIVE WorkersFrom(_, _, _)
WorkersFrom(lists, firstShard, current) ==
  IF lists = <<>> THEN current
  ELSE IF Head(lists) = {} THEN WorkersFrom(Tail(lists), firstShard, current)
  ELSE LET newPlacementList == PlacementsOf[CHOOSE s \in Head(lists) : TRUE]
           next == IF firstShard THEN newPlacementList
                   ELSE IntersectPlacementList(current, newPlacementList)
       IN IF next = {} THEN {} ELSE WorkersFrom(Tail(lists), FALSE, next)

WorkersContainingAllShards(lists) == WorkersFrom(lists, TRUE, {})

\* UpdateRelationToShardNames, skipped for an UPDATE/DELETE that needs
\* master evaluation: an RTE whose relation kept a shard points at it, one
\* whose relation kept none becomes a subquery that returns no rows.
RewrittenRteKinds(rsList) ==
  IF UpdateOrDeleteQuery /\ requiresMasterEvaluation THEN rteKind
  ELSE [k \in DOMAIN restrictions |->
          IF \E i \in DOMAIN rsList : rsList[i].relationId = restrictions[k].rel
          THEN "shard" ELSE "subquery"]

\* SelectsFromDistributedTable: an RTE that is still a relation, of a table
\* that is not a reference table, and not the one being modified.
SelectsFromDistributedTable ==
  \E k \in DOMAIN restrictions :
    /\ rteKind[k] # "subquery"
    /\ PartitionMethod[restrictions[k].rel] # "none"
    /\ ~UpdateOrDeleteRTE(k)

-----------------------------------------------------------------------------
(* Actions                                                                 *)

\* RouterJob computes RequiresMasterEvaluation and calls PlanRouterQuery,
\* which starts with TargetShardIntervalsForRouter.
Init ==
  /\ command \in Commands
  /\ restrictions \in UNION {[1..n -> RestrictionChoices] : n \in 1..MaxRefs}
  /\ requiresMasterEvaluation \in BOOLEAN
  /\ pc = "prune"
  /\ idx = 1
  /\ prunedRelationShardList = <<>>
  /\ multiShardQuery = FALSE
  /\ relationShardList = <<>>
  /\ anchorShardId = INVALID_SHARD_ID
  /\ placementList = {}
  /\ rteKind = [k \in DOMAIN restrictions |-> "relation"]
  /\ contextPruned = [k \in DOMAIN restrictions |-> {}]
  /\ planningError = NoError
  /\ fatalError = NoError
  /\ job = NoError

\* the shards one restriction keeps: none for a false clause or a table
\* without shards, otherwise what PruneShards returns
PrunedShardList(r) ==
  IF ~r.whereFalse /\ Cardinality(ShardsOf[r.rel]) > 0 THEN r.pruned ELSE {}

\* the restriction's prunedShardIntervalList once the iteration kept its list
RecordPrunedList(k) == [contextPruned EXCEPT ![k] = PrunedShardList(restrictions[k])]

\* the restriction's prunedShardIntervalList when the iteration bails out:
\* reset to NIL at the top of the iteration and never set
BailOutRecord(k) == [contextPruned EXCEPT ![k] = {}]

\* one iteration of TargetShardIntervalsForRouter that keeps at most one shard
PruneRelation ==
  /\ pc = "prune"
  /\ Cardinality(PrunedShardList(restrictions[idx])) <= 1
  /\ prunedRelationShardList' =
       Append(prunedRelationShardList, PrunedShardList(restrictions[idx]))
  /\ contextPruned' = RecordPrunedList(idx)
  /\ idx' = idx + 1
  /\ pc' = IF idx = Len(restrictions) THEN "route" ELSE "prune"
  /\ UNCHANGED <<inputs, multiShardQuery, relationShardList, anchorShardId,
                 placementList, rteKind, planningError, fatalError, job>>

\* the quick bail out: a relation kept more than one shard; the lists
\* recorded by earlier iterations stay in the restriction context
PruneToMultipleShards ==
  /\ pc = "prune"
  /\ Cardinality(PrunedShardList(restrictions[idx])) > 1
  /\ multiShardQuery' = TRUE
  /\ prunedRelationShardList' = <<>>
  /\ contextPruned' = BailOutRecord(idx)
  /\ pc' = "route"
  /\ UNCHANGED <<inputs, idx, relationShardList, anchorShardId, placementList,
                 rteKind, planningError, fatalError, job>>

\* PlanRouterQuery: "cannot run <command> command which targets multiple shards"
RejectMultiShardQuery ==
  /\ pc = "route"
  /\ multiShardQuery
  /\ planningError' = "MultiShardCommand"
  /\ pc' = "job"
  /\ UNCHANGED <<inputs, idx, prunedRelationShardList, multiShardQuery,
                 relationShardList, anchorShardId, placementList, rteKind, contextPruned,
                 fatalError, job>>

\* PlanRouterQuery: two references to one relation pruned to different shards
RejectConflictingReferences ==
  LET rsList == RelationShards(prunedRelationShardList) IN
  /\ pc = "route"
  /\ ~multiShardQuery
  /\ RelationPrunesToMultipleShards(rsList)
  /\ relationShardList' = rsList
  /\ planningError' = "RelationPrunesToMultipleShards"
  /\ pc' = "job"
  /\ UNCHANGED <<inputs, idx, prunedRelationShardList, multiShardQuery,
                 anchorShardId, placementList, rteKind, contextPruned, fatalError, job>>

\* Fault: UpdateRelationToShardNames runs before the worker list is checked.
RewriteBeforeWorkerCheck(rsList, workerList) ==
  /\ relationShardList' = rsList
  /\ pc' = "job"
  /\ rteKind' = RewrittenRteKinds(rsList)
  /\ IF workerList = {}
     THEN /\ planningError' = "NoWorkerWithAllPlacements"
          /\ UNCHANGED <<placementList, anchorShardId>>
     ELSE /\ placementList' = workerList
          /\ anchorShardId' = AnchorShard(rsList)
          /\ UNCHANGED planningError
  /\ UNCHANGED <<inputs, idx, prunedRelationShardList, multiShardQuery,
                 contextPruned, fatalError, job>>

\* the end of PlanRouterQuery once the worker list is known: no worker is
\* an error, otherwise rewrite the RTEs and return placements and anchor
FinishRouting(rsList, workerList) ==
  /\ relationShardList' = rsList
  /\ pc' = "job"
  /\ IF workerList = {}
     THEN /\ planningError' = "NoWorkerWithAllPlacements"
          /\ UNCHANGED <<placementList, anchorShardId, rteKind>>
     ELSE /\ rteKind' = RewrittenRteKinds(rsList)
          /\ placementList' = workerList
          /\ anchorShardId' = AnchorShard(rsList)
          /\ UNCHANGED planningError
  /\ UNCHANGED <<inputs, idx, prunedRelationShardList, multiShardQuery,
                 contextPruned, fatalError, job>>

\* some relation kept a shard: the workers holding all of them
RouteToShardPlacements ==
  LET rsList == RelationShards(prunedRelationShardList) IN
  /\ pc = "route"
  /\ ~multiShardQuery
  /\ ~RelationPrunesToMultipleShards(rsList)
  /\ \E k \in DOMAIN prunedRelationShardList : prunedRelationShardList[k] # {}
  /\ FinishRouting(rsList, WorkersContainingAllShards(prunedRelationShardList))

\* every shard was pruned: a dummy placement on the first active worker
RouteToDummyPlacement ==
  /\ pc = "route"
  /\ ~multiShardQuery
  /\ \A k \in DOMAIN prunedRelationShardList : prunedRelationShardList[k] = {}
  /\ \E firstWorker \in Nodes \cup {NoWorker} :
       FinishRouting(<<>>, IF firstWorker = NoWorker THEN {} ELSE {firstWorker})

\* RouterJob returns NULL when PlanRouterQuery set an error
RouterJobFails ==
  /\ pc = "job"
  /\ planningError # NoError
  /\ pc' = "done"
  /\ UNCHANGED <<inputs, idx, prunedRelationShardList, multiShardQuery,
                 relationShardList, anchorShardId, placementList, rteKind, contextPruned,
                 planningError, fatalError, job>>

\* CreateJob: a Job with no task that needs no master evaluation
CreateJob == [taskList |-> <<>>, requiresMasterEvaluation |-> FALSE]

\* the modified relation was replaced by an empty subquery: no task
BuildEmptyJob ==
  /\ pc = "job"
  /\ planningError = NoError
  /\ UpdateOrDeleteQuery /\ rteKind[1] = "subquery"
  /\ job' = CreateJob
  /\ pc' = "done"
  /\ UNCHANGED <<inputs, idx, prunedRelationShardList, multiShardQuery,
                 relationShardList, anchorShardId, placementList, rteKind, contextPruned,
                 planningError, fatalError>>

\* modifying a reference table while selecting from a distributed one
RejectReferenceModification ==
  /\ pc = "job"
  /\ planningError = NoError
  /\ UpdateOrDeleteQuery /\ rteKind[1] # "subquery"
  /\ PartitionMethod[restrictions[1].rel] = "none"
  /\ SelectsFromDistributedTable
  /\ fatalError' = "ModifyReferenceWithDistributedSelect"
  /\ pc' = "done"
  /\ UNCHANGED <<inputs, idx, prunedRelationShardList, multiShardQuery,
                 relationShardList, anchorShardId, placementList, rteKind, contextPruned,
                 planningError, job>>

\* one ROUTER_TASK or MODIFY_TASK on the resolved placements
BuildRouterTask ==
  /\ pc = "job"
  /\ planningError = NoError
  /\ UpdateOrDeleteQuery => rteKind[1] # "subquery"
  /\ UpdateOrDeleteQuery =>
       ~(PartitionMethod[restrictions[1].rel] = "none" /\ SelectsFromDistributedTable)
  /\ job' = [CreateJob EXCEPT
               !.taskList = <<[taskType |-> IF command = "SELECT"
                                           THEN "ROUTER_TASK" ELSE "MODIFY_TASK",
                               anchorShardId |-> anchorShardId,
                               taskPlacementList |-> placementList,
                               relationShardList |-> relationShardList]>>,
               !.requiresMasterEvaluation = requiresMasterEvaluation]
  /\ pc' = "done"
  /\ UNCHANGED <<inputs, idx, prunedRelationShardList, multiShardQuery,
                 relationShardList, anchorShardId, placementList, rteKind, contextPruned,
                 planningError, fatalError>>

Next ==
  \/ PruneRelation
  \/ PruneToMultipleShards
  \/ RejectMultiShardQuery
  \/ RejectConflictingReferences
  \/ RouteToShardPlacements
  \/ RouteToDummyPlacement
  \/ RouterJobFails
  \/ BuildEmptyJob
  \/ RejectReferenceModification
  \/ BuildRouterTask

\* planning is a synchronous call: every enabled step is eventually taken
Spec == Init /\ [][Next]_vars /\ WF_vars(Next)

-----------------------------------------------------------------------------
(* Properties                                                              *)

RelationShard == [relationId : Relations, shardId : Shards]
Task == [taskType : {"ROUTER_TASK", "MODIFY_TASK"},
         anchorShardId : Shards \cup {INVALID_SHARD_ID},
         taskPlacementList : SUBSET Nodes,
         relationShardList : Seq(RelationShard)]

TypeOK ==
  /\ command \in Commands
  /\ pc \in {"prune", "route", "job", "done"}
  /\ idx \in 1..(MaxRefs + 1)
  /\ prunedRelationShardList \in Seq(SUBSET Shards)
  /\ multiShardQuery \in BOOLEAN
  /\ relationShardList \in Seq(RelationShard)
  /\ anchorShardId \in Shards \cup {INVALID_SHARD_ID}
  /\ placementList \in SUBSET Nodes
  /\ rteKind \in [DOMAIN restrictions -> {"relation", "shard", "subquery"}]
  /\ contextPruned \in [DOMAIN restrictions -> SUBSET Shards]
  /\ planningError \in Errors \cup {NoError}
  /\ fatalError \in {"ModifyReferenceWithDistributedSelect", NoError}
  /\ job \in {NoError} \cup [taskList : Seq(Task), requiresMasterEvaluation : BOOLEAN]

\* the result of the call once RouterJob has returned, its relation-to-shard
\* mappings as a set
Outcome ==
  IF pc # "done" THEN Pending
  ELSE [planningError |-> planningError,
        fatalError |-> fatalError,
        job |-> IF job = NoError THEN NoError
                ELSE [taskList |-> [i \in DOMAIN job.taskList |->
                                      [job.taskList[i] EXCEPT
                                         !.relationShardList = ToSet(@)]],
                      requiresMasterEvaluation |-> job.requiresMasterEvaluation]]

Abstract == INSTANCE RouterPlan WITH outcome <- Outcome

(* Refinement: every planning call returns, and it returns exactly the plan *)
(* RouterPlan describes: a multi-shard error when a relation keeps several  *)
(* shards or two references to one relation keep different shards, an      *)
(* error when no worker holds every targeted shard, otherwise one task on   *)
(* the intersection of their placements (the first active worker when all  *)
(* shards were pruned) anchored at the first kept shard, no task when the   *)
(* modified relation was pruned away, and the fatal error of RouterJob for  *)
(* a reference table modified with a select from a distributed one.  It is  *)
(* about TargetShardIntervalsForRouter, PlanRouterQuery,                    *)
(* RelationPrunesToMultipleShards, WorkersContainingAllShards,              *)
(* IntersectPlacementList and RouterJob together.                           *)
RouterPlanRefinement == Abstract!Spec

(* Spec section 8, single-shard invariant: a routed statement prunes every  *)
(* reference to one table to the same shard list.  PlanRouterQuery only    *)
(* compares the relations that kept a shard (RelationPrunesToMultipleShards *)
(* over relationShardList), so a reference pruned to no shard next to one   *)
(* pruned to a shard is routed.                                             *)
SameTablePrunesIdentically ==
  (pc = "done" /\ job # NoError) =>
    \A i, j \in DOMAIN prunedRelationShardList :
      restrictions[i].rel = restrictions[j].rel =>
        prunedRelationShardList[i] = prunedRelationShardList[j]

(* Spec section 8, contradiction scenario: an UPDATE whose WHERE clause is  *)
(* a contradiction prunes every shard, gets the placeholder placement and   *)
(* still emits one Task that affects no rows.  RouterJob instead returns a  *)
(* Job with no task once the updated relation was rewritten into an empty   *)
(* subquery.                                                                *)
ContradictionUpdateEmitsTask ==
  (/\ pc = "done" /\ command = "UPDATE"
   /\ \A k \in DOMAIN restrictions : restrictions[k].whereFalse
   /\ planningError = NoError /\ fatalError = NoError)
    => Len(job.taskList) = 1

=============================================================================
