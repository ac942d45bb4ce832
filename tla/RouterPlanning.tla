--------------------------- MODULE RouterPlanning ---------------------------
(***************************************************************************)
(* The planning driver of multi_router_planner.c: CreateModifyPlan for an  *)
(* INSERT, UPDATE or DELETE, and CreateRouterPlan with                      *)
(* MultiRouterPlannableQuery, CreateSingleTaskRouterPlan and                *)
(* ErrorIfQueryHasModifyingCTE for a SELECT, composed with the components  *)
(* they call: ModifyQuerySupported (ModifyValidation), RouterJob           *)
(* (RouterQuery) and RouterInsertJob (InsertRouting).  Each component is a *)
(* named instance whose variables belong to this module; the driver takes  *)
(* a component's steps only while it is inside the call, and reads its     *)
(* final state when the call returns.                                      *)
(*                                                                         *)
(* One planning call is one behaviour.  The statement is chosen in Init:  *)
(* the same statement as each component sees it (the validator's record,  *)
(* the relation restrictions, the INSERT's target table and partition      *)
(* value), kept consistent with each other.  A component the path never   *)
(* calls has all its variables NotCalled.                                  *)
(***************************************************************************)
EXTENDS Integers, Sequences, FiniteSets

CONSTANTS
  Relations, PartitionMethod, ShardsOf, Nodes, PlacementsOf, MaxRefs,
  INVALID_SHARD_ID, NoWorker, Pending,           \* RouterQuery's catalog
  Tables, Values, HashOf, Missing, NonConst, Null, \* InsertRouting's catalog
  Queries, NoExpr,                               \* ModifyValidation's statements
  NoError,      \* a NULL DeferredErrorMessage
  NotCalled,    \* the state of a component the call never entered
  NoPlan,       \* a NULL MultiPlan
  CteCommands   \* the cteList of a SELECT: sequences of command types

VARIABLES
  command,          \* query->commandType
  hasForUpdate,     \* query->hasForUpdate (SELECT)
  cteList,          \* the command type of each CTE (SELECT)
  hasReturningList, \* list_length(originalQuery->returningList) > 0
  stage,            \* "classify", "validate", "routerJob", "insertJob", "done"
  plan,             \* the MultiPlan returned, or NoPlan for NULL
  raised,           \* an ereport(ERROR) raised inside a component, or NoError
  \* ModifyValidation
  mv_query, mv_pc, mv_pos, mv_queryTableCount, mv_hasValuesScan,
  mv_specifiesPartitionValue, mv_hasVarArgument, mv_hasBadCoalesce, mv_error,
  \* RouterQuery
  rq_command, rq_restrictions, rq_requiresMasterEvaluation, rq_pc, rq_idx,
  rq_prunedRelationShardList, rq_multiShardQuery, rq_relationShardList,
  rq_anchorShardId, rq_placementList, rq_rteKind, rq_contextPruned,
  rq_planningError, rq_fatalError, rq_job,
  \* InsertRouting
  ir_table, ir_partitionValue, ir_masterEvaluation, ir_onConflict, ir_pc,
  ir_taskList, ir_deferredPruning, ir_requiresMasterEvaluation,
  ir_planningError, ir_fatalError, ir_job

driverVars == <<command, hasForUpdate, cteList, hasReturningList, stage, plan, raised>>
mvVars == <<mv_query, mv_pc, mv_pos, mv_queryTableCount, mv_hasValuesScan,
            mv_specifiesPartitionValue, mv_hasVarArgument, mv_hasBadCoalesce, mv_error>>
rqVars == <<rq_command, rq_restrictions, rq_requiresMasterEvaluation, rq_pc, rq_idx,
            rq_prunedRelationShardList, rq_multiShardQuery, rq_relationShardList,
            rq_anchorShardId, rq_placementList, rq_rteKind, rq_contextPruned,
            rq_planningError, rq_fatalError, rq_job>>
irVars == <<ir_table, ir_partitionValue, ir_masterEvaluation, ir_onConflict, ir_pc,
            ir_taskList, ir_deferredPruning, ir_requiresMasterEvaluation,
            ir_planningError, ir_fatalError, ir_job>>
vars == <<driverVars, mvVars, rqVars, irVars>>

MV == INSTANCE ModifyValidation WITH
        query <- mv_query, pc <- mv_pc, pos <- mv_pos,
        queryTableCount <- mv_queryTableCount, hasValuesScan <- mv_hasValuesScan,
        specifiesPartitionValue <- mv_specifiesPartitionValue,
        hasVarArgument <- mv_hasVarArgument, hasBadCoalesce <- mv_hasBadCoalesce,
        error <- mv_error

RQ == INSTANCE RouterQuery WITH
        command <- rq_command, restrictions <- rq_restrictions,
        requiresMasterEvaluation <- rq_requiresMasterEvaluation, pc <- rq_pc,
        idx <- rq_idx, prunedRelationShardList <- rq_prunedRelationShardList,
        multiShardQuery <- rq_multiShardQuery, relationShardList <- rq_relationShardList,
        anchorShardId <- rq_anchorShardId, placementList <- rq_placementList,
        rteKind <- rq_rteKind, contextPruned <- rq_contextPruned,
        planningError <- rq_planningError, fatalError <- rq_fatalError, job <- rq_job

IR == INSTANCE InsertRouting WITH
        table <- ir_table, partitionValue <- ir_partitionValue,
        masterEvaluation <- ir_masterEvaluation, onConflict <- ir_onConflict,
        pc <- ir_pc, taskList <- ir_taskList, deferredPruning <- ir_deferredPruning,
        requiresMasterEvaluation <- ir_requiresMasterEvaluation,
        planningError <- ir_planningError, fatalError <- ir_fatalError, job <- ir_job

-----------------------------------------------------------------------------
(* The statement as each component sees it                                 *)

Modifies == command \in {"INSERT", "UPDATE", "DELETE"}

\* the relation restrictions of a statement's range table: one per
\* relation entry, in range table order, of a table with its method
ConsistentRestrictions ==
  LET rels == SelectSeq(mv_query.rtes, LAMBDA e : e.rtekind = "relation")
  IN /\ Len(rq_restrictions) = Len(rels)
     /\ \A i \in DOMAIN rq_restrictions :
          PartitionMethod[rq_restrictions[i].rel] = rels[i].partitionMethod

\* the INSERT's target table (RouterInsertJob's ExtractFirstDistributedTableId),
\* the expression of its partition column
\* entry and its ON CONFLICT clause
ConsistentInsert ==
  LET part == {i \in DOMAIN mv_query.targetList : mv_query.targetList[i].onPartition}
      pv == IF part = {} THEN {Missing}
            ELSE IF mv_query.targetList[CHOOSE i \in part : TRUE].expr.kind = "Const"
                 THEN Values \cup {Null} ELSE {NonConst}
  IN /\ ir_table.partitionMethod =
          mv_query.rtes[MV!ExtractFirstDistributedTableId(mv_query.rtes)].partitionMethod
     /\ ir_partitionValue \in pv
     /\ ir_onConflict = (mv_query.onConflict # NoExpr)

MVIdle ==
  /\ mv_query = NotCalled /\ mv_pc = NotCalled /\ mv_pos = NotCalled
  /\ mv_queryTableCount = NotCalled /\ mv_hasValuesScan = NotCalled
  /\ mv_specifiesPartitionValue = NotCalled /\ mv_hasVarArgument = NotCalled
  /\ mv_hasBadCoalesce = NotCalled /\ mv_error = NotCalled

RQIdle ==
  /\ rq_command = NotCalled /\ rq_restrictions = NotCalled
  /\ rq_requiresMasterEvaluation = NotCalled /\ rq_pc = NotCalled /\ rq_idx = NotCalled
  /\ rq_prunedRelationShardList = NotCalled /\ rq_multiShardQuery = NotCalled
  /\ rq_relationShardList = NotCalled /\ rq_anchorShardId = NotCalled
  /\ rq_placementList = NotCalled /\ rq_rteKind = NotCalled /\ rq_contextPruned = NotCalled
  /\ rq_planningError = NotCalled /\ rq_fatalError = NotCalled /\ rq_job = NotCalled

IRIdle ==
  /\ ir_table = NotCalled /\ ir_partitionValue = NotCalled
  /\ ir_masterEvaluation = NotCalled /\ ir_onConflict = NotCalled /\ ir_pc = NotCalled
  /\ ir_taskList = NotCalled /\ ir_deferredPruning = NotCalled
  /\ ir_requiresMasterEvaluation = NotCalled /\ ir_planningError = NotCalled
  /\ ir_fatalError = NotCalled /\ ir_job = NotCalled

\* a MultiPlan carrying a planning error and no job
ErrorPlan(e) ==
  [operation |-> command, planningError |-> e, workerJob |-> NoError,
   routerExecutable |-> FALSE, hasReturning |-> FALSE]

\* a router-executable MultiPlan with its worker job
JobPlan(j, returning) ==
  [operation |-> command, planningError |-> NoError, workerJob |-> j,
   routerExecutable |-> TRUE, hasReturning |-> returning]

Init ==
  /\ command \in {"SELECT", "INSERT", "UPDATE", "DELETE"}
  /\ plan = NoPlan
  /\ raised = NoError
  /\ IF command = "SELECT"
     THEN /\ stage = "classify"
          /\ hasForUpdate \in BOOLEAN
          /\ cteList \in CteCommands
          /\ hasReturningList = FALSE
          /\ MVIdle /\ IRIdle
          /\ RQ!Init /\ rq_command = "SELECT"
     ELSE /\ stage = "validate"
          /\ hasForUpdate = FALSE
          /\ cteList = <<>>
          /\ MV!Init /\ mv_query.command = command /\ ~mv_query.multiShardQuery
          /\ hasReturningList \in BOOLEAN
          /\ mv_query.returning # "none" => hasReturningList
          /\ IF command = "INSERT"
             THEN IR!Init /\ ConsistentInsert /\ RQIdle
             ELSE RQ!Init /\ rq_command = command /\ ConsistentRestrictions /\ IRIdle

-----------------------------------------------------------------------------
(* CreateModifyPlan                                                        *)

\* one step of ModifyQuerySupported(query, multiShardQuery = false)
ValidateStep ==
  /\ stage = "validate"
  /\ MV!Next
  /\ UNCHANGED <<driverVars, rqVars, irVars>>

\* Fault: the early return after a failed validation is missing.
ValidationIgnored == TRUE

\* ModifyQuerySupported returned NULL
ValidationPassed == mv_error = NoError

\* the validator's error is returned in the plan at once
ReturnValidationError ==
  /\ stage = "validate" /\ mv_pc = "done"
  /\ ~ValidationPassed
  /\ plan' = ErrorPlan(mv_error)
  /\ stage' = "done"
  /\ UNCHANGED <<command, hasForUpdate, cteList, hasReturningList, raised,
                 mvVars, rqVars, irVars>>

\* UpdateOrDeleteQuery: RouterJob, otherwise RouterInsertJob
JobStage == IF command \in {"UPDATE", "DELETE"} THEN "routerJob" ELSE "insertJob"

CallModifyJob ==
  /\ stage = "validate" /\ mv_pc = "done"
  /\ ValidationPassed
  /\ stage' = JobStage
  /\ UNCHANGED <<command, hasForUpdate, cteList, hasReturningList, plan, raised,
                 mvVars, rqVars, irVars>>

RouterJobStep ==
  /\ stage = "routerJob"
  /\ RQ!Next
  /\ UNCHANGED <<driverVars, mvVars, irVars>>

InsertJobStep ==
  /\ stage = "insertJob"
  /\ IR!Next
  /\ UNCHANGED <<driverVars, mvVars, rqVars>>

\* what the job builder of the statement left once it returned
JobResult ==
  IF command = "INSERT"
  THEN [pc |-> ir_pc, planningError |-> ir_planningError,
        fatalError |-> ir_fatalError, job |-> ir_job]
  ELSE [pc |-> rq_pc, planningError |-> rq_planningError,
        fatalError |-> rq_fatalError, job |-> rq_job]

\* the rest of CreateModifyPlan: an ereport(ERROR) of the job builder ends
\* planning, its planning error is returned in the plan, otherwise the
\* plan carries the job and whether the statement has RETURNING
ReturnModifyPlan ==
  /\ stage \in {"routerJob", "insertJob"} /\ Modifies
  /\ JobResult.pc = "done"
  /\ \/ /\ JobResult.fatalError # NoError
        /\ raised' = JobResult.fatalError
        /\ UNCHANGED plan
     \/ /\ JobResult.fatalError = NoError /\ JobResult.planningError # NoError
        /\ plan' = ErrorPlan(JobResult.planningError)
        /\ UNCHANGED raised
     \/ /\ JobResult.fatalError = NoError /\ JobResult.planningError = NoError
        /\ plan' = JobPlan(JobResult.job, hasReturningList)
        /\ UNCHANGED raised
  /\ stage' = "done"
  /\ UNCHANGED <<command, hasForUpdate, cteList, hasReturningList,
                 mvVars, rqVars, irVars>>

-----------------------------------------------------------------------------
(* CreateRouterPlan                                                        *)

\* MultiRouterPlannableQuery, with citus.enable_router_execution on as
\* CreateRouterPlan asserts: a modification, or a SELECT without FOR UPDATE
\* whose relations are all hash, range or reference tables
MultiRouterPlannableQuery ==
  \/ Modifies
  \/ /\ ~hasForUpdate
     /\ \A k \in DOMAIN rq_restrictions :
          PartitionMethod[rq_restrictions[k].rel] \in {"hash", "none", "range"}

\* ErrorIfQueryHasModifyingCTE: a top-level CTE that is not a SELECT
ErrorIfQueryHasModifyingCTE ==
  IF \E i \in DOMAIN cteList : cteList[i] # "SELECT" THEN "ModifyingCTE" ELSE NoError

\* CreateRouterPlan returns NULL for a SELECT the router cannot plan
RouterPlanNotPlannable ==
  /\ stage = "classify"
  /\ ~MultiRouterPlannableQuery
  /\ stage' = "done"
  /\ UNCHANGED <<command, hasForUpdate, cteList, hasReturningList, plan, raised,
                 mvVars, rqVars, irVars>>

\* CreateSingleTaskRouterPlan returns the CTE error in the plan
RejectModifyingCTE ==
  /\ stage = "classify"
  /\ MultiRouterPlannableQuery
  /\ ErrorIfQueryHasModifyingCTE # NoError
  /\ plan' = ErrorPlan(ErrorIfQueryHasModifyingCTE)
  /\ stage' = "done"
  /\ UNCHANGED <<command, hasForUpdate, cteList, hasReturningList, raised,
                 mvVars, rqVars, irVars>>

CallSelectJob ==
  /\ stage = "classify"
  /\ MultiRouterPlannableQuery
  /\ ErrorIfQueryHasModifyingCTE = NoError
  /\ stage' = "routerJob"
  /\ UNCHANGED <<command, hasForUpdate, cteList, hasReturningList, plan, raised,
                 mvVars, rqVars, irVars>>

\* the rest of CreateSingleTaskRouterPlan: a planning error of RouterJob
\* makes it return NULL, dropping the error; otherwise the job's plan
ReturnSelectPlan ==
  /\ stage = "routerJob" /\ command = "SELECT"
  /\ rq_pc = "done"
  /\ plan' = IF rq_planningError # NoError THEN NoPlan ELSE JobPlan(rq_job, FALSE)
  /\ stage' = "done"
  /\ UNCHANGED <<command, hasForUpdate, cteList, hasReturningList, raised,
                 mvVars, rqVars, irVars>>

Next ==
  \/ ValidateStep \/ ReturnValidationError \/ CallModifyJob
  \/ RouterJobStep \/ InsertJobStep \/ ReturnModifyPlan
  \/ RouterPlanNotPlannable \/ RejectModifyingCTE \/ CallSelectJob \/ ReturnSelectPlan

\* planning is one synchronous call: every enabled step is eventually taken
Spec == Init /\ [][Next]_vars /\ WF_vars(Next)

-----------------------------------------------------------------------------
(* Properties                                                              *)

\* a component of the job builders took a step: pruning or INSERT routing
\* has begun
RoutingStarted ==
  \/ rq_pc \notin {NotCalled, "prune"}
  \/ rq_idx \notin {NotCalled, 1}
  \/ rq_multiShardQuery = TRUE
  \/ ir_pc \notin {NotCalled, "prune"}

(* Spec sections 4.2 and 4.6: a write statement that breaks a rule of     *)
(* ModifyQuerySupported (Supported, stated over the whole statement) never *)
(* reaches pruning or INSERT routing and gets a plan carrying an error,   *)
(* however far its job builder would have got with it; one that keeps    *)
(* every rule gets what its job builder ran to: its ereport(ERROR), its   *)
(* planning error, or its job.  It is about the validator's early returns *)
(* and flags and CreateModifyPlan's return on the validator's error,      *)
(* before RouterJob or RouterInsertJob write through the same              *)
(* &multiPlan->planningError.                                              *)
WriteRoutedOnlyIfSupported ==
  stage = "done" /\ Modifies =>
    IF MV!Supported(mv_query)
    THEN /\ JobResult.pc = "done"
         /\ raised = JobResult.fatalError
         /\ raised = NoError =>
              /\ plan.planningError = JobResult.planningError
              /\ plan.workerJob = JobResult.job
    ELSE /\ ~RoutingStarted
         /\ raised = NoError
         /\ plan # NoPlan /\ plan.planningError # NoError /\ plan.workerJob = NoError

(* Spec section 3 (Statement): the planner rewrites the statement's table *)
(* references to shards in place only on the success path.  A call that  *)
(* returns no job (a NULL plan, which the caller's distributed planner    *)
(* answers by planning the same query again, or a plan with an error)     *)
(* leaves every range table entry RouterJob saw a relation.  It is about  *)
(* the order in PlanRouterQuery of the worker check and                   *)
(* UpdateRelationToShardNames, and the early returns of CreateModifyPlan  *)
(* and CreateSingleTaskRouterPlan after RouterJob.                        *)
RewriteOnlyOnSuccess ==
  (/\ stage = "done" /\ raised = NoError /\ rq_pc # NotCalled
   /\ (plan = NoPlan \/ plan.workerJob = NoError))
    => \A k \in DOMAIN rq_rteKind : rq_rteKind[k] = "relation"


=============================================================================
