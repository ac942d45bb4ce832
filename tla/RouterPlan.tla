----------------------------- MODULE RouterPlan -----------------------------
(***************************************************************************)
(* What router planning of a SELECT, UPDATE or DELETE promises, stated     *)
(* declaratively and decided in one step: the plan as a function of the    *)
(* query's relation restrictions and the catalog.  RouterQuery computes    *)
(* the same decision with the planner's loops and is checked to refine     *)
(* this specification.                                                     *)
(***************************************************************************)
EXTENDS Integers, Sequences, FiniteSets

CONSTANTS Relations, PartitionMethod, ShardsOf, Nodes, PlacementsOf,
          INVALID_SHARD_ID, NoWorker, NoError, Pending

VARIABLES
  command,                  \* the statement's command type
  restrictions,             \* relation restrictions, as in RouterQuery
  requiresMasterEvaluation, \* the statement has functions to evaluate first
  outcome                   \* Pending, then the planning result

inputs == <<command, restrictions, requiresMasterEvaluation>>

\* the shards a restriction keeps after pruning
Kept(k) ==
  IF restrictions[k].whereFalse \/ ShardsOf[restrictions[k].rel] = {}
  THEN {} ELSE restrictions[k].pruned

\* every relation-to-shard pair the statement is routed to
Routed == UNION {{[relationId |-> restrictions[k].rel, shardId |-> s] : s \in Kept(k)} :
                 k \in DOMAIN restrictions}

Targeted == {rs.shardId : rs \in Routed}

\* the nodes holding a placement of every targeted shard; with no target
\* the first active worker, if there is one
Workers(firstWorker) ==
  IF Targeted # {} THEN {n \in Nodes : \A s \in Targeted : n \in PlacementsOf[s]}
  ELSE IF firstWorker = NoWorker THEN {} ELSE {firstWorker}

\* the shard of the first restriction that kept one
Anchor ==
  IF Targeted = {} THEN INVALID_SHARD_ID
  ELSE LET first == CHOOSE k \in DOMAIN restrictions :
                      Kept(k) # {} /\ \A j \in 1..(k - 1) : Kept(j) = {}
       IN CHOOSE s \in Kept(first) : TRUE

Modifies == command \in {"UPDATE", "DELETE"}

\* a range table entry that becomes an empty subquery: its relation is
\* routed nowhere and the relations are rewritten at planning time
Replaced(k) ==
  /\ ~(Modifies /\ requiresMasterEvaluation)
  /\ \A rs \in Routed : rs.relationId # restrictions[k].rel

Failure(e) == [planningError |-> e, fatalError |-> NoError, job |-> NoError]

Success(tasks) ==
  [planningError |-> NoError, fatalError |-> NoError,
   job |-> [taskList |-> tasks,
            requiresMasterEvaluation |-> requiresMasterEvaluation /\ tasks # <<>>]]

\* the plan of the statement
Planned(firstWorker) ==
  CASE \E k \in DOMAIN restrictions : Cardinality(Kept(k)) > 1
         -> Failure("MultiShardCommand")
    [] \E a, b \in Routed : a.relationId = b.relationId /\ a.shardId # b.shardId
         -> Failure("RelationPrunesToMultipleShards")
    [] Workers(firstWorker) = {}
         -> Failure("NoWorkerWithAllPlacements")
    [] Modifies /\ Replaced(1)
         -> Success(<<>>)
    [] /\ Modifies
       /\ PartitionMethod[restrictions[1].rel] = "none"
       /\ \E k \in DOMAIN restrictions :
            k > 1 /\ ~Replaced(k) /\ PartitionMethod[restrictions[k].rel] # "none"
         -> [planningError |-> NoError,
             fatalError |-> "ModifyReferenceWithDistributedSelect", job |-> NoError]
    [] OTHER
         -> Success(<<[taskType |-> IF Modifies THEN "MODIFY_TASK" ELSE "ROUTER_TASK",
                       anchorShardId |-> Anchor,
                       taskPlacementList |-> Workers(firstWorker),
                       relationShardList |-> Routed]>>)

Init == outcome = Pending

Decide ==
  /\ outcome = Pending
  /\ \E firstWorker \in Nodes \cup {NoWorker} : outcome' = Planned(firstWorker)
  /\ UNCHANGED inputs

Spec == Init /\ [][Decide]_<<inputs, outcome>> /\ WF_<<inputs, outcome>>(Decide)

=============================================================================
