# TLA+ models of the Citus router planner

This directory holds TLA+ models of `src/src/backend/distributed/planner/multi_router_planner.c`
and the TLC runs that check them. The router planner decides whether one INSERT,
UPDATE, DELETE or SELECT can be sent unchanged to a single shard placement. If it
can, the planner builds that one-task plan. The models keep every branch, early
return and loop of the planner's functions. They abstract the data to what the
checked properties distinguish:

- queries, shards and nodes are small sets of model values or records;
- expressions are bounded trees;
- catalog answers are inputs.

## The system and its parts

| Part (spec section) | Functions | Module(s) | Status |
|---|---|---|---|
| Routability classifier and planning driver (4.1, 4.6) | `CreateRouterPlan`, `CreateModifyPlan`, `CreateSingleTaskRouterPlan`, `MultiRouterPlannableQuery`, `ErrorIfQueryHasModifyingCTE` | `RouterPlanning` (composing the three modules below) | modelled |
| Modification validator (4.2) | `ModifyQuerySupported`, `TargetEntryChangesValue`, `UpdateOrDeleteQuery` | `ModifyValidation` | modelled |
| Expression reducibility analyzer (4.3) | `MasterIrreducibleExpression`, its walker, `MasterIrreducibleExpressionFunctionChecker` | `ExpressionWalker`, `ExpressionReducibility` | modelled |
| Shard pruner, SELECT/UPDATE/DELETE (4.4) | `TargetShardIntervalsForRouter`, `PlanRouterQuery`, `RelationPrunesToMultipleShards` | `RouterQuery`, abstract `RouterPlan` | modelled |
| Shard pruner, INSERT (4.4) | `RouterInsertJob`, `CanShardPrune`, `RouterInsertTaskList`, `ErrorIfNoShardsExist`, `FindShardForInsert`, `ExtractInsertPartitionValue` | `InsertRouting` | modelled |
| Placement resolver (4.5) | `WorkersContainingAllShards`, `IntersectPlacementList`, the dummy placement | `RouterQuery` | modelled |
| Plan assembler (4.6) | `RouterJob`, `GetUpdateOrDeleteRTE`, `SelectsFromDistributedTable`, `CreateJob`, `CreateTask` | `RouterQuery`, `InsertRouting` | modelled |
| INSERT ... SELECT helpers | `ShardIntervalOpExpressions`, `AddShardIntervalRestrictionToSelect`, `Extract*RangeTableEntry` | `ShardRestriction` | modelled; the two `Extract*` functions only fetch a list element and change no state |
| Context copy, clause lists | `CopyRelationRestrictionContext`, `get_all_actual_clauses` | `ShardRestriction` | modelled on a small heap, per shard of an INSERT ... SELECT |
| Catalog, `PruneShards`, `FindShardInterval`, deparser, executor | outside the source | inputs | contracts taken from the spec |

### How the parts interact

`CreateModifyPlan` runs the validator first. A statement it accepts goes down one of two paths:

- an INSERT goes to `RouterInsertJob`;
- an UPDATE or DELETE goes to `RouterJob`. `RouterJob` calls `PlanRouterQuery`, which prunes every relation restriction, checks that repeated references agree, intersects the placements and rewrites the range table.

A SELECT reaches `RouterJob` through `CreateRouterPlan` when `MultiRouterPlannableQuery` holds. The validator calls the reducibility analyzer on every UPDATE target entry and on the WHERE clause. `RouterJob` reads the range table as `PlanRouterQuery` left it.

The planner is sequential. It runs in one backend, and nothing in it runs concurrently. So its hard behaviours are not interleavings of processes. They are:

- the order of checks and early returns;
- loops that stop early (`expression_tree_walker`'s short-circuit, the quick bail-out of pruning, the `break` of the placement intersection);
- in/out flags gathered over several calls;
- state written by one function and read by the next (the rewritten range table);
- edges of the catalog: zero shards, a reference table with several shards, overlapping intervals, no active worker, a NULL partition value.

## Modules

- `RouterQuery`: `RouterJob` with `PlanRouterQuery` and `TargetShardIntervalsForRouter`. One planning call is one behaviour. The statement's command, its relation restrictions (per reference: the relation, whether the restrictions are a false clause, and what `PruneShards` returned) and `RequiresMasterEvaluation` are chosen in `Init`. Each action is one step of the planner:
  - `PruneRelation` and `PruneToMultipleShards` are one iteration of the pruning loop, the latter being the quick bail-out;
  - `RejectMultiShardQuery`, `RejectConflictingReferences`, `RouteToShardPlacements` and `RouteToDummyPlacement` are the exits of `PlanRouterQuery`;
  - `RouterJobFails`, `BuildEmptyJob`, `RejectReferenceModification` and `BuildRouterTask` are the exits of `RouterJob`.

  The variable `contextPruned` is the `prunedShardIntervalList` the loop stores in each relation restriction. The quick bail-out leaves it set for the restrictions before the one that prunes to several shards and empty for that one and the later ones.

  The helpers `RelationPrunesToMultipleShards` (sort, then compare neighbours), `WorkersContainingAllShards` (recursive, with its skip and its break), `IntersectPlacementList` and `RewrittenRteKinds` (`UpdateRelationToShardNames`) are operators. The variable `rteKind` records what the rewrite did to each range table entry. `RouterJob` reads it afterwards.
- `RouterPlan`: the abstract specification. It states the plan in one step, as a declarative function of the restrictions and the catalog. `RouterQuery` maps its result to `outcome` and is checked to implement `RouterPlan` (`RouterPlanRefinement`).
- `ExpressionWalker`: pure operators:
  - `MasterIrreducibleExpressionWalker`, written mutually recursive with PostgreSQL's `expression_tree_walker`, including its stop-at-first-true;
  - the function checker;
  - `MasterIrreducibleExpression`, which ors into the caller's flags;
  - the PostgreSQL predicates `contain_mutable_functions` and `contain_volatile_functions`;
  - the reference definition `Irreducible`.

  An expression is a tree of `Var`, `Const`, `Func` (volatility i/s/v), `Coalesce` and `Case` nodes.
- `ExpressionReducibility`: one call of the analyzer on every tree up to a bound.
- `ModifyValidation`: `ModifyQuerySupported`. A statement record holds the command, the caller's multi-shard flag, the coordinator flag, sublinks, CTEs, the range table, the target list, WHERE, RETURNING and ON CONFLICT. It is an input. The module has:
  - one action per block between early returns (`CheckSubLinksAndCte`, `CheckJoinsAndValues`, `CheckWhereAndReturning`, `CheckConflictWhereAndPartition`);
  - one action per iteration of each of the three loops (`RangeTableEntryStep`, `TargetEntryStep`, `OnConflictSetStep`).

  It uses `ExpressionWalker`. `WellFormed` restricts the inputs to what PostgreSQL's parser hands over:
  - the result relation comes first;
  - at most one assignment per column;
  - no target list for DELETE;
  - ON CONFLICT and VALUES appear only for INSERT.
- `InsertRouting`: `RouterInsertJob` and its callees. The inputs are the table's catalog entry (partition method and sorted intervals), the partition value (a constant, NULL, a non-constant or missing), `RequiresMasterEvaluation` and ON CONFLICT. The actions are:
  - `CheckShardPrune` (`CanShardPrune` and deferred pruning);
  - `BuildInsertTaskList` (`ErrorIfNoShardsExist`, `FindShardForInsert`, `CreateTask`);
  - `BuildInsertJob` (`RebuildQueryStrings`, `CreateJob`).

  `FindShardInterval` and `PruneShards` are outside the source. Their contract is taken from the spec: the intervals that hold the value, hashed for hash tables.
- `RouterPlanning`: the planning driver, `CreateRouterPlan`, `CreateModifyPlan` and `CreateSingleTaskRouterPlan`, composed with `ModifyValidation` (`MV`), `RouterQuery` (`RQ`) and `InsertRouting` (`IR`). Each is a named `INSTANCE` whose variables are renamed (`mv_*`, `rq_*`, `ir_*`). The driver's variable `stage` says which component may step; the driver takes `MV!Next`, `RQ!Next` or `IR!Next` only in the matching stage (`ValidateStep`, `RouterJobStep`, `InsertJobStep`). The statement and every component's input are chosen in `Init`, consistently with each other:
  - `ConsistentRestrictions`: the relation restrictions `RouterQuery` sees are the statement's relation range table entries;
  - `ConsistentInsert`: the table and partition value `InsertRouting` sees are the INSERT's target table and its partition column's target entry.

  `ConsistentInsert` takes the INSERT's table as `ExtractFirstDistributedTableId` finds it, as `RouterInsertJob` does; `ModifyValidation` uses the same operator for the partition column it checks SET entries against. `RouterQuery` and `InsertRouting` build their jobs from `CreateJob`'s defaults.

  A component the statement's path never calls keeps all its variables at `NotCalled`. The driver's own actions are the blocks of the three functions: `ReturnValidationError`, `CallModifyJob`, `JobResult`, `ReturnModifyPlan` (a raised error, a plan carrying the planning error, or the job's plan) for modifications; `MultiRouterPlannableQuery`, `RouterPlanNotPlannable`, `RejectModifyingCTE` (`ErrorIfQueryHasModifyingCTE`), `CallSelectJob` and `ReturnSelectPlan` for SELECT.
- `ShardRestriction`: `AddShardIntervalRestrictionToSelect`, called by the INSERT ... SELECT planner on one copy of the SELECT per shard of a hash-distributed table, and `ShardIntervalOpExpressions`. The caller's loop over the shard intervals is `CallerNextShard`. The actions are one iteration of the target list search (`FindPartitionColumnStep`, stopping at the first partition column `Var`) and `AddShardBounds` (the hash function check, then the bounds set as the WHERE clause or conjoined with it by `make_and_qual`). The SELECT reads a small set of rows, each with a partition key (possibly NULL) and another column; its WHERE is kept only as a three-valued truth value per row. `Returns(s, r)` evaluates shard `s`'s filter on row `r` under SQL's rules, with `worker_hash` strict.
  For each shard the caller also copies the SELECT's relation restriction context, extends the copy and plans it. The module keeps the contexts on a small heap: `structs` (the `RelationRestriction`s), `relOpts` (their `RelOptInfo`s) and `lists` (`RestrictInfo` lists) are sequences indexed by address, with `NIL` as address 0. A shallow copy therefore shares an address, and a deep copy appends a new one. `copies[s]` holds the addresses of shard `s`'s copy, and the original context is addresses `1..nRestrictions`. The actions are:
  - `CopyRestrictionStep`: one iteration of `CopyRelationRestrictionContext`. It makes a new struct and a flat copy of the `RelOptInfo`, copies `baserestrictinfo` with `CopyList` (`copyObject`), and shares `prunedShardIntervalList`.
  - `ExtendCopyStep`: the caller adds the shard's `ShardIntervalOpExpressions` constraint with `list_concat`. For `NIL` this returns the added list; otherwise it appends in place. The caller is not in this file; the model follows the comment in the copy function that explains why `baserestrictinfo` is decoupled.
  - `PruneCopyStep`: one iteration of the restriction loop of `TargetShardIntervalsForRouter` on the copy. It uses `get_all_actual_clauses` (`ActualClauses`) and the multi-shard bail-out. `PruneShards` is external: it may return any set of shards that keeps every shard meeting the hashed constraints (`PruneShardsResults`).
- `MC_*`: the constants of each model.

## Runs

| Run | Checks | Shows |
|---|---|---|
| `router_query` (pass) | `TypeOK`, `RouterPlanRefinement` | Every plan `RouterJob` returns is the one `RouterPlan` defines. This covers multi-shard rejection, conflicting references, placement intersection, the dummy placement, the empty job and the reference-table error. |
| `router_same_table` (violation) | `SameTablePrunesIdentically` | Spec 8: repeated references must prune identically. The code lets `{s}` next to `{}` through. |
| `router_contradiction` (violation) | `ContradictionUpdateEmitsTask` | Spec 8's contradiction scenario expects a task. The code returns an empty task list. |
| `expression_reducibility` (pass) | `IrreducibleHasReason`, `FlagsMatchIrreducible` | The code's `Assert(hasVarArgument \|\| hasBadCoalesce)` holds. The flags are set exactly for the trees `Irreducible` describes. |
| `expression_spec43` (violation) | `StableColumnArgumentRejected` | Spec 4.3 rejects a STABLE function with a column anywhere below it. The walker does not see a column inside COALESCE/CASE. |
| `modify_validation` (pass) | `AcceptsExactlySupported` | The validator accepts a statement exactly when all of its rules hold over the whole statement. No early return or flag accumulation loses a rule. |
| `modify_spec_reference` (violation) | `ReferenceRejectionNeedsReferenceTarget` | Off the coordinator, the code rejects a reference table that is only read. |
| `insert_routing` (pass) | `InsertRoutedAsSpecified` | Every INSERT ends as spec sections 7 and 8 say: fatal errors, deferred pruning, the one target shard, query strings. |
| `insert_multiple_candidates` (violation) | `MultipleCandidatesFatal` | Several candidate shards for a literal value give a recoverable error, not the fatal error spec 7 lists. |
| `router_planning` (pass) | `WriteRoutedOnlyIfSupported`, `RewriteOnlyOnSuccess` | Across the composed driver, a write that breaks a rule of the validator (stated declaratively by `Supported`) never reaches pruning or insert routing and gets an error plan, while one that keeps every rule gets exactly its job builder's result. A call that returns no job leaves every range table entry a relation (spec 3: the statement is rewritten only on the success path). |
| `shard_restriction` (pass) | `TypeOK`, `ShardsPartitionSelect`, `CopiesPruneToOwnShard` | Each selected row with a non-NULL key is returned by the subquery of the shard that owns its key's hash and by no other, and no filtered-out row is returned by any. Bounds on the wrong target entry would still split the rows, but into the wrong shards, so this catches them. In every state the original restriction context keeps its clauses and pruned lists, even after a copy's pruning bails out. When planning succeeds, every restriction of every shard's copy is pruned to that shard alone. |
| `shard_restriction_null_key` (violation) | `SelectedRowsReachAShard` | A row with a NULL partition key passes no shard's filter, and nothing reports it. |

Each property of a passing run has a mutant in `PROJECT.json`. A mutant is a plausible fault in a mapped definition that the run must catch:

- the anchor taken from the wrong field;
- the conflict check without its sort;
- a STABLE node dropping `badCoalesce`;
- children walked with a fresh state;
- the walker overwriting the caller's flags;
- a NULL constant treated as non-constant;
- the validator's verdict ignored by the driver;
- the range table rewritten before the worker check;
- the first column `Var` taken for the partition column;
- the shard bounds replacing the WHERE clause;
- the copied `RelOptInfo` keeping the original's `baserestrictinfo` list. It passes without a WHERE clause (`list_concat` onto `NIL` allocates), and with one it carries shard 1's constraint into shard 2's pruning.

The `findings` section lists the six divergences and gaps above with their lines.

## Bounds and why they suffice

- `MC_RouterQuery` has four relations: two hash, one reference and one range table with no shards. It has shards with overlapping placements on three nodes; two of the nodes share a name, and two share a port. A query has up to three restrictions, each with any subset of its relation's shards. This is enough for:
  - a self-join on different shards, with a third reference between them (which the sort must handle);
  - the empty intersection followed by more shards;
  - an all-pruned query with and without an active worker;
  - a modified reference table with a distributed read.
- `MC_ExpressionReducibility` uses unary trees to depth 4 and binary trees to depth 2. That is enough to put COALESCE under STABLE under an immutable function, and a true first child before a flagged sibling.
- `MC_ModifyValidation` combines every command, flag and range table of up to three entries over a simple target list (`ShapeQueries`), with every target list of up to two entries, WHERE, RETURNING class and ON CONFLICT clause of up to two SET entries over one table (`ExpressionQueries`). This reaches each early return after a loop has already set state.
- `MC_RouterPlanning` reuses a smaller catalog: two hash tables, a reference table and an append table, on three nodes. It plans UPDATEs and DELETEs over one or two of these relations, with and without a column-changing target entry, a sublink (accepted for a single-shard write) and a volatile WHERE clause (rejected), so validator errors found after a loop reach the driver. It plans INSERTs into each table kind with a constant, NULL, non-constant or missing partition value, and SELECTs with and without `FOR UPDATE`. CTE lists are none, a SELECT, an UPDATE, or a SELECT followed by an INSERT. Every exit of the three driver functions is reached, after each component's errors and successes.
- `MC_ShardRestriction` uses two rows with keys in 1..3 or NULL, a hash onto 0..3 that does not preserve order, and sorted interval lists covering 0..3 with one, two and three shards. Target lists have up to two entries, so another column or an expression over the key can stand before the partition column. WHERE is absent or any three-valued truth assignment. This lets a row be filtered out by WHERE but fall in a shard's bounds, and lets a NULL WHERE combine with a NULL key. The restriction context has one or two restrictions (`MaxRestrictions = 2`, a self-join), and its `baserestrictinfo` is `NIL` or holds the pushed-down WHERE clause. With two or three shards, a list shared between copies is extended a second time. The run has about 1.6 million states.
- `MC_InsertRouting` uses every sorted list of up to two intervals over 0..3, including gaps and overlaps, for every partition method. It uses values 1..3, a hash that does not preserve order, and reference tables with 0, 1 and 2 shards.

## Fairness

Planning is one synchronous call that always returns. The specifications assume weak fairness of `Next`, which only says the call does not stop half-way. No process or message can wait forever inside the planner, so no stronger fairness is needed. The runs set `CHECK_DEADLOCK FALSE` because a planning call ends in a terminal state. Every loop in the code is over a finite list and nothing waits, so the call returning is a property of the C code, not a question for the models. No run states it on its own. `router_query` still reaches the abstract plan's terminal outcome through `RouterPlanRefinement`.

## Not modelled, and why

- Deparsing into query strings: only whether the strings were built is kept. `ShardRestriction` keeps the meaning of the nodes it builds, not the nodes.
- `ExtractSelectRangeTableEntry` and `ExtractInsertRangeTableEntry`: they return a list element and change nothing.
- In `CopyRelationRestrictionContext`: the `rte` copy and `joininfo`. Nothing in this path changes them after the copy, and no pseudo-constant false clause is among the inputs.
- The caller of `CreateRouterPlan` (the distributed planner outside this file) and of `AddShardIntervalRestrictionToSelect`, beyond its loop over the shards and its extension of the copied restriction context.
- The catalog lookups, `PruneShards`, `FindShardInterval` and `ActivePrimaryNodeList`. They are outside the source, so their results are inputs.
- The order in which `ExtractRangeTableEntryWalker` visits a statement with sublinks. It is outside this file and the spec does not state it. `ExtractFirstDistributedTableId` is modelled over the range table in order, with the result relation first, as PostgreSQL's parser places it. The hazard of a sublink's table being met first is listed in `PROJECT.json`.
- What the external `ConvertRteToSubqueryWithEmptyResult` leaves in a converted range table entry. `SelectsFromDistributedTable` (and `RouterPlan`) skip an entry rewritten to an empty subquery, while the code at line 1586 skips only an entry whose `relid` is `InvalidOid`. The two agree only if the conversion clears `relid`, which this repository does not show.
- Names longer than `WORKER_LENGTH` in `IntersectPlacementList`. Both names are held in fields of that size, so the bounded compare sees the whole name.

## Plan for the next sittings

1. Larger catalogs for `MC_RouterPlanning` (three restrictions on a SELECT, a range table) where the run time allows.
2. Revisit the hazards in `PROJECT.json` that have no property, if the code outside this file they depend on becomes part of the source.
