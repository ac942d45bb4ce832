--------------------------- MODULE MC_RouterQuery ---------------------------
(***************************************************************************)
(* A catalog small enough to enumerate every query shape over it:          *)
(*   1: hash table with shards 11, 12                                      *)
(*   2: hash table with shard 21                                           *)
(*   3: reference table with shard 31                                      *)
(*   4: range table without shards                                         *)
(* Nodes a1, a2 share a name, a1 and b1 share a port, so that matching on  *)
(* only one of nodeName and nodePort gives a different intersection.       *)
(* Shard 11 is co-located with 21 on a1 and with 31 on b1; 12 is           *)
(* co-located with 31 but with no shard of table 2.                        *)
(***************************************************************************)
EXTENDS RouterQuery

a1 == [name |-> "a", port |-> 1]
a2 == [name |-> "a", port |-> 2]
b1 == [name |-> "b", port |-> 1]

MCRelations == {1, 2, 3, 4}
MCPartitionMethod == (1 :> "hash") @@ (2 :> "hash") @@ (3 :> "none") @@ (4 :> "range")
MCShardsOf == (1 :> {11, 12}) @@ (2 :> {21}) @@ (3 :> {31}) @@ (4 :> {})
MCNodes == {a1, a2, b1}
MCPlacementsOf == (11 :> {a1, b1}) @@ (12 :> {b1}) @@ (21 :> {a1, a2}) @@ (31 :> {a2, b1})
MCMaxRefs == 3
=============================================================================
