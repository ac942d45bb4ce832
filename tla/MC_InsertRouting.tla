------------------------- MODULE MC_InsertRouting -------------------------
(***************************************************************************)
(* Catalog entries for InsertRouting: every sorted list of at most two     *)
(* intervals over 0..3 (with gaps and overlaps), for each partition        *)
(* method; values 1..3 with a hash that does not preserve order.           *)
(***************************************************************************)
EXTENDS InsertRouting

MCValues == 1..3
MCHashOf == [v \in MCValues |-> (3 * v) % 4]

Intervals == {[min |-> a, max |-> b] : a \in 0..3, b \in 0..3} \cap
             {i \in [min : 0..3, max : 0..3] : i.min <= i.max}

SortedIntervalLists ==
  {<<>>} \cup {<<i>> : i \in Intervals}
  \cup {<<i, j>> \in Intervals \X Intervals : i.min <= j.min /\ i # j}

MCTables ==
  [partitionMethod : {"hash", "range", "append"}, intervals : SortedIntervalLists]
  \cup [partitionMethod : {"none"},
        intervals : {<<>>, <<[min |-> 0, max |-> 3]>>,
                     <<[min |-> 0, max |-> 3], [min |-> 0, max |-> 3]>>}]

=============================================================================
