------------------------- MODULE MC_ShardRestriction -------------------------
EXTENDS ShardRestriction

CONSTANTS r1, r2

MCRows == {r1, r2}

MCValues == 1..3

\* a hash that does not preserve order, onto the hash space 0..3
MCHashOf == [v \in MCValues |-> (3 * v) % 4]

MCExprOf == [v \in MCValues |-> (v % 3) + 1]

Iv(lo, hi) == [min |-> lo, max |-> hi, bounded |-> TRUE]

\* hash shard intervals cover the whole hash space, sorted and disjoint
MCIntervalLists ==
  { <<Iv(0, 3)>>, <<Iv(0, 1), Iv(2, 3)>>, <<Iv(0, 0), Iv(1, 3)>>,
    <<Iv(0, 0), Iv(1, 2), Iv(3, 3)>> }

\* target lists of up to two entries holding a partition column Var
MCTargetLists ==
  {tl \in UNION {[1..n -> TargetEntryKinds] : n \in 1..2} :
     \E i \in DOMAIN tl : tl[i] = "partVar"}

=============================================================================
