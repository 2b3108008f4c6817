--------------------------- MODULE MCShardedCache ---------------------------
(***************************************************************************)
(* Small instances of ShardedCache for TLC.  The constants a .cfg cannot   *)
(* write are the definitions below; each run picks one of each.            *)
(***************************************************************************)
EXTENDS ShardedCacheProperties, TLC

CONSTANTS k1, k2, k3, k4, v1, t1, t2

\* k1 and k2 in the first shard, the others apart; k1, k2 and k3 in the first.
TwoTogether   == [k \in Keys |-> CASE k = k3 -> 1 [] k = k4 -> 2 [] OTHER -> 0]
ThreeTogether == [k \in Keys |-> IF k = k4 THEN 1 ELSE 0]

\* One size for each shard, or one for all, so that the keys of a shard are alike.
Sizes   == [k \in Keys |-> [v \in Values |-> CASE k = k3 -> 4 [] k = k4 -> 16 [] OTHER -> 1]]
OneSize == [k \in Keys |-> [v \in Values |-> 1]]

AlikePair   == Permutations(Threads) \cup Permutations({k1, k2})
AlikeTriple == Permutations(Threads) \cup Permutations({k1, k2, k3})
=============================================================================
