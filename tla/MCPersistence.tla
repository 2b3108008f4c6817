---------------------------- MODULE MCPersistence ----------------------------
(***************************************************************************)
(* Small instances of Persistence for TLC.                                 *)
(***************************************************************************)
EXTENDS Persistence

CONSTANTS k1, k2, c1, c2, v1, v2

\* Each key has a client of its own; or both clients write every key.
OneEach == [k \in Keys |-> IF k = k1 THEN {c1} ELSE {c2}]
Shared  == [k \in Keys |-> Clients]

\* The name of k2 begins with that of k1.
Longer == [k \in Keys |-> {k1, k} \cap Keys]

\* What each key is set to: k2 for one tick, and it is deleted too.  Any other
\* value of theirs was read in a damaged line.
Set(k, v, ttl) == [op |-> "set", key |-> k, value |-> v, ttl |-> ttl]
Mixed == {Set(k1, v1, None), Set(k2, v2, 1),
          [op |-> "del", key |-> k2, value |-> None, ttl |-> None]}

\* Key k1 is set to either value; or for one tick.
Plain == {Set(k1, v, None) : v \in Values}
Brief == {Set(k1, v, 1) : v \in Values}
=============================================================================
