------------------------ MODULE MCRequestCollapsing -------------------------
(***************************************************************************)
(* A small instance of RequestCollapsing for TLC: the loader of k1 may ask *)
(* for k2, that of k2 for nothing.                                         *)
(***************************************************************************)
EXTENDS RequestCollapsing, TLC

CONSTANTS k1, k2

OneNeedsTwo == [k \in Keys |-> IF k = k1 THEN {k2} ELSE {}]

=============================================================================
