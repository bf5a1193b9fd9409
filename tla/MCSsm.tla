-------------------------------- MODULE MCSsm --------------------------------
(* Two machines, the shape of the drivers that use cleanup states: the child  *)
(* of the one that polls has its own cleanup.  The root loops in its work and *)
(* may jump to its cleanup; neither jumps out of a cleanup.                   *)
EXTENDS FpiSsm

MCNrStates == [m \in Machine |-> IF m = 1 THEN 4 ELSE 3]
MCStartCleanup == [m \in Machine |-> IF m = 1 THEN 2 ELSE 1]
MCJumps == [m \in Machine |-> IF m = 1 THEN {<<1, 0>>, <<0, 2>>} ELSE {<<0, 1>>}]
=============================================================================
