--------------------------- MODULE MCTartProvider ---------------------------
(* A host for model-checking TartProvider: two machines of the pool and one *)
(* of somebody else, two calls of Delete.                                   *)
EXTENDS TartProvider, TLC

CONSTANTS vm1, vm2, other, c1, c2
=============================================================================
