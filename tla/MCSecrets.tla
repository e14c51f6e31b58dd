------------------------------ MODULE MCSecrets ------------------------------
(* Two owners, two key IDs, two commands and one container.                *)
EXTENDS Secrets, TLC

CONSTANTS alice, bob, id1, id2, t1, t2, k1, k2, run1
=============================================================================
