----------------------------- MODULE MCKVStore -----------------------------
(* Values of the constants of KVStore for model checking.                  *)
EXTENDS KVStore, TLC

CONSTANTS k1, k2, k3, v1, v2

(* k1 and k2 share their hash (0 and 1 are the same), their length and     *)
(* their first bytes, so that only a second read tells them apart; all     *)
(* hashes meet in one slot of a table of three.  A record of k1 and v2 is  *)
(* longer than a block, one of k1 and v1 or k3 and v2 as long.             *)
Hashes  == (k1 :> 0) @@ (k2 :> 1) @@ (k3 :> 4) @@ (Zero :> 7)
Lengths == (k1 :> 2) @@ (k2 :> 2) @@ (k3 :> 1) @@ (Zero :> 1)
Starts  == (k1 :> 1) @@ (k2 :> 1) @@ (k3 :> 2) @@ (Zero :> 0)
ValLens == (v1 :> 1) @@ (v2 :> 2) @@ (Zero :> 1)
=============================================================================
