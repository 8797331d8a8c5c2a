------------------------------ MODULE MCLogFS ------------------------------
(* Values of the constants of LogFS for model checking.                    *)
EXTENDS LogFS

(* A size_t for offsets of a small buffer, which divides it as it does     *)
(* 2^64.                                                                   *)
SizeT == 64 * Size

(* Appends of at most a block of two bytes: kvraw_append() appends empty   *)
(* values, and values that fill a block.                                   *)
UpToABlock == {0, 1, 2}

(* Longer appends, which leave more than a block in the write buffer, may  *)
(* fill it exactly, or find it full.                                       *)
TwoBlocks       == {4}
OneOrFive       == {1, 5}
HalfTheBuffer   == {5}
=============================================================================
