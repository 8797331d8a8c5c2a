------------------------------- MODULE Bytes -------------------------------
(***************************************************************************)
(* The bytes that the log file system of src/p4 moves around.              *)
(*                                                                         *)
(* What a byte holds never matters to logfs.c, only which byte it is: the  *)
(* k-th byte ever appended to the log is the number k, and the zero that   *)
(* calloc() and memset() leave behind is 0.  So a byte that is misplaced,  *)
(* duplicated, lost or stale is always told apart from the right one.      *)
(***************************************************************************)
EXTENDS Integers, Sequences

CONSTANTS
  Blk,      \* bytes in a device block (device_block())
  MaxLog    \* bound: bytes ever appended to the log

ASSUME BytesAssumption ==
  /\ Blk \in Nat \ {0}
  /\ MaxLog \in Nat

Byte == 0 .. MaxLog

(* The offset of the block that an offset falls in. *)
RoundDown(offset) == (offset \div Blk) * Blk
=============================================================================
