----------------------------- MODULE ReadCache -----------------------------
(***************************************************************************)
(* The read cache of the log file system (src/p4/logfs.c, read_cache_open  *)
(* .. read_cache_invalidate): a table of device blocks, keyed by the       *)
(* offset of the block's first byte.                                       *)
(***************************************************************************)
EXTENDS Bytes

CONSTANT RBlocks  \* elements in the cache (RCACHE_BLOCKS)

ASSUME ReadCacheAssumption == RBlocks \in Nat \ {0}

Slot      == 1 .. RBlocks
BlockData == [1 .. Blk -> Byte]
ZeroBlock == [k \in 1 .. Blk |-> 0]

ReadCacheType ==
  [Slot -> [valid : BOOLEAN, begin_offset : Nat, data : BlockData]]

read_cache_open ==
  [s \in Slot |-> [valid |-> FALSE, begin_offset |-> 0, data |-> ZeroBlock]]

(* The valid elements that hold the block of an offset. *)
Holding(rc, offset) ==
  {s \in Slot : rc[s].valid /\ rc[s].begin_offset = RoundDown(offset)}

(* Mutant of read_cache_lookup: any valid element will do. *)
LookupAnyValid(rc, offset) == {s \in Slot : rc[s].valid}

(* The elements that read_cache_lookup() may find: the first one. *)
read_cache_lookup(rc, offset) ==
  {s \in Holding(rc, offset) : \A t \in Holding(rc, offset) : s <= t}

(* The elements that read_cache_add() may take: the first unused one, or   *)
(* any one (rand()) if all are used.                                       *)
Victims(rc) ==
  LET unused == {s \in Slot : ~rc[s].valid}
  IN  IF unused = {} THEN Slot
                     ELSE {s \in unused : \A t \in unused : s <= t}

(* read_cache_add() into element s. *)
read_cache_add(rc, s, data, offset) ==
  [rc EXCEPT ![s] = [valid |-> TRUE, begin_offset |-> offset, data |-> data]]

(* Mutant of read_cache_invalidate: forgotten. *)
NoInvalidate(rc, offset) == rc

(* Only the block that starts at `offset' is dropped: the length that the  *)
(* caller passes is not used.                                              *)
read_cache_invalidate(rc, offset) ==
  [s \in Slot |->
     IF s \in Holding(rc, offset)
     THEN [rc[s] EXCEPT !.valid = FALSE, !.data = ZeroBlock]
     ELSE rc[s]]
=============================================================================
