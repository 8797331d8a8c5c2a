-------------------------------- MODULE SCM --------------------------------
(***************************************************************************)
(* The allocator of src/p3/scm.c, as operators on a record: blocks one     *)
(* after the other in a mapped file, each with a header (in use, size).    *)
(* scm_malloc() takes the bytes after the last block while there are any,  *)
(* then the first free block that is large enough; a freed block keeps its *)
(* size.  A block is named by the offset of its memory from addr.          *)
(***************************************************************************)
EXTENDS Integers

CONSTANTS
  Capacity,  \* size of the file
  Header,    \* sizeof (short) + sizeof (size_t)
  SizeT      \* sizeof (size_t): the word before addr that holds utilized

ASSUME SCMAssumption ==
  /\ Capacity \in Nat /\ Header \in Nat \ {0} /\ SizeT \in Nat \ {0}
  /\ SizeT < Header

NULL == 0

NoBlocks == [utilized |-> 0, block |-> [p \in {} |-> 0]]

Blocks(scm) == DOMAIN scm.block

scm_mbase == Header

HasRoom(scm, n) == scm.utilized + Header + n <= Capacity

(* Mutant of Fitting: any block that is large enough. *)
FittingAny(scm, n) ==
  {p \in Blocks(scm) : /\ scm.block[p].n >= n
                       /\ p - Header < Capacity - Header - SizeT}

(* The free blocks that the scan from the beginning would take.            *)
Fitting(scm, n) ==
  {p \in Blocks(scm) : /\ ~scm.block[p].used
                       /\ scm.block[p].n >= n
                       /\ p - Header < Capacity - Header - SizeT}

(* The first of the free blocks, if there is one, is taken whole. *)
FirstOf(scm, free) ==
  IF free = {} THEN [p |-> NULL, scm |-> scm]
  ELSE LET p == CHOOSE q \in free : \A r \in free : q <= r
       IN  [p |-> p, scm |-> [scm EXCEPT !.block[p].used = TRUE]]

(* Mutant of scm_malloc: the header is counted twice. *)
scm_mallocTwice(scm, n) ==
  IF HasRoom(scm, n)
  THEN LET p == scm.utilized + Header
       IN  [p |-> p,
            scm |-> [utilized |-> p + Header + n,
                     block |-> [q \in Blocks(scm) \cup {p} |->
                                  IF q = p THEN [used |-> TRUE, n |-> n]
                                           ELSE scm.block[q]]]]
  ELSE FirstOf(scm, Fitting(scm, n))

scm_malloc(scm, n) ==
  IF HasRoom(scm, n)
  THEN LET p == scm.utilized + Header
       IN  [p |-> p,
            scm |-> [utilized |-> p + n,
                     block |-> [q \in Blocks(scm) \cup {p} |->
                                  IF q = p THEN [used |-> TRUE, n |-> n]
                                           ELSE scm.block[q]]]]
  ELSE FirstOf(scm, Fitting(scm, n))

(* Mutant of scm_free: it takes the block to be the one before. *)
FreeBefore(scm, p) ==
  LET before == {q \in Blocks(scm) : q < p}
      q      == CHOOSE q \in before : \A r \in before : r <= q
  IN  [scm EXCEPT !.block[q].used = FALSE]

scm_free(scm, p) == [scm EXCEPT !.block[p].used = FALSE]

(* The bound of scm_malloc() forgets the word before addr: a last block    *)
(* may end after the mapping, and the process is killed when it fills it   *)
(* (the file is a whole number of pages, so nothing is mapped after it).   *)
Overruns(scm, p) == p + scm.block[p].n > Capacity - SizeT

(* Of the smallest of these blocks not even the size is in the mapping: the *)
(* process is killed when it writes that, and the block is not taken.      *)
Unmapped(p) == p > Capacity - SizeT

(* The blocks fill what is utilized: the first begins with it, each with    *)
(* its header, the next begins where one ends, and none reaches into       *)
(* another.                                                                *)
Tiled(scm) ==
  /\ scm.utilized = 0 \/ scm_mbase \in Blocks(scm)
  /\ \A p \in Blocks(scm) :
       LET after == p + scm.block[p].n
       IN  after = scm.utilized \/ after + Header \in Blocks(scm)
  /\ \A p, q \in Blocks(scm) : p < q => p + scm.block[p].n + Header <= q
=============================================================================
