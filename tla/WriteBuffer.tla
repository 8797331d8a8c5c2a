---------------------------- MODULE WriteBuffer ----------------------------
(***************************************************************************)
(* The circular write buffer of the log file system (src/p4/logfs.c,       *)
(* write_buffer_open .. write_buffer_dequeue), as operators on a record.   *)
(***************************************************************************)
EXTENDS Bytes

CONSTANTS
  WBlocks,  \* blocks in the write buffer (WCACHE_BLOCKS)
  Word      \* number of values of a size_t

Size == WBlocks * Blk

(* The "% size" of a negative difference is only right because the size of *)
(* the buffer divides the range of size_t.                                 *)
ASSUME WriteBufferAssumption ==
  /\ WBlocks \in Nat \ {0}
  /\ Word \in Nat
  /\ Word > 2 * Size
  /\ Word % Size = 0

Index == 0 .. Size - 1

WriteBufferType ==
  [buffer : [Index -> Byte], head : Index, tail : Index, last_avail : Nat]

write_buffer_open ==
  [buffer |-> [i \in Index |-> 0],
   head |-> 0, tail |-> Size - 1, last_avail |-> 0]

-----------------------------------------------------------------------------
(* Adding.  The three memcpy() branches write the same cyclic range.       *)

Room(wb) ==
  IF wb.head <= wb.tail THEN wb.tail - wb.head + 1
                        ELSE (Size - wb.head) + wb.tail + 1

(* Mutant of Fits: off by one. *)
FitsOneMore(wb, len) == len <= Room(wb) + 1

Fits(wb, len) == len <= Room(wb)

(* Mutant of write_buffer_add: the head does not wrap around. *)
AddWithoutWrap(wb, first, len) ==
  [wb EXCEPT
     !.buffer = [i \in Index |->
                   LET k == (i - wb.head) % Size
                   IN  IF k < len THEN first + k ELSE wb.buffer[i]],
     !.head   = wb.head + len]

(* The bytes first, first + 1, ..., first + len - 1 go in at the head.     *)
write_buffer_add(wb, first, len) ==
  [wb EXCEPT
     !.buffer = [i \in Index |->
                   LET k == (i - wb.head) % Size
                   IN  IF k < len THEN first + k ELSE wb.buffer[i]],
     !.head   = (wb.head + len) % Size]

(* amount_buffered in logfs_append() and logfs_wb_avail(). *)
Buffered(wb) ==
  IF wb.head > wb.tail THEN wb.head - wb.tail - 1
                       ELSE (Size - wb.tail - 1) + wb.head

-----------------------------------------------------------------------------
(* Dequeueing: what the next device write holds.                           *)

(* `available': it underflows when head and tail meet. *)
Available(head, tail) ==
  IF tail <= head THEN (head - tail - 1) % Word
                  ELSE (Size - tail - 1) + head

(* A dequeueing flush takes one block: a longer head is moved back and the *)
(* computation restarted ("goto retry").                                   *)
FlushHead(wb, dont_dequeue) ==
  LET available == Available(wb.head, wb.tail)
  IN  IF ~dont_dequeue /\ available > Blk
      THEN ((wb.head - (available - Blk)) % Word) % Size
      ELSE wb.head

FlushLen(wb, dont_dequeue) == Available(FlushHead(wb, dont_dequeue), wb.tail)

(* write_buffer_dequeue() returns NULL. *)
NothingToFlush(wb, dont_dequeue) ==
  LET n == FlushLen(wb, dont_dequeue)
  IN  n = 0 \/ (dont_dequeue /\ n <= wb.last_avail)

(* A length that underflowed is rounded up to 0 and ends the process. *)
FlushExits(wb, dont_dequeue) ==
  /\ ~NothingToFlush(wb, dont_dequeue)
  /\ FlushLen(wb, dont_dequeue) > Size

roundUp(n) == n + ((-n) % Blk)

(* Mutant of FlushImage: starts at the tail, not behind it. *)
ImageFromTail(wb, dont_dequeue) ==
  LET n == FlushLen(wb, dont_dequeue)
  IN  [k \in 1 .. roundUp(n) |->
         IF k <= n THEN wb.buffer[(wb.tail + k - 1) % Size] ELSE 0]

(* disk_write_buf: the bytes after the tail, padded with zeros to a block. *)
FlushImage(wb, dont_dequeue) ==
  LET n == FlushLen(wb, dont_dequeue)
  IN  [k \in 1 .. roundUp(n) |->
         IF k <= n THEN wb.buffer[(wb.tail + k) % Size] ELSE 0]

(* The buffer after write_buffer_dequeue() returned a non-NULL image. *)
AfterFlush(wb, dont_dequeue) ==
  LET n == FlushLen(wb, dont_dequeue)
  IN  IF dont_dequeue
      THEN [wb EXCEPT !.last_avail = n]
      ELSE [wb EXCEPT !.last_avail = 0, !.tail = (wb.tail + n) % Size]
=============================================================================
