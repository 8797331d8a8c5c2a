------------------------------ MODULE KVStore ------------------------------
(***************************************************************************)
(* The key/value store of src/p4/kvdb.c on the record log of kvraw.c: a    *)
(* mutation appends a record, the index maps the hash of a key to the      *)
(* offset of the last record with that hash, and each record holds the     *)
(* offset of the one before it.  Opening with restore reads the records    *)
(* back and rebuilds the index, the counters and the write buffer.         *)
(*                                                                         *)
(* The log file system below is the log that AbstractLog promises (LogFS   *)
(* implements it) on a device that holds what was flushed.  Offsets and    *)
(* lengths are those of the code with each field of struct meta one byte   *)
(* long; a record is named by its fields, not spelled byte by byte.        *)
(***************************************************************************)
EXTENDS WriteBuffer, KVIndex, FiniteSets

CONSTANTS
  Keys,        \* keys of the client
  Vals,        \* values of the client
  None,        \* no value: what a removal appends
  Zero,        \* the key and the value of zero bytes
  Torn,        \* a value of which only the first bytes are right
  Hash,        \* hash() of the keys
  KeyLen,      \* their lengths
  ValLen,      \* the lengths of the values
  Start,       \* the first bytes of a key, as many as a pointer has
  Pointer,     \* sizeof (key_)
  MaxOver,     \* bound: bytes of a log on a device that held another
  RestoreBlks  \* what the 4096 of the restore may be to a device's block

AllKeys == Keys \cup {Zero}
AllVals == Vals \cup {None, Zero, Torn}

ASSUME KVStoreAssumption ==
  /\ Zero \notin Keys /\ {None, Zero, Torn} \cap Vals = {}
  /\ Hash \in [AllKeys -> Nat] /\ KeyLen \in [AllKeys -> Nat \ {0}]
  /\ ValLen \in [Vals \cup {Zero} -> Nat \ {0}]
  /\ \A j, k \in AllKeys :
       KeyLen[j] = KeyLen[k] /\ KeyLen[j] <= Pointer /\ Start[j] = Start[k]
         => j = k
  /\ MaxOver \in 0 .. MaxLog /\ Pointer \in Nat
  /\ None # Torn

(* A write buffer of 32 blocks, of 512 bytes at least, holds the 4096.     *)
ASSUME RestoreAssumption ==
  /\ 2 * Blk <= Size /\ Size > 2
  /\ RestoreBlks \subseteq 1 .. Size

(* struct meta: mark, off, key_len, val_len. *)
MetaLen == 4
RecordLen(r) == MetaLen + r.key_len + r.val_len
End(r) == r.at + RecordLen(r)

VARIABLES
  st,      \* "closed", "open", "restoring", "astray", "exited", "aborted"
  log,     \* the records of the open store, each with its offset `at'
  disk,    \* the records that the device holds
  synced,  \* bytes of the log that the device holds for sure
  raw,     \* kvraw->size
  index,   \* kvdb->index
  size,    \* kvdb->size
  waste,   \* kvdb->waste
  next,    \* next_offset of the visitor
  wb, tail_offset,   \* of the log file system, as the restore rebuilds them
  restore_blk,  \* the device: 4096, where its blocks are of Blk bytes
  zeroed,  \* the device was all zeros when the store was created
  out,     \* history: what the last call returned
  kv,      \* history: the map that the store, or its log, holds
  past,    \* history: the maps since the device last held all of the log
  left     \* history: the records that the last close or crash left

lfs  == <<wb, tail_offset>>
kvdb == <<log, raw, index, size, waste>>
history == <<kv, past, left>>
vars == <<st, kvdb, disk, synced, next, lfs, restore_blk, zeroed, out, history>>

hash(k) == IF Hash[k] = 0 THEN 1 ELSE Hash[k]

At(off) == CHOOSE r \in log : r.at = off

-----------------------------------------------------------------------------
(* Lookups                                                                 *)

(* Mutant of Matches: the first bytes of a key are taken for the key. *)
MatchesStart(r, k) == r.key_len = KeyLen[k] /\ Start[r.key] = Start[k]

(* A short read compares the first bytes; a longer key is read again.      *)
Matches(r, k) ==
  /\ r.key_len = KeyLen[k]
  /\ Start[r.key] = Start[k]
  /\ r.key_len > Pointer => r.key = k

(* The offset of the newest record of k on the chain from off; 0: none;    *)
(* -1: the chain leads to where there is no record.                        *)
chain_lookup(k, off) ==
  LET from[o \in 0 .. MaxLog] ==
        IF o = 0 THEN 0
        ELSE IF \A r \in log : r.at # o THEN -1
        ELSE IF Matches(At(o), k) THEN o ELSE from[At(o).off]
  IN  from[off]

Chained(k) == chain_lookup(k, index_lookup(index, hash(k)))

Found(k) == IF Chained(k) > 0 THEN At(Chained(k)).val ELSE None

View == [k \in Keys |-> Found(k)]

(* Any record read is flushed first: logfs_read() flushes.                 *)
Synced(off) == IF off = 0 THEN synced ELSE raw

Result(k, refused) ==
  IF Chained(k) = -1 THEN -1 ELSE IF refused THEN 1 ELSE 0

Lookup(k) ==
  LET ref == index_lookup(index, hash(k))
  IN  /\ st = "open"
      /\ out' = [rv |-> Result(k, Found(k) = None), val |-> Found(k)]
      /\ synced' = Synced(ref)
      /\ past' = IF ref = 0 THEN past ELSE {kv}
      /\ UNCHANGED <<st, kvdb, disk, next, lfs, zeroed, kv, left>>

-----------------------------------------------------------------------------
(* Mutations                                                               *)

ValLenOf(v) == IF v = None THEN 0 ELSE ValLen[v]

(* Mutant of Record: the offset of the record before is not kept. *)
RecordUnchained(at, off, k, v) ==
  [at |-> at, off |-> 0, key |-> k, val |-> v,
   key_len |-> KeyLen[k], val_len |-> ValLenOf(v)]

Record(at, off, k, v) ==
  [at |-> at, off |-> off, key |-> k, val |-> v,
   key_len |-> KeyLen[k], val_len |-> ValLenOf(v)]

(* mutate(): v is None for a removal, which returns the value it removes.  *)
(* An entry for the hash is made even when the call is refused.            *)
mutate(k, v, refused, grows, shrinks, wastes) ==
  LET updated == index_update(index, hash(k))
      ref     == index_lookup(updated, hash(k))
      r       == Record(raw, ref, k, v)
  IN  /\ st = "open"
      /\ End(r) <= IF zeroed THEN MaxLog ELSE MaxOver
      /\ synced' = Synced(ref)
      /\ out' = [rv  |-> Result(k, refused),
                 val |-> IF v = None /\ Result(k, refused) = 0
                         THEN Found(k) ELSE None]
      /\ IF Result(k, refused) # 0
         THEN /\ index' = updated
              /\ UNCHANGED <<log, raw, size, waste>>
         ELSE /\ log'   = log \cup {r}
              /\ raw'   = End(r)
              /\ index' = SetOff(updated, hash(k), raw)
              /\ size'  = (size + grows - shrinks) % Word
              /\ waste' = waste + wastes
      /\ kv' = View'
      /\ past' = (IF ref = 0 THEN past ELSE {kv}) \cup {kv'}
      /\ UNCHANGED <<st, disk, next, lfs, zeroed, left>>

Exists(k) == Found(k) # None

Insert(k, v)  == mutate(k, v, Exists(k), 1, 0, 0)
Update(k, v)  == IF Exists(k) THEN mutate(k, v, FALSE, 0, 0, 1)
                              ELSE mutate(k, v, FALSE, 1, 0, 0)
Replace(k, v) == mutate(k, v, ~Exists(k), 0, 0, 1)

(* Mutant of Remove: nothing is wasted by a removal. *)
RemoveWithoutWaste(k) == mutate(k, None, ~Exists(k), 0, 1, 0)

Remove(k) == mutate(k, None, ~Exists(k), 0, 1, 1)

-----------------------------------------------------------------------------
(* Opening, closing and crashing                                           *)

NoCall == [rv |-> 0, val |-> None]

(* kvdb_open(): a dummy record makes offset 0 mean "no record".            *)
Open ==
  LET dummy == Record(0, 0, Zero, Zero)
  IN  /\ st = "closed" /\ st' = "open"
      /\ \A r \in disk : End(r) <= MaxOver
      /\ log' = {dummy} /\ raw' = End(dummy)
      /\ index' = index_open /\ size' = 0 /\ waste' = 0
      /\ synced' = 0
      /\ zeroed' = (disk = {})
      /\ out' = NoCall /\ kv' = View' /\ past' = {kv'} /\ left' = {}
      /\ UNCHANGED <<disk, next, lfs>>

(* Of a record, what is left when the device holds only its first n bytes  *)
(* and zeros; without its mark there is no record.                         *)
TornRecord(r, n) ==
  IF n = 0 THEN {}
  ELSE {[r EXCEPT
           !.off     = IF n >= 2 THEN r.off ELSE 0,
           !.key_len = IF n >= 3 THEN r.key_len ELSE 0,
           !.val_len = IF n >= 4 THEN r.val_len ELSE 0,
           !.key     = IF n >= MetaLen + r.key_len THEN r.key ELSE Zero,
           !.val     = IF n >= 4 /\ r.val_len > 0 THEN Torn ELSE None]}

(* The records on a device that holds the first n bytes of the log.        *)
Kept(n) ==
  {r \in log : End(r) <= n}
  \cup UNION {TornRecord(r, n - r.at) : r \in {s \in log : s.at < n /\ n < End(s)}}

(* A flush pads its last block with zeros; beyond it, the device keeps     *)
(* what an older store wrote.                                              *)
Older(n) == {r \in disk : r.at >= roundUp(n)}

(* Where a restore that starts at offset 0 gets to: after the first, no     *)
(* further than a record without a key.                                    *)
Scan ==
  LET ends(s) == s.at > 0 /\ s.key_len = 0
      upto[r \in disk] ==
        r.at = 0 \/ \E s \in disk : End(s) = r.at /\ ~ends(s) /\ upto[s]
  IN  {r \in disk : upto[r]}

(* The map that the records of the device hold, as a restore reads it.     *)
Restorable ==
  LET read    == Scan
      last(S) == CHOOSE r \in S : \A s \in S : s.at <= r.at
      on(k)   == {r \in read : r.at > 0 /\ hash(r.key) = hash(k)}
      chain(k) ==
        LET from[o \in 0 .. MaxLog] ==
              IF \A r \in read : r.at # o \/ o = 0 THEN None
              ELSE LET r == CHOOSE s \in read : s.at = o
                   IN  IF Matches(r, k) THEN r.val ELSE from[r.off]
        IN  from[last(on(k)).at]
  IN  [k \in Keys |-> IF on(k) = {} \/ last(on(k)).val_len = 0 THEN None
                                                               ELSE chain(k)]

(* No store in memory: what kvdb_close(), or a process that ends, leaves.  *)
Freed ==
  /\ log' = {} /\ raw' = 0 /\ next' = 0
  /\ index' = index_open /\ size' = 0 /\ waste' = 0
  /\ wb' = write_buffer_open /\ tail_offset' = 0

Stop(n) ==
  /\ st' = "closed"
  /\ disk' = Kept(n) \cup Older(n)
  /\ left' = Kept(n)
  /\ Freed /\ synced' = 0
  /\ kv' = Restorable' /\ past' = {kv'} /\ out' = NoCall
  /\ UNCHANGED zeroed

(* kvdb_close(): the log file system flushes everything.                   *)
Close == st = "open" /\ Stop(raw)

(* A crash leaves what was flushed: up to the last record that was read,   *)
(* or whole blocks after that.  (Only on a device without older records:   *)
(* otherwise a torn record ends in their bytes.)                           *)
Crash ==
  /\ st = "open" /\ zeroed
  /\ \E n \in synced .. raw : (n = synced \/ n % Blk = 0) /\ Stop(n)

-----------------------------------------------------------------------------
(* kvdb_open_with_restore(): a visitor reads the log record by record,     *)
(* without flushing, and puts what it read back into the write buffer.     *)

At0 == {r \in disk : r.at = 0}
(* Mutant of ToRead: a removal looks like the end of the log. *)
ToReadValues == {r \in disk : r.at = next /\ r.val_len > 0}

ToRead == {r \in disk : r.at = next}

(* logfs_wb_add(), whose failure goes unnoticed. *)
Readded(r) ==
  LET added == IF Fits(wb, RecordLen(r))
               THEN write_buffer_add(wb, r.at + 1, RecordLen(r)) ELSE wb
  IN  [added EXCEPT !.last_avail = @ + RecordLen(r)]

(* logfs_wb_avail() is compared with 4096, whatever the block of the       *)
(* device; logfs_wb_deq() takes one of its blocks.                         *)
IsFull(r) == Buffered(Readded(r)) >= restore_blk

Dequeued(r) ==
  IF IsFull(r) /\ ~NothingToFlush(Readded(r), FALSE)
  THEN AfterFlush(Readded(r), FALSE) ELSE Readded(r)

(* Mutant of Rebuilt: the tail moves by what was added. *)
RebuiltByLength(r) ==
  /\ wb' = Dequeued(r)
  /\ tail_offset' = tail_offset + (IF IsFull(r) THEN RecordLen(r) ELSE 0)

(* logfs_set_tail_offset() last, which adds 4096. *)
Rebuilt(r) ==
  /\ wb' = Dequeued(r)
  /\ tail_offset' = tail_offset + (IF IsFull(r) THEN restore_blk ELSE 0)

RestoreOpen ==
  /\ st = "closed" /\ st' = "restoring"
  /\ UNCHANGED <<kvdb, next, lfs, disk, synced, zeroed, out, history>>

(* kvraw_visitor_init(): without a first record, "rv" is still 0 and the   *)
(* process exits.                                                          *)
VisitorInit ==
  /\ st = "restoring" /\ next = 0
  /\ IF At0 = {}
     THEN st' = "exited" /\ UNCHANGED <<log, raw, next, lfs>>
     ELSE \E r \in At0 :
            /\ log' = {r} /\ raw' = End(r) /\ next' = End(r)
            /\ Rebuilt(r) /\ UNCHANGED st
  /\ UNCHANGED <<disk, synced, index, size, waste, zeroed, out, history>>

(* The loop of kvdb_open_internal() on one record.                         *)
Indexed(r) ==
  LET updated == index_update(index, hash(r.key))
      ref     == index_lookup(updated, hash(r.key))
  IN  IF r.val_len = 0
      THEN /\ index' = SetOff(updated, hash(r.key), 0)
           /\ size' = (size - 1) % Word /\ waste' = waste + 1
      ELSE /\ index' = SetOff(updated, hash(r.key), r.at)
           /\ IF ref # 0 THEN waste' = waste + 1 /\ UNCHANGED size
                         ELSE size' = (size + 1) % Word /\ UNCHANGED waste

(* kvraw_visitor_next() on a record, then the loop on it.  A record whose  *)
(* key_len is 0 fails the assertion of index_update().                     *)
VisitorNext ==
  /\ st = "restoring" /\ next # 0
  /\ \E r \in ToRead :
       /\ log' = log \cup {r} /\ raw' = End(r) /\ next' = End(r)
       /\ Rebuilt(r)
       /\ IF r.key_len = 0
          THEN st' = "aborted" /\ UNCHANGED <<index, size, waste>>
          ELSE Indexed(r) /\ UNCHANGED st
  /\ UNCHANGED <<disk, synced, zeroed, out, history>>

(* The write buffer holds the bytes of the log from tail_offset on,        *)
(* tail_offset is at a block and last_avail hides no byte from a flush.    *)
InPlace ==
  /\ tail_offset % Blk = 0 /\ tail_offset + Buffered(wb) = raw
  /\ \A i \in 1 .. Buffered(wb) :
       wb.buffer[(wb.tail + i) % Size] = tail_offset + i
  /\ wb.last_avail <= Buffered(wb)

(* Only then, and with less than a block in the buffer, has the log file   *)
(* system the state of AbstractLog (Intact and IdleBacklog of LogFS).      *)
Restored == InPlace /\ Buffered(wb) < Blk

(* No mark at next_offset: that was the end of the log.                    *)
RestoreDone ==
  /\ st = "restoring" /\ next # 0 /\ ToRead = {} /\ Restored
  /\ st' = "open" /\ synced' = raw
  /\ kv' = View /\ past' = {kv'}
  /\ UNCHANGED <<kvdb, disk, next, lfs, zeroed, out, left>>

(* Otherwise the store is open as well, on a log file system in a state    *)
(* that no other call leaves: what it appends may go to where the log does *)
(* not end, or not be flushed when it is closed.  Its calls are not        *)
(* modelled.                                                               *)
RestoreAstray ==
  /\ st = "restoring" /\ next # 0 /\ ToRead = {} /\ ~Restored
  /\ st' = "astray"
  /\ UNCHANGED <<kvdb, disk, synced, next, lfs, zeroed, out, history>>

-----------------------------------------------------------------------------
Init ==
  /\ st = "closed" /\ log = {} /\ disk = {} /\ synced = 0 /\ raw = 0
  /\ index = index_open /\ size = 0 /\ waste = 0 /\ next = 0
  /\ wb = write_buffer_open /\ tail_offset = 0 /\ zeroed = TRUE
  /\ restore_blk \in RestoreBlks
  /\ out = NoCall /\ kv = [k \in Keys |-> None] /\ past = {kv} /\ left = {}

(* Nothing more is called, or the process ended. *)
Ended ==
  /\ st \in {"closed", "astray", "exited", "aborted"}
  /\ UNCHANGED vars

Next ==
  /\ UNCHANGED restore_blk
  /\ \/ Open \/ Close \/ Crash
     \/ RestoreOpen \/ VisitorInit \/ VisitorNext
     \/ RestoreDone \/ RestoreAstray \/ Ended
     \/ \E k \in Keys :
          \/ Lookup(k) \/ Remove(k)
          \/ \E v \in Vals : Insert(k, v) \/ Update(k, v) \/ Replace(k, v)

Spec == Init /\ [][Next]_vars

-----------------------------------------------------------------------------
(* Properties                                                              *)

Record_ ==
  [at : 0 .. MaxLog, off : 0 .. MaxLog, key : AllKeys, val : AllVals,
   key_len : Nat, val_len : Nat]

Maps == [Keys -> AllVals]

(* The variables hold values of their types; the counters are size_t.      *)
TypeOK ==
  /\ st \in {"closed", "open", "restoring", "astray", "exited", "aborted"}
  /\ restore_blk \in RestoreBlks
  /\ log \subseteq Record_ /\ disk \subseteq Record_ /\ left \subseteq Record_
  /\ synced \in 0 .. MaxLog /\ raw \in 0 .. MaxLog /\ next \in 0 .. MaxLog
  /\ index.maps \in [Slots(index) -> [key : Nat, off : 0 .. MaxLog]]
  /\ size \in 0 .. Word - 1 /\ waste \in Nat
  /\ wb \in WriteBufferType /\ tail_offset \in Nat
  /\ zeroed \in BOOLEAN /\ kv \in Maps /\ past \subseteq Maps
  /\ out \in [rv : {-1, 0, 1}, val : AllVals]

(* The index (index.c): a probe finds every entry, whatever was added and  *)
(* wherever growing has moved it, each hash has one entry, the size counts *)
(* them, and an update always has a slot to stop at.                       *)
IndexFindsEntries ==
  LET used == {j \in Slots(index) : index.maps[j].key # 0}
  IN  /\ \A j \in used : Probe(index, index.maps[j].key) = j
      /\ index.size = Cardinality(used)
      /\ \A k \in AllKeys : Stops(grow(index), hash(k)) # {}

(* The chains (kvraw.c): the entry of a hash holds the offset of the       *)
(* newest record with that hash, and every record (but a torn one) that of *)
(* the newest before it.  An offset is 0 where there is none, or where a   *)
(* restore has cleared the entry for a removal.                            *)
NewestBefore(k, n, off) ==
  LET older == {r \in log : 0 < r.at /\ r.at < n /\ hash(r.key) = hash(k)}
  IN  IF off # 0 THEN \E r \in older : r.at = off /\ \A s \in older : s.at <= off
      ELSE \/ older = {}
           \/ \E r \in left : r.val_len = 0 /\ hash(r.key) = hash(k)

ChainsLeadBack ==
  st = "open" /\ (zeroed \/ left = {}) =>
    /\ \A r \in log : r.at > 0 /\ r.key # Zero => NewestBefore(r.key, r.at, r.off)
    /\ \A k \in AllKeys : NewestBefore(k, raw, index_lookup(index, hash(k)))

(* kvdb_size() is the number of keys that a lookup finds and kvdb_waste()  *)
(* that of the values that are no longer current.  After a restore only if *)
(* no two keys of the log share a hash, no key was torn by a crash and the *)
(* device held no older log: a removal read from that is counted as one of *)
(* the store's, which may leave kvdb_size() at -1.                         *)
CountersRight ==
  LET values == {r \in log : r.at > 0 /\ r.val_len > 0}
      alone  == \A r, s \in log :
                  r.at > 0 /\ s.at > 0 /\ hash(r.key) = hash(s.key)
                    => r.key = s.key
      whole  == \A r \in log : r.at > 0 => r.key # Zero
  IN  st = "open" /\ (left = {} \/ (zeroed /\ alone /\ whole)) =>
        /\ size = Cardinality({k \in Keys : Found(k) # None})
        /\ waste = Cardinality(values) - size

(* Restoring (kvraw.c:118-254): at every record, the write buffer holds    *)
(* the bytes of the log from tail_offset on, less than 4096 of them;       *)
(* tail_offset is at a block of the device and last_avail hides no byte    *)
(* from the next flush.  On a device with blocks of 4096 bytes as long as  *)
(* no record is longer than one; on another as long as the log is shorter  *)
(* than 4096 bytes, for what is dequeued is then not what is added.        *)
Rebuildable(S) ==
  \A r \in S : IF restore_blk = Blk THEN RecordLen(r) <= Blk
                                   ELSE End(r) < restore_blk

BufferRebuilt ==
  st = "restoring" /\ Rebuildable(log)
    => InPlace /\ Buffered(wb) < restore_blk

(* A restore reads back the records that the last close or crash left, no  *)
(* fewer and no more; but where the device held an older, longer log and   *)
(* the new one ends with a block, it may go on with records of the older.  *)
ReadsBackTheLog ==
  LET ends == {End(r) : r \in left}
      atBlock == \E n \in ends : n % Blk = 0 /\ \A m \in ends : m <= n
  IN  ~(~zeroed /\ atBlock) =>
        /\ st = "restoring" => log \subseteq left
        /\ st \in {"open", "astray"} => left \subseteq log

(* What was left can be restored: on a device with other blocks than 4096  *)
(* bytes, only a log shorter than one.                                     *)
Regular ==
  /\ Rebuildable(left)
  /\ restore_blk # Blk => \A r \in left : End(r) < Blk

SharedHash ==
  {k \in Keys : \E j \in AllKeys \ {k} : hash(j) = hash(k)}

Promised ==
  INSTANCE AbstractKV WITH
    Shared <- SharedHash, regular <- Regular,
    st <- IF (~zeroed /\ left # {}) \/ st = "astray" THEN "unknown"
          ELSE IF st = "open" THEN "open" ELSE "closed"

(* The store implements the map of AbstractKV, which says what a close, a  *)
(* crash and a restore may do to it.  A restore that leaves the log file   *)
(* system astray is outside that promise, which allows it only of a log    *)
(* that is not Regular.  So is what is restored from a device with an      *)
(* older log (ReadsBackTheLog is about it).                                *)
ImplementsMap == Promised!Spec
=============================================================================
