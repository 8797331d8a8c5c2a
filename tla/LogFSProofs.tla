---------------------------- MODULE LogFSProofs ----------------------------
(***************************************************************************)
(* What is proved about LogFS: for every block size, buffer, cache,        *)
(* device, set of lengths and kind of failure, that its variables keep     *)
(* their types, that the two threads exclude each other, and that none of  *)
(* them sleeps through what it waits for; and within the limits that are   *)
(* named below that it is a log.                                           *)
(***************************************************************************)
EXTENDS LogFS, WriteBufferProofs, SequenceTheorems, WellFoundedInduction,
        TLAPS

-----------------------------------------------------------------------------
(* Mutual exclusion.  It is inductive as it stands: a thread gets into its *)
(* critical section by locking a free mutex, by being created while        *)
(* logfs_open() has locked it, or from inside.                             *)

LEMMA MutualExclusionInit == Init => MutualExclusion
BY DEF Init, MutualExclusion, ClientHolds, FlusherHolds

LEMMA MutualExclusionStep ==
  MutualExclusion /\ [Next]_vars => MutualExclusion'
<1>. SUFFICES ASSUME MutualExclusion, [Next]_vars PROVE MutualExclusion'
  OBVIOUS
<1>. USE DEF MutualExclusion, ClientHolds, FlusherHolds
<1>1. CASE FlusherStep
  <2>1. CASE FlusherStart BY <2>1 DEF FlusherStart
  <2>2. CASE FlusherWait BY <2>2 DEF FlusherWait
  <2>3. CASE FlusherWake BY <2>3 DEF FlusherWake
  <2>4. CASE FlusherDequeue BY <2>4 DEF FlusherDequeue
  <2>5. CASE FlusherSkip BY <2>5 DEF FlusherSkip
  <2>6. CASE FlusherWrite BY <2>6 DEF FlusherWrite
  <2>7. CASE FlusherWriteFails BY <2>7 DEF FlusherWriteFails
  <2>8. CASE FlusherExits BY <2>8 DEF FlusherExits
  <2>9. CASE FlusherDone BY <2>9 DEF FlusherDone
  <2>10. CASE FlusherReturn BY <2>10 DEF FlusherReturn
  <2>. QED
    BY <1>1, <2>1, <2>2, <2>3, <2>4, <2>5, <2>6, <2>7, <2>8, <2>9, <2>10
    DEF FlusherStep
<1>2. CASE ClientStep
  <2>. USE DEF Goto, flusher
  <2>1. CASE Open BY <2>1 DEF Open
  <2>2. CASE OpenTry BY <2>2 DEF OpenTry
  <2>3. CASE ClientWait BY <2>3 DEF ClientWait
  <2>4. CASE AppendLock BY <2>4 DEF AppendLock, LockDoFlush
  <2>5. CASE AppendAdd BY <2>5 DEF AppendAdd
  <2>6. CASE AppendFull BY <2>6 DEF AppendFull, SignalFlusher
  <2>7. CASE AppendRetry BY <2>7 DEF AppendRetry
  <2>8. CASE AppendFlush BY <2>8 DEF AppendFlush, SignalFlusher
  <2>9. CASE AppendNoFlush BY <2>9 DEF AppendNoFlush
  <2>10. CASE AppendReturn BY <2>10 DEF AppendReturn
  <2>11. CASE ReadMark BY <2>11 DEF ReadMark
  <2>12. CASE ReadSignal BY <2>12 DEF ReadSignal, SignalFlusher
  <2>13. CASE ReadFlushed BY <2>13 DEF ReadFlushed
  <2>14. CASE ReadLock BY <2>14 DEF ReadLock, LockDoFlush
  <2>15. CASE ReadHit BY <2>15 DEF ReadHit
  <2>16. CASE ReadMiss BY <2>16 DEF ReadMiss
  <2>17. CASE ReadFail BY <2>17 DEF ReadFail
  <2>18. CASE ReadReturn BY <2>18 DEF ReadReturn
  <2>19. CASE CloseSignal BY <2>19 DEF CloseSignal
  <2>20. CASE CloseJoin BY <2>20 DEF CloseJoin
  <2>. QED
    BY <1>2, <2>1, <2>2, <2>3, <2>4, <2>5, <2>6, <2>7, <2>8, <2>9, <2>10,
       <2>11, <2>12, <2>13, <2>14, <2>15, <2>16, <2>17, <2>18, <2>19, <2>20
    DEF ClientStep
<1>3. CASE ClientCall
  BY <1>3 DEF ClientCall, AppendCall, ReadCall, CloseCall, Goto, flusher
<1>4. CASE SpuriousWakeup BY <1>4 DEF SpuriousWakeup
<1>5. CASE UNCHANGED vars BY <1>5 DEF vars, flusher
<1>. QED BY <1>1, <1>2, <1>3, <1>4, <1>5 DEF Next, Finished

(* The client and the flusher are never both inside a critical section of  *)
(* do_flush_m, whatever the device does.                                   *)
THEOREM Exclusion == Spec => []MutualExclusion
BY MutualExclusionInit, MutualExclusionStep, PTL DEF Spec

-----------------------------------------------------------------------------
(* The handshake: who has asked for a flush, who waits for it and who is   *)
(* about to answer.                                                        *)

(* NoLostWakeup, and what keeps it: only a call that waits, or that is     *)
(* about to ask, has a flush in progress; such a call has raised           *)
(* flush_available, which stays up until the flusher is about to answer;   *)
(* and nobody waits any more once the flusher is asked to exit.            *)
Handshake ==
  /\ do_flush_cv => fpc = "wait" /\ ~flush_available /\ ~exit_flusher
  /\ done_flush_cv => cpc \in WaitPC /\ flush_in_progress
  /\ flush_in_progress => cpc \in WaitPC \cup {"read_signal"}
  /\ flush_in_progress /\ cpc \in WaitPC => flush_available \/ fpc = "flushed"
  /\ fpc = "write" => flush_available
  /\ exit_flusher => cpc \in {"close_join", "closed"}
  /\ cpc = "start" => fpc = "none"

LEMMA HandshakeInit == Init => Handshake
BY DEF Init, Handshake, WaitPC

LEMMA HandshakeStep == Handshake /\ [Next]_vars => Handshake'
<1>. SUFFICES ASSUME Handshake, [Next]_vars PROVE Handshake'
  OBVIOUS
<1>. USE DEF Handshake, WaitPC, flags
<1>1. CASE FlusherStep
  <2>1. CASE FlusherStart BY <2>1 DEF FlusherStart
  <2>2. CASE FlusherWait BY <2>2 DEF FlusherWait
  <2>3. CASE FlusherWake BY <2>3 DEF FlusherWake
  <2>4. CASE FlusherDequeue BY <2>4 DEF FlusherDequeue
  <2>5. CASE FlusherSkip BY <2>5 DEF FlusherSkip
  <2>6. CASE FlusherWrite BY <2>6 DEF FlusherWrite
  <2>7. CASE FlusherWriteFails BY <2>7 DEF FlusherWriteFails
  <2>8. CASE FlusherExits BY <2>8 DEF FlusherExits
  <2>9. CASE FlusherDone BY <2>9 DEF FlusherDone
  <2>10. CASE FlusherReturn BY <2>10 DEF FlusherReturn
  <2>. QED
    BY <1>1, <2>1, <2>2, <2>3, <2>4, <2>5, <2>6, <2>7, <2>8, <2>9, <2>10
    DEF FlusherStep
<1>2. CASE ClientStep
  <2>. USE DEF Goto, flusher
  <2>1. CASE Open BY <2>1 DEF Open
  <2>2. CASE OpenTry BY <2>2 DEF OpenTry
  <2>3. CASE ClientWait BY <2>3 DEF ClientWait
  <2>4. CASE AppendLock BY <2>4 DEF AppendLock, LockDoFlush
  <2>5. CASE AppendAdd BY <2>5 DEF AppendAdd
  <2>6. CASE AppendFull BY <2>6 DEF AppendFull, SignalFlusher
  <2>7. CASE AppendRetry BY <2>7 DEF AppendRetry, FlushDone
  <2>8. CASE AppendFlush BY <2>8 DEF AppendFlush, SignalFlusher
  <2>9. CASE AppendNoFlush BY <2>9 DEF AppendNoFlush
  <2>10. CASE AppendReturn BY <2>10 DEF AppendReturn, FlushDone
  <2>11. CASE ReadMark BY <2>11 DEF ReadMark
  <2>12. CASE ReadSignal BY <2>12 DEF ReadSignal, SignalFlusher
  <2>13. CASE ReadFlushed BY <2>13 DEF ReadFlushed, FlushDone
  <2>14. CASE ReadLock BY <2>14 DEF ReadLock, LockDoFlush
  <2>15. CASE ReadHit BY <2>15 DEF ReadHit
  <2>16. CASE ReadMiss BY <2>16 DEF ReadMiss
  <2>17. CASE ReadFail BY <2>17 DEF ReadFail
  <2>18. CASE ReadReturn BY <2>18 DEF ReadReturn
  <2>19. CASE CloseSignal BY <2>19 DEF CloseSignal
  <2>20. CASE CloseJoin BY <2>20 DEF CloseJoin
  <2>. QED
    BY <1>2, <2>1, <2>2, <2>3, <2>4, <2>5, <2>6, <2>7, <2>8, <2>9, <2>10, <2>11, <2>12, <2>13, <2>14, <2>15, <2>16, <2>17, <2>18, <2>19, <2>20
    DEF ClientStep
<1>3. CASE ClientCall
  BY <1>3 DEF ClientCall, AppendCall, ReadCall, CloseCall, Goto, flusher
<1>4. CASE SpuriousWakeup BY <1>4 DEF SpuriousWakeup
<1>5. CASE UNCHANGED vars BY <1>5 DEF vars, flusher
<1>. QED BY <1>1, <1>2, <1>3, <1>4, <1>5 DEF Next, Finished

LEMMA HandshakeInvariant == Spec => []Handshake
BY HandshakeInit, HandshakeStep, PTL DEF Spec

(* Neither thread sleeps through what it waits for: the flusher is only    *)
(* blocked while there is nothing to do, and a call only while the flush   *)
(* that will wake it is still to come.                                     *)
THEOREM NoWakeupLost == Spec => []NoLostWakeup
<1>1. Handshake => NoLostWakeup
  BY DEF Handshake, NoLostWakeup
<1>. QED BY <1>1, HandshakeInvariant, PTL

-----------------------------------------------------------------------------
(* Types.                                                                  *)

LEMMA DeviceWriteType ==
  ASSUME NEW d \in DiskType, NEW b \in Seq(Byte), NEW o \in Nat
  PROVE  device_write(d, b, o) \in DiskType
<1>1. Len(b) \in Nat /\ \A k \in 1 .. Len(b) : b[k] \in Byte
  OBVIOUS
<1>2. ASSUME NEW i \in 0 .. DevSize - 1
      PROVE (IF i >= o /\ i < o + Len(b) THEN b[i - o + 1] ELSE d[i]) \in Byte
  <2>1. CASE i >= o /\ i < o + Len(b)
    <3>1. i \in Int BY BytesAssumption, DeviceAssumption, SMT DEF DevSize
    <3>2. i - o + 1 \in 1 .. Len(b) BY <1>1, <2>1, <3>1, SMT
    <3>. QED BY <1>1, <2>1, <3>2
  <2>2. CASE ~(i >= o /\ i < o + Len(b))
    BY <2>2 DEF DiskType
  <2>. QED BY <2>1, <2>2
<1>. QED BY <1>2 DEF device_write, DiskType

LEMMA DeviceReadType ==
  ASSUME NEW d \in DiskType, NEW o \in Nat, OnDevice(o, Blk)
  PROVE  device_read(d, o) \in BlockData
<1>1. ASSUME NEW k \in 1 .. Blk PROVE d[o + k - 1] \in Byte
  <2>1. o + k - 1 \in 0 .. DevSize - 1
    BY BytesAssumption, DeviceAssumption, SMT DEF OnDevice, DevSize
  <2>. QED BY <2>1 DEF DiskType
<1>. QED BY <1>1 DEF device_read, BlockData

LEMMA CacheOpenType == read_cache_open \in ReadCacheType
BY BytesAssumption, SMT
DEF read_cache_open, ReadCacheType, ZeroBlock, BlockData, Byte

LEMMA CacheAddType ==
  ASSUME NEW c \in ReadCacheType, NEW s \in Slot, NEW data \in BlockData,
         NEW o \in Nat
  PROVE  read_cache_add(c, s, data, o) \in ReadCacheType
BY DEF read_cache_add, ReadCacheType

LEMMA CacheInvalidateType ==
  ASSUME NEW c \in ReadCacheType, NEW o \in Nat
  PROVE  read_cache_invalidate(c, o) \in ReadCacheType
<1>1. ZeroBlock \in BlockData
  BY BytesAssumption, SMT DEF ZeroBlock, BlockData, Byte
<1>2. ASSUME NEW s \in Slot
      PROVE  [c[s] EXCEPT !.valid = FALSE, !.data = ZeroBlock] \in
               [valid : BOOLEAN, begin_offset : Nat, data : BlockData]
  BY <1>1 DEF ReadCacheType
<1>. QED BY <1>2 DEF read_cache_invalidate, ReadCacheType

(* What logfs_read() copies out of a block are bytes of it. *)
LEMMA CopyType ==
  ASSUME req.off \in Nat, req.len \in Nat, buf \in Seq(Byte), ReadLeft > 0,
         NEW data \in BlockData
  PROVE  Copy(data) \in Seq(Byte)
<1>. DEFINE o == ReadOff
            index == o - RoundDown(o)
            n == IF ReadLeft <= Blk - index THEN ReadLeft ELSE Blk - index
<1>1. Len(buf) \in Nat OBVIOUS
<1>2. o \in Nat /\ ReadLeft \in Int BY <1>1, SMT DEF ReadOff, ReadLeft
<1>3. RoundDown(o) \in Nat /\ RoundDown(o) <= o /\ o - RoundDown(o) < Blk
  BY <1>2, RoundDownBounds
<1>. HIDE DEF o
<1>4. index \in Nat /\ index < Blk BY <1>2, <1>3, SMT
<1>. HIDE DEF index
<1>5. n \in Nat /\ index + n <= Blk
  BY <1>2, <1>4, BytesAssumption, SMT
<1>. HIDE DEF n
<1>6. ASSUME NEW k \in 1 .. n PROVE data[index + k] \in Byte
  <2>1. index + k \in 1 .. Blk BY <1>4, <1>5, BytesAssumption, SMT
  <2>. QED BY <2>1 DEF BlockData
<1>7. [k \in 1 .. n |-> data[index + k]] \in Seq(Byte) BY <1>5, <1>6
<1>8. Copy(data) = [k \in 1 .. n |-> data[index + k]]
  BY Zenon DEF Copy, o, index, n
<1>. QED BY <1>7, <1>8

(* The bytes of an append fit in the model's bound on the log until they   *)
(* are in the write buffer.                                                *)
AppendPending ==
  cpc \in {"append_lock", "append_add", "full_wait"} =>
    appended + req.len <= MaxLog

TypeInv == TypeOK /\ AppendPending

LEMMA TypeInit == Init => TypeInv
<1>. SUFFICES ASSUME Init PROVE TypeInv OBVIOUS
<1>1. disk \in DiskType
  BY BytesAssumption, SMT DEF Init, DiskType, Byte
<1>2. wb \in WriteBufferType /\ rc \in ReadCacheType
  BY OpenType, CacheOpenType DEF Init
<1>3. appended \in Byte /\ spurious \in 0 .. MaxSpurious
  BY BytesAssumption, LogFSAssumption, SMT DEF Init, Byte
<1>4. disk_write_buf \in Seq(Byte) /\ buf \in Seq(Byte)
  BY DEF Init
<1>5. req \in [op : {"none", "append", "read"}, off : Nat, len : Nat]
  BY DEF Init, NoReq
<1>6. fpc \in FlusherPC /\ cpc \in ClientPC /\ AppendPending
  BY DEF Init, ClientPC, FlusherPC, AppendPending
<1>. QED
  BY <1>1, <1>2, <1>3, <1>4, <1>5, <1>6 DEF Init, TypeInv, TypeOK

(* The type invariant without the flags, and the flags.                    *)
FlagsOK ==
  /\ do_flush_m \in BOOLEAN /\ do_flush_cv \in BOOLEAN
  /\ flusher_started \in BOOLEAN /\ flush_available \in BOOLEAN
  /\ dont_dequeue_wb \in BOOLEAN /\ exit_flusher \in BOOLEAN
  /\ done_flush_cv \in BOOLEAN /\ flush_in_progress \in BOOLEAN

DataOK ==
  /\ wb \in WriteBufferType
  /\ rc \in ReadCacheType
  /\ disk \in DiskType
  /\ tail_offset \in Nat
  /\ fpc \in FlusherPC /\ disk_write_buf \in Seq(Byte)
  /\ cpc \in ClientPC
  /\ req \in [op : {"none", "append", "read"}, off : Nat, len : Nat]
  /\ buf \in Seq(Byte) /\ ret \in {0, -1} /\ appended \in Byte
  /\ spurious \in 0 .. MaxSpurious
  /\ AppendPending

LEMMA FlagsStep == FlagsOK /\ [Next]_vars => FlagsOK'
<1>. SUFFICES ASSUME FlagsOK, [Next]_vars PROVE FlagsOK'
  OBVIOUS
<1>. USE DEF FlagsOK, flags, flusher
<1>1. CASE FlusherStep
  <2>1. CASE FlusherStart BY <2>1, Zenon DEF FlusherStart
  <2>2. CASE FlusherWait BY <2>2, Zenon DEF FlusherWait
  <2>3. CASE FlusherWake BY <2>3, Zenon DEF FlusherWake
  <2>4. CASE FlusherDequeue BY <2>4, Zenon DEF FlusherDequeue
  <2>5. CASE FlusherSkip BY <2>5, Zenon DEF FlusherSkip
  <2>6. CASE FlusherWrite BY <2>6, Zenon DEF FlusherWrite
  <2>7. CASE FlusherWriteFails BY <2>7, Zenon DEF FlusherWriteFails
  <2>8. CASE FlusherExits BY <2>8, Zenon DEF FlusherExits
  <2>9. CASE FlusherDone BY <2>9, Zenon DEF FlusherDone
  <2>10. CASE FlusherReturn BY <2>10, Zenon DEF FlusherReturn
  <2>. QED
    BY <1>1, <2>1, <2>2, <2>3, <2>4, <2>5, <2>6, <2>7, <2>8, <2>9, <2>10
    DEF FlusherStep
<1>2. CASE ClientStep
  <2>1. CASE Open BY <2>1, Zenon DEF Open
  <2>2. CASE OpenTry BY <2>2, Zenon DEF OpenTry
  <2>3. CASE ClientWait BY <2>3, Zenon DEF ClientWait
  <2>4. CASE AppendLock BY <2>4, Zenon DEF AppendLock, LockDoFlush
  <2>5. CASE AppendAdd BY <2>5, Zenon DEF AppendAdd
  <2>6. CASE AppendFull BY <2>6, Zenon DEF AppendFull, SignalFlusher
  <2>7. CASE AppendRetry BY <2>7, Zenon DEF AppendRetry
  <2>8. CASE AppendFlush BY <2>8, Zenon DEF AppendFlush, SignalFlusher
  <2>9. CASE AppendNoFlush BY <2>9, Zenon DEF AppendNoFlush
  <2>10. CASE AppendReturn BY <2>10, Zenon DEF AppendReturn
  <2>11. CASE ReadMark BY <2>11, Zenon DEF ReadMark
  <2>12. CASE ReadSignal BY <2>12, Zenon DEF ReadSignal, SignalFlusher
  <2>13. CASE ReadFlushed BY <2>13, Zenon DEF ReadFlushed
  <2>14. CASE ReadLock BY <2>14, Zenon DEF ReadLock, LockDoFlush
  <2>15. CASE ReadHit BY <2>15, Zenon DEF ReadHit
  <2>16. CASE ReadMiss BY <2>16, Zenon DEF ReadMiss
  <2>17. CASE ReadFail BY <2>17, Zenon DEF ReadFail
  <2>18. CASE ReadReturn BY <2>18, Zenon DEF ReadReturn
  <2>19. CASE CloseSignal BY <2>19, Zenon DEF CloseSignal
  <2>20. CASE CloseJoin BY <2>20, Zenon DEF CloseJoin
  <2>. QED
    BY <1>2, <2>1, <2>2, <2>3, <2>4, <2>5, <2>6, <2>7, <2>8, <2>9, <2>10,
       <2>11, <2>12, <2>13, <2>14, <2>15, <2>16, <2>17, <2>18, <2>19, <2>20
    DEF ClientStep
<1>3. CASE ClientCall
  <2>1. ASSUME NEW len \in AppendLens, AppendCall(len) PROVE FlagsOK'
    BY <2>1, Zenon DEF AppendCall
  <2>2. ASSUME NEW off \in 0 .. MaxLog, NEW len \in 0 .. MaxLog,
               ReadCall(off, len)
        PROVE  FlagsOK'
    BY <2>2, Zenon DEF ReadCall
  <2>3. CASE CloseCall BY <2>3, Zenon DEF CloseCall
  <2>. QED BY <1>3, <2>1, <2>2, <2>3 DEF ClientCall
<1>4. CASE SpuriousWakeup BY <1>4, Zenon DEF SpuriousWakeup
<1>5. CASE UNCHANGED vars BY <1>5, Zenon DEF vars
<1>. QED BY <1>1, <1>2, <1>3, <1>4, <1>5 DEF Next, Finished

LEMMA DataStep == FlagsOK /\ DataOK /\ [Next]_vars => DataOK'
<1>. SUFFICES ASSUME FlagsOK, DataOK, [Next]_vars PROVE DataOK'
  OBVIOUS
<1>0. dont_dequeue_wb \in BOOLEAN BY DEF FlagsOK
<1>. USE DEF DataOK, AppendPending, ClientPC, FlusherPC, store, flags,
             flusher, call
<1>1. CASE FlusherStep
  <2>1. CASE FlusherStart BY <2>1 DEF FlusherStart
  <2>2. CASE FlusherWait BY <2>2 DEF FlusherWait
  <2>3. CASE FlusherWake BY <2>3 DEF FlusherWake
  <2>4. CASE FlusherDequeue
    <3>1. wb' \in WriteBufferType
      BY <1>0, <2>4, AfterFlushType DEF FlusherDequeue
    <3>2. disk_write_buf' \in Seq(Byte)
      BY <1>0, <2>4, FlushImageType DEF FlusherDequeue
    <3>. QED BY <2>4, <3>1, <3>2 DEF FlusherDequeue
  <2>5. CASE FlusherSkip BY <2>5 DEF FlusherSkip
  <2>6. CASE FlusherWrite
    <3>1. disk' \in DiskType BY <2>6, DeviceWriteType DEF FlusherWrite
    <3>2. rc' \in ReadCacheType BY <2>6, CacheInvalidateType DEF FlusherWrite
    <3>3. Len(disk_write_buf) \in Nat OBVIOUS
    <3>4. tail_offset' \in Nat BY <2>6, <3>3 DEF FlusherWrite
    <3>5. disk_write_buf' \in Seq(Byte) BY <2>6 DEF FlusherWrite
    <3>. QED BY <2>6, <3>1, <3>2, <3>4, <3>5 DEF FlusherWrite
  <2>7. CASE FlusherWriteFails BY <2>7 DEF FlusherWriteFails
  <2>8. CASE FlusherExits BY <2>8 DEF FlusherExits
  <2>9. CASE FlusherDone BY <2>9 DEF FlusherDone
  <2>10. CASE FlusherReturn BY <2>10 DEF FlusherReturn
  <2>. QED
    BY <1>1, <2>1, <2>2, <2>3, <2>4, <2>5, <2>6, <2>7, <2>8, <2>9, <2>10
    DEF FlusherStep
<1>2. CASE ClientStep
  <2>. USE DEF Goto
  <2>1. CASE Open BY <2>1 DEF Open
  <2>2. CASE OpenTry BY <2>2 DEF OpenTry
  <2>3. CASE ClientWait BY <2>3 DEF ClientWait
  <2>4. CASE AppendLock BY <2>4 DEF AppendLock, LockDoFlush
  <2>5. CASE AppendAdd
    <3>1. appended \in Nat /\ req.len \in Nat /\ appended + req.len <= MaxLog
      BY <2>5, BytesAssumption DEF AppendAdd, Byte
    <3>2. wb' \in WriteBufferType
      BY <2>5, <3>1, AddType, BytesAssumption DEF AppendAdd
    <3>3. appended' \in Byte
      BY <2>5, <3>1, BytesAssumption DEF AppendAdd, Byte
    <3>. QED BY <2>5, <3>2, <3>3 DEF AppendAdd
  <2>6. CASE AppendFull BY <2>6 DEF AppendFull, SignalFlusher
  <2>7. CASE AppendRetry BY <2>7 DEF AppendRetry
  <2>8. CASE AppendFlush BY <2>8 DEF AppendFlush, SignalFlusher
  <2>9. CASE AppendNoFlush BY <2>9 DEF AppendNoFlush
  <2>10. CASE AppendReturn BY <2>10 DEF AppendReturn
  <2>11. CASE ReadMark BY <2>11 DEF ReadMark
  <2>12. CASE ReadSignal BY <2>12 DEF ReadSignal, SignalFlusher
  <2>13. CASE ReadFlushed BY <2>13 DEF ReadFlushed
  <2>14. CASE ReadLock BY <2>14 DEF ReadLock, LockDoFlush
  <2>15. CASE ReadHit
    <3>1. PICK s \in read_cache_lookup(rc, ReadOff) :
            buf' = buf \o Copy(rc[s].data)
      BY <2>15 DEF ReadHit
    <3>2. rc[s].data \in BlockData
      BY DEF read_cache_lookup, Holding, ReadCacheType
    <3>3. Copy(rc[s].data) \in Seq(Byte) BY <2>15, <3>2, CopyType DEF ReadHit
    <3>4. buf' \in Seq(Byte) BY <3>1, <3>3
    <3>. QED BY <2>15, <3>4 DEF ReadHit
  <2>16. CASE ReadMiss
    <3>. DEFINE o == RoundDown(ReadOff)
                block == device_read(disk, o)
    <3>1. Len(buf) \in Nat /\ ReadOff \in Nat BY DEF ReadOff
    <3>2. o \in Nat BY <3>1, RoundDownBounds
    <3>3. block \in BlockData BY <2>16, <3>2, DeviceReadType DEF ReadMiss
    <3>4. PICK s \in Victims(rc) : rc' = read_cache_add(rc, s, block, o)
      BY <2>16 DEF ReadMiss
    <3>5. s \in Slot BY DEF Victims
    <3>. HIDE DEF o
    <3>6. rc' \in ReadCacheType BY <3>2, <3>3, <3>4, <3>5, CacheAddType
    <3>7. buf' = buf \o Copy(block) BY <2>16 DEF ReadMiss, o
    <3>8. Copy(block) \in Seq(Byte) BY <2>16, <3>3, CopyType DEF ReadMiss
    <3>. HIDE DEF block
    <3>9. buf' \in Seq(Byte) BY <3>7, <3>8
    <3>. QED BY <2>16, <3>6, <3>9 DEF ReadMiss
  <2>17. CASE ReadFail BY <2>17 DEF ReadFail
  <2>18. CASE ReadReturn BY <2>18 DEF ReadReturn
  <2>19. CASE CloseSignal BY <2>19 DEF CloseSignal
  <2>20. CASE CloseJoin BY <2>20 DEF CloseJoin
  <2>. QED
    BY <1>2, <2>1, <2>2, <2>3, <2>4, <2>5, <2>6, <2>7, <2>8, <2>9, <2>10,
       <2>11, <2>12, <2>13, <2>14, <2>15, <2>16, <2>17, <2>18, <2>19, <2>20
    DEF ClientStep
<1>3. CASE ClientCall
  <2>. USE DEF Goto
  <2>1. ASSUME NEW len \in AppendLens, AppendCall(len) PROVE DataOK'
    <3>1. len \in Nat /\ appended \in Nat
      BY LogFSAssumption, BytesAssumption DEF Byte
    <3>2. req' \in [op : {"none", "append", "read"}, off : Nat, len : Nat]
      BY <2>1, <3>1 DEF AppendCall
    <3>3. appended' + req'.len <= MaxLog /\ buf' \in Seq(Byte)
      BY <2>1 DEF AppendCall
    <3>. QED BY <2>1, <3>2, <3>3 DEF AppendCall
  <2>2. ASSUME NEW off \in 0 .. MaxLog, NEW len \in 0 .. MaxLog,
               ReadCall(off, len)
        PROVE  DataOK'
    <3>1. req' \in [op : {"none", "append", "read"}, off : Nat, len : Nat]
      BY <2>2, BytesAssumption DEF ReadCall
    <3>2. buf' \in Seq(Byte) BY <2>2 DEF ReadCall
    <3>. QED BY <2>2, <3>1, <3>2 DEF ReadCall
  <2>3. CASE CloseCall BY <2>3 DEF CloseCall
  <2>. QED BY <1>3, <2>1, <2>2, <2>3 DEF ClientCall
<1>4. CASE SpuriousWakeup
  <2>1. spurious' \in 0 .. MaxSpurious
    BY <1>4, LogFSAssumption DEF SpuriousWakeup
  <2>. QED BY <1>4, <2>1 DEF SpuriousWakeup
<1>5. CASE UNCHANGED vars BY <1>5 DEF vars
<1>. QED BY <1>1, <1>2, <1>3, <1>4, <1>5 DEF Next, Finished

(* The variables keep their types: in particular the head and the tail of  *)
(* the write buffer stay inside it, although write_buffer_dequeue() works  *)
(* with differences that may underflow, and every block that is written,   *)
(* cached or copied consists of bytes of the log and zeros.                *)
THEOREM TypeCorrect == Spec => []TypeOK
<1>1. TypeInv /\ [Next]_vars => TypeInv'
  BY FlagsStep, DataStep DEF TypeInv, TypeOK, FlagsOK, DataOK
<1>2. TypeInv => TypeOK BY DEF TypeInv
<1>. QED BY <1>1, <1>2, TypeInit, PTL DEF Spec

-----------------------------------------------------------------------------
(* That the log file system neither loses nor mixes up a byte: what is     *)
(* appended stays in its place in the log while it goes from the write     *)
(* buffer through the flusher to the device, reads return it, the read     *)
(* cache never contradicts the device, and logfs_close() leaves it all on  *)
(* the device.                                                             *)
(*                                                                         *)
(* One inductive invariant, LogInv, carries all of it.  Its parts say      *)
(* where client and flusher are in their handshake (Requests, Calls), how  *)
(* much is buffered and where it belongs (Backlog, Position), and what the *)
(* device, the flusher's buffer, the write buffer and the cache hold       *)
(* (Content, Image, Flushed, Cached).                                      *)

(* The circumstances in which logfs.c keeps its promises: no append is     *)
(* longer than a block, the write buffer has two blocks (and more than two *)
(* bytes), the device holds the whole log, and device_write() succeeds;    *)
(* device_read() may fail.  Each of the first three is needed:             *)
(* LogFSStaleCache and LogFSExactFit show what longer appends do,          *)
(* LogFSFull what a full device does; and logfs.c goes on as if a write    *)
(* that failed had been done.                                              *)
WithinLimits ==
  /\ 2 * Blk <= Size /\ Size > 2
  /\ MaxLog <= DevSize
  /\ \A len \in AppendLens : len <= Blk
  /\ ~WriteFails

(* The flush that is asked for, and by whom.  flush_available is up only   *)
(* for a call that waits, or for the exit; what dont_dequeue_wb holds is   *)
(* what that call wants.                                                   *)
Requests ==
  /\ flush_available => exit_flusher \/ (cpc \in WaitPC /\ flush_in_progress)
  /\ fpc = "flushed" =>
       /\ ~flush_available
       /\ exit_flusher \/ (cpc \in WaitPC /\ flush_in_progress)
  /\ fpc = "returned" => exit_flusher /\ ~flush_available
  /\ cpc \in {"close_join", "closed"} => exit_flusher
  /\ cpc = "closed" => fpc = "returned"
  /\ cpc = "append_wait" /\ flush_available => ~dont_dequeue_wb
  /\ cpc = "read_wait" /\ flush_available => dont_dequeue_wb
  /\ cpc = "read_signal" => flush_in_progress

AppendPC == {"append_lock", "append_add", "full_wait", "append_check",
             "append_wait"}
ReadPC   == {"read_mark", "read_signal", "read_wait", "read_lock", "read_loop"}

(* The call that is under way: what its request is, and what logfs_read()  *)
(* has copied.                                                             *)
Calls ==
  /\ cpc \in AppendPC => req.op = "append" /\ req.len <= Blk
  /\ cpc \in ReadPC =>
       req.op = "read" /\ req.off + req.len <= appended /\ Len(buf) <= req.len
  /\ req.op # "read" => buf = <<>>
  /\ cpc \in ReadPC \ {"read_loop"} => buf = <<>>
  /\ cpc \in {"start", "open_try"} => buf = <<>>

(* Less than a block is buffered, except between an append and the flush   *)
(* it asks for, where it is less than two; so an append never finds the    *)
(* buffer full and a flush never ends the process.                         *)
Backlog ==
  /\ Buffered(wb) < 2 * Blk
  /\ Buffered(wb) >= Blk =>
       \/ cpc = "append_check"
       \/ /\ cpc = "append_wait" /\ flush_available /\ ~dont_dequeue_wb
          /\ fpc # "write"
  /\ cpc = "append_wait" /\ flush_available /\ fpc # "write" =>
       Buffered(wb) >= Blk
  /\ cpc # "full_wait" /\ ~Exited

(* tail_offset, what the flusher holds and what is buffered make up the    *)
(* log, to the byte; only the last flush of logfs_close() may pad a block  *)
(* that it dequeues.                                                       *)
Position ==
  /\ tail_offset % Blk = 0
  /\ \/ tail_offset + InFlight + Buffered(wb) = appended
     \/ /\ exit_flusher /\ Buffered(wb) = 0
        /\ appended <= tail_offset + InFlight
  /\ wb.last_avail <= Buffered(wb)

(* The device below tail_offset, and the buffer from its tail on, hold the *)
(* log.                                                                    *)
Content ==
  /\ \A o \in 0 .. tail_offset - 1 : o < appended => disk[o] = o + 1
  /\ \A i \in 0 .. Buffered(wb) - 1 :
       wb.buffer[(wb.tail + 1 + i) % Size] = tail_offset + InFlight + i + 1

(* What the flusher is about to write is one block of the log.             *)
Image ==
  fpc = "write" =>
    /\ Len(disk_write_buf) = Blk
    /\ tail_offset < appended
    /\ \A k \in 1 .. Blk :
         tail_offset + k <= appended => disk_write_buf[k] = tail_offset + k
    /\ dont_dequeue_wb => wb.last_avail = Buffered(wb)
    /\ ~dont_dequeue_wb => wb.last_avail = 0
    /\ ~dont_dequeue_wb /\ exit_flusher => Buffered(wb) = 0

(* The last_avail bytes that a flush wrote without dequeueing them are on  *)
(* the device, and after the flush of a read, or the last one of a close,  *)
(* these are all that are buffered.                                        *)
Flushed ==
  /\ fpc # "write" =>
       \A i \in 0 .. wb.last_avail - 1 :
         disk[tail_offset + i] = tail_offset + i + 1
  /\ cpc \in {"read_lock", "read_loop"}
       \/ (cpc = "read_wait" /\ ~flush_available)
       \/ (exit_flusher /\ ~flush_available)
     => wb.last_avail = Buffered(wb)

(* The cache holds whole blocks of the device.                             *)
Cached ==
  \A s \in Slot : rc[s].valid =>
    /\ rc[s].begin_offset % Blk = 0
    /\ rc[s].begin_offset + Blk <= DevSize

DataInv ==
  /\ Requests /\ Calls /\ Backlog /\ Position /\ Content /\ Image /\ Flushed
  /\ Cached /\ CacheCoherent /\ ReadsReturnTheLog

LogInv == TypeOK /\ MutualExclusion /\ Handshake /\ DataInv

-----------------------------------------------------------------------------
(* The handshake and the calls. *)

LEMMA RequestsStep ==
  Requests /\ Handshake /\ MutualExclusion /\ [Next]_vars => Requests'
<1>. SUFFICES ASSUME Requests, Handshake, MutualExclusion, [Next]_vars
              PROVE  Requests'
  OBVIOUS
<1>. USE DEF Requests, Handshake, MutualExclusion, ClientHolds, FlusherHolds,
             WaitPC, flags, flusher
<1>1. CASE FlusherStep
  <2>1. CASE FlusherStart BY <2>1 DEF FlusherStart
  <2>2. CASE FlusherWait BY <2>2 DEF FlusherWait
  <2>3. CASE FlusherWake BY <2>3 DEF FlusherWake
  <2>4. CASE FlusherDequeue BY <2>4 DEF FlusherDequeue
  <2>5. CASE FlusherSkip BY <2>5 DEF FlusherSkip
  <2>6. CASE FlusherWrite BY <2>6 DEF FlusherWrite
  <2>7. CASE FlusherWriteFails BY <2>7 DEF FlusherWriteFails
  <2>8. CASE FlusherExits BY <2>8 DEF FlusherExits
  <2>9. CASE FlusherDone BY <2>9 DEF FlusherDone
  <2>10. CASE FlusherReturn BY <2>10 DEF FlusherReturn
  <2>. QED
    BY <1>1, <2>1, <2>2, <2>3, <2>4, <2>5, <2>6, <2>7, <2>8, <2>9, <2>10
    DEF FlusherStep
<1>2. CASE ClientStep
  <2>. USE DEF Goto
  <2>1. CASE Open BY <2>1 DEF Open
  <2>2. CASE OpenTry BY <2>2 DEF OpenTry
  <2>3. CASE ClientWait BY <2>3 DEF ClientWait
  <2>4. CASE AppendLock BY <2>4 DEF AppendLock, LockDoFlush
  <2>5. CASE AppendAdd BY <2>5 DEF AppendAdd
  <2>6. CASE AppendFull BY <2>6 DEF AppendFull, SignalFlusher
  <2>7. CASE AppendRetry BY <2>7 DEF AppendRetry, FlushDone
  <2>8. CASE AppendFlush BY <2>8 DEF AppendFlush, SignalFlusher
  <2>9. CASE AppendNoFlush BY <2>9 DEF AppendNoFlush
  <2>10. CASE AppendReturn BY <2>10 DEF AppendReturn, FlushDone
  <2>11. CASE ReadMark BY <2>11 DEF ReadMark
  <2>12. CASE ReadSignal BY <2>12 DEF ReadSignal, SignalFlusher
  <2>13. CASE ReadFlushed BY <2>13 DEF ReadFlushed, FlushDone
  <2>14. CASE ReadLock BY <2>14 DEF ReadLock, LockDoFlush
  <2>15. CASE ReadHit BY <2>15 DEF ReadHit
  <2>16. CASE ReadMiss BY <2>16 DEF ReadMiss
  <2>17. CASE ReadFail BY <2>17 DEF ReadFail
  <2>18. CASE ReadReturn BY <2>18 DEF ReadReturn
  <2>19. CASE CloseSignal BY <2>19 DEF CloseSignal
  <2>20. CASE CloseJoin BY <2>20 DEF CloseJoin
  <2>. QED
    BY <1>2, <2>1, <2>2, <2>3, <2>4, <2>5, <2>6, <2>7, <2>8, <2>9, <2>10,
       <2>11, <2>12, <2>13, <2>14, <2>15, <2>16, <2>17, <2>18, <2>19, <2>20
    DEF ClientStep
<1>3. CASE ClientCall
  BY <1>3 DEF ClientCall, AppendCall, ReadCall, CloseCall, Goto
<1>4. CASE SpuriousWakeup BY <1>4 DEF SpuriousWakeup
<1>5. CASE UNCHANGED vars BY <1>5 DEF vars
<1>. QED BY <1>1, <1>2, <1>3, <1>4, <1>5 DEF Next, Finished

(* What Copy() takes out of a block. *)
LEMMA CopyIs ==
  ASSUME req.off \in Nat, req.len \in Nat, buf \in Seq(Byte), ReadLeft > 0,
         NEW data \in BlockData
  PROVE  \E n \in Nat :
           /\ n <= ReadLeft /\ ReadOff - RoundDown(ReadOff) + n <= Blk
           /\ Copy(data) =
                [k \in 1 .. n |-> data[ReadOff - RoundDown(ReadOff) + k]]
<1>. DEFINE o == ReadOff
            index == o - RoundDown(o)
            n == IF ReadLeft <= Blk - index THEN ReadLeft ELSE Blk - index
<1>1. Len(buf) \in Nat OBVIOUS
<1>2. o \in Nat /\ ReadLeft \in Int BY <1>1, SMT DEF ReadOff, ReadLeft
<1>3. RoundDown(o) \in Nat /\ RoundDown(o) <= o /\ o - RoundDown(o) < Blk
  BY <1>2, RoundDownBounds
<1>. HIDE DEF o
<1>4. index \in Nat /\ index < Blk BY <1>2, <1>3, SMT
<1>. HIDE DEF index
<1>5. n \in Nat /\ index + n <= Blk /\ n <= ReadLeft
  BY <1>2, <1>4, BytesAssumption, SMT
<1>. HIDE DEF n
<1>6. Copy(data) = [k \in 1 .. n |-> data[index + k]]
  BY Zenon DEF Copy, o, index, n
<1>. QED BY <1>5, <1>6 DEF index, o

(* What logfs_read() has after copying: what it had, and bytes of the block. *)
LEMMA CopyAppended ==
  ASSUME req.off \in Nat, req.len \in Nat, buf \in Seq(Byte), ReadLeft > 0,
         NEW data \in BlockData
  PROVE  /\ Len(buf \o Copy(data)) <= req.len
         /\ \A k \in 1 .. Len(buf) : (buf \o Copy(data))[k] = buf[k]
         /\ \A k \in 1 .. Len(buf \o Copy(data)) : k > Len(buf) =>
              \E j \in 1 .. Blk :
                /\ RoundDown(ReadOff) + j = req.off + k
                /\ (buf \o Copy(data))[k] = data[j]
<1>. DEFINE at == ReadOff - RoundDown(ReadOff)
            c  == Copy(data)
            all == buf \o c
<1>1. PICK n \in Nat : /\ n <= ReadLeft /\ at + n <= Blk
                       /\ c = [k \in 1 .. n |-> data[at + k]]
  BY CopyIs
<1>2. Len(buf) \in Nat OBVIOUS
<1>3. c \in Seq(Byte) BY CopyType
<1>4. Len(c) = n BY <1>1
<1>. HIDE DEF c
<1>5. Len(all) = Len(buf) + n BY <1>3, <1>4
<1>6. Len(all) <= req.len BY <1>1, <1>2, <1>5, SMT DEF ReadLeft
<1>7. \A k \in 1 .. Len(buf) : all[k] = buf[k] BY <1>3
<1>8. /\ ReadOff \in Nat /\ RoundDown(ReadOff) \in Nat
      /\ RoundDown(ReadOff) <= ReadOff
  <2>1. ReadOff \in Nat BY <1>2 DEF ReadOff
  <2>. QED BY <2>1, RoundDownBounds
<1>9. ASSUME NEW k \in 1 .. Len(all), k > Len(buf)
      PROVE  \E j \in 1 .. Blk : /\ RoundDown(ReadOff) + j = req.off + k
                                 /\ all[k] = data[j]
  <2>. DEFINE i == k - Len(buf)
  <2>1. i \in 1 .. n BY <1>2, <1>5, <1>9, SMT
  <2>2. all[k] = c[i] BY <1>2, <1>3, <1>4, <1>5, <1>9
  <2>3. c[i] = data[at + i] BY <1>1, <2>1
  <2>4. at + i \in 1 .. Blk
    <3>1. at \in Nat BY <1>8
    <3>2. Blk \in Nat BY BytesAssumption
    <3>. HIDE DEF at, i
    <3>. QED BY <1>1, <2>1, <3>1, <3>2, SMT
  <2>5. RoundDown(ReadOff) + (at + i) = req.off + k
    BY <1>2, <1>8, <1>9, SMT DEF ReadOff
  <2>. QED BY <2>2, <2>3, <2>4, <2>5
<1>. QED BY <1>6, <1>7, <1>9 DEF c

LEMMA CallsStep ==
  WithinLimits /\ TypeOK /\ Calls /\ [Next]_vars => Calls'
<1>. SUFFICES ASSUME WithinLimits, TypeOK, Calls, [Next]_vars
              PROVE  Calls'
  OBVIOUS
<1>. USE DEF Calls, AppendPC, ReadPC, flags, flusher, call
<1>1. CASE FlusherStep
  <2>1. CASE FlusherStart BY <2>1 DEF FlusherStart
  <2>2. CASE FlusherWait BY <2>2 DEF FlusherWait
  <2>3. CASE FlusherWake BY <2>3 DEF FlusherWake
  <2>4. CASE FlusherDequeue BY <2>4 DEF FlusherDequeue
  <2>5. CASE FlusherSkip BY <2>5 DEF FlusherSkip
  <2>6. CASE FlusherWrite BY <2>6 DEF FlusherWrite
  <2>7. CASE FlusherWriteFails BY <2>7 DEF FlusherWriteFails
  <2>8. CASE FlusherExits BY <2>8 DEF FlusherExits
  <2>9. CASE FlusherDone BY <2>9 DEF FlusherDone
  <2>10. CASE FlusherReturn BY <2>10 DEF FlusherReturn
  <2>. QED
    BY <1>1, <2>1, <2>2, <2>3, <2>4, <2>5, <2>6, <2>7, <2>8, <2>9, <2>10
    DEF FlusherStep
<1>2. CASE ClientStep
  <2>. USE DEF Goto
  <2>1. CASE Open BY <2>1 DEF Open
  <2>2. CASE OpenTry BY <2>2 DEF OpenTry
  <2>3. CASE ClientWait BY <2>3 DEF ClientWait
  <2>4. CASE AppendLock BY <2>4 DEF AppendLock, LockDoFlush
  <2>5. CASE AppendAdd
    <3>1. appended' = appended + req.len /\ appended \in Nat
          /\ req.len \in Nat
      BY <2>5, BytesAssumption DEF AppendAdd, TypeOK, Byte
    <3>. QED BY <2>5, <3>1 DEF AppendAdd
  <2>6. CASE AppendFull BY <2>6 DEF AppendFull, SignalFlusher
  <2>7. CASE AppendRetry BY <2>7 DEF AppendRetry, FlushDone
  <2>8. CASE AppendFlush BY <2>8 DEF AppendFlush, SignalFlusher
  <2>9. CASE AppendNoFlush BY <2>9 DEF AppendNoFlush
  <2>10. CASE AppendReturn BY <2>10 DEF AppendReturn, FlushDone
  <2>11. CASE ReadMark BY <2>11 DEF ReadMark
  <2>12. CASE ReadSignal BY <2>12 DEF ReadSignal, SignalFlusher
  <2>13. CASE ReadFlushed BY <2>13 DEF ReadFlushed, FlushDone
  <2>14. CASE ReadLock BY <2>14 DEF ReadLock, LockDoFlush
  <2>15. CASE ReadHit
    <3>1. /\ req.off \in Nat /\ req.len \in Nat /\ buf \in Seq(Byte)
          /\ ReadLeft > 0
      BY <2>15 DEF TypeOK, ReadHit
    <3>2. PICK data \in BlockData : buf' = buf \o Copy(data)
      <4>1. PICK s \in read_cache_lookup(rc, ReadOff) :
              buf' = buf \o Copy(rc[s].data)
        BY <2>15 DEF ReadHit
      <4>2. rc[s].data \in BlockData
        BY DEF read_cache_lookup, Holding, ReadCacheType, TypeOK
      <4>. QED BY <4>1, <4>2
    <3>3. Len(buf') <= req.len BY <3>1, <3>2, CopyAppended
    <3>. QED BY <2>15, <3>3 DEF ReadHit
  <2>16. CASE ReadMiss
    <3>1. /\ req.off \in Nat /\ req.len \in Nat /\ buf \in Seq(Byte)
          /\ ReadLeft > 0
      BY <2>16 DEF TypeOK, ReadMiss
    <3>2. PICK data \in BlockData : buf' = buf \o Copy(data)
      <4>1. ReadOff \in Nat
        <5>1. Len(buf) \in Nat BY <3>1
        <5>. QED BY <3>1, <5>1 DEF ReadOff
      <4>2. RoundDown(ReadOff) \in Nat BY <4>1, RoundDownBounds
      <4>3. device_read(disk, RoundDown(ReadOff)) \in BlockData
        BY <2>16, <4>2, DeviceReadType DEF ReadMiss, TypeOK
      <4>. QED BY <2>16, <4>3 DEF ReadMiss
    <3>3. Len(buf') <= req.len BY <3>1, <3>2, CopyAppended
    <3>. QED BY <2>16, <3>3 DEF ReadMiss
  <2>17. CASE ReadFail BY <2>17 DEF ReadFail
  <2>18. CASE ReadReturn BY <2>18 DEF ReadReturn
  <2>19. CASE CloseSignal BY <2>19 DEF CloseSignal
  <2>20. CASE CloseJoin BY <2>20 DEF CloseJoin
  <2>. QED
    BY <1>2, <2>1, <2>2, <2>3, <2>4, <2>5, <2>6, <2>7, <2>8, <2>9, <2>10,
       <2>11, <2>12, <2>13, <2>14, <2>15, <2>16, <2>17, <2>18, <2>19, <2>20
    DEF ClientStep
<1>3. CASE ClientCall
  <2>. USE DEF Goto
  <2>1. ASSUME NEW len \in AppendLens, AppendCall(len) PROVE Calls'
    <3>1. len <= Blk BY DEF WithinLimits
    <3>. QED BY <2>1, <3>1 DEF AppendCall
  <2>2. ASSUME NEW off \in 0 .. MaxLog, NEW len \in 0 .. MaxLog,
               ReadCall(off, len)
        PROVE  Calls'
    <3>1. buf' = <<>> /\ Len(<<>>) = 0 /\ 0 <= len
      BY <2>2, BytesAssumption DEF ReadCall
    <3>. QED BY <2>2, <3>1 DEF ReadCall
  <2>3. CASE CloseCall BY <2>3 DEF CloseCall
  <2>. QED BY <1>3, <2>1, <2>2, <2>3 DEF ClientCall
<1>4. CASE SpuriousWakeup BY <1>4 DEF SpuriousWakeup
<1>5. CASE UNCHANGED vars BY <1>5 DEF vars
<1>. QED BY <1>1, <1>2, <1>3, <1>4, <1>5 DEF Next, Finished

-----------------------------------------------------------------------------
(* The steps that move bytes of the log. *)
Busy == FlusherDequeue \/ FlusherWrite \/ AppendAdd

(* What every other step leaves alone. *)
Quiet ==
  /\ UNCHANGED <<wb, disk, tail_offset, appended>>
  /\ fpc' = "write" <=> fpc = "write"
  /\ fpc = "write" =>
       UNCHANGED <<dont_dequeue_wb, disk_write_buf, exit_flusher>>
  /\ exit_flusher => exit_flusher'

(* What a flush takes when the flusher gets to it. *)
LEMMA FlushLenHere ==
  ASSUME WithinLimits, LogInv, flush_available, fpc = "test"
  PROVE  /\ FlushLen(wb, dont_dequeue_wb) \in Nat
         /\ FlushLen(wb, dont_dequeue_wb) <= Blk
         /\ dont_dequeue_wb \/ exit_flusher =>
              FlushLen(wb, dont_dequeue_wb) = Buffered(wb)
         /\ ~dont_dequeue_wb /\ ~exit_flusher =>
              /\ FlushLen(wb, dont_dequeue_wb) = Blk
              /\ Buffered(wb) >= Blk
         /\ FlushLen(wb, dont_dequeue_wb) <= Buffered(wb)
<1>. DEFINE b == Buffered(wb)
            n == FlushLen(wb, dont_dequeue_wb)
<1>1. /\ wb \in WriteBufferType /\ dont_dequeue_wb \in BOOLEAN
      /\ b \in Nat /\ Blk \in Nat /\ Blk > 0
  BY BufferedIs, SizePositive DEF LogInv, TypeOK
<1>2. b < 2 * Blk /\ Size > 2 /\ 2 * Blk <= Size
  BY DEF LogInv, DataInv, Backlog, WithinLimits
<1>3. cpc # "append_check"
  BY DEF LogInv, MutualExclusion, ClientHolds, FlusherHolds
<1>4. dont_dequeue_wb \/ exit_flusher => ~(b >= Blk)
  BY <1>3 DEF LogInv, DataInv, Backlog, Handshake
<1>5. ~dont_dequeue_wb /\ ~exit_flusher => b >= Blk
  BY DEF LogInv, DataInv, Backlog, Requests, WaitPC
<1>. HIDE DEF b
<1>6. dont_dequeue_wb => b <= Blk BY <1>1, <1>4, SMT
<1>7. n = IF b <= Blk THEN b ELSE Blk
  BY <1>1, <1>2, <1>6, FlushLenIs DEF b
<1>. HIDE DEF n
<1>8. n \in Nat /\ n <= Blk /\ n <= b BY <1>1, <1>7, SMT
<1>9. dont_dequeue_wb \/ exit_flusher => n = b BY <1>1, <1>4, <1>7, SMT
<1>10. ~dont_dequeue_wb /\ ~exit_flusher => n = Blk /\ b >= Blk
  BY <1>1, <1>5, <1>7, SMT
<1>. QED BY <1>8, <1>9, <1>10 DEF n, b

(* Neither write_buffer_dequeue() nor device_write() ends the process. *)
LEMMA NeverExits ==
  ASSUME WithinLimits, LogInv
  PROVE  ~FlusherExits
<1>1. ASSUME fpc = "test", flush_available, FlushExits(wb, dont_dequeue_wb)
      PROVE  FALSE
  <2>1. /\ FlushLen(wb, dont_dequeue_wb) \in Nat
        /\ FlushLen(wb, dont_dequeue_wb) <= Blk
    BY <1>1, FlushLenHere
  <2>2. FlushLen(wb, dont_dequeue_wb) > Size BY <1>1 DEF FlushExits
  <2>3. 2 * Blk <= Size BY DEF WithinLimits
  <2>. QED BY <2>1, <2>2, <2>3, SizePositive, SMT
<1>2. ASSUME fpc = "write", ~OnDevice(tail_offset, Len(disk_write_buf))
      PROVE  FALSE
  <2>1. /\ Len(disk_write_buf) = Blk /\ tail_offset < appended
        /\ tail_offset % Blk = 0
    BY <1>2 DEF LogInv, DataInv, Image, Position
  <2>2. tail_offset \in Nat /\ appended \in Nat /\ appended <= DevSize
    BY BytesAssumption, DeviceAssumption, SMT
    DEF LogInv, TypeOK, Byte, WithinLimits, DevSize
  <2>3. DevSize \in Nat /\ DevSize % Blk = 0
    <3>1. DevSize = Blk * DevBlocks /\ DevBlocks \in Int /\ DevSize \in Nat
      BY BytesAssumption, DeviceAssumption, SMT DEF DevSize
    <3>. QED BY <3>1, SizePositive, Multiple
  <2>4. tail_offset \in Int /\ DevSize \in Int /\ tail_offset < DevSize
    BY <2>1, <2>2, <2>3, SMT
  <2>5. tail_offset + Blk <= DevSize
    BY <2>1, <2>3, <2>4, SizePositive, MultiplesApart
  <2>6. Blk % Blk = 0 BY SizePositive, SMT
  <2>. QED BY <1>2, <2>1, <2>5, <2>6 DEF OnDevice
<1>. QED BY <1>1, <1>2 DEF FlusherExits

LEMMA OthersQuiet ==
  ASSUME WithinLimits, LogInv, [Next]_vars
  PROVE  Quiet \/ Busy
<1>. USE DEF LogInv, MutualExclusion, ClientHolds, FlusherHolds, flags, flusher,
             call, store, Quiet
<1>1. CASE FlusherStep
  <2>1. CASE FlusherStart BY <2>1 DEF FlusherStart
  <2>2. CASE FlusherWait BY <2>2 DEF FlusherWait
  <2>3. CASE FlusherWake BY <2>3 DEF FlusherWake
  <2>4. CASE FlusherDequeue
    BY <2>4 DEF Busy
  <2>5. CASE FlusherSkip BY <2>5 DEF FlusherSkip
  <2>6. CASE FlusherWrite
    BY <2>6 DEF Busy
  <2>7. CASE FlusherWriteFails
    BY <2>7 DEF FlusherWriteFails, WithinLimits
  <2>8. CASE FlusherExits
    BY <2>8, NeverExits
  <2>9. CASE FlusherDone BY <2>9 DEF FlusherDone
  <2>10. CASE FlusherReturn BY <2>10 DEF FlusherReturn
  <2>. QED
    BY <1>1, <2>1, <2>2, <2>3, <2>4, <2>5, <2>6, <2>7, <2>8, <2>9, <2>10
    DEF FlusherStep
<1>2. CASE ClientStep
  <2>. USE DEF Goto
  <2>1. CASE Open BY <2>1 DEF Open, Handshake
  <2>2. CASE OpenTry BY <2>2 DEF OpenTry
  <2>3. CASE ClientWait BY <2>3 DEF ClientWait
  <2>4. CASE AppendLock BY <2>4 DEF AppendLock, LockDoFlush
  <2>5. CASE AppendAdd
    BY <2>5 DEF Busy
  <2>6. CASE AppendFull BY <2>6 DEF AppendFull, SignalFlusher
  <2>7. CASE AppendRetry BY <2>7 DEF AppendRetry, FlushDone
  <2>8. CASE AppendFlush BY <2>8 DEF AppendFlush, SignalFlusher
  <2>9. CASE AppendNoFlush BY <2>9 DEF AppendNoFlush
  <2>10. CASE AppendReturn BY <2>10 DEF AppendReturn, FlushDone
  <2>11. CASE ReadMark BY <2>11 DEF ReadMark
  <2>12. CASE ReadSignal BY <2>12 DEF ReadSignal, SignalFlusher
  <2>13. CASE ReadFlushed BY <2>13 DEF ReadFlushed, FlushDone
  <2>14. CASE ReadLock BY <2>14 DEF ReadLock, LockDoFlush
  <2>15. CASE ReadHit BY <2>15 DEF ReadHit
  <2>16. CASE ReadMiss BY <2>16 DEF ReadMiss
  <2>17. CASE ReadFail BY <2>17 DEF ReadFail
  <2>18. CASE ReadReturn BY <2>18 DEF ReadReturn
  <2>19. CASE CloseSignal BY <2>19 DEF CloseSignal
  <2>20. CASE CloseJoin BY <2>20 DEF CloseJoin
  <2>. QED
    BY <1>2, <2>1, <2>2, <2>3, <2>4, <2>5, <2>6, <2>7, <2>8, <2>9, <2>10,
       <2>11, <2>12, <2>13, <2>14, <2>15, <2>16, <2>17, <2>18, <2>19, <2>20
    DEF ClientStep
<1>3. CASE ClientCall
  BY <1>3 DEF ClientCall, AppendCall, ReadCall, CloseCall, Goto
<1>4. CASE SpuriousWakeup BY <1>4 DEF SpuriousWakeup
<1>5. CASE UNCHANGED vars BY <1>5 DEF vars
<1>. QED BY <1>1, <1>2, <1>3, <1>4, <1>5 DEF Next, Finished

(* An append never finds the write buffer full. *)
LEMMA AppendFits ==
  ASSUME WithinLimits, LogInv, cpc = "append_add", Buffered(wb) < Blk
  PROVE  Fits(wb, req.len) /\ Buffered(wb) + req.len < 2 * Blk
<1>1. /\ wb \in WriteBufferType /\ req.len \in Nat /\ req.len <= Blk
      /\ Buffered(wb) \in Nat
  BY BufferedIs DEF LogInv, TypeOK, DataInv, Calls, AppendPC
<1>2. 2 * Blk <= Size BY DEF WithinLimits
<1>3. Buffered(wb) + req.len < 2 * Blk /\ Buffered(wb) + req.len < Size
  BY <1>1, <1>2, SizePositive, SMT
<1>4. Fits(wb, req.len) BY <1>1, <1>3, AddIs
<1>. QED BY <1>3, <1>4

LEMMA BacklogStep ==
  ASSUME WithinLimits, LogInv, [Next]_vars, Quiet
  PROVE  Backlog'
<1>. DEFINE many == Buffered(wb) >= Blk
            Where ==
              /\ many => \/ cpc = "append_check"
                         \/ /\ cpc = "append_wait" /\ flush_available
                            /\ ~dont_dequeue_wb /\ fpc # "write"
              /\ cpc = "append_wait" /\ flush_available /\ fpc # "write" =>
                   many
              /\ cpc # "full_wait" /\ ~Exited
<1>a. many' <=> many BY DEF Quiet
<1>b. Where /\ Handshake /\ MutualExclusion /\ Requests
  BY DEF LogInv, DataInv, Backlog
<1>c. ~many => Buffered(wb) < Blk
  <2>1. Buffered(wb) \in Nat BY BufferedIs DEF LogInv, TypeOK
  <2>. QED BY <2>1, SizePositive, SMT
<1>d. (fpc' = "write" <=> fpc = "write") BY DEF Quiet
<1>. HIDE DEF many
<1>e. SUFFICES Where'
  <2>1. Buffered(wb') < 2 * Blk BY DEF Quiet, LogInv, DataInv, Backlog
  <2>. QED BY <1>e, <2>1 DEF Backlog, many
<1>. USE <1>a, <1>b, <1>d DEF Handshake, MutualExclusion, Requests, ClientHolds,
         FlusherHolds, WaitPC, flags, flusher, Exited
<1>1. CASE FlusherStep
  <2>1. CASE FlusherStart BY <2>1 DEF FlusherStart
  <2>2. CASE FlusherWait BY <2>2 DEF FlusherWait
  <2>3. CASE FlusherWake BY <2>3 DEF FlusherWake
  <2>4. CASE FlusherDequeue
    BY <2>4 DEF FlusherDequeue
  <2>5. CASE FlusherSkip
    <3>1. /\ fpc = "test" /\ flush_available
          /\ NothingToFlush(wb, dont_dequeue_wb)
      BY <2>5 DEF FlusherSkip
    <3>2. cpc = "append_wait" => ~exit_flusher OBVIOUS
    <3>3. ~dont_dequeue_wb /\ ~exit_flusher =>
            FlushLen(wb, dont_dequeue_wb) = Blk
      BY <3>1, FlushLenHere
    <3>4. ~dont_dequeue_wb => FlushLen(wb, dont_dequeue_wb) = 0
      BY <3>1 DEF NothingToFlush
    <3>5. ~(cpc = "append_wait" /\ ~dont_dequeue_wb)
      BY <3>2, <3>3, <3>4, SizePositive, SMT
    <3>. QED BY <2>5, <3>5 DEF FlusherSkip
  <2>6. CASE FlusherWrite BY <2>6 DEF FlusherWrite
  <2>7. CASE FlusherWriteFails BY <2>7 DEF FlusherWriteFails
  <2>8. CASE FlusherExits
    BY <2>8, NeverExits
  <2>9. CASE FlusherDone BY <2>9 DEF FlusherDone
  <2>10. CASE FlusherReturn BY <2>10 DEF FlusherReturn
  <2>. QED
    BY <1>1, <2>1, <2>2, <2>3, <2>4, <2>5, <2>6, <2>7, <2>8, <2>9, <2>10
    DEF FlusherStep
<1>2. CASE ClientStep
  <2>. USE DEF Goto
  <2>1. CASE Open BY <2>1 DEF Open
  <2>2. CASE OpenTry BY <2>2 DEF OpenTry
  <2>3. CASE ClientWait BY <2>3 DEF ClientWait
  <2>4. CASE AppendLock BY <2>4 DEF AppendLock, LockDoFlush
  <2>5. CASE AppendAdd
    BY <2>5 DEF AppendAdd
  <2>6. CASE AppendFull
    <3>1. cpc = "append_add" /\ ~Fits(wb, req.len)
      BY <2>6 DEF AppendFull
    <3>. QED BY <1>c, <3>1, AppendFits
  <2>7. CASE AppendRetry BY <2>7 DEF AppendRetry, FlushDone
  <2>8. CASE AppendFlush
    BY <2>8 DEF AppendFlush, SignalFlusher, many
  <2>9. CASE AppendNoFlush
    <3>1. ~many
      <4>1. Buffered(wb) < Blk BY <2>9 DEF AppendNoFlush
      <4>2. Buffered(wb) \in Nat BY BufferedIs DEF LogInv, TypeOK
      <4>. QED BY <4>1, <4>2, SizePositive, SMT DEF many
    <3>. QED BY <2>9, <3>1 DEF AppendNoFlush
  <2>10. CASE AppendReturn BY <2>10 DEF AppendReturn, FlushDone
  <2>11. CASE ReadMark BY <2>11 DEF ReadMark
  <2>12. CASE ReadSignal BY <2>12 DEF ReadSignal, SignalFlusher
  <2>13. CASE ReadFlushed BY <2>13 DEF ReadFlushed, FlushDone
  <2>14. CASE ReadLock BY <2>14 DEF ReadLock, LockDoFlush
  <2>15. CASE ReadHit BY <2>15 DEF ReadHit
  <2>16. CASE ReadMiss BY <2>16 DEF ReadMiss
  <2>17. CASE ReadFail BY <2>17 DEF ReadFail
  <2>18. CASE ReadReturn BY <2>18 DEF ReadReturn
  <2>19. CASE CloseSignal BY <2>19 DEF CloseSignal
  <2>20. CASE CloseJoin BY <2>20 DEF CloseJoin
  <2>. QED
    BY <1>2, <2>1, <2>2, <2>3, <2>4, <2>5, <2>6, <2>7, <2>8, <2>9, <2>10,
       <2>11, <2>12, <2>13, <2>14, <2>15, <2>16, <2>17, <2>18, <2>19, <2>20
    DEF ClientStep
<1>3. CASE ClientCall
  BY <1>3 DEF ClientCall, AppendCall, ReadCall, CloseCall, Goto
<1>4. CASE SpuriousWakeup BY <1>4 DEF SpuriousWakeup
<1>5. CASE UNCHANGED vars BY <1>5 DEF vars
<1>. QED BY <1>1, <1>2, <1>3, <1>4, <1>5 DEF Next, Finished

LEMMA FlushedStep ==
  ASSUME WithinLimits, LogInv, [Next]_vars, Quiet
  PROVE  Flushed'
<1>. DEFINE all == wb.last_avail = Buffered(wb)
<1>a. /\ cpc \in {"read_lock", "read_loop"} => all
      /\ cpc = "read_wait" /\ ~flush_available => all
      /\ exit_flusher /\ ~flush_available => all
  BY DEF LogInv, DataInv, Flushed
<1>b. all' <=> all BY DEF Quiet
<1>c. (fpc # "write")' =>
        (\A i \in 0 .. wb.last_avail - 1 :
           disk[tail_offset + i] = tail_offset + i + 1)'
  BY DEF Quiet, LogInv, DataInv, Flushed
<1>d. Handshake /\ MutualExclusion /\ Requests BY DEF LogInv, DataInv
<1>. HIDE DEF all
<1>e. SUFFICES (/\ cpc \in {"read_lock", "read_loop"} => all
                /\ cpc = "read_wait" /\ ~flush_available => all
                /\ exit_flusher /\ ~flush_available => all)'
  BY <1>c, <1>e DEF Flushed, all
<1>. USE <1>a, <1>b, <1>d DEF Handshake, MutualExclusion, Requests, ClientHolds,
         FlusherHolds, WaitPC, flags, flusher
<1>1. CASE FlusherStep
  <2>1. CASE FlusherStart BY <2>1 DEF FlusherStart
  <2>2. CASE FlusherWait BY <2>2 DEF FlusherWait
  <2>3. CASE FlusherWake BY <2>3 DEF FlusherWake
  <2>4. CASE FlusherDequeue BY <2>4 DEF FlusherDequeue
  <2>5. CASE FlusherSkip
    <3>1. fpc = "test" /\ flush_available /\ NothingToFlush(wb, dont_dequeue_wb)
      BY <2>5 DEF FlusherSkip
    <3>. DEFINE n == FlushLen(wb, dont_dequeue_wb)
    <3>2. n \in Nat /\ n <= Buffered(wb) BY <3>1, FlushLenHere
    <3>3. wb.last_avail \in Nat /\ Buffered(wb) \in Nat
      BY BufferedIs DEF LogInv, TypeOK, WriteBufferType
    <3>4. wb.last_avail <= Buffered(wb) BY DEF LogInv, DataInv, Position
    <3>5. n = 0 \/ n <= wb.last_avail BY <3>1 DEF NothingToFlush
    <3>6. dont_dequeue_wb \/ exit_flusher => n = Buffered(wb)
      BY <3>1, FlushLenHere
    <3>. HIDE DEF n
    <3>7. dont_dequeue_wb \/ exit_flusher => all
      BY <3>2, <3>3, <3>4, <3>5, <3>6, SMT DEF all
    <3>. QED BY <2>5, <3>7 DEF FlusherSkip
  <2>6. CASE FlusherWrite
    BY <2>6 DEF FlusherWrite, Quiet
  <2>7. CASE FlusherWriteFails
    BY <2>7 DEF FlusherWriteFails, Quiet
  <2>8. CASE FlusherExits
    BY <2>8, NeverExits
  <2>9. CASE FlusherDone BY <2>9 DEF FlusherDone
  <2>10. CASE FlusherReturn BY <2>10 DEF FlusherReturn
  <2>. QED
    BY <1>1, <2>1, <2>2, <2>3, <2>4, <2>5, <2>6, <2>7, <2>8, <2>9, <2>10
    DEF FlusherStep
<1>2. CASE ClientStep
  <2>. USE DEF Goto
  <2>1. CASE Open BY <2>1 DEF Open
  <2>2. CASE OpenTry BY <2>2 DEF OpenTry
  <2>3. CASE ClientWait BY <2>3 DEF ClientWait
  <2>4. CASE AppendLock BY <2>4 DEF AppendLock, LockDoFlush
  <2>5. CASE AppendAdd BY <2>5 DEF AppendAdd
  <2>6. CASE AppendFull BY <2>6 DEF AppendFull, SignalFlusher
  <2>7. CASE AppendRetry BY <2>7 DEF AppendRetry, FlushDone
  <2>8. CASE AppendFlush BY <2>8 DEF AppendFlush, SignalFlusher
  <2>9. CASE AppendNoFlush BY <2>9 DEF AppendNoFlush
  <2>10. CASE AppendReturn BY <2>10 DEF AppendReturn, FlushDone
  <2>11. CASE ReadMark BY <2>11 DEF ReadMark
  <2>12. CASE ReadSignal BY <2>12 DEF ReadSignal, SignalFlusher
  <2>13. CASE ReadFlushed BY <2>13 DEF ReadFlushed, FlushDone
  <2>14. CASE ReadLock BY <2>14 DEF ReadLock, LockDoFlush
  <2>15. CASE ReadHit BY <2>15 DEF ReadHit
  <2>16. CASE ReadMiss BY <2>16 DEF ReadMiss
  <2>17. CASE ReadFail BY <2>17 DEF ReadFail
  <2>18. CASE ReadReturn BY <2>18 DEF ReadReturn
  <2>19. CASE CloseSignal BY <2>19 DEF CloseSignal
  <2>20. CASE CloseJoin BY <2>20 DEF CloseJoin
  <2>. QED
    BY <1>2, <2>1, <2>2, <2>3, <2>4, <2>5, <2>6, <2>7, <2>8, <2>9, <2>10,
       <2>11, <2>12, <2>13, <2>14, <2>15, <2>16, <2>17, <2>18, <2>19, <2>20
    DEF ClientStep
<1>3. CASE ClientCall
  BY <1>3 DEF ClientCall, AppendCall, ReadCall, CloseCall, Goto
<1>4. CASE SpuriousWakeup BY <1>4 DEF SpuriousWakeup
<1>5. CASE UNCHANGED vars BY <1>5 DEF vars
<1>. QED BY <1>1, <1>2, <1>3, <1>4, <1>5 DEF Next, Finished

LEMMA PositionsStep ==
  ASSUME LogInv, [Next]_vars, Quiet
  PROVE  Position' /\ Content' /\ Image'
<1>. USE DEF LogInv, DataInv, Quiet
<1>1. InFlight' = InFlight BY DEF InFlight
<1>2. exit_flusher => exit_flusher'
  OBVIOUS
<1>3. Position' BY <1>1, <1>2 DEF Position
<1>4. Content' BY <1>1 DEF Content
<1>5. Image' BY DEF Image
<1>. QED BY <1>3, <1>4, <1>5

-----------------------------------------------------------------------------
(* The steps that move bytes: out of the write buffer, into it, and to the *)
(* device.                                                                 *)

LEMMA DequeueStep ==
  ASSUME WithinLimits, LogInv, FlusherDequeue
  PROVE  Backlog' /\ Position' /\ Content' /\ Image' /\ Flushed'
<1>. DEFINE b == Buffered(wb)
            n == FlushLen(wb, dont_dequeue_wb)
<1>1. /\ fpc = "test" /\ flush_available
      /\ ~NothingToFlush(wb, dont_dequeue_wb)
      /\ disk_write_buf' = FlushImage(wb, dont_dequeue_wb)
      /\ wb' = AfterFlush(wb, dont_dequeue_wb) /\ fpc' = "write"
      /\ UNCHANGED <<rc, disk, tail_offset, cpc, appended>>
      /\ UNCHANGED <<flush_available, dont_dequeue_wb, exit_flusher>>
  BY DEF FlusherDequeue, flags, call
<1>2. /\ wb \in WriteBufferType /\ dont_dequeue_wb \in BOOLEAN
      /\ tail_offset \in Nat /\ appended \in Nat /\ b \in Nat
      /\ Blk \in Nat /\ Blk > 0 /\ wb.tail \in Nat /\ wb.last_avail \in Nat
  BY BufferedIs, IndexInt, SizePositive, BytesAssumption, SMT
  DEF LogInv, TypeOK, Byte, WriteBufferType
<1>3. /\ n \in Nat /\ n <= Blk /\ n <= b
      /\ dont_dequeue_wb \/ exit_flusher => n = b
      /\ ~dont_dequeue_wb /\ ~exit_flusher => n = Blk
  BY <1>1, FlushLenHere
<1>4. 0 < n BY <1>1, <1>3, SMT DEF NothingToFlush
<1>5. InFlight = 0 BY <1>1 DEF InFlight
<1>6. /\ tail_offset % Blk = 0 /\ tail_offset + b = appended
      /\ wb.last_avail <= b
  <2>. HIDE DEF b
  <2>1. b # 0 BY <1>2, <1>3, <1>4, SMT
  <2>. QED BY <1>2, <1>5, <2>1, SMT DEF LogInv, DataInv, Position, b
<1>7. \A i \in 0 .. b - 1 :
        wb.buffer[(wb.tail + 1 + i) % Size] = tail_offset + i + 1
  BY <1>2, <1>5 DEF LogInv, DataInv, Content
<1>8. /\ Len(disk_write_buf') = Blk
      /\ \A k \in 1 .. Blk : k <= n =>
           disk_write_buf'[k] = wb.buffer[(wb.tail + k) % Size]
  BY <1>1, <1>2, <1>3, <1>4, ImageIs
<1>9. tail_offset < appended
  BY <1>2, <1>3, <1>4, <1>6, SMT
<1>10. b < 2 * Blk BY DEF LogInv, DataInv, Backlog
<1>11. \A o \in 0 .. tail_offset - 1 : o < appended => disk[o] = o + 1
  BY DEF LogInv, DataInv, Content
<1>12. /\ cpc # "append_check" /\ cpc # "full_wait"
       /\ cpc \notin {"read_lock", "read_loop"}
  BY <1>1 DEF LogInv, DataInv, Backlog, MutualExclusion, ClientHolds,
              FlusherHolds, Requests, Handshake, WaitPC
<1>. DEFINE nb == Buffered(wb')
<1>13. ASSUME NEW k \in 1 .. Blk, k <= n
       PROVE  disk_write_buf'[k] = tail_offset + k
  <2>1. /\ k - 1 \in 0 .. b - 1
        /\ wb.tail + 1 + (k - 1) = wb.tail + k
        /\ tail_offset + (k - 1) + 1 = tail_offset + k
    BY <1>2, <1>3, <1>13, SMT
  <2>2. wb.buffer[(wb.tail + 1 + (k - 1)) % Size] = tail_offset + (k - 1) + 1
    BY <1>7, <2>1
  <2>. QED BY <1>8, <1>13, <2>1, <2>2
<1>. HIDE DEF b, n
<1>14. CASE dont_dequeue_wb
  <2>1. /\ nb = b /\ wb'.buffer = wb.buffer /\ wb'.tail = wb.tail
        /\ wb'.last_avail = n
    BY <1>1, <1>2, <1>14, KeepIs DEF b, n
  <2>2. n = b BY <1>3, <1>14
  <2>3. InFlight' = 0 BY <1>1, <1>14 DEF InFlight
  <2>4. b < Blk
    <3>1. ~(b >= Blk) BY <1>12, <1>14 DEF LogInv, DataInv, Backlog, b
    <3>. QED BY <1>2, <3>1, SMT
  <2>5. ~(cpc = "append_wait" /\ flush_available)
    BY <1>14 DEF LogInv, DataInv, Requests
  <2>. HIDE DEF nb
  <2>6. nb < 2 * Blk /\ ~(nb >= Blk) BY <1>2, <2>1, <2>4, SMT
  <2>7. Backlog' BY <1>1, <1>12, <2>6 DEF Backlog, Exited, nb
  <2>8. Position'
    BY <1>1, <1>2, <1>6, <2>1, <2>2, <2>3 DEF Position, nb
  <2>9. Content'
    BY <1>1, <1>2, <1>7, <1>11, <2>1, <2>3 DEF Content, nb
  <2>10. Image'
    <3>1. ASSUME NEW k \in 1 .. Blk, tail_offset + k <= appended
          PROVE  disk_write_buf'[k] = tail_offset + k
      <4>1. k <= n BY <1>2, <1>6, <2>2, <3>1, SMT
      <4>. QED BY <1>13, <4>1
    <3>. QED BY <1>1, <1>8, <1>9, <1>14, <2>1, <2>2, <3>1 DEF Image, nb
  <2>11. Flushed' BY <1>1, <2>1, <2>2 DEF Flushed, nb
  <2>. QED BY <2>7, <2>8, <2>9, <2>10, <2>11
<1>15. CASE ~dont_dequeue_wb
  <2>1. /\ nb = b - n /\ wb'.buffer = wb.buffer /\ wb'.last_avail = 0
        /\ \A i \in Nat : i < b - n =>
             (wb'.tail + 1 + i) % Size = (wb.tail + 1 + (n + i)) % Size
    BY <1>1, <1>2, <1>3, <1>15, DequeueIs DEF b, n
  <2>2. InFlight' = Blk BY <1>1, <1>8, <1>15 DEF InFlight
  <2>. HIDE DEF nb
  <2>3. nb \in Nat /\ nb < Blk
    <3>1. CASE exit_flusher BY <1>2, <1>3, <2>1, <3>1, SMT
    <3>2. CASE ~exit_flusher BY <1>2, <1>3, <1>10, <1>15, <2>1, <3>2, SMT
    <3>. QED BY <3>1, <3>2
  <2>4. nb < 2 * Blk /\ ~(nb >= Blk) BY <1>2, <2>3, SMT
  <2>5. Backlog' BY <1>1, <1>12, <2>4 DEF Backlog, Exited, nb
  <2>6. exit_flusher => nb = 0 /\ appended <= tail_offset + Blk
    BY <1>2, <1>3, <1>6, <2>1, SMT
  <2>7. ~exit_flusher => n = Blk /\ tail_offset + Blk + nb = appended
    BY <1>2, <1>3, <1>6, <1>15, <2>1, SMT
  <2>8. Position'
    BY <1>1, <1>6, <2>1, <2>2, <2>3, <2>6, <2>7 DEF Position, nb
  <2>9. ASSUME NEW i \in 0 .. nb - 1
        PROVE  wb'.buffer[(wb'.tail + 1 + i) % Size] = tail_offset + Blk + i + 1
    <3>1. ~exit_flusher BY <2>3, <2>6, <2>9, SMT
    <3>2. n = Blk BY <2>7, <3>1
    <3>3. i \in Nat /\ i < b - n /\ n + i \in 0 .. b - 1
      BY <1>2, <1>3, <2>1, <2>3, <2>9, SMT
    <3>4. wb.buffer[(wb.tail + 1 + (n + i)) % Size] = tail_offset + (n + i) + 1
      BY <1>7, <3>3 DEF b
    <3>5. tail_offset + (n + i) + 1 = tail_offset + Blk + i + 1
      BY <1>2, <3>2, <3>3, SMT
    <3>. QED BY <2>1, <3>3, <3>4, <3>5
  <2>10. Content'
    BY <1>1, <1>11, <2>2, <2>9 DEF Content, nb
  <2>11. Image'
    <3>1. ASSUME NEW k \in 1 .. Blk, tail_offset + k <= appended
          PROVE  disk_write_buf'[k] = tail_offset + k
      <4>1. k <= n BY <1>2, <1>3, <1>6, <1>15, <3>1, SMT
      <4>. QED BY <1>13, <4>1
    <3>. QED BY <1>1, <1>8, <1>9, <1>15, <2>1, <2>6, <3>1 DEF Image, nb
  <2>12. Flushed'
    <3>1. ~(exit_flusher /\ ~flush_available)' BY <1>1
    <3>2. ~(cpc = "read_wait" /\ ~flush_available)' BY <1>1
    <3>3. ~(cpc \in {"read_lock", "read_loop"})' BY <1>1, <1>12
    <3>. QED BY <1>1, <3>1, <3>2, <3>3 DEF Flushed
  <2>. QED BY <2>5, <2>8, <2>10, <2>11, <2>12
<1>. QED BY <1>14, <1>15

LEMMA AddStep ==
  ASSUME WithinLimits, LogInv, AppendAdd
  PROVE  Backlog' /\ Position' /\ Content' /\ Image' /\ Flushed'
<1>. DEFINE b == Buffered(wb)
            nb == Buffered(wb')
<1>1. /\ cpc = "append_add" /\ cpc' = "append_check" /\ ~Exited
      /\ wb' = write_buffer_add(wb, appended + 1, req.len)
      /\ appended' = appended + req.len
      /\ UNCHANGED <<fpc, disk, tail_offset, disk_write_buf>>
      /\ UNCHANGED <<flush_available, dont_dequeue_wb, exit_flusher>>
  BY DEF AppendAdd, Goto, flags, flusher
<1>2. /\ wb \in WriteBufferType /\ tail_offset \in Nat /\ appended \in Nat
      /\ b \in Nat /\ Blk \in Nat /\ Blk > 0 /\ req.len \in Nat
      /\ wb.last_avail \in Nat
  BY BufferedIs, SizePositive, BytesAssumption, SMT
  DEF LogInv, TypeOK, Byte, WriteBufferType
<1>3. fpc # "write" /\ ~exit_flusher
  BY <1>1 DEF LogInv, MutualExclusion, ClientHolds, FlusherHolds, Handshake
<1>4. InFlight = 0 /\ InFlight' = 0 BY <1>1, <1>3 DEF InFlight
<1>5. b < Blk
  <2>1. ~(b >= Blk) BY <1>1 DEF LogInv, DataInv, Backlog
  <2>. QED BY <1>2, <2>1, SMT
<1>6. b + req.len < 2 * Blk /\ b + req.len < Size
  <2>1. b + req.len < 2 * Blk BY <1>1, <1>5, AppendFits
  <2>2. 2 * Blk <= Size BY DEF WithinLimits
  <2>. QED BY <1>2, <2>1, <2>2, SizePositive, SMT
<1>7. /\ nb = b + req.len /\ wb'.tail = wb.tail
      /\ wb'.last_avail = wb.last_avail
      /\ \A i \in Nat :
           LET at == (wb.tail + 1 + i) % Size
           IN  /\ i < b => wb'.buffer[at] = wb.buffer[at]
               /\ b <= i /\ i < b + req.len =>
                    wb'.buffer[at] = appended + 1 + i - b
  <2>1. appended + 1 \in Nat BY <1>2
  <2>. QED BY <1>1, <1>2, <1>6, <2>1, AddIs
<1>8. /\ tail_offset % Blk = 0 /\ tail_offset + b = appended
      /\ wb.last_avail <= b
  BY <1>2, <1>3, <1>4, SMT DEF LogInv, DataInv, Position
<1>9. \A i \in 0 .. b - 1 :
        wb.buffer[(wb.tail + 1 + i) % Size] = tail_offset + i + 1
  BY <1>2, <1>4 DEF LogInv, DataInv, Content
<1>10. \A o \in 0 .. tail_offset - 1 : o < appended => disk[o] = o + 1
  BY DEF LogInv, DataInv, Content
<1>11. \A i \in 0 .. wb.last_avail - 1 :
         disk[tail_offset + i] = tail_offset + i + 1
  BY <1>3 DEF LogInv, DataInv, Flushed
<1>. HIDE DEF b, nb
<1>12. Backlog' BY <1>1, <1>6, <1>7 DEF Backlog, Exited, nb
<1>13. Position'
  <2>1. tail_offset + 0 + nb = appended' /\ wb.last_avail <= nb
    BY <1>1, <1>2, <1>7, <1>8, SMT
  <2>. QED BY <1>1, <1>4, <1>7, <1>8, <2>1 DEF Position, nb
<1>14. Content'
  <2>1. \A o \in 0 .. tail_offset - 1 : o < appended
    BY <1>2, <1>8, SMT
  <2>2. ASSUME NEW i \in 0 .. nb - 1
        PROVE  wb'.buffer[(wb'.tail + 1 + i) % Size] = tail_offset + 0 + i + 1
    <3>1. i \in Nat /\ i < b + req.len BY <1>2, <1>7, <2>2, SMT
    <3>2. CASE i < b
      <4>1. i \in 0 .. b - 1 BY <1>2, <3>1, <3>2, SMT
      <4>2. wb'.buffer[(wb.tail + 1 + i) % Size] = tail_offset + i + 1
        BY <1>7, <1>9, <3>1, <3>2, <4>1 DEF b
      <4>. QED BY <1>2, <1>7, <3>1, <4>2
    <3>3. CASE ~(i < b)
      <4>1. b <= i BY <1>2, <3>1, <3>3, SMT
      <4>2. wb'.buffer[(wb.tail + 1 + i) % Size] = appended + 1 + i - b
        BY <1>7, <3>1, <4>1
      <4>3. appended + 1 + i - b = tail_offset + 0 + i + 1
        BY <1>2, <1>8, <3>1, SMT
      <4>. QED BY <1>7, <4>2, <4>3
    <3>. QED BY <3>2, <3>3
  <2>. QED BY <1>1, <1>4, <1>10, <2>1, <2>2 DEF Content, nb
<1>15. Image' BY <1>1, <1>3 DEF Image
<1>16. Flushed' BY <1>1, <1>3, <1>7, <1>11 DEF Flushed
<1>. QED BY <1>12, <1>13, <1>14, <1>15, <1>16

LEMMA DeviceWriteIs ==
  ASSUME NEW d \in DiskType, NEW data \in Seq(Byte), NEW o \in Nat,
         Len(data) = Blk
  PROVE  \A i \in 0 .. DevSize - 1 :
           /\ o <= i /\ i < o + Blk =>
                device_write(d, data, o)[i] = data[i - o + 1]
           /\ ~(o <= i /\ i < o + Blk) => device_write(d, data, o)[i] = d[i]
<1>1. DevSize \in Nat BY BytesAssumption, DeviceAssumption, SMT DEF DevSize
<1>2. \A i \in 0 .. DevSize - 1 :
        device_write(d, data, o)[i] =
          IF i >= o /\ i < o + Blk THEN data[i - o + 1] ELSE d[i]
  BY DEF device_write
<1>. QED BY <1>1, <1>2, SMT

LEMMA WriteStep ==
  ASSUME WithinLimits, LogInv, FlusherWrite
  PROVE  Backlog' /\ Position' /\ Content' /\ Image' /\ Flushed'
<1>. DEFINE b == Buffered(wb)
<1>1. /\ fpc = "write" /\ fpc' = "flushed"
      /\ disk' = device_write(disk, disk_write_buf, tail_offset)
      /\ tail_offset' = IF dont_dequeue_wb THEN tail_offset
                        ELSE tail_offset + Len(disk_write_buf)
      /\ flush_available' = FALSE
      /\ UNCHANGED <<wb, exit_flusher, cpc, appended>>
  BY DEF FlusherWrite, call
<1>2. /\ wb \in WriteBufferType /\ dont_dequeue_wb \in BOOLEAN
      /\ tail_offset \in Nat /\ appended \in Nat /\ b \in Nat
      /\ Blk \in Nat /\ Blk > 0 /\ wb.last_avail \in Nat
      /\ disk \in DiskType /\ disk_write_buf \in Seq(Byte)
  BY BufferedIs, SizePositive, BytesAssumption, SMT
  DEF LogInv, TypeOK, Byte, WriteBufferType
<1>3. /\ Len(disk_write_buf) = Blk /\ tail_offset < appended
      /\ \A k \in 1 .. Blk : tail_offset + k <= appended =>
           disk_write_buf[k] = tail_offset + k
      /\ dont_dequeue_wb => wb.last_avail = b
      /\ ~dont_dequeue_wb => wb.last_avail = 0
      /\ ~dont_dequeue_wb /\ exit_flusher => b = 0
  BY <1>1 DEF LogInv, DataInv, Image
<1>4. /\ InFlight = (IF dont_dequeue_wb THEN 0 ELSE Blk) /\ InFlight' = 0
  BY <1>1, <1>2, <1>3 DEF InFlight
<1>5. appended <= DevSize /\ DevSize \in Nat
  BY BytesAssumption, DeviceAssumption, SMT
  DEF LogInv, TypeOK, Byte, WithinLimits, DevSize
<1>6. \A i \in 0 .. DevSize - 1 :
        /\ tail_offset <= i /\ i < tail_offset + Blk =>
             disk'[i] = disk_write_buf[i - tail_offset + 1]
        /\ ~(tail_offset <= i /\ i < tail_offset + Blk) => disk'[i] = disk[i]
  BY <1>1, <1>2, <1>3, DeviceWriteIs
<1>7. \A o \in 0 .. tail_offset - 1 : o < appended => disk[o] = o + 1
  BY DEF LogInv, DataInv, Content
<1>8. /\ tail_offset % Blk = 0
      /\ \/ tail_offset + InFlight + b = appended
         \/ /\ exit_flusher /\ b = 0 /\ appended <= tail_offset + InFlight
      /\ wb.last_avail <= b
  BY DEF LogInv, DataInv, Position
<1>9. \A i \in 0 .. b - 1 :
        wb.buffer[(wb.tail + 1 + i) % Size] = tail_offset + InFlight + i + 1
  BY DEF LogInv, DataInv, Content
<1>10. /\ ~(b >= Blk) /\ b < 2 * Blk /\ cpc # "full_wait"
  BY <1>1 DEF LogInv, DataInv, Backlog, MutualExclusion, ClientHolds,
              FlusherHolds
<1>11. tail_offset' + InFlight' = tail_offset + InFlight /\ tail_offset' \in Nat
  BY <1>1, <1>2, <1>3, <1>4, SMT
<1>12. \A o \in 0 .. tail_offset + Blk - 1 : o < appended => disk'[o] = o + 1
  <2>. SUFFICES ASSUME NEW o \in 0 .. tail_offset + Blk - 1, o < appended
                PROVE  disk'[o] = o + 1
    OBVIOUS
  <2>1. o \in 0 .. DevSize - 1 /\ o \in Nat BY <1>2, <1>5, SMT
  <2>2. CASE o < tail_offset
    <3>1. disk[o] = o + 1 BY <1>2, <1>7, <2>1, <2>2, SMT
    <3>2. ~(tail_offset <= o) BY <1>2, <2>1, <2>2, SMT
    <3>. QED BY <1>6, <2>1, <3>1, <3>2
  <2>3. CASE ~(o < tail_offset)
    <3>1. /\ tail_offset <= o /\ o < tail_offset + Blk
          /\ o - tail_offset + 1 \in 1 .. Blk
          /\ tail_offset + (o - tail_offset + 1) <= appended
          /\ tail_offset + (o - tail_offset + 1) = o + 1
      BY <1>2, <2>1, <2>3, SMT
    <3>. QED BY <1>3, <1>6, <2>1, <3>1
  <2>. QED BY <2>2, <2>3
<1>. HIDE DEF b
<1>13. Backlog' BY <1>1, <1>10 DEF Backlog, Exited, b
<1>14. Position'
  <2>1. tail_offset' % Blk = 0
    <3>1. (tail_offset + Blk) % Blk = 0
      <4>1. tail_offset \in Int /\ Blk \in Nat \ {0} BY <1>2, SMT
      <4>. QED BY <1>8, <4>1, MultiplePlus
    <3>. QED BY <1>1, <1>3, <1>8, <3>1
  <2>. QED BY <1>1, <1>8, <1>11, <2>1 DEF Position, b
<1>15. Content'
  <2>1. \A o \in 0 .. tail_offset' - 1 : o < appended => disk'[o] = o + 1
    <3>1. tail_offset' \in Nat /\ tail_offset' <= tail_offset + Blk
      BY <1>1, <1>2, <1>3, SMT
    <3>2. \A t \in Nat : t <= tail_offset + Blk =>
            \A o \in 0 .. t - 1 : o \in 0 .. tail_offset + Blk - 1
      BY <1>2, SMT
    <3>. QED BY <1>12, <3>1, <3>2
  <2>. QED BY <1>1, <1>9, <1>11, <2>1 DEF Content, b
<1>16. Image' BY <1>1 DEF Image
<1>17. Flushed'
  <2>1. ASSUME NEW i \in 0 .. wb.last_avail - 1
        PROVE  disk'[tail_offset' + i] = tail_offset' + i + 1
    <3>1. dont_dequeue_wb BY <1>3, <2>1, SMT
    <3>2. tail_offset' = tail_offset /\ InFlight = 0 BY <1>1, <1>4, <3>1
    <3>3. tail_offset + b = appended \/ b = 0 BY <1>2, <1>8, <3>2, SMT
    <3>4. b < Blk BY <1>2, <1>10, SMT
    <3>5. tail_offset + i \in 0 .. tail_offset + Blk - 1
          /\ tail_offset + i < appended
      BY <1>2, <1>8, <2>1, <3>3, <3>4, SMT
    <3>. QED BY <1>12, <3>2, <3>5
  <2>2. cpc \in {"read_lock", "read_loop"} \/ cpc = "read_wait" \/ exit_flusher
          => wb.last_avail = b
    <3>1. flush_available BY <1>1 DEF LogInv, Handshake
    <3>2. exit_flusher \/ cpc \in WaitPC
      BY <3>1 DEF LogInv, DataInv, Requests
    <3>3. cpc = "read_wait" => dont_dequeue_wb
      BY <3>1 DEF LogInv, DataInv, Requests
    <3>4. exit_flusher => cpc \in {"close_join", "closed"}
      BY DEF LogInv, Handshake
    <3>. QED BY <1>3, <3>2, <3>3, <3>4 DEF WaitPC
  <2>. QED BY <1>1, <2>1, <2>2 DEF Flushed, b
<1>. QED BY <1>13, <1>14, <1>15, <1>16, <1>17

-----------------------------------------------------------------------------
(* The read cache. *)

(* A set of natural numbers that is not empty has a least element. *)
LEMMA Least ==
  ASSUME NEW T, T \subseteq Nat, T # {}
  PROVE  \E x \in T : \A y \in T : x <= y
<1>. DEFINE R == {ss \in Nat \X Nat : ss[1] < ss[2]}
<1>1. IsWellFoundedOn(R, Nat) BY NatLessThanWellFounded DEF OpToRel
<1>. HIDE DEF R
<1>2. \E x \in T : \A y \in T : <<y, x>> \notin R BY <1>1, WFMin
<1>3. \A x, y \in Nat : <<y, x>> \notin R => x <= y BY SMT DEF R
<1>. QED BY <1>2, <1>3

(* Disks that agree on a block give the same block. *)
LEMMA DeviceReadIs ==
  ASSUME NEW d, NEW e, NEW o \in Nat, o + Blk <= DevSize,
         \A i \in 0 .. DevSize - 1 : o <= i /\ i < o + Blk => d[i] = e[i]
  PROVE  device_read(d, o) = device_read(e, o)
<1>1. ASSUME NEW k \in 1 .. Blk PROVE d[o + k - 1] = e[o + k - 1]
  <2>1. /\ o + k - 1 \in 0 .. DevSize - 1
        /\ o <= o + k - 1 /\ o + k - 1 < o + Blk
    BY BytesAssumption, DeviceAssumption, SMT DEF DevSize
  <2>. QED BY <2>1
<1>. QED BY <1>1 DEF device_read

(* Cached and CacheCoherent for a cache and a disk. *)
Coherent(c, d) ==
  \A s \in Slot : c[s].valid =>
    /\ c[s].begin_offset % Blk = 0
    /\ c[s].begin_offset + Blk <= DevSize
    /\ c[s].data = device_read(d, c[s].begin_offset)
    /\ \A t \in Slot : c[t].valid /\ c[t].begin_offset = c[s].begin_offset =>
         t = s

LEMMA CoherentFor ==
  ASSUME NEW c \in ReadCacheType, NEW d
  PROVE  (\A s \in Slot : c[s].valid =>
            /\ c[s].begin_offset % Blk = 0
            /\ c[s].begin_offset + Blk <= DevSize
            /\ c[s].data = device_read(d, c[s].begin_offset)
            /\ Holding(c, c[s].begin_offset) = {s})
         <=> Coherent(c, d)
<1>1. \A s \in Slot : c[s].begin_offset \in Nat BY DEF ReadCacheType
<1>2. ASSUME NEW s \in Slot, c[s].valid, c[s].begin_offset % Blk = 0
      PROVE  Holding(c, c[s].begin_offset) = {s} <=>
               \A t \in Slot :
                 c[t].valid /\ c[t].begin_offset = c[s].begin_offset => t = s
  <2>1. RoundDown(c[s].begin_offset) = c[s].begin_offset
    BY <1>1, <1>2, RoundDownIs
  <2>. QED BY <1>2, <2>1 DEF Holding
<1>. QED BY <1>2 DEF Coherent

LEMMA CoherentIs ==
  ASSUME rc \in ReadCacheType
  PROVE  Cached /\ CacheCoherent <=> Coherent(rc, disk)
<1>1. Cached /\ CacheCoherent <=>
        \A s \in Slot : rc[s].valid =>
          /\ rc[s].begin_offset % Blk = 0
          /\ rc[s].begin_offset + Blk <= DevSize
          /\ rc[s].data = device_read(disk, rc[s].begin_offset)
          /\ Holding(rc, rc[s].begin_offset) = {s}
  BY Zenon DEF Cached, CacheCoherent
<1>. QED BY <1>1, CoherentFor, Zenon

(* A flush rewrites one block, and drops it from the cache. *)
LEMMA InvalidateCoherent ==
  ASSUME WithinLimits, LogInv, FlusherWrite
  PROVE  Coherent(rc', disk')
<1>1. /\ fpc = "write"
      /\ disk' = device_write(disk, disk_write_buf, tail_offset)
      /\ rc' = read_cache_invalidate(rc, tail_offset)
  BY DEF FlusherWrite
<1>2. /\ rc \in ReadCacheType /\ disk \in DiskType /\ tail_offset \in Nat
      /\ disk_write_buf \in Seq(Byte)
  BY DEF LogInv, TypeOK
<1>3. Len(disk_write_buf) = Blk /\ tail_offset % Blk = 0
  BY <1>1 DEF LogInv, DataInv, Image, Position
<1>4. Coherent(rc, disk) BY <1>2, CoherentIs DEF LogInv, DataInv
<1>5. RoundDown(tail_offset) = tail_offset BY <1>2, <1>3, RoundDownIs
<1>6. \A s \in Slot :
        rc'[s].valid =>
          /\ rc[s].valid /\ rc'[s] = rc[s]
          /\ rc[s].begin_offset # tail_offset
  <2>. SUFFICES ASSUME NEW s \in Slot, rc'[s].valid
                PROVE  /\ rc[s].valid /\ rc'[s] = rc[s]
                       /\ rc[s].begin_offset # tail_offset
    OBVIOUS
  <2>1. rc'[s] = IF s \in Holding(rc, tail_offset)
                 THEN [rc[s] EXCEPT !.valid = FALSE, !.data = ZeroBlock]
                 ELSE rc[s]
    BY <1>1 DEF read_cache_invalidate
  <2>2. s \notin Holding(rc, tail_offset)
    BY <1>2, <2>1 DEF ReadCacheType
  <2>3. rc'[s] = rc[s] BY <2>1, <2>2
  <2>. QED BY <1>5, <2>2, <2>3 DEF Holding
<1>7. \A i \in 0 .. DevSize - 1 :
        ~(tail_offset <= i /\ i < tail_offset + Blk) => disk'[i] = disk[i]
  BY <1>1, <1>2, <1>3, DeviceWriteIs
<1>8. ASSUME NEW s \in Slot, rc[s].valid, rc[s].begin_offset # tail_offset
      PROVE  device_read(disk', rc[s].begin_offset) =
               device_read(disk, rc[s].begin_offset)
  <2>. DEFINE o == rc[s].begin_offset
  <2>1. o \in Nat /\ o % Blk = 0 /\ o + Blk <= DevSize
    BY <1>2, <1>4, <1>8 DEF Coherent, ReadCacheType
  <2>2. o + Blk <= tail_offset \/ tail_offset + Blk <= o
    BY <1>2, <1>3, <1>8, <2>1, BlocksApart
  <2>. HIDE DEF o
  <2>3. \A i \in 0 .. DevSize - 1 : o <= i /\ i < o + Blk =>
          disk'[i] = disk[i]
    <3>. SUFFICES ASSUME NEW i \in 0 .. DevSize - 1, o <= i, i < o + Blk
                  PROVE  disk'[i] = disk[i]
      OBVIOUS
    <3>1. i \in Int BY BytesAssumption, DeviceAssumption, SMT DEF DevSize
    <3>2. ~(tail_offset <= i /\ i < tail_offset + Blk)
      BY <1>2, <2>1, <2>2, <3>1, SizePositive, SMT
    <3>. QED BY <1>7, <3>2
  <2>4. device_read(disk', o) = device_read(disk, o)
    BY <2>1, <2>3, DeviceReadIs
  <2>. QED BY <2>4 DEF o
<1>. QED BY <1>4, <1>6, <1>8 DEF Coherent

(* A block is only read when the cache does not hold it. *)
LEMMA MissCoherent ==
  ASSUME LogInv, ReadMiss
  PROVE  Coherent(rc', disk')
<1>. DEFINE o == RoundDown(ReadOff)
<1>1. /\ rc \in ReadCacheType /\ buf \in Seq(Byte) /\ req.off \in Nat
  BY DEF LogInv, TypeOK
<1>2. Len(buf) \in Nat /\ ReadOff \in Nat BY <1>1 DEF ReadOff
<1>3. o \in Nat /\ o % Blk = 0 BY <1>2, RoundDownBounds, RoundDownIs
<1>4. /\ read_cache_lookup(rc, ReadOff) = {}
      /\ OnDevice(o, Blk) /\ disk' = disk
      /\ \E s \in Victims(rc) :
           rc' = read_cache_add(rc, s, device_read(disk, o), o)
  BY DEF ReadMiss
<1>5. PICK v \in Victims(rc) :
        rc' = read_cache_add(rc, v, device_read(disk, o), o)
  BY <1>4
<1>6. v \in Slot BY DEF Victims
<1>7. \A s \in Slot : rc[s].valid => rc[s].begin_offset # o
  <2>1. Holding(rc, ReadOff) = {}
    <3>. SUFFICES ASSUME Holding(rc, ReadOff) # {} PROVE FALSE
      OBVIOUS
    <3>1. Holding(rc, ReadOff) \subseteq Nat /\ Slot \subseteq Nat
      BY ReadCacheAssumption, SMT DEF Holding, Slot
    <3>2. \E x \in Holding(rc, ReadOff) :
            \A y \in Holding(rc, ReadOff) : x <= y
      BY <3>1, Least
    <3>. QED BY <1>4, <3>2 DEF read_cache_lookup
  <2>. QED BY <2>1 DEF Holding
<1>8. Coherent(rc, disk) BY <1>1, CoherentIs DEF LogInv, DataInv
<1>9. o + Blk <= DevSize BY <1>4 DEF OnDevice
<1>. HIDE DEF o
<1>10. \A s \in Slot :
         rc'[s] = IF s = v
                  THEN [valid |-> TRUE, begin_offset |-> o,
                        data |-> device_read(disk, o)]
                  ELSE rc[s]
  BY <1>1, <1>5, <1>6 DEF read_cache_add, ReadCacheType
<1>. QED BY <1>3, <1>4, <1>6, <1>7, <1>8, <1>9, <1>10 DEF Coherent

LEMMA CacheStep ==
  ASSUME WithinLimits, LogInv, TypeOK', [Next]_vars
  PROVE  Cached' /\ CacheCoherent'
<1>1. rc \in ReadCacheType /\ (rc \in ReadCacheType)'
  BY DEF LogInv, TypeOK
<1>2. Coherent(rc, disk) BY <1>1, CoherentIs DEF LogInv, DataInv
<1>3. Cached' /\ CacheCoherent' <=> Coherent(rc', disk')
  BY <1>1, CoherentFor DEF Cached, CacheCoherent
<1>4. CASE FlusherWrite BY <1>3, <1>4, InvalidateCoherent
<1>5. CASE ReadMiss BY <1>3, <1>5, MissCoherent
<1>6. CASE ~FlusherWrite /\ ~ReadMiss
  <2>1. UNCHANGED <<rc, disk>>
    <3>. USE DEF store, flags, flusher, call
    <3>1. CASE FlusherStep
      <4>1. CASE FlusherStart BY <4>1 DEF FlusherStart
      <4>2. CASE FlusherWait BY <4>2 DEF FlusherWait
      <4>3. CASE FlusherWake BY <4>3 DEF FlusherWake
      <4>4. CASE FlusherDequeue BY <4>4 DEF FlusherDequeue
      <4>5. CASE FlusherSkip BY <4>5 DEF FlusherSkip
      <4>6. CASE FlusherWrite
        BY <1>6, <4>6
      <4>7. CASE FlusherWriteFails BY <4>7 DEF FlusherWriteFails
      <4>8. CASE FlusherExits BY <4>8 DEF FlusherExits
      <4>9. CASE FlusherDone BY <4>9 DEF FlusherDone
      <4>10. CASE FlusherReturn BY <4>10 DEF FlusherReturn
      <4>. QED
        BY <3>1, <4>1, <4>2, <4>3, <4>4, <4>5, <4>6, <4>7, <4>8, <4>9, <4>10
        DEF FlusherStep
    <3>2. CASE ClientStep
      <4>. USE DEF Goto
      <4>1. CASE Open BY <4>1 DEF Open
      <4>2. CASE OpenTry BY <4>2 DEF OpenTry
      <4>3. CASE ClientWait BY <4>3 DEF ClientWait
      <4>4. CASE AppendLock BY <4>4 DEF AppendLock, LockDoFlush
      <4>5. CASE AppendAdd BY <4>5 DEF AppendAdd
      <4>6. CASE AppendFull BY <4>6 DEF AppendFull, SignalFlusher
      <4>7. CASE AppendRetry BY <4>7 DEF AppendRetry, FlushDone
      <4>8. CASE AppendFlush BY <4>8 DEF AppendFlush, SignalFlusher
      <4>9. CASE AppendNoFlush BY <4>9 DEF AppendNoFlush
      <4>10. CASE AppendReturn BY <4>10 DEF AppendReturn, FlushDone
      <4>11. CASE ReadMark BY <4>11 DEF ReadMark
      <4>12. CASE ReadSignal BY <4>12 DEF ReadSignal, SignalFlusher
      <4>13. CASE ReadFlushed BY <4>13 DEF ReadFlushed, FlushDone
      <4>14. CASE ReadLock BY <4>14 DEF ReadLock, LockDoFlush
      <4>15. CASE ReadHit BY <4>15 DEF ReadHit
      <4>16. CASE ReadMiss
        BY <1>6, <4>16
      <4>17. CASE ReadFail BY <4>17 DEF ReadFail
      <4>18. CASE ReadReturn BY <4>18 DEF ReadReturn
      <4>19. CASE CloseSignal BY <4>19 DEF CloseSignal
      <4>20. CASE CloseJoin BY <4>20 DEF CloseJoin
      <4>. QED
        BY <3>2, <4>1, <4>2, <4>3, <4>4, <4>5, <4>6, <4>7, <4>8, <4>9, <4>10,
           <4>11, <4>12, <4>13, <4>14, <4>15, <4>16, <4>17, <4>18, <4>19, <4>20
        DEF ClientStep
    <3>3. CASE ClientCall
      BY <3>3 DEF ClientCall, AppendCall, ReadCall, CloseCall, Goto
    <3>4. CASE SpuriousWakeup BY <3>4 DEF SpuriousWakeup
    <3>5. CASE UNCHANGED vars BY <3>5 DEF vars
    <3>. QED BY <3>1, <3>2, <3>3, <3>4, <3>5 DEF Next, Finished
  <2>. QED BY <1>2, <1>3, <2>1
<1>. QED BY <1>4, <1>5, <1>6

-----------------------------------------------------------------------------
(* What logfs_read() copies. *)

LEMMA FlushedInLoop == WithinLimits /\ LogInv => FlushedBeforeRead
<1>. SUFFICES ASSUME WithinLimits, LogInv, cpc = "read_loop",
                     NEW o \in 0 .. appended - 1
              PROVE  disk[o] = o + 1
  BY DEF FlushedBeforeRead
<1>1. fpc # "write" /\ ~exit_flusher
  BY DEF LogInv, MutualExclusion, ClientHolds, FlusherHolds, Handshake
<1>2. /\ tail_offset \in Nat /\ appended \in Nat /\ o \in Nat
  BY BytesAssumption, SMT DEF LogInv, TypeOK, Byte
<1>3. InFlight = 0 BY <1>1 DEF InFlight
<1>4. wb.last_avail = Buffered(wb) BY DEF LogInv, DataInv, Flushed
<1>5. tail_offset + Buffered(wb) = appended
  <2>1. Buffered(wb) \in Nat BY BufferedIs DEF LogInv, TypeOK
  <2>. QED BY <1>1, <1>2, <1>3, <2>1, SMT DEF LogInv, DataInv, Position
<1>6. \A i \in 0 .. Buffered(wb) - 1 :
        disk[tail_offset + i] = tail_offset + i + 1
  BY <1>1, <1>4 DEF LogInv, DataInv, Flushed
<1>7. \A x \in 0 .. tail_offset - 1 : x < appended => disk[x] = x + 1
  BY DEF LogInv, DataInv, Content
<1>8. Buffered(wb) \in Nat BY BufferedIs DEF LogInv, TypeOK
<1>9. CASE o < tail_offset
  <2>1. o \in 0 .. tail_offset - 1 /\ o < appended BY <1>2, <1>9, SMT
  <2>. QED BY <1>7, <2>1
<1>10. CASE ~(o < tail_offset)
  <2>1. /\ o - tail_offset \in 0 .. Buffered(wb) - 1
        /\ tail_offset + (o - tail_offset) = o
    BY <1>2, <1>5, <1>8, <1>10, SMT
  <2>. QED BY <1>6, <2>1
<1>. QED BY <1>9, <1>10

(* A block of the device, copied behind what logfs_read() already has.     *)
LEMMA CopyReturns ==
  ASSUME WithinLimits, LogInv, cpc = "read_loop", ReadLeft > 0,
         OnDevice(RoundDown(ReadOff), Blk),
         buf' = buf \o Copy(device_read(disk, RoundDown(ReadOff))),
         req' = req
  PROVE  ReadsReturnTheLog'
<1>. DEFINE data == device_read(disk, RoundDown(ReadOff))
<1>1. /\ buf \in Seq(Byte) /\ req.off \in Nat /\ req.len \in Nat
      /\ disk \in DiskType /\ appended \in Nat
  BY BytesAssumption DEF LogInv, TypeOK, Byte
<1>2. Len(buf) \in Nat /\ ReadOff \in Nat BY <1>1 DEF ReadOff
<1>3. RoundDown(ReadOff) \in Nat BY <1>2, RoundDownBounds
<1>4. data \in BlockData BY <1>1, <1>3, DeviceReadType
<1>5. /\ Len(buf \o Copy(data)) <= req.len
      /\ \A k \in 1 .. Len(buf) : (buf \o Copy(data))[k] = buf[k]
      /\ \A k \in 1 .. Len(buf \o Copy(data)) : k > Len(buf) =>
           \E j \in 1 .. Blk :
             /\ RoundDown(ReadOff) + j = req.off + k
             /\ (buf \o Copy(data))[k] = data[j]
  BY <1>1, <1>4, CopyAppended
<1>6. \A j \in 1 .. Blk : data[j] = disk[RoundDown(ReadOff) + j - 1]
  BY DEF device_read
<1>7. /\ req.op = "read" /\ req.off + req.len <= appended
      /\ \A k \in 1 .. Len(buf) : buf[k] = req.off + k
      /\ \A o \in 0 .. appended - 1 : disk[o] = o + 1
  BY FlushedInLoop
  DEF LogInv, DataInv, Calls, ReadPC, ReadsReturnTheLog, FlushedBeforeRead
<1>8. Copy(data) \in Seq(Byte) BY <1>1, <1>4, CopyType
<1>. DEFINE all == buf \o Copy(data)
<1>9. all \in Seq(Byte) /\ Len(all) \in Nat BY <1>1, <1>8
<1>10. buf' = all OBVIOUS
<1>. HIDE DEF data, all
<1>11. ASSUME NEW k \in 1 .. Len(all) PROVE all[k] = req.off + k
  <2>1. CASE k <= Len(buf)
    <3>1. k \in 1 .. Len(buf) BY <1>2, <1>9, <2>1, SMT
    <3>. QED BY <1>5, <1>7, <3>1 DEF all
  <2>2. CASE ~(k <= Len(buf))
    <3>1. k > Len(buf) BY <1>2, <1>9, <2>2, SMT
    <3>2. PICK j \in 1 .. Blk : /\ RoundDown(ReadOff) + j = req.off + k
                               /\ all[k] = data[j]
      BY <1>5, <3>1 DEF all
    <3>3. Len(all) <= req.len BY <1>5 DEF all
    <3>4. /\ RoundDown(ReadOff) + j - 1 \in 0 .. appended - 1
          /\ (RoundDown(ReadOff) + j - 1) + 1 = req.off + k
      <4>1. k <= Len(all) /\ k >= 1 /\ k \in Nat /\ j \in Nat /\ j >= 1
        BY <1>9, BytesAssumption, SMT
      <4>2. req.off + k <= appended
        BY <1>1, <1>7, <1>9, <3>3, <4>1, SMT
      <4>3. (RoundDown(ReadOff) + j - 1) + 1 = req.off + k
        BY <1>1, <1>3, <3>2, <4>1, SMT
      <4>4. RoundDown(ReadOff) + j - 1 >= 0 BY <1>1, <1>3, <4>1, SMT
      <4>5. RoundDown(ReadOff) + j - 1 <= appended - 1
        BY <1>1, <1>3, <4>1, <4>2, <4>3, SMT
      <4>. QED BY <1>1, <1>3, <4>1, <4>3, <4>4, <4>5, SMT
    <3>. QED BY <1>6, <1>7, <3>2, <3>4
  <2>. QED BY <2>1, <2>2
<1>. QED BY <1>10, <1>11 DEF ReadsReturnTheLog

LEMMA ReadsStep ==
  ASSUME WithinLimits, LogInv, [Next]_vars
  PROVE  ReadsReturnTheLog'
<1>. USE DEF store, flags, flusher, call
<1>0. ASSUME UNCHANGED <<req, buf>> PROVE ReadsReturnTheLog'
  BY <1>0 DEF ReadsReturnTheLog, LogInv, DataInv
<1>1. CASE FlusherStep
  <2>1. CASE FlusherStart BY <2>1, <1>0 DEF FlusherStart
  <2>2. CASE FlusherWait BY <2>2, <1>0 DEF FlusherWait
  <2>3. CASE FlusherWake BY <2>3, <1>0 DEF FlusherWake
  <2>4. CASE FlusherDequeue BY <2>4, <1>0 DEF FlusherDequeue
  <2>5. CASE FlusherSkip BY <2>5, <1>0 DEF FlusherSkip
  <2>6. CASE FlusherWrite BY <2>6, <1>0 DEF FlusherWrite
  <2>7. CASE FlusherWriteFails BY <2>7, <1>0 DEF FlusherWriteFails
  <2>8. CASE FlusherExits BY <2>8, <1>0 DEF FlusherExits
  <2>9. CASE FlusherDone BY <2>9, <1>0 DEF FlusherDone
  <2>10. CASE FlusherReturn BY <2>10, <1>0 DEF FlusherReturn
  <2>. QED
    BY <1>1, <2>1, <2>2, <2>3, <2>4, <2>5, <2>6, <2>7, <2>8, <2>9, <2>10
    DEF FlusherStep
<1>2. CASE ClientStep
  <2>. USE DEF Goto
  <2>1. CASE Open BY <2>1, <1>0 DEF Open
  <2>2. CASE OpenTry BY <2>2, <1>0 DEF OpenTry
  <2>3. CASE ClientWait BY <2>3, <1>0 DEF ClientWait
  <2>4. CASE AppendLock BY <2>4, <1>0 DEF AppendLock, LockDoFlush
  <2>5. CASE AppendAdd BY <2>5, <1>0 DEF AppendAdd
  <2>6. CASE AppendFull BY <2>6, <1>0 DEF AppendFull, SignalFlusher
  <2>7. CASE AppendRetry BY <2>7, <1>0 DEF AppendRetry, FlushDone
  <2>8. CASE AppendFlush BY <2>8, <1>0 DEF AppendFlush, SignalFlusher
  <2>9. CASE AppendNoFlush BY <2>9, <1>0 DEF AppendNoFlush
  <2>10. CASE AppendReturn BY <2>10, <1>0 DEF AppendReturn, FlushDone
  <2>11. CASE ReadMark BY <2>11, <1>0 DEF ReadMark
  <2>12. CASE ReadSignal BY <2>12, <1>0 DEF ReadSignal, SignalFlusher
  <2>13. CASE ReadFlushed BY <2>13, <1>0 DEF ReadFlushed, FlushDone
  <2>14. CASE ReadLock BY <2>14, <1>0 DEF ReadLock, LockDoFlush
  <2>15. CASE ReadHit
    <3>1. PICK s \in read_cache_lookup(rc, ReadOff) :
            buf' = buf \o Copy(rc[s].data)
      BY <2>15 DEF ReadHit
    <3>2. /\ s \in Slot /\ rc[s].valid
          /\ rc[s].begin_offset = RoundDown(ReadOff)
      BY DEF read_cache_lookup, Holding
    <3>3. /\ rc[s].begin_offset % Blk = 0
          /\ rc[s].begin_offset + Blk <= DevSize
          /\ rc[s].data = device_read(disk, rc[s].begin_offset)
      BY <3>2 DEF LogInv, DataInv, Cached, CacheCoherent
    <3>4. Blk % Blk = 0 BY SizePositive, SMT
    <3>5. OnDevice(RoundDown(ReadOff), Blk) BY <3>2, <3>3, <3>4 DEF OnDevice
    <3>6. cpc = "read_loop" /\ ReadLeft > 0 /\ req' = req BY <2>15 DEF ReadHit
    <3>. QED BY <3>1, <3>2, <3>3, <3>5, <3>6, CopyReturns
  <2>16. CASE ReadMiss
    <3>1. /\ cpc = "read_loop" /\ ReadLeft > 0 /\ req' = req
          /\ OnDevice(RoundDown(ReadOff), Blk)
          /\ buf' = buf \o Copy(device_read(disk, RoundDown(ReadOff)))
      BY <2>16 DEF ReadMiss
    <3>. QED BY <3>1, CopyReturns
  <2>17. CASE ReadFail BY <2>17, <1>0 DEF ReadFail
  <2>18. CASE ReadReturn BY <2>18, <1>0 DEF ReadReturn
  <2>19. CASE CloseSignal BY <2>19, <1>0 DEF CloseSignal
  <2>20. CASE CloseJoin BY <2>20, <1>0 DEF CloseJoin
  <2>. QED
    BY <1>2, <2>1, <2>2, <2>3, <2>4, <2>5, <2>6, <2>7, <2>8, <2>9, <2>10,
       <2>11, <2>12, <2>13, <2>14, <2>15, <2>16, <2>17, <2>18, <2>19, <2>20
    DEF ClientStep
<1>3. CASE ClientCall
  <2>1. ASSUME NEW len \in AppendLens, AppendCall(len)
        PROVE  ReadsReturnTheLog'
    <3>1. req'.op = "append" BY <2>1 DEF AppendCall
    <3>. QED BY <3>1 DEF ReadsReturnTheLog
  <2>2. ASSUME NEW off \in 0 .. MaxLog, NEW len \in 0 .. MaxLog,
               ReadCall(off, len)
        PROVE  ReadsReturnTheLog'
    <3>1. buf' = <<>> BY <2>2 DEF ReadCall
    <3>. QED BY <3>1 DEF ReadsReturnTheLog
  <2>3. CASE CloseCall
    BY <2>3 DEF CloseCall, ReadsReturnTheLog, LogInv, DataInv, call
  <2>. QED BY <1>3, <2>1, <2>2, <2>3 DEF ClientCall
<1>4. CASE SpuriousWakeup BY <1>4, <1>0 DEF SpuriousWakeup
<1>5. CASE UNCHANGED vars BY <1>5, <1>0 DEF vars
<1>. QED BY <1>1, <1>2, <1>3, <1>4, <1>5 DEF Next, Finished

-----------------------------------------------------------------------------
(* The invariant, and what follows from it. *)

LEMMA LogInit ==
  ASSUME WithinLimits, Init
  PROVE  LogInv
<1>1. TypeOK BY TypeInit DEF TypeInv
<1>2. MutualExclusion /\ Handshake BY MutualExclusionInit, HandshakeInit
<1>3. Requests /\ Calls
  BY DEF Init, Requests, Calls, AppendPC, ReadPC, WaitPC
<1>4. /\ Buffered(wb) = 0 /\ InFlight = 0 /\ appended = 0 /\ tail_offset = 0
      /\ wb.last_avail = 0 /\ fpc = "none" /\ cpc = "start"
      /\ ~flush_available
  BY SizePositive, SMT DEF Init, write_buffer_open, Buffered, InFlight
<1>5. 0 % Blk = 0 BY SizePositive, SMT
<1>6. Backlog BY <1>4, SizePositive, SMT DEF Backlog, Exited
<1>7. Position BY <1>4, <1>5 DEF Position
<1>8. Content BY <1>4 DEF Content
<1>9. Image /\ Flushed BY <1>4 DEF Image, Flushed
<1>10. Cached /\ CacheCoherent
  BY DEF Init, read_cache_open, Cached, CacheCoherent
<1>11. ReadsReturnTheLog BY DEF Init, ReadsReturnTheLog, NoReq
<1>. QED
  BY <1>1, <1>2, <1>3, <1>6, <1>7, <1>8, <1>9, <1>10, <1>11
  DEF LogInv, DataInv

LEMMA LogStep ==
  ASSUME WithinLimits, LogInv, TypeOK', [Next]_vars
  PROVE  LogInv'
<1>1. MutualExclusion' /\ Handshake'
  BY MutualExclusionStep, HandshakeStep DEF LogInv
<1>2. Requests' BY RequestsStep DEF LogInv, DataInv
<1>3. Calls' BY CallsStep DEF LogInv, DataInv
<1>4. Backlog' /\ Position' /\ Content' /\ Image' /\ Flushed'
  <2>1. CASE Quiet
    BY <2>1, BacklogStep, FlushedStep, PositionsStep
  <2>2. CASE Busy
    BY <2>2, DequeueStep, WriteStep, AddStep DEF Busy
  <2>. QED BY <2>1, <2>2, OthersQuiet
<1>5. Cached' /\ CacheCoherent' BY CacheStep
<1>6. ReadsReturnTheLog' BY ReadsStep
<1>. QED BY <1>1, <1>2, <1>3, <1>4, <1>5, <1>6 DEF LogInv, DataInv

LEMMA LogInvariant ==
  ASSUME WithinLimits
  PROVE  Spec => []LogInv
<1>1. Init => LogInv BY LogInit
<1>2. LogInv /\ TypeOK' /\ [Next]_vars => LogInv' BY LogStep
<1>. QED BY <1>1, <1>2, TypeCorrect, PTL DEF Spec

LEMMA IntactNow ==
  ASSUME LogInv
  PROVE  LogIntact
<1>. SUFFICES ASSUME NEW o \in 0 .. appended - 1
              PROVE  LogByte(o) = o + 1
  BY DEF LogIntact
<1>. DEFINE b == Buffered(wb)
            f == InFlight
<1>1. /\ tail_offset \in Nat /\ appended \in Nat /\ o \in Nat /\ o < appended
      /\ wb \in WriteBufferType /\ b \in Nat /\ wb.tail \in Nat
  BY BufferedIs, IndexInt, BytesAssumption, SMT DEF LogInv, TypeOK, Byte
<1>2. f \in Nat
  <2>1. Len(disk_write_buf) \in Nat BY DEF LogInv, TypeOK
  <2>. QED BY <2>1 DEF InFlight
<1>3. CASE o < tail_offset
  <2>1. o \in 0 .. tail_offset - 1 BY <1>1, <1>3, SMT
  <2>. QED BY <1>1, <1>3, <2>1 DEF LogByte, LogInv, DataInv, Content
<1>4. CASE ~(o < tail_offset) /\ o < tail_offset + f
  <2>1. f # 0 BY <1>1, <1>4, SMT
  <2>2. fpc = "write" /\ f = Len(disk_write_buf) BY <2>1 DEF InFlight
  <2>3. /\ f = Blk
        /\ \A k \in 1 .. Blk : tail_offset + k <= appended =>
             disk_write_buf[k] = tail_offset + k
    BY <2>2 DEF LogInv, DataInv, Image
  <2>. HIDE DEF f
  <2>4. /\ o - tail_offset + 1 \in 1 .. Blk
        /\ tail_offset + (o - tail_offset + 1) = o + 1
        /\ o + 1 <= appended
    BY <1>1, <1>2, <1>4, <2>3, SMT
  <2>5. disk_write_buf[o - tail_offset + 1] = o + 1 BY <2>3, <2>4
  <2>6. LogByte(o) = disk_write_buf[o - tail_offset + 1]
    BY <1>4 DEF LogByte, f
  <2>. QED BY <2>5, <2>6
<1>5. CASE ~(o < tail_offset) /\ ~(o < tail_offset + f)
  <2>1. \/ tail_offset + f + b = appended
        \/ b = 0 /\ appended <= tail_offset + f
    BY DEF LogInv, DataInv, Position
  <2>2. \A i \in 0 .. b - 1 :
          wb.buffer[(wb.tail + 1 + i) % Size] = tail_offset + f + i + 1
    BY DEF LogInv, DataInv, Content
  <2>. HIDE DEF f, b
  <2>. DEFINE i == o - tail_offset - f
  <2>3. /\ i \in 0 .. b - 1
        /\ tail_offset + f + i + 1 = o + 1
        /\ wb.tail + 1 + i = wb.tail + 1 + o - tail_offset - f
    BY <1>1, <1>2, <1>5, <2>1, SMT
  <2>4. LogByte(o) = wb.buffer[(wb.tail + 1 + o - tail_offset - f) % Size]
    BY <1>5 DEF LogByte, f
  <2>. HIDE DEF i
  <2>. QED BY <2>2, <2>3, <2>4
<1>. QED BY <1>3, <1>4, <1>5

(* Every byte that logfs_append() accepted is in its place in the log,     *)
(* whether the flusher has it, the device or still the write buffer.       *)
THEOREM LogIsIntact ==
  ASSUME WithinLimits
  PROVE  Spec => []LogIntact
<1>1. LogInv => LogIntact BY IntactNow
<1>. QED BY <1>1, LogInvariant, PTL

(* logfs_read() never copies anything but the bytes it was asked for.      *)
THEOREM ReadsAreRight ==
  ASSUME WithinLimits
  PROVE  Spec => []ReadsReturnTheLog
<1>1. LogInv => ReadsReturnTheLog BY DEF LogInv, DataInv
<1>. QED BY <1>1, LogInvariant, PTL

(* When logfs_read() goes to the cache and the device, the flush that it   *)
(* asked for has brought everything appended to the device.                *)
THEOREM ReadsComeAfterTheFlush ==
  ASSUME WithinLimits
  PROVE  Spec => []FlushedBeforeRead
<1>1. LogInv => FlushedBeforeRead BY FlushedInLoop
<1>. QED BY <1>1, LogInvariant, PTL

(* What the read cache holds is what the device holds, and no block is in  *)
(* it twice, although a flush drops only the first block that it rewrites. *)
THEOREM CacheIsCoherent ==
  ASSUME WithinLimits
  PROVE  Spec => []CacheCoherent
<1>1. LogInv => CacheCoherent BY DEF LogInv, DataInv
<1>. QED BY <1>1, LogInvariant, PTL

(* When logfs_close() returns, everything appended is on the device.       *)
THEOREM ClosedIsDurable ==
  ASSUME WithinLimits
  PROVE  Spec => []DurableAtClose
<1>1. LogInv => DurableAtClose
  <2>. SUFFICES ASSUME LogInv, cpc = "closed", NEW o \in 0 .. appended - 1
                PROVE  disk[o] = o + 1
    BY DEF DurableAtClose
  <2>. DEFINE b == Buffered(wb)
  <2>1. exit_flusher /\ ~flush_available /\ fpc = "returned"
    BY DEF LogInv, DataInv, Requests
  <2>2. InFlight = 0 BY <2>1 DEF InFlight
  <2>3. /\ tail_offset \in Nat /\ appended \in Nat /\ o \in Nat /\ o < appended
        /\ b \in Nat
    BY BufferedIs, BytesAssumption, SMT DEF LogInv, TypeOK, Byte
  <2>4. /\ wb.last_avail = b
        /\ \A i \in 0 .. wb.last_avail - 1 :
             disk[tail_offset + i] = tail_offset + i + 1
    BY <2>1 DEF LogInv, DataInv, Flushed
  <2>5. tail_offset + b >= appended
    <3>. HIDE DEF b
    <3>. QED BY <2>2, <2>3, SMT DEF LogInv, DataInv, Position, b
  <2>6. \A x \in 0 .. tail_offset - 1 : x < appended => disk[x] = x + 1
    BY DEF LogInv, DataInv, Content
  <2>. HIDE DEF b
  <2>7. CASE o < tail_offset
    <3>1. o \in 0 .. tail_offset - 1 BY <2>3, <2>7, SMT
    <3>. QED BY <2>3, <2>6, <3>1
  <2>8. CASE ~(o < tail_offset)
    <3>1. /\ o - tail_offset \in 0 .. b - 1
          /\ tail_offset + (o - tail_offset) = o
      BY <2>3, <2>5, <2>8, SMT
    <3>. QED BY <2>4, <3>1
  <2>. QED BY <2>7, <2>8
<1>. QED BY <1>1, LogInvariant, PTL

(* Between calls less than one block waits to be written, and it is the     *)
(* end of the log: the one flush of logfs_close() (logfs.c:719) is enough.  *)
THEOREM LittleIsLeft ==
  ASSUME WithinLimits
  PROVE  Spec => []IdleBacklog
<1>1. LogInv => IdleBacklog
  <2>. SUFFICES ASSUME LogInv, cpc \in {"idle", "close_signal"}
                PROVE  /\ Buffered(wb) < Blk
                       /\ tail_offset + Buffered(wb) = appended
    BY DEF IdleBacklog
  <2>1. ~exit_flusher /\ fpc # "write"
    BY DEF LogInv, Handshake, DataInv, Requests, WaitPC
  <2>2. InFlight = 0 BY <2>1 DEF InFlight
  <2>3. tail_offset \in Nat /\ Buffered(wb) \in Nat
    BY BufferedIs DEF LogInv, TypeOK
  <2>4. ~(Buffered(wb) >= Blk) BY DEF LogInv, DataInv, Backlog
  <2>. QED
    BY <2>1, <2>2, <2>3, <2>4, SizePositive, SMT
    DEF LogInv, DataInv, Position
<1>. QED BY <1>1, LogInvariant, PTL

(* Whatever the lengths of the appends and whatever fails, the device      *)
(* below tail_offset is never written again.                               *)
THEOREM NeverRewritten == Spec => WrittenOnce
<1>1. TypeOK /\ [Next]_vars =>
        /\ tail_offset <= tail_offset'
        /\ \A o \in 0 .. tail_offset - 1 : disk'[o] = disk[o]
  <2>. SUFFICES ASSUME TypeOK, [Next]_vars
                PROVE  /\ tail_offset <= tail_offset'
                       /\ \A o \in 0 .. tail_offset - 1 : disk'[o] = disk[o]
    OBVIOUS
  <2>0. /\ tail_offset \in Nat /\ Len(disk_write_buf) \in Nat
        /\ DevSize \in Nat
    BY BytesAssumption, DeviceAssumption, SMT DEF TypeOK, DevSize
  <2>1. CASE FlusherWrite
    <3>1. /\ tail_offset + Len(disk_write_buf) <= DevSize
          /\ disk' = device_write(disk, disk_write_buf, tail_offset)
          /\ tail_offset' = IF dont_dequeue_wb THEN tail_offset
                            ELSE tail_offset + Len(disk_write_buf)
      BY <2>1 DEF FlusherWrite, OnDevice
    <3>2. tail_offset <= tail_offset' BY <2>0, <3>1, SMT
    <3>3. ASSUME NEW o \in 0 .. tail_offset - 1 PROVE disk'[o] = disk[o]
      <4>1. o \in 0 .. DevSize - 1 /\ ~(o >= tail_offset)
        BY <2>0, <3>1, <3>3, SMT
      <4>. QED BY <3>1, <4>1 DEF device_write
    <3>. QED BY <3>2, <3>3
  <2>2. CASE ~FlusherWrite
    <3>1. UNCHANGED <<disk, tail_offset>>
      <4>. USE DEF store, flags, flusher, call
      <4>1. CASE FlusherStep
        <5>1. CASE FlusherStart BY <5>1 DEF FlusherStart
        <5>2. CASE FlusherWait BY <5>2 DEF FlusherWait
        <5>3. CASE FlusherWake BY <5>3 DEF FlusherWake
        <5>4. CASE FlusherDequeue BY <5>4 DEF FlusherDequeue
        <5>5. CASE FlusherSkip BY <5>5 DEF FlusherSkip
        <5>6. CASE FlusherWrite
          BY <2>2, <5>6
        <5>7. CASE FlusherWriteFails BY <5>7 DEF FlusherWriteFails
        <5>8. CASE FlusherExits BY <5>8 DEF FlusherExits
        <5>9. CASE FlusherDone BY <5>9 DEF FlusherDone
        <5>10. CASE FlusherReturn BY <5>10 DEF FlusherReturn
        <5>. QED
          BY <4>1, <5>1, <5>2, <5>3, <5>4, <5>5, <5>6, <5>7, <5>8, <5>9, <5>10
          DEF FlusherStep
      <4>2. CASE ClientStep
        <5>. USE DEF Goto
        <5>1. CASE Open BY <5>1 DEF Open
        <5>2. CASE OpenTry BY <5>2 DEF OpenTry
        <5>3. CASE ClientWait BY <5>3 DEF ClientWait
        <5>4. CASE AppendLock BY <5>4 DEF AppendLock, LockDoFlush
        <5>5. CASE AppendAdd BY <5>5 DEF AppendAdd
        <5>6. CASE AppendFull BY <5>6 DEF AppendFull, SignalFlusher
        <5>7. CASE AppendRetry BY <5>7 DEF AppendRetry, FlushDone
        <5>8. CASE AppendFlush BY <5>8 DEF AppendFlush, SignalFlusher
        <5>9. CASE AppendNoFlush BY <5>9 DEF AppendNoFlush
        <5>10. CASE AppendReturn BY <5>10 DEF AppendReturn, FlushDone
        <5>11. CASE ReadMark BY <5>11 DEF ReadMark
        <5>12. CASE ReadSignal BY <5>12 DEF ReadSignal, SignalFlusher
        <5>13. CASE ReadFlushed BY <5>13 DEF ReadFlushed, FlushDone
        <5>14. CASE ReadLock BY <5>14 DEF ReadLock, LockDoFlush
        <5>15. CASE ReadHit BY <5>15 DEF ReadHit
        <5>16. CASE ReadMiss BY <5>16 DEF ReadMiss
        <5>17. CASE ReadFail BY <5>17 DEF ReadFail
        <5>18. CASE ReadReturn BY <5>18 DEF ReadReturn
        <5>19. CASE CloseSignal BY <5>19 DEF CloseSignal
        <5>20. CASE CloseJoin BY <5>20 DEF CloseJoin
        <5>. QED
          BY <4>2, <5>1, <5>2, <5>3, <5>4, <5>5, <5>6, <5>7, <5>8, <5>9, <5>10,
             <5>11, <5>12, <5>13, <5>14, <5>15, <5>16, <5>17, <5>18, <5>19,
             <5>20
          DEF ClientStep
      <4>3. CASE ClientCall
        BY <4>3 DEF ClientCall, AppendCall, ReadCall, CloseCall, Goto
      <4>4. CASE SpuriousWakeup BY <4>4 DEF SpuriousWakeup
      <4>5. CASE UNCHANGED vars BY <4>5 DEF vars
      <4>. QED BY <4>1, <4>2, <4>3, <4>4, <4>5 DEF Next, Finished
    <3>. QED BY <2>0, <3>1, SMT
  <2>. QED BY <2>1, <2>2
<1>. QED BY <1>1, TypeCorrect, PTL DEF Spec, WrittenOnce

-----------------------------------------------------------------------------
(* The log file system implements AbstractLog: its initial states are      *)
(* mapped to the initial state of the abstract log, and each of its steps  *)
(* to a step of the abstract log or to none.                               *)

(* The log of n bytes, as LogIntact has it. *)
Log(n) == [k \in 1 .. n |-> k]

Result == IF Phase \in {"idle", "closed"} THEN buf ELSE <<>>

(* Appending the next bytes to a log makes a longer log. *)
LEMMA LogGrows ==
  ASSUME NEW n \in Nat, NEW len \in Nat
  PROVE  /\ Log(n) \in Seq(Nat) /\ Len(Log(n)) = n
         /\ Log(n) \o [k \in 1 .. len |-> n + k] = Log(n + len)
<1>. DEFINE more == [k \in 1 .. len |-> n + k]
<1>1. Log(n) \in Seq(Nat) /\ Len(Log(n)) = n BY DEF Log
<1>2. more \in Seq(Nat) /\ Len(more) = len OBVIOUS
<1>3. Log(n + len) \in Seq(Nat) /\ Len(Log(n + len)) = n + len BY DEF Log
<1>4. ASSUME NEW k \in 1 .. n + len
      PROVE  (Log(n) \o more)[k] = Log(n + len)[k]
  <2>1. CASE k <= n BY <1>1, <1>2, <2>1 DEF Log
  <2>2. CASE ~(k <= n) BY <1>1, <1>2, <2>2 DEF Log
  <2>. QED BY <2>1, <2>2
<1>. HIDE DEF more
<1>5. Log(n) \o more = Log(n + len)
  <2>1. /\ Log(n) \o more \in Seq(Nat)
        /\ Len(Log(n) \o more) = Len(Log(n + len))
    BY <1>1, <1>2, <1>3
  <2>2. \A k \in 1 .. Len(Log(n) \o more) :
          (Log(n) \o more)[k] = Log(n + len)[k]
    BY <1>3, <1>4, <2>1
  <2>. QED BY <1>3, <2>1, <2>2, SeqEqual
<1>. QED BY <1>1, <1>5 DEF more

(* The bytes in buffer, flusher and device are one log. *)
LEMMA ViewIs == LogInv => LogView = Log(appended) /\ appended \in Nat
<1>. SUFFICES ASSUME LogInv PROVE LogView = Log(appended) /\ appended \in Nat
  OBVIOUS
<1>1. appended \in Nat BY BytesAssumption DEF LogInv, TypeOK, Byte
<1>2. ASSUME NEW k \in 1 .. appended PROVE LogByte(k - 1) = k
  <2>1. k - 1 \in 0 .. appended - 1 /\ (k - 1) + 1 = k BY <1>1, SMT
  <2>2. LogByte(k - 1) = (k - 1) + 1 BY <2>1, IntactNow DEF LogIntact
  <2>. QED BY <2>1, <2>2
<1>. QED BY <1>1, <1>2 DEF LogView, Log

(* The phase of the abstract client, by where the client is. *)
Phases ==
  /\ cpc \in {"start", "open_try"} => Phase = "new"
  /\ cpc = "idle" => Phase = "idle"
  /\ cpc \in {"append_check", "append_wait"} => Phase = "added"
  /\ cpc \in {"close_signal", "close_join", "closed"} => Phase = "closed"
  /\ cpc \in {"append_lock", "append_add", "full_wait", "read_mark",
              "read_signal", "read_wait", "read_lock", "read_loop"} =>
       Phase = "busy"

LEMMA PhaseIs == Phases
BY DEF Phase, Phases

LEMMA InitMaps ==
  ASSUME Init
  PROVE  AL!Init
<1>1. cpc = "start" /\ appended = 0 /\ req = NoReq BY DEF Init
<1>2. LogView = <<>> BY <1>1 DEF LogView
<1>3. Phase = "new" BY <1>1, PhaseIs DEF Phases
<1>. QED BY <1>1, <1>2, <1>3 DEF AL!Init, NoReq

LEMMA StutterMaps ==
  ASSUME UNCHANGED <<req, appended, Phase>>, LogInv, LogInv',
         Phase \in {"idle", "closed"} => buf' = buf
  PROVE  UNCHANGED AL!vars
<1>1. LogView = Log(appended) BY ViewIs
<1>2. LogView' = Log(appended')
  <2>1. (LogInv => LogView = Log(appended) /\ appended \in Nat)' BY ViewIs, PTL
  <2>. QED BY <2>1
<1>3. LogView' = LogView BY <1>1, <1>2
<1>4. Result' = Result BY DEF Result
<1>. QED BY <1>3, <1>4, Zenon DEF AL!vars, Result

(* What a read returns is a slice of the log. *)
LEMMA SliceIs ==
  ASSUME NEW n \in Nat, NEW off \in Nat, NEW s \in Seq(Byte),
         off + Len(s) <= n, \A k \in 1 .. Len(s) : s[k] = off + k
  PROVE  s = SubSeq(Log(n), off + 1, off + Len(s))
<1>. DEFINE l == Len(s)
            t == SubSeq(Log(n), off + 1, off + l)
<1>1. l \in Nat OBVIOUS
<1>2. \A i \in off + 1 .. off + l : Log(n)[i] = i /\ i \in Nat
  BY <1>1, SMT DEF Log
<1>3. off + 1 \in Int /\ off + l \in Int BY <1>1, SMT
<1>4. /\ t \in Seq(Nat)
      /\ Len(t) = IF off + 1 <= off + l THEN (off + l) - (off + 1) + 1 ELSE 0
      /\ \A i \in 1 .. (off + l) - (off + 1) + 1 :
           t[i] = Log(n)[(off + 1) + i - 1]
  <2>. HIDE DEF l
  <2>1. \A i \in off + 1 .. off + l : Log(n)[i] \in Nat BY <1>2
  <2>. QED BY <1>3, <2>1, SubSeqProperties
<1>. HIDE DEF t
<1>5. Len(t) = l BY <1>1, <1>4, SMT
<1>6. s \in Seq(Nat)
  <2>1. Byte \subseteq Nat BY BytesAssumption, SMT DEF Byte
  <2>. QED BY <2>1, SeqMonotonic
<1>7. ASSUME NEW k \in 1 .. l PROVE s[k] = t[k]
  <2>1. /\ k \in 1 .. (off + l) - (off + 1) + 1
        /\ (off + 1) + k - 1 = off + k /\ off + k \in off + 1 .. off + l
    BY <1>1, SMT
  <2>. QED BY <1>2, <1>4, <2>1
<1>8. s = t BY <1>4, <1>5, <1>6, <1>7, SeqEqual
<1>. QED BY <1>8 DEF t, l

LEMMA StepMaps ==
  ASSUME WithinLimits, ~ReadFails, LogInv, LogInv', [Next]_vars
  PROVE  [AL!Next]_(AL!vars)
<1>a. /\ LogView = Log(appended) /\ LogView' = Log(appended')
      /\ appended \in Nat
  <2>1. (LogInv => LogView = Log(appended) /\ appended \in Nat)'
    BY ViewIs, PTL
  <2>. QED BY <2>1, ViewIs
<1>b. Phases /\ Phases' BY PhaseIs, PTL
<1>c. cpc' = cpc => Phase' = Phase BY DEF Phase
<1>. DEFINE Stutter ==
              /\ UNCHANGED <<req, appended>> /\ Phase' = Phase
              /\ Phase \in {"idle", "closed"} => buf' = buf
<1>d. Stutter => UNCHANGED AL!vars BY StutterMaps
<1>e. SUFFICES Stutter \/ AL!Next
  BY <1>d, <1>e
<1>. USE DEF Phases, store, flags, flusher, call
<1>1. CASE FlusherStep
  <2>1. CASE FlusherStart BY <2>1, <1>b, <1>c DEF FlusherStart
  <2>2. CASE FlusherWait BY <2>2, <1>b, <1>c DEF FlusherWait
  <2>3. CASE FlusherWake BY <2>3, <1>b, <1>c DEF FlusherWake
  <2>4. CASE FlusherDequeue BY <2>4, <1>b, <1>c DEF FlusherDequeue
  <2>5. CASE FlusherSkip BY <2>5, <1>b, <1>c DEF FlusherSkip
  <2>6. CASE FlusherWrite BY <2>6, <1>b, <1>c DEF FlusherWrite
  <2>7. CASE FlusherWriteFails BY <2>7, <1>b, <1>c DEF FlusherWriteFails
  <2>8. CASE FlusherExits BY <2>8, <1>b, <1>c DEF FlusherExits
  <2>9. CASE FlusherDone BY <2>9, <1>b, <1>c DEF FlusherDone
  <2>10. CASE FlusherReturn BY <2>10, <1>b, <1>c DEF FlusherReturn
  <2>. QED
    BY <1>1, <2>1, <2>2, <2>3, <2>4, <2>5, <2>6, <2>7, <2>8, <2>9, <2>10
    DEF FlusherStep
<1>2. CASE ClientStep
  <2>. USE DEF Goto
  <2>1. CASE Open BY <2>1, <1>b, <1>c DEF Open
  <2>2. CASE OpenTry
    <3>1. /\ cpc = "open_try" /\ cpc' = "idle"
          /\ UNCHANGED <<req, appended, buf>>
      BY <2>2 DEF OpenTry
    <3>2. buf = <<>> BY <3>1 DEF LogInv, DataInv, Calls
    <3>3. AL!Open BY <1>a, <1>b, <3>1, <3>2 DEF AL!Open
    <3>. QED BY <3>3 DEF AL!Next
  <2>3. CASE ClientWait BY <2>3, <1>b, <1>c DEF ClientWait
  <2>4. CASE AppendLock BY <2>4, <1>b, <1>c DEF AppendLock, LockDoFlush
  <2>5. CASE AppendAdd
    <3>1. /\ cpc = "append_add" /\ cpc' = "append_check"
          /\ UNCHANGED req /\ appended' = appended + req.len
      BY <2>5 DEF AppendAdd
    <3>2. req.op = "append" /\ req.len \in Nat
      BY <3>1 DEF LogInv, TypeOK, DataInv, Calls, AppendPC
    <3>3. /\ Len(LogView) = appended
          /\ LogView' = LogView \o [k \in 1 .. req.len |-> Len(LogView) + k]
      BY <1>a, <3>1, <3>2, LogGrows
    <3>4. AL!Append1 BY <1>b, <3>1, <3>2, <3>3 DEF AL!Append1
    <3>. QED BY <3>4 DEF AL!Next
  <2>6. CASE AppendFull BY <2>6, <1>b, <1>c DEF AppendFull, SignalFlusher
  <2>7. CASE AppendRetry BY <2>7, <1>b, <1>c DEF AppendRetry, FlushDone
  <2>8. CASE AppendFlush BY <2>8, <1>b, <1>c DEF AppendFlush, SignalFlusher
  <2>9. CASE AppendNoFlush BY <2>9, <1>b, <1>c DEF AppendNoFlush
  <2>10. CASE AppendReturn
    <3>1. /\ cpc = "append_wait" /\ cpc' = "idle"
          /\ UNCHANGED <<req, appended, buf>>
      BY <2>10 DEF AppendReturn
    <3>2. buf = <<>> BY <3>1 DEF LogInv, DataInv, Calls, AppendPC
    <3>3. AL!AppendReturn BY <1>a, <1>b, <3>1, <3>2 DEF AL!AppendReturn
    <3>. QED BY <3>3 DEF AL!Next
  <2>11. CASE ReadMark BY <2>11, <1>b, <1>c DEF ReadMark
  <2>12. CASE ReadSignal BY <2>12, <1>b, <1>c DEF ReadSignal, SignalFlusher
  <2>13. CASE ReadFlushed BY <2>13, <1>b, <1>c DEF ReadFlushed, FlushDone
  <2>14. CASE ReadLock BY <2>14, <1>b, <1>c DEF ReadLock, LockDoFlush
  <2>15. CASE ReadHit BY <2>15, <1>b, <1>c DEF ReadHit
  <2>16. CASE ReadMiss BY <2>16, <1>b, <1>c DEF ReadMiss
  <2>17. CASE ReadFail
    BY <2>17 DEF ReadFail
  <2>18. CASE ReadReturn
    <3>1. /\ cpc = "read_loop" /\ cpc' = "idle" /\ ReadLeft = 0
          /\ UNCHANGED <<req, appended, buf>>
      BY <2>18 DEF ReadReturn
    <3>2. /\ req.op = "read" /\ req.off \in Nat /\ req.len \in Nat
          /\ req.off + req.len <= appended /\ buf \in Seq(Byte)
          /\ \A k \in 1 .. Len(buf) : buf[k] = req.off + k
      BY <3>1
      DEF LogInv, TypeOK, DataInv, Calls, ReadPC, ReadsReturnTheLog
    <3>3. Len(buf) = req.len /\ Len(buf) \in Nat BY <3>1, <3>2 DEF ReadLeft
    <3>4. buf = SubSeq(LogView, req.off + 1, req.off + req.len)
      BY <1>a, <3>2, <3>3, SliceIs
    <3>5. AL!ReadReturn BY <1>a, <1>b, <3>1, <3>2, <3>4 DEF AL!ReadReturn
    <3>. QED BY <3>5 DEF AL!Next
  <2>19. CASE CloseSignal BY <2>19, <1>b, <1>c DEF CloseSignal
  <2>20. CASE CloseJoin BY <2>20, <1>b, <1>c DEF CloseJoin
  <2>. QED
    BY <1>2, <2>1, <2>2, <2>3, <2>4, <2>5, <2>6, <2>7, <2>8, <2>9, <2>10,
       <2>11, <2>12, <2>13, <2>14, <2>15, <2>16, <2>17, <2>18, <2>19, <2>20
    DEF ClientStep
<1>3. CASE ClientCall
  <2>1. ASSUME NEW len \in AppendLens, AppendCall(len)
        PROVE  AL!AppendCall(len)
    <3>1. /\ cpc = "idle" /\ cpc' = "append_lock" /\ appended' = appended
          /\ appended + len <= MaxLog /\ buf' = <<>>
          /\ req' = [op |-> "append", off |-> appended, len |-> len]
      BY <2>1 DEF AppendCall, Goto
    <3>2. Len(LogView) = appended BY <1>a, LogGrows, LogFSAssumption
    <3>. QED BY <1>a, <1>b, <3>1, <3>2 DEF AL!AppendCall
  <2>2. ASSUME NEW off \in 0 .. MaxLog, NEW len \in 0 .. MaxLog,
               ReadCall(off, len)
        PROVE  AL!ReadCall(off, len)
    <3>1. /\ cpc = "idle" /\ cpc' = "read_mark" /\ appended' = appended
          /\ off + len <= appended /\ buf' = <<>>
          /\ req' = [op |-> "read", off |-> off, len |-> len]
      BY <2>2 DEF ReadCall, Goto
    <3>2. Len(LogView) = appended
      <4>1. 0 \in Nat OBVIOUS
      <4>. QED BY <1>a, <4>1, LogGrows
    <3>. QED BY <1>a, <1>b, <3>1, <3>2 DEF AL!ReadCall
  <2>3. CASE CloseCall
    <3>1. /\ cpc = "idle" /\ cpc' = "close_signal"
          /\ UNCHANGED <<req, appended, buf>>
      BY <2>3 DEF CloseCall, Goto
    <3>. QED BY <1>a, <1>b, <3>1 DEF AL!Close, AL!Next
  <2>. QED BY <1>3, <2>1, <2>2, <2>3 DEF ClientCall, AL!Next
<1>4. CASE SpuriousWakeup BY <1>4, <1>b, <1>c DEF SpuriousWakeup
<1>5. CASE UNCHANGED vars BY <1>5, <1>b, <1>c DEF vars
<1>. QED BY <1>1, <1>2, <1>3, <1>4, <1>5 DEF Next, Finished

(* The log file system implements the abstract log: what the threads, the  *)
(* buffers and the device do is, step by step, a log that only grows at    *)
(* its end by whole appends and of which reads return slices.  A read that *)
(* fails has no place in the abstract log.                                 *)
THEOREM LogRefines ==
  ASSUME WithinLimits, ~ReadFails
  PROVE  Spec => ImplementsLog
<1>1. Init => AL!Init BY InitMaps
<1>2. LogInv /\ LogInv' /\ [Next]_vars => [AL!Next]_(AL!vars) BY StepMaps
<1>. QED BY <1>1, <1>2, LogInvariant, PTL DEF Spec, ImplementsLog, AL!Spec
=============================================================================
