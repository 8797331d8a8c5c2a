------------------------------- MODULE LogFS -------------------------------
(***************************************************************************)
(* The log file system of src/p4/logfs.c: an append-only log on a block    *)
(* device, with a circular write buffer, a read cache and a flusher thread *)
(* that writes the buffer to the device.                                   *)
(*                                                                         *)
(* Two threads: the client (the thread that calls logfs_open(),            *)
(* logfs_append(), logfs_read() and logfs_close(); kvraw.c and kvdb.c      *)
(* never use two) and the flusher.  Everything but flush_in_progress is    *)
(* accessed under do_flush_m, whose locking is modelled step by step.      *)
(* done_flush_m only guards flush_in_progress, and no thread blocks or     *)
(* takes another lock while it holds it, so its critical sections are      *)
(* single steps.                                                           *)
(***************************************************************************)
EXTENDS Device, WriteBuffer, ReadCache

CONSTANTS
  AppendLens,   \* lengths that the client appends
  ReadFails,    \* may device_read() fail?
  WriteFails,   \* may device_write() fail?
  MaxSpurious   \* bound: spurious wake-ups of pthread_cond_wait()

ASSUME LogFSAssumption ==
  /\ AppendLens \subseteq Nat
  /\ ReadFails \in BOOLEAN
  /\ WriteFails \in BOOLEAN
  /\ MaxSpurious \in Nat

VARIABLES
  wb,                 \* lfs->write_buffer
  rc,                 \* lfs->read_cache
  disk,               \* what the device holds
  tail_offset,        \* lfs->tail_offset: where the next flush is written
  do_flush_m,         \* is the mutex locked? (a normal mutex has no owner)
  do_flush_cv,        \* is the flusher blocked on this condition variable?
  flusher_started,
  flush_available,
  dont_dequeue_wb,
  exit_flusher,
  done_flush_cv,      \* is the client blocked on this condition variable?
  flush_in_progress,
  fpc,                \* where the flusher is
  disk_write_buf,     \* what the flusher is about to write
  cpc,                \* where the client is
  req,                \* the client's call
  buf,                \* what logfs_read() has copied so far
  ret,                \* what the last call returned
  appended,           \* bytes that went into the write buffer so far
  spurious            \* spurious wake-ups so far

flags   == <<flush_available, dont_dequeue_wb, exit_flusher>>
store   == <<wb, rc, disk, tail_offset>>
flusher == <<fpc, disk_write_buf, flusher_started, do_flush_cv>>
call    == <<req, buf, ret, appended>>
vars    == <<store, do_flush_m, flags, done_flush_cv, flush_in_progress,
             flusher, cpc, call, spurious>>

ClientPC == {"start", "open_try", "idle", "append_lock", "append_add",
             "full_wait", "append_check", "append_wait", "read_mark",
             "read_signal", "read_wait", "read_lock", "read_loop",
             "close_signal", "close_join", "closed"}
FlusherPC == {"none", "spawned", "test", "wait", "write", "flushed",
              "returned", "exit"}

NoReq == [op |-> "none", off |-> 0, len |-> 0]

Init ==
  /\ wb = write_buffer_open /\ rc = read_cache_open
  /\ disk = [i \in 0 .. DevSize - 1 |-> 0]
  /\ tail_offset = 0
  /\ do_flush_m = FALSE /\ do_flush_cv = FALSE /\ flusher_started = FALSE
  /\ flush_available = FALSE /\ dont_dequeue_wb = FALSE
  /\ exit_flusher = FALSE
  /\ done_flush_cv = FALSE /\ flush_in_progress = FALSE
  /\ fpc = "none" /\ disk_write_buf = <<>>
  /\ cpc = "start" /\ req = NoReq /\ buf = <<>> /\ ret = 0 /\ appended = 0
  /\ spurious = 0

-----------------------------------------------------------------------------
(* What the steps below share.                                             *)

(* exit() was called, which ends both threads. *)
Exited == fpc = "exit"

Goto(from, to) == ~Exited /\ cpc = from /\ cpc' = to

(* Raise the flags of a flush, wake the flusher and unlock do_flush_m. *)
SignalFlusher(dont_dequeue) ==
  /\ flush_available' = TRUE /\ dont_dequeue_wb' = dont_dequeue
  /\ do_flush_cv' = FALSE /\ do_flush_m' = FALSE
  /\ UNCHANGED exit_flusher

LockDoFlush == ~do_flush_m /\ do_flush_m' = TRUE

WaitPC == {"full_wait", "append_wait", "read_wait"}

(* The loop around pthread_cond_wait() on done_flush_cv ends. *)
FlushDone == cpc \in WaitPC /\ ~flush_in_progress /\ ~done_flush_cv

(* The loop's off and len. *)
ReadOff  == req.off + Len(buf)
ReadLeft == req.len - Len(buf)

-----------------------------------------------------------------------------
(* Mutants: steps as a plausible bug would have them.  Nothing below uses  *)
(* them; each takes the place of the step it names to show that a property *)
(* notices.                                                                *)

(* FlusherWake: goes on without the lock. *)
WakeWithoutLock ==
  /\ fpc = "wait" /\ ~do_flush_cv
  /\ do_flush_m' = TRUE /\ fpc' = "test"
  /\ UNCHANGED <<store, flags, done_flush_cv, flush_in_progress,
                 disk_write_buf, flusher_started, do_flush_cv, cpc, call,
                 spurious>>

(* FlusherSkip: "continue" when there is nothing to write. *)
SkipWithoutDone ==
  /\ fpc = "test" /\ flush_available
  /\ NothingToFlush(wb, dont_dequeue_wb)
  /\ flush_available' = FALSE
  /\ UNCHANGED <<store, do_flush_m, dont_dequeue_wb, exit_flusher,
                 done_flush_cv, flush_in_progress, flusher, cpc, call,
                 spurious>>

(* FlusherWriteFails: unlocks on the error path. *)
WriteFailUnlocks ==
  /\ fpc = "write" /\ OnDevice(tail_offset, Len(disk_write_buf))
  /\ WriteFails
  /\ disk_write_buf' = <<>>
  /\ do_flush_m' = FALSE
  /\ flush_available' = FALSE /\ fpc' = "flushed"
  /\ UNCHANGED <<store, dont_dequeue_wb, exit_flusher, done_flush_cv,
                 flush_in_progress, flusher_started, do_flush_cv, cpc, call,
                 spurious>>

(* FlusherWriteFails: "continue" on the error path. *)
WriteFailSkipsDone ==
  /\ fpc = "write" /\ OnDevice(tail_offset, Len(disk_write_buf))
  /\ WriteFails
  /\ disk_write_buf' = <<>>
  /\ flush_available' = FALSE /\ fpc' = "test"
  /\ UNCHANGED <<store, do_flush_m, dont_dequeue_wb, exit_flusher,
                 done_flush_cv, flush_in_progress, flusher_started,
                 do_flush_cv, cpc, call, spurious>>

(* FlusherDone: clears the flag without pthread_cond_signal(). *)
DoneWithoutSignal ==
  /\ fpc = "flushed" /\ ~exit_flusher
  /\ flush_in_progress' = FALSE
  /\ fpc' = "test"
  /\ UNCHANGED <<store, do_flush_m, flags, done_flush_cv, disk_write_buf,
                 flusher_started, do_flush_cv, cpc, call, spurious>>

(* ClientWait: blocks without testing flush_in_progress. *)
WaitUntested ==
  /\ ~Exited /\ cpc \in WaitPC /\ ~done_flush_cv
  /\ done_flush_cv' = TRUE
  /\ UNCHANGED <<store, do_flush_m, flags, flush_in_progress, flusher, cpc,
                 call, spurious>>

(* AppendFull: signals without flush_available. *)
FullWithoutFlag ==
  /\ Goto("append_add", "full_wait")
  /\ ~Fits(wb, req.len)
  /\ flush_in_progress' = TRUE
  /\ do_flush_cv' = FALSE /\ do_flush_m' = FALSE
  /\ UNCHANGED <<store, flags, done_flush_cv, fpc, disk_write_buf,
                 flusher_started, call, spurious>>

(* AppendFull: waits with do_flush_m locked. *)
FullStillLocked ==
  /\ Goto("append_add", "full_wait")
  /\ ~Fits(wb, req.len)
  /\ flush_in_progress' = TRUE
  /\ flush_available' = TRUE /\ dont_dequeue_wb' = FALSE
  /\ do_flush_cv' = FALSE
  /\ UNCHANGED <<store, do_flush_m, exit_flusher, done_flush_cv, fpc,
                 disk_write_buf, flusher_started, call, spurious>>

(* AppendNoFlush: compares with ">" where the code has ">=". *)
FlushLate ==
  /\ Goto("append_check", "append_wait")
  /\ Buffered(wb) <= Blk
  /\ do_flush_m' = FALSE
  /\ UNCHANGED <<store, flags, done_flush_cv, flush_in_progress, flusher,
                 call, spurious>>

(* ReadFlushed: does not wait for the flush. *)
ReadUnflushed ==
  /\ Goto("read_wait", "read_lock")
  /\ UNCHANGED <<store, do_flush_m, flags, done_flush_cv, flush_in_progress,
                 flusher, call, spurious>>

(* Copy: from the start of the block. *)
CopyFromStart(data) ==
  LET index  == ReadOff - RoundDown(ReadOff)
      to_cpy == IF ReadLeft <= Blk - index THEN ReadLeft ELSE Blk - index
  IN  [k \in 1 .. to_cpy |-> data[k]]

(* CloseSignal: stops the flusher without a last flush. *)
CloseWithoutFlush ==
  /\ Goto("close_signal", "close_join")
  /\ ~do_flush_m
  /\ exit_flusher' = TRUE /\ do_flush_cv' = FALSE
  /\ UNCHANGED <<store, do_flush_m, flush_available, dont_dequeue_wb,
                 done_flush_cv, flush_in_progress, fpc, disk_write_buf,
                 flusher_started, call, spurious>>

-----------------------------------------------------------------------------
(* The flusher: flusher().  From its test of the flags to its next wait it *)
(* holds do_flush_m.                                                       *)

FlusherStart ==
  /\ fpc = "spawned"
  /\ flusher_started' = TRUE /\ fpc' = "test"
  /\ UNCHANGED <<store, do_flush_m, flags, done_flush_cv, flush_in_progress,
                 disk_write_buf, do_flush_cv, cpc, call, spurious>>

(* pthread_cond_wait() unlocks and blocks in one step.  The first time it  *)
(* unlocks a mutex that logfs_open() locked.                               *)
FlusherWait ==
  /\ fpc = "test" /\ ~exit_flusher /\ ~flush_available
  /\ do_flush_m' = FALSE /\ do_flush_cv' = TRUE /\ fpc' = "wait"
  /\ UNCHANGED <<store, flags, done_flush_cv, flush_in_progress,
                 disk_write_buf, flusher_started, cpc, call, spurious>>

(* Signalled, or woken spuriously: pthread_cond_wait() locks again. *)
FlusherWake ==
  /\ fpc = "wait" /\ ~do_flush_cv /\ ~do_flush_m
  /\ do_flush_m' = TRUE /\ fpc' = "test"
  /\ UNCHANGED <<store, flags, done_flush_cv, flush_in_progress,
                 disk_write_buf, flusher_started, do_flush_cv, cpc, call,
                 spurious>>

FlusherDequeue ==
  /\ fpc = "test" /\ flush_available
  /\ ~NothingToFlush(wb, dont_dequeue_wb)
  /\ ~FlushExits(wb, dont_dequeue_wb)
  /\ disk_write_buf' = FlushImage(wb, dont_dequeue_wb)
  /\ wb' = AfterFlush(wb, dont_dequeue_wb)
  /\ fpc' = "write"
  /\ UNCHANGED <<rc, disk, tail_offset, do_flush_m, flags, done_flush_cv,
                 flush_in_progress, flusher_started, do_flush_cv, cpc, call,
                 spurious>>

FlusherSkip ==
  /\ fpc = "test" /\ flush_available
  /\ NothingToFlush(wb, dont_dequeue_wb)
  /\ flush_available' = FALSE /\ fpc' = "flushed"
  /\ UNCHANGED <<store, do_flush_m, dont_dequeue_wb, exit_flusher,
                 done_flush_cv, flush_in_progress, disk_write_buf,
                 flusher_started, do_flush_cv, cpc, call, spurious>>

FlusherWrite ==
  /\ fpc = "write" /\ OnDevice(tail_offset, Len(disk_write_buf))
  /\ disk' = device_write(disk, disk_write_buf, tail_offset)
  /\ rc' = read_cache_invalidate(rc, tail_offset)
  /\ tail_offset' = IF dont_dequeue_wb THEN tail_offset
                    ELSE tail_offset + Len(disk_write_buf)
  /\ dont_dequeue_wb' = FALSE
  /\ disk_write_buf' = <<>>
  /\ flush_available' = FALSE /\ fpc' = "flushed"
  /\ UNCHANGED <<wb, do_flush_m, exit_flusher, done_flush_cv,
                 flush_in_progress, flusher_started, do_flush_cv, cpc, call,
                 spurious>>

(* The failure is printed and the flush counts as done. *)
FlusherWriteFails ==
  /\ fpc = "write" /\ OnDevice(tail_offset, Len(disk_write_buf))
  /\ WriteFails
  /\ disk_write_buf' = <<>>
  /\ flush_available' = FALSE /\ fpc' = "flushed"
  /\ UNCHANGED <<store, do_flush_m, dont_dequeue_wb, exit_flusher,
                 done_flush_cv, flush_in_progress, flusher_started,
                 do_flush_cv, cpc, call, spurious>>

(* exit(0) in write_buffer_dequeue() or in device_write() ends the process. *)
FlusherExits ==
  /\ \/ fpc = "test" /\ flush_available /\ FlushExits(wb, dont_dequeue_wb)
     \/ fpc = "write" /\ ~OnDevice(tail_offset, Len(disk_write_buf))
  /\ fpc' = "exit"
  /\ UNCHANGED <<store, do_flush_m, flags, done_flush_cv, flush_in_progress,
                 disk_write_buf, flusher_started, do_flush_cv, cpc, call,
                 spurious>>

FlusherDone ==
  /\ fpc = "flushed" /\ ~exit_flusher
  /\ flush_in_progress' = FALSE /\ done_flush_cv' = FALSE
  /\ fpc' = "test"
  /\ UNCHANGED <<store, do_flush_m, flags, disk_write_buf, flusher_started,
                 do_flush_cv, cpc, call, spurious>>

(* The flusher returns with do_flush_m locked. *)
FlusherReturn ==
  /\ exit_flusher
  /\ fpc = "flushed" \/ (fpc = "test" /\ ~flush_available)
  /\ fpc' = "returned"
  /\ UNCHANGED <<store, do_flush_m, flags, done_flush_cv, flush_in_progress,
                 disk_write_buf, flusher_started, do_flush_cv, cpc, call,
                 spurious>>

-----------------------------------------------------------------------------
(* The client: logfs_open() and the parts that its calls share.            *)

(* do_flush_m is left locked: the flusher unlocks it when it first waits.  *)
Open ==
  /\ Goto("start", "open_try")
  /\ do_flush_m' = TRUE /\ fpc' = "spawned"
  /\ UNCHANGED <<store, flags, done_flush_cv, flush_in_progress,
                 disk_write_buf, flusher_started, do_flush_cv, call, spurious>>

(* The trylock that succeeds: it is unlocked again at once. *)
OpenTry ==
  /\ Goto("open_try", "idle")
  /\ ~do_flush_m /\ flusher_started
  /\ UNCHANGED <<store, do_flush_m, flags, done_flush_cv, flush_in_progress,
                 flusher, call, spurious>>

(* pthread_cond_wait() on done_flush_cv. *)
ClientWait ==
  /\ ~Exited /\ cpc \in WaitPC /\ flush_in_progress /\ ~done_flush_cv
  /\ done_flush_cv' = TRUE
  /\ UNCHANGED <<store, do_flush_m, flags, flush_in_progress, flusher, cpc,
                 call, spurious>>

-----------------------------------------------------------------------------
(* logfs_append().                                                         *)

AppendCall(len) ==
  /\ Goto("idle", "append_lock")
  /\ appended + len <= MaxLog
  /\ req' = [op |-> "append", off |-> appended, len |-> len]
  /\ buf' = <<>>
  /\ UNCHANGED <<store, do_flush_m, flags, done_flush_cv, flush_in_progress,
                 flusher, ret, appended, spurious>>

AppendLock ==
  /\ Goto("append_lock", "append_add") /\ LockDoFlush
  /\ UNCHANGED <<store, flags, done_flush_cv, flush_in_progress, flusher,
                 call, spurious>>

AppendAdd ==
  /\ Goto("append_add", "append_check")
  /\ Fits(wb, req.len)
  /\ wb' = write_buffer_add(wb, appended + 1, req.len)
  /\ appended' = appended + req.len
  /\ UNCHANGED <<rc, disk, tail_offset, do_flush_m, flags, done_flush_cv,
                 flush_in_progress, flusher, req, buf, ret, spurious>>

(* The write buffer is full: have it flushed, wait, lock and try again. *)
AppendFull ==
  /\ Goto("append_add", "full_wait")
  /\ ~Fits(wb, req.len)
  /\ flush_in_progress' = TRUE /\ SignalFlusher(FALSE)
  /\ UNCHANGED <<store, done_flush_cv, fpc, disk_write_buf, flusher_started,
                 call, spurious>>

AppendRetry ==
  /\ Goto("full_wait", "append_lock") /\ FlushDone
  /\ UNCHANGED <<store, do_flush_m, flags, done_flush_cv, flush_in_progress,
                 flusher, call, spurious>>

AppendFlush ==
  /\ Goto("append_check", "append_wait")
  /\ Buffered(wb) >= Blk
  /\ flush_in_progress' = TRUE /\ SignalFlusher(FALSE)
  /\ UNCHANGED <<store, done_flush_cv, fpc, disk_write_buf, flusher_started,
                 call, spurious>>

AppendNoFlush ==
  /\ Goto("append_check", "append_wait")
  /\ Buffered(wb) < Blk
  /\ do_flush_m' = FALSE
  /\ UNCHANGED <<store, flags, done_flush_cv, flush_in_progress, flusher,
                 call, spurious>>

AppendReturn ==
  /\ Goto("append_wait", "idle") /\ FlushDone
  /\ ret' = 0
  /\ UNCHANGED <<store, do_flush_m, flags, done_flush_cv, flush_in_progress,
                 flusher, req, buf, appended, spurious>>

-----------------------------------------------------------------------------
(* logfs_read() of bytes that were appended.                               *)

ReadCall(off, len) ==
  /\ Goto("idle", "read_mark")
  /\ off + len <= appended
  /\ req' = [op |-> "read", off |-> off, len |-> len]
  /\ buf' = <<>>
  /\ UNCHANGED <<store, do_flush_m, flags, done_flush_cv, flush_in_progress,
                 flusher, ret, appended, spurious>>

(* flush_in_progress is set before do_flush_m is locked. *)
ReadMark ==
  /\ Goto("read_mark", "read_signal")
  /\ flush_in_progress' = TRUE
  /\ UNCHANGED <<store, do_flush_m, flags, done_flush_cv, flusher, call,
                 spurious>>

(* Lock, raise the flags, signal and unlock. *)
ReadSignal ==
  /\ Goto("read_signal", "read_wait")
  /\ ~do_flush_m /\ SignalFlusher(TRUE)
  /\ UNCHANGED <<store, done_flush_cv, flush_in_progress, fpc,
                 disk_write_buf, flusher_started, call, spurious>>

ReadFlushed ==
  /\ Goto("read_wait", "read_lock") /\ FlushDone
  /\ UNCHANGED <<store, do_flush_m, flags, done_flush_cv, flush_in_progress,
                 flusher, call, spurious>>

ReadLock ==
  /\ Goto("read_lock", "read_loop") /\ LockDoFlush
  /\ UNCHANGED <<store, flags, done_flush_cv, flush_in_progress, flusher,
                 call, spurious>>

(* As much of a block as the read still wants. *)
Copy(data) ==
  LET index  == ReadOff - RoundDown(ReadOff)
      to_cpy == IF ReadLeft <= Blk - index THEN ReadLeft ELSE Blk - index
  IN  [k \in 1 .. to_cpy |-> data[index + k]]

ReadHit ==
  /\ Goto("read_loop", "read_loop") /\ ReadLeft > 0
  /\ \E s \in read_cache_lookup(rc, ReadOff) : buf' = buf \o Copy(rc[s].data)
  /\ UNCHANGED <<store, do_flush_m, flags, done_flush_cv, flush_in_progress,
                 flusher, req, ret, appended, spurious>>

ReadMiss ==
  /\ Goto("read_loop", "read_loop") /\ ReadLeft > 0
  /\ read_cache_lookup(rc, ReadOff) = {}
  /\ OnDevice(RoundDown(ReadOff), Blk)
  /\ LET block == device_read(disk, RoundDown(ReadOff))
     IN  /\ \E s \in Victims(rc) :
              rc' = read_cache_add(rc, s, block, RoundDown(ReadOff))
         /\ buf' = buf \o Copy(block)
  /\ UNCHANGED <<wb, disk, tail_offset, do_flush_m, flags, done_flush_cv,
                 flush_in_progress, flusher, req, ret, appended, spurious>>

(* The error return leaves do_flush_m locked. *)
ReadFail ==
  /\ Goto("read_loop", "idle") /\ ReadLeft > 0
  /\ read_cache_lookup(rc, ReadOff) = {} /\ ReadFails
  /\ ret' = -1
  /\ UNCHANGED <<store, do_flush_m, flags, done_flush_cv, flush_in_progress,
                 flusher, req, buf, appended, spurious>>

ReadReturn ==
  /\ Goto("read_loop", "idle") /\ ReadLeft = 0
  /\ ret' = 0 /\ do_flush_m' = FALSE
  /\ UNCHANGED <<store, flags, done_flush_cv, flush_in_progress, flusher,
                 req, buf, appended, spurious>>

-----------------------------------------------------------------------------
(* logfs_close().                                                          *)

CloseCall ==
  /\ Goto("idle", "close_signal")
  /\ UNCHANGED <<store, do_flush_m, flags, done_flush_cv, flush_in_progress,
                 flusher, call, spurious>>

(* Lock, raise the flags, signal and unlock; dont_dequeue_wb stays. *)
CloseSignal ==
  /\ Goto("close_signal", "close_join")
  /\ ~do_flush_m
  /\ flush_available' = TRUE /\ exit_flusher' = TRUE /\ do_flush_cv' = FALSE
  /\ UNCHANGED <<store, do_flush_m, dont_dequeue_wb, done_flush_cv,
                 flush_in_progress, fpc, disk_write_buf, flusher_started,
                 call, spurious>>

CloseJoin ==
  /\ Goto("close_join", "closed")
  /\ fpc = "returned"
  /\ UNCHANGED <<store, do_flush_m, flags, done_flush_cv, flush_in_progress,
                 flusher, call, spurious>>

-----------------------------------------------------------------------------
(* pthread_cond_wait() may return without a signal. *)
SpuriousWakeup ==
  /\ ~Exited /\ spurious < MaxSpurious /\ spurious' = spurious + 1
  /\ \/ do_flush_cv /\ do_flush_cv' = FALSE /\ UNCHANGED done_flush_cv
     \/ done_flush_cv /\ done_flush_cv' = FALSE /\ UNCHANGED do_flush_cv
  /\ UNCHANGED <<store, do_flush_m, flags, flush_in_progress, fpc,
                 disk_write_buf, flusher_started, cpc, call>>

FlusherStep ==
  \/ FlusherStart \/ FlusherWait \/ FlusherWake \/ FlusherDequeue
  \/ FlusherSkip \/ FlusherWrite \/ FlusherWriteFails \/ FlusherExits
  \/ FlusherDone \/ FlusherReturn

(* The steps inside a call, which the client does not choose to take. *)
ClientStep ==
  \/ Open \/ OpenTry \/ ClientWait
  \/ AppendLock \/ AppendAdd \/ AppendFull \/ AppendRetry \/ AppendFlush
  \/ AppendNoFlush \/ AppendReturn
  \/ ReadMark \/ ReadSignal \/ ReadFlushed \/ ReadLock \/ ReadHit \/ ReadMiss
  \/ ReadFail \/ ReadReturn
  \/ CloseSignal \/ CloseJoin

ClientCall ==
  \/ \E len \in AppendLens : AppendCall(len)
  \/ \E off, len \in 0 .. MaxLog : ReadCall(off, len)
  \/ CloseCall

(* After logfs_close() or exit() nothing is left to do. *)
Finished == (cpc = "closed" \/ Exited) /\ UNCHANGED vars

Next == FlusherStep \/ ClientStep \/ ClientCall \/ SpuriousWakeup \/ Finished

Fairness == WF_vars(FlusherStep) /\ WF_vars(ClientStep)

Spec == Init /\ [][Next]_vars
FairSpec == Spec /\ Fairness

-----------------------------------------------------------------------------
(* Every variable has its type.  fpc and cpc are where flusher() and the   *)
(* logfs_*() calls are.                                                    *)
TypeOK ==
  /\ wb \in WriteBufferType
  /\ rc \in ReadCacheType
  /\ disk \in DiskType
  /\ tail_offset \in Nat
  /\ do_flush_m \in BOOLEAN /\ do_flush_cv \in BOOLEAN
  /\ flusher_started \in BOOLEAN /\ flush_available \in BOOLEAN
  /\ dont_dequeue_wb \in BOOLEAN /\ exit_flusher \in BOOLEAN
  /\ done_flush_cv \in BOOLEAN /\ flush_in_progress \in BOOLEAN
  /\ fpc \in FlusherPC /\ disk_write_buf \in Seq(Byte)
  /\ cpc \in ClientPC
  /\ req \in [op : {"none", "append", "read"}, off : Nat, len : Nat]
  /\ buf \in Seq(Byte) /\ ret \in {0, -1} /\ appended \in Byte
  /\ spurious \in 0 .. MaxSpurious

(* The two threads are never both between a lock (or a return from         *)
(* pthread_cond_wait()) and the matching unlock of do_flush_m, although    *)
(* logfs_open() passes the locked mutex from one thread to the other, the  *)
(* flusher exits with it locked and logfs_read()'s error path leaks it.    *)
ClientHolds  == cpc \in {"append_add", "append_check", "read_loop"}
FlusherHolds == fpc \in {"spawned", "test", "write", "flushed", "returned"}
MutualExclusion ==
  /\ ~(ClientHolds /\ FlusherHolds)
  /\ ClientHolds \/ FlusherHolds => do_flush_m

(* A thread is never left asleep with nobody to wake it: when flusher()    *)
(* is blocked on do_flush_cv no flush and no exit is requested, and when a *)
(* call is blocked on done_flush_cv its flush is still requested or under  *)
(* way.                                                                    *)
NoLostWakeup ==
  /\ do_flush_cv => fpc = "wait" /\ ~flush_available /\ ~exit_flusher
  /\ done_flush_cv =>
       /\ flush_in_progress
       /\ flush_available \/ fpc = "flushed"

(* Where the byte at an offset of the log is: about to be written by a     *)
(* flush that already took it out of the write buffer, on the device, or   *)
(* in the write buffer.                                                    *)
InFlight == IF fpc = "write" /\ ~dont_dequeue_wb THEN Len(disk_write_buf) ELSE 0

LogByte(o) ==
  IF o < tail_offset THEN disk[o]
  ELSE IF o < tail_offset + InFlight THEN disk_write_buf[o - tail_offset + 1]
  ELSE wb.buffer[(wb.tail + 1 + o - tail_offset - InFlight) % Size]

(* Every byte that logfs_append() accepted is in its place in the log, in  *)
(* whichever of the three it is: none is lost, overwritten, misplaced or   *)
(* mixed with the padding of a block while buffer, flusher and device pass *)
(* it on.                                                                  *)
LogIntact == \A o \in 0 .. appended - 1 : LogByte(o) = o + 1

(* logfs_read() copies the bytes of the log at the offsets it was asked    *)
(* for, whether they come from the read cache or from the device.          *)
ReadsReturnTheLog ==
  req.op = "read" => \A k \in 1 .. Len(buf) : buf[k] = req.off + k

(* When logfs_read() goes to the cache and the device, everything that was *)
(* appended before has reached the device (the comment at logfs.c:866).    *)
FlushedBeforeRead ==
  cpc = "read_loop" => \A o \in 0 .. appended - 1 : disk[o] = o + 1

(* A valid element of the read cache holds what the device holds, and no   *)
(* block is cached twice: read_cache_invalidate() drops what a flush       *)
(* rewrites.                                                               *)
CacheCoherent ==
  \A s \in Slot : rc[s].valid =>
    /\ rc[s].data = device_read(disk, rc[s].begin_offset)
    /\ Holding(rc, rc[s].begin_offset) = {s}

(* Once logfs_close() returned the device holds all that was appended.     *)
DurableAtClose ==
  cpc = "closed" => \A o \in 0 .. appended - 1 : disk[o] = o + 1

(* Between calls less than a block is buffered, so what is left for        *)
(* logfs_close() to write fits in its one flush.                           *)
IdleBacklog ==
  cpc \in {"idle", "close_signal"} =>
    Buffered(wb) < Blk /\ tail_offset + Buffered(wb) = appended

(* A device byte below tail_offset is never written again, and tail_offset *)
(* never goes back: a flush that pads its block is always rewritten in     *)
(* place, and one that dequeues never is.                                  *)
WrittenOnce ==
  [][/\ tail_offset <= tail_offset'
     /\ \A o \in 0 .. tail_offset - 1 : disk'[o] = disk[o]]_vars

(* Every call of the log file system returns (logfs_open(), logfs_append(),*)
(* logfs_read() and logfs_close()): no handshake with the flusher is ever  *)
(* left unanswered.                                                        *)
CallsReturn == (cpc \notin {"idle", "closed"}) ~> (cpc \in {"idle", "closed"})

(* The same with a device that fails: the one thing that keeps a call from *)
(* returning, short of exit(), is an earlier read that failed.             *)
ReturnsUnlessFailed ==
  (cpc \notin {"idle", "closed"}) ~>
    (cpc \in {"idle", "closed"} \/ Exited \/ ret = -1)

(* The log as a client sees it, and its calls, as AbstractLog has them.    *)
LogView == [k \in 1 .. appended |-> LogByte(k - 1)]

Phase ==
  CASE cpc \in {"start", "open_try"} -> "new"
    [] cpc = "idle" -> "idle"
    [] cpc \in {"append_check", "append_wait"} -> "added"
    [] cpc \in {"close_signal", "close_join", "closed"} -> "closed"
    [] OTHER -> "busy"

AL == INSTANCE AbstractLog WITH
        log <- LogView, st <- Phase,
        result <- IF Phase \in {"idle", "closed"} THEN buf ELSE <<>>

(* The log file system implements the abstract log: the bytes scattered    *)
(* over device, flusher and write buffer are one sequence that only grows, *)
(* by whole appends, and reads return slices of it.                        *)
ImplementsLog == AL!Spec
=============================================================================
