# A verification development of JITCompilation

The repository holds the five projects of an operating systems course: a JIT
compiled expression evaluator (`p1`), a userspace thread scheduler (`p2`), a
storage class memory manager with a persistent AVL tree (`p3`), a key/value
store on a log file system on a raw block device (`p4`) and a system monitor
(`p5`). This directory holds TLA+ models of them, what TLC checks of the models
and what TLAPS proves. All line numbers refer to `src/`.

Modelled are the log file system of `p4`, where a client and a flusher thread
pass bytes, flags and a mutex to each other, and the key/value store on top of
it; the scheduler of `p2`, where `setjmp()`, `longjmp()` and `SIGALRM`
interleave; the allocator of `p3` and the tree that lives in its file; and the
compiler driver of `p1` from its lexer to the files it leaves. The terminals and
the monitor are not (section 8).

## 1. Inventory

| Component | State | Operations | Interacts with | What is hard | What makes it correct |
|---|---|---|---|---|---|
| Log file system `p4/logfs.c` | circular write buffer (`head`, `tail`, `last_avail`), read cache, `tail_offset`, two mutexes, two condition variables, five flags | `logfs_open`, `flusher`, `logfs_append`, `logfs_read`, `logfs_close`; for restore `logfs_read_with_flush`, `logfs_wb_add`, `logfs_wb_deq`, `logfs_wb_avail`, `logfs_set_tail_offset` | writes the device; called by kvraw | two threads, hand-over of a locked mutex, a partial block that is flushed early and rewritten, cache invalidation, wrap-around, full buffer, failing device | an append-only log: reads return what was appended, all of it durable after close, every call returns |
| Block device `p4/device.c` | blocks | `device_read`, `device_write` | the kernel | alignment, a full device ends the process | whole blocks, inside the device |
| Raw log `p4/kvraw.c` | `size` | `kvraw_append`, `kvraw_lookup`, restoring visitor | appends to logfs; called by kvdb | restore finds the end of the log by a missing mark and rebuilds the write buffer | records can be read back by offset; restore rebuilds what was there |
| Hash index `p4/index.c` | `size`, `capacity`, `maps` | `index_update`, `index_lookup`, growth | called by kvdb | linear probing, growth moves entries while references are out | a map from hash to offset; a probe always ends |
| Key/value store `p4/kvdb.c` | `size`, `waste` | insert, update, replace, remove, lookup, restore | kvraw, index | hash collisions chained through the log, tombstones, restore counts by hash | a map from keys to values, also after a restore |
| Scheduler `p2/scheduler.c` | list of threads, their status and `jmp_buf`, `curr_thread`, the alarm, the signal's action | `scheduler_create`, `scheduler_execute`, `scheduler_yield`, `signal_handler` | user functions | an alarm at any instruction, contexts that outlive their frames, one-shot alarm and handler | turns are fair, contexts are valid, it returns when all threads are done |
| Allocator `p3/scm.c` | `utilized`, `capacity`, block headers in a mapped file | `scm_open`, `scm_malloc`, `scm_free`, `scm_close` | called by the tree | bump then first fit over headers, reopening | blocks do not overlap and lie in the region |
| AVL tree `p3/avl.c` | nodes in the region, `items`, `unique` | insert, remove, exists, traverse | scm | removal shares items, allocation fails half way, in-place changes | a balanced search tree that is a bag of items; counts agree |
| Shell `p3/shell.c`, `main.c`, `term.c` | line, history, cursor | keys | tree | buffer and history limits | the line stays inside its buffer |
| Parser `p1/lexer.c`, `parser.c` | tokens, position, DAG | recursive descent | code generator | error paths | the DAG is the expression's |
| JIT driver `p1/main.c`, `jitc.c` | files, child process, handle | generate, compile, load, run, delete | gcc, dlopen | each step may fail | failure is reported, files are removed |
| Monitor `p5/main.c` | last CPU sample, `done` | sample and print until `SIGINT` | /proc | zero and wrapping differences | percentages, stops after the signal |

`PROJECT.json` lists the components with their status and the hazards, each at
its line, with the properties that cover it.

## 2. The modules

| Module | What it is | Code |
|---|---|---|
| `Bytes` | what a byte is, and blocks | |
| `Device` | reading and writing whole blocks | `p4/device.c` |
| `WriteBuffer` | the circular buffer as operators on a record | `p4/logfs.c` 45-283 |
| `ReadCache` | the table of cached blocks | `p4/logfs.c` 289-447 |
| `LogFS` | the two threads; all properties of the log file system | `p4/logfs.c` 453-945 |
| `AbstractLog` | the log that `logfs.h` promises: a sequence | `p4/logfs.h` |
| `MCLogFS` | values for TLC | |
| `WriteBufferProofs` | lemmas on the circular buffer | |
| `LogFSProofs` | theorems on the two threads, on the log and on its refinement | |
| `KVIndex` | the hash index as operators on a record | `p4/index.c` |
| `KVStore` | the records, the store on them, crash and restore | `p4/kvdb.c`, `p4/kvraw.c`, `p4/logfs.c` 665-704 |
| `AbstractKV` | the map that `kvdb.h` promises | `p4/kvdb.h` |
| `MCKVStore` | values for TLC | |
| `KVStoreProofs` | theorems on the index and on the store | |
| `KVRefinementProofs` | the refinement of `AbstractKV`, and the counters | |
| `SCM` | the region and its blocks as operators on a record | `p3/scm.c` |
| `AVLTree` | the tree in the region; all properties of `p3` | `p3/avl.c`, `p3/main.c` |
| `MCAVLTree` | values for TLC | |
| `TreeMemoryProofs` | theorems on the region, lemmas on its nodes and their rotations | |
| `AVLTreeProofs` | the tree's inductive invariant, theorems on all its properties | |
| `Parser` | lexer, parser, generated code; the grammar as reference | `p1/lexer.c`, `parser.c`, `main.c` 19-89 |
| `JitDriver` | the program, its child process and its files, for any parser | `p1/main.c`, `jitc.c` |
| `JitDriverProofs` | theorems on the driver | |
| `Jit` | the driver with the parser | |
| `MCJitDriver` | values for TLC | |
| `Scheduler` | the scheduler, its threads and the alarm | `p2/scheduler.c` |
| `MCScheduler`, `SchedulerProofs` | values for TLC, theorems | |

### The log file system

*State.* The variables have the names of the fields of `struct logfs`. A
condition variable is the question whether its one waiter is blocked
(`do_flush_cv` for the flusher, `done_flush_cv` for the client). `do_flush_m`
is a Boolean because a normal mutex has no owner, which the code relies on: it
is locked in `logfs_open()` and unlocked by the flusher. `fpc` and `cpc` are
where the threads are; `req`, `buf` and `ret` are the client's call, what it has
read and what its last call returned.

*Bytes.* logfs.c never looks at what a byte holds, so the k-th byte ever
appended is the number k and padding is 0. A byte that is lost, doubled, stale
or in a wrong place is then always visible.

*Steps.* What happens between two operations on `do_flush_m` is one step, as
only its holder touches what it guards; `flush_in_progress`, which
`done_flush_m` guards, is set and tested in steps of its own. Where the code
sets it while it also holds `do_flush_m` (lines 770, 802) the two are one step:
the flusher clears it only while it holds `do_flush_m` itself. Each time round
the loop of `logfs_read()` is a step. `pthread_cond_wait()` unlocks and blocks
atomically and may return spuriously (`SpuriousWakeup`, bounded by
`MaxSpurious`). The critical sections of `done_flush_m` contain nothing that
blocks and are part of the step they occur in.

*Faults.* `ReadFails` and `WriteFails` allow `pread()` and `pwrite()` to fail.
A flush past the end of the device ends the process, as `device_write()` does
(`FlusherExits`).

*Environment.* One client thread: kvraw.c and kvdb.c call logfs from one
thread. It appends any of `AppendLens` bytes and reads any range that was
appended, as kvraw_lookup() does with offsets and lengths it stored itself.

*Width.* A `size_t` difference is taken modulo `Word`, a multiple of the
buffer's size as 2^64 is one of 32 blocks; the underflow that `% size` repairs
at line 171 happens in the runs.

*Left out.* `logfs_open()`'s failure paths, output, and freeing memory. The
functions only the restore of `kvraw.c` calls (`logfs_wb_add`, `logfs_wb_deq`,
`logfs_wb_avail`, `logfs_set_tail_offset`) are part of `KVStore`.

### The key/value store

*State.* `log` is the set of records appended since the store was opened, each
with its offset; `raw` is `kvraw->size`, `index`, `size` and `waste` the fields
of `struct kvdb`. `disk` is what the device holds of this store and of older
ones, and `synced` how much of `log` is there for sure. `next`, `wb` and
`tail_offset` are what a restore works on; the write buffer is that of
`WriteBuffer`, so that what a restore puts into it can be compared with what the
log file system would have there. `restore_blk` is a property of the device that
never changes: what the constant 4096 of the restore (kvraw.c:176-178) is to the
blocks of the device, of `Blk` bytes. It is `Blk` where these have 4096 bytes,
as for a file, and more on a device with blocks of 512 bytes (device.c:52-58).

*Composition.* `KVStore` stands on the promise of `AbstractLog`, which `LogFS`
is shown to implement, and not on `LogFS` itself: calls of kvdb.c are sequential
and see only the log. Each call is one step. What a call flushes is kept
(`Synced`): any `logfs_read()` flushes all of the log. The promise holds where
`LogFS` is shown to keep it (`WithinLimits`, section 5): each field that
kvraw_append() appends, a meta, a key or a value, must fit in a block of the
device, and the device must hold the log. The constants of `KVStore` do not ask
for that; of larger values on the real log file system section 4 says what may
become.

*Records* are their fields with offsets and lengths as in the code, each field of
`struct meta` one byte long. The hash is a constant function, the keys have
lengths and first bytes (`Start`), so that collisions of each kind happen.

*Crash.* The device keeps the log up to the last flush, or up to some whole block
after it; a record that is cut has the fields of which all bytes are there and
zeros for the rest (`TornRecord`). Close and crash leave, after the padded last
block, the records of an older store (`Older`).

*Restore.* `VisitorInit` and `VisitorNext` are a record each: what
`kvraw_visitor_init()` and `kvraw_visitor_next()` read and put back into the
write buffer, then the body of the loop of `kvdb_open_internal()`. A first record
that is missing ends the process (kvraw.c:144 tests an `rv` that is never set), a
key of length 0 fails the assertion of `index_update()`. At each record 4096
bytes are tested for and added to `tail_offset`, and one block of the device
dequeued (`Rebuilt`). At the end the log file system has the state that
`AbstractLog` stands for if the buffer is the end of the log and has less than a
block (`Restored`): only then do calls go on (`RestoreDone`). Otherwise the store
is open too, but what it appends may go to a wrong place or be lost at the next
close; this is a state of its own, "astray", from which no call is modelled
(`RestoreAstray`).

*Left out.* Failing allocations and device errors; client buffers that are
shorter than the value.

### The tree

*State.* `m` is the mapped memory: the region (`scm`: blocks by their offset,
`utilized`), and what lies in the blocks (`node`, `word`, the `root`, `items` and
`unique` of `struct state`). It is the file, so closing keeps it.

*Steps.* A call is a step. The operations of the code recurse, but change nothing
on the way down; each is a recursive function on the places of the tree, nodes or
`NULL`, that returns the memory and the node that the caller links in its place,
from what it returned for the child (`Inserted`, `Removed`). Memory may
run out at either allocation of a node; a block may end after the mapping, where
the process is killed with what it has written until then (the file is a whole
number of pages). `stale` says that the file holds blocks from before a
truncation, which `ftruncate()` to the same size leaves in place.

*Left out.* Failing system calls; `load` and `list`, which are insertions and a
traversal.

### The compiler driver

*State.* `pc` and `argv`, `result` (the parser), the files `cfile` and `sofile`,
the child and the library that is loaded. Runs follow each other in one
directory; a run may be killed between any two steps.

*Composition.* `JitDriver` knows the parser, the code generator, the compiler and
the compiled code as constant operators, which `JitDriver.cfg` gives the
definitions of `Parser`; `Jit` extends both and says what the whole prints. What
the driver does with processes and files holds for any language.

*Parser.* The argument is a sequence of lexemes. Each function of parser.c is an
operator on a parser and returns the parser and a tree or `NULL`; ids are given
in the order of `MKD()`. The reference is the grammar, as sets: `Sum(s)` is the
set of values that `s` has as a sum. Numbers are exact fractions, which doubles
are not; `"%f"` is modelled by what it loses (`Written`, with one digit's worth
in the runs) and by what it makes of an infinite number, which gcc rejects.

*External.* gcc compiles what is C (`Compiles`), or fails, or is killed and may
leave half of a file. The compiled code computes its variables in order.

### The scheduler

*State.* The list, the statuses, `curr_thread` and, for each thread, what its
`jmp_buf` was saved by: a voluntary yield ("yield"), the alarm, in which case it
is the code that was interrupted, or "dead" once the frame that saved it has
returned. `pc` is the code on the CPU: the scheduler's on its own stack, or that
of the current thread. `armed` and `handler` are the pending alarm and the
action of `SIGALRM`; delivery resets the action (`signal()` is called under
`-ansi`, and `p2/strace_output.txt` shows `SA_RESETHAND`).

*Steps.* `setjmp()`, `signal()`, `alarm()`, marking a status and `longjmp()` are
steps of their own where the alarm may come in between. The handler up to its
`longjmp()` is one step: the one alarm there is has just been consumed.

*Threads* have `Work` units of work and may yield after any of them. `AlarmAt`
says where an alarm may be delivered: `InUserCode` for the passing run,
`Anywhere` for the window that `scheduler_window` shows.

`passed` is a history variable: how often each other thread was dispatched since
a runnable thread's last turn.

## 3. The runs

| Run | Instance | Shows |
|---|---|---|
| `logfs` | blocks of 2 bytes, write buffer of 2 blocks, read cache of 2, device of 3, 6 bytes appended by 0, 1 or 2, one spurious wake-up | all properties of the log file system, and that it implements `AbstractLog` |
| `logfs_full` | write buffer of 5 blocks, appends of 5 bytes, 15 in all, read cache of 1 | appends that find the buffer full, once and again, lose nothing and return |
| `logfs_faults` | device of 1 block; reads and writes fail; appends run past its end | the handshake survives: only a call after a failed read gets stuck |
| `kv` | three keys, two of which share their hash, length and first bytes, all of them one slot of a table of three; two values, one of which makes a record longer than a block; an index that grows from nothing by half; 29 bytes of records in all (20 over an older log), devices with blocks of 7 bytes, for which the 4096 of a restore is 7 too, or 14 | all properties of the store, and that it implements `AbstractKV` |
| `tree` | four words, one of them inserted up to twice and as long as a node; a region of 70 bytes, enough for four nodes but not for two removals without reuse; a size word of three bytes, longer than most words | all properties of the tree and its region |
| `jit` | all sequences of at most 3 of 13 lexemes, of at most 5 of 5 lexemes, all `a+b*c-d`, `(a-b)/c` and `a-(b*c)` with any operators and a few numbers, 0 among them; memory for 2 or 9 nodes; two runs | all properties of the compiler driver |
| `scheduler` | three threads of two units of work; alarms in user code | all properties of the scheduler |
| `logfs_stale_cache` | violation | see findings |
| `logfs_exact_fit` | violation | see findings |
| `logfs_read_error` | violation | see findings |
| `scheduler_preempt` | violation | see findings |
| `scheduler_window` | violation | see findings |

*Why the bounds are enough.* Two bytes per block give a partial block, a full
one and offsets inside a block. With a buffer of two blocks and six bytes the
head and the tail wrap around; with a cache of two and a device of three blocks
the cache fills and evicts. An append never needs more than one block of room in
`logfs`, which is where the log is right: longer appends are the subject of
`logfs_full`, which keeps 5 bytes per append and 10 of room so that an append
finds room, or less than it needs, without ever fitting exactly, and of two
violations. Three threads are the smallest number for which an
unfair choice can overtake; two units of work let a thread be resumed after a
yield and after a preemption in either order.

For the store, three or four records fit after the first: enough for a chain of
two keys with one of them removed, for a removal and an insertion again, and for
the index to grow while it holds entries; a record is longer, shorter or as long
as what is left of a block. A 4096 of one block and one of two give the two
geometries; in the second, which has blocks hardly longer than a record, the
buffer is rebuilt up to two records, an empty store is restored, and all others
go astray. For the tree, four nodes are the fewest where a removal with two
children takes a word from further below, with each kind of rotation; the region
lets memory run out for a node and for a word, which also ends after the
mapping, with or without its header in it. For the driver, seven tokens let
three operators of any kinds group with or without parentheses, and the second
run meets all that a first can leave.

*Deadlock* is checked except in the two runs whose point is that a call gets
stuck after a failed read. `Finished` and `Ended` are the program having ended.

*Fairness.* `LogFS`: weak fairness of each thread, which POSIX threads that can
run get. No fairness for the client's calls (it need not make any), for the
choice between a device that fails and one that works, or for spurious
wake-ups. `OpenTry` stands for a spinning trylock and is enabled only when the
flusher has blocked, after which nobody else locks. `Scheduler`: weak fairness
of the CPU going on (`Step`); none for the alarm. A thread's function is assumed
to end, because `left` is finite.

### Properties of the log file system

`MutualExclusion`, `NoLostWakeup`, `CallsReturn`, `ReturnsUnlessFailed` are
about the handshake. `LogIntact` says where each appended byte is at every
moment (write buffer, block in flight, device); `WrittenOnce` that a block
which was dequeued is never touched again; `FlushedBeforeRead` is the comment at
`logfs.c:866`; `CacheCoherent` that the cache equals the device;
`ReadsReturnTheLog` what reads return; `IdleBacklog` and `DurableAtClose` why one
flush at close is enough; `ImplementsLog` is the refinement of `AbstractLog`: the
log is the bytes where `LogIntact` finds them, an append happens at `AppendAdd`
and a read at `ReadReturn`.

### Properties of the key/value store

`IndexFindsEntries` is about growth, `ChainsLeadBack` about the offsets that link
records of one hash, `CountersRight` relates `kvdb_size()` and `kvdb_waste()` to
what lookups find, `BufferRebuilt` the write buffer and `tail_offset` in the middle
of a restore to the log, `ReadsBackTheLog` what a restore reads to what was left.
`ImplementsMap` is the refinement of `AbstractKV`: a map that survives closing,
and of which a crash keeps a version not older than the last flush. `AbstractKV`
states where the code promises less: restoring may forget a key that shares its
hash (kvdb.c:267 clears the entry of both), and a crash may garble the one key
that was being written. The other exceptions are in the properties, each with
its condition: a device that held an older, longer log; a restore that leaves the
store astray, which it may where a record is longer than a block, or where the
device has other blocks than 4096 bytes and the log is not shorter than one of
them (`Regular`; `BufferRebuilt` says the same of every record on the way,
`Rebuildable`); counters after a restore where keys
share a hash, a key was torn by the crash, or an older log was read on, whose
removals are counted too (`kvdb_size()` may end at -1).

### Properties of the tree

`IsAVL`, `CountsAgree`, `BlocksApart` (blocks tile the region, `Tiled` in `SCM`,
and no two uses share one), `GivenOnce` (no block in use is given out again) and
`OneWordAtATime`: an insertion adds one to what `avl_exists()` says of its word if
the process lives and `scm_malloc()` has the blocks (`Granted`), and nothing to
any word otherwise; a removal takes one from its word; opening again changes
nothing. Their
conditions show what the code gets wrong: removing a node that has one child
frees the word that the node now has (avl.c:294-298, "freed"), which may then be
given out; removing one with two children whose next word was inserted more than
once leaves that word in two nodes (avl.c:311, "duplicate"); a truncated region
still has the headers of the older one (`stale`; scm.h:22 speaks of clearing all
data). Beyond that: an insertion that finds no memory below another node returns
success (avl.c:98, 111, 122), and the bound at scm.c:138 forgets the eight bytes
before `addr`. With neither inner removals nor truncation the tree is right.

### Properties of the compiler driver

`PrintsTheValue`: what is printed is the value of the argument, what is generated
compiles, and nothing else is refused; `NothingLeft`: the files that a run leaves.
Their conditions name three departures from what jitc.h says: without gcc the
child exits with 0, "success" (jitc.c:56), and a library left by a killed run is
called instead; `jitc_close(NULL)`, which the comment at jitc.h:42 allows,
crashes after a failed `jitc_open()` (the files are deleted by then); and
`"%f"` loses digits of small numbers. `expr_additive_()` reads its table after
the end for a wrong operand (parser.c:237): the model then lets the run crash or
report as it would.

### Properties of the scheduler

`RoundRobin`: between two turns of a thread that can run every other thread has
one at most. `RunningIsCurrent`, `SleepersCanResume`, `AlarmIsHandled`,
`ReturnsWhenAllDone` (`scheduler.h:39`) and `ExecuteReturns`. The run has them for
alarms in user code only: `RunningIsCurrent` and `SleepersCanResume` fail when
an alarm comes between a setjmp() and the next alarm(1), which nothing in the code
prevents (`scheduler_window`, and `OnlyWindowsSpoil` in section 5). `TypeOK` has
one condition that is more than a type: `curr_thread` is never a thread that
`destroy()` has freed. `ExecuteReturns` excepts a scheduler without threads, which
crashes although scheduler.h:37 allows it.

## 4. Findings

1. *Stale read cache* (`logfs_stale_cache`, `logfs.c:424`). A flush for a read
   writes everything that is buffered, possibly several blocks, but
   `read_cache_invalidate()` drops only the first from the cache. It takes an
   append of more than a block to leave more than a block buffered.
2. *A full buffer looks empty* (`logfs_exact_fit`, `logfs.c:93`). An append that
   exactly fills the write buffer moves the head to `tail + 1`.
3. *A failed read leaks the lock* (`logfs_read_error`, `logfs.c:911`). The next
   call, closing included, blocks forever.
4. *A resumed thread is not preempted again* (`scheduler_preempt`,
   `scheduler.c:156`). The handler's `alarm(0)` runs when its thread is resumed,
   and cancels the alarm of that dispatch. The sketch at `p2/main.c:59` has
   `alarm(1)` there.
5. *The alarm in the scheduler's own code* (`scheduler_window`,
   `scheduler.c:155`). The alarm stays pending across a voluntary yield; if it
   fires before the next `alarm(1)`, the handler saves the scheduler's context as
   the thread's.

## 5. What is proved

`tlapm` checks all of it, for every value of the constants that satisfies the
assumptions stated with them. Every safety property of `LogFS`, `KVStore` and
`Scheduler` that a run checks is a theorem, and so are both refinements and every
property of `AVLTree`.

### The log file system (`WriteBufferProofs`, `LogFSProofs`)

*Whatever fails and however long the appends are:*

- `Exclusion`: `MutualExclusion` is inductive as stated, because it says what the
  flusher holds from its creation to its return.
- `NoWakeupLost`: from the inductive `Handshake`, which adds that only a call that
  waits, or is about to ask, has a flush in progress, that the request of a
  waiting call stays up until the flusher is about to answer it, and that nobody
  waits once the flusher is asked to exit. Without these a step that clears a
  flag could not be told apart from one that loses a request.
- `TypeCorrect`: `WriteBufferProofs` proves that the operators on the circular
  buffer stay within it, with indices modulo its size, lengths below `Word`
  whatever underflows, and padded lengths in whole blocks.
- `NeverRewritten`: no step changes a block below `tail_offset` (`WrittenOnce`).

*Within the limits* (`WithinLimits`): appends of at most a block, a write buffer of
two blocks and more than two bytes, a device that holds the log, and writes that
succeed. Reads may fail. Longer appends are what two of the findings are about; a
full device ends the process; and the code goes on after a write that failed as
if it had been done.

- `LogIsIntact`, `ReadsAreRight`, `ReadsComeAfterTheFlush`, `CacheIsCoherent`,
  `ClosedIsDurable`, `LittleIsLeft`: one inductive invariant, `LogInv`. To the
  types and the handshake it adds how many bytes each call may find buffered
  (`Backlog`: it is this that keeps an append from fitting exactly, and a flush
  for a read from writing more blocks than the cache drops), that `tail_offset` and
  the buffer's tail move together (`Position`), and what the device, the
  flusher's own buffer, the write buffer and the cache hold at each place of the
  two threads (`Content`, `Image`, `Flushed`, `Cached`). `LogIntact` alone is not
  inductive: between the dequeue and the write a block is only in the flusher's
  buffer, and a partial block is in two places.
- `LogRefines`: if reads succeed too, `Spec => ImplementsLog`. A failed read has no
  place in the abstract log.

### The key/value store (`KVStoreProofs`, `KVRefinementProofs`)

- `GrowthKeepsEntries`, `UpdatesKeepEntries`: what `grow()` and
  `index_update()` do to a table of any size, growing by any amount. Both are
  loops, which the model has as recursive functions. That such a function exists
  and what it returns is proved by the least argument for which it would not
  (`Smallest`, `MovedExists`), as the library's induction cannot be used.
- The rest assumes `DummyFits` (the record that `kvdb_open()` writes first fits on
  the device; else nothing can be opened) and rests on invariants that each build
  on the one before:
  - `Base`: types, records that point backwards, an index that is sound and leads
    only to where records are. Gives `IndexAlwaysFinds` and `TypeCorrect`.
  - `Rebuilding`: at each record of a restore the write buffer is the end of the
    log, on a device of either geometry, under the conditions that
    `BufferRebuilt` names. Gives `BufferIsRebuilt`.
  - `Layout`: records lie one behind the other from 0, what a close or crash left
    is a beginning of the log, and the records of an older store begin only after
    the padding. Gives `ReadsBack`.
  - `Chaining`: every entry and every record leads to the newest record before it
    with the same hash, on the device as well as in the log. Gives
    `ChainsAlwaysLeadBack`.
  - `Mapping`: the value that a walk along the chain finds is the abstract map's, for
    the running store, for what a crash would leave now, and for each record that
    a restore has still to read. With `Rebuilding` it gives `StoreRefines`:
    `Spec => ImplementsMap`, where only what is not `Regular` goes astray.
    The walk is a recursive function over offsets that become smaller
    (`DescentExists`).
  - `Counting`: the counters against the keys that are found, and in the middle of
    a restore against the records read so far. Gives `CountersAreRight`, if all
    records are fewer than `Word` (`CountsFit`), else `size_t` would wrap.

### The allocator (`TreeMemoryProofs`)

`Region` is what `scm_open()` makes (`NewRegion`) and `scm_malloc()` and
`scm_free()` keep (`MallocGivesOnce`, `FreeKeepsBlocks`), with `Tiled`, the first
part of `BlocksApart`, in it: any sequence of calls leaves blocks that do not touch
(`ExtentsAreDisjoint`), and no block in use is given out. `NullWhenFull` and
`LastOverruns` are about the two bounds that forget the word before `addr`: the
scan's loses nothing for requests of more than a word, the other lets only the
last block reach past the mapping, by a word at most.

### The tree (`TreeMemoryProofs`, `AVLTreeProofs`)

For every set of words, every length of them, of a node and of the region, and
every number of insertions: `TypeIsOK`, `TreeIsAVL`, `TotalsAgree`,
`BlocksAreApart`, `MemoryGivenOnce` and `ChangesOneWord`, each with the exceptions
that its property names. All rest on one inductive invariant, `AVLInv`: there is
no file yet, or (`Stored`)

- `Formed`: every node that is kept is below the root, with the depth of its
  subtree and children whose depths differ by at most one (`Leveled`); nodes,
  words and `struct state` are in blocks of the region (`Lodged`, `Based`);
- `Whole`, unless a removal has left a word in two nodes: the words are in strict
  order (`Tree`), and the totals are what the nodes count (`Agree`);
- `Weak`, in any case: the order, but for words that are equal;
- `Worded`, unless a removal has freed a word: the words are in blocks in use. It
  is why `scm_malloc()` cannot give such a block out again.

The properties alone are not inductive: that a rotation keeps the balance needs
the depths below, that a removal finds the word needs the order, and that the
totals stay right needs that no word is in two nodes.

The argument does without induction over trees. `Sub(node, a)`, the nodes below
`a`, is the least set that has `a` and is closed under children, so that what
holds of a closed set with `a` in it holds below `a`. The code trusts `depth`,
and so does the proof: children are less deep than their parent, which shows that
a tree has no cycles, that `Nodes`, `Height` and the operations, recursive
functions on its places, exist and satisfy their equations, and that what each
step up preserves holds at the root (by the shallowest place where it would not).
The steps up are:

- what a rotation or a new link does to the nodes below it, and that it touches no
  others (`Kept`): the four rotations restore the balance when one side is
  deeper by two, and the tree becomes deeper or less deep by at most one (`Grown`,
  `Shrunk`);
- `Updated`: below `a` is what was there and the new node, and where it became
  deeper it leans towards that node, so that the comparison of words in `update()`
  picks the right one of two rotations;
- `Cut`: below `a` is what was there without the node that went. What a removal
  moves between nodes before it links anything is stated apart (`Moved`): the
  next word into the node of the removed one, or an only child's contents into
  its parent.

What `avl_exists()` says of a word is then the count of the one node that holds
it, and the totals follow by counting the pairs of a word and one of its
insertions (`CopiesOf`).

### The compiler driver (`JitDriverProofs`)

For any parser, code generator and compiler (they are constant operators without
assumptions): `FilesAreDeleted` is `NothingLeft`, and `OwnCodeIsCalled` says that
what is printed was computed by the code of this run's own argument, unless there
was no gcc. The invariant, `Driving`, follows whose code `out.c`, `out.so` and the
loaded library are from step to step, between runs that may be killed anywhere.

### The scheduler (`SchedulerProofs`)

Wherever alarms are delivered: `TypeCorrect`, `AlarmsAreHandled` (the handler is
installed before the alarm is set), `TurnsAreFair`, which is `RoundRobin` (the
invariant relates which threads have passed a thread to where they are in the
list), and `OnlyWindowsSpoil`: from a state whose saved contexts may all be resumed
(`Resumable`) the one step to a state where they may not is an alarm between a
setjmp() and its longjmp(), or between that and the next alarm(1) (`Windows`).

`ResumesAreSound` assumes that no alarm is delivered in these windows. The code
does not see to it, and `scheduler_window` is what happens then: the alarm comes a
second after it was set, and it is a matter of timing where the process is.

Under `AlarmInUserCode` (alarms are delivered while user functions run):
`OneRunning` and `ReturnsAtTheEnd`, from `Threading`. It adds to the properties
which threads have a status (`StatusOfCreated`), what the code on the CPU has saved
or is about to return to (`SavedCtx`), and that a terminated thread has no work
left (`DoneIsDone`).

### What the proofs have changed

Attempts that failed showed where the model or a property said too much. A restore
takes the first record as the dummy without looking at its key, also when a crash
has torn it (`Scan` in `KVStore`). Over an older log the counters go wrong, which
`CountersRight` now leaves out. `SCM` says of the region itself that it is tiled,
and `JitDriver` no longer depends on the parser. The operations of `AVLTree` were
recursive operators on memory; as functions on the places of the tree they take the
same steps (TLC finds the same states) and can be reasoned about.

### Only model-checked

- Liveness under fairness: `CallsReturn`, `ReturnsUnlessFailed`, `ExecuteReturns`.
- `PrintsTheValue`: the operations of `Parser` are recursive operators, out of the
  prover's reach, and that they give every expression its value would be an
  induction over expressions.
- The log file system outside of `WithinLimits` (`logfs_full`, `logfs_faults`),
  but for what is proved without it.

## 6. Mutants

Every property of a passing run is paired with a definition changed the way a
plausible bug would change it, defined before the one it replaces (sections
"Mutants" of the modules) and listed in `PROJECT.json`; with the change, the run
finds the property violated.

## 7. Plan

What is modelled is what is to be modelled, and what the prover can reach of the
runs' safety properties is proved. Left are, in this order:

1. The steps on which `CallsReturn` rests: that some thread can always go on
   (no deadlock), without fairness.
2. `LogIntact` beyond `WithinLimits`. Whether a longer append ever fits exactly
   depends on all the appends before it, so this needs a condition on the history
   and not on the constants.

## 8. Not modelled

- A crash of the tree's process between two stores of a call, as between those of
  a rotation (avl.c:54): a call of `AVLTree` is one step, and the process is
  killed only where it writes past the mapping. Nothing protects the file there.
- The calls on a store that a restore has left astray: appends at a wrong
  `tail_offset` or over a buffer of more than a block.
- The line editor of `p3/shell.c` and the commands' parsing: a terminal's keys and
  escape sequences, sequential and apart from the tree. Two of its limits are
  listed as a hazard (shell.c:191 and 158: one more history slot, and one more
  byte, than there are).
- `p5/main.c`: it samples /proc and prints differences; nothing is concurrent but
  one flag that a signal sets.
- `logfs_open()` when it fails half way (logfs.c:600), where `logfs_close()` acts on
  mutexes and a thread that do not exist: undefined from there on.
- The tests in `p4/main.c`, build files, traces (`*_output.txt`,
  `valgrind-out.txt`), system call wrappers and terminal colours: they keep no
  state that the properties speak of.
- Several runs of the compiler driver in one directory at the same time, which
  share `out.c` and `out.so`.
