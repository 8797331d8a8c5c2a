----------------------------- MODULE Scheduler -----------------------------
(***************************************************************************)
(* The user-level thread scheduler of src/p2/scheduler.c: threads that     *)
(* yield by setjmp()/longjmp(), and that a one-shot SIGALRM preempts.      *)
(*                                                                         *)
(* There is one CPU.  pc says which code it executes: the scheduler's, on  *)
(* the stack of scheduler_execute(), or that of the thread curr_thread.    *)
(* What a thread computes does not matter, only how many units of work are *)
(* left.  The handler runs from its entry to the longjmp() of the          *)
(* scheduler_yield() it calls in one step (Alarm): nothing else runs in    *)
(* between, and the alarm is one-shot.                                     *)
(***************************************************************************)
EXTENDS Integers, Sequences, FiniteSets

CONSTANTS
  Threads,   \* threads that the program may create
  None,      \* a null thread pointer
  Work,      \* units of work of a thread's function
  AlarmAt    \* where SIGALRM may be delivered

SchedulerPC == {"landed", "arm", "schedule"}
ThreadPC    == {"user", "yield_saved", "resumed", "term_set"}
PC == SchedulerPC \cup ThreadPC \cup {"create", "returned", "crashed"}

(* An alarm takes a second.  "schedule" and "resumed" are only reached in   *)
(* the instructions that follow alarm(1), so none is delivered there; an    *)
(* alarm that was set when a thread was dispatched may fire at any other    *)
(* place.                                                                   *)
ASSUME SchedulerAssumption ==
  /\ IsFiniteSet(Threads) /\ None \notin Threads
  /\ Work \in Nat
  /\ AlarmAt \subseteq {"landed", "arm", "user", "yield_saved", "term_set"}

VARIABLES
  list,     \* state.head: the threads, the last created first
  status,   \* their status
  ctx,      \* where longjmp() to a thread's ctx would continue
  curr,     \* state.curr_thread
  pc,
  armed,    \* is an alarm() pending?
  handler,  \* is signal_handler() installed, or SIG_DFL?
  left,     \* work left
  passed    \* history: turns of each thread since one was last dispatched

vars == <<list, status, ctx, curr, pc, armed, handler, left, passed>>

(* A ctx is "yield" or the code that signal_handler() interrupted, while   *)
(* the frame of the scheduler_yield() that called setjmp() is alive.  It   *)
(* is "main" when that frame was on the scheduler's stack, which the       *)
(* longjmp() to the scheduler unwinds, and "dead" after the frame returned.*)
Ctx == {"none", "yield", "main", "dead"} \cup ThreadPC

Init ==
  /\ list = <<>> /\ curr = None /\ pc = "create"
  /\ status = [t \in Threads |-> "none"]
  /\ ctx = [t \in Threads |-> "none"]
  /\ armed = FALSE /\ handler = FALSE
  /\ left = [t \in Threads |-> Work]
  /\ passed = [t \in Threads |-> [u \in Threads |-> 0]]

Created == {list[i] : i \in 1 .. Len(list)}

(* Where a thread is in the list. *)
Position(t) == CHOOSE i \in 1 .. Len(list) : list[i] = t

-----------------------------------------------------------------------------
(* Mutants: definitions as a plausible bug would have them.  Nothing below *)
(* uses them; each takes the place of the one it names to show that a      *)
(* property notices.                                                       *)

(* Runnable: forgets the threads that never ran. *)
OnlySleeping == {t \in Created : status[t] = "SLEEPING"}

(* Nth: always starts at the head. *)
NthFromHead(k) == list[k]

(* Signal: installs the handler once, as if it stayed. *)
SignalOnce ==
  /\ pc = "landed" /\ pc' = "arm"
  /\ handler' = (handler \/ curr = None)
  /\ UNCHANGED <<list, status, ctx, curr, armed, left, passed>>

(* YieldSave: no setjmp(). *)
YieldUnsaved ==
  /\ pc = "user" /\ left[curr] > 0
  /\ pc' = "yield_saved"
  /\ left' = [left EXCEPT ![curr] = @ - 1]
  /\ UNCHANGED <<list, status, ctx, curr, armed, handler, passed>>

(* YieldJump: leaves the thread RUNNING. *)
YieldAwake ==
  /\ pc = "yield_saved" /\ pc' = "landed"
  /\ UNCHANGED <<list, status, ctx, curr, armed, handler, left, passed>>

(* Finish: the thread yields instead of terminating. *)
FinishAsleep ==
  /\ pc = "user" /\ left[curr] = 0
  /\ pc' = "term_set"
  /\ status' = [status EXCEPT ![curr] = "SLEEPING"]
  /\ UNCHANGED <<list, ctx, curr, armed, handler, left, passed>>

-----------------------------------------------------------------------------
(* What thread_candidate() looks for. *)
Runnable == {t \in Created : status[t] \in {"new", "SLEEPING"}}

(* scheduler_create(), which inserts at the head. *)
Create(t) ==
  /\ pc = "create" /\ t \notin Created
  /\ list' = <<t>> \o list
  /\ status' = [status EXCEPT ![t] = "new"]
  /\ UNCHANGED <<ctx, curr, pc, armed, handler, left, passed>>

-----------------------------------------------------------------------------
(* scheduler_execute(): setjmp(state.ctx), where every longjmp() to the    *)
(* scheduler lands again, then signal(), alarm(1) and schedule().          *)

Execute ==
  /\ pc = "create" /\ pc' = "landed"
  /\ UNCHANGED <<list, status, ctx, curr, armed, handler, left, passed>>

Signal ==
  /\ pc = "landed" /\ pc' = "arm"
  /\ handler' = TRUE
  /\ UNCHANGED <<list, status, ctx, curr, armed, left, passed>>

Arm ==
  /\ pc = "arm" /\ pc' = "schedule"
  /\ armed' = TRUE
  /\ UNCHANGED <<list, status, ctx, curr, handler, left, passed>>

(* The k-th thread that thread_candidate() looks at: it starts behind the  *)
(* current thread, or at the head, and goes round the list.                *)
Nth(k) ==
  LET start == IF curr = None THEN 0 ELSE Position(curr)
  IN  list[((start + k - 1) % Len(list)) + 1]

thread_candidate ==
  {t \in Runnable : \E k \in 1 .. Len(list) :
     t = Nth(k) /\ \A j \in 1 .. k - 1 : Nth(j) \notin Runnable}

Pass(t) ==
  passed' = [u \in Threads |->
               IF u = t \/ u \notin Runnable THEN [w \in Threads |-> 0]
               ELSE [passed[u] EXCEPT ![t] = @ + 1]]

(* A new thread's function is called on its own stack. *)
Start ==
  /\ pc = "schedule" /\ pc' = "user"
  /\ \E t \in thread_candidate :
       /\ status[t] = "new"
       /\ curr' = t /\ status' = [status EXCEPT ![t] = "RUNNING"]
       /\ Pass(t)
  /\ UNCHANGED <<list, ctx, armed, handler, left>>

(* A sleeping one continues inside the scheduler_yield() that put it to    *)
(* sleep, which the program or signal_handler() called.                    *)
Resume ==
  /\ pc = "schedule"
  /\ \E t \in thread_candidate :
       /\ status[t] = "SLEEPING"
       /\ curr' = t /\ status' = [status EXCEPT ![t] = "RUNNING"]
       /\ Pass(t)
       /\ pc' = CASE ctx[t] = "yield" -> "user"
                  [] ctx[t] \in ThreadPC -> "resumed"
                  [] OTHER -> "crashed"
       /\ ctx' = IF ctx[t] = "yield" THEN [ctx EXCEPT ![t] = "dead"] ELSE ctx
  /\ UNCHANGED <<list, armed, handler, left>>

(* Mutant of Return: destroy() leaves the pointer to a freed thread. *)
ReturnKeepsCurrent ==
  /\ pc = "schedule" /\ pc' = "returned"
  /\ list # <<>> /\ Runnable = {}
  /\ list' = <<>>
  /\ UNCHANGED <<status, ctx, curr, armed, handler, left, passed>>

(* With no candidate, destroy() and return: the alarm stays on. *)
Return ==
  /\ pc = "schedule" /\ pc' = "returned"
  /\ list # <<>> /\ Runnable = {}
  /\ list' = <<>> /\ curr' = None
  /\ UNCHANGED <<status, ctx, armed, handler, left, passed>>

(* thread_candidate() dereferences the head of an empty list. *)
ScheduleNothing ==
  /\ pc = "schedule" /\ pc' = "crashed"
  /\ list = <<>>
  /\ UNCHANGED <<list, status, ctx, curr, armed, handler, left, passed>>

-----------------------------------------------------------------------------
(* The threads.                                                            *)

Compute ==
  /\ pc = "user" /\ left[curr] > 0
  /\ left' = [left EXCEPT ![curr] = @ - 1]
  /\ UNCHANGED <<list, status, ctx, curr, pc, armed, handler, passed>>

(* scheduler_yield(): setjmp(), then the status and the longjmp(). *)
YieldSave ==
  /\ pc = "user" /\ left[curr] > 0
  /\ pc' = "yield_saved"
  /\ left' = [left EXCEPT ![curr] = @ - 1]
  /\ ctx' = [ctx EXCEPT ![curr] = "yield"]
  /\ UNCHANGED <<list, status, curr, armed, handler, passed>>

YieldJump ==
  /\ pc = "yield_saved" /\ pc' = "landed"
  /\ status' = [status EXCEPT ![curr] = "SLEEPING"]
  /\ UNCHANGED <<list, ctx, curr, armed, handler, left, passed>>

(* The function returns: schedule() marks the thread and longjmp()s. *)
Finish ==
  /\ pc = "user" /\ left[curr] = 0
  /\ pc' = "term_set"
  /\ status' = [status EXCEPT ![curr] = "TERMINATED"]
  /\ UNCHANGED <<list, ctx, curr, armed, handler, left, passed>>

FinishJump ==
  /\ pc = "term_set" /\ pc' = "landed"
  /\ UNCHANGED <<list, status, ctx, curr, armed, handler, left, passed>>

-----------------------------------------------------------------------------
(* SIGALRM.  The handler was installed with SA_RESETHAND and SA_NODEFER    *)
(* (signal() under -ansi; strace_output.txt shows it): delivery resets it  *)
(* and blocks nothing.                                                     *)

(* signal_handler() up to the longjmp() of scheduler_yield(): the          *)
(* interrupted code is saved as curr_thread's, whoever's it is.            *)
Alarm ==
  /\ armed /\ pc \in AlarmAt /\ handler
  /\ armed' = FALSE /\ handler' = FALSE
  /\ \/ /\ curr # None /\ pc' = "landed"
        /\ ctx' = [ctx EXCEPT ![curr] = IF pc \in ThreadPC THEN pc ELSE "main"]
        /\ status' = [status EXCEPT ![curr] = "SLEEPING"]
     \/ curr = None /\ pc' = "crashed" /\ UNCHANGED <<ctx, status>>
  /\ UNCHANGED <<list, curr, left, passed>>

(* The rest of the handler, when its thread is resumed: alarm(0), and back *)
(* to the interrupted code.                                                *)
HandlerReturn ==
  /\ pc = "resumed"
  /\ armed' = FALSE
  /\ pc' = ctx[curr]
  /\ ctx' = [ctx EXCEPT ![curr] = "dead"]
  /\ UNCHANGED <<list, status, curr, handler, left, passed>>

Step ==
  \/ Execute \/ Signal \/ Arm \/ Start \/ Resume \/ Return \/ ScheduleNothing
  \/ Compute \/ YieldSave \/ YieldJump \/ Finish \/ FinishJump
  \/ HandlerReturn

(* scheduler_execute() returned, or the process is gone. *)
Ended == pc \in {"returned", "crashed"} /\ UNCHANGED vars

Next == Step \/ Alarm \/ Ended \/ \E t \in Threads : Create(t)

Spec == Init /\ [][Next]_vars
FairSpec == Spec /\ WF_vars(Step)

-----------------------------------------------------------------------------
(* Every variable has its type, and curr_thread, where the next schedule() *)
(* goes on and SIGALRM saves a ctx, is NULL or a thread of the list:       *)
(* destroy() has freed every other.                                        *)
TypeOK ==
  /\ list \in Seq(Threads) /\ curr \in Created \cup {None} /\ pc \in PC
  /\ status \in [Threads -> {"none", "new", "RUNNING", "SLEEPING", "TERMINATED"}]
  /\ ctx \in [Threads -> Ctx]
  /\ armed \in BOOLEAN /\ handler \in BOOLEAN
  /\ left \in [Threads -> 0 .. Work]
  /\ passed \in [Threads -> [Threads -> Nat]]

(* At most one thread is RUNNING, and it is the one on the CPU: while      *)
(* thread code runs it is curr_thread that runs, and whenever schedule()   *)
(* chooses none is left RUNNING, so none is lost to thread_candidate().    *)
RunningIsCurrent ==
  /\ \A t \in Threads : status[t] = "RUNNING" =>
       t = curr /\ pc \in {"user", "yield_saved", "resumed"}
  /\ pc \in {"user", "yield_saved", "resumed"} =>
       curr \in Threads /\ status[curr] = "RUNNING"

(* thread_candidate() is a round robin: between two turns of a thread that *)
(* can run every other thread gets at most one, however threads yield,     *)
(* finish and are preempted.                                               *)
RoundRobin ==
  \A t \in Runnable, u \in Created : passed[t][u] <= 1

(* A sleeping thread's ctx was saved by a scheduler_yield() that has not   *)
(* returned, on the thread's own stack: longjmp() may go there.            *)
SleepersCanResume ==
  \A t \in Threads : status[t] = "SLEEPING" =>
    ctx[t] \in {"yield"} \cup ThreadPC

(* SIGALRM never arrives while its action is the default, which would end  *)
(* the process: delivery resets the handler and no alarm is pending until  *)
(* scheduler_execute() has installed it again.                             *)
AlarmIsHandled == armed => handler

(* scheduler_execute() returns only after every thread created before has  *)
(* done its work and returned (scheduler.h:39).                            *)
ReturnsWhenAllDone ==
  pc = "returned" => \A t \in Threads :
    status[t] # "none" => status[t] = "TERMINATED" /\ left[t] = 0

(* scheduler_execute() returns when the functions of the threads do.  With *)
(* no thread it dereferences a null list.                                  *)
ExecuteReturns ==
  (pc = "landed") ~> (pc = "returned" \/ (pc = "crashed" /\ list = <<>>))

(* While a thread's function runs the alarm that preempts it is set.       *)
UserCodeIsTimed == pc = "user" => armed

(* scheduler_yield() is only called from within a user thread              *)
(* (scheduler.h:47): what it saves as a thread's ctx is that thread.       *)
YieldsFromUserThread == \A t \in Threads : ctx[t] # "main"
=============================================================================
