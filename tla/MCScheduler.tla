---------------------------- MODULE MCScheduler ----------------------------
(* Values of the constants of Scheduler for model checking.                *)
EXTENDS Scheduler

(* The alarm fires while the function of a thread runs, where a second     *)
(* usually passes.                                                         *)
InUserCode == {"user"}

(* It may also fire in the few instructions between a voluntary yield, or  *)
(* the end of a thread, and the next alarm(1).                             *)
Anywhere == {"landed", "arm", "user", "yield_saved", "term_set"}
=============================================================================
