------------------------------ MODULE JitDriver ------------------------------
(***************************************************************************)
(* The program of src/p1, run again and again in one directory: it parses  *)
(* its argument, writes a C function to out.c, has gcc compile it in a     *)
(* child process, loads out.so, calls the function and deletes the files.  *)
(* Every step may fail and the program may be killed between two (with the *)
(* child, as by Ctrl-C), so that a run may find the files of another.      *)
(* What parser, code generator and compiler make of an expression is       *)
(* Parser's business; here it is whatever the constant operators say.      *)
(***************************************************************************)
EXTENDS Integers, Sequences

CONSTANTS
  ParserOpen(_, _), \* parser_open(): the parser and the tree, or NoTree
  NoTree,
  CodeOf(_),  \* generate_with_sigmoid(): the code of a tree
  IsC(_),     \* can code be compiled
  Value(_),   \* what compiled code passes to sigmoid()
  Arguments,  \* arguments of the first run
  Again,      \* arguments of the runs that follow
  Memories,   \* for how many nodes of a tree there may be memory
  MaxRuns     \* bound: number of runs

ASSUME JitDriverAssumption ==
  /\ Again \subseteq Arguments /\ Memories \subseteq Nat /\ MaxRuns \in Nat \ {0}

VARIABLES
  pc,       \* where the program is, or how it ended
  argv,     \* its argument
  result,   \* what parser_open() returned
  cfile,    \* out.c: the code in it, or Absent
  sofile,   \* out.so: Absent, Broken, Foreign or the code it was compiled from
  child,    \* "none", "running", how it ended
  jitc,     \* what is loaded
  out,      \* what was printed: the value passed to sigmoid(), or Absent
  runs,     \* number of runs so far
  before    \* history: the files when this run began

vars == <<pc, argv, result, cfile, sofile, child, jitc, out, runs, before>>

Absent  == [body |-> <<>>, return |-> 0]
Broken  == [body |-> <<>>, return |-> 1]   \* cannot be loaded
Foreign == [body |-> <<>>, return |-> 2]   \* a library with no evaluate()
Nothing == [n |-> 0, d |-> 0]

Closed  == [dag |-> NoTree]

Ends == {"refused", "failed", "exited", "printed", "crashed", "killed"}

Init ==
  /\ pc = "killed" /\ argv = <<>> /\ result = Closed
  /\ cfile = Absent /\ sofile \in {Absent, Foreign}
  /\ child = "none" /\ jitc = Absent /\ out = Nothing /\ runs = 0
  /\ before = [cfile |-> Absent, sofile |-> Absent]

Start(s) ==
  /\ pc \in Ends /\ runs < MaxRuns
  /\ pc' = "parse" /\ argv' = s /\ runs' = runs + 1
  /\ result' = Closed
  /\ child' = "none" /\ jitc' = Absent /\ out' = Nothing
  /\ before' = [cfile |-> cfile, sofile |-> sofile]
  /\ UNCHANGED <<cfile, sofile>>

-----------------------------------------------------------------------------
(* The steps of main()                                                     *)

(* parser_open() asserts that there is something to parse; where it reads  *)
(* after the end of a table it crashes or fails as it would.               *)
Parse(memory) ==
  LET new == ParserOpen(argv, memory)
  IN  /\ pc = "parse"
      /\ IF argv = <<>> THEN pc' = "crashed" /\ UNCHANGED result
         ELSE /\ result' = new
              /\ \/ new.dag # NoTree /\ pc' = "generate"
                 \/ new.dag = NoTree /\ pc' = "refused"
                 \/ new.p.undefined /\ pc' = "crashed"
      /\ UNCHANGED <<argv, cfile, sofile, child, jitc, out, runs, before>>

(* fopen() fails, or out.c is written from nothing and the parser closed.  *)
Generate ==
  /\ pc = "generate"
  /\ \/ pc' = "failed" /\ UNCHANGED <<result, cfile>>
     \/ /\ pc' = "fork" /\ result' = Closed
        /\ cfile' = CodeOf(result.dag)
  /\ UNCHANGED <<argv, sofile, child, jitc, out, runs, before>>

(* jitc_compile() itself exits when fork() fails. *)
Fork ==
  /\ pc = "fork"
  /\ \/ pc' = "exited" /\ UNCHANGED child
     \/ pc' = "wait" /\ child' = "running"
  /\ UNCHANGED <<argv, result, cfile, sofile, jitc, out, runs, before>>

(* The child: gcc compiles out.c, or reports an error, or is killed while  *)
(* it writes out.so; when there is no gcc the child exits as if it had     *)
(* been successful.                                                        *)
Child ==
  /\ child = "running"
  /\ \/ child' = "compiled" /\ IsC(cfile) /\ sofile' = cfile
     \/ child' = "error" /\ UNCHANGED sofile
     \/ child' = "signaled" /\ sofile' \in {sofile, Broken}
     \/ child' = "no gcc" /\ UNCHANGED sofile
  /\ UNCHANGED <<pc, argv, result, cfile, jitc, out, runs, before>>

(* Mutant of Wait: out.c is deleted only after a success. *)
WaitKeepsSource ==
  /\ pc = "wait" /\ child # "running"
  /\ IF child \in {"compiled", "no gcc"}
     THEN pc' = "load" /\ cfile' = Absent
     ELSE pc' = "failed" /\ UNCHANGED cfile
  /\ UNCHANGED <<argv, result, sofile, child, jitc, out, runs, before>>

(* waitpid() and the exit status, and out.c deleted on either path.        *)
Wait ==
  /\ pc = "wait" /\ child # "running"
  /\ pc' = IF child \in {"compiled", "no gcc"} THEN "load" ELSE "failed"
  /\ cfile' = Absent
  /\ UNCHANGED <<argv, result, sofile, child, jitc, out, runs, before>>

(* jitc_open() fails when there is no memory or nothing that can be        *)
(* loaded: main() deletes out.so, then jitc_close() dereferences NULL.     *)
Load ==
  /\ pc = "load"
  /\ \/ /\ sofile \notin {Absent, Broken}
        /\ pc' = "lookup" /\ jitc' = sofile /\ UNCHANGED sofile
     \/ pc' = "crashed" /\ sofile' = Absent /\ UNCHANGED jitc
  /\ UNCHANGED <<argv, result, cfile, child, out, runs, before>>

Lookup ==
  /\ pc = "lookup"
  /\ IF jitc = Foreign THEN pc' = "failed" /\ sofile' = Absent /\ jitc' = Absent
     ELSE pc' = "call" /\ UNCHANGED <<sofile, jitc>>
  /\ UNCHANGED <<argv, result, cfile, child, out, runs, before>>

Call ==
  /\ pc = "call" /\ pc' = "done"
  /\ out' = Value(jitc)
  /\ UNCHANGED <<argv, result, cfile, sofile, child, jitc, runs, before>>

Done ==
  /\ pc = "done" /\ pc' = "printed"
  /\ sofile' = Absent /\ jitc' = Absent
  /\ UNCHANGED <<argv, result, cfile, child, out, runs, before>>

Kill ==
  /\ pc \notin Ends /\ pc' = "killed"
  /\ IF child = "running" THEN child' = "signaled" /\ sofile' \in {sofile, Broken}
                           ELSE UNCHANGED <<child, sofile>>
  /\ jitc' = Absent
  /\ UNCHANGED <<argv, result, cfile, out, runs, before>>

Ended == pc \in Ends /\ runs = MaxRuns /\ UNCHANGED vars

Next ==
  \/ \E s \in IF runs = 0 THEN Arguments ELSE Again : Start(s)
  \/ \E memory \in Memories : Parse(memory)
  \/ Generate \/ Fork \/ Child \/ Wait \/ Load \/ Lookup \/ Call \/ Done
  \/ Kill \/ Ended

Spec == Init /\ [][Next]_vars

-----------------------------------------------------------------------------
(* Properties                                                              *)

(* A run that was not killed deletes the files it has made, also where it  *)
(* fails or crashes: what is left is what it found, but for out.c when     *)
(* fork() failed and a half-written out.so when gcc was killed.            *)
NothingLeft ==
  pc \in Ends \ {"killed"} =>
    /\ cfile \in {Absent, before.cfile} \/ pc = "exited"
    /\ sofile \in {Absent, before.sofile} \cup
                 (IF child = "signaled" THEN {Broken} ELSE {})
=============================================================================
