-------------------------- MODULE JitDriverProofs --------------------------
(***************************************************************************)
(* What is proved about JitDriver for every parser, every code generator,  *)
(* every argument and every number of runs, killed at any step or not.     *)
(***************************************************************************)
EXTENDS JitDriver, TLAPS

(* The trees that parser_open() may return for this run's argument, and    *)
(* the code that is generated for them.                                    *)
Trees == {ParserOpen(argv, memory).dag : memory \in Memories} \ {NoTree}

Codes == {CodeOf(dag) : dag \in Trees}

Untouched == cfile = before.cfile /\ sofile = before.sofile

(* Up to the child, the library is the one that was found.                 *)
Compiling ==
  /\ pc = "parse" => Untouched
  /\ pc = "generate" => Untouched /\ result.dag \in Trees
  /\ pc = "fork" => cfile \in Codes /\ sofile = before.sofile
  /\ pc \in {"parse", "generate", "fork"} => child = "none"
  /\ pc = "wait" =>
       /\ cfile \in Codes
       /\ child \in {"running", "compiled", "error", "signaled", "no gcc"}
       /\ child = "compiled" => sofile = cfile
       /\ child = "signaled" => sofile \in {before.sofile, Broken}
       /\ child \in {"running", "error", "no gcc"} => sofile = before.sofile
  /\ child = "running" => pc = "wait"

(* From then on out.c is gone, and what is loaded is this run's code or,   *)
(* without gcc, what was found.                                            *)
IsLibrary(code) ==
  \/ child = "compiled" /\ code \in Codes
  \/ child = "no gcc" /\ code = before.sofile

Running ==
  /\ pc \in {"load", "lookup", "call", "done"} => cfile = Absent
  /\ pc = "load" => IsLibrary(sofile)
  /\ pc \in {"lookup", "call", "done"} => IsLibrary(jitc)
  /\ pc = "done" => out = Value(jitc)
  /\ pc \in {"parse", "generate", "fork", "wait", "load", "lookup", "call"} =>
       out = Nothing

PC == {"parse", "generate", "fork", "wait", "load", "lookup", "call", "done"}

(* What is printed is what the code that this run has generated for its    *)
(* argument computes, unless there was no gcc: then the library may be     *)
(* another run's.                                                          *)
PrintsItsOwn ==
  out # Nothing =>
    \/ out \in {Value(code) : code \in Codes}
    \/ child = "no gcc"

Driving ==
  /\ pc \in PC \cup Ends /\ Compiling /\ Running /\ PrintsItsOwn /\ NothingLeft

LEMMA DrivingInit == Init => Driving
BY DEF Init, Driving, Ends, Compiling, Running, PrintsItsOwn, NothingLeft

LEMMA DrivingStep == Driving /\ [Next]_vars => Driving'
<1>. SUFFICES ASSUME Driving, [Next]_vars PROVE Driving' OBVIOUS
<1>. USE DEF Driving, PC, Ends, Compiling, Running, PrintsItsOwn, NothingLeft,
             IsLibrary, Untouched
<1>o. argv' = argv => Trees' = Trees /\ Codes' = Codes BY DEF Trees, Codes
<1>1. ASSUME NEW s, Start(s) PROVE Driving' BY <1>1 DEF Start
<1>2. ASSUME NEW memory \in Memories, Parse(memory) PROVE Driving'
  <2>1. CASE argv = <<>> BY <1>2, <2>1, <1>o DEF Parse
  <2>2. CASE argv # <<>>
    <3>1. result' = ParserOpen(argv, memory) /\ argv' = argv
      BY <1>2, <2>2 DEF Parse
    <3>2. pc' = "generate" => result'.dag \in Trees'
      BY <1>2, <2>2, <3>1 DEF Parse, Trees
    <3>. QED BY <1>2, <2>2, <3>2 DEF Parse
  <2>. QED BY <2>1, <2>2
<1>3. CASE Generate
  <2>1. pc' = "fork" => cfile' \in Codes' BY <1>3, <1>o DEF Generate, Codes
  <2>. QED BY <1>3, <2>1, <1>o DEF Generate
<1>4. CASE Fork BY <1>4, <1>o DEF Fork
<1>5. CASE Child BY <1>5, <1>o DEF Child
<1>6. CASE Wait
  <2>1. CASE child \in {"compiled", "no gcc"}
    <3>1. pc' = "load" BY <1>6, <2>1 DEF Wait
    <3>. QED BY <1>6, <2>1, <3>1, <1>o DEF Wait
  <2>2. CASE child \notin {"compiled", "no gcc"}
    <3>1. pc' = "failed" BY <1>6, <2>2 DEF Wait
    <3>2. child = "error" \/ child = "signaled" BY <1>6, <2>2 DEF Wait
    <3>. QED BY <1>6, <3>1, <3>2, <1>o DEF Wait
  <2>. QED BY <2>1, <2>2
<1>7. CASE Load BY <1>7, <1>o DEF Load
<1>8. CASE Lookup BY <1>8, <1>o DEF Lookup
<1>9. CASE Call BY <1>9, <1>o DEF Call
<1>10. CASE Done BY <1>10, <1>o DEF Done
<1>11. CASE Kill BY <1>11, <1>o DEF Kill
<1>12. CASE UNCHANGED vars BY <1>12, <1>o DEF vars
<1>13. CASE Ended BY <1>12, <1>13 DEF Ended
<1>. QED
  BY <1>1, <1>2, <1>3, <1>4, <1>5, <1>6, <1>7, <1>8, <1>9, <1>10, <1>11, <1>12,
     <1>13
  DEF Next

LEMMA DrivingAlways == Spec => []Driving
BY DrivingInit, DrivingStep, PTL DEF Spec

(* A run that was not killed leaves only the files that it has found, but  *)
(* for out.c when fork() failed and half of an out.so when gcc was killed, *)
(* whatever the parser makes of the argument and whichever steps fail.     *)
THEOREM FilesAreDeleted == Spec => []NothingLeft
<1>1. Driving => NothingLeft BY DEF Driving
<1>. QED BY <1>1, DrivingAlways, PTL

(* What main() prints (main.c:144) was computed by the code of a tree that *)
(* parser_open() has returned for the argument of this run, also when runs *)
(* before it were killed and left their files, unless there was no gcc.    *)
THEOREM OwnCodeIsCalled == Spec => []PrintsItsOwn
<1>1. Driving => PrintsItsOwn BY DEF Driving
<1>. QED BY <1>1, DrivingAlways, PTL
=============================================================================
