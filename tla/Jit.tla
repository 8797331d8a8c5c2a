-------------------------------- MODULE Jit --------------------------------
(***************************************************************************)
(* The program of src/p1: the driver with the parser and the generated     *)
(* code, which are the values of the driver's constant operators.          *)
(***************************************************************************)
EXTENDS Parser, JitDriver

(* Some number of s is not what "%f" makes of it.                          *)
LosesDigits(s) ==
  \E k \in DOMAIN s : /\ s[k].op = "VAL"
                      /\ s[k].val.d = 0 \/ ~Same(Written(s[k].val), s[k].val)

(* What is printed is the value that the grammar in the comments of        *)
(* parser.c gives to the argument (with 0 for a division by 0, as in       *)
(* reflect()), unless a number lost digits on its way through "%f" or, as  *)
(* there was no gcc, out.so is another run's.  The code that is generated  *)
(* always compiles (the ids are unique, parser.h), but for an infinite     *)
(* number; and main() refuses only what the grammar does not derive or     *)
(* there is no memory for.                                                 *)
PrintsTheValue ==
  /\ out # Nothing =>
       \/ child = "no gcc" /\ jitc \in {Absent, before.sofile}
       \/ LosesDigits(argv)
       \/ \E v \in Sum(tokenize(argv)) : Same(out, v)
  /\ pc \in {"fork", "wait"} /\ cfile # before.cfile =>
       Compiles(cfile) \/ \E k \in DOMAIN argv : argv[k].val.d = 0
  /\ pc = "refused" =>
       \/ ~Lexed(argv)
       \/ result.p.id = result.p.memory
       \/ Sum(tokenize(argv)) = {}
=============================================================================
