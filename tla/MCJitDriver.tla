---------------------------- MODULE MCJitDriver ----------------------------
(* Values of the constants of Jit for model checking.                *)
EXTENDS Jit

Op(op) == [op |-> op, val |-> Zero]
Val(n, d) == [op |-> "VAL", val |-> [n |-> n, d |-> d]]

Numbers == {Val(0, 1), Val(2, 1), Val(3, 1)}
Signs   == {Op("+"), Op("-")}
Ops     == Signs \cup {Op("*"), Op("/")}
Rare    == {Val(1, 4), Val(1, 0), Op(" "), Op("junk")}

Sequences(S, n) == UNION {[1 .. k -> S] : k \in 0 .. n}

Four == {<<Val(3, 1), f, y, g, z, h, w>> :
           y, z, w \in Numbers \ {Val(3, 1)}, f, g, h \in Ops}

Grouped == {<<Op("("), x, f, y, Op(")"), g, z>> :
              x, y, z \in Numbers \ {Val(3, 1)}, f, g \in Ops}
  \cup {<<x, f, Op("("), y, g, z, Op(")")>> :
              x, y, z \in Numbers \ {Val(3, 1)}, f, g \in Ops}

(* All short sequences, and longer expressions of which every operator can *)
(* group with another.                                                     *)
SomeArguments ==
  Sequences(Numbers \cup Ops \cup Rare \cup {Op("("), Op(")")}, 3)
  \cup Sequences({Val(2, 1), Op("-"), Op("/"), Op("("), Op(")")}, 5)
  \cup Four \cup Grouped

OneArgument == {<<Op("-"), Val(3, 1)>>}
=============================================================================
