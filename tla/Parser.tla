------------------------------- MODULE Parser -------------------------------
(***************************************************************************)
(* The lexer and the parser of src/p1, as operators.  A string is a        *)
(* sequence of lexemes: what is an operator, what strtod() takes whole,    *)
(* white space, or what strtod() takes nothing of.  Numbers are fractions  *)
(* and exact; [n |-> 1, d |-> 0] is what strtod() makes of "inf" or 1e400. *)
(* A parser is threaded through the recursive descent.                     *)
(***************************************************************************)
EXTENDS Integers, Sequences

CONSTANT Scale   \* what "%f" keeps: whole numbers of 1/Scale (10^6)

ASSUME ScaleAssumption == Scale \in Nat \ {0}

NULL == [op |-> ""]

(* tokenize(): an error, or the lexemes that are not white space.          *)
Lexed(s) == \A k \in DOMAIN s : s[k].op # "junk"
tokenize(s) == SelectSeq(s, LAMBDA t : t.op # " ")

-----------------------------------------------------------------------------
(* Recursive descent                                                       *)

(* A parser of the tokens s when malloc() has nodes for `memory' of them.  *)
(* `undefined' says whether TBL was read after its end.                    *)
parser(s, memory) ==
  [tokens |-> s, i |-> 1, id |-> 0, memory |-> memory, undefined |-> FALSE]

next(p) == IF p.i <= Len(p.tokens) THEN p.tokens[p.i] ELSE NULL

match(p, op) == next(p).op = op

forward(p) == IF p.i <= Len(p.tokens) THEN [p EXCEPT !.i = @ + 1] ELSE p

Fail(p) == [p |-> p, dag |-> NULL]

(* The parser with a new node, or without when memory is out.              *)
MKD(p, op, val, left) ==
  IF p.id = p.memory THEN Fail(p)
  ELSE [p   |-> [p EXCEPT !.id = @ + 1],
        dag |-> [op |-> op, id |-> p.id + 1, val |-> val,
                 left |-> left, right |-> NULL]]

Zero == [n |-> 0, d |-> 1]

(* What follows when r is not an error. *)
AndThen(r, follows(_, _)) == IF r.dag = NULL THEN r ELSE follows(r.p, r.dag)

(* The new node with what was parsed as its right operand. *)
Operand(new, right) ==
  AndThen(new, LAMBDA p, dag :
    AndThen(right, LAMBDA q, operand :
      [p |-> q, dag |-> [dag EXCEPT !.right = operand]]))

RECURSIVE expr_unary(_)
RECURSIVE expr_multiplicative_(_, _)
RECURSIVE expr_additive_(_, _)

expr_multiplicative(p) == AndThen(expr_unary(p), expr_multiplicative_)

expr(p) == AndThen(expr_multiplicative(p), expr_additive_)

ClosedBy(p, dag) ==
  IF match(p, ")") THEN [p |-> forward(p), dag |-> dag] ELSE Fail(p)

expr_primary(p) ==
  IF match(p, "VAL")
  THEN AndThen(MKD(p, "VAL", next(p).val, NULL),
               LAMBDA q, dag : [p |-> forward(q), dag |-> dag])
  ELSE IF match(p, "(") THEN AndThen(expr(forward(p)), ClosedBy)
  ELSE Fail(p)

expr_unary(p) ==
  IF match(p, "+") THEN expr_unary(forward(p))
  ELSE IF match(p, "-")
  THEN LET new == MKD(p, "NEG", Zero, NULL)
       IN  Operand(new, expr_unary(forward(new.p)))
  ELSE expr_primary(p)

(* The loop runs once: the call at its end takes all the operands that     *)
(* follow, and the node they are added to is on their left.                *)
expr_multiplicative_(p, left) ==
  IF ~match(p, "*") /\ ~match(p, "/") THEN [p |-> p, dag |-> left]
  ELSE LET new == MKD(p, next(p).op, Zero, left)
       IN  AndThen(Operand(new, expr_unary(forward(new.p))),
                   expr_multiplicative_)

(* Mutant of expr_additive_: the operands that follow are parsed first.    *)
AdditiveFromRight(p, left) ==
  IF ~match(p, "+") /\ ~match(p, "-") THEN [p |-> p, dag |-> left]
  ELSE LET new == MKD(p, next(p).op, Zero, left)
       IN  Operand(new, expr(forward(new.p)))

(* The message about a wrong operand is looked up in a table of two, at    *)
(* an index (of ADD or SUB, counted from MUL) that is two or three.        *)
Reported(right) ==
  IF right.dag = NULL THEN Fail([right.p EXCEPT !.undefined = TRUE]) ELSE right

expr_additive_(p, left) ==
  IF ~match(p, "+") /\ ~match(p, "-") THEN [p |-> p, dag |-> left]
  ELSE LET new == MKD(p, next(p).op, Zero, left)
       IN  AndThen(Operand(new, Reported(expr_multiplicative(forward(new.p)))),
                   expr_additive_)

AtEnd(p, dag) == IF next(p) = NULL THEN [p |-> p, dag |-> dag] ELSE Fail(p)

top(p) == AndThen(expr(p), AtEnd)

parser_open(s, memory) ==
  LET new == parser(tokenize(s), memory)
  IN  IF ~Lexed(s) \/ new.tokens = <<>> THEN Fail(new) ELSE top(new)

-----------------------------------------------------------------------------
(* The code that is generated and what it computes                         *)

(* A number as "%f" writes it, of two that are as near the even one; "inf" *)
(* is written as such.                                                     *)
Written(v) ==
  IF v.d = 0 THEN v
  ELSE LET whole == (v.n * Scale) \div v.d
           rest  == 2 * (v.n * Scale - whole * v.d)
       IN  [n |-> IF rest > v.d \/ (rest = v.d /\ whole % 2 = 1)
                  THEN whole + 1 ELSE whole, d |-> Scale]

Id(dag) == IF dag = NULL THEN 0 ELSE dag.id

(* The variables that reflect() defines, in this order.                    *)
RECURSIVE reflect(_)
reflect(dag) ==
  IF dag = NULL THEN <<>>
  ELSE reflect(dag.left) \o reflect(dag.right)
       \o <<[op |-> dag.op, id |-> dag.id, val |-> Written(dag.val),
             left |-> Id(dag.left), right |-> Id(dag.right)]>>

(* evaluate(): its variables and the one that it passes to sigmoid().      *)
generate_with_sigmoid(dag) == [body |-> reflect(dag), return |-> dag.id]

Fraction(n, d) == IF d < 0 THEN [n |-> -n, d |-> -d] ELSE [n |-> n, d |-> d]

Apply(op, x, y) ==
  CASE op = "*" -> Fraction(x.n * y.n, x.d * y.d)
    [] op = "/" -> IF y.n = 0 THEN Zero ELSE Fraction(x.n * y.d, x.d * y.n)
    [] op = "+" -> Fraction(x.n * y.d + y.n * x.d, x.d * y.d)
    [] op = "-" -> Fraction(x.n * y.d - y.n * x.d, x.d * y.d)

Same(x, y) == x.n * y.d = y.n * x.d

(* C: every variable is defined once and before its use, and "inf" is not  *)
(* a number.                                                               *)
Compiles(code) ==
  LET b == code.body
      Defined(k) == {b[j].id : j \in 1 .. k - 1}
      Uses(k) == CASE b[k].op = "VAL" -> {}
                   [] b[k].op = "NEG" -> {b[k].right}
                   [] OTHER -> {b[k].left, b[k].right}
  IN  /\ \A k \in DOMAIN b : /\ b[k].id \notin Defined(k) /\ b[k].val.d # 0
                             /\ Uses(k) \subseteq Defined(k)
      /\ code.return \in Defined(Len(b) + 1)

(* What the compiled evaluate() passes to sigmoid().                       *)
evaluate(code) ==
  LET b == code.body
      At(id) == CHOOSE k \in DOMAIN b : b[k].id = id
      t[k \in DOMAIN b] ==
        CASE b[k].op = "VAL" -> b[k].val
          [] b[k].op = "NEG" -> Apply("-", Zero, t[At(b[k].right)])
          [] OTHER -> Apply(b[k].op, t[At(b[k].left)], t[At(b[k].right)])
  IN  t[At(code.return)]

-----------------------------------------------------------------------------
(* Reference: the grammar.  The values that a sequence of tokens has as a  *)
(* sum, a product or a signed operand: none if it is not one.              *)

RECURSIVE Sum(_)
RECURSIVE Product(_)
RECURSIVE Unary(_)

Split(s, ops) == {k \in 2 .. Len(s) - 1 : s[k].op \in ops}

Sum(s) ==
  Product(s) \cup UNION {{Apply(s[k].op, x, y) :
      x \in Sum(SubSeq(s, 1, k - 1)), y \in Product(SubSeq(s, k + 1, Len(s)))} :
    k \in Split(s, {"+", "-"})}

Product(s) ==
  Unary(s) \cup UNION {{Apply(s[k].op, x, y) :
      x \in Product(SubSeq(s, 1, k - 1)), y \in Unary(SubSeq(s, k + 1, Len(s)))} :
    k \in Split(s, {"*", "/"})}

Unary(s) ==
  IF s = <<>> THEN {}
  ELSE CASE s[1].op = "VAL" -> IF Len(s) = 1 THEN {s[1].val} ELSE {}
         [] s[1].op = "+" -> Unary(Tail(s))
         [] s[1].op = "-" -> {Apply("-", Zero, y) : y \in Unary(Tail(s))}
         [] s[1].op = "(" -> IF Len(s) > 2 /\ s[Len(s)].op = ")"
                             THEN Sum(SubSeq(s, 2, Len(s) - 1)) ELSE {}
         [] OTHER -> {}
=============================================================================
