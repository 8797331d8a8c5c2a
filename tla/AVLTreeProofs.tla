--------------------------- MODULE AVLTreeProofs ----------------------------
(***************************************************************************)
(* What is proved of AVLTree for every set of words, every length of words, *)
(* nodes and state, every capacity and every number of insertions: the     *)
(* memory of an open file is a tree with its blocks and its totals, but for *)
(* what the removal of inner nodes damages.  An operation is a function on *)
(* the places of the tree that goes down to shallower nodes, so that what  *)
(* it returns is known from what it returns for the child: each part below *)
(* states that, then what holds on the way up.                             *)
(***************************************************************************)
EXTENDS TreeMemoryProofs

-----------------------------------------------------------------------------
(* The operations go down to shallower nodes. *)

Leveled(node, S) == \A b \in S : Level(node, b)

LEMMA Shallower ==
  ASSUME NEW node, Graph(node), NEW b \in DOMAIN node, Level(node, b)
  PROVE  /\ delta(node, node[b].left) < delta(node, b)
         /\ delta(node, node[b].right) < delta(node, b)
<1>1. LET dl == delta(node, node[b].left)
          dr == delta(node, node[b].right)
          d  == delta(node, b)
      IN  /\ dl \in Int /\ dr \in Int
          /\ \/ dl = dr /\ d = dl + 1
             \/ dl = dr + 1 /\ d = dl + 1
             \/ dr = dl + 1 /\ d = dr + 1
  BY LevelIs
<1>. QED BY <1>1

LEMMA ShallowestOf ==
  ASSUME NEW node, Graph(node), NEW T, T \subseteq Places(node), T # {}
  PROVE  \E b \in T : \A c \in T : delta(node, b) <= delta(node, c)
<1>. DEFINE D == {delta(node, b) + 1 : b \in T}
<1>1. \A b \in T : delta(node, b) \in Int /\ delta(node, b) >= -1 BY DeltaIs
<1>2. D \subseteq Nat /\ D # {} BY <1>1
<1>3. PICK x \in D : \A y \in D : x <= y BY Zenon, <1>2, LeastOf
<1>4. PICK b \in T : x = delta(node, b) + 1 BY <1>3
<1>5. ASSUME NEW c \in T PROVE delta(node, b) <= delta(node, c)
  <2>1. x <= delta(node, c) + 1 BY <1>3
  <2>. QED BY <1>1, <1>4, <2>1
<1>. QED BY <1>5

LEMMA Bounded ==
  ASSUME NEW node, Graph(node), NEW a \in DOMAIN node,
         Leveled(node, Sub(node, a))
  PROVE  \A b \in Sub(node, a) : delta(node, b) <= delta(node, a)
<1>. DEFINE S == {b \in Sub(node, a) : delta(node, b) <= delta(node, a)}
<1>1. a \in Sub(node, a) /\ Closed(node, Sub(node, a)) BY SubSelf, SubClosed
<1>2. \A b \in Sub(node, a) : b \in DOMAIN node /\ delta(node, b) \in Int
  <2>1. \A b \in Sub(node, a) : b \in DOMAIN node BY SubIn
  <2>. QED BY <2>1, DeltaIs DEF Places
<1>3. a \in S BY <1>1, <1>2
<1>4. Closed(node, S)
  <2>1. S \subseteq DOMAIN node BY <1>2
  <2>2. ASSUME NEW b \in S
        PROVE  node[b].left \in S \cup {NULL} /\ node[b].right \in S \cup {NULL}
    <3>. DEFINE l == node[b].left
                r == node[b].right
    <3>1. l \in Sub(node, a) \cup {NULL} /\ r \in Sub(node, a) \cup {NULL}
      BY <1>1 DEF Closed
    <3>2. /\ delta(node, l) < delta(node, b) /\ delta(node, r) < delta(node, b)
          /\ delta(node, b) <= delta(node, a)
      BY <1>2, Shallower DEF Leveled
    <3>3. /\ delta(node, b) \in Int /\ delta(node, a) \in Int BY <1>1, <1>2
    <3>. HIDE DEF l, r
    <3>4. l = NULL \/ l \in S BY <1>2, <3>1, <3>2, <3>3
    <3>5. r = NULL \/ r \in S BY <1>2, <3>1, <3>2, <3>3
    <3>. QED BY <3>4, <3>5 DEF l, r
  <2>. QED BY <2>1, <2>2 DEF Closed
<1>. HIDE DEF S
<1>5. Sub(node, a) \subseteq S BY <1>3, <1>4, SubLeast
<1>. QED BY <1>5 DEF S

(* The recursive definition of the nodes below a gives those. *)
LEMMA NodesIs ==
  ASSUME NEW node, Graph(node), NEW a \in Places(node),
         Leveled(node, Sub(node, a))
  PROVE  Nodes(node, a) = Sub(node, a)
<1>. DEFINE Equation(f) == f = [b \in Places(node) |->
              IF b = NULL THEN {}
              ELSE {b} \cup f[node[b].left] \cup f[node[b].right]]
            below[b \in Places(node)] ==
              IF b = NULL THEN {}
              ELSE {b} \cup below[node[b].left] \cup below[node[b].right]
            S == Sub(node, a) \cup {NULL}
<1>1. Equation([b \in Places(node) |-> Sub(node, b)])
  <2>. DEFINE f == [b \in Places(node) |-> Sub(node, b)]
  <2>1. ASSUME NEW b \in Places(node)
        PROVE  Sub(node, b) = IF b = NULL THEN {}
                 ELSE {b} \cup f[node[b].left] \cup f[node[b].right]
    <3>1. CASE b = NULL BY <3>1, SubNull
    <3>2. CASE b # NULL
      <4>1. b \in DOMAIN node BY <3>2 DEF Places
      <4>2. node[b].left \in Places(node) /\ node[b].right \in Places(node)
        BY <4>1, GraphIs
      <4>. QED BY <3>2, <4>1, <4>2, SubUnfold
    <3>. QED BY <3>1, <3>2
  <2>. QED BY <2>1
<1>2. Equation(below)
  <2>1. below = CHOOSE f : Equation(f) BY Zenon
  <2>. HIDE DEF Equation, below
  <2>. QED BY <1>1, <2>1, Zenon
<1>3. \A b \in Places(node) :
        below[b] = IF b = NULL THEN {}
                   ELSE {b} \cup below[node[b].left] \cup below[node[b].right]
  <2>. HIDE DEF below
  <2>. QED BY Zenon, <1>2
<1>4. Nodes(node, a) = below[a] BY DEF Nodes
<1>. HIDE DEF below, Equation
<1>. DEFINE T == {b \in S : below[b] # Sub(node, b)}
<1>5. S \subseteq Places(node) /\ a \in S
  BY SubIn, SubSelf DEF Places
<1>6. ASSUME T # {} PROVE FALSE
  <2>1. T \subseteq Places(node) BY <1>5
  <2>2. PICK b \in T : \A c \in T : delta(node, b) <= delta(node, c)
    <3>. HIDE DEF T
    <3>. QED BY <1>6, <2>1, ShallowestOf
  <2>3. b # NULL BY Zenon, <1>3, <1>5, SubNull
  <2>4. b \in DOMAIN node /\ b \in Sub(node, a) BY <2>1, <2>3, SubIn
  <2>5. /\ node[b].left \in S /\ node[b].right \in S
    BY <2>4, SubClosed DEF Closed
  <2>6. /\ delta(node, node[b].left) < delta(node, b)
        /\ delta(node, node[b].right) < delta(node, b)
    BY <2>4, Shallower DEF Leveled
  <2>7. /\ delta(node, b) \in Int /\ delta(node, node[b].left) \in Int
        /\ delta(node, node[b].right) \in Int
    BY <1>5, <2>1, <2>5, DeltaIs
  <2>8. /\ ~(delta(node, b) <= delta(node, node[b].left))
        /\ ~(delta(node, b) <= delta(node, node[b].right))
    BY <2>6, <2>7
  <2>9. node[b].left \notin T /\ node[b].right \notin T BY <2>2, <2>8
  <2>10. /\ below[node[b].left] = Sub(node, node[b].left)
         /\ below[node[b].right] = Sub(node, node[b].right)
    BY <2>5, <2>9
  <2>11. below[b] = Sub(node, b)
    BY <1>3, <2>1, <2>3, <2>4, <2>10, SubUnfold
  <2>. QED BY <2>11
<1>. QED BY <1>4, <1>5, <1>6

(* The depths that the nodes hold are the heights of their trees. *)
LEMMA HeightIs ==
  ASSUME NEW node, Graph(node), Leveled(node, DOMAIN node),
         NEW a \in Places(node)
  PROVE  Height(node, a) = delta(node, a)
<1>. DEFINE Equation(f) == f = [b \in Places(node) |->
              IF b = NULL THEN -1
              ELSE LET l == f[node[b].left]  r == f[node[b].right]
                   IN  1 + (IF l > r THEN l ELSE r)]
            height[b \in Places(node)] ==
              IF b = NULL THEN -1
              ELSE LET l == height[node[b].left]  r == height[node[b].right]
                   IN  1 + (IF l > r THEN l ELSE r)
<1>0. ASSUME NEW b \in DOMAIN node
      PROVE  LET l == delta(node, node[b].left)
                 r == delta(node, node[b].right)
             IN  delta(node, b) = 1 + (IF l > r THEN l ELSE r)
  <2>1. LET dl == delta(node, node[b].left)
            dr == delta(node, node[b].right)
            d  == delta(node, b)
        IN  /\ dl \in Int /\ dr \in Int
            /\ \/ dl = dr /\ d = dl + 1
               \/ dl = dr + 1 /\ d = dl + 1
               \/ dr = dl + 1 /\ d = dr + 1
    BY LevelIs DEF Leveled
  <2>. QED BY <2>1
<1>1. Equation([b \in Places(node) |-> delta(node, b)])
  <2>. DEFINE f == [b \in Places(node) |-> delta(node, b)]
  <2>1. ASSUME NEW b \in Places(node)
        PROVE  delta(node, b) = IF b = NULL THEN -1
                 ELSE LET l == f[node[b].left]  r == f[node[b].right]
                      IN  1 + (IF l > r THEN l ELSE r)
    <3>1. CASE b = NULL BY <3>1 DEF delta
    <3>2. CASE b # NULL
      <4>1. b \in DOMAIN node BY <3>2 DEF Places
      <4>2. node[b].left \in Places(node) /\ node[b].right \in Places(node)
        BY <4>1, GraphIs
      <4>3. /\ f[node[b].left] = delta(node, node[b].left)
            /\ f[node[b].right] = delta(node, node[b].right)
        BY <4>2
      <4>. HIDE DEF f
      <4>. QED BY <1>0, <3>2, <4>1, <4>3
    <3>. QED BY <3>1, <3>2
  <2>. QED BY <2>1
<1>2. Equation(height)
  <2>1. height = CHOOSE f : Equation(f) BY ZenonT(60) 
  <2>. HIDE DEF Equation, height
  <2>. QED BY <1>1, <2>1, Zenon
<1>3. \A b \in Places(node) :
        height[b] = IF b = NULL THEN -1
                    ELSE LET l == height[node[b].left]
                             r == height[node[b].right]
                         IN  1 + (IF l > r THEN l ELSE r)
  <2>. HIDE DEF height
  <2>. QED BY <1>2
<1>4. Height(node, a) = height[a] BY DEF Height
<1>. HIDE DEF height, Equation
<1>. DEFINE T == {b \in Places(node) : height[b] # delta(node, b)}
<1>6. ASSUME T # {} PROVE FALSE
  <2>1. T \subseteq Places(node) OBVIOUS
  <2>2. PICK b \in T : \A c \in T : delta(node, b) <= delta(node, c)
    <3>. HIDE DEF T
    <3>. QED BY <1>6, <2>1, ShallowestOf
  <2>3. b # NULL BY <1>3 DEF delta
  <2>4. b \in DOMAIN node BY <2>1, <2>3 DEF Places
  <2>5. node[b].left \in Places(node) /\ node[b].right \in Places(node)
    BY <2>4, GraphIs
  <2>6. /\ delta(node, node[b].left) < delta(node, b)
        /\ delta(node, node[b].right) < delta(node, b)
    BY <2>4, Shallower DEF Leveled
  <2>7. /\ delta(node, b) \in Int /\ delta(node, node[b].left) \in Int
        /\ delta(node, node[b].right) \in Int
    BY <2>1, <2>5, DeltaIs
  <2>8. /\ ~(delta(node, b) <= delta(node, node[b].left))
        /\ ~(delta(node, b) <= delta(node, node[b].right))
    BY <2>6, <2>7
  <2>9. node[b].left \notin T /\ node[b].right \notin T BY <2>2, <2>8
  <2>10. /\ height[node[b].left] = delta(node, node[b].left)
         /\ height[node[b].right] = delta(node, node[b].right)
    BY <2>5, <2>9
  <2>11. height[b] = delta(node, b)
    BY <1>0, <1>3, <2>1, <2>3, <2>4, <2>10
  <2>. QED BY <2>11
<1>. QED BY <1>4, <1>6

-----------------------------------------------------------------------------
(* Trees of some depth *)

(* Nodes of which none is deeper than some number. *)
Shallow(node) ==
  /\ Graph(node) /\ Leveled(node, DOMAIN node)
  /\ \E n \in Nat : \A a \in Places(node) : delta(node, a) < n

LEMMA ShallowIs ==
  ASSUME NEW node, Graph(node), Leveled(node, DOMAIN node),
         NEW root \in Places(node), DOMAIN node = Sub(node, root)
  PROVE  Shallow(node)
<1>1. CASE root = NULL
  <2>1. \A a \in Places(node) : delta(node, a) = -1
    BY <1>1, SubNull DEF Places, delta
  <2>. QED BY <2>1 DEF Shallow
<1>2. CASE root # NULL
  <2>1. root \in DOMAIN node BY <1>2 DEF Places
  <2>2. delta(node, root) \in Int /\ delta(node, root) >= 0
    BY <1>2, DeltaIs
  <2>3. \A a \in DOMAIN node : delta(node, a) <= delta(node, root)
    BY <2>1, Bounded
  <2>4. \A a \in Places(node) : delta(node, a) \in Int BY DeltaIs
  <2>5. \A a \in Places(node) : delta(node, a) < delta(node, root) + 1
    BY <2>2, <2>3, <2>4 DEF Places, delta
  <2>6. delta(node, root) + 1 \in Nat BY <2>2
  <2>. QED BY <2>5, <2>6 DEF Shallow
<1>. QED BY <1>1, <1>2

LEMMA GoesDown ==
  ASSUME NEW node, Shallow(node), NEW b \in DOMAIN node,
         NEW c \in {node[b].left, node[b].right}
  PROVE  /\ c \in Places(node) /\ delta(node, c) < delta(node, b)
         /\ delta(node, c) \in Int /\ delta(node, b) \in Int
<1>1. c \in Places(node) /\ b \in Places(node) BY GraphIs DEF Shallow, Places
<1>2. delta(node, c) < delta(node, b) BY Shallower DEF Shallow, Leveled
<1>. QED BY <1>1, <1>2, DeltaIs DEF Shallow

(* A search that stops in E has a value, that of the node where it stops.  *)
LEMMA DescentIs ==
  ASSUME NEW node, Shallow(node), NEW E, NULL \in E, NEW v, NEW p,
         \A b \in DOMAIN node : p[b] \in {node[b].left, node[b].right}
  PROVE  \E f : f = [a \in Places(node) |-> IF a \in E THEN v[a] ELSE f[p[a]]]
<1>. DEFINE P == Places(node)
            B(f, a) == IF a \in E THEN v[a] ELSE f[p[a]]
            Good(f, n) == /\ f = [a \in P |-> f[a]]
                          /\ \A a \in P : delta(node, a) < n => f[a] = B(f, a)
            T == {n \in Nat : ~ \E f : Good(f, n)}
<1>1. ASSUME T # {} PROVE FALSE
  <2>1. PICK n \in T : \A k \in T : n <= k BY Zenon, <1>1, LeastOf
  <2>2. CASE n = 0
    <3>. DEFINE f == [a \in P |-> v[a]]
    <3>1. \A a \in P : delta(node, a) < 0 => a = NULL
      BY DeltaIs DEF Shallow
    <3>2. \A a \in P : delta(node, a) < n => f[a] = B(f, a)
      BY <2>2, <3>1
    <3>. QED BY Zenon, <3>2
  <2>3. CASE n # 0
    <3>1. n - 1 \in Nat /\ ~(n <= n - 1) BY <2>3
    <3>2. PICK f : Good(f, n - 1)
      <4>1. n - 1 \notin T BY <2>1, <3>1
      <4>. HIDE DEF Good
      <4>. QED BY <3>1, <4>1
    <3>. DEFINE g == [a \in P |-> B(f, a)]
    <3>3. ASSUME NEW a \in P, delta(node, a) < n PROVE g[a] = B(g, a)
      <4>1. CASE a \in E BY <4>1
      <4>2. CASE a \notin E
        <5>1. a \in DOMAIN node BY <4>2 DEF Places
        <5>2. /\ p[a] \in P /\ delta(node, p[a]) < delta(node, a)
              /\ delta(node, p[a]) \in Int /\ delta(node, a) \in Int
          BY <5>1, GoesDown
        <5>3. delta(node, p[a]) < n - 1 BY <3>3, <5>2
        <5>4. f[p[a]] = B(f, p[a]) BY <3>2, <5>2, <5>3
        <5>5. g[p[a]] = B(f, p[a]) BY <5>2
        <5>6. g[a] = f[p[a]] /\ B(g, a) = g[p[a]] BY <4>2
        <5>. QED BY <5>4, <5>5, <5>6
      <4>. QED BY <4>1, <4>2
    <3>4. g = [a \in P |-> g[a]] OBVIOUS
    <3>5. Good(g, n)
      <4>. HIDE DEF g, B
      <4>. QED BY <3>3, <3>4
    <3>. HIDE DEF Good
    <3>. QED BY <3>5
  <2>. QED BY <2>2, <2>3
<1>2. PICK n \in Nat : \A a \in P : delta(node, a) < n BY DEF Shallow
<1>3. PICK f : Good(f, n)
  <2>. HIDE DEF Good
  <2>. QED BY <1>1
<1>4. \A a \in P : f[a] = B(f, a) BY <1>2, <1>3
<1>5. f = [a \in P |-> f[a]] BY <1>3
<1>6. f = [a \in P |-> B(f, a)]
  <2>. HIDE DEF B, P, Good
  <2>. QED BY <1>4, <1>5
<1>. QED BY <1>6

(* An insertion, step by step. *)
LEMMA UpdateSteps ==
  ASSUME NEW mem, Shallow(mem.node), NEW w, NEW a \in Places(mem.node)
  PROVE  update(mem, a, w) =
           IF a = NULL THEN NewNode(mem, w)
           ELSE IF w = Item(mem, a) THEN At(Counted(mem, a), a)
           ELSE Inserted(mem, a, w, update(mem, Toward(mem, a, w), w))
<1>. DEFINE P == Places(mem.node)
            B(f, b) == IF b = NULL THEN NewNode(mem, w)
                       ELSE IF w = Item(mem, b) THEN At(Counted(mem, b), b)
                       ELSE Inserted(mem, b, w, f[Toward(mem, b, w)])
            Good(f, n) == /\ f = [b \in P |-> f[b]]
                          /\ \A b \in P : delta(mem.node, b) < n => f[b] = B(f, b)
            T == {n \in Nat : ~ \E f : Good(f, n)}
            Equation(f) == f = [b \in P |-> B(f, b)]
            new[b \in P] == B(new, b)
<1>1. ASSUME NEW b \in P, b # NULL
      PROVE  LET c == Toward(mem, b, w)
             IN  /\ c \in P /\ delta(mem.node, c) < delta(mem.node, b)
                 /\ delta(mem.node, c) \in Int /\ delta(mem.node, b) \in Int
  <2>1. b \in DOMAIN mem.node BY <1>1 DEF Places
  <2>2. Toward(mem, b, w) \in {mem.node[b].left, mem.node[b].right} BY DEF Toward
  <2>. QED BY <2>1, <2>2, GoesDown
<1>2. ASSUME T # {} PROVE FALSE
  <2>1. PICK n \in T : \A k \in T : n <= k BY Zenon, <1>2, LeastOf
  <2>2. CASE n = 0
    <3>. DEFINE f == [b \in P |-> NewNode(mem, w)]
    <3>1. \A b \in P : delta(mem.node, b) < 0 => b = NULL
      BY DeltaIs DEF Shallow
    <3>2. \A b \in P : delta(mem.node, b) < n => f[b] = B(f, b)
      BY <2>2, <3>1
    <3>. QED BY <3>2
  <2>3. CASE n # 0
    <3>1. n - 1 \in Nat /\ ~(n <= n - 1) BY <2>3
    <3>2. PICK f : Good(f, n - 1)
      <4>1. n - 1 \notin T BY <2>1, <3>1
      <4>. HIDE DEF Good
      <4>. QED BY <3>1, <4>1
    <3>. DEFINE g == [b \in P |-> B(f, b)]
    <3>3. ASSUME NEW b \in P, delta(mem.node, b) < n PROVE g[b] = B(g, b)
      <4>1. CASE b = NULL BY <4>1
      <4>2. CASE b # NULL
        <5>. DEFINE c == Toward(mem, b, w)
        <5>1. /\ c \in P /\ delta(mem.node, c) < delta(mem.node, b)
              /\ delta(mem.node, c) \in Int /\ delta(mem.node, b) \in Int
          BY <1>1, <4>2
        <5>2. delta(mem.node, c) < n - 1 BY <3>3, <5>1
        <5>3. f[c] = B(f, c)
          <6>. HIDE DEF B, c
          <6>. QED BY <3>2, <5>1, <5>2
        <5>4. g[c] = B(f, c) BY <5>1
        <5>5. B(g, b) = B(f, b)
          <6>1. g[c] = f[c] BY <5>3, <5>4
          <6>. HIDE DEF g
          <6>. QED BY <6>1
        <5>6. g[b] = B(f, b) OBVIOUS
        <5>. QED BY <5>5, <5>6
      <4>. QED BY <4>1, <4>2
    <3>4. g = [b \in P |-> g[b]] OBVIOUS
    <3>5. Good(g, n)
      <4>. HIDE DEF g, B
      <4>. QED BY <3>3, <3>4
    <3>. HIDE DEF Good
    <3>. QED BY <3>5
  <2>. QED BY <2>2, <2>3
<1>3. PICK n \in Nat : \A b \in P : delta(mem.node, b) < n BY DEF Shallow
<1>4. PICK f : Good(f, n)
  <2>. HIDE DEF Good
  <2>. QED BY <1>2
<1>5. Equation(f)
  <2>. HIDE DEF B
  <2>1. \A b \in P : f[b] = B(f, b) BY <1>3, <1>4
  <2>2. f = [b \in P |-> f[b]] BY <1>4
  <2>. HIDE DEF P
  <2>. QED BY <2>1, <2>2
<1>6. Equation(new)
  <2>1. new = CHOOSE g : Equation(g) BY Zenon
  <2>. HIDE DEF Equation, new
  <2>. QED BY <1>5, <2>1, Zenon
<1>7. \A b : update(mem, b, w) = new[b] BY Zenon DEF update
<1>8. new[a] = B(new, a)
  <2>. HIDE DEF new, B
  <2>. QED BY <1>6
<1>. HIDE DEF new
<1>9. B(new, a) = IF a = NULL THEN NewNode(mem, w)
                  ELSE IF w = Item(mem, a) THEN At(Counted(mem, a), a)
                  ELSE Inserted(mem, a, w, update(mem, Toward(mem, a, w), w))
  BY <1>7
<1>. HIDE DEF B
<1>. QED BY <1>7, <1>8, <1>9

(* A removal, step by step. *)
LEMMA RemoveSteps ==
  ASSUME NEW mem, Shallow(mem.node), NEW w, NEW found, NEW a \in Places(mem.node)
  PROVE  RemoveIn(mem, a, w, found) =
           IF a = NULL THEN At(mem, NULL)
           ELSE IF w = Item(mem, a) THEN found[a]
           ELSE Removed(mem, a, w, RemoveIn(mem, Toward(mem, a, w), w, found))
<1>. DEFINE P == Places(mem.node)
            B(f, b) == IF b = NULL THEN At(mem, NULL)
                       ELSE IF w = Item(mem, b) THEN found[b]
                       ELSE Removed(mem, b, w, f[Toward(mem, b, w)])
            Good(f, n) == /\ f = [b \in P |-> f[b]]
                          /\ \A b \in P : delta(mem.node, b) < n => f[b] = B(f, b)
            T == {n \in Nat : ~ \E f : Good(f, n)}
            Equation(f) == f = [b \in P |-> B(f, b)]
            new[b \in P] == B(new, b)
<1>1. ASSUME NEW b \in P, b # NULL
      PROVE  LET c == Toward(mem, b, w)
             IN  /\ c \in P /\ delta(mem.node, c) < delta(mem.node, b)
                 /\ delta(mem.node, c) \in Int /\ delta(mem.node, b) \in Int
  <2>1. b \in DOMAIN mem.node BY <1>1 DEF Places
  <2>2. Toward(mem, b, w) \in {mem.node[b].left, mem.node[b].right} BY DEF Toward
  <2>. QED BY <2>1, <2>2, GoesDown
<1>2. ASSUME T # {} PROVE FALSE
  <2>1. PICK n \in T : \A k \in T : n <= k BY Zenon, <1>2, LeastOf
  <2>2. CASE n = 0
    <3>. DEFINE f == [b \in P |-> At(mem, NULL)]
    <3>1. \A b \in P : delta(mem.node, b) < 0 => b = NULL
      BY DeltaIs DEF Shallow
    <3>2. \A b \in P : delta(mem.node, b) < n => f[b] = B(f, b)
      BY <2>2, <3>1
    <3>. QED BY <3>2
  <2>3. CASE n # 0
    <3>1. n - 1 \in Nat /\ ~(n <= n - 1) BY <2>3
    <3>2. PICK f : Good(f, n - 1)
      <4>1. n - 1 \notin T BY <2>1, <3>1
      <4>. HIDE DEF Good
      <4>. QED BY <3>1, <4>1
    <3>. DEFINE g == [b \in P |-> B(f, b)]
    <3>3. ASSUME NEW b \in P, delta(mem.node, b) < n PROVE g[b] = B(g, b)
      <4>1. CASE b = NULL BY <4>1
      <4>2. CASE b # NULL
        <5>. DEFINE c == Toward(mem, b, w)
        <5>1. /\ c \in P /\ delta(mem.node, c) < delta(mem.node, b)
              /\ delta(mem.node, c) \in Int /\ delta(mem.node, b) \in Int
          BY <1>1, <4>2
        <5>2. delta(mem.node, c) < n - 1 BY <3>3, <5>1
        <5>3. f[c] = B(f, c)
          <6>. HIDE DEF B, c
          <6>. QED BY <3>2, <5>1, <5>2
        <5>4. g[c] = B(f, c) BY <5>1
        <5>5. B(g, b) = B(f, b)
          <6>1. g[c] = f[c] BY <5>3, <5>4
          <6>. HIDE DEF g
          <6>. QED BY <6>1
        <5>6. g[b] = B(f, b) OBVIOUS
        <5>. QED BY <5>5, <5>6
      <4>. QED BY <4>1, <4>2
    <3>4. g = [b \in P |-> g[b]] OBVIOUS
    <3>5. Good(g, n)
      <4>. HIDE DEF g, B
      <4>. QED BY <3>3, <3>4
    <3>. HIDE DEF Good
    <3>. QED BY <3>5
  <2>. QED BY <2>2, <2>3
<1>3. PICK n \in Nat : \A b \in P : delta(mem.node, b) < n BY DEF Shallow
<1>4. PICK f : Good(f, n)
  <2>. HIDE DEF Good
  <2>. QED BY <1>2
<1>5. Equation(f)
  <2>. HIDE DEF B
  <2>1. \A b \in P : f[b] = B(f, b) BY <1>3, <1>4
  <2>2. f = [b \in P |-> f[b]] BY <1>4
  <2>. HIDE DEF P
  <2>. QED BY <2>1, <2>2
<1>6. Equation(new)
  <2>1. new = CHOOSE g : Equation(g) BY Zenon
  <2>. HIDE DEF Equation, new
  <2>. QED BY <1>5, <2>1, Zenon
<1>7. \A b : RemoveIn(mem, b, w, found) = new[b] BY Zenon DEF RemoveIn
<1>8. new[a] = B(new, a)
  <2>. HIDE DEF new, B
  <2>. QED BY <1>6
<1>. HIDE DEF new
<1>9. B(new, a) = IF a = NULL THEN At(mem, NULL)
                  ELSE IF w = Item(mem, a) THEN found[a]
                  ELSE Removed(mem, a, w, RemoveIn(mem, Toward(mem, a, w), w, found))
  BY <1>7
<1>. HIDE DEF B
<1>. QED BY <1>7, <1>8, <1>9

LEMMA ItemIsKey ==
  ASSUME NEW mem, NEW a PROVE Item(mem, a) = Key(mem.node, mem.word, a)
BY DEF Item, Key

(* Where the node of a word is. *)
LEMMA FoundBelow ==
  ASSUME NEW node, Graph(node), NEW word, NEW a \in DOMAIN node,
         AVL(node, word, a), Spelt(node, word, Sub(node, a)),
         NEW b \in Sub(node, a)
  PROVE  /\ Key(node, word, a) \in Nat /\ Key(node, word, b) \in Nat
         /\ Key(node, word, b) = Key(node, word, a) => b = a
         /\ Key(node, word, b) < Key(node, word, a)
              => b \in Sub(node, node[a].left)
         /\ Key(node, word, b) > Key(node, word, a)
              => b \in Sub(node, node[a].right)
<1>1. /\ Sub(node, a) = {a} \cup Sub(node, node[a].left)
                            \cup Sub(node, node[a].right)
      /\ a \in Sub(node, a)
  BY SubUnfold, SubSelf
<1>2. Ordered(node, word, a) BY AVLOpen
<1>3. Key(node, word, a) \in Nat /\ Key(node, word, b) \in Nat
  BY <1>1 DEF Spelt
<1>4. /\ b \in Sub(node, node[a].left) => Key(node, word, b) < Key(node, word, a)
      /\ b \in Sub(node, node[a].right) => Key(node, word, a) < Key(node, word, b)
  BY <1>2 DEF Ordered
<1>5. \/ b = a \/ b \in Sub(node, node[a].left) \/ b \in Sub(node, node[a].right)
  BY <1>1
<1>. QED BY <1>3, <1>4, <1>5

(* A tree in the memory, in which each word is in one node. *)
Tree(mem, a) ==
  /\ a \in Places(mem.node) /\ AVL(mem.node, mem.word, a)
  /\ Spelt(mem.node, mem.word, Sub(mem.node, a))

LEMMA TreeOpen ==
  ASSUME NEW mem, Graph(mem.node), NEW a \in DOMAIN mem.node, Tree(mem, a)
  PROVE  /\ Tree(mem, mem.node[a].left) /\ Tree(mem, mem.node[a].right)
         /\ Sub(mem.node, mem.node[a].left) \subseteq Sub(mem.node, a)
         /\ Sub(mem.node, mem.node[a].right) \subseteq Sub(mem.node, a)
         /\ \A w : Tree(mem, Toward(mem, a, w))
<1>. DEFINE node == mem.node
<1>1. /\ Sub(node, node[a].left) \subseteq Sub(node, a)
      /\ Sub(node, node[a].right) \subseteq Sub(node, a)
  BY SubSelf, SubTransitive
<1>2. node[a].left \in Places(node) /\ node[a].right \in Places(node)
  BY GraphIs
<1>3. AVL(node, mem.word, node[a].left) /\ AVL(node, mem.word, node[a].right)
  BY AVLOpen DEF Tree
<1>4. Tree(mem, mem.node[a].left) /\ Tree(mem, mem.node[a].right)
  BY <1>1, <1>2, <1>3 DEF Tree, Spelt
<1>5. \A w : Tree(mem, Toward(mem, a, w)) BY <1>4 DEF Toward
<1>. QED BY <1>1, <1>4, <1>5

(* The node of w, if there is one, is below a where a search goes on. *)
LEMMA TowardIs ==
  ASSUME NEW mem, Graph(mem.node), NEW a \in DOMAIN mem.node, Tree(mem, a),
         NEW b \in Sub(mem.node, a), NEW w, Item(mem, b) = w, w # Item(mem, a)
  PROVE  b \in Sub(mem.node, Toward(mem, a, w))
<1>. DEFINE ka == Key(mem.node, mem.word, a)
            kb == Key(mem.node, mem.word, b)
<1>1. /\ ka \in Nat /\ kb \in Nat
      /\ kb < ka => b \in Sub(mem.node, mem.node[a].left)
      /\ kb > ka => b \in Sub(mem.node, mem.node[a].right)
  BY FoundBelow DEF Tree
<1>2. Item(mem, a) = ka /\ w = kb BY ItemIsKey
<1>3. Toward(mem, a, w) = IF kb < ka THEN mem.node[a].left ELSE mem.node[a].right
  BY <1>2 DEF Toward
<1>. HIDE DEF ka, kb
<1>4. kb < ka \/ kb > ka BY <1>1, <1>2
<1>. QED BY <1>1, <1>3, <1>4

(* avl_exists() finds how often the word was inserted. *)
LEMMA ExistsIs ==
  ASSUME NEW mem, Shallow(mem.node), Tree(mem, mem.root), NEW w
  PROVE  /\ \A b \in Sub(mem.node, mem.root) :
              Item(mem, b) = w => avl_exists(mem, w) = mem.node[b].count
         /\ (\A b \in Sub(mem.node, mem.root) : Item(mem, b) # w)
              => avl_exists(mem, w) = 0
<1>. DEFINE P == Places(mem.node)
            E == {a \in P : a = NULL \/ w = Item(mem, a)}
            v == [a \in P |-> IF a = NULL THEN 0 ELSE mem.node[a].count]
            p == [a \in DOMAIN mem.node |-> Toward(mem, a, w)]
            Equation(f) == f = [a \in P |->
              IF a = NULL THEN 0
              ELSE IF w = Item(mem, a) THEN mem.node[a].count
              ELSE f[Toward(mem, a, w)]]
            count[a \in P] == IF a = NULL THEN 0
              ELSE IF w = Item(mem, a) THEN mem.node[a].count
              ELSE count[Toward(mem, a, w)]
<1>1. \E f : f = [a \in P |-> IF a \in E THEN v[a] ELSE f[p[a]]]
  <2>1. NULL \in E BY DEF Places
  <2>2. \A b \in DOMAIN mem.node :
          p[b] \in {mem.node[b].left, mem.node[b].right}
    BY DEF Toward
  <2>. HIDE DEF E, v, p
  <2>. QED BY <2>1, <2>2, DescentIs
<1>2. PICK f : f = [a \in P |-> IF a \in E THEN v[a] ELSE f[p[a]]] BY <1>1
<1>3. Equation(f)
  <2>1. ASSUME NEW a \in P
        PROVE  (IF a \in E THEN v[a] ELSE f[p[a]]) =
                 IF a = NULL THEN 0
                 ELSE IF w = Item(mem, a) THEN mem.node[a].count
                 ELSE f[Toward(mem, a, w)]
    BY DEF Places
  <2>2. [a \in P |-> IF a \in E THEN v[a] ELSE f[p[a]]] =
          [a \in P |-> IF a = NULL THEN 0
                       ELSE IF w = Item(mem, a) THEN mem.node[a].count
                       ELSE f[Toward(mem, a, w)]]
    <3>. HIDE DEF P, E, v, p
    <3>. QED BY <2>1
  <2>. QED BY Zenon, <1>2, <2>2
<1>4. Equation(count)
  <2>1. count = CHOOSE g : Equation(g) BY Zenon
  <2>. HIDE DEF Equation, count
  <2>. QED BY <1>3, <2>1, Zenon
<1>5. \A a \in P : count[a] = IF a = NULL THEN 0
                ELSE IF w = Item(mem, a) THEN mem.node[a].count
                ELSE count[Toward(mem, a, w)]
  <2>. HIDE DEF count
  <2>. QED BY <1>4
<1>6. avl_exists(mem, w) = count[mem.root] BY Zenon DEF avl_exists
<1>. HIDE DEF count, Equation
<1>. DEFINE Says(a) ==
       /\ \A b \in Sub(mem.node, a) :
            Item(mem, b) = w => count[a] = mem.node[b].count
       /\ (\A b \in Sub(mem.node, a) : Item(mem, b) # w) => count[a] = 0
            T == {a \in P : Tree(mem, a) /\ ~Says(a)}
<1>7. Graph(mem.node) BY DEF Shallow
<1>8. ASSUME T # {} PROVE FALSE
  <2>1. T \subseteq P OBVIOUS
  <2>2. PICK a \in T : \A c \in T : delta(mem.node, a) <= delta(mem.node, c)
    <3>. HIDE DEF T
    <3>. QED BY <1>7, <1>8, <2>1, ShallowestOf
  <2>3. a # NULL BY <1>5, <2>2, SubNull
  <2>4. a \in DOMAIN mem.node /\ Tree(mem, a) BY <2>3 DEF Places
  <2>. DEFINE c == Toward(mem, a, w)
  <2>5. CASE w = Item(mem, a)
    <3>1. count[a] = mem.node[a].count BY <1>5, <2>1, <2>3, <2>5
    <3>2. \A b \in Sub(mem.node, a) : Item(mem, b) = w => b = a
      BY <1>7, <2>4, <2>5, FoundBelow, ItemIsKey DEF Tree
    <3>3. a \in Sub(mem.node, a) BY <1>7, <2>4, SubSelf
    <3>4. Says(a) BY <2>5, <3>1, <3>2, <3>3
    <3>. QED BY <3>4
  <2>6. CASE w # Item(mem, a)
    <3>1. count[a] = count[c] BY <1>5, <2>1, <2>3, <2>6
    <3>2. /\ c \in P /\ delta(mem.node, c) < delta(mem.node, a)
          /\ delta(mem.node, c) \in Int /\ delta(mem.node, a) \in Int
      <4>1. c \in {mem.node[a].left, mem.node[a].right} BY DEF Toward
      <4>. QED BY <2>4, <4>1, GoesDown
    <3>3. c \notin T
      <4>1. ~(delta(mem.node, a) <= delta(mem.node, c)) BY <3>2
      <4>. QED BY <2>2, <4>1
    <3>4. Tree(mem, c) BY <1>7, <2>4, TreeOpen
    <3>5. Says(c) BY <3>2, <3>3, <3>4
    <3>6. Sub(mem.node, c) \subseteq Sub(mem.node, a)
      BY <1>7, <2>4, TreeOpen DEF Toward
    <3>7. \A b \in Sub(mem.node, a) : Item(mem, b) = w => b \in Sub(mem.node, c)
      BY <1>7, <2>4, <2>6, TowardIs
    <3>. HIDE DEF c
    <3>8. Says(a) BY <3>1, <3>5, <3>6, <3>7
    <3>. QED BY <3>8
  <2>. QED BY <2>5, <2>6
<1>9. Says(mem.root)
  <2>1. mem.root \in P BY DEF Tree
  <2>. HIDE DEF Says
  <2>. QED BY <1>8, <2>1
<1>. QED BY <1>6, <1>9

-----------------------------------------------------------------------------
(* The memory *)

(* The fields of the memory. *)
IsMem(mem) ==
  mem = [scm |-> mem.scm, end |-> mem.end, node |-> mem.node,
         word |-> mem.word, root |-> mem.root, items |-> mem.items,
         unique |-> mem.unique]

SetNode(mem, g) == [mem EXCEPT !.node = g]

LEMMA SetNodeIs ==
  ASSUME NEW mem, IsMem(mem), NEW g
  PROVE  LET x == SetNode(mem, g)
         IN  /\ IsMem(x) /\ x.node = g /\ x.scm = mem.scm /\ x.end = mem.end
             /\ x.word = mem.word /\ x.root = mem.root
             /\ x.items = mem.items /\ x.unique = mem.unique
             /\ SetNode(mem, mem.node) = mem
             /\ \A h : SetNode(x, h) = SetNode(mem, h)
<1>1. \A h : SetNode(mem, h) =
        [scm |-> mem.scm, end |-> mem.end, node |-> h,
         word |-> mem.word, root |-> mem.root, items |-> mem.items,
         unique |-> mem.unique]
  BY DEF SetNode, IsMem
<1>2. \A h : SetNode(SetNode(mem, g), h) =
        [scm |-> mem.scm, end |-> mem.end, node |-> h,
         word |-> mem.word, root |-> mem.root, items |-> mem.items,
         unique |-> mem.unique]
  BY Zenon, <1>1 DEF SetNode
<1>3. SetNode(mem, mem.node) = mem BY <1>1 DEF IsMem
<1>. QED BY <1>1, <1>2, <1>3 DEF IsMem

LEMMA SetLeftSame ==
  ASSUME NEW node, Graph(node), NEW a \in DOMAIN node
  PROVE  /\ SetLeft(node, a, node[a].left) = node
         /\ SetRight(node, a, node[a].right) = node
<1>1. /\ [node[a] EXCEPT !.left = node[a].left] = node[a]
      /\ [node[a] EXCEPT !.right = node[a].right] = node[a]
  BY GraphIs DEF Node
<1>2. node = [b \in DOMAIN node |-> node[b]] BY DEF Graph
<1>3. /\ SetLeft(node, a, node[a].left) = [node EXCEPT ![a] = node[a]]
      /\ SetRight(node, a, node[a].right) = [node EXCEPT ![a] = node[a]]
  BY Zenon, <1>1 DEF SetLeft, SetRight
<1>. QED BY <1>2, <1>3

(* On the way up nothing changes where the node below stays. *)
LEMMA Stays ==
  ASSUME NEW mem, NEW x, IsMem(x), Graph(x.node), NEW a \in DOMAIN x.node,
         Level(x.node, a), NEW w, NEW c,
         c = IF w < Item(mem, a) THEN x.node[a].left ELSE x.node[a].right
  PROVE  /\ Inserted(mem, a, w, At(x, c)) = At(x, a)
         /\ Removed(mem, a, w, At(x, c)) = At(x, a)
<1>. DEFINE left == w < Item(mem, a)
            sub == At(x, c)
            put == IF left THEN [sub.mem.node EXCEPT ![a].left = sub.root]
                           ELSE [sub.mem.node EXCEPT ![a].right = sub.root]
<1>1. sub.mem = x /\ sub.root = c BY DEF At
<1>. HIDE DEF sub
<1>2. put = x.node
  <2>1. CASE left
    <3>1. put = SetLeft(x.node, a, x.node[a].left) BY <1>1, <2>1 DEF SetLeft
    <3>. QED BY <3>1, SetLeftSame
  <2>2. CASE ~left
    <3>1. put = SetRight(x.node, a, x.node[a].right) BY <1>1, <2>2 DEF SetRight
    <3>. QED BY <3>1, SetLeftSame
  <2>. QED BY <2>1, <2>2
<1>3. balance(x.node, a) \in -1 .. 1 BY DEF Level
<1>4. SetDepth(x.node, a) = x.node BY SetDepthSame DEF Level
<1>5. [x EXCEPT !.node = x.node] = x BY Zenon, SetNodeIs DEF SetNode
<1>6. Inserted(mem, a, w, sub) = At(x, a)
  <2>. DEFINE new == IF abs(balance(put, a)) <= 1 THEN Top(put, a)
              ELSE IF left
              THEN IF w < Item(sub.mem, sub.root)
                   THEN rotate_right(put, a) ELSE rotate_left_right(put, a)
              ELSE IF w > Item(sub.mem, sub.root)
                   THEN rotate_left(put, a) ELSE rotate_right_left(put, a)
  <2>1. Inserted(mem, a, w, sub) =
          At([sub.mem EXCEPT !.node = SetDepth(new.node, new.root)], new.root)
    BY DEF Inserted
  <2>2. abs(balance(put, a)) <= 1 BY <1>2, <1>3 DEF abs
  <2>3. new = Top(x.node, a)
    <3>. HIDE DEF put
    <3>. QED BY <1>2, <2>2
  <2>. HIDE DEF new
  <2>4. new.node = x.node /\ new.root = a BY <2>3 DEF Top
  <2>. QED BY <1>1, <1>4, <1>5, <2>1, <2>4
<1>7. Removed(mem, a, w, sub) = At(x, a)
  <2>. DEFINE new == Rebalanced(SetDepth(put, a), a)
  <2>1. Removed(mem, a, w, sub) = At([sub.mem EXCEPT !.node = new.node], new.root)
    BY DEF Removed
  <2>2. new = Top(x.node, a)
    <3>1. SetDepth(put, a) = x.node BY <1>2, <1>4
    <3>2. ~(balance(x.node, a) > 1) /\ ~(balance(x.node, a) < -1) BY <1>3
    <3>. QED BY <3>1, <3>2 DEF Rebalanced
  <2>. HIDE DEF new
  <2>3. new.node = x.node /\ new.root = a BY <2>2 DEF Top
  <2>. QED BY <1>1, <1>5, <2>1, <2>3
<1>. QED BY <1>6, <1>7 DEF sub

-----------------------------------------------------------------------------
(* Insertion of a word that is in the tree *)

(* A node with another count, or another item. *)
SetCount(node, a, n) == [node EXCEPT ![a].count = n]

LEMMA SetCountIs ==
  ASSUME NEW node, Graph(node), NEW a \in DOMAIN node, NEW n \in Nat
  PROVE  LET x == SetCount(node, a, n)
         IN  /\ Graph(x) /\ DOMAIN x = DOMAIN node /\ x[a].count = n
             /\ \A b \in DOMAIN node :
                  /\ x[b].left = node[b].left /\ x[b].right = node[b].right
                  /\ x[b].depth = node[b].depth /\ x[b].item = node[b].item
                  /\ b # a => x[b] = node[b]
<1>. DEFINE x == SetCount(node, a, n)
            z == [depth |-> node[a].depth, count |-> n, item |-> node[a].item,
                  left |-> node[a].left, right |-> node[a].right]
<1>1. [node[a] EXCEPT !.count = n] = z BY GraphIs DEF Node
<1>2. x = [node EXCEPT ![a] = z] BY Zenon, <1>1 DEF SetCount
<1>3. z \in Node(DOMAIN node) BY GraphIs DEF Node, Places
<1>4. /\ z.count = n /\ z.left = node[a].left /\ z.right = node[a].right
      /\ z.depth = node[a].depth /\ z.item = node[a].item
  OBVIOUS
<1>. HIDE DEF z, x
<1>5. /\ node \in [DOMAIN node -> Node(DOMAIN node)]
      /\ DOMAIN node \subseteq Nat \ {0}
  BY DEF Graph
<1>6. /\ DOMAIN x = DOMAIN node /\ x[a] = z
      /\ \A b \in DOMAIN node : b # a => x[b] = node[b]
      /\ x \in [DOMAIN node -> Node(DOMAIN node)]
  BY <1>2, <1>3, <1>5
<1>7. Graph(x) BY <1>5, <1>6 DEF Graph
<1>8. \A b \in DOMAIN node :
        /\ x[b].left = node[b].left /\ x[b].right = node[b].right
        /\ x[b].depth = node[b].depth /\ x[b].item = node[b].item
  BY <1>4, <1>6
<1>. QED BY <1>4, <1>6, <1>7, <1>8 DEF x

(* x has the children and the depths of node. *)
Alike(node, x) ==
  /\ Graph(x) /\ DOMAIN x = DOMAIN node
  /\ \A b \in DOMAIN node :
       /\ x[b].left = node[b].left /\ x[b].right = node[b].right
       /\ x[b].depth = node[b].depth

LEMMA AlikeIs ==
  ASSUME NEW node, Graph(node), NEW x, Alike(node, x)
  PROVE  /\ Graph(x) /\ DOMAIN x = DOMAIN node /\ Places(x) = Places(node)
         /\ \A a \in Places(node) : /\ Sub(x, a) = Sub(node, a)
                                    /\ delta(x, a) = delta(node, a)
         /\ \A a \in DOMAIN node :
              /\ balance(x, a) = balance(node, a)
              /\ Level(node, a) => Level(x, a)
<1>1. Graph(x) /\ DOMAIN x = DOMAIN node /\ Places(x) = Places(node)
  BY DEF Alike, Places
<1>2. \A S : Closed(x, S) <=> Closed(node, S)
  BY DEF Alike, Closed
<1>3. \A a \in Places(node) : Sub(x, a) = Sub(node, a)
  BY <1>1, <1>2 DEF Sub
<1>4. \A a \in Places(node) : delta(x, a) = delta(node, a)
  BY DEF Alike, delta, Places
<1>5. ASSUME NEW a \in DOMAIN node
      PROVE  /\ balance(x, a) = balance(node, a)
             /\ Level(node, a) => Level(x, a)
  <2>1. node[a].left \in Places(node) /\ node[a].right \in Places(node)
    BY GraphIs
  <2>2. x[a].left = node[a].left /\ x[a].right = node[a].right
        /\ x[a].depth = node[a].depth
    BY DEF Alike
  <2>3. /\ delta(x, node[a].left) = delta(node, node[a].left)
        /\ delta(x, node[a].right) = delta(node, node[a].right)
    BY <1>4, <2>1
  <2>4. balance(x, a) = balance(node, a) BY <2>2, <2>3 DEF balance
  <2>5. depth(x, node[a].left, node[a].right) =
          depth(node, node[a].left, node[a].right)
    BY <2>3 DEF depth
  <2>. QED BY <2>2, <2>4, <2>5 DEF Level
<1>. QED BY <1>1, <1>3, <1>4, <1>5

LEMMA CountedIs ==
  ASSUME NEW mem, IsMem(mem), Shallow(mem.node), NEW b \in DOMAIN mem.node
  PROVE  LET x == Counted(mem, b)
             n == mem.node[b].count + 1
         IN  /\ x = [SetNode(mem, SetCount(mem.node, b, n))
                       EXCEPT !.items = mem.items + 1]
             /\ IsMem(x) /\ x.node = SetCount(mem.node, b, n)
             /\ x.scm = mem.scm /\ x.end = mem.end /\ x.word = mem.word
             /\ x.root = mem.root /\ x.items = mem.items + 1
             /\ x.unique = mem.unique
             /\ Alike(mem.node, x.node)
             /\ \A a \in DOMAIN mem.node : Level(x.node, a)
<1>. DEFINE node == mem.node
            n == mem.node[b].count + 1
            g == SetCount(node, b, n)
            x == Counted(mem, b)
<1>1. Graph(node) /\ Leveled(node, DOMAIN node) BY DEF Shallow
<1>2. n \in Nat BY <1>1, GraphIs
<1>. HIDE DEF n
<1>3. Alike(node, g) BY <1>1, <1>2, SetCountIs DEF Alike
<1>4. \A a \in DOMAIN node : Level(g, a)
  BY <1>1, <1>3, AlikeIs DEF Leveled
<1>5. Graph(g) /\ DOMAIN g = DOMAIN node BY <1>3 DEF Alike
<1>6. SetDepth(g, b) = g BY <1>4, <1>5, SetDepthSame DEF Level
<1>7. g = [node EXCEPT ![b].count = @ + 1] BY DEF SetCount, n
<1>. HIDE DEF g
<1>8. x = [mem EXCEPT !.node = g, !.items = @ + 1]
  BY Zenon, <1>6, <1>7 DEF Counted
<1>9. x = [scm |-> mem.scm, end |-> mem.end, node |-> g,
           word |-> mem.word, root |-> mem.root, items |-> mem.items + 1,
           unique |-> mem.unique]
  BY Zenon, <1>8 DEF IsMem
<1>10. x = [SetNode(mem, g) EXCEPT !.items = mem.items + 1]
  BY <1>8 DEF IsMem, SetNode
<1>. HIDE DEF x
<1>11. IsMem(x) /\ x.node = g BY <1>9 DEF IsMem
<1>12. /\ x.scm = mem.scm /\ x.end = mem.end /\ x.word = mem.word
       /\ x.root = mem.root /\ x.items = mem.items + 1
       /\ x.unique = mem.unique
  BY <1>9
<1>. QED BY <1>3, <1>4, <1>10, <1>11, <1>12 DEF x, g, n

(* update() counts the word in its node, and turns nothing. *)
LEMMA UpdateFound ==
  ASSUME NEW mem, IsMem(mem), Shallow(mem.node), NEW w,
         NEW b \in DOMAIN mem.node, Item(mem, b) = w,
         NEW a \in Places(mem.node), Tree(mem, a), b \in Sub(mem.node, a)
  PROVE  update(mem, a, w) = At(Counted(mem, b), a)
<1>. DEFINE x == Counted(mem, b)
            P == Places(mem.node)
            T == {c \in P : /\ Tree(mem, c) /\ b \in Sub(mem.node, c)
                            /\ update(mem, c, w) # At(x, c)}
<1>1. /\ IsMem(x) /\ Alike(mem.node, x.node)
      /\ \A c \in DOMAIN mem.node : Level(x.node, c)
  BY CountedIs
<1>2. Graph(mem.node) BY DEF Shallow
<1>3. Graph(x.node) /\ DOMAIN x.node = DOMAIN mem.node BY <1>1 DEF Alike
<1>4. ASSUME T # {} PROVE FALSE
  <2>1. T \subseteq P OBVIOUS
  <2>2. PICK c \in T : \A d \in T : delta(mem.node, c) <= delta(mem.node, d)
    <3>. HIDE DEF T
    <3>. QED BY <1>2, <1>4, <2>1, ShallowestOf
  <2>3. Tree(mem, c) /\ b \in Sub(mem.node, c) /\ c \in P OBVIOUS
  <2>4. c # NULL /\ c \in DOMAIN mem.node BY <2>3, SubNull DEF Places
  <2>5. update(mem, c, w) =
          IF w = Item(mem, c) THEN At(Counted(mem, c), c)
          ELSE Inserted(mem, c, w, update(mem, Toward(mem, c, w), w))
    BY <2>3, <2>4, UpdateSteps
  <2>6. CASE w = Item(mem, c)
    <3>1. b = c BY <1>2, <2>3, <2>4, <2>6, FoundBelow, ItemIsKey DEF Tree
    <3>. QED BY <2>5, <2>6, <3>1
  <2>7. CASE w # Item(mem, c)
    <3>. DEFINE t == Toward(mem, c, w)
    <3>1. Tree(mem, t) /\ b \in Sub(mem.node, t)
      BY <1>2, <2>3, <2>4, <2>7, TreeOpen, TowardIs
    <3>2. /\ t \in P /\ delta(mem.node, t) < delta(mem.node, c)
          /\ delta(mem.node, t) \in Int /\ delta(mem.node, c) \in Int
      <4>1. t \in {mem.node[c].left, mem.node[c].right} BY DEF Toward
      <4>. QED BY <2>4, <4>1, GoesDown
    <3>3. t \notin T
      <4>1. ~(delta(mem.node, c) <= delta(mem.node, t)) BY <3>2
      <4>. QED BY <2>2, <4>1
    <3>4. update(mem, t, w) = At(x, t) BY <3>1, <3>2, <3>3
    <3>5. t = IF w < Item(mem, c) THEN x.node[c].left ELSE x.node[c].right
      BY <1>1, <2>4 DEF Toward, Alike
    <3>. HIDE DEF t, x
    <3>6. Inserted(mem, c, w, At(x, t)) = At(x, c)
      BY <1>1, <1>3, <2>4, <3>5, Stays
    <3>7. update(mem, c, w) = At(x, c) BY <2>5, <2>7, <3>4, <3>6 DEF t
    <3>. QED BY <3>7 DEF x
  <2>. QED BY <2>6, <2>7
<1>. QED BY <1>4

(* When there is no memory for it the tree stays as it is. *)
LEMMA UpdateFull ==
  ASSUME NEW mem, IsMem(mem), Shallow(mem.node), NEW w,
         NEW x, IsMem(x), NewNode(mem, w) = At(x, NULL), x.node = mem.node,
         NEW a \in Places(mem.node), Tree(mem, a),
         \A b \in Sub(mem.node, a) : Item(mem, b) # w
  PROVE  update(mem, a, w) = At(x, a)
<1>. DEFINE P == Places(mem.node)
            Lacks(c) == \A b \in Sub(mem.node, c) : Item(mem, b) # w
            T == {c \in P : /\ Tree(mem, c) /\ Lacks(c)
                            /\ update(mem, c, w) # At(x, c)}
<1>1. Graph(mem.node) /\ \A c \in DOMAIN mem.node : Level(mem.node, c)
  BY DEF Shallow, Leveled
<1>2. ASSUME T # {} PROVE FALSE
  <2>1. T \subseteq P OBVIOUS
  <2>2. PICK c \in T : \A d \in T : delta(mem.node, c) <= delta(mem.node, d)
    <3>. HIDE DEF T
    <3>. QED BY <1>1, <1>2, <2>1, ShallowestOf
  <2>3. Tree(mem, c) /\ Lacks(c) /\ c \in P OBVIOUS
  <2>4. update(mem, c, w) =
          IF c = NULL THEN NewNode(mem, w)
          ELSE IF w = Item(mem, c) THEN At(Counted(mem, c), c)
          ELSE Inserted(mem, c, w, update(mem, Toward(mem, c, w), w))
    BY <2>3, UpdateSteps
  <2>5. c # NULL /\ c \in DOMAIN mem.node BY <2>2, <2>4 DEF Places
  <2>6. w # Item(mem, c) BY <1>1, <2>3, <2>5, SubSelf
  <2>. DEFINE t == Toward(mem, c, w)
  <2>7. Tree(mem, t) /\ Lacks(t)
    <3>1. Sub(mem.node, t) \subseteq Sub(mem.node, c)
      BY <1>1, <2>3, <2>5, TreeOpen DEF Toward
    <3>. QED BY <1>1, <2>3, <2>5, <3>1, TreeOpen
  <2>8. /\ t \in P /\ delta(mem.node, t) < delta(mem.node, c)
        /\ delta(mem.node, t) \in Int /\ delta(mem.node, c) \in Int
    <3>1. t \in {mem.node[c].left, mem.node[c].right} BY DEF Toward
    <3>. QED BY <2>5, <3>1, GoesDown
  <2>9. t \notin T
    <3>1. ~(delta(mem.node, c) <= delta(mem.node, t)) BY <2>8
    <3>. QED BY <2>2, <3>1
  <2>10. update(mem, t, w) = At(x, t) BY <2>7, <2>8, <2>9
  <2>11. t = IF w < Item(mem, c) THEN x.node[c].left ELSE x.node[c].right
    BY DEF Toward
  <2>. HIDE DEF t
  <2>12. Inserted(mem, c, w, At(x, t)) = At(x, c)
    BY <1>1, <2>5, <2>11, Stays
  <2>. QED BY <2>2, <2>4, <2>5, <2>6, <2>10, <2>12 DEF t
<1>. QED BY <1>2

-----------------------------------------------------------------------------
(* Insertion of a new word *)

LeafOf(q) ==
  [depth |-> 0, count |-> 1, item |-> q, left |-> NULL, right |-> NULL]

(* n1 is node with a leaf at p, whose word w lies at q. *)
Planted(node, word, p, q, w, n1, new) ==
  /\ p \in Nat \ {0} /\ p \notin DOMAIN node /\ q \in Nat /\ w \in Nat
  /\ q \notin DOMAIN word /\ \A b \in DOMAIN node : node[b].item \in DOMAIN word
  /\ n1 = With(node, p, LeafOf(q)) /\ new = With(word, q, w)

Plants(node, word, p, q, w, n1, new) ==
  /\ Graph(n1) /\ DOMAIN n1 = DOMAIN node \cup {p} /\ n1[p] = LeafOf(q)
  /\ Places(n1) = Places(node) \cup {p} /\ p # NULL
  /\ \A b \in DOMAIN node :
       n1[b] = node[b] /\ Key(n1, new, b) = Key(node, word, b)
  /\ Key(n1, new, p) = w
  /\ \A S : S \subseteq DOMAIN node => Same(node, word, n1, new, S)

LEMMA PlantedIs ==
  ASSUME NEW node, Graph(node), NEW word, NEW p, NEW q, NEW w, NEW n1, NEW new,
         Planted(node, word, p, q, w, n1, new)
  PROVE  Plants(node, word, p, q, w, n1, new)
<1>. DEFINE leaf == LeafOf(q)
<1>1. /\ p \in Nat \ {0} /\ p \notin DOMAIN node /\ q \in Nat /\ w \in Nat
      /\ q \notin DOMAIN word
      /\ \A b \in DOMAIN node : node[b].item \in DOMAIN word
      /\ n1 = With(node, p, leaf) /\ new = With(word, q, w)
  BY DEF Planted
<1>2. /\ leaf.depth = 0 /\ leaf.count = 1 /\ leaf.item = q
      /\ leaf.left = NULL /\ leaf.right = NULL
      /\ leaf \in Node(DOMAIN node \cup {p})
  BY <1>1 DEF LeafOf, Node
<1>. HIDE DEF leaf
<1>3. /\ DOMAIN n1 = DOMAIN node \cup {p} /\ n1[p] = leaf
      /\ \A b \in DOMAIN node : n1[b] = node[b]
      /\ n1 = [b \in DOMAIN node \cup {p} |-> n1[b]]
  BY <1>1 DEF With
<1>4. \A b \in DOMAIN node : node[b] \in Node(DOMAIN node \cup {p})
  BY DEF Graph, Node
<1>5. Graph(n1)
  <2>1. DOMAIN n1 \subseteq Nat \ {0} BY <1>1, <1>3 DEF Graph
  <2>2. \A b \in DOMAIN n1 : n1[b] \in Node(DOMAIN n1) BY <1>2, <1>3, <1>4
  <2>. QED BY <1>3, <2>1, <2>2 DEF Graph
<1>6. \A b \in DOMAIN node : Key(n1, new, b) = Key(node, word, b)
  BY <1>1, <1>3 DEF Key, With
<1>7. Key(n1, new, p) = w BY <1>1, <1>2, <1>3 DEF Key, With
<1>8. \A S : S \subseteq DOMAIN node => Same(node, word, n1, new, S)
  BY <1>3, <1>6 DEF Same
<1>9. Places(n1) = Places(node) \cup {p} /\ p # NULL
  BY <1>1, <1>3 DEF Places, NULL
<1>. QED BY <1>3, <1>5, <1>6, <1>7, <1>8, <1>9 DEF leaf, Plants

(* The leaf by itself is what grows where there was nothing. *)
LEMMA LeafGrown ==
  ASSUME NEW n1, Graph(n1), NEW new, NEW p \in DOMAIN n1, NEW q,
         n1[p] = LeafOf(q)
  PROVE  Grown(n1, new, NULL, Top(n1, p), p)
<1>1. /\ n1[p].depth = 0 /\ n1[p].left = NULL /\ n1[p].right = NULL
  BY DEF LeafOf
<1>2. Sub(n1, p) = {p} BY <1>1, SubUnfold, SubNull
<1>3. Level(n1, p) BY <1>1 DEF Level, depth, balance, delta
<1>4. Ordered(n1, new, p) BY <1>1, SubNull DEF Ordered
<1>5. AVL(n1, new, p) BY <1>2, <1>3, <1>4 DEF AVL
<1>6. Kept(n1, n1, {p}) BY KeptSelf
<1>7. delta(n1, p) = delta(n1, NULL) + 1 BY <1>1, NullIsNone DEF delta
<1>8. Sub(n1, NULL) = {} BY SubNull
<1>. QED BY <1>2, <1>5, <1>6, <1>7, <1>8 DEF Grown, Top

(* What comes up from one of the children grows the tree below a. *)
Raised(node, word, a, w, x, p) ==
  IF w < Key(node, word, a) THEN RaisedLeft(node, word, a, x, p)
                            ELSE RaisedRight(node, word, a, x, p)

(* sub is what came up: base with other nodes than n1. *)
ComesUp(base, n1, sub) ==
  /\ sub.mem = SetNode(base, sub.mem.node) /\ sub.root \in DOMAIN n1
  /\ \E S : Kept(n1, sub.mem.node, S)

(* On the way up from the leaf. *)
LEMMA InsertedIs ==
  ASSUME NEW mem, NEW base, IsMem(base), NEW n1, NEW new, base.word = new,
         NEW a \in DOMAIN n1, NEW w \in Nat, NEW p \in DOMAIN n1,
         Key(n1, new, p) = w, Item(mem, a) = Key(n1, new, a),
         NEW sub, ComesUp(base, n1, sub),
         NEW y, y = Raised(n1, new, a, w, Top(sub.mem.node, sub.root), p)
  PROVE  Inserted(mem, a, w, sub) = At(SetNode(base, y.node), y.root)
<1>. DEFINE x == Top(sub.mem.node, sub.root)
            left == w < Item(mem, a)
            put == IF left THEN [sub.mem.node EXCEPT ![a].left = sub.root]
                           ELSE [sub.mem.node EXCEPT ![a].right = sub.root]
            turn == IF abs(balance(put, a)) <= 1 THEN Top(put, a)
                    ELSE IF left
                    THEN IF w < Item(sub.mem, sub.root)
                         THEN rotate_right(put, a) ELSE rotate_left_right(put, a)
                    ELSE IF w > Item(sub.mem, sub.root)
                         THEN rotate_left(put, a) ELSE rotate_right_left(put, a)
<1>0. /\ sub.mem = SetNode(base, sub.mem.node) /\ sub.root \in DOMAIN n1
      /\ \E S : Kept(n1, sub.mem.node, S)
  BY DEF ComesUp
<1>1. x.node = sub.mem.node /\ x.root = sub.root BY DEF Top
<1>2. Inserted(mem, a, w, sub) =
        At([sub.mem EXCEPT !.node = SetDepth(turn.node, turn.root)], turn.root)
  BY DEF Inserted
<1>3. Item(sub.mem, sub.root) = Key(n1, new, sub.root)
  <2>1. Item(sub.mem, sub.root) = Key(sub.mem.node, sub.mem.word, sub.root)
    BY ItemIsKey
  <2>2. sub.mem.word = new BY <1>0, SetNodeIs
  <2>3. Key(sub.mem.node, new, sub.root) = Key(n1, new, sub.root)
    BY <1>0, KeptKeys
  <2>. QED BY <2>1, <2>2, <2>3
<1>4. \A g : [sub.mem EXCEPT !.node = g] = SetNode(base, g)
  BY Zenon, <1>0, SetNodeIs DEF SetNode
<1>. HIDE DEF x
<1>5. CASE left
  <2>. DEFINE z == RaisedLeft(n1, new, a, x, p)
              pl == SetLeft(x.node, a, x.root)
              tl == IF abs(balance(pl, a)) <= 1 THEN Top(pl, a)
                    ELSE IF Key(n1, new, p) < Key(n1, new, x.root)
                         THEN rotate_right(pl, a) ELSE rotate_left_right(pl, a)
  <2>1. put = pl BY <1>1, <1>5 DEF SetLeft
  <2>. HIDE DEF put, pl
  <2>2. turn = tl BY <1>1, <1>3, <1>5, <2>1
  <2>3. z = Top(SetDepth(tl.node, tl.root), tl.root) BY DEF RaisedLeft, pl
  <2>. HIDE DEF turn, tl, z
  <2>4. z.node = SetDepth(tl.node, tl.root) /\ z.root = tl.root
    BY <2>3 DEF Top
  <2>5. Inserted(mem, a, w, sub) = At(SetNode(base, z.node), z.root)
    BY <1>2, <1>4, <2>2, <2>4
  <2>6. y = z BY <1>5 DEF Raised, x, z
  <2>. QED BY <2>5, <2>6
<1>6. CASE ~left
  <2>. DEFINE z == RaisedRight(n1, new, a, x, p)
              pl == SetRight(x.node, a, x.root)
              tl == IF abs(balance(pl, a)) <= 1 THEN Top(pl, a)
                    ELSE IF Key(n1, new, x.root) < Key(n1, new, p)
                         THEN rotate_left(pl, a) ELSE rotate_right_left(pl, a)
  <2>1. put = pl BY <1>1, <1>6 DEF SetRight
  <2>. HIDE DEF put, pl
  <2>2. turn = tl BY <1>1, <1>3, <1>6, <2>1
  <2>3. z = Top(SetDepth(tl.node, tl.root), tl.root) BY DEF RaisedRight, pl
  <2>. HIDE DEF turn, tl, z
  <2>4. z.node = SetDepth(tl.node, tl.root) /\ z.root = tl.root
    BY <2>3 DEF Top
  <2>5. Inserted(mem, a, w, sub) = At(SetNode(base, z.node), z.root)
    BY <1>2, <1>4, <2>2, <2>4
  <2>6. y = z BY <1>6 DEF Raised, x, z
  <2>. QED BY <2>5, <2>6
<1>. QED BY <1>5, <1>6

(* u is what update() makes of the tree below a: the node p is in it. *)
Updated(base, n1, new, a, p, u) ==
  /\ u.mem = SetNode(base, u.mem.node)
  /\ Grown(n1, new, a, Top(u.mem.node, u.root), p)

LEMMA UpdateGrows ==
  ASSUME NEW mem, Shallow(mem.node), NEW w, NEW base, IsMem(base),
         NEW p, NEW q,
         Planted(mem.node, mem.word, p, q, w, base.node, base.word),
         NewNode(mem, w) = At(base, p),
         NEW a \in Places(mem.node), Tree(mem, a),
         \A b \in Sub(mem.node, a) : Item(mem, b) # w
  PROVE  Updated(base, base.node, base.word, a, p, update(mem, a, w))
<1>. DEFINE P == Places(mem.node)
            n1 == base.node
            new == base.word
            Lacks(c) == \A b \in Sub(mem.node, c) : Item(mem, b) # w
            T == {c \in P : /\ Tree(mem, c) /\ Lacks(c)
                            /\ ~Updated(base, n1, new, c, p, update(mem, c, w))}
<1>1. Graph(mem.node) BY DEF Shallow
<1>2. /\ Graph(n1) /\ DOMAIN n1 = DOMAIN mem.node \cup {p} /\ n1[p] = LeafOf(q)
      /\ Places(n1) = P \cup {p} /\ p # NULL
      /\ \A b \in DOMAIN mem.node : /\ n1[b] = mem.node[b]
                                    /\ Key(n1, new, b) = Item(mem, b)
      /\ Key(n1, new, p) = w
      /\ \A S : S \subseteq DOMAIN mem.node
                  => Same(mem.node, mem.word, n1, new, S)
  <2>1. \A b : Item(mem, b) = Key(mem.node, mem.word, b) BY ItemIsKey
  <2>. HIDE DEF P
  <2>2. Plants(mem.node, mem.word, p, q, w, n1, new) BY <1>1, PlantedIs
  <2>. QED BY <2>1, <2>2 DEF P, Plants
<1>3. w \in Nat /\ p \notin DOMAIN mem.node BY DEF Planted
<1>. HIDE DEF n1, new
<1>4. ASSUME T # {} PROVE FALSE
  <2>1. T \subseteq P OBVIOUS
  <2>2. PICK c \in T : \A d \in T : delta(mem.node, c) <= delta(mem.node, d)
    <3>. HIDE DEF T
    <3>. QED BY <1>1, <1>4, <2>1, ShallowestOf
  <2>3. Tree(mem, c) /\ Lacks(c) /\ c \in P OBVIOUS
  <2>4. update(mem, c, w) =
          IF c = NULL THEN NewNode(mem, w)
          ELSE IF w = Item(mem, c) THEN At(Counted(mem, c), c)
          ELSE Inserted(mem, c, w, update(mem, Toward(mem, c, w), w))
    BY <2>3, UpdateSteps
  <2>5. CASE c = NULL
    <3>1. update(mem, c, w) = At(base, p) BY <2>4, <2>5
    <3>2. SetNode(base, base.node) = base BY SetNodeIs
    <3>3. Grown(n1, new, NULL, Top(n1, p), p) BY <1>2, LeafGrown
    <3>4. Updated(base, n1, new, c, p, At(base, p))
      BY <2>5, <3>2, <3>3 DEF Updated, At, n1
    <3>. QED BY <3>1, <3>4
  <2>6. CASE c # NULL
    <3>1. c \in DOMAIN mem.node BY <2>3, <2>6 DEF Places
    <3>2. w # Item(mem, c) BY <1>1, <2>3, <3>1, SubSelf
    <3>. DEFINE t == Toward(mem, c, w)
                u == update(mem, t, w)
                x == Top(u.mem.node, u.root)
    <3>3. Tree(mem, t) /\ Lacks(t)
      <4>1. Sub(mem.node, t) \subseteq Sub(mem.node, c)
        BY <1>1, <2>3, <3>1, TreeOpen DEF Toward
      <4>. QED BY <1>1, <2>3, <3>1, <4>1, TreeOpen
    <3>4. /\ t \in P /\ delta(mem.node, t) < delta(mem.node, c)
          /\ delta(mem.node, t) \in Int /\ delta(mem.node, c) \in Int
      <4>1. t \in {mem.node[c].left, mem.node[c].right} BY DEF Toward
      <4>. QED BY <3>1, <4>1, GoesDown
    <3>5. t \notin T
      <4>1. ~(delta(mem.node, c) <= delta(mem.node, t)) BY <3>4
      <4>. QED BY <2>2, <4>1
    <3>6. Updated(base, n1, new, t, p, u) BY <3>3, <3>4, <3>5
    <3>7. t = IF w < Key(n1, new, c) THEN n1[c].left ELSE n1[c].right
      BY <1>2, <3>1 DEF Toward
    <3>8. update(mem, c, w) = Inserted(mem, c, w, u) BY <2>4, <2>6, <3>2
    <3>. HIDE DEF u, t
    <3>9. /\ u.mem = SetNode(base, u.mem.node)
          /\ Grown(n1, new, t, x, p)
      BY <3>6 DEF Updated
    <3>10. Same(mem.node, mem.word, n1, new, Sub(mem.node, c))
      BY <1>2, SubIn
    <3>11. /\ Sub(n1, c) = Sub(mem.node, c) /\ AVL(n1, new, c)
           /\ p \notin Sub(n1, c) /\ c \in DOMAIN n1 /\ p \in DOMAIN n1
      <4>1. AVL(mem.node, mem.word, c) BY <2>3 DEF Tree
      <4>2. Sub(mem.node, c) \subseteq DOMAIN mem.node BY SubIn
      <4>. QED BY <1>1, <1>2, <1>3, <2>3, <3>1, <3>10, <4>1, <4>2,
                  SubSame, AVLSame
    <3>12. Spelt(n1, new, Sub(n1, c) \cup {p})
      <4>1. \A b \in Sub(mem.node, c) : Key(mem.node, mem.word, b) \in Nat
        BY <2>3 DEF Tree, Spelt
      <4>2. \A b \in Sub(mem.node, c) : b \in DOMAIN mem.node BY SubIn
      <4>. QED BY <1>2, <1>3, <3>11, <4>1, <4>2, ItemIsKey DEF Spelt
    <3>13. Item(mem, c) = Key(n1, new, c) BY <1>2, <3>1
    <3>. DEFINE y == Raised(n1, new, c, w, x, p)
    <3>14. Inserted(mem, c, w, u) = At(SetNode(base, y.node), y.root)
      <4>1. ComesUp(base, n1, u)
        BY <3>9 DEF Grown, Top, ComesUp
      <4>2. base.word = new BY DEF new
      <4>. HIDE DEF y
      <4>3. y = Raised(n1, new, c, w, Top(u.mem.node, u.root), p) BY DEF y
      <4>. QED BY <1>2, <1>3, <3>11, <3>13, <4>1, <4>2, <4>3, InsertedIs
    <3>. HIDE DEF x
    <3>15. Grown(n1, new, c, y, p)
      <4>1. CASE w < Key(n1, new, c)
        <5>1. Grown(n1, new, c, RaisedLeft(n1, new, c, x, p), p)
          BY <1>2, <3>7, <3>9, <3>11, <3>12, <4>1, GrowLeft
        <5>. QED BY <4>1, <5>1 DEF Raised
      <4>2. CASE ~(w < Key(n1, new, c))
        <5>1. Key(n1, new, c) < Key(n1, new, p)
          <6>1. Key(n1, new, c) \in Nat
            BY <1>2, <3>11, <3>12, SubSelf DEF Spelt
          <6>. QED BY <1>2, <1>3, <3>2, <3>13, <4>2, <6>1
        <5>2. Grown(n1, new, c, RaisedRight(n1, new, c, x, p), p)
          BY <1>2, <3>7, <3>9, <3>11, <3>12, <4>2, <5>1, GrowRight
        <5>. QED BY <4>2, <5>2 DEF Raised
      <4>. QED BY <4>1, <4>2
    <3>. HIDE DEF y
    <3>16. Updated(base, n1, new, c, p, At(SetNode(base, y.node), y.root))
      <4>1. SetNode(base, y.node).node = y.node BY SetNodeIs
      <4>2. Top(y.node, y.root).node = y.node /\ Top(y.node, y.root).root = y.root
        BY DEF Top
      <4>3. Grown(n1, new, c, Top(y.node, y.root), p)
        BY <3>15, <4>2 DEF Grown, Leans
      <4>. QED BY <4>1, <4>3 DEF Updated, At
    <3>. QED BY <3>8, <3>14, <3>16
  <2>. QED BY <2>5, <2>6
<1>. QED BY <1>4 DEF n1, new

-----------------------------------------------------------------------------
(* Removal *)

(* The words that the nodes hold, and how often each was inserted. *)
Holding(node, S) == {<<node[c].item, node[c].count>> : c \in S}

(* n1 is the tree of node, in which the nodes S but d hold what those but  *)
(* b held.                                                                 *)
Moved(node, n1, S, b, d) ==
  /\ Alike(node, n1) /\ b \in S /\ d \in S /\ S \subseteq DOMAIN node
  /\ \A c \in DOMAIN node \ S : n1[c] = node[c]
  /\ Holding(n1, S \ {d}) = Holding(node, S \ {b})

LEMMA MovedKeys ==
  ASSUME NEW node, NEW n1, NEW S, NEW b, NEW d, Moved(node, n1, S, b, d),
         NEW word
  PROVE  /\ \A c \in S \ {d} : \E e \in S \ {b} :
              Key(n1, word, c) = Key(node, word, e)
         /\ \A c \in DOMAIN node \ S : Key(n1, word, c) = Key(node, word, c)
<1>1. ASSUME NEW c \in S \ {d}
      PROVE  \E e \in S \ {b} : Key(n1, word, c) = Key(node, word, e)
  <2>1. <<n1[c].item, n1[c].count>> \in Holding(node, S \ {b})
    BY Zenon DEF Moved, Holding
  <2>2. PICK e \in S \ {b} :
          <<n1[c].item, n1[c].count>> = <<node[e].item, node[e].count>>
    BY <2>1 DEF Holding
  <2>. QED BY <2>2 DEF Key
<1>2. \A c \in DOMAIN node \ S : Key(n1, word, c) = Key(node, word, c)
  BY DEF Moved, Key
<1>. QED BY <1>1, <1>2

(* What is moved above the node d that goes. *)
MovedBelow(node, n1, word, a, t, b, d) ==
  /\ Tree([node |-> node, word |-> word], a) /\ a \in DOMAIN node
  /\ b \in Sub(node, t) /\ Moved(node, n1, Sub(node, b), b, d)

LEMMA ShrinkMovedLeft ==
  ASSUME NEW node, Graph(node), NEW n1, NEW word, NEW a, NEW b, NEW d,
         MovedBelow(node, n1, word, a, node[a].left, b, d),
         NEW x, Shrunk(n1, word, n1[a].left, x, d)
  PROVE  Shrunk(n1, word, a,
                Rebalanced(SetDepth(SetLeft(x.node, a, x.root), a), a), d)
<1>. DEFINE l == node[a].left
            r == node[a].right
            S == Sub(node, b)
<1>1. /\ AVL(node, word, a) /\ Spelt(node, word, Sub(node, a))
      /\ a \in DOMAIN node /\ b \in Sub(node, l) /\ Moved(node, n1, S, b, d)
  BY DEF MovedBelow, Tree
<1>2. /\ AVL(node, word, r) /\ Level(node, a) /\ Ordered(node, word, a)
      /\ Sub(node, a) = {a} \cup Sub(node, l) \cup Sub(node, r)
      /\ l \in Places(node) /\ r \in Places(node)
  BY <1>1, AVLOpen, SubUnfold, GraphIs
<1>3. /\ a \notin Sub(node, l) /\ Sub(node, l) \cap Sub(node, r) = {}
  BY <1>1, <1>2, Apart
<1>4. S \subseteq Sub(node, l) BY <1>1, SubTransitive
<1>5. Alike(node, n1) /\ d \in S BY <1>1 DEF Moved
<1>6. /\ Graph(n1) /\ DOMAIN n1 = DOMAIN node
      /\ Sub(n1, l) = Sub(node, l) /\ Sub(n1, r) = Sub(node, r)
      /\ Level(n1, a)
  BY <1>1, <1>2, <1>5, AlikeIs
<1>7. n1[a].left = l /\ n1[a].right = r BY <1>1, <1>5 DEF Alike
<1>8. /\ \A c \in S \ {d} : \E e \in S \ {b} :
           Key(n1, word, c) = Key(node, word, e)
      /\ \A c \in DOMAIN node \ S : Key(n1, word, c) = Key(node, word, c)
  BY <1>1, MovedKeys
<1>9. Key(n1, word, a) = Key(node, word, a) /\ Key(node, word, a) \in Nat
  BY <1>1, <1>2, <1>3, <1>4, <1>8 DEF Spelt
<1>10. AVL(n1, word, r)
  <2>1. Same(node, word, n1, word, Sub(node, r))
    <3>1. Sub(node, r) \cap S = {} BY <1>3, <1>4
    <3>2. \A c \in Sub(node, r) : c \in DOMAIN node /\ n1[c] = node[c]
      <4>1. Sub(node, r) \subseteq DOMAIN node BY SubIn
      <4>. QED BY <1>1, <3>1, <4>1 DEF Moved
    <3>. QED BY <1>6, <3>2 DEF Same, Key
  <2>. QED BY <1>2, <1>6, <2>1, AVLSame
<1>11. /\ Sub(node, l) \subseteq DOMAIN node /\ Sub(node, r) \subseteq DOMAIN node
  BY SubIn
<1>. HIDE DEF l, r, S
<1>12. Lower(n1, word, a, Sub(n1, l) \ {d})
  <2>1. ASSUME NEW c \in Sub(node, l) \ {d}
        PROVE  /\ Key(n1, word, c) \in Nat
               /\ Key(n1, word, c) < Key(n1, word, a)
    <3>1. \E e \in Sub(node, l) : Key(n1, word, c) = Key(node, word, e)
      BY <1>4, <1>8, <1>11
    <3>2. \A e \in Sub(node, l) :
            Key(node, word, e) \in Nat /\ Key(node, word, e) < Key(node, word, a)
      BY <1>1, <1>2 DEF Spelt, Ordered, l
    <3>. QED BY <1>9, <3>1, <3>2
  <2>. QED BY <1>6, <2>1 DEF Lower
<1>13. Upper(n1, word, a, Sub(n1, r))
  <2>1. ASSUME NEW c \in Sub(node, r)
        PROVE  /\ Key(n1, word, c) \in Nat
               /\ Key(n1, word, a) < Key(n1, word, c)
    <3>1. c \notin S BY <1>3, <1>4
    <3>2. Key(n1, word, c) = Key(node, word, c) BY <1>8, <1>11, <3>1
    <3>3. Key(node, word, c) \in Nat /\ Key(node, word, a) < Key(node, word, c)
      BY <1>1, <1>2 DEF Spelt, Ordered, r
    <3>. QED BY <1>9, <3>2, <3>3
  <2>. QED BY <1>6, <2>1 DEF Upper
<1>14. /\ a \notin Sub(n1, n1[a].left) /\ Key(n1, word, a) \in Nat
       /\ Sub(n1, n1[a].left) \cap Sub(n1, n1[a].right) = {}
       /\ a \in DOMAIN n1 /\ AVL(n1, word, n1[a].right)
       /\ Lower(n1, word, a, Sub(n1, n1[a].left) \ {d})
       /\ Upper(n1, word, a, Sub(n1, n1[a].right))
  BY <1>1, <1>3, <1>6, <1>7, <1>9, <1>10, <1>12, <1>13
<1>. QED BY <1>6, <1>14, ShrinkLeft

LEMMA ShrinkMovedRight ==
  ASSUME NEW node, Graph(node), NEW n1, NEW word, NEW a, NEW b, NEW d,
         MovedBelow(node, n1, word, a, node[a].right, b, d),
         NEW x, Shrunk(n1, word, n1[a].right, x, d)
  PROVE  Shrunk(n1, word, a,
                Rebalanced(SetDepth(SetRight(x.node, a, x.root), a), a), d)
<1>. DEFINE r == node[a].right
            l == node[a].left
            S == Sub(node, b)
<1>1. /\ AVL(node, word, a) /\ Spelt(node, word, Sub(node, a))
      /\ a \in DOMAIN node /\ b \in Sub(node, r) /\ Moved(node, n1, S, b, d)
  BY DEF MovedBelow, Tree
<1>2. /\ AVL(node, word, l) /\ Level(node, a) /\ Ordered(node, word, a)
      /\ Sub(node, a) = {a} \cup Sub(node, l) \cup Sub(node, r)
      /\ r \in Places(node) /\ l \in Places(node)
  BY <1>1, AVLOpen, SubUnfold, GraphIs
<1>3. /\ a \notin Sub(node, r) /\ Sub(node, r) \cap Sub(node, l) = {}
  BY <1>1, <1>2, Apart
<1>4. S \subseteq Sub(node, r) BY <1>1, SubTransitive
<1>5. Alike(node, n1) /\ d \in S BY <1>1 DEF Moved
<1>6. /\ Graph(n1) /\ DOMAIN n1 = DOMAIN node
      /\ Sub(n1, r) = Sub(node, r) /\ Sub(n1, l) = Sub(node, l)
      /\ Level(n1, a)
  BY <1>1, <1>2, <1>5, AlikeIs
<1>7. n1[a].right = r /\ n1[a].left = l BY <1>1, <1>5 DEF Alike
<1>8. /\ \A c \in S \ {d} : \E e \in S \ {b} :
           Key(n1, word, c) = Key(node, word, e)
      /\ \A c \in DOMAIN node \ S : Key(n1, word, c) = Key(node, word, c)
  BY <1>1, MovedKeys
<1>9. Key(n1, word, a) = Key(node, word, a) /\ Key(node, word, a) \in Nat
  BY <1>1, <1>2, <1>3, <1>4, <1>8 DEF Spelt
<1>10. AVL(n1, word, l)
  <2>1. Same(node, word, n1, word, Sub(node, l))
    <3>1. Sub(node, l) \cap S = {} BY <1>3, <1>4
    <3>2. \A c \in Sub(node, l) : c \in DOMAIN node /\ n1[c] = node[c]
      <4>1. Sub(node, l) \subseteq DOMAIN node BY SubIn
      <4>. QED BY <1>1, <3>1, <4>1 DEF Moved
    <3>. QED BY <1>6, <3>2 DEF Same, Key
  <2>. QED BY <1>2, <1>6, <2>1, AVLSame
<1>11. /\ Sub(node, l) \subseteq DOMAIN node /\ Sub(node, r) \subseteq DOMAIN node
  BY SubIn
<1>. HIDE DEF l, r, S
<1>12. Upper(n1, word, a, Sub(n1, r) \ {d})
  <2>1. ASSUME NEW c \in Sub(node, r) \ {d}
        PROVE  /\ Key(n1, word, c) \in Nat
               /\ Key(n1, word, a) < Key(n1, word, c)
    <3>1. \E e \in Sub(node, r) : Key(n1, word, c) = Key(node, word, e)
      BY <1>4, <1>8, <1>11
    <3>2. \A e \in Sub(node, r) :
            Key(node, word, e) \in Nat /\ Key(node, word, a) < Key(node, word, e)
      BY <1>1, <1>2 DEF Spelt, Ordered, r
    <3>. QED BY <1>9, <3>1, <3>2
  <2>. QED BY <1>6, <2>1 DEF Upper
<1>13. Lower(n1, word, a, Sub(n1, l))
  <2>1. ASSUME NEW c \in Sub(node, l)
        PROVE  /\ Key(n1, word, c) \in Nat
               /\ Key(n1, word, c) < Key(n1, word, a)
    <3>1. c \notin S BY <1>3, <1>4
    <3>2. Key(n1, word, c) = Key(node, word, c) BY <1>8, <1>11, <3>1
    <3>3. Key(node, word, c) \in Nat /\ Key(node, word, c) < Key(node, word, a)
      BY <1>1, <1>2 DEF Spelt, Ordered, l
    <3>. QED BY <1>9, <3>2, <3>3
  <2>. QED BY <1>6, <2>1 DEF Lower
<1>14. /\ a \notin Sub(n1, n1[a].right) /\ Key(n1, word, a) \in Nat
       /\ Sub(n1, n1[a].right) \cap Sub(n1, n1[a].left) = {}
       /\ a \in DOMAIN n1 /\ AVL(n1, word, n1[a].left)
       /\ Upper(n1, word, a, Sub(n1, n1[a].right) \ {d})
       /\ Lower(n1, word, a, Sub(n1, n1[a].left))
  BY <1>1, <1>3, <1>6, <1>7, <1>9, <1>10, <1>12, <1>13
<1>. QED BY <1>6, <1>14, ShrinkRight

-----------------------------------------------------------------------------
(* On the way up from a removal *)

(* u is what a removal makes of the tree below a: the node d is gone, and  *)
(* the others hold what they do in n1.                                     *)
Cut(base, n1, word, a, d, u) ==
  /\ u.mem = SetNode(base, u.mem.node)
  /\ Shrunk(n1, word, a, Top(u.mem.node, u.root), d)

LEMMA RemovedIs ==
  ASSUME NEW mem, NEW a, NEW w, NEW base, IsMem(base),
         NEW u, u.mem = SetNode(base, u.mem.node),
         NEW put, put = IF w < Item(mem, a) THEN SetLeft(u.mem.node, a, u.root)
                                            ELSE SetRight(u.mem.node, a, u.root),
         NEW y, y = Rebalanced(SetDepth(put, a), a)
  PROVE  /\ Removed(mem, a, w, u) = At(SetNode(base, y.node), y.root)
         /\ Removed(mem, a, w, u).mem = SetNode(base, y.node)
         /\ Removed(mem, a, w, u).mem.node = y.node
         /\ Removed(mem, a, w, u).root = y.root
<1>1. put = IF w < Item(mem, a) THEN [u.mem.node EXCEPT ![a].left = u.root]
                                ELSE [u.mem.node EXCEPT ![a].right = u.root]
  BY DEF SetLeft, SetRight
<1>2. Removed(mem, a, w, u) = At([u.mem EXCEPT !.node = y.node], y.root)
  BY <1>1 DEF Removed
<1>3. [u.mem EXCEPT !.node = y.node] = SetNode(base, y.node)
  BY Zenon, SetNodeIs DEF SetNode
<1>4. SetNode(base, y.node).node = y.node BY SetNodeIs
<1>. QED BY <1>2, <1>3, <1>4 DEF At

LEMMA CutIs ==
  ASSUME NEW base, IsMem(base), NEW n1, NEW word, NEW a, NEW d, NEW u,
         NEW y, u.mem = SetNode(base, y.node), u.root = y.root,
         Shrunk(n1, word, a, y, d)
  PROVE  Cut(base, n1, word, a, d, u)
<1>1. u.mem.node = y.node /\ u.mem = SetNode(base, u.mem.node) BY SetNodeIs
<1>2. /\ Top(u.mem.node, u.root).node = y.node
      /\ Top(u.mem.node, u.root).root = y.root
  BY <1>1 DEF Top
<1>. HIDE DEF Cut
<1>3. Shrunk(n1, word, a, Top(u.mem.node, u.root), d) BY <1>2 DEF Shrunk
<1>. QED BY <1>1, <1>3 DEF Cut

(* On the way up from a node that went. *)
LEMMA CutAbove ==
  ASSUME NEW mem, Shallow(mem.node), NEW base, IsMem(base),
         NEW a \in DOMAIN mem.node, Tree(mem, a), NEW w,
         NEW b \in Sub(mem.node, Toward(mem, a, w)), NEW n1, NEW d,
         Moved(mem.node, n1, Sub(mem.node, b), b, d),
         NEW u, Cut(base, n1, mem.word, Toward(mem, a, w), d, u)
  PROVE  Cut(base, n1, mem.word, a, d, Removed(mem, a, w, u))
<1>. DEFINE node == mem.node
            word == mem.word
            x == Top(u.mem.node, u.root)
            put == IF w < Item(mem, a) THEN SetLeft(u.mem.node, a, u.root)
                                       ELSE SetRight(u.mem.node, a, u.root)
            y == Rebalanced(SetDepth(put, a), a)
            v == Removed(mem, a, w, u)
<1>1. Graph(node) BY DEF Shallow
<1>2. x.node = u.mem.node /\ x.root = u.root BY DEF Top
<1>3. /\ u.mem = SetNode(base, u.mem.node)
      /\ Shrunk(n1, word, Toward(mem, a, w), x, d)
  BY DEF Cut
<1>4. n1[a].left = node[a].left /\ n1[a].right = node[a].right
  BY DEF Moved, Alike
<1>5. Tree([node |-> node, word |-> word], a) BY DEF Tree, Places
<1>6. Shrunk(n1, word, a, y, d)
  <2>1. CASE w < Item(mem, a)
    <3>1. Toward(mem, a, w) = node[a].left BY <2>1 DEF Toward
    <3>2. MovedBelow(node, n1, word, a, node[a].left, b, d)
      BY <1>5, <3>1 DEF MovedBelow
    <3>3. Shrunk(n1, word, n1[a].left, x, d) BY <1>3, <1>4, <3>1
    <3>4. put = SetLeft(x.node, a, x.root) BY <1>2, <2>1
    <3>. HIDE DEF x, put, node, word
    <3>. QED BY <1>1, <3>2, <3>3, <3>4, ShrinkMovedLeft
  <2>2. CASE ~(w < Item(mem, a))
    <3>1. Toward(mem, a, w) = node[a].right BY <2>2 DEF Toward
    <3>2. MovedBelow(node, n1, word, a, node[a].right, b, d)
      BY <1>5, <3>1 DEF MovedBelow
    <3>3. Shrunk(n1, word, n1[a].right, x, d) BY <1>3, <1>4, <3>1
    <3>4. put = SetRight(x.node, a, x.root) BY <1>2, <2>2
    <3>. HIDE DEF x, put, node, word
    <3>. QED BY <1>1, <3>2, <3>3, <3>4, ShrinkMovedRight
  <2>. QED BY <2>1, <2>2
<1>7. v.mem = SetNode(base, y.node) /\ v.root = y.root
  <2>. HIDE DEF y, put
  <2>1. y = Rebalanced(SetDepth(put, a), a)
        /\ put = IF w < Item(mem, a) THEN SetLeft(u.mem.node, a, u.root)
                                     ELSE SetRight(u.mem.node, a, u.root)
    BY DEF y, put
  <2>. QED BY <1>3, <2>1, RemovedIs
<1>. HIDE DEF y, v
<1>8. Cut(base, n1, word, a, d, v) BY <1>6, <1>7, CutIs
<1>. QED BY <1>8 DEF v

(* What is removed at the node of w is what is removed above it. *)
LEMMA RemoveCuts ==
  ASSUME NEW mem, Shallow(mem.node), NEW base, IsMem(base), NEW w, NEW found,
         NEW b \in DOMAIN mem.node, Item(mem, b) = w, NEW n1, NEW d,
         Moved(mem.node, n1, Sub(mem.node, b), b, d),
         Cut(base, n1, mem.word, b, d, found[b]),
         NEW a \in Places(mem.node), Tree(mem, a), b \in Sub(mem.node, a)
  PROVE  Cut(base, n1, mem.word, a, d, RemoveIn(mem, a, w, found))
<1>. DEFINE P == Places(mem.node)
            new(c) == RemoveIn(mem, c, w, found)
            T == {c \in P : /\ Tree(mem, c) /\ b \in Sub(mem.node, c)
                            /\ ~Cut(base, n1, mem.word, c, d, new(c))}
<1>1. Graph(mem.node) BY DEF Shallow
<1>2. ASSUME T # {} PROVE FALSE
  <2>1. T \subseteq P OBVIOUS
  <2>2. PICK c \in T : \A e \in T : delta(mem.node, c) <= delta(mem.node, e)
    <3>. HIDE DEF T
    <3>. QED BY <1>1, <1>2, <2>1, ShallowestOf
  <2>3. Tree(mem, c) /\ b \in Sub(mem.node, c) /\ c \in P OBVIOUS
  <2>4. c # NULL /\ c \in DOMAIN mem.node BY <2>3, SubNull DEF Places
  <2>. DEFINE t == Toward(mem, c, w)
  <2>5. new(c) = IF w = Item(mem, c) THEN found[c]
                 ELSE Removed(mem, c, w, new(t))
    BY <2>3, <2>4, RemoveSteps
  <2>6. CASE w = Item(mem, c)
    <3>1. b = c BY <1>1, <2>3, <2>4, <2>6, FoundBelow, ItemIsKey DEF Tree
    <3>. QED BY <2>2, <2>5, <2>6, <3>1
  <2>7. CASE w # Item(mem, c)
    <3>1. Tree(mem, t) /\ b \in Sub(mem.node, t)
      BY <1>1, <2>3, <2>4, <2>7, TreeOpen, TowardIs
    <3>2. /\ t \in P /\ delta(mem.node, t) < delta(mem.node, c)
          /\ delta(mem.node, t) \in Int /\ delta(mem.node, c) \in Int
      <4>1. t \in {mem.node[c].left, mem.node[c].right} BY DEF Toward
      <4>. QED BY <2>4, <4>1, GoesDown
    <3>3. t \notin T
      <4>1. ~(delta(mem.node, c) <= delta(mem.node, t)) BY <3>2
      <4>. QED BY <2>2, <4>1
    <3>4. Cut(base, n1, mem.word, t, d, new(t)) BY <3>1, <3>2, <3>3
    <3>. HIDE DEF new
    <3>5. Cut(base, n1, mem.word, c, d, Removed(mem, c, w, new(t)))
      BY <2>3, <2>4, <3>1, <3>4, CutAbove
    <3>6. Cut(base, n1, mem.word, c, d, new(c)) BY <2>5, <2>7, <3>5
    <3>. QED BY <2>2, <3>6
  <2>. QED BY <2>6, <2>7
<1>. QED BY <1>2

(* Where the node of w stays, all nodes do. *)
LEMMA RemoveStays ==
  ASSUME NEW mem, Shallow(mem.node), NEW w, NEW found,
         NEW b \in DOMAIN mem.node, Item(mem, b) = w,
         NEW x, IsMem(x), Alike(mem.node, x.node), found[b] = At(x, b),
         NEW a \in Places(mem.node), Tree(mem, a), b \in Sub(mem.node, a)
  PROVE  RemoveIn(mem, a, w, found) = At(x, a)
<1>. DEFINE P == Places(mem.node)
            new(c) == RemoveIn(mem, c, w, found)
            T == {c \in P : /\ Tree(mem, c) /\ b \in Sub(mem.node, c)
                            /\ new(c) # At(x, c)}
<1>1. Graph(mem.node) BY DEF Shallow
<1>2. /\ Graph(x.node) /\ DOMAIN x.node = DOMAIN mem.node
      /\ \A c \in DOMAIN mem.node : Level(x.node, c)
  BY <1>1, AlikeIs DEF Shallow, Leveled
<1>3. ASSUME T # {} PROVE FALSE
  <2>1. T \subseteq P OBVIOUS
  <2>2. PICK c \in T : \A e \in T : delta(mem.node, c) <= delta(mem.node, e)
    <3>. HIDE DEF T
    <3>. QED BY <1>1, <1>3, <2>1, ShallowestOf
  <2>3. Tree(mem, c) /\ b \in Sub(mem.node, c) /\ c \in P OBVIOUS
  <2>4. c # NULL /\ c \in DOMAIN mem.node BY <2>3, SubNull DEF Places
  <2>. DEFINE t == Toward(mem, c, w)
  <2>5. new(c) = IF w = Item(mem, c) THEN found[c]
                 ELSE Removed(mem, c, w, new(t))
    BY <2>3, <2>4, RemoveSteps
  <2>6. CASE w = Item(mem, c)
    <3>1. b = c BY <1>1, <2>3, <2>4, <2>6, FoundBelow, ItemIsKey DEF Tree
    <3>. QED BY <2>2, <2>5, <2>6, <3>1
  <2>7. CASE w # Item(mem, c)
    <3>1. Tree(mem, t) /\ b \in Sub(mem.node, t)
      BY <1>1, <2>3, <2>4, <2>7, TreeOpen, TowardIs
    <3>2. /\ t \in P /\ delta(mem.node, t) < delta(mem.node, c)
          /\ delta(mem.node, t) \in Int /\ delta(mem.node, c) \in Int
      <4>1. t \in {mem.node[c].left, mem.node[c].right} BY DEF Toward
      <4>. QED BY <2>4, <4>1, GoesDown
    <3>3. t \notin T
      <4>1. ~(delta(mem.node, c) <= delta(mem.node, t)) BY <3>2
      <4>. QED BY <2>2, <4>1
    <3>4. new(t) = At(x, t) BY <3>1, <3>2, <3>3
    <3>5. t = IF w < Item(mem, c) THEN x.node[c].left ELSE x.node[c].right
      BY <2>4 DEF Toward, Alike
    <3>. HIDE DEF new, t
    <3>6. Removed(mem, c, w, At(x, t)) = At(x, c)
      BY <1>2, <2>4, <3>5, Stays
    <3>. QED BY <2>2, <2>5, <2>7, <3>4, <3>6
  <2>. QED BY <2>6, <2>7
<1>. QED BY <1>3

-----------------------------------------------------------------------------
(* A node takes another's word *)

(* The node a takes the word and the count of c. *)
Took(node, a, c) ==
  [node EXCEPT ![a].item = node[c].item, ![a].count = node[c].count]

LEMMA TookIs ==
  ASSUME NEW node, Graph(node), NEW a \in DOMAIN node, NEW c \in DOMAIN node
  PROVE  LET x == Took(node, a, c)
         IN  /\ Alike(node, x)
             /\ x[a].item = node[c].item /\ x[a].count = node[c].count
             /\ \A b \in DOMAIN node \ {a} : x[b] = node[b]
<1>. DEFINE x == Took(node, a, c)
            z == [depth |-> node[a].depth, count |-> node[c].count,
                  item |-> node[c].item, left |-> node[a].left,
                  right |-> node[a].right]
            y == [depth |-> node[a].depth, count |-> node[a].count,
                  item |-> node[c].item, left |-> node[a].left,
                  right |-> node[a].right]
<1>0. [node[a] EXCEPT !.item = node[c].item] = y BY GraphIs DEF Node
<1>1. [node EXCEPT ![a].item = node[c].item] = [node EXCEPT ![a] = y]
  BY Zenon, <1>0
<1>2. x = [[node EXCEPT ![a].item = node[c].item]
             EXCEPT ![a].count = node[c].count]
  BY DEF Took
<1>3. x = [[node EXCEPT ![a] = y] EXCEPT ![a].count = node[c].count]
  BY Zenon, <1>1, <1>2
<1>4. [y EXCEPT !.count = node[c].count] = z OBVIOUS
<1>5. x = [node EXCEPT ![a] = z] BY Zenon, <1>3, <1>4
<1>6. z \in Node(DOMAIN node)
  BY GraphIs DEF Node, Places
<1>7. /\ z.count = node[c].count /\ z.item = node[c].item
      /\ z.left = node[a].left /\ z.right = node[a].right
      /\ z.depth = node[a].depth
  OBVIOUS
<1>. HIDE DEF z, x
<1>8. /\ node \in [DOMAIN node -> Node(DOMAIN node)]
      /\ DOMAIN node \subseteq Nat \ {0}
  BY DEF Graph
<1>9. /\ DOMAIN x = DOMAIN node /\ x[a] = z
      /\ \A b \in DOMAIN node \ {a} : x[b] = node[b]
      /\ x \in [DOMAIN node -> Node(DOMAIN node)]
  BY <1>5, <1>6, <1>8
<1>10. Graph(x) BY <1>8, <1>9 DEF Graph
<1>11. Alike(node, x) BY <1>7, <1>9, <1>10 DEF Alike
<1>. QED BY <1>7, <1>9, <1>11 DEF x

LEMMA RemoveCountIs ==
  ASSUME NEW mem, IsMem(mem), Graph(mem.node), NEW a \in DOMAIN mem.node,
         mem.node[a].count > 1
  PROVE  LET x == RemoveCount(mem, a)
             n == mem.node[a].count - 1
         IN  /\ IsMem(x) /\ x.node = SetCount(mem.node, a, n) /\ n \in Nat
             /\ x.scm = mem.scm /\ x.end = mem.end /\ x.word = mem.word
             /\ x.root = mem.root /\ x.items = mem.items - 1
             /\ x.unique = mem.unique
             /\ Alike(mem.node, x.node)
<1>. DEFINE node == mem.node
            n == mem.node[a].count - 1
            g == SetCount(node, a, n)
            x == RemoveCount(mem, a)
<1>1. n \in Nat
  <2>1. mem.node[a].count \in Nat BY GraphIs
  <2>. QED BY <2>1
<1>2. g = [node EXCEPT ![a].count = @ - 1] BY DEF SetCount
<1>. HIDE DEF n
<1>3. Alike(node, g) BY SMTT(60), <1>1, SetCountIs DEF Alike
<1>. HIDE DEF g
<1>4. x = [mem EXCEPT !.node = g, !.items = @ - 1]
  BY <1>2 DEF RemoveCount
<1>5. x = [scm |-> mem.scm, end |-> mem.end, node |-> g,
           word |-> mem.word, root |-> mem.root, items |-> mem.items - 1,
           unique |-> mem.unique]
  BY Zenon, <1>4 DEF IsMem
<1>. HIDE DEF x
<1>6. IsMem(x) /\ x.node = g BY <1>5 DEF IsMem
<1>7. /\ x.scm = mem.scm /\ x.end = mem.end /\ x.word = mem.word
      /\ x.root = mem.root /\ x.items = mem.items - 1
      /\ x.unique = mem.unique
  BY <1>5
<1>. QED BY <1>1, <1>3, <1>6, <1>7 DEF x, g, n

(* The memory without the node d and the block p of a word. *)
Gone(mem, p, d) == Uncounted(Free(Free(mem, p), d))

LEMMA FreeIs ==
  ASSUME NEW mem, IsMem(mem), NEW p
  PROVE  LET x == Free(mem, p)
         IN  /\ IsMem(x) /\ x.scm = scm_free(mem.scm, p) /\ x.end = mem.end
             /\ x.node = mem.node /\ x.word = mem.word /\ x.root = mem.root
             /\ x.items = mem.items /\ x.unique = mem.unique
<1>1. Free(mem, p) =
        [scm |-> scm_free(mem.scm, p), end |-> mem.end, node |-> mem.node,
         word |-> mem.word, root |-> mem.root, items |-> mem.items,
         unique |-> mem.unique]
  BY DEF Free, IsMem
<1>. QED BY <1>1 DEF IsMem

LEMMA UncountedIs ==
  ASSUME NEW mem, IsMem(mem)
  PROVE  LET x == Uncounted(mem)
         IN  /\ IsMem(x) /\ x.scm = mem.scm /\ x.end = mem.end
             /\ x.node = mem.node /\ x.word = mem.word /\ x.root = mem.root
             /\ x.items = mem.items - 1 /\ x.unique = mem.unique - 1
<1>. DEFINE i == mem.items - 1
            u == mem.unique - 1
            x == Uncounted(mem)
<1>1. x = [mem EXCEPT !.items = i, !.unique = u] BY DEF Uncounted
<1>. HIDE DEF i, u, x
<1>2. x = [scm |-> mem.scm, end |-> mem.end, node |-> mem.node,
           word |-> mem.word, root |-> mem.root, items |-> i, unique |-> u]
  BY Zenon, <1>1 DEF IsMem
<1>3. /\ IsMem(x) /\ x.scm = mem.scm /\ x.end = mem.end
      /\ x.node = mem.node /\ x.word = mem.word /\ x.root = mem.root
      /\ x.items = i /\ x.unique = u
  BY <1>2 DEF IsMem
<1>. QED BY <1>3 DEF x, i, u

LEMMA GoneIs ==
  ASSUME NEW mem, IsMem(mem), NEW p, NEW d
  PROVE  LET x == Gone(mem, p, d)
         IN  /\ IsMem(x) /\ x.node = mem.node
             /\ x.scm = scm_free(scm_free(mem.scm, p), d)
             /\ x.end = mem.end /\ x.word = mem.word /\ x.root = mem.root
             /\ x.items = mem.items - 1 /\ x.unique = mem.unique - 1
             /\ \A g, h : SetNode(Gone(SetNode(mem, g), p, d), h) = SetNode(x, h)
<1>1. ASSUME NEW y, IsMem(y)
      PROVE  Gone(y, p, d) =
        [scm |-> scm_free(scm_free(y.scm, p), d), end |-> y.end,
         node |-> y.node, word |-> y.word, root |-> y.root,
         items |-> y.items - 1, unique |-> y.unique - 1]
  <2>. DEFINE x1 == Free(y, p)
              x2 == Free(x1, d)
              x3 == Uncounted(x2)
  <2>1. /\ IsMem(x1) /\ x1.scm = scm_free(y.scm, p) /\ x1.end = y.end
        /\ x1.node = y.node /\ x1.word = y.word /\ x1.root = y.root
        /\ x1.items = y.items /\ x1.unique = y.unique
    BY <1>1, FreeIs
  <2>2. x3 = Gone(y, p, d) BY DEF Gone
  <2>. HIDE DEF x1
  <2>3. /\ IsMem(x2) /\ x2.scm = scm_free(x1.scm, d) /\ x2.end = x1.end
        /\ x2.node = x1.node /\ x2.word = x1.word /\ x2.root = x1.root
        /\ x2.items = x1.items /\ x2.unique = x1.unique
    BY <2>1, FreeIs
  <2>. HIDE DEF x2
  <2>4. /\ IsMem(x3) /\ x3.scm = x2.scm /\ x3.end = x2.end
        /\ x3.node = x2.node /\ x3.word = x2.word /\ x3.root = x2.root
        /\ x3.items = x2.items - 1 /\ x3.unique = x2.unique - 1
    BY <2>3, UncountedIs
  <2>. HIDE DEF x3
  <2>. QED BY <2>1, <2>2, <2>3, <2>4 DEF IsMem
<1>2. ASSUME NEW g, NEW h
      PROVE  SetNode(Gone(SetNode(mem, g), p, d), h) = SetNode(Gone(mem, p, d), h)
  <2>1. /\ IsMem(SetNode(mem, g)) /\ SetNode(mem, g).scm = mem.scm
        /\ SetNode(mem, g).end = mem.end /\ SetNode(mem, g).word = mem.word
        /\ SetNode(mem, g).root = mem.root /\ SetNode(mem, g).items = mem.items
        /\ SetNode(mem, g).unique = mem.unique
    BY SetNodeIs
  <2>2. Gone(SetNode(mem, g), p, d) =
        [scm |-> scm_free(scm_free(mem.scm, p), d), end |-> mem.end,
         node |-> SetNode(mem, g).node, word |-> mem.word, root |-> mem.root,
         items |-> mem.items - 1, unique |-> mem.unique - 1]
    BY <1>1, <2>1
  <2>. QED BY <1>1, <2>2 DEF SetNode
<1>3. LET x == Gone(mem, p, d)
      IN  /\ IsMem(x) /\ x.node = mem.node
          /\ x.scm = scm_free(scm_free(mem.scm, p), d)
          /\ x.end = mem.end /\ x.word = mem.word /\ x.root = mem.root
          /\ x.items = mem.items - 1 /\ x.unique = mem.unique - 1
  BY <1>1 DEF IsMem
<1>. QED BY <1>2, <1>3

-----------------------------------------------------------------------------
(* A node without two children *)

LEMMA LeafCut ==
  ASSUME NEW mem, IsMem(mem), Shallow(mem.node), NEW b \in DOMAIN mem.node,
         ~(mem.node[b].count > 1),
         mem.node[b].left = NULL, mem.node[b].right = NULL
  PROVE  /\ Moved(mem.node, mem.node, Sub(mem.node, b), b, b)
         /\ Cut(Gone(mem, mem.node[b].item, b), mem.node, mem.word, b, b,
                RemoveFew(mem, b))
<1>. DEFINE node == mem.node
            base == Gone(mem, mem.node[b].item, b)
            u == RemoveFew(mem, b)
<1>1. Graph(node) /\ Level(node, b) BY DEF Shallow, Leveled
<1>2. Sub(node, b) = {b} BY <1>1, SubUnfold, SubNull
<1>3. Moved(node, node, Sub(node, b), b, b)
  BY <1>1, <1>2 DEF Moved, Alike, Holding
<1>4. u = At(base, NULL) BY DEF RemoveFew, Gone
<1>5. IsMem(base) /\ base.node = node BY GoneIs
<1>. HIDE DEF base, u
<1>6. u.mem = SetNode(base, node) /\ u.root = NULL
  BY <1>4, <1>5, SetNodeIs DEF At
<1>7. delta(node, b) = 0
  <2>1. node[b].depth = 0 BY <1>1 DEF Level, depth, delta
  <2>. QED BY <1>1, <2>1, NullIsNone DEF delta
<1>8. Shrunk(node, mem.word, b, Top(node, NULL), b)
  <2>1. delta(node, NULL) = -1 BY DEF delta
  <2>2. AVL(node, mem.word, NULL) BY AVLNull
  <2>3. Sub(node, NULL) = {} BY SubNull
  <2>4. Kept(node, node, Sub(node, b)) BY <1>1, KeptSelf
  <2>5. Top(node, NULL).node = node /\ Top(node, NULL).root = NULL BY DEF Top
  <2>. HIDE DEF node
  <2>. QED BY <1>2, <1>7, <2>1, <2>2, <2>3, <2>4, <2>5 DEF Shrunk, Places
<1>9. Top(node, NULL).node = node /\ Top(node, NULL).root = NULL BY DEF Top
<1>10. Cut(base, node, mem.word, b, b, u)
  BY <1>5, <1>6, <1>8, <1>9, CutIs
<1>. QED BY <1>3, <1>10 DEF base, u

(* The only child of a node that is not deeper on its other side. *)
LEMMA OnlyChild ==
  ASSUME NEW node, Shallow(node), NEW b \in DOMAIN node,
         NEW c \in DOMAIN node,
         \/ node[b].left = c /\ node[b].right = NULL
         \/ node[b].right = c /\ node[b].left = NULL
  PROVE  /\ node[c].left = NULL /\ node[c].right = NULL /\ node[c].depth = 0
         /\ node[b].depth = 1 /\ c # b
         /\ Sub(node, b) = {b, c} /\ Sub(node, c) = {c}
<1>1. Graph(node) /\ Level(node, b) /\ Level(node, c)
  BY DEF Shallow, Leveled
<1>2. delta(node, NULL) = -1 BY DEF delta
<1>3. b \in Places(node) /\ c \in Places(node) /\ b # NULL /\ c # NULL
  BY <1>1, GraphIs DEF Places
<1>4. /\ delta(node, b) = node[b].depth /\ delta(node, c) = node[c].depth
      /\ delta(node, c) >= 0 /\ delta(node, c) \in Int
  BY <1>1, <1>3, DeltaIs
<1>5. delta(node, c) = 0 /\ delta(node, b) = 1
  <2>1. LET dl == delta(node, node[b].left)
            dr == delta(node, node[b].right)
            d  == delta(node, b)
        IN  /\ dl \in Int /\ dr \in Int
            /\ \/ dl = dr /\ d = dl + 1
               \/ dl = dr + 1 /\ d = dl + 1
               \/ dr = dl + 1 /\ d = dr + 1
    BY <1>1, LevelIs
  <2>2. CASE node[b].left = c /\ node[b].right = NULL
    BY <1>2, <1>4, <2>1, <2>2
  <2>3. CASE node[b].right = c /\ node[b].left = NULL
    BY <1>2, <1>4, <2>1, <2>3
  <2>. QED BY <2>2, <2>3
<1>6. node[c].left = NULL /\ node[c].right = NULL
  <2>1. LET dl == delta(node, node[c].left)
            dr == delta(node, node[c].right)
            d  == delta(node, c)
        IN  /\ dl \in Int /\ dr \in Int /\ dl >= -1 /\ dr >= -1
            /\ \/ dl = dr /\ d = dl + 1
               \/ dl = dr + 1 /\ d = dl + 1
               \/ dr = dl + 1 /\ d = dr + 1
    BY <1>1, LevelIs
  <2>2. ~(delta(node, node[c].left) >= 0) /\ ~(delta(node, node[c].right) >= 0)
    BY <1>5, <2>1
  <2>3. node[c].left \in Places(node) /\ node[c].right \in Places(node)
    BY <1>1, GraphIs
  <2>. QED BY <1>1, <2>2, <2>3, DeltaIs
<1>7. Sub(node, c) = {c} BY <1>1, <1>6, SubUnfold, SubNull
<1>8. Sub(node, b) = {b, c} BY <1>1, <1>7, SubUnfold, SubNull
<1>. QED BY <1>4, <1>5, <1>6, <1>7, <1>8

LEMMA ChildCut ==
  ASSUME NEW mem, IsMem(mem), Shallow(mem.node), NEW b \in DOMAIN mem.node,
         ~(mem.node[b].count > 1), NEW c \in DOMAIN mem.node,
         \/ mem.node[b].left = c /\ mem.node[b].right = NULL
         \/ mem.node[b].right = c /\ mem.node[b].left = NULL
  PROVE  LET n1 == Took(mem.node, b, c)
         IN  /\ Moved(mem.node, n1, Sub(mem.node, b), b, c)
             /\ Cut(Gone(mem, mem.node[c].item, c), n1, mem.word, b, c,
                    RemoveFew(mem, b))
<1>. DEFINE node == mem.node
            n1 == Took(node, b, c)
            base == Gone(mem, mem.node[c].item, c)
            g == [node EXCEPT ![b] = node[c]]
            u == RemoveFew(mem, b)
<1>1. Graph(node) BY DEF Shallow
<1>2. /\ node[c].left = NULL /\ node[c].right = NULL /\ node[c].depth = 0
      /\ node[b].depth = 1 /\ c # b
      /\ Sub(node, b) = {b, c} /\ Sub(node, c) = {c}
  <2>. HIDE DEF node
  <2>1. Shallow(node) BY DEF node
  <2>2. \/ node[b].left = c /\ node[b].right = NULL
        \/ node[b].right = c /\ node[b].left = NULL
    BY DEF node
  <2>3. b \in DOMAIN node /\ c \in DOMAIN node BY DEF node
  <2>. QED BY <2>1, <2>2, <2>3, OnlyChild
<1>3. /\ Alike(node, n1) /\ Graph(n1) /\ DOMAIN n1 = DOMAIN node
      /\ n1[b].item = node[c].item /\ n1[b].count = node[c].count
      /\ \A e \in DOMAIN node \ {b} : n1[e] = node[e]
      /\ n1[b].depth = 1
  <2>1. b \in DOMAIN node /\ c \in DOMAIN node OBVIOUS
  <2>. HIDE DEF node
  <2>2. /\ Alike(node, n1)
        /\ n1[b].item = node[c].item /\ n1[b].count = node[c].count
        /\ \A e \in DOMAIN node \ {b} : n1[e] = node[e]
    BY <1>1, <2>1, TookIs
  <2>. HIDE DEF n1
  <2>. QED BY <1>2, <2>1, <2>2 DEF Alike
<1>. HIDE DEF n1
<1>4. Moved(node, n1, Sub(node, b), b, c)
  <2>1. Sub(node, b) \ {c} = {b} /\ Sub(node, b) \ {b} = {c} BY <1>2
  <2>2. Holding(n1, {b}) = Holding(node, {c}) BY <1>3 DEF Holding
  <2>. QED BY <1>2, <1>3, <2>1, <2>2 DEF Moved
<1>5. /\ DOMAIN g = DOMAIN node /\ g[b] = node[c] /\ Graph(g)
      /\ \A e \in DOMAIN node \ {b} : g[e] = node[e]
  BY <1>1 DEF Graph
<1>. HIDE DEF g
<1>6. Sub(g, b) = {b} BY <1>2, <1>5, SubUnfold, SubNull
<1>7. Level(g, b) BY <1>2, <1>5 DEF Level, depth, balance, delta
<1>8. AVL(g, mem.word, b)
  <2>1. Ordered(g, mem.word, b) BY <1>2, <1>5, SubNull DEF Ordered
  <2>. QED BY <1>6, <1>7, <2>1 DEF AVL
<1>9. Rebalanced(SetDepth(g, b), b) = Top(g, b)
  <2>1. SetDepth(g, b) = g BY <1>5, <1>7, SetDepthSame DEF Level
  <2>2. ~(balance(g, b) > 1) /\ ~(balance(g, b) < -1) BY <1>7 DEF Level
  <2>. QED BY <2>1, <2>2 DEF Rebalanced
<1>10. Sub(n1, b) = Sub(node, b) /\ delta(n1, b) = 1 /\ delta(g, b) = 0
  <2>1. b \in Places(node) /\ b # NULL BY <1>1, GraphIs DEF Places
  <2>. QED BY <1>1, <1>2, <1>3, <1>5, <2>1, AlikeIs DEF delta
<1>11. Shrunk(n1, mem.word, b, Top(g, b), c)
  <2>1. Kept(n1, g, Sub(n1, b))
    <3>1. \A e \in DOMAIN n1 : g[e].count = n1[e].count /\ g[e].item = n1[e].item
      BY <1>3, <1>5
    <3>2. \A e \in DOMAIN n1 \ {b, c} : g[e] = n1[e] BY <1>3, <1>5
    <3>. QED BY <1>2, <1>3, <1>5, <1>10, <3>1, <3>2 DEF Kept
  <2>2. Top(g, b).node = g /\ Top(g, b).root = b BY DEF Top
  <2>3. b \in Places(n1) BY <1>3 DEF Places
  <2>4. Sub(g, b) = Sub(n1, b) \ {c} /\ c \in Sub(n1, b) BY <1>2, <1>6, <1>10
  <2>. QED BY <1>8, <1>10, <2>1, <2>2, <2>3, <2>4 DEF Shrunk
<1>12. IsMem(base) /\ base.node = node BY GoneIs
<1>13. u = At([base EXCEPT !.node = g], b)
  <2>. DEFINE temp == IF node[b].left # NULL THEN node[b].left ELSE node[b].right
              copy == Rebalanced(SetDepth([node EXCEPT ![b] = node[temp]], b), b)
  <2>1. temp = c /\ c # NULL BY <1>1, GraphIs
  <2>2. copy = Top(g, b) BY SMTT(60), <1>9, <2>1 DEF g
  <2>3. u = At([Uncounted(Free(Free(mem, mem.node[temp].item), temp))
                  EXCEPT !.node = copy.node], copy.root)
    BY <2>1 DEF RemoveFew
  <2>4. copy.node = g /\ copy.root = b BY <2>2 DEF Top
  <2>. HIDE DEF copy, temp, u
  <2>5. u = At([Uncounted(Free(Free(mem, mem.node[c].item), c))
                  EXCEPT !.node = g], b)
    BY <2>1, <2>3, <2>4
  <2>. QED BY <2>5 DEF Gone
<1>. HIDE DEF base, u
<1>14. u.mem = SetNode(base, g) /\ u.root = b BY <1>13 DEF At, SetNode
<1>15. Top(g, b).node = g /\ Top(g, b).root = b BY DEF Top
<1>16. Cut(base, n1, mem.word, b, c, u)
  BY <1>11, <1>12, <1>14, <1>15, CutIs
<1>. QED BY <1>4, <1>16 DEF base, u, n1

(* A node without two children goes, or its child does in its place. *)
LEMMA FewCut ==
  ASSUME NEW mem, IsMem(mem), Shallow(mem.node), NEW b \in DOMAIN mem.node,
         ~(mem.node[b].count > 1),
         mem.node[b].left = NULL \/ mem.node[b].right = NULL
  PROVE  \E n1, d :
           /\ Moved(mem.node, n1, Sub(mem.node, b), b, d)
           /\ Cut(Gone(mem, mem.node[d].item, d), n1, mem.word, b, d,
                  RemoveFew(mem, b))
<1>1. Graph(mem.node) BY DEF Shallow
<1>2. CASE mem.node[b].left = NULL /\ mem.node[b].right = NULL
  BY <1>2, LeafCut
<1>3. CASE mem.node[b].left # NULL
  <2>1. mem.node[b].left \in DOMAIN mem.node BY <1>1, <1>3, GraphIs DEF Places
  <2>. QED BY <1>3, <2>1, ChildCut
<1>4. CASE mem.node[b].left = NULL /\ mem.node[b].right # NULL
  <2>1. mem.node[b].right \in DOMAIN mem.node BY <1>1, <1>4, GraphIs DEF Places
  <2>. QED BY <1>4, <2>1, ChildCut
<1>. QED BY <1>2, <1>3, <1>4

-----------------------------------------------------------------------------
(* The next word *)

(* The next word after those below a is in the leftmost node. *)
LeastOfTree(node, word, a, c) ==
  /\ c \in Sub(node, a) /\ node[c].left = NULL
  /\ AVL(node, word, a) /\ Spelt(node, word, Sub(node, a))
       => \A e \in Sub(node, a) \ {c} : Key(node, word, c) < Key(node, word, e)

LEMMA LeastAtLeft ==
  ASSUME NEW node, Graph(node), NEW word, NEW a \in DOMAIN node,
         NEW c, IF node[a].left = NULL THEN c = a
                ELSE LeastOfTree(node, word, node[a].left, c)
  PROVE  LeastOfTree(node, word, a, c)
<1>. DEFINE l == node[a].left
            r == node[a].right
<1>1. /\ Sub(node, a) = {a} \cup Sub(node, l) \cup Sub(node, r)
      /\ a \in Sub(node, a)
  BY SubUnfold, SubSelf
<1>2. c \in Sub(node, a) /\ node[c].left = NULL
  BY <1>1 DEF LeastOfTree
<1>3. ASSUME AVL(node, word, a), Spelt(node, word, Sub(node, a)),
             NEW e \in Sub(node, a) \ {c}
      PROVE  Key(node, word, c) < Key(node, word, e)
  <2>1. /\ Ordered(node, word, a) /\ AVL(node, word, l) BY <1>3, AVLOpen
  <2>2. \A b \in Sub(node, a) : Key(node, word, b) \in Nat BY <1>3 DEF Spelt
  <2>3. CASE l = NULL
    <3>1. c = a /\ Sub(node, l) = {} BY <2>3, SubNull
    <3>. QED BY <1>1, <2>1, <3>1 DEF Ordered
  <2>4. CASE l # NULL
    <3>1. LeastOfTree(node, word, l, c) BY <2>4
    <3>2. c \in Sub(node, l) BY <3>1 DEF LeastOfTree
    <3>3. Key(node, word, c) < Key(node, word, a) BY <2>1, <3>2 DEF Ordered
    <3>4. Spelt(node, word, Sub(node, l)) BY <1>1, <2>2 DEF Spelt
    <3>5. CASE e \in Sub(node, l)
      BY <2>1, <3>1, <3>4, <3>5 DEF LeastOfTree
    <3>6. CASE e = a BY <3>3, <3>6
    <3>7. CASE e \in Sub(node, r)
      <4>1. Key(node, word, a) < Key(node, word, e) BY <2>1, <3>7 DEF Ordered
      <4>2. /\ Key(node, word, a) \in Nat /\ Key(node, word, c) \in Nat
            /\ Key(node, word, e) \in Nat
        BY <1>1, <1>2, <2>2
      <4>. QED BY <3>3, <4>1, <4>2
    <3>. QED BY <1>1, <3>5, <3>6, <3>7
  <2>. QED BY <2>3, <2>4
<1>. QED BY <1>2, <1>3 DEF LeastOfTree

LEMMA LeftmostIs ==
  ASSUME NEW node, Shallow(node), NEW word, NEW a \in DOMAIN node
  PROVE  LeastOfTree(node, word, a, Leftmost(node, a))
<1>. DEFINE P == Places(node)
            D == DOMAIN node
            E == {b \in P : b = NULL \/ node[b].left = NULL}
            v == [b \in P |-> b]
            p == [b \in D |-> node[b].left]
            Equation(f) ==
              f = [b \in D |-> IF node[b].left = NULL THEN b
                               ELSE f[node[b].left]]
            least[b \in D] == IF node[b].left = NULL THEN b
                              ELSE least[node[b].left]
<1>1. Graph(node) BY DEF Shallow
<1>2. \E f : f = [b \in P |-> IF b \in E THEN v[b] ELSE f[p[b]]]
  <2>1. NULL \in E BY DEF Places
  <2>2. \A b \in D : p[b] \in {node[b].left, node[b].right} OBVIOUS
  <2>. HIDE DEF E, v, p
  <2>. QED BY <2>1, <2>2, DescentIs
<1>3. PICK f : f = [b \in P |-> IF b \in E THEN v[b] ELSE f[p[b]]] BY <1>2
<1>4. \A b \in D : f[b] = IF node[b].left = NULL THEN b ELSE f[node[b].left]
  <2>1. ASSUME NEW b \in D
        PROVE  f[b] = IF node[b].left = NULL THEN b ELSE f[node[b].left]
    <3>1. b \in P /\ b # NULL BY <1>1, GraphIs DEF Places
    <3>2. f[b] = IF b \in E THEN v[b] ELSE f[p[b]]
      <4>. HIDE DEF E, v, p
      <4>. QED BY <1>3, <3>1
    <3>. QED BY <3>1, <3>2
  <2>. QED BY <2>1
<1>5. \A b \in D : node[b].left = NULL \/ node[b].left \in D
  BY <1>1, GraphIs DEF Places
<1>6. Equation([b \in D |-> f[b]])
  <2>. DEFINE h == [b \in D |-> f[b]]
  <2>1. \A b \in D : f[b] = IF node[b].left = NULL THEN b ELSE h[node[b].left]
    BY <1>4, <1>5
  <2>. HIDE DEF D
  <2>. QED BY <2>1
<1>7. Equation(least)
  <2>1. least = CHOOSE h : Equation(h) BY Zenon
  <2>. HIDE DEF Equation, least
  <2>. QED BY <1>6, <2>1, Zenon
<1>8. \A b \in D : least[b] = IF node[b].left = NULL THEN b
                              ELSE least[node[b].left]
  <2>. HIDE DEF least
  <2>. QED BY <1>7
<1>9. Leftmost(node, a) = least[a] BY Zenon DEF Leftmost
<1>. HIDE DEF least, Equation
<1>. DEFINE T == {b \in D : ~LeastOfTree(node, word, b, least[b])}
<1>10. ASSUME T # {} PROVE FALSE
  <2>1. T \subseteq P BY DEF Places
  <2>2. PICK b \in T : \A e \in T : delta(node, b) <= delta(node, e)
    <3>. HIDE DEF T
    <3>. QED BY <1>1, <1>10, <2>1, ShallowestOf
  <2>. DEFINE l == node[b].left
  <2>3. b \in D OBVIOUS
  <2>4. IF l = NULL THEN least[b] = b
        ELSE LeastOfTree(node, word, l, least[b])
    <3>1. CASE l = NULL BY <1>8, <2>3, <3>1
    <3>2. CASE l # NULL
      <4>1. l \in D BY <1>5, <2>3, <3>2
      <4>2. /\ delta(node, l) < delta(node, b)
            /\ delta(node, l) \in Int /\ delta(node, b) \in Int
        BY <2>3, GoesDown
      <4>3. ~(delta(node, b) <= delta(node, l)) BY <4>2
      <4>4. l \notin T BY <2>2, <4>3
      <4>5. least[b] = least[l] BY <1>8, <2>3, <3>2
      <4>. QED BY <3>2, <4>1, <4>4, <4>5
    <3>. QED BY <3>1, <3>2
  <2>5. LeastOfTree(node, word, b, least[b])
    <3>. HIDE DEF T
    <3>. QED BY <1>1, <2>3, <2>4, LeastAtLeft
  <2>. QED BY <2>2, <2>5
<1>. QED BY <1>9, <1>10

-----------------------------------------------------------------------------
(* A node with two children *)

(* The parts of RemoveInner(). *)
TookMem(mem, a) ==
  SetNode(mem, Took(mem.node, a, Leftmost(mem.node, mem.node[a].right)))

FewOf(mem) == [b \in DOMAIN mem.node |-> RemoveFew(mem, b)]

LEMMA RemoveInnerIs ==
  ASSUME NEW mem, NEW a
  PROVE  LET right == mem.node[a].right
             next  == Item(mem, Leftmost(mem.node, right))
             took  == TookMem(mem, a)
         IN  RemoveInner(mem, a) =
               Removed(took, a, next, RemoveIn(took, right, next, FewOf(took)))
<1>. DEFINE right == mem.node[a].right
            temp  == mem.node[Leftmost(mem.node, right)]
            next  == mem.word[temp.item]
            took  == [mem EXCEPT !.node[a].item = temp.item,
                                 !.node[a].count = temp.count]
            few   == [b \in DOMAIN took.node |-> RemoveFew(took, b)]
<1>1. RemoveInner(mem, a) =
        Removed(took, a, next, RemoveIn(took, right, next, few))
  BY DEF RemoveInner
<1>2. took = TookMem(mem, a) BY Zenon DEF TookMem, Took, SetNode
<1>. HIDE DEF took
<1>3. few = FewOf(took) BY DEF FewOf
<1>4. next = Item(mem, Leftmost(mem.node, right)) BY DEF Item
<1>. HIDE DEF few, next
<1>. QED BY <1>1, <1>2, <1>3, <1>4

LEMMA AlikeShallow ==
  ASSUME NEW node, Shallow(node), NEW x, Alike(node, x)
  PROVE  Shallow(x)
<1>1. Graph(node) /\ Leveled(node, DOMAIN node) BY DEF Shallow
<1>2. /\ Graph(x) /\ DOMAIN x = DOMAIN node /\ Places(x) = Places(node)
      /\ \A a \in Places(node) : delta(x, a) = delta(node, a)
      /\ \A a \in DOMAIN node : Level(node, a) => Level(x, a)
  BY <1>1, AlikeIs
<1>3. PICK n \in Nat : \A a \in Places(node) : delta(node, a) < n BY DEF Shallow
<1>4. \A a \in Places(x) : delta(x, a) < n BY <1>2, <1>3
<1>. QED BY <1>1, <1>2, <1>4 DEF Shallow, Leveled

(* The node of the next word is c, below the right child r. *)
NextIs(mem, a, r, c, took) ==
  LET node == mem.node
  IN  /\ IsMem(took) /\ took.node = Took(node, a, c) /\ took.word = mem.word
      /\ took = SetNode(mem, Took(node, a, c))
      /\ Alike(node, took.node) /\ Shallow(took.node)
      /\ c \in DOMAIN node /\ c # a /\ node[c].left = NULL
      /\ c \in Sub(node, r) /\ a \notin Sub(node, r)
      /\ took.node[a].item = node[c].item /\ took.node[a].count = node[c].count
      /\ \A e \in DOMAIN node \ {a} : took.node[e] = node[e]
      /\ Tree(took, r) /\ Sub(took.node, r) = Sub(node, r)
      /\ \A e \in Sub(node, r) \ {c} : Item(mem, c) < Item(mem, e)
      /\ \A e \in DOMAIN node \ {a} : Item(took, e) = Item(mem, e)
      /\ Item(took, a) = Item(mem, c)

LEMMA NextIsSo ==
  ASSUME NEW mem, IsMem(mem), Shallow(mem.node), NEW a \in DOMAIN mem.node,
         Tree(mem, a), NEW r, r = mem.node[a].right, r # NULL
  PROVE  NextIs(mem, a, r, Leftmost(mem.node, r), TookMem(mem, a))
<1>. DEFINE node == mem.node
            word == mem.word
            c == Leftmost(node, r)
            g == Took(node, a, c)
            took == TookMem(mem, a)
<1>1. Graph(node) BY DEF Shallow
<1>2. r \in DOMAIN node /\ r \in Places(node) BY <1>1, GraphIs DEF Places
<1>3. /\ AVL(node, word, r) /\ Spelt(node, word, Sub(node, r))
      /\ Tree(mem, r)
  <2>1. Tree(mem, r) BY <1>1, TreeOpen
  <2>. QED BY <2>1 DEF Tree
<1>4. LeastOfTree(node, word, r, c) BY <1>2, LeftmostIs
<1>. HIDE DEF c
<1>5. /\ c \in Sub(node, r) /\ node[c].left = NULL
      /\ \A e \in Sub(node, r) \ {c} : Key(node, word, c) < Key(node, word, e)
  BY <1>3, <1>4 DEF LeastOfTree
<1>6. a \notin Sub(node, r)
  <2>1. /\ Ordered(node, word, a) /\ Spelt(node, word, Sub(node, a))
    BY <1>1, AVLOpen DEF Tree
  <2>. QED BY <1>1, <2>1, Apart
<1>7. c \in DOMAIN node /\ c # a BY <1>5, <1>6, SubIn
<1>8. /\ Alike(node, g) /\ g[a].item = node[c].item /\ g[a].count = node[c].count
      /\ \A e \in DOMAIN node \ {a} : g[e] = node[e]
  <2>1. a \in DOMAIN node OBVIOUS
  <2>. HIDE DEF node
  <2>. QED BY <1>1, <1>7, <2>1, TookIs
<1>9. /\ took = SetNode(mem, g) /\ IsMem(took) /\ took.node = g
      /\ took.word = mem.word
  <2>1. took = SetNode(mem, g) BY DEF TookMem, c
  <2>. HIDE DEF g, took
  <2>. QED BY <2>1, SetNodeIs
<1>. HIDE DEF g, took
<1>10. Shallow(g) /\ Graph(g)
  <2>1. Shallow(node) OBVIOUS
  <2>. QED BY <1>8, <2>1, AlikeShallow DEF Alike
<1>11. Sub(g, r) = Sub(node, r) BY <1>1, <1>2, <1>8, AlikeIs
<1>12. \A e \in DOMAIN node \ {a} : Key(g, word, e) = Key(node, word, e)
  BY <1>8 DEF Key
<1>13. Key(g, word, a) = Key(node, word, c) BY <1>8 DEF Key
<1>14. \A e \in Sub(node, r) : e \in DOMAIN node \ {a}
  <2>1. Sub(node, r) \subseteq DOMAIN node BY SubIn
  <2>. QED BY <1>6, <2>1
<1>15. AVL(g, word, r)
  <2>1. Same(node, word, g, word, Sub(node, r))
    BY <1>8, <1>12, <1>14 DEF Same, Alike
  <2>. QED BY <1>1, <1>2, <1>3, <1>10, <2>1, AVLSame
<1>16. Tree(took, r)
  <2>1. Spelt(g, word, Sub(g, r)) BY <1>3, <1>11, <1>12, <1>14 DEF Spelt
  <2>2. r \in Places(g) BY <1>2, <1>8 DEF Alike, Places
  <2>. QED BY <1>9, <1>15, <2>1, <2>2 DEF Tree
<1>17. /\ \A e : Item(mem, e) = Key(node, word, e)
       /\ \A e : Item(took, e) = Key(g, word, e)
  BY <1>9, ItemIsKey
<1>18. /\ \A e \in Sub(node, r) \ {c} : Item(mem, c) < Item(mem, e)
       /\ \A e \in DOMAIN node \ {a} : Item(took, e) = Item(mem, e)
       /\ Item(took, a) = Item(mem, c)
  BY <1>5, <1>12, <1>13, <1>17
<1>19. NextIs(mem, a, r, c, took)
  BY <1>5, <1>6, <1>7, <1>8, <1>9, <1>10, <1>11, <1>16, <1>18 DEF NextIs, g
<1>. QED BY <1>19 DEF c, took

(* The next word was inserted more than once: it is then in two nodes. *)
LEMMA InnerStays ==
  ASSUME NEW mem, IsMem(mem), Shallow(mem.node), NEW a \in DOMAIN mem.node,
         Tree(mem, a), NEW r, r = mem.node[a].right, r # NULL,
         NEW c, NEW took, NextIs(mem, a, r, c, took),
         c = Leftmost(mem.node, r), took = TookMem(mem, a),
         mem.node[c].count > 1
  PROVE  RemoveInner(mem, a) = At(RemoveCount(took, c), a)
<1>. DEFINE next == Item(mem, c)
            x == RemoveCount(took, c)
            few == FewOf(took)
<1>1. /\ IsMem(took) /\ Alike(mem.node, took.node) /\ Shallow(took.node)
      /\ c \in DOMAIN mem.node /\ c # a /\ c \in Sub(mem.node, r)
      /\ took.node[c] = mem.node[c] /\ Tree(took, r)
      /\ Sub(took.node, r) = Sub(mem.node, r)
      /\ Item(took, c) = next /\ Item(took, a) = next
  BY DEF NextIs
<1>2. /\ Graph(took.node) /\ DOMAIN took.node = DOMAIN mem.node
      /\ c \in DOMAIN took.node /\ a \in DOMAIN took.node
  BY <1>1 DEF Alike
<1>3. r \in Places(took.node) BY <1>1 DEF Tree
<1>4. IsMem(x) /\ Alike(took.node, x.node)
  BY <1>1, <1>2, RemoveCountIs
<1>5. few[c] = At(x, c) BY Zenon, <1>1, <1>2 DEF FewOf, RemoveFew
<1>6. RemoveInner(mem, a) =
        Removed(took, a, next, RemoveIn(took, r, next, few))
  BY RemoveInnerIs
<1>. HIDE DEF next, x, few
<1>7. RemoveIn(took, r, next, few) = At(x, r)
  BY <1>1, <1>2, <1>3, <1>4, <1>5, RemoveStays
<1>8. ~(next < Item(took, a))
  <2>1. Spelt(took.node, took.word, Sub(took.node, r)) BY <1>1 DEF Tree
  <2>2. next \in Nat BY <1>1, <2>1, ItemIsKey DEF Spelt
  <2>. QED BY <1>1, <2>2
<1>9. Graph(x.node) /\ DOMAIN x.node = DOMAIN took.node
  BY <1>4 DEF Alike
<1>10. Level(x.node, a)
  <2>1. Level(took.node, a) BY <1>1, <1>2 DEF Shallow, Leveled
  <2>. QED BY <1>2, <1>4, <2>1, AlikeIs
<1>11. r = IF next < Item(took, a) THEN x.node[a].left ELSE x.node[a].right
  BY <1>1, <1>2, <1>4, <1>8 DEF Alike
<1>12. Removed(took, a, next, At(x, r)) = At(x, a)
  BY <1>2, <1>4, <1>9, <1>10, <1>11, Stays
<1>. QED BY SMTT(60), <1>6, <1>7, <1>12 DEF x

LEMMA TookMoved ==
  ASSUME NEW node, Graph(node), NEW a \in DOMAIN node, NEW c \in DOMAIN node,
         NEW r, r = node[a].right, c \in Sub(node, r), a \notin Sub(node, r),
         NEW g, Alike(node, g), g[a].item = node[c].item,
         g[a].count = node[c].count, \A e \in DOMAIN node \ {a} : g[e] = node[e],
         NEW n1, NEW d, Moved(g, n1, Sub(g, c), c, d)
  PROVE  Moved(node, n1, Sub(node, a), a, d)
<1>. DEFINE S == Sub(node, c)
            R == Sub(node, a)
            Pair(x, e) == <<x[e].item, x[e].count>>
<1>1. /\ Sub(node, r) \subseteq R /\ a \in R /\ S \subseteq Sub(node, r)
      /\ R \subseteq DOMAIN node /\ c \in S
  BY SubSelf, SubTransitive, SubIn
<1>2. Sub(g, c) = S
  <2>1. c \in Places(node) BY DEF Places
  <2>. QED BY <2>1, AlikeIs
<1>3. /\ Alike(g, n1) /\ d \in S /\ \A e \in DOMAIN g \ S : n1[e] = g[e]
      /\ Holding(n1, S \ {d}) = Holding(g, S \ {c})
  BY <1>2 DEF Moved
<1>4. Alike(node, n1) /\ DOMAIN g = DOMAIN node BY <1>3 DEF Alike
<1>. HIDE DEF S, R
<1>5. \A x, T : Holding(x, T) = {Pair(x, e) : e \in T} BY DEF Holding
<1>6. ASSUME NEW e \in R \ {d} PROVE \E f \in R \ {a} : Pair(n1, e) = Pair(node, f)
  <2>1. CASE e \in S
    <3>1. Pair(n1, e) \in Holding(g, S \ {c}) BY <1>3, <1>5, <2>1
    <3>2. PICK f \in S \ {c} : Pair(n1, e) = Pair(g, f) BY <1>5, <3>1
    <3>3. f \in R \ {a} /\ g[f] = node[f] BY <1>1
    <3>. QED BY <3>2, <3>3
  <2>2. CASE e \notin S
    <3>1. n1[e] = g[e] BY <1>1, <1>3, <1>4, <2>2
    <3>2. CASE e = a
      <4>1. Pair(g, a) = Pair(node, c) OBVIOUS
      <4>2. c \in R \ {a} BY <1>1
      <4>. QED BY <3>1, <3>2, <4>1, <4>2
    <3>3. CASE e # a
      <4>1. g[e] = node[e] BY <1>1, <3>3
      <4>. QED BY <3>1, <3>3, <4>1
    <3>. QED BY <3>2, <3>3
  <2>. QED BY <2>1, <2>2
<1>7. ASSUME NEW e \in R \ {a} PROVE \E f \in R \ {d} : Pair(node, e) = Pair(n1, f)
  <2>1. CASE e = c
    <3>1. a \in R \ {d} /\ a \in DOMAIN g \ S BY <1>1, <1>3, <1>4
    <3>2. Pair(n1, a) = Pair(g, a) BY <1>3, <3>1
    <3>3. Pair(g, a) = Pair(node, c) OBVIOUS
    <3>. QED BY <2>1, <3>1, <3>2, <3>3
  <2>2. CASE e \in S \ {c}
    <3>1. g[e] = node[e] BY <1>1
    <3>2. Pair(node, e) \in Holding(g, S \ {c}) BY <1>5, <2>2, <3>1
    <3>3. PICK f \in S \ {d} : Pair(node, e) = Pair(n1, f) BY <1>3, <1>5, <3>2
    <3>4. f \in R \ {d} BY <1>1
    <3>. QED BY <3>3, <3>4
  <2>3. CASE e \notin S
    <3>1. g[e] = node[e] /\ n1[e] = g[e] /\ e # d BY <1>1, <1>3, <1>4, <2>3
    <3>. QED BY <3>1
  <2>. QED BY <2>1, <2>2, <2>3
<1>8. Holding(n1, R \ {d}) = Holding(node, R \ {a})
  <2>1. Holding(n1, R \ {d}) = {Pair(n1, e) : e \in R \ {d}} BY <1>5
  <2>2. Holding(node, R \ {a}) = {Pair(node, e) : e \in R \ {a}} BY <1>5
  <2>. DEFINE p(e) == Pair(n1, e)
              q(e) == Pair(node, e)
  <2>3. /\ \A e \in R \ {d} : \E f \in R \ {a} : p(e) = q(f)
        /\ \A e \in R \ {a} : \E f \in R \ {d} : q(e) = p(f)
    BY <1>6, <1>7
  <2>4. /\ Holding(n1, R \ {d}) = {p(e) : e \in R \ {d}}
        /\ Holding(node, R \ {a}) = {q(e) : e \in R \ {a}}
    BY Zenon, <2>1, <2>2
  <2>. HIDE DEF p, q
  <2>5. {p(e) : e \in R \ {d}} = {q(e) : e \in R \ {a}} BY <2>3
  <2>. QED BY Zenon, <2>4, <2>5
<1>9. \A e \in DOMAIN node \ R : n1[e] = node[e] BY <1>1, <1>3, <1>4
<1>10. d \in R BY <1>1, <1>3
<1>11. Moved(node, n1, R, a, d) BY <1>1, <1>4, <1>8, <1>9, <1>10 DEF Moved
<1>. QED BY <1>11 DEF R

(* What holds of the tree below a whose right side lost the next word. *)
LEMMA ShrinkInner ==
  ASSUME NEW mem, Shallow(mem.node), NEW a \in DOMAIN mem.node, Tree(mem, a),
         NEW r, r = mem.node[a].right, NEW c, NEW took,
         NextIs(mem, a, r, c, took),
         NEW n1, NEW d, Moved(took.node, n1, Sub(took.node, c), c, d),
         NEW x, Shrunk(n1, mem.word, r, x, d)
  PROVE  Shrunk(n1, mem.word, a,
                Rebalanced(SetDepth(SetRight(x.node, a, x.root), a), a), d)
<1>. DEFINE node == mem.node
            word == mem.word
            g == took.node
            l == node[a].left
            S == Sub(node, c)
<1>1. Graph(node) /\ Level(node, a) BY DEF Shallow, Leveled
<1>2. /\ Alike(node, g) /\ Shallow(g)
      /\ c \in DOMAIN node /\ c # a
      /\ c \in Sub(node, r) /\ a \notin Sub(node, r)
      /\ g[a].item = node[c].item
      /\ \A e \in DOMAIN node \ {a} : g[e] = node[e]
      /\ \A e \in Sub(node, r) \ {c} : Item(mem, c) < Item(mem, e)
  BY DEF NextIs
<1>3. /\ AVL(node, word, l) /\ Ordered(node, word, a)
      /\ Spelt(node, word, Sub(node, a))
      /\ l \in Places(node) /\ r \in Places(node)
      /\ Sub(node, a) = {a} \cup Sub(node, l) \cup Sub(node, r)
  BY <1>1, AVLOpen, SubUnfold, GraphIs DEF Tree
<1>4. /\ a \notin Sub(node, l) /\ Sub(node, r) \cap Sub(node, l) = {}
      /\ S \subseteq Sub(node, r) /\ c \in S
      /\ Sub(node, r) \subseteq DOMAIN node /\ Sub(node, l) \subseteq DOMAIN node
  <2>1. /\ a \notin Sub(node, l)
        /\ Sub(node, l) \cap Sub(node, r) = {}
    BY Zenon, <1>1, <1>3, Apart
  <2>2. S \subseteq Sub(node, r) /\ c \in S
    BY <1>1, <1>2, <1>3, SubTransitive, SubSelf
  <2>3. Sub(node, r) \subseteq DOMAIN node /\ Sub(node, l) \subseteq DOMAIN node
    BY <1>1, <1>3, SubIn
  <2>. QED BY <2>1, <2>2, <2>3
<1>5. Sub(g, c) = S
  <2>1. c \in Places(node) BY <1>2 DEF Places
  <2>. QED BY <1>1, <1>2, <2>1, AlikeIs
<1>. HIDE DEF S, g
<1>6. /\ Moved(g, n1, S, c, d) /\ Alike(g, n1) /\ d \in S BY <1>5 DEF Moved, g
<1>7. Alike(node, n1) /\ DOMAIN g = DOMAIN node BY <1>2, <1>6 DEF Alike
<1>8. /\ Graph(n1) /\ DOMAIN n1 = DOMAIN node
      /\ Sub(n1, l) = Sub(node, l) /\ Sub(n1, r) = Sub(node, r)
      /\ Level(n1, a)
  BY <1>1, <1>3, <1>7, AlikeIs
<1>9. n1[a].right = r /\ n1[a].left = l BY <1>7 DEF Alike
<1>10. /\ \A e \in S \ {d} : \E f \in S \ {c} : Key(n1, word, e) = Key(g, word, f)
       /\ \A e \in DOMAIN node \ S : Key(n1, word, e) = Key(g, word, e)
  BY <1>6, <1>7, MovedKeys
<1>11. \A e \in DOMAIN node \ {a} : Key(g, word, e) = Key(node, word, e)
  BY <1>2 DEF Key
<1>12. Key(g, word, a) = Key(node, word, c) BY <1>2 DEF Key
<1>13. Key(n1, word, a) = Key(node, word, c) BY <1>2, <1>4, <1>10, <1>12
<1>14. \A e \in Sub(node, a) : Key(node, word, e) \in Nat BY <1>3 DEF Spelt
<1>15. \A e \in Sub(node, r) \ {c} : Key(node, word, c) < Key(node, word, e)
  BY <1>2, ItemIsKey
<1>16. AVL(n1, word, l)
  <2>1. ASSUME NEW e \in Sub(node, l) PROVE n1[e] = node[e] /\ e \in DOMAIN node
    <3>1. e \in DOMAIN node /\ e # a /\ e \notin S BY <1>4
    <3>. QED BY <1>2, <1>6, <1>7, <3>1 DEF Moved
  <2>2. Same(node, word, n1, word, Sub(node, l)) BY <1>8, <2>1 DEF Same, Key
  <2>. QED BY <1>1, <1>3, <1>8, <2>2, AVLSame
<1>17. Upper(n1, word, a, Sub(n1, r) \ {d})
  <2>1. ASSUME NEW e \in Sub(node, r) \ {d}
        PROVE  \E f \in Sub(node, r) \ {c} : Key(n1, word, e) = Key(node, word, f)
    <3>1. CASE e \in S
      <4>1. PICK f \in S \ {c} : Key(n1, word, e) = Key(g, word, f) BY <1>10, <3>1
      <4>2. f \in Sub(node, r) \ {c} /\ f \in DOMAIN node \ {a} BY <1>2, <1>4
      <4>. QED BY <1>11, <4>1, <4>2
    <3>2. CASE e \notin S
      <4>1. e \in DOMAIN node \ {a} /\ e # c BY <1>2, <1>4, <3>2
      <4>2. Key(n1, word, e) = Key(node, word, e) BY <1>10, <1>11, <3>2, <4>1
      <4>. QED BY <4>1, <4>2
    <3>. QED BY <3>1, <3>2
  <2>2. ASSUME NEW e \in Sub(node, r) \ {d}
        PROVE  Key(n1, word, e) \in Nat /\ Key(n1, word, a) < Key(n1, word, e)
    BY <1>3, <1>13, <1>14, <1>15, <2>1
  <2>. QED BY <1>8, <2>2 DEF Upper
<1>18. Lower(n1, word, a, Sub(n1, l))
  <2>1. ASSUME NEW e \in Sub(node, l)
        PROVE  Key(n1, word, e) \in Nat /\ Key(n1, word, e) < Key(n1, word, a)
    <3>1. e \in DOMAIN node \ {a} /\ e \notin S BY <1>4
    <3>2. Key(n1, word, e) = Key(node, word, e) BY <1>10, <1>11, <3>1
    <3>3. Key(node, word, e) < Key(node, word, a) BY <1>3 DEF Ordered
    <3>4. Key(node, word, a) < Key(node, word, c) BY <1>2, <1>3 DEF Ordered
    <3>5. /\ Key(node, word, e) \in Nat /\ Key(node, word, a) \in Nat
          /\ Key(node, word, c) \in Nat
      BY <1>2, <1>3, <1>14
    <3>. QED BY <1>13, <3>2, <3>3, <3>4, <3>5
  <2>. QED BY <1>8, <2>1 DEF Lower
<1>19. /\ a \notin Sub(n1, n1[a].right) /\ Key(n1, word, a) \in Nat
       /\ Sub(n1, n1[a].right) \cap Sub(n1, n1[a].left) = {}
       /\ a \in DOMAIN n1 /\ AVL(n1, word, n1[a].left)
       /\ Upper(n1, word, a, Sub(n1, n1[a].right) \ {d})
       /\ Lower(n1, word, a, Sub(n1, n1[a].left))
       /\ Shrunk(n1, word, n1[a].right, x, d)
  BY <1>2, <1>3, <1>4, <1>8, <1>9, <1>13, <1>14, <1>16, <1>17, <1>18
<1>. HIDE DEF word
<1>20. Shrunk(n1, word, a,
              Rebalanced(SetDepth(SetRight(x.node, a, x.root), a), a), d)
  BY <1>8, <1>19, ShrinkRight
<1>. QED BY <1>20 DEF word

(* The next word was inserted once: its node goes. *)
LEMMA InnerCut ==
  ASSUME NEW mem, IsMem(mem), Shallow(mem.node), NEW a \in DOMAIN mem.node,
         Tree(mem, a), NEW r, r = mem.node[a].right, r # NULL,
         NEW c, NEW took, NextIs(mem, a, r, c, took),
         c = Leftmost(mem.node, r), took = TookMem(mem, a),
         ~(mem.node[c].count > 1)
  PROVE  \E n1, d :
           /\ Moved(mem.node, n1, Sub(mem.node, a), a, d)
           /\ Cut(Gone(mem, mem.node[d].item, d), n1, mem.word, a, d,
                  RemoveInner(mem, a))
<1>. DEFINE next == Item(mem, c)
            few == FewOf(took)
            u == RemoveIn(took, r, next, few)
<1>1. /\ IsMem(took) /\ Alike(mem.node, took.node) /\ Shallow(took.node)
      /\ c \in DOMAIN mem.node /\ c # a /\ c \in Sub(mem.node, r)
      /\ mem.node[c].left = NULL /\ took.word = mem.word
      /\ a \notin Sub(mem.node, r)
      /\ took = SetNode(mem, Took(mem.node, a, c))
      /\ took.node[c] = mem.node[c] /\ Tree(took, r)
      /\ took.node[a].item = mem.node[c].item
      /\ took.node[a].count = mem.node[c].count
      /\ \A e \in DOMAIN mem.node \ {a} : took.node[e] = mem.node[e]
      /\ Sub(took.node, r) = Sub(mem.node, r)
      /\ Item(took, c) = next /\ Item(took, a) = next
  BY DEF NextIs
<1>2. /\ Graph(took.node) /\ DOMAIN took.node = DOMAIN mem.node
      /\ c \in DOMAIN took.node /\ a \in DOMAIN took.node
      /\ Graph(mem.node)
  BY ZenonT(60), <1>1 DEF Alike, Shallow
<1>3. r \in Places(took.node) BY <1>1 DEF Tree
<1>4. PICK n1, d :
        /\ Moved(took.node, n1, Sub(took.node, c), c, d)
        /\ Cut(Gone(took, took.node[d].item, d), n1, took.word, c, d,
               RemoveFew(took, c))
  BY Zenon, <1>1, <1>2, FewCut
<1>. DEFINE base == Gone(took, took.node[d].item, d)
            kept == Gone(mem, mem.node[d].item, d)
            x == Top(u.mem.node, u.root)
            put == SetRight(u.mem.node, a, u.root)
            y == Rebalanced(SetDepth(put, a), a)
            v == Removed(took, a, next, u)
<1>5. few[c] = RemoveFew(took, c) BY Zenon, <1>2 DEF FewOf
<1>6. IsMem(base) BY <1>1, GoneIs
<1>7. RemoveInner(mem, a) = v BY Zenon, RemoveInnerIs
<1>8. next \in Nat /\ ~(next < Item(took, a))
  <2>1. Spelt(took.node, took.word, Sub(took.node, r)) BY Zenon, <1>1 DEF Tree
  <2>2. next \in Nat BY <1>1, <2>1, ItemIsKey DEF Spelt
  <2>3. Item(took, a) = next BY Zenon, <1>1
  <2>. HIDE DEF next
  <2>. QED BY <2>2, <2>3
<1>9. Cut(base, n1, took.word, r, d, u)
  <2>1. Cut(base, n1, took.word, c, d, few[c]) BY <1>4, <1>5
  <2>. HIDE DEF base, few, next
  <2>. QED BY Zenon, <1>1, <1>2, <1>3, <1>4, <1>6, <2>1, RemoveCuts
<1>10. /\ u.mem = SetNode(base, u.mem.node)
       /\ Shrunk(n1, mem.word, r, x, d)
  BY Zenon, <1>1, <1>9 DEF Cut
<1>11. Shrunk(n1, mem.word, a, y, d)
  <2>1. y = Rebalanced(SetDepth(SetRight(x.node, a, x.root), a), a)
    BY DEF Top
  <2>. HIDE DEF x, y
  <2>. QED BY Zenon, <1>4, <1>10, <2>1, ShrinkInner
<1>12. v.mem = SetNode(base, y.node) /\ v.root = y.root
  <2>1. put = IF next < Item(took, a) THEN SetLeft(u.mem.node, a, u.root)
                                      ELSE SetRight(u.mem.node, a, u.root)
    BY <1>8
  <2>. HIDE DEF u, base, next, put
  <2>. QED BY <1>6, <1>10, <2>1, RemovedIs
<1>13. Moved(mem.node, n1, Sub(mem.node, a), a, d)
  <2>. DEFINE node == mem.node
              g == took.node
  <2>1. /\ Graph(node) /\ a \in DOMAIN node /\ c \in DOMAIN node
        /\ r = node[a].right /\ c \in Sub(node, r) /\ a \notin Sub(node, r)
        /\ Alike(node, g) /\ g[a].item = node[c].item
        /\ g[a].count = node[c].count
        /\ \A e \in DOMAIN node \ {a} : g[e] = node[e]
        /\ Moved(g, n1, Sub(g, c), c, d)
    BY Zenon, <1>1, <1>2, <1>4
  <2>. HIDE DEF node, g
  <2>2. Moved(node, n1, Sub(node, a), a, d) BY Zenon, <2>1, TookMoved
  <2>. QED BY <2>2 DEF node
<1>14. took.node[d] = mem.node[d]
  <2>1. c \in Places(mem.node) BY Zenon, <1>1 DEF Places
  <2>2. Sub(took.node, c) = Sub(mem.node, c)
    <3>1. Alike(mem.node, took.node) BY Zenon, <1>1
    <3>. QED BY <1>2, <2>1, <3>1, AlikeIs
  <2>3. d \in Sub(mem.node, c) BY Zenon, <1>4, <2>2 DEF Moved
  <2>4. d \in Sub(mem.node, r) BY <1>1, <1>2, <2>3, SubTransitive
  <2>5. d \in DOMAIN mem.node BY Zenon, <2>4, SubIn
  <2>. QED BY Zenon, <1>1, <2>4, <2>5
<1>15. SetNode(base, y.node) = SetNode(kept, y.node)
  <2>1. took = SetNode(mem, Took(mem.node, a, c)) BY Zenon, <1>1
  <2>. HIDE DEF y
  <2>. QED BY <1>14, <2>1, GoneIs
<1>16. IsMem(kept) BY GoneIs
<1>. HIDE DEF v, y, kept, base
<1>17. Cut(kept, n1, mem.word, a, d, v)
  BY <1>11, <1>12, <1>15, <1>16, CutIs
<1>. QED BY Zenon, <1>7, <1>13, <1>17 DEF kept

-----------------------------------------------------------------------------
(* remove_node() *)

LEMMA TreeBelow ==
  ASSUME NEW mem, Graph(mem.node), NEW a, Tree(mem, a),
         NEW b \in Sub(mem.node, a)
  PROVE  Tree(mem, b)
<1>1. Sub(mem.node, b) \subseteq Sub(mem.node, a) BY SubTransitive
<1>2. b \in Places(mem.node) BY SubIn DEF Places
<1>. QED BY <1>1, <1>2 DEF Tree, AVL, Spelt

FoundOf(mem) ==
  [a \in DOMAIN mem.node |->
     IF /\ mem.node[a].count <= 1
        /\ mem.node[a].left # NULL /\ mem.node[a].right # NULL
     THEN RemoveInner(mem, a) ELSE RemoveFew(mem, a)]

(* One of several insertions of w, which b holds, is taken back; or the    *)
(* next word, inserted more than once, is put in b for w; or w goes.       *)
OneOfMany(mem, b, root, u) ==
  mem.node[b].count > 1 /\ u = At(RemoveCount(mem, b), root)

NextIsMany(mem, b, root, u) ==
  LET r == mem.node[b].right
      c == Leftmost(mem.node, r)
  IN  /\ ~(mem.node[b].count > 1) /\ r # NULL
      /\ NextIs(mem, b, r, c, TookMem(mem, b)) /\ mem.node[c].count > 1
      /\ u = At(RemoveCount(TookMem(mem, b), c), root)

NodeGoes(mem, b, root, u) ==
  /\ ~(mem.node[b].count > 1)
  /\ \E n1, d :
       /\ Moved(mem.node, n1, Sub(mem.node, b), b, d)
       /\ Cut(Gone(mem, mem.node[d].item, d), n1, mem.word, root, d, u)

LEMMA FoundIs ==
  ASSUME NEW mem, IsMem(mem), Shallow(mem.node), NEW b \in DOMAIN mem.node,
         Tree(mem, b)
  PROVE  LET u == FoundOf(mem)[b]
         IN  \/ OneOfMany(mem, b, b, u) \/ NextIsMany(mem, b, b, u)
             \/ NodeGoes(mem, b, b, u)
<1>. DEFINE u == FoundOf(mem)[b]
            r == mem.node[b].right
            c == Leftmost(mem.node, r)
            took == TookMem(mem, b)
<1>1. mem.node[b].count \in Nat BY GraphIs DEF Shallow
<1>2. CASE mem.node[b].count > 1
  <2>1. ~(mem.node[b].count <= 1) BY <1>1, <1>2
  <2>2. u = RemoveFew(mem, b) BY Zenon, <2>1 DEF FoundOf
  <2>3. u = At(RemoveCount(mem, b), b) BY <1>2, <2>2 DEF RemoveFew
  <2>. QED BY <1>2, <2>3 DEF OneOfMany
<1>3. CASE ~(mem.node[b].count > 1)
  <2>1. mem.node[b].count <= 1 BY <1>1, <1>3
  <2>2. CASE mem.node[b].left = NULL \/ mem.node[b].right = NULL
    <3>1. u = RemoveFew(mem, b) BY <2>2 DEF FoundOf
    <3>. HIDE DEF u
    <3>2. PICK n1, d :
            /\ Moved(mem.node, n1, Sub(mem.node, b), b, d)
            /\ Cut(Gone(mem, mem.node[d].item, d), n1, mem.word, b, d, u)
      BY <1>3, <2>2, <3>1, FewCut
    <3>3. NodeGoes(mem, b, b, u) BY <1>3, <3>2 DEF NodeGoes
    <3>. QED BY <3>3 DEF u
  <2>3. CASE mem.node[b].left # NULL /\ mem.node[b].right # NULL
    <3>1. u = RemoveInner(mem, b) BY <2>1, <2>3 DEF FoundOf
    <3>. HIDE DEF u
    <3>2. r # NULL BY <2>3
    <3>3. NextIs(mem, b, r, c, took) BY <3>2, NextIsSo
    <3>. HIDE DEF took, c
    <3>4. CASE mem.node[c].count > 1
      <4>1. u = At(RemoveCount(took, c), b)
        BY <3>1, <3>2, <3>3, <3>4, InnerStays DEF took, c
      <4>2. NextIsMany(mem, b, b, u)
        BY <1>3, <3>2, <3>3, <3>4, <4>1 DEF NextIsMany, took, c
      <4>. QED BY <4>2 DEF u
    <3>5. CASE ~(mem.node[c].count > 1)
      <4>1. PICK n1, d :
              /\ Moved(mem.node, n1, Sub(mem.node, b), b, d)
              /\ Cut(Gone(mem, mem.node[d].item, d), n1, mem.word, b, d,
                     RemoveInner(mem, b))
        <5>1. c = Leftmost(mem.node, r) /\ took = TookMem(mem, b)
          BY DEF took, c
        <5>. HIDE DEF r
        <5>2. r = mem.node[b].right BY DEF r
        <5>. QED BY <3>2, <3>3, <3>5, <5>1, <5>2, InnerCut
      <4>2. NodeGoes(mem, b, b, u) BY <1>3, <3>1, <4>1 DEF NodeGoes
      <4>. QED BY <4>2 DEF u
    <3>. QED BY <3>4, <3>5
  <2>. QED BY <2>2, <2>3
<1>. QED BY <1>2, <1>3

LEMMA RemoveNodeIs ==
  ASSUME NEW mem, IsMem(mem), Shallow(mem.node),
         NEW root \in Places(mem.node), Tree(mem, root),
         NEW b \in Sub(mem.node, root), NEW w, Item(mem, b) = w
  PROVE  LET u == remove_node(mem, root, w)
         IN  \/ OneOfMany(mem, b, root, u) \/ NextIsMany(mem, b, root, u)
             \/ NodeGoes(mem, b, root, u)
<1>. DEFINE u == remove_node(mem, root, w)
            found == FoundOf(mem)
            v == found[b]
<1>1. u = RemoveIn(mem, root, w, found) BY DEF remove_node, FoundOf
<1>2. Graph(mem.node) /\ b \in DOMAIN mem.node BY SubIn DEF Shallow
<1>3. Tree(mem, b) BY <1>2, TreeBelow
<1>4. \/ OneOfMany(mem, b, b, v) \/ NextIsMany(mem, b, b, v)
      \/ NodeGoes(mem, b, b, v)
  BY <1>2, <1>3, FoundIs
<1>. HIDE DEF found, u
<1>5. CASE OneOfMany(mem, b, b, v)
  <2>. DEFINE x == RemoveCount(mem, b)
  <2>1. v = At(x, b) /\ mem.node[b].count > 1 BY <1>5 DEF OneOfMany
  <2>2. IsMem(x) /\ Alike(mem.node, x.node) BY <1>2, <2>1, RemoveCountIs
  <2>. HIDE DEF x
  <2>3. u = At(x, root) BY <1>1, <1>2, <2>1, <2>2, RemoveStays
  <2>4. OneOfMany(mem, b, root, u) BY <2>1, <2>3 DEF OneOfMany, x
  <2>. QED BY <2>4 DEF u
<1>6. CASE NextIsMany(mem, b, b, v)
  <2>. DEFINE r == mem.node[b].right
              c == Leftmost(mem.node, r)
              took == TookMem(mem, b)
              x == RemoveCount(took, c)
  <2>1. v = At(x, b) /\ NextIs(mem, b, r, c, took) BY Zenon, <1>6 DEF NextIsMany
  <2>2. /\ IsMem(took) /\ Alike(mem.node, took.node) /\ Shallow(took.node)
        /\ c \in DOMAIN mem.node /\ took.node[c].count > 1
    BY <1>6, <2>1 DEF NextIs, NextIsMany
  <2>. HIDE DEF took, c
  <2>3. c \in DOMAIN took.node /\ Graph(took.node)
    BY <2>2 DEF Alike, Shallow
  <2>4. IsMem(x) /\ Alike(took.node, x.node) BY <2>2, <2>3, RemoveCountIs
  <2>. HIDE DEF x
  <2>5. Alike(mem.node, x.node) BY <2>2, <2>4 DEF Alike
  <2>6. u = At(x, root) BY <1>1, <1>2, <2>1, <2>4, <2>5, RemoveStays
  <2>7. NextIsMany(mem, b, root, u)
    BY <1>6, <2>6 DEF NextIsMany, x, took, c
  <2>. QED BY <2>7 DEF u
<1>7. CASE NodeGoes(mem, b, b, v)
  <2>1. PICK n1, d :
          /\ Moved(mem.node, n1, Sub(mem.node, b), b, d)
          /\ Cut(Gone(mem, mem.node[d].item, d), n1, mem.word, b, d, v)
    BY <1>7 DEF NodeGoes
  <2>. DEFINE base == Gone(mem, mem.node[d].item, d)
  <2>2. IsMem(base) BY GoneIs
  <2>. HIDE DEF base
  <2>3. Cut(base, n1, mem.word, b, d, v) BY <2>1 DEF base
  <2>4. Cut(base, n1, mem.word, root, d, u)
    BY <1>1, <1>2, <2>1, <2>2, <2>3, RemoveCuts
  <2>5. NodeGoes(mem, b, root, u) BY <1>7, <2>1, <2>4 DEF NodeGoes, base
  <2>. QED BY <2>5 DEF u
<1>. QED BY <1>4, <1>5, <1>6, <1>7

-----------------------------------------------------------------------------
(* Blocks *)

(* x has the blocks of scm, and those in use still are. *)
Serves(x, scm) ==
  /\ Region(x) /\ scm.utilized <= x.utilized
  /\ \A q \in Blocks(scm) :
       /\ q \in Blocks(x) /\ x.block[q].n = scm.block[q].n
       /\ scm.block[q].used => x.block[q].used

LEMMA ServesSelf == ASSUME NEW scm, Region(scm) PROVE Serves(scm, scm)
<1>1. scm.utilized \in Nat BY Numbers DEF Region
<1>. QED BY <1>1 DEF Serves

LEMMA ServesOn ==
  ASSUME NEW scm, NEW x, NEW y, Region(scm), Serves(x, scm), Serves(y, x)
  PROVE  Serves(y, scm)
<1>1. scm.utilized \in Nat /\ x.utilized \in Nat /\ y.utilized \in Nat
  BY Numbers DEF Region, Serves
<1>2. scm.utilized <= y.utilized BY <1>1 DEF Serves
<1>3. ASSUME NEW q \in Blocks(scm)
      PROVE  /\ q \in Blocks(y) /\ y.block[q].n = scm.block[q].n
             /\ scm.block[q].used => y.block[q].used
  <2>1. /\ q \in Blocks(x) /\ x.block[q].n = scm.block[q].n
        /\ scm.block[q].used => x.block[q].used
    BY DEF Serves
  <2>2. /\ q \in Blocks(y) /\ y.block[q].n = x.block[q].n
        /\ x.block[q].used => y.block[q].used
    BY <2>1 DEF Serves
  <2>. QED BY <2>1, <2>2
<1>4. Region(y) BY DEF Serves
<1>. QED BY <1>2, <1>3, <1>4 DEF Serves

LEMMA MallocServes ==
  ASSUME NEW scm, Region(scm), NEW n \in Nat
  PROVE  Serves(scm_malloc(scm, n).scm, scm)
<1>. DEFINE a == scm_malloc(scm, n)
            free == Fitting(scm, n)
            p == scm.utilized + Header
<1>1. scm.utilized \in Nat /\ Header \in Nat BY Numbers DEF Region
<1>2. /\ Region(a.scm)
      /\ \A q \in Blocks(scm) \ {a.p} :
           q \in Blocks(a.scm) /\ a.scm.block[q] = scm.block[q]
  BY MallocGivesOnce
<1>3. CASE HasRoom(scm, n)
  <2>1. a.scm = Extended(scm, n) BY <1>3 DEF scm_malloc, Extended
  <2>2. /\ a.scm.utilized = p + n
        /\ Blocks(a.scm) = Blocks(scm) \cup {p}
        /\ \A q \in Blocks(scm) : a.scm.block[q] = scm.block[q]
    <3>. DEFINE x == Extended(scm, n)
    <3>1. /\ x.utilized = p + n /\ p \in Nat /\ p \notin Blocks(scm)
          /\ Blocks(x) = Blocks(scm) \cup {p}
          /\ x.block[p] = [used |-> TRUE, n |-> n]
          /\ \A q \in Blocks(scm) : x.block[q] = scm.block[q] /\ q < p
          /\ x = [utilized |-> x.utilized, block |-> x.block]
      BY ExtendedIs
    <3>. HIDE DEF x, p
    <3>. QED BY <2>1, <3>1 DEF x
  <2>3. scm.utilized <= a.scm.utilized BY <1>1, <2>2
  <2>. QED BY <1>2, <2>2, <2>3 DEF Serves
<1>4. CASE ~HasRoom(scm, n) /\ free = {}
  <2>1. a.scm = scm BY <1>4 DEF scm_malloc, FirstOf
  <2>. QED BY <2>1, ServesSelf
<1>5. CASE ~HasRoom(scm, n) /\ free # {}
  <2>1. free \subseteq Blocks(scm) BY DEF Fitting
  <2>2. a = FirstOf(scm, free) BY <1>5 DEF scm_malloc
  <2>3. a.p \in free /\ a.scm = Marked(scm, a.p, TRUE)
    BY Zenon, <1>5, <2>1, <2>2, FirstIs
  <2>. HIDE DEF a, free
  <2>4. IsMarked(a.scm, scm, a.p, TRUE) BY Zenon, <2>1, <2>3, MarkedIs
  <2>5. /\ a.scm.utilized = scm.utilized /\ Blocks(a.scm) = Blocks(scm)
        /\ a.scm.block[a.p].used = TRUE
        /\ \A q \in Blocks(scm) : a.scm.block[q].n = scm.block[q].n
        /\ \A q \in Blocks(scm) \ {a.p} : a.scm.block[q] = scm.block[q]
    BY <2>4 DEF IsMarked
  <2>6. \A q \in Blocks(scm) : scm.block[q].used => a.scm.block[q].used
    BY <2>5
  <2>7. scm.utilized <= a.scm.utilized BY <1>1, <2>5
  <2>8. Serves(a.scm, scm) BY <1>2, <2>5, <2>6, <2>7 DEF Serves
  <2>. QED BY <2>8 DEF a
<1>. QED BY <1>3, <1>4, <1>5

(* The state of the tree lies in the first block. *)
Based(scm) ==
  /\ scm_mbase \in Blocks(scm) /\ scm.block[scm_mbase].used
  /\ scm.block[scm_mbase].n = StateLen

LEMMA BasedServed ==
  ASSUME NEW scm, Based(scm), NEW x, Serves(x, scm)
  PROVE  Based(x)
BY DEF Based, Serves

LEMMA Lengths == /\ NodeLen \in Nat /\ NodeLen > 0 /\ StateLen \in Nat
                 /\ \A w \in Words : w \in Nat /\ WordLen[w] \in Nat
                                     /\ WordLen[w] > 0
                 /\ Header + StateLen + SizeT <= Capacity
                 /\ MaxCount \in [Words -> Nat]
BY AVLAssumption

(* Nodes and words have blocks of their own.                               *)
Lodged(mem) ==
  /\ \A a \in DOMAIN mem.node :
       /\ a \in Blocks(mem.scm) /\ mem.scm.block[a].used
       /\ mem.scm.block[a].n >= NodeLen /\ a # scm_mbase
       /\ mem.node[a].item \in DOMAIN mem.word
  /\ \A p \in DOMAIN mem.word :
       /\ p \in Blocks(mem.scm) /\ p \notin DOMAIN mem.node /\ p # scm_mbase
       /\ mem.word[p] \in Words
       /\ mem.scm.block[p].n >= WordLen[mem.word[p]]

(* No word is in a block that was freed. *)
Worded(mem) == \A p \in DOMAIN mem.word : mem.scm.block[p].used

(* x has the nodes and the words of mem. *)
Alone(x, mem) ==
  /\ IsMem(x) /\ x.node = mem.node /\ x.word = mem.word /\ x.root = mem.root
  /\ x.items = mem.items /\ x.unique = mem.unique
  /\ Serves(x.scm, mem.scm)

LEMMA LodgedAlone ==
  ASSUME NEW mem, Lodged(mem), NEW x, Alone(x, mem)
  PROVE  Lodged(x) /\ (Worded(mem) => Worded(x))
<1>1. /\ \A a \in DOMAIN x.node :
           /\ a \in Blocks(x.scm) /\ x.scm.block[a].used
           /\ x.scm.block[a].n >= NodeLen /\ a # scm_mbase
           /\ x.node[a].item \in DOMAIN x.word
  BY DEF Lodged, Alone, Serves
<1>2. \A p \in DOMAIN x.word :
       /\ p \in Blocks(x.scm) /\ p \notin DOMAIN x.node /\ p # scm_mbase
       /\ x.word[p] \in Words
       /\ x.scm.block[p].n >= WordLen[x.word[p]]
  BY DEF Lodged, Alone, Serves
<1>3. Worded(mem) => Worded(x) BY DEF Lodged, Worded, Alone, Serves
<1>. QED BY <1>1, <1>2, <1>3 DEF Lodged

(* What becomes of an allocation of n bytes. *)
Lent(mem, n, a) ==
  /\ Alone(a.mem, mem) /\ a.mem.end \in {"open", "killed", "undefined"}
  /\ a.mem.end = "undefined" => stale \/ ~Worded(mem)
  /\ a.p # NULL /\ a.mem.end = "open" =>
       /\ a.p \in Nat \ {0} /\ a.p \notin InUse(mem)
       /\ a.p \in Blocks(a.mem.scm) /\ a.mem.scm.block[a.p].used
       /\ a.mem.scm.block[a.p].n >= n
       /\ a.p \in Blocks(mem.scm) => ~mem.scm.block[a.p].used

LEMMA AllocatedIs ==
  ASSUME NEW mem, IsMem(mem), Region(mem.scm), Graph(mem.node), Lodged(mem),
         Based(mem.scm), mem.end = "open", NEW n \in Nat
  PROVE  Lent(mem, n, Allocated(mem, n))
<1>. DEFINE b == scm_malloc(mem.scm, n)
            e == IF \/ b.p \in InUse(mem)
                    \/ stale /\ ~HasRoom(mem.scm, n)
                 THEN "undefined"
                 ELSE IF b.p # NULL /\ Overruns(b.scm, b.p)
                 THEN "killed" ELSE "open"
            c == IF Unmapped(b.p) THEN mem.scm ELSE b.scm
            a == Allocated(mem, n)
<1>1. /\ Region(b.scm)
      /\ b.p # NULL =>
           /\ b.p \in Blocks(b.scm)
           /\ b.scm.block[b.p].used /\ n <= b.scm.block[b.p].n
           /\ b.p \in Blocks(mem.scm) => ~mem.scm.block[b.p].used
  BY MallocGivesOnce
<1>2. Serves(c, mem.scm) BY MallocServes, ServesSelf
<1>. HIDE DEF b
<1>3. a.p = b.p /\ a.mem = [mem EXCEPT !.scm = c, !.end = e]
  BY DEF Allocated, b
<1>. HIDE DEF a, c, e
<1>4. a.mem = [scm |-> c, end |-> e, node |-> mem.node,
               word |-> mem.word, root |-> mem.root, items |-> mem.items,
               unique |-> mem.unique]
  BY Zenon, <1>3 DEF IsMem
<1>5. a.mem.scm = c /\ a.mem.end = e /\ Alone(a.mem, mem)
  BY <1>2, <1>4 DEF IsMem, Alone
<1>6. e \in {"open", "killed", "undefined"} BY DEF e
<1>7. b.p \in InUse(mem) => ~Worded(mem)
  <2>1. NULL \notin InUse(mem)
    <3>1. scm_mbase # NULL BY Numbers DEF scm_mbase, NULL
    <3>2. NULL \notin DOMAIN mem.node BY NullIsNone
    <3>3. NULL \notin DOMAIN mem.word
      BY BlockIs, Numbers DEF Lodged, NULL
    <3>. QED BY <3>1, <3>2, <3>3 DEF InUse
  <2>2. b.p # scm_mbase
    BY <1>1, <2>1 DEF Based, InUse
  <2>3. b.p \notin DOMAIN mem.node BY <1>1, <2>1 DEF Lodged, InUse
  <2>4. b.p \in DOMAIN mem.word => ~Worded(mem)
    BY <1>1, <2>1 DEF Lodged, InUse, Worded
  <2>. QED BY <2>2, <2>3, <2>4 DEF InUse
<1>8. e = "undefined" => stale \/ ~Worded(mem) BY <1>7 DEF e
<1>9. ASSUME b.p # NULL, e = "open"
      PROVE  /\ b.p \in Nat \ {0} /\ b.p \notin InUse(mem)
             /\ b.p \in Blocks(c) /\ c.block[b.p].used
             /\ c.block[b.p].n >= n
             /\ b.p \in Blocks(mem.scm) => ~mem.scm.block[b.p].used
  <2>1. b.p \notin InUse(mem) /\ ~Overruns(b.scm, b.p) BY <1>9 DEF e
  <2>2. b.p \in Nat /\ b.scm.block[b.p].n \in Nat BY <1>1, <1>9, BlockIs
  <2>3. b.p # 0 BY <1>9 DEF NULL
  <2>4. c = b.scm BY <2>1, <2>2, Numbers DEF Overruns, Unmapped, c
  <2>. QED BY <1>1, <1>9, <2>1, <2>2, <2>3, <2>4
<1>10. Lent(mem, n, a) BY <1>3, <1>5, <1>6, <1>8, <1>9 DEF Lent
<1>. QED BY <1>10 DEF a

-----------------------------------------------------------------------------
(* A new node *)

(* No memory for it: no node and no word is changed. *)
NoneMade(mem, u) ==
  /\ u.root = NULL /\ Alone(u.mem, mem)
  /\ u.mem.end \in {"open", "killed", "undefined"}
  /\ u.mem.end = "undefined" => stale \/ ~Worded(mem)

(* The leaf p, whose word w lies at q. *)
Made(mem, w, p, q, base) ==
  /\ IsMem(base) /\ base.end = "open" /\ base.root = mem.root
  /\ base.items = mem.items + 1 /\ base.unique = mem.unique + 1
  /\ Serves(base.scm, mem.scm)
  /\ Planted(mem.node, mem.word, p, q, w, base.node, base.word)
  /\ p \in Blocks(base.scm) /\ base.scm.block[p].used
  /\ base.scm.block[p].n >= NodeLen /\ p # scm_mbase
  /\ q \in Blocks(base.scm) /\ base.scm.block[q].used
  /\ base.scm.block[q].n >= WordLen[w] /\ q # scm_mbase
  /\ p # q /\ p \notin DOMAIN mem.word /\ q \notin DOMAIN mem.node

(* A memory whose tree and region are as they should be. *)
Ready(mem) ==
  /\ IsMem(mem) /\ Region(mem.scm) /\ Graph(mem.node) /\ Lodged(mem)
  /\ Based(mem.scm) /\ mem.end = "open"

LEMMA ReadyAlone ==
  ASSUME NEW mem, Ready(mem), NEW x, Alone(x, mem), x.end = "open"
  PROVE  Ready(x)
<1>1. Lodged(x) BY LodgedAlone DEF Ready
<1>2. Based(x.scm) BY BasedServed DEF Ready, Alone
<1>. QED BY <1>1, <1>2 DEF Ready, Alone, Serves

LEMMA AloneOn ==
  ASSUME NEW mem, Region(mem.scm), NEW x, Alone(x, mem), NEW y, Alone(y, x)
  PROVE  Alone(y, mem)
<1>1. Serves(y.scm, mem.scm) BY ServesOn DEF Alone
<1>. QED BY <1>1 DEF Alone

LEMMA NewNodeIs ==
  ASSUME NEW mem, Ready(mem), NEW w \in Words
  PROVE  \/ NoneMade(mem, NewNode(mem, w))
         \/ \E p, q, base : Made(mem, w, p, q, base)
                            /\ NewNode(mem, w) = At(base, p)
<1>. DEFINE a == Allocated(mem, NodeLen)
            b == Allocated(a.mem, WordLen[w])
            u == NewNode(mem, w)
            base == [b.mem EXCEPT
                 !.node = With(@, a.p, LeafOf(b.p)),
                 !.word = With(@, b.p, w),
                 !.items = @ + 1, !.unique = @ + 1]
<1>1. u = IF a.p = NULL THEN At(mem, NULL)
          ELSE IF a.mem.end # "open" THEN At(a.mem, NULL)
          ELSE IF b.p = NULL \/ b.mem.end # "open" THEN At(b.mem, NULL)
          ELSE At(base, a.p)
  BY DEF NewNode, LeafOf
<1>2. Lent(mem, NodeLen, a) BY AllocatedIs, Lengths DEF Ready
<1>. HIDE DEF a, u
<1>3. CASE a.p = NULL
  <2>1. u = At(mem, NULL) BY <1>1, <1>3
  <2>2. Alone(mem, mem) BY ServesSelf DEF Alone, Ready
  <2>3. NoneMade(mem, u) BY <2>1, <2>2 DEF NoneMade, At, Ready
  <2>. QED BY <2>3 DEF u
<1>4. CASE a.p # NULL /\ a.mem.end # "open"
  <2>1. u = At(a.mem, NULL) BY <1>1, <1>4
  <2>2. NoneMade(mem, u) BY <1>2, <2>1 DEF NoneMade, At, Lent
  <2>. QED BY <2>2 DEF u
<1>5. CASE a.p # NULL /\ a.mem.end = "open"
  <2>1. Alone(a.mem, mem) BY <1>2 DEF Lent
  <2>2. Ready(a.mem) BY <1>5, <2>1, ReadyAlone
  <2>3. Lent(a.mem, WordLen[w], b) BY <2>2, AllocatedIs, Lengths DEF Ready
  <2>. HIDE DEF b
  <2>4. Alone(b.mem, a.mem) BY <2>3 DEF Lent
  <2>5. Alone(b.mem, mem) BY <2>1, <2>4, AloneOn DEF Ready
  <2>6. Worded(mem) => Worded(a.mem) BY <2>1, LodgedAlone DEF Ready
  <2>7. CASE b.p = NULL \/ b.mem.end # "open"
    <3>1. u = At(b.mem, NULL) BY <1>1, <1>5, <2>7
    <3>2. NoneMade(mem, u)
      BY <2>3, <2>5, <2>6, <3>1 DEF NoneMade, At, Lent
    <3>. QED BY <3>2 DEF u
  <2>8. CASE b.p # NULL /\ b.mem.end = "open"
    <3>. DEFINE p == a.p
                q == b.p
                i == b.mem.items + 1
                n == b.mem.unique + 1
    <3>1. u = At(base, p) BY <1>1, <1>5, <2>8
    <3>2. base = [b.mem EXCEPT
                    !.node = With(b.mem.node, p, LeafOf(q)),
                    !.word = With(b.mem.word, q, w),
                    !.items = i, !.unique = n]
      BY DEF base
    <3>. HIDE DEF base, i, n
    <3>3. base = [scm |-> b.mem.scm, end |-> b.mem.end,
                  node |-> With(b.mem.node, p, LeafOf(q)),
                  word |-> With(b.mem.word, q, w), root |-> b.mem.root,
                  items |-> i, unique |-> n]
      BY Zenon, <2>5, <3>2 DEF IsMem, Alone
    <3>4. /\ IsMem(base) /\ base.end = "open" /\ base.root = mem.root
          /\ base.scm = b.mem.scm /\ base.items = i /\ base.unique = n
          /\ base.node = With(mem.node, p, LeafOf(q))
          /\ base.word = With(mem.word, q, w)
      BY <2>5, <2>8, <3>3 DEF IsMem, Alone
    <3>5. i = mem.items + 1 /\ n = mem.unique + 1 BY <2>5 DEF Alone, i, n
    <3>6. /\ p \in Nat \ {0} /\ p \notin InUse(mem)
          /\ p \in Blocks(a.mem.scm) /\ a.mem.scm.block[p].used
          /\ a.mem.scm.block[p].n >= NodeLen
      BY <1>2, <1>5 DEF Lent
    <3>7. /\ q \in Nat \ {0} /\ q \notin InUse(a.mem)
          /\ q \in Blocks(b.mem.scm) /\ b.mem.scm.block[q].used
          /\ b.mem.scm.block[q].n >= WordLen[w]
          /\ q \in Blocks(a.mem.scm) => ~a.mem.scm.block[q].used
      BY <2>3, <2>8 DEF Lent
    <3>8. InUse(a.mem) = InUse(mem) BY <2>1 DEF Alone, InUse
    <3>9. p # q BY <3>6, <3>7
    <3>10. /\ p \in Blocks(b.mem.scm) /\ b.mem.scm.block[p].used
           /\ b.mem.scm.block[p].n >= NodeLen
      BY <2>4, <3>6 DEF Alone, Serves
    <3>11. /\ p \notin DOMAIN mem.node /\ p \notin DOMAIN mem.word
           /\ p # scm_mbase
           /\ q \notin DOMAIN mem.node /\ q \notin DOMAIN mem.word
           /\ q # scm_mbase
      BY <3>6, <3>7, <3>8 DEF InUse
    <3>12. Planted(mem.node, mem.word, p, q, w, base.node, base.word)
      <4>1. \A c \in DOMAIN mem.node : mem.node[c].item \in DOMAIN mem.word
        BY DEF Ready, Lodged
      <4>2. w \in Nat BY Lengths
      <4>. QED BY <3>4, <3>6, <3>7, <3>11, <4>1, <4>2 DEF Planted
    <3>13. Serves(base.scm, mem.scm) BY <2>5, <3>4 DEF Alone
    <3>. HIDE DEF p, q
    <3>14. Made(mem, w, p, q, base)
      BY <3>4, <3>5, <3>7, <3>9, <3>10, <3>11, <3>12, <3>13 DEF Made
    <3>. QED BY <3>1, <3>14 DEF u
  <2>. QED BY <2>7, <2>8
<1>. QED BY <1>3, <1>4, <1>5

(* A node is made if its blocks are granted and the process lives. *)
LEMMA NewNodeWhen ==
  ASSUME NEW mem, Ready(mem), NEW w \in Words
  PROVE  /\ NoneMade(mem, NewNode(mem, w)) =>
              NewNode(mem, w).mem.end # "open" \/ ~Granted(mem, w)
         /\ \A p, q, base :
              Made(mem, w, p, q, base) /\ NewNode(mem, w) = At(base, p) =>
                Granted(mem, w)
<1>. DEFINE a == Allocated(mem, NodeLen)
            b == Allocated(a.mem, WordLen[w])
            u == NewNode(mem, w)
            base0 == [b.mem EXCEPT
                 !.node = With(@, a.p, LeafOf(b.p)),
                 !.word = With(@, b.p, w),
                 !.items = @ + 1, !.unique = @ + 1]
<1>1. u = IF a.p = NULL THEN At(mem, NULL)
          ELSE IF a.mem.end # "open" THEN At(a.mem, NULL)
          ELSE IF b.p = NULL \/ b.mem.end # "open" THEN At(b.mem, NULL)
          ELSE At(base0, a.p)
  BY DEF NewNode, LeafOf
<1>2. Granted(mem, w) <=> a.p # NULL /\ b.p # NULL BY DEF Granted
<1>. HIDE DEF a, b, u, base0
<1>3. ASSUME NoneMade(mem, u), Granted(mem, w) PROVE u.mem.end # "open"
  <2>1. u.root = NULL BY <1>3 DEF NoneMade
  <2>2. CASE a.mem.end # "open"
    <3>1. u = At(a.mem, NULL) BY <1>1, <1>2, <1>3, <2>2
    <3>. QED BY <2>2, <3>1 DEF At
  <2>3. CASE a.mem.end = "open" /\ b.mem.end # "open"
    <3>1. u = At(b.mem, NULL) BY <1>1, <1>2, <1>3, <2>3
    <3>. QED BY <2>3, <3>1 DEF At
  <2>4. CASE a.mem.end = "open" /\ b.mem.end = "open"
    <3>1. u = At(base0, a.p) BY <1>1, <1>2, <1>3, <2>4
    <3>2. u.root = a.p BY <3>1 DEF At
    <3>. QED BY <1>2, <1>3, <2>1, <3>2
  <2>. QED BY <2>2, <2>3, <2>4
<1>4. ASSUME NEW p, NEW q, NEW base, Made(mem, w, p, q, base), u = At(base, p)
      PROVE  Granted(mem, w)
  <2>1. p # NULL
    <3>1. Planted(mem.node, mem.word, p, q, w, base.node, base.word)
      BY <1>4 DEF Made
    <3>2. Graph(mem.node) BY DEF Ready
    <3>3. Plants(mem.node, mem.word, p, q, w, base.node, base.word)
      BY <3>1, <3>2, PlantedIs
    <3>. QED BY <3>3 DEF Plants
  <2>2. u.root = p BY <1>4 DEF At
  <2>3. SUFFICES ASSUME ~Granted(mem, w) PROVE u.root = NULL
    BY <2>1, <2>2
  <2>4. CASE a.p = NULL
    <3>1. u = At(mem, NULL) BY <1>1, <2>4
    <3>. QED BY <3>1 DEF At
  <2>5. CASE a.p # NULL /\ a.mem.end # "open"
    <3>1. u = At(a.mem, NULL) BY <1>1, <2>5
    <3>. QED BY <3>1 DEF At
  <2>6. CASE a.p # NULL /\ a.mem.end = "open"
    <3>1. u = At(b.mem, NULL) BY <1>1, <1>2, <2>3, <2>6
    <3>. QED BY <3>1 DEF At
  <2>. QED BY <2>4, <2>5, <2>6
<1>. QED BY <1>3, <1>4 DEF u

-----------------------------------------------------------------------------
(* What the tree counts *)

(* A memory with a tree at its root, and nothing else. *)
Formed(mem) ==
  /\ Ready(mem) /\ mem.root \in Places(mem.node)
  /\ DOMAIN mem.node = Sub(mem.node, mem.root)
  /\ Leveled(mem.node, DOMAIN mem.node)
  /\ \A a \in DOMAIN mem.node : mem.node[a].count >= 1
  /\ \A p \in DOMAIN mem.word : \E a \in DOMAIN mem.node : mem.node[a].item = p
  /\ IsFiniteSet(DOMAIN mem.node)

LEMMA FormedIs ==
  ASSUME NEW mem, Formed(mem)
  PROVE  /\ Shallow(mem.node) /\ Graph(mem.node) /\ IsMem(mem)
         /\ \A a \in DOMAIN mem.node :
              /\ Item(mem, a) \in Words /\ Item(mem, a) \in Nat
              /\ mem.node[a].count \in Nat /\ mem.node[a].count >= 1
<1>1. Graph(mem.node) /\ IsMem(mem) BY DEF Formed, Ready
<1>2. Shallow(mem.node) BY <1>1, ShallowIs DEF Formed
<1>3. ASSUME NEW a \in DOMAIN mem.node
      PROVE  /\ Item(mem, a) \in Words /\ Item(mem, a) \in Nat
             /\ mem.node[a].count \in Nat /\ mem.node[a].count >= 1
  <2>1. Item(mem, a) \in Words BY DEF Formed, Ready, Lodged, Item
  <2>2. mem.node[a].count \in Nat BY <1>1, GraphIs
  <2>. QED BY <2>1, <2>2, Lengths DEF Formed
<1>. QED BY <1>1, <1>2, <1>3

(* The words and how often each was inserted. *)
Tally(mem) == {<<Item(mem, a), mem.node[a].count>> : a \in DOMAIN mem.node}

LEMMA ExistsTally ==
  ASSUME NEW mem, Formed(mem), Tree(mem, mem.root)
  PROVE  /\ \A w, n : <<w, n>> \in Tally(mem) => avl_exists(mem, w) = n
         /\ \A w : (\A n : <<w, n>> \notin Tally(mem)) => avl_exists(mem, w) = 0
         /\ \A w : avl_exists(mem, w) # 0 =>
              w \in Words /\ <<w, avl_exists(mem, w)>> \in Tally(mem)
         /\ \A w : avl_exists(mem, w) \in Nat
<1>. DEFINE node == mem.node
            S == Sub(node, mem.root)
<1>1. Shallow(node) /\ DOMAIN node = S BY FormedIs DEF Formed
<1>2. ASSUME NEW w
      PROVE  /\ \A b \in S : Item(mem, b) = w => avl_exists(mem, w) = node[b].count
             /\ (\A b \in S : Item(mem, b) # w) => avl_exists(mem, w) = 0
  BY <1>1, ExistsIs
<1>3. ASSUME NEW w, NEW n, <<w, n>> \in Tally(mem)
      PROVE  avl_exists(mem, w) = n
  <2>1. PICK a \in DOMAIN node : <<w, n>> = <<Item(mem, a), node[a].count>>
    BY <1>3 DEF Tally
  <2>2. w = Item(mem, a) /\ n = node[a].count BY <2>1
  <2>3. a \in S BY <1>1
  <2>. HIDE DEF node, S
  <2>. QED BY <1>2, <2>2, <2>3
<1>4. \A a \in DOMAIN node : <<Item(mem, a), node[a].count>> \in Tally(mem)
  BY DEF Tally
<1>5. ASSUME NEW w, \A n : <<w, n>> \notin Tally(mem)
      PROVE  avl_exists(mem, w) = 0
  <2>1. \A b \in S : Item(mem, b) # w BY Zenon, <1>1, <1>4, <1>5
  <2>. QED BY <1>2, <2>1
<1>6. ASSUME NEW w, NEW a \in DOMAIN node, Item(mem, a) = w
      PROVE  /\ w \in Words /\ avl_exists(mem, w) = node[a].count
             /\ node[a].count \in Nat
             /\ <<w, avl_exists(mem, w)>> \in Tally(mem)
  <2>1. avl_exists(mem, w) = node[a].count BY <1>1, <1>2, <1>6
  <2>2. w \in Words /\ node[a].count \in Nat BY <1>6, FormedIs
  <2>3. <<Item(mem, a), node[a].count>> \in Tally(mem) BY <1>4
  <2>. QED BY <1>6, <2>1, <2>2, <2>3
<1>7. ASSUME NEW w
      PROVE  /\ avl_exists(mem, w) \in Nat
             /\ avl_exists(mem, w) # 0 =>
                  w \in Words /\ <<w, avl_exists(mem, w)>> \in Tally(mem)
  <2>1. CASE \E a \in DOMAIN node : Item(mem, a) = w BY <1>6, <2>1
  <2>2. CASE \A a \in DOMAIN node : Item(mem, a) # w BY <1>1, <1>2, <2>2
  <2>. QED BY <2>1, <2>2
<1>. QED BY <1>3, <1>5, <1>7

(* Where two trees tell the same of a word, they count it alike. *)
LEMMA TallySame ==
  ASSUME NEW mem, Formed(mem), Tree(mem, mem.root),
         NEW x, Formed(x), Tree(x, x.root), NEW w,
         \A n : <<w, n>> \in Tally(x) <=> <<w, n>> \in Tally(mem)
  PROVE  avl_exists(x, w) = avl_exists(mem, w)
<1>. DEFINE e == avl_exists(mem, w)
<1>1. CASE e # 0
  <2>1. <<w, e>> \in Tally(mem) BY <1>1, ExistsTally
  <2>2. <<w, e>> \in Tally(x) BY <2>1
  <2>. QED BY <2>2, ExistsTally
<1>2. CASE e = 0
  <2>1. ASSUME NEW n, <<w, n>> \in Tally(x) PROVE n = 0
    <3>1. <<w, n>> \in Tally(mem) BY <2>1
    <3>. QED BY <1>2, <3>1, ExistsTally
  <2>2. avl_exists(x, w) # 0 => <<w, avl_exists(x, w)>> \in Tally(x)
    BY ExistsTally
  <2>. QED BY <1>2, <2>1, <2>2
<1>. QED BY <1>1, <1>2

-----------------------------------------------------------------------------
(* The copies of the words *)

CopiesOf(e) == UNION {{v} \X (1 .. e[v]) : v \in Words}

LEMMA CopyIs ==
  ASSUME NEW e \in [Words -> Nat]
  PROVE  \A c : c \in CopiesOf(e) <=>
           \E v \in Words, i \in Nat : c = <<v, i>> /\ 1 <= i /\ i <= e[v]
<1>1. ASSUME NEW c, c \in CopiesOf(e)
      PROVE  \E v \in Words, i \in Nat : c = <<v, i>> /\ 1 <= i /\ i <= e[v]
  <2>1. PICK v \in Words : c \in {v} \X (1 .. e[v]) BY <1>1 DEF CopiesOf
  <2>2. PICK i \in 1 .. e[v] : c = <<v, i>> BY <2>1
  <2>3. e[v] \in Nat OBVIOUS
  <2>4. i \in Nat /\ 1 <= i /\ i <= e[v] BY <2>2, <2>3
  <2>. QED BY <2>2, <2>4
<1>2. ASSUME NEW v \in Words, NEW i \in Nat, 1 <= i, i <= e[v]
      PROVE  <<v, i>> \in CopiesOf(e)
  <2>1. e[v] \in Nat OBVIOUS
  <2>2. i \in 1 .. e[v] BY <1>2, <2>1
  <2>3. <<v, i>> \in {v} \X (1 .. e[v]) BY <2>2
  <2>. QED BY <2>3 DEF CopiesOf
<1>. QED BY <1>1, <1>2

LEMMA CopiesMore ==
  ASSUME NEW e \in [Words -> Nat], NEW w \in Words,
         NEW f \in [Words -> Nat], f[w] = e[w] + 1,
         \A v \in Words \ {w} : f[v] = e[v], IsFiniteSet(CopiesOf(e))
  PROVE  /\ IsFiniteSet(CopiesOf(f)) /\ Cardinality(CopiesOf(e)) \in Nat
         /\ Cardinality(CopiesOf(f)) = Cardinality(CopiesOf(e)) + 1
<1>. DEFINE C == CopiesOf(e)
            c == <<w, f[w]>>
<1>1. e[w] \in Nat /\ f[w] \in Nat OBVIOUS
<1>2. c \notin C
  <2>1. SUFFICES ASSUME c \in C PROVE FALSE OBVIOUS
  <2>2. PICK v \in Words, i \in Nat : c = <<v, i>> /\ 1 <= i /\ i <= e[v]
    BY <2>1, CopyIs
  <2>3. v = w /\ i = f[w] BY <2>2
  <2>. QED BY <1>1, <2>2, <2>3
<1>3. ASSUME NEW d PROVE d \in CopiesOf(f) <=> d \in C \cup {c}
  <2>1. ASSUME NEW v \in Words, NEW i \in Nat, d = <<v, i>>, 1 <= i, i <= f[v]
        PROVE  d = c \/ (i <= e[v])
    <3>1. CASE v # w BY <2>1, <3>1
    <3>2. CASE v = w /\ i = f[w] BY <2>1, <3>2
    <3>3. CASE v = w /\ i # f[w] BY <1>1, <2>1, <3>3
    <3>. QED BY <3>1, <3>2, <3>3
  <2>2. ASSUME NEW v \in Words, NEW i \in Nat, d = <<v, i>>, 1 <= i, i <= e[v]
        PROVE  i <= f[v]
    <3>1. CASE v # w BY <2>2, <3>1
    <3>2. CASE v = w BY <1>1, <2>2, <3>2
    <3>. QED BY <3>1, <3>2
  <2>3. d \in CopiesOf(f) => d \in C \cup {c}
    <3>1. SUFFICES ASSUME d \in CopiesOf(f) PROVE d \in C \cup {c} OBVIOUS
    <3>2. PICK v \in Words, i \in Nat : d = <<v, i>> /\ 1 <= i /\ i <= f[v]
      BY <3>1, CopyIs
    <3>. HIDE DEF c, C
    <3>3. d = c \/ i <= e[v] BY <2>1, <3>2
    <3>. QED BY <3>2, <3>3, CopyIs DEF C
  <2>4. d \in C => d \in CopiesOf(f)
    <3>1. SUFFICES ASSUME d \in C PROVE d \in CopiesOf(f) OBVIOUS
    <3>2. PICK v \in Words, i \in Nat : d = <<v, i>> /\ 1 <= i /\ i <= e[v]
      BY <3>1, CopyIs
    <3>3. i <= f[v] BY <2>2, <3>2
    <3>. QED BY <3>2, <3>3, CopyIs
  <2>5. c \in CopiesOf(f)
    <3>1. 1 <= f[w] BY <1>1
    <3>. QED BY <1>1, <3>1, CopyIs
  <2>. HIDE DEF C, c
  <2>. QED BY <2>3, <2>4, <2>5
<1>. HIDE DEF C, c
<1>4. CopiesOf(f) = C \cup {c} BY <1>3
<1>5. IsFiniteSet(C) BY DEF C
<1>6. /\ IsFiniteSet(C \cup {c}) /\ Cardinality(C) \in Nat
      /\ Cardinality(C \cup {c}) = Cardinality(C) + 1
  BY <1>2, <1>5, FS_AddElement, FS_CardinalityType
<1>. QED BY <1>4, <1>6 DEF C

LEMMA CopiesLess ==
  ASSUME NEW e \in [Words -> Nat], NEW w \in Words,
         NEW f \in [Words -> Nat], e[w] = f[w] + 1,
         \A v \in Words \ {w} : f[v] = e[v], IsFiniteSet(CopiesOf(e))
  PROVE  /\ IsFiniteSet(CopiesOf(f)) /\ Cardinality(CopiesOf(e)) \in Nat
         /\ Cardinality(CopiesOf(f)) = Cardinality(CopiesOf(e)) - 1
<1>1. CopiesOf(f) \subseteq CopiesOf(e)
  <2>1. ASSUME NEW v \in Words, NEW i \in Nat, i <= f[v]
        PROVE  i <= e[v]
    <3>1. CASE v # w BY <2>1, <3>1
    <3>2. CASE v = w
      <4>1. f[w] \in Nat OBVIOUS
      <4>. QED BY <2>1, <3>2, <4>1
    <3>. QED BY <3>1, <3>2
  <2>2. ASSUME NEW c, c \in CopiesOf(f) PROVE c \in CopiesOf(e)
    <3>1. PICK v \in Words, i \in Nat : c = <<v, i>> /\ 1 <= i /\ i <= f[v]
      BY <2>2, CopyIs
    <3>2. i <= e[v] BY <2>1, <3>1
    <3>. QED BY <3>1, <3>2, CopyIs
  <2>. QED BY <2>2
<1>2. IsFiniteSet(CopiesOf(f)) BY <1>1, FS_Subset
<1>3. \A v \in Words \ {w} : e[v] = f[v] OBVIOUS
<1>4. /\ Cardinality(CopiesOf(f)) \in Nat /\ Cardinality(CopiesOf(e)) \in Nat
      /\ Cardinality(CopiesOf(e)) = Cardinality(CopiesOf(f)) + 1
  BY <1>2, <1>3, CopiesMore, FS_CardinalityType
<1>. QED BY <1>2, <1>4

Counts(mem) == [v \in Words |-> avl_exists(mem, v)]

LEMMA CopiesAre ==
  ASSUME NEW mem, Formed(mem), Tree(mem, mem.root)
  PROVE  /\ Counts(mem) \in [Words -> Nat]
         /\ Copies(mem, DOMAIN mem.node) = CopiesOf(Counts(mem))
<1>. DEFINE e == Counts(mem)
            C == Copies(mem, DOMAIN mem.node)
            Few(a) == {Item(mem, a)} \X (1 .. mem.node[a].count)
<1>1. e \in [Words -> Nat] /\ \A v \in Words : e[v] = avl_exists(mem, v)
  BY ExistsTally DEF Counts
<1>2. \A a \in DOMAIN mem.node :
        /\ Item(mem, a) \in Words /\ mem.node[a].count \in Nat
        /\ <<Item(mem, a), mem.node[a].count>> \in Tally(mem)
  BY FormedIs DEF Tally
<1>3. \A a \in DOMAIN mem.node : e[Item(mem, a)] = mem.node[a].count
  BY Zenon, <1>1, <1>2, ExistsTally
<1>. HIDE DEF e
<1>4. \A c : c \in CopiesOf(e) <=>
        \E v \in Words, i \in Nat : c = <<v, i>> /\ 1 <= i /\ i <= e[v]
  BY <1>1, CopyIs
<1>5. \A c : c \in C <=> \E a \in DOMAIN mem.node : c \in Few(a) BY DEF Copies
<1>6. ASSUME NEW c \in C PROVE c \in CopiesOf(e)
  <2>1. PICK a \in DOMAIN mem.node : c \in Few(a) BY <1>5
  <2>2. PICK i \in 1 .. mem.node[a].count : c = <<Item(mem, a), i>> BY <2>1
  <2>3. i \in Nat /\ 1 <= i /\ i <= mem.node[a].count BY <1>2, <2>2
  <2>. QED BY Zenon, <1>2, <1>3, <1>4, <2>2, <2>3
<1>7. ASSUME NEW c \in CopiesOf(e) PROVE c \in C
  <2>1. PICK v \in Words, i \in Nat : c = <<v, i>> /\ 1 <= i /\ i <= e[v]
    BY <1>4
  <2>2. e[v] \in Nat /\ e[v] = avl_exists(mem, v) BY <1>1
  <2>3. avl_exists(mem, v) # 0 BY <2>1, <2>2
  <2>4. <<v, e[v]>> \in Tally(mem) BY <2>2, <2>3, ExistsTally
  <2>5. PICK a \in DOMAIN mem.node :
          <<v, e[v]>> = <<Item(mem, a), mem.node[a].count>>
    BY <2>4 DEF Tally
  <2>6. v = Item(mem, a) /\ e[v] = mem.node[a].count BY <2>5
  <2>7. i \in 1 .. mem.node[a].count BY <2>1, <2>2, <2>6
  <2>8. c \in Few(a) BY <2>1, <2>6, <2>7
  <2>. QED BY <1>5, <2>8
<1>8. C = CopiesOf(e)
  <2>. HIDE DEF C
  <2>. QED BY <1>6, <1>7
<1>. QED BY <1>1, <1>8 DEF e

(* The totals are right. *)
Agree(mem) ==
  /\ IsFiniteSet(Copies(mem, DOMAIN mem.node))
  /\ mem.items = Cardinality(Copies(mem, DOMAIN mem.node))
  /\ mem.unique = Cardinality(DOMAIN mem.node)

(* A tree in which each word is in one node. *)
Whole(mem) == Formed(mem) /\ Tree(mem, mem.root) /\ Agree(mem)

(* From mem to x, the count of w grows by k, and of no other word. *)
Counting(mem, x, w, k) ==
  /\ avl_exists(mem, w) \in Nat /\ avl_exists(x, w) \in Nat
  /\ avl_exists(x, w) = avl_exists(mem, w) + k
  /\ \A v \in Words \ {w} : avl_exists(x, v) = avl_exists(mem, v)

LEMMA WholeOn ==
  ASSUME NEW mem, Whole(mem), NEW x, Formed(x), Tree(x, x.root),
         NEW w \in Words, NEW k \in {-1, 1},
         avl_exists(x, w) = avl_exists(mem, w) + k,
         \A v \in Words \ {w} : \A n :
           <<v, n>> \in Tally(x) <=> <<v, n>> \in Tally(mem),
         x.items = mem.items + k, x.unique = Cardinality(DOMAIN x.node)
  PROVE  Whole(x) /\ Counting(mem, x, w, k)
<1>. DEFINE e == Counts(mem)
            f == Counts(x)
            C == Copies(mem, DOMAIN mem.node)
            D == Copies(x, DOMAIN x.node)
<1>1. Formed(mem) /\ Tree(mem, mem.root) BY DEF Whole
<1>2. e \in [Words -> Nat] /\ C = CopiesOf(e)
      /\ f \in [Words -> Nat] /\ D = CopiesOf(f)
  BY <1>1, CopiesAre
<1>3. \A v \in Words \ {w} : avl_exists(x, v) = avl_exists(mem, v)
  BY <1>1, TallySame
<1>4. avl_exists(x, w) \in Nat /\ avl_exists(mem, w) \in Nat
  BY <1>1, ExistsTally
<1>5. /\ \A v \in Words \ {w} : f[v] = e[v]
      /\ f[w] = e[w] + k /\ f[w] \in Nat /\ e[w] \in Nat
  BY <1>3, <1>4 DEF Counts
<1>6. Counting(mem, x, w, k) BY <1>3, <1>4 DEF Counting
<1>7. IsFiniteSet(C) /\ mem.items = Cardinality(C) BY DEF Whole, Agree
<1>. HIDE DEF e, f, C, D
<1>8. IsFiniteSet(D) /\ x.items = Cardinality(D)
  <2>1. CASE k = 1
    <3>1. f[w] = e[w] + 1 BY <1>5, <2>1
    <3>2. /\ IsFiniteSet(CopiesOf(f))
          /\ Cardinality(CopiesOf(f)) = Cardinality(CopiesOf(e)) + 1
      BY <1>2, <1>5, <1>7, <3>1, CopiesMore
    <3>. QED BY <1>2, <1>7, <2>1, <3>2
  <2>2. CASE k = -1
    <3>1. e[w] = f[w] + 1 BY <1>5, <2>2
    <3>2. /\ IsFiniteSet(CopiesOf(f)) /\ Cardinality(CopiesOf(e)) \in Nat
          /\ Cardinality(CopiesOf(f)) = Cardinality(CopiesOf(e)) - 1
      BY <1>2, <1>5, <1>7, <3>1, CopiesLess
    <3>. QED BY <1>2, <1>7, <2>2, <3>2
  <2>. QED BY <2>1, <2>2
<1>9. Agree(x) BY <1>8 DEF Agree, D
<1>. QED BY <1>6, <1>9 DEF Whole

-----------------------------------------------------------------------------
(* A word that is in the tree is counted once more, or once less. *)

HasCount(node, b, n, x) ==
  /\ Graph(x) /\ DOMAIN x = DOMAIN node /\ x[b].count = n
  /\ \A a \in DOMAIN node : /\ x[a].item = node[a].item
                            /\ a # b => x[a] = node[a]

LEMMA HasCountIs ==
  ASSUME NEW node, Graph(node), NEW b \in DOMAIN node, NEW n \in Nat
  PROVE  HasCount(node, b, n, SetCount(node, b, n))
<1>. DEFINE x == SetCount(node, b, n)
<1>1. /\ Graph(x) /\ DOMAIN x = DOMAIN node /\ x[b].count = n
      /\ \A a \in DOMAIN node :
           /\ x[a].left = node[a].left /\ x[a].right = node[a].right
           /\ x[a].depth = node[a].depth /\ x[a].item = node[a].item
           /\ a # b => x[a] = node[a]
  BY SetCountIs
<1>. HIDE DEF x
<1>2. HasCount(node, b, n, x) BY <1>1 DEF HasCount
<1>. QED BY <1>2 DEF x

LEMMA WholeSetCount ==
  ASSUME NEW mem, Whole(mem), NEW b \in DOMAIN mem.node,
         NEW n \in Nat, n >= 1, NEW k \in {-1, 1}, n = mem.node[b].count + k,
         NEW x, IsMem(x), x.node = SetCount(mem.node, b, n),
         x.scm = mem.scm, x.end = mem.end, x.word = mem.word,
         x.root = mem.root, x.items = mem.items + k, x.unique = mem.unique,
         Alike(mem.node, x.node)
  PROVE  Whole(x) /\ Counting(mem, x, Item(mem, b), k)
<1>. DEFINE node == mem.node
            w == Item(mem, b)
<1>1. Formed(mem) /\ Tree(mem, mem.root) BY DEF Whole
<1>2. /\ Shallow(node) /\ Graph(node) /\ DOMAIN node = Sub(node, mem.root)
      /\ mem.root \in Places(node) /\ Leveled(node, DOMAIN node)
      /\ w \in Words
  BY <1>1, FormedIs DEF Formed
<1>3. /\ Graph(x.node) /\ DOMAIN x.node = DOMAIN node /\ x.node[b].count = n
      /\ \A a \in DOMAIN node :
           /\ x.node[a].item = node[a].item
           /\ a # b => x.node[a] = node[a]
  <2>1. HasCount(node, b, n, x.node) BY <1>2, HasCountIs
  <2>. HIDE DEF node
  <2>. QED BY <2>1 DEF HasCount
<1>4. /\ Places(x.node) = Places(node)
      /\ \A a \in Places(node) : Sub(x.node, a) = Sub(node, a)
      /\ \A a \in DOMAIN node : Level(node, a) => Level(x.node, a)
  BY <1>2, AlikeIs
<1>5. Ready(x)
  <2>1. Ready(mem) BY SMTT(60), <1>1 DEF Formed
  <2>2. Lodged(x) BY <1>3, <2>1 DEF Ready, Lodged
  <2>. QED BY <1>3, <2>1, <2>2 DEF Ready
<1>6. Formed(x)
  <2>1. x.root \in Places(x.node) /\ DOMAIN x.node = Sub(x.node, x.root)
    BY <1>2, <1>3, <1>4
  <2>2. Leveled(x.node, DOMAIN x.node) BY <1>2, <1>3, <1>4 DEF Leveled
  <2>3. \A a \in DOMAIN x.node : x.node[a].count >= 1
    BY <1>1, <1>3 DEF Formed
  <2>4. \A p \in DOMAIN x.word :
          \E a \in DOMAIN x.node : x.node[a].item = p
    <3>1. ASSUME NEW p \in DOMAIN x.word
          PROVE  \E a \in DOMAIN x.node : x.node[a].item = p
      <4>1. PICK a \in DOMAIN node : node[a].item = p BY <1>1 DEF Formed
      <4>. QED BY <1>3, <4>1
    <3>. QED BY <3>1
  <2>5. IsFiniteSet(DOMAIN x.node) BY SMTT(60), <1>1, <1>3 DEF Formed
  <2>. QED BY <1>5, <2>1, <2>2, <2>3, <2>4, <2>5 DEF Formed
<1>7. \A a \in DOMAIN node : /\ Item(x, a) = Item(mem, a)
                             /\ Key(x.node, x.word, a) = Key(node, mem.word, a)
  BY <1>3 DEF Item, Key
<1>8. Tree(x, x.root)
  <2>1. Same(node, mem.word, x.node, x.word, Sub(node, mem.root))
    BY <1>2, <1>3, <1>7 DEF Same, Alike
  <2>2. AVL(x.node, x.word, x.root)
    BY <1>1, <1>2, <1>3, <2>1, AVLSame DEF Tree
  <2>3. Spelt(x.node, x.word, Sub(x.node, x.root))
    BY <1>1, <1>2, <1>3, <1>4, <1>7 DEF Tree, Spelt
  <2>. QED BY SMTT(60), <1>2, <1>4, <2>2, <2>3 DEF Tree
<1>9. avl_exists(mem, w) = node[b].count /\ node[b].count \in Nat
  <2>1. <<w, node[b].count>> \in Tally(mem) BY DEF Tally
  <2>2. avl_exists(mem, w) = node[b].count BY <1>1, <2>1, ExistsTally
  <2>. QED BY <1>1, <2>2, FormedIs
<1>10. avl_exists(x, w) = n
  <2>1. <<Item(x, b), x.node[b].count>> \in Tally(x) BY <1>3 DEF Tally
  <2>2. <<w, n>> \in Tally(x) BY <1>3, <1>7, <2>1
  <2>. QED BY <1>6, <1>8, <2>2, ExistsTally
<1>11. ASSUME NEW v \in Words \ {w}, NEW i
       PROVE  <<v, i>> \in Tally(x) <=> <<v, i>> \in Tally(mem)
  <2>1. ASSUME NEW a \in DOMAIN node, v = Item(mem, a)
        PROVE  x.node[a].count = node[a].count
    BY <1>3, <2>1
  <2>2. ASSUME <<v, i>> \in Tally(x) PROVE <<v, i>> \in Tally(mem)
    <3>1. PICK a \in DOMAIN x.node : <<v, i>> = <<Item(x, a), x.node[a].count>>
      BY <2>2 DEF Tally
    <3>2. /\ a \in DOMAIN node /\ v = Item(mem, a) /\ i = x.node[a].count
      BY <1>3, <1>7, <3>1
    <3>3. i = node[a].count BY <2>1, <3>2
    <3>. QED BY <3>2, <3>3 DEF Tally
  <2>3. ASSUME <<v, i>> \in Tally(mem) PROVE <<v, i>> \in Tally(x)
    <3>1. PICK a \in DOMAIN node : <<v, i>> = <<Item(mem, a), node[a].count>>
      BY <2>3 DEF Tally
    <3>2. /\ a \in DOMAIN x.node /\ v = Item(mem, a) /\ i = node[a].count
      BY <1>3, <3>1
    <3>3. i = x.node[a].count /\ v = Item(x, a) BY <1>7, <2>1, <3>2
    <3>. QED BY <3>2, <3>3 DEF Tally
  <2>. QED BY <2>2, <2>3
<1>12. x.unique = Cardinality(DOMAIN x.node) BY <1>3 DEF Whole, Agree
<1>13. avl_exists(x, w) = avl_exists(mem, w) + k BY <1>9, <1>10
<1>. HIDE DEF w
<1>14. Whole(x) /\ Counting(mem, x, w, k)
  BY <1>2, <1>6, <1>8, <1>11, <1>12, <1>13, WholeOn
<1>. QED BY <1>14 DEF w

-----------------------------------------------------------------------------
(* A new word is in a tree of its own words and the others'. *)

SetRoot(mem, r) == [mem EXCEPT !.root = r]

LEMMA SetRootIs ==
  ASSUME NEW mem, IsMem(mem), NEW r
  PROVE  LET x == SetRoot(mem, r)
         IN  /\ IsMem(x) /\ x.root = r /\ x.scm = mem.scm /\ x.end = mem.end
             /\ x.node = mem.node /\ x.word = mem.word
             /\ x.items = mem.items /\ x.unique = mem.unique
<1>1. SetRoot(mem, r) =
        [scm |-> mem.scm, end |-> mem.end, node |-> mem.node,
         word |-> mem.word, root |-> r, items |-> mem.items,
         unique |-> mem.unique]
  BY DEF SetRoot, IsMem
<1>. QED BY <1>1 DEF IsMem

(* x has the nodes of mem, wherever they are, and the leaf. *)
PlantedIn(mem, w, p, q, base, x) ==
  /\ IsMem(x) /\ x.scm = base.scm /\ x.end = base.end /\ x.word = base.word
  /\ x.items = base.items /\ x.unique = base.unique
  /\ Graph(x.node) /\ DOMAIN x.node = DOMAIN mem.node \cup {p}
  /\ \A a \in DOMAIN mem.node : /\ x.node[a].item = mem.node[a].item
                                /\ x.node[a].count = mem.node[a].count
                                /\ Item(x, a) = Item(mem, a)
  /\ x.node[p].item = q /\ x.node[p].count = 1 /\ Item(x, p) = w

LEMMA PlantedInIs ==
  ASSUME NEW mem, Graph(mem.node), NEW w, NEW p, NEW q, NEW base,
         Made(mem, w, p, q, base), NEW x, IsMem(x), x.scm = base.scm,
         x.end = base.end, x.word = base.word, x.items = base.items,
         x.unique = base.unique, NEW S, Kept(base.node, x.node, S)
  PROVE  PlantedIn(mem, w, p, q, base, x)
<1>. DEFINE n1 == base.node
            new == base.word
            g == x.node
<1>1. Planted(mem.node, mem.word, p, q, w, n1, new) BY DEF Made
<1>2. /\ DOMAIN n1 = DOMAIN mem.node \cup {p} /\ n1[p] = LeafOf(q)
      /\ \A b \in DOMAIN mem.node :
           n1[b] = mem.node[b] /\ Key(n1, new, b) = Key(mem.node, mem.word, b)
      /\ Key(n1, new, p) = w
  <2>1. Plants(mem.node, mem.word, p, q, w, n1, new) BY <1>1, PlantedIs
  <2>. HIDE DEF n1, new
  <2>. QED BY <2>1 DEF Plants
<1>3. /\ Graph(g) /\ DOMAIN g = DOMAIN n1
      /\ \A b \in DOMAIN n1 : g[b].count = n1[b].count /\ g[b].item = n1[b].item
  BY DEF Kept
<1>4. \A b \in DOMAIN n1 : Item(x, b) = Key(n1, new, b)
  BY <1>3 DEF Item, Key
<1>5. \A b : Item(mem, b) = Key(mem.node, mem.word, b) BY ItemIsKey
<1>6. n1[p].item = q /\ n1[p].count = 1 BY <1>2 DEF LeafOf
<1>. HIDE DEF n1, new
<1>7. \A a \in DOMAIN mem.node : /\ g[a].item = mem.node[a].item
                                 /\ g[a].count = mem.node[a].count
                                 /\ Item(x, a) = Item(mem, a)
  BY <1>2, <1>3, <1>4, <1>5
<1>8. g[p].item = q /\ g[p].count = 1 /\ Item(x, p) = w
  BY <1>2, <1>3, <1>4, <1>6
<1>. QED BY <1>2, <1>3, <1>7, <1>8 DEF PlantedIn

LEMMA PlantedReady ==
  ASSUME NEW mem, Ready(mem), NEW w \in Words, NEW p, NEW q, NEW base,
         Made(mem, w, p, q, base), NEW x, PlantedIn(mem, w, p, q, base, x)
  PROVE  Ready(x) /\ (Worded(mem) => Worded(x))
<1>1. Planted(mem.node, mem.word, p, q, w, base.node, base.word) BY DEF Made
<1>2. x.word = With(mem.word, q, w) BY <1>1 DEF Planted, PlantedIn
<1>3. /\ DOMAIN x.word = DOMAIN mem.word \cup {q} /\ x.word[q] = w
      /\ \A r \in DOMAIN mem.word : r # q => x.word[r] = mem.word[r]
  BY <1>2 DEF With
<1>4. q \notin DOMAIN mem.word BY <1>1 DEF Planted
<1>5. /\ p \in Blocks(x.scm) /\ x.scm.block[p].used
      /\ x.scm.block[p].n >= NodeLen /\ p # scm_mbase
      /\ q \in Blocks(x.scm) /\ x.scm.block[q].used
      /\ x.scm.block[q].n >= WordLen[w] /\ q # scm_mbase
      /\ p # q /\ p \notin DOMAIN mem.word /\ q \notin DOMAIN mem.node
      /\ Serves(x.scm, mem.scm) /\ x.end = "open"
  BY DEF Made, PlantedIn
<1>6. Lodged(mem) /\ Based(mem.scm) BY DEF Ready
<1>7. /\ DOMAIN x.node = DOMAIN mem.node \cup {p} /\ Graph(x.node) /\ IsMem(x)
      /\ x.node[p].item = q
      /\ \A a \in DOMAIN mem.node : x.node[a].item = mem.node[a].item
  BY DEF PlantedIn
<1>8. ASSUME NEW a \in DOMAIN x.node
      PROVE  /\ a \in Blocks(x.scm) /\ x.scm.block[a].used
             /\ x.scm.block[a].n >= NodeLen /\ a # scm_mbase
             /\ x.node[a].item \in DOMAIN x.word
  <2>1. CASE a = p BY <1>3, <1>5, <1>7, <2>1
  <2>2. CASE a \in DOMAIN mem.node
    <3>1. /\ a \in Blocks(mem.scm) /\ mem.scm.block[a].used
          /\ mem.scm.block[a].n >= NodeLen /\ a # scm_mbase
          /\ mem.node[a].item \in DOMAIN mem.word
      BY <1>6, <2>2 DEF Lodged
    <3>. QED BY <1>3, <1>5, <1>7, <2>2, <3>1 DEF Serves
  <2>. QED BY <1>7, <2>1, <2>2
<1>9. ASSUME NEW r \in DOMAIN x.word
      PROVE  /\ r \in Blocks(x.scm) /\ r \notin DOMAIN x.node /\ r # scm_mbase
             /\ x.word[r] \in Words
             /\ x.scm.block[r].n >= WordLen[x.word[r]]
  <2>1. CASE r = q BY <1>3, <1>5, <1>7, <2>1
  <2>2. CASE r \in DOMAIN mem.word
    <3>1. /\ r \in Blocks(mem.scm) /\ r \notin DOMAIN mem.node
          /\ r # scm_mbase /\ mem.word[r] \in Words
          /\ mem.scm.block[r].n >= WordLen[mem.word[r]]
      BY <1>6, <2>2 DEF Lodged
    <3>2. x.word[r] = mem.word[r] /\ r # p BY <1>3, <1>4, <1>5, <2>2
    <3>. QED BY <1>5, <1>7, <2>2, <3>1, <3>2 DEF Serves
  <2>. QED BY <1>3, <2>1, <2>2
<1>10. Lodged(x) BY <1>8, <1>9 DEF Lodged
<1>11. Based(x.scm) BY <1>5, <1>6, BasedServed
<1>12. Worded(mem) => Worded(x)
  <2>1. \A r \in DOMAIN mem.word : r \in Blocks(mem.scm) BY <1>6 DEF Lodged
  <2>. QED BY <1>3, <1>5, <2>1 DEF Worded, Serves
<1>13. Ready(x) BY <1>5, <1>7, <1>10, <1>11 DEF Ready, Serves
<1>. QED BY <1>12, <1>13

LEMMA WholePlanted ==
  ASSUME NEW mem, Whole(mem), NEW w \in Words,
         \A b \in DOMAIN mem.node : Item(mem, b) # w,
         NEW p, NEW q, NEW base, Made(mem, w, p, q, base),
         NewNode(mem, w) = At(base, p),
         NEW u, u = update(mem, mem.root, w)
  PROVE  /\ u.root # NULL /\ u.mem.end = "open"
         /\ Whole(SetRoot(u.mem, u.root))
         /\ Counting(mem, SetRoot(u.mem, u.root), w, 1)
         /\ Serves(u.mem.scm, mem.scm)
         /\ Worded(mem) => Worded(SetRoot(u.mem, u.root))
<1>. DEFINE n1 == base.node
            new == base.word
            g == u.mem.node
            y == Top(g, u.root)
            x == SetRoot(u.mem, u.root)
            root == mem.root
            node == mem.node
<1>1. /\ Formed(mem) /\ Tree(mem, root) BY DEF Whole
<1>2. /\ Shallow(node) /\ Graph(node) /\ Ready(mem) /\ root \in Places(node)
      /\ DOMAIN node = Sub(node, root)
  BY <1>1, FormedIs DEF Formed
<1>3. /\ Planted(node, mem.word, p, q, w, n1, new) /\ IsMem(base)
      /\ base.items = mem.items + 1 /\ base.unique = mem.unique + 1
      /\ base.end = "open" /\ Serves(base.scm, mem.scm)
  BY DEF Made
<1>4. Updated(base, n1, new, root, p, u)
  BY <1>1, <1>2, <1>3, UpdateGrows
<1>5. u.mem = SetNode(base, g) /\ Grown(n1, new, root, y, p)
  BY <1>4 DEF Updated
<1>6. /\ IsMem(u.mem) /\ u.mem.scm = base.scm /\ u.mem.end = base.end
      /\ u.mem.word = new /\ u.mem.items = base.items
      /\ u.mem.unique = base.unique
  BY <1>3, <1>5, SetNodeIs
<1>7. /\ IsMem(x) /\ x.root = u.root /\ x.node = g /\ x.scm = base.scm
      /\ x.end = base.end /\ x.word = new /\ x.items = base.items
      /\ x.unique = base.unique
  BY <1>6, SetRootIs
<1>8. y.node = g /\ y.root = u.root BY DEF Top
<1>. HIDE DEF x, y, g
<1>9. /\ Kept(n1, g, Sub(n1, root) \cup {p}) /\ u.root \in DOMAIN n1
      /\ Sub(g, u.root) = Sub(n1, root) \cup {p}
      /\ AVL(g, new, u.root)
  BY <1>5, <1>8 DEF Grown
<1>10. PlantedIn(mem, w, p, q, base, x)
  BY <1>2, <1>7, <1>9, PlantedInIs
<1>11. Ready(x) /\ (Worded(mem) => Worded(x)) BY <1>2, <1>10, PlantedReady
<1>12. /\ Graph(n1) /\ DOMAIN n1 = DOMAIN node \cup {p} /\ p # NULL
       /\ \A S : S \subseteq DOMAIN node => Same(node, mem.word, n1, new, S)
  <2>1. Plants(node, mem.word, p, q, w, n1, new) BY <1>2, <1>3, PlantedIs
  <2>. HIDE DEF n1, new, node
  <2>. QED BY <2>1 DEF Plants
<1>13. Sub(n1, root) = DOMAIN node
  <2>1. Same(node, mem.word, n1, new, Sub(node, root)) BY <1>2, <1>12
  <2>. QED BY <1>2, <1>12, <2>1, SubSame
<1>14. /\ Graph(g) /\ DOMAIN g = DOMAIN node \cup {p}
       /\ \A a \in DOMAIN node : /\ g[a].item = node[a].item
                                 /\ g[a].count = node[a].count
                                 /\ Item(x, a) = Item(mem, a)
       /\ g[p].item = q /\ g[p].count = 1 /\ Item(x, p) = w
  BY <1>7, <1>10 DEF PlantedIn
<1>15. Sub(g, u.root) = DOMAIN g BY <1>9, <1>13, <1>14
<1>16. Formed(x)
  <2>1. Leveled(g, DOMAIN g) BY <1>9, <1>15 DEF AVL, Leveled
  <2>2. u.root \in Places(g) BY <1>9, <1>12, <1>14 DEF Places
  <2>3. \A a \in DOMAIN g : g[a].count >= 1
    BY <1>1, <1>14 DEF Formed
  <2>4. \A r \in DOMAIN x.word : \E a \in DOMAIN g : g[a].item = r
    <3>1. DOMAIN x.word = DOMAIN mem.word \cup {q}
      BY <1>3, <1>7 DEF Planted, With
    <3>2. \A r \in DOMAIN mem.word : \E a \in DOMAIN node : node[a].item = r
      BY <1>1 DEF Formed
    <3>. QED BY <1>14, <3>1, <3>2
  <2>5. IsFiniteSet(DOMAIN g)
    <3>1. IsFiniteSet(DOMAIN node) BY <1>1 DEF Formed
    <3>. QED BY <1>14, <3>1, FS_AddElement
  <2>. QED BY <1>7, <1>11, <1>15, <2>1, <2>2, <2>3, <2>4, <2>5 DEF Formed
<1>17. Tree(x, x.root)
  <2>1. AVL(x.node, x.word, x.root) BY <1>7, <1>9
  <2>2. \A a \in DOMAIN x.node : Key(x.node, x.word, a) \in Nat
    BY <1>16, FormedIs, ItemIsKey
  <2>3. Sub(x.node, x.root) \subseteq DOMAIN x.node BY SubIn
  <2>4. x.root \in Places(x.node) BY <1>16 DEF Formed
  <2>. QED BY <2>1, <2>2, <2>3, <2>4 DEF Tree, Spelt
<1>18. avl_exists(x, w) = avl_exists(mem, w) + 1
  <2>1. \A n : <<w, n>> \notin Tally(mem)
    <3>1. SUFFICES ASSUME NEW n, <<w, n>> \in Tally(mem) PROVE FALSE OBVIOUS
    <3>2. PICK a \in DOMAIN node : <<w, n>> = <<Item(mem, a), node[a].count>>
      BY <3>1 DEF Tally
    <3>. QED BY <3>2
  <2>2. avl_exists(mem, w) = 0 BY <1>1, <2>1, ExistsTally
  <2>3. <<Item(x, p), x.node[p].count>> \in Tally(x)
    BY <1>7, <1>14 DEF Tally
  <2>4. <<w, 1>> \in Tally(x) BY <1>7, <1>14, <2>3
  <2>5. avl_exists(x, w) = 1 BY <1>16, <1>17, <2>4, ExistsTally
  <2>. QED BY <2>2, <2>5
<1>19. ASSUME NEW v \in Words \ {w}, NEW i
       PROVE  <<v, i>> \in Tally(x) <=> <<v, i>> \in Tally(mem)
  <2>1. ASSUME <<v, i>> \in Tally(x) PROVE <<v, i>> \in Tally(mem)
    <3>1. PICK a \in DOMAIN x.node : <<v, i>> = <<Item(x, a), x.node[a].count>>
      BY <2>1 DEF Tally
    <3>2. v = Item(x, a) /\ i = x.node[a].count BY <3>1
    <3>3. a # p BY <1>14, <3>2
    <3>4. a \in DOMAIN node BY <1>7, <1>14, <3>3
    <3>5. v = Item(mem, a) /\ i = node[a].count BY <1>7, <1>14, <3>2, <3>4
    <3>. QED BY <3>4, <3>5 DEF Tally
  <2>2. ASSUME <<v, i>> \in Tally(mem) PROVE <<v, i>> \in Tally(x)
    <3>1. PICK a \in DOMAIN node : <<v, i>> = <<Item(mem, a), node[a].count>>
      BY <2>2 DEF Tally
    <3>2. v = Item(mem, a) /\ i = node[a].count BY <3>1
    <3>3. /\ a \in DOMAIN x.node /\ v = Item(x, a) /\ i = x.node[a].count
      BY <1>7, <1>14, <3>2
    <3>. QED BY <3>3 DEF Tally
  <2>. QED BY <2>1, <2>2
<1>20. x.unique = Cardinality(DOMAIN x.node)
  <2>1. IsFiniteSet(DOMAIN node) BY <1>1 DEF Formed
  <2>2. p \notin DOMAIN node BY <1>3 DEF Planted
  <2>3. Cardinality(DOMAIN node \cup {p}) = Cardinality(DOMAIN node) + 1
    BY Zenon, <2>1, <2>2, FS_AddElement
  <2>4. mem.unique = Cardinality(DOMAIN node) BY DEF Whole, Agree
  <2>. QED BY <1>3, <1>7, <1>14, <2>3, <2>4
<1>21. x.items = mem.items + 1 BY <1>3, <1>7
<1>22. Whole(x) /\ Counting(mem, x, w, 1)
  BY <1>16, <1>17, <1>18, <1>19, <1>20, <1>21, WholeOn
<1>23. u.root # NULL
  <2>1. Graph(n1) /\ u.root \in DOMAIN n1 BY <1>9, <1>12
  <2>. QED BY <2>1, NullIsNone
<1>. QED BY <1>3, <1>6, <1>11, <1>22, <1>23 DEF x

-----------------------------------------------------------------------------
(* What an insertion leaves *)

LEMMA WholeAlone ==
  ASSUME NEW mem, Whole(mem), NEW x, Alone(x, mem), x.end = "open",
         NEW w \in Words
  PROVE  Whole(x) /\ Counting(mem, x, w, 0)
<1>1. /\ x.node = mem.node /\ x.word = mem.word /\ x.root = mem.root
      /\ x.items = mem.items /\ x.unique = mem.unique
  BY DEF Alone
<1>2. Formed(mem) /\ Tree(mem, mem.root) /\ Agree(mem) BY DEF Whole
<1>3. Formed(x)
  <2>1. Ready(x) BY <1>2, ReadyAlone DEF Formed
  <2>. QED BY <1>1, <1>2, <2>1 DEF Formed
<1>4. Tree(x, x.root) BY <1>1, <1>2 DEF Tree
<1>5. \A a : Item(x, a) = Item(mem, a) BY <1>1 DEF Item
<1>6. Copies(x, DOMAIN x.node) = Copies(mem, DOMAIN mem.node)
  BY <1>1, <1>5 DEF Copies
<1>7. Agree(x) BY <1>1, <1>2, <1>6 DEF Agree
<1>8. Tally(x) = Tally(mem) BY <1>1, <1>5 DEF Tally
<1>9. \A v : avl_exists(x, v) = avl_exists(mem, v)
  BY <1>2, <1>3, <1>4, <1>8, TallySame
<1>10. \A v : avl_exists(mem, v) \in Nat BY <1>2, ExistsTally
<1>. QED BY <1>2, <1>3, <1>4, <1>7, <1>9, <1>10 DEF Whole, Counting

(* Whether the insertion counts: the process lives, and w is in the tree or *)
(* its node is made.                                                       *)
Succeeds(mem, w, end) ==
  end = "open" /\ (avl_exists(mem, w) > 0 \/ Granted(mem, w))

(* The memory after avl_insert(), where u is what update() returned. *)
AfterInsert(mem, u) ==
  IF u.mem.end # "open" THEN [mem EXCEPT !.scm = u.mem.scm]
  ELSE IF u.root = NULL THEN SetRoot(u.mem, mem.root)
  ELSE SetRoot(u.mem, u.root)

InsertsInto(mem, w, u) ==
  LET x == AfterInsert(mem, u)
  IN  /\ u.mem.end \in {"open", "killed", "undefined"}
      /\ u.mem.end = "undefined" => stale \/ ~Worded(mem)
      /\ Whole(x) /\ Serves(x.scm, mem.scm) /\ (Worded(mem) => Worded(x))
      /\ Succeeds(mem, w, u.mem.end) => Counting(mem, x, w, 1)
      /\ ~Succeeds(mem, w, u.mem.end) => Counting(mem, x, w, 0)

LEMMA SetRootSelf ==
  ASSUME NEW mem, IsMem(mem) PROVE SetRoot(mem, mem.root) = mem
BY DEF SetRoot, IsMem

LEMMA InsertFound ==
  ASSUME NEW mem, Whole(mem), NEW w \in Words, NEW b \in DOMAIN mem.node,
         Item(mem, b) = w
  PROVE  InsertsInto(mem, w, update(mem, mem.root, w))
<1>. DEFINE x == Counted(mem, b)
            u == update(mem, mem.root, w)
            n == mem.node[b].count + 1
<1>1. Formed(mem) /\ Tree(mem, mem.root) BY DEF Whole
<1>2. /\ Shallow(mem.node) /\ Graph(mem.node) /\ IsMem(mem)
      /\ mem.node[b].count \in Nat
  BY <1>1, FormedIs
<1>3. mem.root \in Places(mem.node) /\ b \in Sub(mem.node, mem.root)
  BY <1>1 DEF Formed
<1>4. u = At(x, mem.root) BY <1>1, <1>2, <1>3, UpdateFound
<1>5. /\ IsMem(x) /\ x.node = SetCount(mem.node, b, n)
      /\ x.scm = mem.scm /\ x.end = mem.end /\ x.word = mem.word
      /\ x.root = mem.root /\ x.items = mem.items + 1
      /\ x.unique = mem.unique
      /\ Alike(mem.node, x.node)
  BY <1>2, CountedIs
<1>6. n \in Nat /\ n >= 1 /\ n = mem.node[b].count + 1 BY <1>2
<1>. HIDE DEF n, x, u
<1>7. Whole(x) /\ Counting(mem, x, Item(mem, b), 1)
  BY <1>5, <1>6, WholeSetCount
<1>8. mem.root # NULL BY <1>3, SubNull
<1>9. u.mem = x /\ u.root = mem.root BY <1>4 DEF At
<1>10. mem.end = "open" /\ Region(mem.scm) BY <1>1 DEF Formed, Ready
<1>11. AfterInsert(mem, u) = x
  BY <1>5, <1>8, <1>9, <1>10, SetRootSelf DEF AfterInsert
<1>12. Serves(x.scm, mem.scm) BY <1>5, <1>10, ServesSelf
<1>13. Worded(mem) => Worded(x) BY <1>5 DEF Worded
<1>14. Succeeds(mem, w, mem.end)
  <2>1. <<w, mem.node[b].count>> \in Tally(mem) BY DEF Tally
  <2>2. avl_exists(mem, w) = mem.node[b].count BY <1>1, <2>1, ExistsTally
  <2>3. mem.node[b].count >= 1 BY <1>1 DEF Formed
  <2>. QED BY <1>2, <1>10, <2>2, <2>3 DEF Succeeds
<1>15. InsertsInto(mem, w, u)
  BY <1>5, <1>7, <1>9, <1>10, <1>11, <1>12, <1>13, <1>14 DEF InsertsInto
<1>. QED BY <1>15 DEF u

LEMMA InsertNew ==
  ASSUME NEW mem, Whole(mem), NEW w \in Words,
         \A b \in DOMAIN mem.node : Item(mem, b) # w
  PROVE  InsertsInto(mem, w, update(mem, mem.root, w))
<1>. DEFINE u == update(mem, mem.root, w)
            new == NewNode(mem, w)
            x == AfterInsert(mem, u)
<1>1. Formed(mem) /\ Tree(mem, mem.root) BY DEF Whole
<1>2. /\ Shallow(mem.node) /\ Ready(mem) /\ IsMem(mem) /\ Region(mem.scm)
      /\ mem.end = "open" /\ mem.root \in Places(mem.node)
      /\ \A b \in Sub(mem.node, mem.root) : Item(mem, b) # w
  BY <1>1, FormedIs DEF Formed, Ready
<1>3. \/ NoneMade(mem, new)
      \/ \E p, q, base : Made(mem, w, p, q, base) /\ new = At(base, p)
  BY <1>2, NewNodeIs
<1>6. avl_exists(mem, w) = 0
  <2>1. ASSUME NEW n, <<w, n>> \in Tally(mem) PROVE FALSE
    <3>1. PICK a \in DOMAIN mem.node : <<w, n>> = <<Item(mem, a), mem.node[a].count>>
      BY <2>1 DEF Tally
    <3>. QED BY <3>1
  <2>. QED BY <1>1, <2>1, ExistsTally
<1>. HIDE DEF u, x
<1>4. CASE NoneMade(mem, new)
  <2>. DEFINE y == new.mem
  <2>1. /\ Alone(y, mem) /\ y.end \in {"open", "killed", "undefined"}
        /\ y.end = "undefined" => stale \/ ~Worded(mem)
    BY <1>4 DEF NoneMade
  <2>2. new = At(y, NULL)
    <3>1. new.root = NULL BY <1>4 DEF NoneMade
    <3>2. \/ new = At(new.mem, NULL)
      <4>1. \E z, r : new = At(z, r) BY DEF NewNode
      <4>2. PICK z, r : new = At(z, r) BY <4>1
      <4>. HIDE DEF new
      <4>3. new.mem = z /\ new.root = r BY <4>2 DEF At
      <4>. QED BY <3>1, <4>2, <4>3
    <3>. QED BY <3>2
  <2>. HIDE DEF y
  <2>3. u = At(y, mem.root)
    <3>1. IsMem(y) /\ y.node = mem.node BY <2>1 DEF Alone
    <3>2. NewNode(mem, w) = At(y, NULL) BY <2>2
    <3>. HIDE DEF new
    <3>. QED BY <1>1, <1>2, <3>1, <3>2, UpdateFull DEF u
  <2>4. u.mem = y /\ u.root = mem.root BY <2>3 DEF At
  <2>5. Alone(x, mem) /\ x.end = "open"
    <3>1. CASE y.end = "open"
      <4>1. x = y
        BY <2>1, <2>4, <3>1, SetRootSelf DEF x, AfterInsert, Alone
      <4>. QED BY <2>1, <3>1, <4>1
    <3>2. CASE y.end # "open"
      <4>1. x = [mem EXCEPT !.scm = y.scm]
        BY <2>4, <3>2 DEF x, AfterInsert
      <4>2. x = [scm |-> y.scm, end |-> mem.end, node |-> mem.node,
                 word |-> mem.word, root |-> mem.root, items |-> mem.items,
                 unique |-> mem.unique]
        BY <1>2, <4>1 DEF IsMem
      <4>. QED BY <1>2, <2>1, <4>2 DEF Alone, IsMem
    <3>. QED BY <3>1, <3>2
  <2>6. Whole(x) /\ Counting(mem, x, w, 0) BY <2>5, WholeAlone
  <2>7. Worded(mem) => Worded(x) BY <1>2, <2>5, LodgedAlone DEF Ready
  <2>8. Serves(x.scm, mem.scm) BY <2>5 DEF Alone
  <2>9. ~Succeeds(mem, w, u.mem.end)
    <3>1. new.mem.end # "open" \/ ~Granted(mem, w)
      BY <1>2, <1>4, NewNodeWhen
    <3>. QED BY <1>6, <2>4, <3>1 DEF Succeeds, y
  <2>10. InsertsInto(mem, w, u)
    BY <2>1, <2>4, <2>6, <2>7, <2>8, <2>9 DEF InsertsInto, x
  <2>. QED BY <2>10 DEF u
<1>5. CASE \E p, q, base : Made(mem, w, p, q, base) /\ new = At(base, p)
  <2>1. PICK p, q, base : Made(mem, w, p, q, base) /\ new = At(base, p)
    BY <1>5
  <2>. DEFINE y == SetRoot(u.mem, u.root)
  <2>2. u = update(mem, mem.root, w) /\ NewNode(mem, w) = At(base, p)
    BY <2>1 DEF u
  <2>. HIDE DEF new
  <2>3. /\ u.root # NULL /\ u.mem.end = "open"
        /\ Whole(y) /\ Counting(mem, y, w, 1)
        /\ Serves(u.mem.scm, mem.scm)
        /\ Worded(mem) => Worded(y)
    BY <2>1, <2>2, WholePlanted
  <2>4. x = y BY <2>3 DEF x, AfterInsert
  <2>5. y.scm = u.mem.scm BY DEF SetRoot
  <2>6. Succeeds(mem, w, u.mem.end)
    BY <1>2, <2>1, <2>2, <2>3, NewNodeWhen DEF Succeeds
  <2>7. InsertsInto(mem, w, u)
    <3>. HIDE DEF y
    <3>. QED BY <2>3, <2>4, <2>5, <2>6 DEF InsertsInto, x
  <2>. QED BY <2>7 DEF u
<1>. QED BY <1>3, <1>4, <1>5

LEMMA InsertIs ==
  ASSUME NEW mem, Whole(mem), NEW w \in Words
  PROVE  InsertsInto(mem, w, update(mem, mem.root, w))
<1>1. CASE \E b \in DOMAIN mem.node : Item(mem, b) = w BY <1>1, InsertFound
<1>2. CASE \A b \in DOMAIN mem.node : Item(mem, b) # w BY <1>2, InsertNew
<1>. QED BY <1>1, <1>2

-----------------------------------------------------------------------------
(* The blocks that the tree has left are forgotten. *)

(* x is the part of y that the tree refers to. *)
Kernel(y, x) ==
  LET S == Sub(y.node, y.root)
  IN  /\ IsMem(x) /\ x.scm = y.scm /\ x.end = y.end /\ x.root = y.root
      /\ x.items = y.items /\ x.unique = y.unique
      /\ Graph(x.node) /\ DOMAIN x.node = S /\ x.root \in Places(x.node)
      /\ \A a \in S : x.node[a] = y.node[a] /\ Item(x, a) = Item(y, a)
      /\ DOMAIN x.word = {y.node[a].item : a \in S}
      /\ \A p \in DOMAIN x.word : x.word[p] = y.word[p]
      /\ Same(y.node, y.word, x.node, x.word, S)
      /\ Sub(x.node, x.root) = S /\ Leveled(x.node, S)
      /\ \A a \in S \cup {NULL} : Sub(x.node, a) = Sub(y.node, a)

LEMMA KernelIs ==
  ASSUME NEW y, IsMem(y), Graph(y.node), y.root \in Places(y.node),
         Leveled(y.node, Sub(y.node, y.root))
  PROVE  Kernel(y, Trimmed(y))
<1>. DEFINE node == y.node
            root == y.root
            S == Sub(node, root)
            g == [a \in S |-> node[a]]
            words == [p \in {node[a].item : a \in S} |-> y.word[p]]
            x == Trimmed(y)
<1>1. Nodes(node, root) = S BY NodesIs
<1>2. x = [y EXCEPT !.node = g, !.word = words] BY <1>1 DEF Trimmed
<1>. HIDE DEF x, words
<1>3. x = [scm |-> y.scm, end |-> y.end, node |-> g, word |-> words,
           root |-> root, items |-> y.items, unique |-> y.unique]
  BY Zenon, <1>2 DEF IsMem
<1>4. /\ IsMem(x) /\ x.scm = y.scm /\ x.end = y.end /\ x.root = root
      /\ x.items = y.items /\ x.unique = y.unique
      /\ x.node = g /\ x.word = words
  BY <1>3 DEF IsMem
<1>5. /\ DOMAIN words = {node[a].item : a \in S}
      /\ \A p \in DOMAIN words : words[p] = y.word[p]
  BY DEF words
<1>6. S \subseteq DOMAIN node /\ Closed(node, S) BY SubIn, SubClosed
<1>7. Graph(g)
  <2>1. DOMAIN g = S /\ S \subseteq Nat \ {0} BY <1>6 DEF Graph
  <2>2. ASSUME NEW a \in S PROVE node[a] \in Node(S)
    <3>1. node[a] \in Node(DOMAIN node) BY <1>6, GraphIs
    <3>2. node[a].left \in S \cup {NULL} /\ node[a].right \in S \cup {NULL}
      BY <1>6 DEF Closed
    <3>. HIDE DEF S, node
    <3>. QED BY <3>1, <3>2 DEF Node
  <2>3. g \in [S -> Node(S)]
    <3>. HIDE DEF S
    <3>. QED BY <2>2
  <2>. HIDE DEF g
  <2>. QED BY <2>1, <2>3 DEF Graph
<1>8. DOMAIN g = S /\ \A a \in S : g[a] = node[a] OBVIOUS
<1>. HIDE DEF g
<1>9. root \in S \cup {NULL}
  <2>1. CASE root = NULL BY <2>1
  <2>2. CASE root \in DOMAIN node BY <2>2, SubSelf
  <2>. QED BY <2>1, <2>2 DEF Places
<1>10. \A a \in S : Item(x, a) = Item(y, a) /\ Item(x, a) = Key(g, words, a)
  <2>1. ASSUME NEW a \in S PROVE words[node[a].item] = y.word[node[a].item]
    BY <1>5
  <2>. QED BY <1>4, <1>8, <2>1 DEF Item, Key
<1>11. Same(node, y.word, g, words, S)
  <2>1. \A a \in S : Key(node, y.word, a) = Item(y, a) BY ItemIsKey
  <2>. HIDE DEF S, node
  <2>. QED BY <1>8, <1>10, <2>1 DEF Same
<1>12. \A a \in S \cup {NULL} : Sub(g, a) = Sub(node, a)
  <2>1. ASSUME NEW a \in S PROVE Sub(g, a) = Sub(node, a)
    <3>1. Sub(node, a) \subseteq S BY SubTransitive
    <3>2. Same(node, y.word, g, words, Sub(node, a))
      BY <1>11, <3>1 DEF Same
    <3>3. a \in Places(node) BY <1>6 DEF Places
    <3>. QED BY <1>7, <3>2, <3>3, SubSame
  <2>. QED BY <2>1, SubNull
<1>13. ASSUME NEW a \in S PROVE Level(g, a)
  <2>. DEFINE l == node[a].left
              r == node[a].right
  <2>1. l \in S \cup {NULL} /\ r \in S \cup {NULL} BY <1>6 DEF Closed
  <2>2. NULL \notin S BY <1>6, NullIsNone
  <2>3. \A b \in S \cup {NULL} : delta(g, b) = delta(node, b)
    <3>. HIDE DEF S, node
    <3>. QED BY <1>8 DEF delta
  <2>4. g[a].left = l /\ g[a].right = r /\ g[a].depth = node[a].depth
    BY <1>8
  <2>5. delta(g, l) = delta(node, l) /\ delta(g, r) = delta(node, r)
    BY <2>1, <2>3
  <2>6. Level(node, a) BY DEF Leveled
  <2>. QED BY <2>4, <2>5, <2>6 DEF Level, depth, balance
<1>14. Leveled(g, S) BY <1>13 DEF Leveled
<1>15. root \in Places(g) BY <1>8, <1>9 DEF Places
<1>16. /\ Graph(x.node) /\ DOMAIN x.node = S /\ x.root \in Places(x.node)
       /\ \A a \in S : x.node[a] = node[a] /\ Item(x, a) = Item(y, a)
       /\ DOMAIN x.word = {node[a].item : a \in S}
       /\ \A p \in DOMAIN x.word : x.word[p] = y.word[p]
       /\ Same(node, y.word, x.node, x.word, S)
       /\ Leveled(x.node, S)
       /\ \A a \in S \cup {NULL} : Sub(x.node, a) = Sub(node, a)
  BY <1>4, <1>5, <1>7, <1>8, <1>10, <1>11, <1>12, <1>14, <1>15
<1>17. Sub(x.node, x.root) = S BY <1>4, <1>9, <1>16
<1>18. Kernel(y, x) BY <1>4, <1>16, <1>17 DEF Kernel
<1>. QED BY <1>18 DEF x

(* What is kept of a tree is a tree, if its words have their blocks. *)
LEMMA KernelFormed ==
  ASSUME NEW y, IsMem(y), Graph(y.node), y.root \in Places(y.node),
         Leveled(y.node, Sub(y.node, y.root)),
         Region(y.scm), Based(y.scm), y.end = "open",
         \A a \in Sub(y.node, y.root) :
           /\ a \in Blocks(y.scm) /\ y.scm.block[a].used
           /\ y.scm.block[a].n >= NodeLen /\ a # scm_mbase
           /\ y.node[a].count >= 1
           /\ LET p == y.node[a].item
              IN  /\ p \in Blocks(y.scm) /\ p \notin DOMAIN y.node
                  /\ p # scm_mbase /\ y.word[p] \in Words
                  /\ y.scm.block[p].n >= WordLen[y.word[p]],
         IsFiniteSet(DOMAIN y.node),
         NEW x, x = Trimmed(y)
  PROVE  Formed(x) /\ Kernel(y, x)
<1>. DEFINE S == Sub(y.node, y.root)
<1>1. Kernel(y, x) BY KernelIs
<1>2. /\ IsMem(x) /\ x.scm = y.scm /\ x.end = y.end
      /\ Graph(x.node) /\ DOMAIN x.node = S /\ x.root \in Places(x.node)
      /\ \A a \in S : x.node[a] = y.node[a]
      /\ DOMAIN x.word = {y.node[a].item : a \in S}
      /\ \A p \in DOMAIN x.word : x.word[p] = y.word[p]
      /\ Sub(x.node, x.root) = S /\ Leveled(x.node, S)
  BY <1>1 DEF Kernel
<1>3. S \subseteq DOMAIN y.node BY SubIn
<1>. HIDE DEF S
<1>4. \A a \in S : y.node[a].item \in DOMAIN x.word BY <1>2
<1>5. \A p \in DOMAIN x.word : \E a \in S : p = y.node[a].item BY <1>2
<1>6. Lodged(x)
  <2>1. \A a \in DOMAIN x.node :
          /\ a \in Blocks(x.scm) /\ x.scm.block[a].used
          /\ x.scm.block[a].n >= NodeLen /\ a # scm_mbase
          /\ x.node[a].item \in DOMAIN x.word
    BY <1>2, <1>4 DEF S
  <2>2. ASSUME NEW p \in DOMAIN x.word
        PROVE  /\ p \in Blocks(x.scm) /\ p \notin DOMAIN x.node
               /\ p # scm_mbase /\ x.word[p] \in Words
               /\ x.scm.block[p].n >= WordLen[x.word[p]]
    <3>1. PICK a \in S : p = y.node[a].item BY <1>5
    <3>2. /\ p \in Blocks(y.scm) /\ p \notin DOMAIN y.node
          /\ p # scm_mbase /\ y.word[p] \in Words
          /\ y.scm.block[p].n >= WordLen[y.word[p]]
      BY <3>1 DEF S
    <3>. QED BY <1>2, <1>3, <3>2
  <2>. QED BY <2>1, <2>2 DEF Lodged
<1>7. Ready(x) BY <1>2, <1>6 DEF Ready
<1>8. \A a \in DOMAIN x.node : x.node[a].count >= 1 BY <1>2 DEF S
<1>9. \A p \in DOMAIN x.word : \E a \in DOMAIN x.node : x.node[a].item = p
  BY <1>2, <1>5
<1>10. IsFiniteSet(DOMAIN x.node) BY <1>2, <1>3, FS_Subset
<1>11. Formed(x) BY <1>2, <1>7, <1>8, <1>9, <1>10 DEF Formed
<1>. QED BY <1>1, <1>11

(* What is kept of a tree without repeated words is one. *)
LEMMA KernelTree ==
  ASSUME NEW y, Graph(y.node), y.root \in Places(y.node),
         AVL(y.node, y.word, y.root), NEW x, Kernel(y, x), Formed(x)
  PROVE  Tree(x, x.root)
<1>. DEFINE S == Sub(y.node, y.root)
<1>1. /\ Graph(x.node) /\ DOMAIN x.node = S /\ x.root \in Places(x.node)
      /\ x.root = y.root /\ Same(y.node, y.word, x.node, x.word, S)
      /\ Sub(x.node, x.root) = S
  BY DEF Kernel
<1>2. AVL(x.node, x.word, x.root) BY <1>1, AVLSame
<1>3. \A a \in DOMAIN x.node : Key(x.node, x.word, a) \in Nat
  BY FormedIs, ItemIsKey
<1>4. Spelt(x.node, x.word, Sub(x.node, x.root)) BY <1>1, <1>3 DEF Spelt
<1>. QED BY <1>1, <1>2, <1>4 DEF Tree

LEMMA KernelWhole ==
  ASSUME NEW y, Whole(y), NEW x, x = Trimmed(y)
  PROVE  Whole(x) /\ \A v : avl_exists(x, v) = avl_exists(y, v)
<1>. DEFINE S == Sub(y.node, y.root)
<1>1. Formed(y) /\ Tree(y, y.root) /\ Agree(y) BY DEF Whole
<1>2. /\ IsMem(y) /\ Graph(y.node) /\ y.root \in Places(y.node)
      /\ Leveled(y.node, S) /\ DOMAIN y.node = S
      /\ Region(y.scm) /\ Based(y.scm) /\ y.end = "open" /\ Lodged(y)
      /\ IsFiniteSet(DOMAIN y.node)
      /\ \A a \in S : y.node[a].count >= 1
  BY <1>1 DEF Formed, Ready
<1>3. \A a \in S :
           /\ a \in Blocks(y.scm) /\ y.scm.block[a].used
           /\ y.scm.block[a].n >= NodeLen /\ a # scm_mbase
           /\ y.node[a].count >= 1
           /\ LET p == y.node[a].item
              IN  /\ p \in Blocks(y.scm) /\ p \notin DOMAIN y.node
                  /\ p # scm_mbase /\ y.word[p] \in Words
                  /\ y.scm.block[p].n >= WordLen[y.word[p]]
  <2>. HIDE DEF S
  <2>. QED BY <1>2 DEF Lodged
<1>4. Formed(x) /\ Kernel(y, x) BY <1>2, <1>3, KernelFormed
<1>5. AVL(y.node, y.word, y.root) BY <1>1 DEF Tree
<1>6. Tree(x, x.root) BY <1>2, <1>4, <1>5, KernelTree
<1>7. /\ DOMAIN x.node = DOMAIN y.node
      /\ \A a \in DOMAIN y.node : x.node[a] = y.node[a] /\ Item(x, a) = Item(y, a)
      /\ x.items = y.items /\ x.unique = y.unique
  BY <1>2, <1>4 DEF Kernel
<1>8. Tally(x) = Tally(y) BY <1>7 DEF Tally
<1>9. Copies(x, DOMAIN x.node) = Copies(y, DOMAIN y.node) BY <1>7 DEF Copies
<1>10. Agree(x) BY <1>1, <1>7, <1>9 DEF Agree
<1>11. \A v : avl_exists(x, v) = avl_exists(y, v)
  BY <1>1, <1>4, <1>6, <1>8, TallySame
<1>. QED BY <1>4, <1>6, <1>10, <1>11 DEF Whole

-----------------------------------------------------------------------------
(* What a removal leaves *)

(* The words are in order, but some may be in two nodes. *)
Weak(mem) ==
  \A a \in DOMAIN mem.node :
    /\ \A b \in Sub(mem.node, mem.node[a].left) : Item(mem, b) <= Item(mem, a)
    /\ \A b \in Sub(mem.node, mem.node[a].right) : Item(mem, a) <= Item(mem, b)

RemovesFrom(mem, w, x) ==
  \/ Whole(x) /\ Counting(mem, x, w, -1)
  \/ /\ Formed(x) /\ Weak(x) /\ x.items \in Nat /\ x.unique \in Nat
     /\ Cardinality(DOMAIN x.word) < Cardinality(DOMAIN x.node)

(* The memory after remove_word(), where u is what remove_node() returned. *)
AfterRemove(u) == Trimmed(SetRoot(u.mem, u.root))

LEMMA RemovesOne ==
  ASSUME NEW mem, Whole(mem), NEW b \in DOMAIN mem.node, NEW u,
         OneOfMany(mem, b, mem.root, u)
  PROVE  RemovesFrom(mem, Item(mem, b), AfterRemove(u))
<1>. DEFINE y == RemoveCount(mem, b)
            n == mem.node[b].count - 1
            w == Item(mem, b)
            x == AfterRemove(u)
<1>1. Formed(mem) BY DEF Whole
<1>2. /\ IsMem(mem) /\ Graph(mem.node) /\ mem.node[b].count \in Nat
      /\ w \in Words
  BY <1>1, FormedIs
<1>3. mem.node[b].count > 1 /\ u = At(y, mem.root) BY DEF OneOfMany
<1>4. /\ IsMem(y) /\ y.node = SetCount(mem.node, b, n) /\ n \in Nat
      /\ y.scm = mem.scm /\ y.end = mem.end /\ y.word = mem.word
      /\ y.root = mem.root /\ y.items = mem.items - 1
      /\ y.unique = mem.unique
      /\ Alike(mem.node, y.node)
  BY <1>2, <1>3, RemoveCountIs
<1>5. n >= 1 /\ n = mem.node[b].count + (-1) BY <1>2, <1>3
<1>6. y.items = mem.items + (-1)
  <2>1. mem.items \in Nat
    BY FS_CardinalityType DEF Whole, Agree
  <2>. HIDE DEF y
  <2>. QED BY <1>4, <2>1
<1>. HIDE DEF n, y
<1>7. Whole(y) /\ Counting(mem, y, w, -1)
  BY <1>4, <1>5, <1>6, WholeSetCount
<1>8. x = Trimmed(y)
  <2>1. u.mem = y /\ u.root = mem.root BY <1>3 DEF At
  <2>2. SetRoot(y, y.root) = y BY <1>4, SetRootSelf
  <2>. QED BY <1>4, <2>1, <2>2 DEF AfterRemove
<1>9. Whole(x) /\ \A v : avl_exists(x, v) = avl_exists(y, v)
  BY <1>7, <1>8, KernelWhole
<1>10. Counting(mem, x, w, -1) BY <1>7, <1>9 DEF Counting
<1>. QED BY <1>9, <1>10 DEF RemovesFrom

-----------------------------------------------------------------------------
(* The next word is in two nodes. *)

LEMMA FewerWords ==
  ASSUME NEW node, IsFiniteSet(DOMAIN node), NEW a \in DOMAIN node,
         NEW c \in DOMAIN node, a # c, node[a].item = node[c].item,
         NEW W, W = {node[b].item : b \in DOMAIN node}
  PROVE  Cardinality(W) < Cardinality(DOMAIN node)
<1>. DEFINE D == DOMAIN node \ {a}
            f == [b \in D |-> node[b].item]
<1>1. /\ IsFiniteSet(D) /\ Cardinality(DOMAIN node) \in Nat
      /\ Cardinality(D) = Cardinality(DOMAIN node) - 1
  BY FS_RemoveElement, FS_CardinalityType
<1>2. f \in Surjection(D, W)
  <2>1. \A b \in D : f[b] \in W OBVIOUS
  <2>2. \A p \in W : \E b \in D : f[b] = p
    <3>1. ASSUME NEW p \in W PROVE \E b \in D : f[b] = p
      <4>1. PICK b \in DOMAIN node : p = node[b].item OBVIOUS
      <4>2. CASE b = a
        <5>1. c \in D /\ f[c] = p BY <4>1, <4>2
        <5>. QED BY <5>1
      <4>3. CASE b # a BY <4>1, <4>3
      <4>. QED BY <4>2, <4>3
    <3>. QED BY <3>1
  <2>. HIDE DEF D
  <2>3. f \in [D -> W] BY <2>1
  <2>. QED BY Zenon, <2>2, <2>3 DEF Surjection
<1>. HIDE DEF D, f
<1>3. /\ Cardinality(W) <= Cardinality(D) /\ IsFiniteSet(W)
  BY <1>1, <1>2, FS_Surjection
<1>4. Cardinality(W) \in Nat BY <1>3, FS_CardinalityType
<1>. QED BY <1>1, <1>3, <1>4

(* y has the nodes of mem, but b has the word of c and its count, and c    *)
(* one less.                                                               *)
Repeats(mem, b, c, y) ==
  /\ IsMem(y) /\ y.scm = mem.scm /\ y.end = mem.end /\ y.word = mem.word
  /\ y.root = mem.root /\ y.items = mem.items - 1 /\ y.unique = mem.unique
  /\ Alike(mem.node, y.node)
  /\ \A a \in DOMAIN mem.node \ {b} : y.node[a].item = mem.node[a].item
  /\ y.node[b].item = mem.node[c].item
  /\ \A a \in DOMAIN mem.node : y.node[a].count >= 1

LEMMA AlikeOn ==
  ASSUME NEW node, NEW g, NEW h, Alike(node, g), Alike(g, h)
  PROVE  Alike(node, h)
BY DEF Alike

LEMMA TookOver ==
  ASSUME NEW mem, Formed(mem), NEW b, NEW r, NEW c, NEW took,
         NextIs(mem, b, r, c, took)
  PROVE  /\ IsMem(took) /\ took.word = mem.word /\ took.scm = mem.scm
         /\ took.end = mem.end /\ took.root = mem.root
         /\ took.items = mem.items /\ took.unique = mem.unique
         /\ Alike(mem.node, took.node) /\ Graph(took.node)
         /\ DOMAIN took.node = DOMAIN mem.node
<1>1. /\ IsMem(took) /\ took.word = mem.word
      /\ took = SetNode(mem, Took(mem.node, b, c))
      /\ Alike(mem.node, took.node)
  BY Zenon DEF NextIs
<1>2. IsMem(mem) BY FormedIs
<1>. DEFINE g == Took(mem.node, b, c)
            x == SetNode(mem, g)
<1>3. took = x BY <1>1
<1>. HIDE DEF g
<1>4. /\ IsMem(x) /\ x.node = g /\ x.scm = mem.scm /\ x.end = mem.end
      /\ x.word = mem.word /\ x.root = mem.root
      /\ x.items = mem.items /\ x.unique = mem.unique
      /\ SetNode(mem, mem.node) = mem
      /\ \A h : SetNode(x, h) = SetNode(mem, h)
  BY <1>2, SetNodeIs
<1>. HIDE DEF x
<1>5. Graph(took.node) /\ DOMAIN took.node = DOMAIN mem.node
  BY <1>1 DEF Alike
<1>. QED BY <1>1, <1>3, <1>4, <1>5

(* The counts after the next word was taken and its own count lowered. *)
LEMMA CountsLeft ==
  ASSUME NEW node, NEW b, NEW c \in DOMAIN node, c # b, NEW g, NEW n,
         \A a \in DOMAIN node : node[a].count >= 1, n >= 1,
         DOMAIN g = DOMAIN node, g[b].item = node[c].item,
         g[b].count = node[c].count,
         \A a \in DOMAIN node \ {b} : g[a] = node[a],
         NEW h, HasCount(g, c, n, h), b \in DOMAIN node
  PROVE  /\ \A a \in DOMAIN node : h[a].count >= 1
         /\ \A a \in DOMAIN node \ {b} : h[a].item = node[a].item
         /\ h[b].item = node[c].item
<1>1. /\ h[c].count = n
      /\ \A a \in DOMAIN node : h[a].item = g[a].item /\ (a # c => h[a] = g[a])
  BY DEF HasCount
<1>2. ASSUME NEW a \in DOMAIN node PROVE h[a].count >= 1
  <2>1. CASE a = c BY <1>1, <2>1
  <2>2. CASE a # c /\ a # b
    <3>1. h[a] = node[a] BY <1>1, <2>2
    <3>. QED BY <3>1
  <2>3. CASE a = b
    <3>1. h[b] = g[b] BY <1>1, <2>3
    <3>. QED BY <2>3, <3>1
  <2>. QED BY <2>1, <2>2, <2>3
<1>. QED BY <1>1, <1>2

LEMMA RepeatsIs ==
  ASSUME NEW mem, Formed(mem), NEW b \in DOMAIN mem.node, NEW u,
         NEW c, c = Leftmost(mem.node, mem.node[b].right),
         NextIsMany(mem, b, mem.root, u)
  PROVE  /\ Repeats(mem, b, c, SetRoot(u.mem, u.root))
         /\ NextIs(mem, b, mem.node[b].right, c, TookMem(mem, b))
<1>. DEFINE r == mem.node[b].right
            took == TookMem(mem, b)
            y == RemoveCount(took, c)
            n == took.node[c].count - 1
<1>1. /\ NextIs(mem, b, r, c, took) /\ mem.node[c].count > 1
      /\ u = At(y, mem.root)
  BY DEF NextIsMany
<1>2. /\ IsMem(took) /\ took.word = mem.word /\ took.scm = mem.scm
      /\ took.end = mem.end /\ took.root = mem.root
      /\ took.items = mem.items /\ took.unique = mem.unique
      /\ Alike(mem.node, took.node) /\ Graph(took.node)
      /\ DOMAIN took.node = DOMAIN mem.node
  BY SMTT(60), <1>1, TookOver
<1>. HIDE DEF took
<1>3. /\ c \in DOMAIN mem.node /\ c # b
      /\ took.node[b].item = mem.node[c].item
      /\ took.node[b].count = mem.node[c].count
      /\ \A e \in DOMAIN mem.node \ {b} : took.node[e] = mem.node[e]
  BY <1>1 DEF NextIs
<1>4. took.node[c] = mem.node[c] /\ c \in DOMAIN took.node BY <1>2, <1>3
<1>5. /\ mem.node[c].count \in Nat
      /\ \A a \in DOMAIN mem.node : mem.node[a].count >= 1
  BY <1>3, FormedIs
<1>6. n \in Nat /\ n >= 1 /\ took.node[c].count > 1 BY <1>1, <1>4, <1>5
<1>7. /\ IsMem(y) /\ y.node = SetCount(took.node, c, n)
      /\ y.scm = took.scm /\ y.end = took.end /\ y.word = took.word
      /\ y.root = took.root /\ y.items = took.items - 1
      /\ y.unique = took.unique
      /\ Alike(took.node, y.node)
  BY <1>2, <1>4, <1>6, RemoveCountIs
<1>. HIDE DEF y, n
<1>8. HasCount(took.node, c, n, y.node) BY <1>2, <1>4, <1>6, <1>7, HasCountIs
<1>9. SetRoot(u.mem, u.root) = y
  <2>1. u.mem = y /\ u.root = y.root BY <1>1, <1>2, <1>7 DEF At
  <2>. QED BY <1>7, <2>1, SetRootSelf
<1>10. Alike(mem.node, y.node) BY <1>2, <1>7, AlikeOn
<1>11. /\ \A a \in DOMAIN mem.node : y.node[a].count >= 1
       /\ \A a \in DOMAIN mem.node \ {b} : y.node[a].item = mem.node[a].item
       /\ y.node[b].item = mem.node[c].item
  <2>. DEFINE node == mem.node
              g == took.node
              h == y.node
  <2>1. /\ c \in DOMAIN node /\ c # b /\ b \in DOMAIN node /\ n >= 1
        /\ \A a \in DOMAIN node : node[a].count >= 1
        /\ DOMAIN g = DOMAIN node /\ g[b].item = node[c].item
        /\ g[b].count = node[c].count
        /\ \A a \in DOMAIN node \ {b} : g[a] = node[a]
        /\ HasCount(g, c, n, h)
    BY <1>2, <1>3, <1>5, <1>6, <1>8
  <2>. HIDE DEF node, g, h
  <2>2. /\ \A a \in DOMAIN node : h[a].count >= 1
        /\ \A a \in DOMAIN node \ {b} : h[a].item = node[a].item
        /\ h[b].item = node[c].item
    BY <2>1, CountsLeft
  <2>. QED BY <2>2 DEF node, h
<1>12. Repeats(mem, b, c, y)
  BY Zenon, <1>2, <1>7, <1>10, <1>11 DEF Repeats
<1>. QED BY <1>1, <1>9, <1>12 DEF took

(* Between two nodes of which one took the word of the next. *)
LEMMA StillOrdered ==
  ASSUME NEW mem, Whole(mem), NEW b \in DOMAIN mem.node,
         NEW r, r = mem.node[b].right, NEW c, NEW took,
         NextIs(mem, b, r, c, took),
         NEW K, \A a \in DOMAIN mem.node \ {b} : K[a] = Item(mem, a),
         K[b] = Item(mem, c), NEW a \in DOMAIN mem.node
  PROVE  /\ \A e \in Sub(mem.node, mem.node[a].left) : K[e] <= K[a]
         /\ \A e \in Sub(mem.node, mem.node[a].right) : K[a] <= K[e]
<1>. DEFINE node == mem.node
            k(e) == Item(mem, e)
<1>1. Formed(mem) /\ Tree(mem, mem.root) BY DEF Whole
<1>2. /\ Graph(node) /\ DOMAIN node = Sub(node, mem.root)
      /\ \A e \in DOMAIN node : k(e) \in Nat
  BY <1>1, FormedIs DEF Formed
<1>3. /\ c \in DOMAIN node /\ c # b /\ c \in Sub(node, r)
      /\ b \notin Sub(node, r)
      /\ \A e \in Sub(node, r) \ {c} : k(c) < k(e)
  BY DEF NextIs
<1>4. \A e, f \in DOMAIN node :
        /\ f \in Sub(node, node[e].left) => k(f) < k(e)
        /\ f \in Sub(node, node[e].right) => k(e) < k(f)
  BY <1>1, <1>2, ItemIsKey DEF Tree, AVL, Ordered
<1>5. \A e : Sub(node, e) \subseteq DOMAIN node BY SubIn
<1>6. \A e : b \in Sub(node, e) => c \in Sub(node, e)
  <2>1. ASSUME NEW e, b \in Sub(node, e) PROVE c \in Sub(node, e)
    <3>1. Sub(node, r) \subseteq Sub(node, e) BY <1>2, <2>1, SubTransitive
    <3>. QED BY <1>3, <3>1
  <2>. QED BY <2>1
<1>7. b \notin Sub(node, node[b].left)
  <2>1. SUFFICES ASSUME b \in Sub(node, node[b].left) PROVE FALSE OBVIOUS
  <2>2. k(b) < k(b) BY <1>4, <2>1
  <2>. QED BY <1>2, <2>2
<1>8. k(b) < k(c) BY <1>3, <1>4
<1>9. ASSUME NEW e \in Sub(node, node[a].left) PROVE K[e] <= K[a]
  <2>1. e \in DOMAIN node /\ k(e) \in Nat /\ k(a) \in Nat /\ k(e) < k(a)
    BY <1>2, <1>4, <1>5
  <2>2. k(b) \in Nat /\ k(c) \in Nat BY <1>2, <1>3
  <2>3. CASE a = b
    <3>1. K[e] = k(e) /\ K[a] = k(c) BY <1>7, <2>1, <2>3
    <3>. HIDE DEF k
    <3>. QED BY <1>8, <2>1, <2>2, <2>3, <3>1
  <2>4. CASE a # b /\ e = b
    <3>1. k(c) < k(a) BY <1>3, <1>4, <1>6, <2>4
    <3>2. K[e] = k(c) /\ K[a] = k(a) BY <2>4
    <3>. HIDE DEF k
    <3>. QED BY <2>1, <2>2, <3>1, <3>2
  <2>5. CASE a # b /\ e # b
    <3>1. K[e] = k(e) /\ K[a] = k(a) BY <2>1, <2>5
    <3>. HIDE DEF k
    <3>. QED BY <2>1, <3>1
  <2>. QED BY <2>3, <2>4, <2>5
<1>10. ASSUME NEW e \in Sub(node, node[a].right) PROVE K[a] <= K[e]
  <2>1. e \in DOMAIN node /\ k(e) \in Nat /\ k(a) \in Nat /\ k(a) < k(e)
    BY <1>2, <1>4, <1>5
  <2>2. k(b) \in Nat /\ k(c) \in Nat BY <1>2, <1>3
  <2>3. CASE a = b
    <3>1. K[e] = k(e) /\ K[a] = k(c) BY <1>3, <2>1, <2>3
    <3>2. e = c \/ k(c) < k(e) BY <1>3, <2>3
    <3>. HIDE DEF k
    <3>. QED BY <2>1, <2>2, <3>1, <3>2
  <2>4. CASE a # b /\ e = b
    <3>1. k(a) < k(c) BY <1>3, <1>4, <1>6, <2>4
    <3>2. K[e] = k(c) /\ K[a] = k(a) BY <2>4
    <3>. HIDE DEF k
    <3>. QED BY <2>1, <2>2, <3>1, <3>2
  <2>5. CASE a # b /\ e # b
    <3>1. K[e] = k(e) /\ K[a] = k(a) BY <2>1, <2>5
    <3>. HIDE DEF k
    <3>. QED BY <2>1, <3>1
  <2>. QED BY <2>3, <2>4, <2>5
<1>. QED BY <1>9, <1>10

LEMMA RemovesInner ==
  ASSUME NEW mem, Whole(mem), NEW b \in DOMAIN mem.node, NEW u,
         NextIsMany(mem, b, mem.root, u)
  PROVE  RemovesFrom(mem, Item(mem, b), AfterRemove(u))
<1>. DEFINE node == mem.node
            c == Leftmost(node, node[b].right)
            y == SetRoot(u.mem, u.root)
            x == AfterRemove(u)
            S == Sub(y.node, y.root)
            K == [a \in DOMAIN node |-> Item(x, a)]
<1>1. Formed(mem) BY DEF Whole
<1>2. /\ Repeats(mem, b, c, y)
      /\ NextIs(mem, b, node[b].right, c, TookMem(mem, b))
  BY <1>1, RepeatsIs
<1>3. /\ Shallow(node) /\ Graph(node) /\ Leveled(node, DOMAIN node)
      /\ mem.root \in Places(node) /\ DOMAIN node = Sub(node, mem.root)
      /\ Region(mem.scm) /\ Based(mem.scm) /\ mem.end = "open" /\ Lodged(mem)
      /\ IsFiniteSet(DOMAIN node)
  BY <1>1, FormedIs DEF Formed, Ready
<1>4. c \in DOMAIN node /\ c # b BY <1>2 DEF NextIs
<1>5. x = Trimmed(y) BY DEF AfterRemove
<1>. HIDE DEF c, y, x
<1>6. /\ IsMem(y) /\ y.scm = mem.scm /\ y.end = mem.end /\ y.word = mem.word
      /\ y.root = mem.root /\ y.items = mem.items - 1 /\ y.unique = mem.unique
      /\ Alike(node, y.node)
      /\ \A a \in DOMAIN node \ {b} : y.node[a].item = node[a].item
      /\ y.node[b].item = node[c].item
      /\ \A a \in DOMAIN node : y.node[a].count >= 1
  BY <1>2 DEF Repeats
<1>7. /\ Graph(y.node) /\ DOMAIN y.node = DOMAIN node
      /\ Places(y.node) = Places(node)
      /\ \A a \in Places(node) : Sub(y.node, a) = Sub(node, a)
      /\ Leveled(y.node, DOMAIN node)
      /\ \A a \in DOMAIN node : /\ y.node[a].left = node[a].left
                                /\ y.node[a].right = node[a].right
  <2>1. /\ Graph(y.node) /\ DOMAIN y.node = DOMAIN node
        /\ Places(y.node) = Places(node)
        /\ \A a \in Places(node) : Sub(y.node, a) = Sub(node, a)
        /\ \A a \in DOMAIN node : Level(node, a) => Level(y.node, a)
    BY <1>3, <1>6, AlikeIs
  <2>. QED BY <1>3, <1>6, <2>1 DEF Leveled, Alike
<1>8. S = DOMAIN node /\ y.root \in Places(y.node) BY <1>3, <1>6, <1>7
<1>9. ASSUME NEW a \in S
      PROVE  \E e \in DOMAIN node : y.node[a].item = node[e].item
  <2>1. a = b \/ a \in DOMAIN node \ {b} BY <1>8
  <2>. QED BY <1>4, <1>6, <2>1
<1>10. ASSUME NEW a \in S
       PROVE  /\ a \in Blocks(y.scm) /\ y.scm.block[a].used
              /\ y.scm.block[a].n >= NodeLen /\ a # scm_mbase
              /\ y.node[a].count >= 1
              /\ LET p == y.node[a].item
                 IN  /\ p \in Blocks(y.scm) /\ p \notin DOMAIN y.node
                     /\ p # scm_mbase /\ y.word[p] \in Words
                     /\ y.scm.block[p].n >= WordLen[y.word[p]]
  <2>1. PICK e \in DOMAIN node : y.node[a].item = node[e].item BY <1>9
  <2>2. a \in DOMAIN node BY <1>8
  <2>3. /\ a \in Blocks(mem.scm) /\ mem.scm.block[a].used
        /\ mem.scm.block[a].n >= NodeLen /\ a # scm_mbase
    BY <1>3, <2>2 DEF Lodged
  <2>4. LET p == node[e].item
        IN  /\ p \in Blocks(mem.scm) /\ p \notin DOMAIN node
            /\ p # scm_mbase /\ mem.word[p] \in Words
            /\ mem.scm.block[p].n >= WordLen[mem.word[p]]
    BY SMTT(60), <1>3 DEF Lodged
  <2>. HIDE DEF S, node
  <2>. QED BY <1>6, <1>7, <2>1, <2>2, <2>3, <2>4
<1>11. Formed(x) /\ Kernel(y, x)
  <2>1. Leveled(y.node, S) BY <1>7, <1>8
  <2>2. IsFiniteSet(DOMAIN y.node) BY <1>3, <1>7
  <2>3. Region(y.scm) /\ Based(y.scm) /\ y.end = "open" BY <1>3, <1>6
  <2>. QED BY <1>5, <1>6, <1>7, <1>8, <1>10, <2>1, <2>2, <2>3, KernelFormed
<1>12. /\ x.items = y.items /\ x.unique = y.unique
       /\ DOMAIN x.node = DOMAIN node
       /\ \A a \in DOMAIN node : x.node[a] = y.node[a] /\ Item(x, a) = Item(y, a)
       /\ DOMAIN x.word = {y.node[a].item : a \in DOMAIN node}
       /\ \A a \in DOMAIN node \cup {NULL} : Sub(x.node, a) = Sub(y.node, a)
  BY <1>8, <1>11 DEF Kernel
<1>13. /\ \A a \in DOMAIN node \ {b} : K[a] = Item(mem, a)
       /\ K[b] = Item(mem, c)
  BY <1>4, <1>6, <1>12 DEF Item
<1>14. Weak(x)
  <2>1. ASSUME NEW a \in DOMAIN node
        PROVE  /\ \A e \in Sub(x.node, x.node[a].left) : Item(x, e) <= Item(x, a)
               /\ \A e \in Sub(x.node, x.node[a].right) : Item(x, a) <= Item(x, e)
    <3>1. /\ \A e \in Sub(node, node[a].left) : K[e] <= K[a]
          /\ \A e \in Sub(node, node[a].right) : K[a] <= K[e]
      <4>. HIDE DEF K
      <4>. QED BY Zenon, <1>2, <1>13, StillOrdered
    <3>2. /\ x.node[a].left = node[a].left /\ x.node[a].right = node[a].right
          /\ node[a].left \in Places(node) /\ node[a].right \in Places(node)
      BY <1>3, <1>7, <1>12, GraphIs
    <3>3. /\ Sub(x.node, node[a].left) = Sub(node, node[a].left)
          /\ Sub(x.node, node[a].right) = Sub(node, node[a].right)
      BY <1>7, <1>12, <3>2 DEF Places
    <3>4. /\ Sub(node, node[a].left) \subseteq DOMAIN node
          /\ Sub(node, node[a].right) \subseteq DOMAIN node
      BY SubIn
    <3>5. \A e \in DOMAIN node : K[e] = Item(x, e) OBVIOUS
    <3>. HIDE DEF K, node
    <3>. QED BY <2>1, <3>1, <3>2, <3>3, <3>4, <3>5
  <2>. QED BY <1>12, <2>1 DEF Weak
<1>15. Cardinality(DOMAIN x.word) < Cardinality(DOMAIN x.node)
  <2>1. /\ b \in DOMAIN x.node /\ c \in DOMAIN x.node /\ b # c
        /\ x.node[b].item = x.node[c].item /\ IsFiniteSet(DOMAIN x.node)
    BY <1>3, <1>4, <1>6, <1>12
  <2>2. DOMAIN x.word = {x.node[a].item : a \in DOMAIN x.node}
    BY <1>12
  <2>. QED BY <2>1, <2>2, FewerWords
<1>16. x.items \in Nat /\ x.unique \in Nat
  <2>. DEFINE C == Copies(mem, DOMAIN node)
  <2>1. IsFiniteSet(C) /\ mem.items = Cardinality(C)
        /\ mem.unique = Cardinality(DOMAIN node)
    BY DEF Whole, Agree
  <2>2. <<Item(mem, b), 1>> \in C
    <3>1. mem.node[b].count \in Nat /\ mem.node[b].count >= 1
      BY <1>1, FormedIs
    <3>2. 1 \in 1 .. mem.node[b].count BY <3>1
    <3>. QED BY <3>2 DEF Copies
  <2>. HIDE DEF C
  <2>3. Cardinality(C) # 0 BY <2>1, <2>2, FS_EmptySet
  <2>4. Cardinality(C) \in Nat /\ Cardinality(DOMAIN node) \in Nat
    BY <1>3, <2>1, FS_CardinalityType
  <2>. QED BY <1>6, <1>12, <2>1, <2>3, <2>4
<1>17. RemovesFrom(mem, Item(mem, b), x)
  BY <1>11, <1>14, <1>15, <1>16 DEF RemovesFrom
<1>. QED BY <1>17 DEF x

-----------------------------------------------------------------------------
(* A node goes. *)

(* No word is in two nodes of a tree. *)
LEMMA OneNode ==
  ASSUME NEW mem, Shallow(mem.node), NEW root, Tree(mem, root),
         NEW a \in Sub(mem.node, root), NEW b \in Sub(mem.node, root),
         Item(mem, a) = Item(mem, b)
  PROVE  a = b
<1>. DEFINE node == mem.node
            word == mem.word
            T == {c \in Sub(node, root) : a \in Sub(node, c) /\ b \in Sub(node, c)}
<1>1. /\ Graph(node) /\ root \in Places(node)
      /\ Sub(node, root) \subseteq DOMAIN node
  BY SubIn DEF Shallow, Tree
<1>2. root \in T
  <2>1. root # NULL BY SubNull
  <2>2. root \in DOMAIN node BY <1>1, <2>1 DEF Places
  <2>3. root \in Sub(node, root) BY <1>1, <2>2, SubSelf
  <2>. QED BY <2>3
<1>3. T \subseteq Places(node) BY <1>1 DEF Places
<1>. HIDE DEF node, word
<1>4. PICK c \in T : \A e \in T : delta(node, c) <= delta(node, e)
  <2>1. T # {} BY <1>2
  <2>. HIDE DEF T
  <2>. QED BY <1>1, <1>3, <2>1, ShallowestOf
<1>5. /\ c \in DOMAIN node /\ c \in Sub(node, root)
      /\ a \in Sub(node, c) /\ b \in Sub(node, c)
  BY <1>1, <1>4
<1>6. Tree(mem, c) /\ Level(node, c)
  <2>1. c \in Sub(mem.node, root) /\ Graph(mem.node) BY <1>1, <1>5 DEF node
  <2>2. Tree(mem, c) BY <2>1, TreeBelow
  <2>. QED BY <1>5, <2>2 DEF Shallow, Leveled, node
<1>7. AVL(node, word, c) /\ Spelt(node, word, Sub(node, c))
  BY <1>6 DEF Tree, node, word
<1>8. Key(node, word, a) = Key(node, word, b) BY ItemIsKey DEF node, word
<1>9. ASSUME NEW e \in {node[c].left, node[c].right},
             a \in Sub(node, e), b \in Sub(node, e)
      PROVE  FALSE
  <2>1. delta(node, e) < delta(node, c) BY <1>1, <1>5, <1>6, Shallower
  <2>2. e # NULL BY <1>9, SubNull
  <2>3. e \in Places(node) BY <1>1, <1>5, GraphIs
  <2>4. e \in DOMAIN node BY <2>2, <2>3 DEF Places
  <2>5. Sub(node, e) \subseteq Sub(node, root) BY <1>1, <1>5, SubTransitive
  <2>6. e \in Sub(node, root) BY <1>1, <2>4, <2>5, SubSelf
  <2>7. e \in T BY <1>9, <2>6
  <2>8. delta(node, c) <= delta(node, e) BY <1>4, <2>7
  <2>9. delta(node, c) \in Int /\ delta(node, e) \in Int
    BY <1>1, <1>3, <1>4, <2>3, DeltaIs
  <2>. QED BY <2>1, <2>8, <2>9
<1>10. ASSUME NEW e \in Sub(node, c)
       PROVE  /\ Key(node, word, c) \in Nat /\ Key(node, word, e) \in Nat
              /\ Key(node, word, e) = Key(node, word, c) => e = c
              /\ Key(node, word, e) < Key(node, word, c)
                   => e \in Sub(node, node[c].left)
              /\ Key(node, word, e) > Key(node, word, c)
                   => e \in Sub(node, node[c].right)
  BY <1>1, <1>5, <1>7, FoundBelow
<1>. DEFINE k == Key(node, word, c)
            ka == Key(node, word, a)
<1>11. k \in Nat /\ ka \in Nat BY <1>5, <1>10
<1>12. CASE ka = k
  <2>1. a = c /\ b = c BY Zenon, <1>5, <1>8, <1>10, <1>12
  <2>. QED BY <2>1
<1>13. CASE ka < k
  <2>1. a \in Sub(node, node[c].left) /\ b \in Sub(node, node[c].left)
    BY <1>5, <1>8, <1>10, <1>13
  <2>. QED BY <1>9, <2>1
<1>14. CASE ka > k
  <2>1. a \in Sub(node, node[c].right) /\ b \in Sub(node, node[c].right)
    BY <1>5, <1>8, <1>10, <1>14
  <2>. QED BY <1>9, <2>1
<1>15. ka = k \/ ka < k \/ ka > k
  <2>. HIDE DEF ka, k
  <2>. QED BY <1>11
<1>. QED BY <1>12, <1>13, <1>14, <1>15

(* Two blocks are freed. *)
Freed(scm, p, d, x) ==
  /\ Region(x) /\ Blocks(x) = Blocks(scm)
  /\ \A q \in Blocks(scm) : x.block[q].n = scm.block[q].n
  /\ \A q \in Blocks(scm) \ {p, d} : x.block[q] = scm.block[q]

LEMMA FreedIs ==
  ASSUME NEW scm, Region(scm), NEW p \in Blocks(scm), NEW d \in Blocks(scm)
  PROVE  Freed(scm, p, d, scm_free(scm_free(scm, p), d))
<1>. DEFINE y == scm_free(scm, p)
            x == scm_free(y, d)
<1>1. /\ Region(y) /\ Blocks(y) = Blocks(scm)
      /\ y.block[p].n = scm.block[p].n
      /\ \A q \in Blocks(scm) \ {p} : y.block[q] = scm.block[q]
  BY FreeKeepsBlocks
<1>. HIDE DEF y
<1>2. /\ Region(x) /\ Blocks(x) = Blocks(y)
      /\ x.block[d].n = y.block[d].n
      /\ \A q \in Blocks(y) \ {d} : x.block[q] = y.block[q]
  BY <1>1, FreeKeepsBlocks
<1>. HIDE DEF x
<1>3. \A q \in Blocks(scm) : x.block[q].n = scm.block[q].n
  <2>1. \A q \in Blocks(scm) : y.block[q].n = scm.block[q].n BY <1>1
  <2>2. \A q \in Blocks(scm) : x.block[q].n = y.block[q].n BY <1>1, <1>2
  <2>. QED BY <2>1, <2>2
<1>4. Freed(scm, p, d, x) BY <1>1, <1>2, <1>3 DEF Freed
<1>. QED BY <1>4 DEF x, y

(* The memory y after the node d went, where that of b was to be removed. *)
Dropped(mem, b, d, y) ==
  LET node == mem.node
      D == DOMAIN node
  IN  /\ IsMem(y) /\ y.end = mem.end /\ y.word = mem.word
      /\ y.items = mem.items - 1 /\ y.unique = mem.unique - 1
      /\ Freed(mem.scm, node[d].item, d, y.scm)
      /\ Graph(y.node) /\ DOMAIN y.node = D /\ y.root \in Places(y.node)
      /\ Sub(y.node, y.root) = D \ {d} /\ AVL(y.node, y.word, y.root)
      /\ Leveled(y.node, D \ {d})
      /\ \A a \in D \ {d} : \E e \in D \ {b} :
           y.node[a].item = node[e].item /\ y.node[a].count = node[e].count
      /\ \A e \in D \ {b} : \E a \in D \ {d} :
           y.node[a].item = node[e].item /\ y.node[a].count = node[e].count

(* The nodes hold what they held, where one was moved into another. *)
LEMMA HoldingAll ==
  ASSUME NEW node, NEW n1, NEW S, NEW b, NEW d, Moved(node, n1, S, b, d)
  PROVE  /\ \A a \in DOMAIN node \ {d} : \E e \in DOMAIN node \ {b} :
              n1[a].item = node[e].item /\ n1[a].count = node[e].count
         /\ \A e \in DOMAIN node \ {b} : \E a \in DOMAIN node \ {d} :
              n1[a].item = node[e].item /\ n1[a].count = node[e].count
<1>. DEFINE D == DOMAIN node
            H == Holding(n1, S \ {d})
            Pair(x, c) == <<x[c].item, x[c].count>>
<1>1. /\ b \in S /\ d \in S /\ S \subseteq D
      /\ \A c \in D \ S : n1[c] = node[c]
      /\ H = Holding(node, S \ {b})
  BY DEF Moved
<1>2. /\ \A c : c \in H <=> \E a \in S \ {d} : c = Pair(n1, a)
      /\ \A c : c \in H <=> \E e \in S \ {b} : c = Pair(node, e)
  <2>1. \A x, T, c : c \in Holding(x, T) <=> \E a \in T : c = Pair(x, a)
    BY DEF Holding
  <2>. QED BY <1>1, <2>1
<1>3. ASSUME NEW a, NEW e, Pair(n1, a) = Pair(node, e)
      PROVE  n1[a].item = node[e].item /\ n1[a].count = node[e].count
  BY <1>3
<1>4. ASSUME NEW a \in D \ {d} PROVE \E e \in D \ {b} : Pair(n1, a) = Pair(node, e)
  <2>1. CASE a \in S
    <3>1. PICK e \in S \ {b} : Pair(n1, a) = Pair(node, e) BY Zenon, <1>2, <2>1
    <3>. QED BY <1>1, <3>1
  <2>2. CASE a \notin S
    <3>1. n1[a] = node[a] /\ a \in D \ {b} BY <1>1, <2>2
    <3>. QED BY <3>1
  <2>. QED BY <2>1, <2>2
<1>5. ASSUME NEW e \in D \ {b} PROVE \E a \in D \ {d} : Pair(n1, a) = Pair(node, e)
  <2>1. CASE e \in S
    <3>1. PICK a \in S \ {d} : Pair(node, e) = Pair(n1, a) BY Zenon, <1>2, <2>1
    <3>. QED BY <1>1, <3>1
  <2>2. CASE e \notin S
    <3>1. n1[e] = node[e] /\ e \in D \ {d} BY <1>1, <2>2
    <3>. QED BY <3>1
  <2>. QED BY <2>1, <2>2
<1>. QED BY <1>3, <1>4, <1>5

LEMMA DroppedIs ==
  ASSUME NEW mem, Whole(mem), NEW b \in DOMAIN mem.node, NEW n1, NEW d, NEW u,
         Moved(mem.node, n1, Sub(mem.node, b), b, d),
         Cut(Gone(mem, mem.node[d].item, d), n1, mem.word, mem.root, d, u)
  PROVE  d \in DOMAIN mem.node /\ Dropped(mem, b, d, SetRoot(u.mem, u.root))
<1>. DEFINE node == mem.node
            D == DOMAIN node
            p == node[d].item
            base == Gone(mem, p, d)
            g == u.mem.node
            y == SetRoot(u.mem, u.root)
<1>1. Formed(mem) BY DEF Whole
<1>2. /\ IsMem(mem) /\ Graph(node) /\ mem.root \in Places(node)
      /\ Region(mem.scm) /\ Lodged(mem) /\ D = Sub(node, mem.root)
  BY <1>1 DEF Formed, Ready
<1>3. d \in D BY DEF Moved
<1>4. d \in Blocks(mem.scm) /\ p \in Blocks(mem.scm) BY <1>2, <1>3 DEF Lodged
<1>5. /\ IsMem(base) /\ base.scm = scm_free(scm_free(mem.scm, p), d)
      /\ base.end = mem.end /\ base.word = mem.word
      /\ base.items = mem.items - 1 /\ base.unique = mem.unique - 1
  BY <1>2, GoneIs
<1>6. Freed(mem.scm, p, d, base.scm) BY <1>2, <1>4, <1>5, FreedIs
<1>7. /\ u.mem = SetNode(base, g)
      /\ Shrunk(n1, mem.word, mem.root, Top(g, u.root), d)
  BY DEF Cut
<1>. HIDE DEF base, p
<1>8. /\ IsMem(u.mem) /\ u.mem.scm = base.scm /\ u.mem.end = base.end
      /\ u.mem.word = base.word
      /\ u.mem.items = base.items /\ u.mem.unique = base.unique
  BY <1>5, <1>7, SetNodeIs
<1>9. /\ IsMem(y) /\ y.root = u.root /\ y.scm = u.mem.scm /\ y.end = u.mem.end
      /\ y.node = g /\ y.word = u.mem.word
      /\ y.items = u.mem.items /\ y.unique = u.mem.unique
  BY <1>8, SetRootIs
<1>. HIDE DEF y
<1>10. Alike(node, n1) BY DEF Moved
<1>11. /\ Graph(n1) /\ DOMAIN n1 = D /\ Places(n1) = Places(node)
       /\ Sub(n1, mem.root) = D
  BY <1>2, <1>10, AlikeIs
<1>12. Top(g, u.root).node = g /\ Top(g, u.root).root = u.root BY DEF Top
<1>13. /\ Kept(n1, g, D) /\ u.root \in Places(n1)
       /\ Sub(g, u.root) = D \ {d} /\ AVL(g, mem.word, u.root)
  BY <1>7, <1>11, <1>12 DEF Shrunk
<1>14. /\ Graph(g) /\ DOMAIN g = D
       /\ \A a \in D : g[a].count = n1[a].count /\ g[a].item = n1[a].item
  BY <1>11, <1>13 DEF Kept
<1>15. Leveled(g, D \ {d}) BY <1>13 DEF AVL, Leveled
<1>16. u.root \in Places(g) BY <1>11, <1>13, <1>14 DEF Places
<1>17. /\ \A a \in D \ {d} : \E e \in D \ {b} :
            n1[a].item = node[e].item /\ n1[a].count = node[e].count
       /\ \A e \in D \ {b} : \E a \in D \ {d} :
            n1[a].item = node[e].item /\ n1[a].count = node[e].count
  BY HoldingAll
<1>18. /\ \A a \in D \ {d} : \E e \in D \ {b} :
            g[a].item = node[e].item /\ g[a].count = node[e].count
       /\ \A e \in D \ {b} : \E a \in D \ {d} :
            g[a].item = node[e].item /\ g[a].count = node[e].count
  <2>. HIDE DEF D, g, node
  <2>. QED BY <1>14, <1>17
<1>19. /\ y.items = mem.items - 1 /\ y.unique = mem.unique - 1
       /\ y.end = mem.end /\ y.word = mem.word /\ y.scm = base.scm
  BY <1>5, <1>8, <1>9
<1>20. Dropped(mem, b, d, y)
  BY <1>6, <1>9, <1>13, <1>14, <1>15, <1>16, <1>18, <1>19 DEF Dropped, p
<1>. QED BY <1>3, <1>20 DEF y

LEMMA BasedFreed ==
  ASSUME NEW scm, Based(scm), NEW p, NEW d, p # scm_mbase, d # scm_mbase,
         NEW x, Freed(scm, p, d, x)
  PROVE  Based(x)
BY DEF Based, Freed

(* What is left when a node went is a tree. *)
LEMMA DroppedFormed ==
  ASSUME NEW mem, Whole(mem), NEW b \in DOMAIN mem.node,
         NEW d \in DOMAIN mem.node, NEW y, Dropped(mem, b, d, y),
         NEW x, x = Trimmed(y)
  PROVE  Formed(x) /\ Kernel(y, x) /\ Tree(x, x.root)
<1>. DEFINE node == mem.node
            D == DOMAIN node
            S == Sub(y.node, y.root)
            p == node[d].item
<1>1. Formed(mem) BY DEF Whole
<1>2. /\ Region(mem.scm) /\ Based(mem.scm) /\ mem.end = "open" /\ Lodged(mem)
      /\ IsFiniteSet(D) /\ Graph(node)
      /\ \A a \in D : node[a].count >= 1
  BY <1>1, FormedIs DEF Formed, Ready
<1>3. /\ \A a \in D :
           /\ a \in Blocks(mem.scm) /\ mem.scm.block[a].used
           /\ mem.scm.block[a].n >= NodeLen /\ a # scm_mbase
           /\ node[a].item \in DOMAIN mem.word
      /\ \A q \in DOMAIN mem.word :
           /\ q \in Blocks(mem.scm) /\ q \notin D /\ q # scm_mbase
           /\ mem.word[q] \in Words
           /\ mem.scm.block[q].n >= WordLen[mem.word[q]]
  BY <1>2 DEF Lodged
<1>4. /\ IsMem(y) /\ y.end = mem.end /\ y.word = mem.word
      /\ Freed(mem.scm, p, d, y.scm)
      /\ Graph(y.node) /\ DOMAIN y.node = D /\ y.root \in Places(y.node)
      /\ S = D \ {d} /\ AVL(y.node, y.word, y.root)
      /\ Leveled(y.node, S)
      /\ \A a \in D \ {d} : \E e \in D \ {b} :
           y.node[a].item = node[e].item /\ y.node[a].count = node[e].count
  BY DEF Dropped
<1>. HIDE DEF S, D, node
<1>5. p \in DOMAIN mem.word BY <1>3 DEF D, node
<1>6. p # scm_mbase /\ d # scm_mbase /\ p \notin D
  BY <1>3, <1>5 DEF D, node
<1>. HIDE DEF p
<1>7. /\ Region(y.scm) /\ Blocks(y.scm) = Blocks(mem.scm)
      /\ \A q \in Blocks(mem.scm) : y.scm.block[q].n = mem.scm.block[q].n
      /\ \A q \in Blocks(mem.scm) \ {p, d} : y.scm.block[q] = mem.scm.block[q]
  BY <1>4 DEF Freed
<1>8. Based(y.scm) BY <1>2, <1>4, <1>6, BasedFreed
<1>9. ASSUME NEW a \in S
      PROVE  /\ a \in Blocks(y.scm) /\ y.scm.block[a].used
             /\ y.scm.block[a].n >= NodeLen /\ a # scm_mbase
             /\ y.node[a].count >= 1
             /\ LET q == y.node[a].item
                IN  /\ q \in Blocks(y.scm) /\ q \notin DOMAIN y.node
                    /\ q # scm_mbase /\ y.word[q] \in Words
                    /\ y.scm.block[q].n >= WordLen[y.word[q]]
  <2>1. a \in D /\ a # d /\ a # p BY <1>4, <1>6
  <2>2. /\ a \in Blocks(y.scm) /\ y.scm.block[a].used
        /\ y.scm.block[a].n >= NodeLen /\ a # scm_mbase
    BY <1>3, <1>7, <2>1
  <2>3. PICK e \in D : /\ y.node[a].item = node[e].item
                       /\ y.node[a].count = node[e].count
    BY <1>4, <2>1
  <2>. DEFINE q == y.node[a].item
  <2>4. y.node[a].count >= 1 BY <1>2, <2>3
  <2>5. q \in DOMAIN mem.word BY <1>3, <2>3
  <2>. HIDE DEF q
  <2>6. /\ q \in Blocks(y.scm) /\ q \notin DOMAIN y.node
        /\ q # scm_mbase /\ y.word[q] \in Words
        /\ y.scm.block[q].n >= WordLen[y.word[q]]
    BY SMTT(60), <1>3, <1>4, <1>7, <2>5
  <2>. QED BY <2>2, <2>4, <2>6 DEF q
<1>10. Formed(x) /\ Kernel(y, x)
  <2>1. IsFiniteSet(DOMAIN y.node) /\ y.end = "open" BY <1>2, <1>4
  <2>2. Leveled(y.node, Sub(y.node, y.root)) BY <1>4 DEF S
  <2>3. \A a \in Sub(y.node, y.root) :
           /\ a \in Blocks(y.scm) /\ y.scm.block[a].used
           /\ y.scm.block[a].n >= NodeLen /\ a # scm_mbase
           /\ y.node[a].count >= 1
           /\ LET q == y.node[a].item
              IN  /\ q \in Blocks(y.scm) /\ q \notin DOMAIN y.node
                  /\ q # scm_mbase /\ y.word[q] \in Words
                  /\ y.scm.block[q].n >= WordLen[y.word[q]]
    BY <1>9 DEF S
  <2>. QED BY <1>4, <1>7, <1>8, <2>1, <2>2, <2>3, KernelFormed
<1>11. Tree(x, x.root) BY <1>4, <1>10, KernelTree
<1>. QED BY <1>10, <1>11

LEMMA RemovesNode ==
  ASSUME NEW mem, Whole(mem), NEW b \in DOMAIN mem.node, NEW u,
         NodeGoes(mem, b, mem.root, u)
  PROVE  RemovesFrom(mem, Item(mem, b), AfterRemove(u))
<1>. DEFINE node == mem.node
            D == DOMAIN node
            w == Item(mem, b)
            y == SetRoot(u.mem, u.root)
            x == AfterRemove(u)
<1>1. Formed(mem) /\ Tree(mem, mem.root) /\ Agree(mem) BY DEF Whole
<1>2. PICK n1, d :
        /\ Moved(mem.node, n1, Sub(mem.node, b), b, d)
        /\ Cut(Gone(mem, mem.node[d].item, d), n1, mem.word, mem.root, d, u)
  BY DEF NodeGoes
<1>3. d \in D /\ Dropped(mem, b, d, y) BY <1>2, DroppedIs
<1>4. x = Trimmed(y) BY DEF AfterRemove
<1>. HIDE DEF x, y
<1>5. Formed(x) /\ Kernel(y, x) /\ Tree(x, x.root)
  BY <1>3, <1>4, DroppedFormed
<1>6. /\ y.items = mem.items - 1 /\ y.unique = mem.unique - 1
      /\ y.word = mem.word /\ Sub(y.node, y.root) = D \ {d}
      /\ \A a \in D \ {d} : \E e \in D \ {b} :
           y.node[a].item = node[e].item /\ y.node[a].count = node[e].count
      /\ \A e \in D \ {b} : \E a \in D \ {d} :
           y.node[a].item = node[e].item /\ y.node[a].count = node[e].count
  BY <1>3 DEF Dropped
<1>7. /\ x.items = mem.items - 1 /\ x.unique = mem.unique - 1
      /\ DOMAIN x.node = D \ {d}
      /\ \A a \in D \ {d} : x.node[a] = y.node[a] /\ Item(x, a) = Item(y, a)
  BY <1>5, <1>6 DEF Kernel
<1>8. /\ \A a \in D \ {d} : \E e \in D \ {b} :
           Item(x, a) = Item(mem, e) /\ x.node[a].count = node[e].count
      /\ \A e \in D \ {b} : \E a \in D \ {d} :
           Item(x, a) = Item(mem, e) /\ x.node[a].count = node[e].count
  <2>1. ASSUME NEW a \in D \ {d}, NEW e, y.node[a].item = node[e].item,
               y.node[a].count = node[e].count
        PROVE  Item(x, a) = Item(mem, e) /\ x.node[a].count = node[e].count
    <3>1. Item(y, a) = Item(mem, e) BY <1>6, <2>1 DEF Item
    <3>. HIDE DEF D, node
    <3>. QED BY <1>7, <2>1, <3>1
  <2>. HIDE DEF D, node
  <2>. QED BY <1>6, <2>1
<1>9. ASSUME NEW e \in D \ {b} PROVE Item(mem, e) # w
  <2>1. Shallow(mem.node) BY <1>1, FormedIs
  <2>2. D = Sub(node, mem.root) BY <1>1 DEF Formed
  <2>. QED BY <1>1, <2>1, <2>2, OneNode
<1>10. ASSUME NEW v \in Words \ {w}, NEW i
       PROVE  <<v, i>> \in Tally(x) <=> <<v, i>> \in Tally(mem)
  <2>1. ASSUME <<v, i>> \in Tally(x) PROVE <<v, i>> \in Tally(mem)
    <3>1. PICK a \in DOMAIN x.node : <<v, i>> = <<Item(x, a), x.node[a].count>>
      BY <2>1 DEF Tally
    <3>2. a \in D \ {d} /\ v = Item(x, a) /\ i = x.node[a].count
      BY <1>7, <3>1
    <3>3. PICK e \in D \ {b} : v = Item(mem, e) /\ i = node[e].count
      BY <1>8, <3>2
    <3>. QED BY <3>3 DEF Tally
  <2>2. ASSUME <<v, i>> \in Tally(mem) PROVE <<v, i>> \in Tally(x)
    <3>1. PICK e \in D : <<v, i>> = <<Item(mem, e), node[e].count>>
      BY <2>2 DEF Tally
    <3>2. v = Item(mem, e) /\ i = node[e].count /\ e # b BY <3>1
    <3>3. PICK a \in D \ {d} : v = Item(x, a) /\ i = x.node[a].count
      BY <1>8, <3>2
    <3>4. a \in DOMAIN x.node BY <1>7, <3>3
    <3>. QED BY <3>3, <3>4 DEF Tally
  <2>. QED BY <2>1, <2>2
<1>11. avl_exists(x, w) = 0
  <2>1. \A n : <<w, n>> \notin Tally(x)
    <3>1. SUFFICES ASSUME NEW n, <<w, n>> \in Tally(x) PROVE FALSE OBVIOUS
    <3>2. PICK a \in DOMAIN x.node : <<w, n>> = <<Item(x, a), x.node[a].count>>
      BY <3>1 DEF Tally
    <3>3. a \in D \ {d} /\ w = Item(x, a) BY <1>7, <3>2
    <3>4. PICK e \in D \ {b} : w = Item(mem, e) BY <1>8, <3>3
    <3>. HIDE DEF w
    <3>. QED BY <1>9, <3>4
  <2>. HIDE DEF w
  <2>. QED BY <1>5, <2>1, ExistsTally
<1>12. avl_exists(mem, w) = 1
  <2>1. <<w, node[b].count>> \in Tally(mem) BY DEF Tally
  <2>2. node[b].count = 1
    <3>1. node[b].count \in Nat /\ node[b].count >= 1 BY <1>1, FormedIs
    <3>2. ~(node[b].count > 1) BY DEF NodeGoes
    <3>. QED BY <3>1, <3>2
  <2>. QED BY <1>1, <2>1, <2>2, ExistsTally
<1>13. x.unique = Cardinality(DOMAIN x.node)
  <2>1. IsFiniteSet(D) /\ mem.unique = Cardinality(D)
    BY <1>1 DEF Formed, Agree
  <2>2. Cardinality(D \ {d}) = Cardinality(D) - 1
    BY <1>3, <2>1, FS_RemoveElement
  <2>. HIDE DEF D
  <2>. QED BY <1>7, <2>1, <2>2
<1>14. x.items = mem.items + (-1)
  <2>1. mem.items \in Nat BY <1>1, FS_CardinalityType DEF Agree
  <2>. QED BY <1>7, <2>1
<1>15. avl_exists(x, w) = avl_exists(mem, w) + (-1) BY <1>11, <1>12
<1>16. w \in Words BY <1>1, FormedIs
<1>17. Whole(x) /\ Counting(mem, x, w, -1)
  <2>. HIDE DEF w
  <2>. QED BY <1>5, <1>10, <1>13, <1>14, <1>15, <1>16, WholeOn
<1>18. RemovesFrom(mem, w, x) BY <1>17 DEF RemovesFrom
<1>. QED BY <1>18 DEF x

LEMMA RemoveIs ==
  ASSUME NEW mem, Whole(mem), NEW w \in Words, avl_exists(mem, w) > 0
  PROVE  RemovesFrom(mem, w, AfterRemove(remove_node(mem, mem.root, w)))
<1>. DEFINE u == remove_node(mem, mem.root, w)
<1>1. Formed(mem) /\ Tree(mem, mem.root) BY DEF Whole
<1>2. /\ Shallow(mem.node) /\ IsMem(mem) /\ mem.root \in Places(mem.node)
      /\ DOMAIN mem.node = Sub(mem.node, mem.root)
  BY <1>1, FormedIs DEF Formed
<1>3. PICK b \in DOMAIN mem.node : Item(mem, b) = w
  <2>1. <<w, avl_exists(mem, w)>> \in Tally(mem)
    <3>1. avl_exists(mem, w) # 0 BY <1>1, ExistsTally
    <3>. QED BY <1>1, <3>1, ExistsTally
  <2>2. PICK b \in DOMAIN mem.node :
          <<w, avl_exists(mem, w)>> = <<Item(mem, b), mem.node[b].count>>
    BY <2>1 DEF Tally
  <2>. QED BY <2>2
<1>4. b \in Sub(mem.node, mem.root) BY <1>2
<1>5. \/ OneOfMany(mem, b, mem.root, u) \/ NextIsMany(mem, b, mem.root, u)
      \/ NodeGoes(mem, b, mem.root, u)
  BY <1>1, <1>2, <1>3, <1>4, RemoveNodeIs
<1>. HIDE DEF u
<1>6. RemovesFrom(mem, Item(mem, b), AfterRemove(u))
  BY <1>5, RemovesOne, RemovesInner, RemovesNode
<1>. QED BY <1>3, <1>6 DEF u

-----------------------------------------------------------------------------
(* The inductive invariant *)

(* The file before the first process.                                      *)
Blank == [Empty EXCEPT !.scm = NoBlocks]

(* What is in the file when a state was written to it: a tree in blocks of *)
(* its own, whole unless a removal put a word in two nodes, all its words  *)
(* in use unless a removal freed one.                                      *)
Stored ==
  /\ Formed(m) /\ Weak(m) /\ m.items \in Nat /\ m.unique \in Nat
  /\ "duplicate" \notin harm => Whole(m)
  /\ "freed" \notin harm => Worded(m)

(* The inductive invariant: there is no file yet, or what it holds is a    *)
(* tree; and memory in use was given away only after what damages it.      *)
AVLInv ==
  /\ st \in {"closed", "open", "undefined"}
  /\ stale \in BOOLEAN /\ harm \subseteq {"duplicate", "freed"}
  /\ st = "undefined" => "freed" \in harm \/ stale
  /\ (st = "closed" /\ m = Blank) \/ Stored

LEMMA NoneGraph == ASSUME NEW node, node = [p \in {} |-> 0] PROVE Graph(node)
<1>1. DOMAIN node = {} OBVIOUS
<1>2. node \in [DOMAIN node -> Node(DOMAIN node)] BY <1>1
<1>. QED BY <1>1, <1>2 DEF Graph

LEMMA BlankIs ==
  /\ IsMem(Blank) /\ Graph(Blank.node) /\ Blank.scm = NoBlocks /\ Blank.root = NULL
  /\ DOMAIN Blank.node = {} /\ DOMAIN Blank.word = {}
  /\ Blank.items = 0 /\ Blank.unique = 0 /\ Blank.scm.utilized = 0
<1>. DEFINE none == [p \in {} |-> 0]
<1>1. Blank = [scm |-> NoBlocks, end |-> "open", node |-> none, word |-> none,
               root |-> NULL, items |-> 0, unique |-> 0]
  BY DEF Blank, Empty
<1>2. DOMAIN none = {} OBVIOUS
<1>3. NoBlocks.utilized = 0 BY DEF NoBlocks
<1>4. Graph(none) BY NoneGraph
<1>. HIDE DEF none
<1>. QED BY <1>1, <1>2, <1>3, <1>4 DEF IsMem

LEMMA EmptyIs ==
  /\ IsMem(Empty) /\ Graph(Empty.node) /\ Empty.root = NULL
  /\ Empty.end = "open" /\ DOMAIN Empty.node = {} /\ DOMAIN Empty.word = {}
  /\ Empty.items = 0 /\ Empty.unique = 0
  /\ Region(Empty.scm) /\ Based(Empty.scm)
  /\ Empty.scm.utilized = Header + StateLen
<1>. DEFINE none == [p \in {} |-> 0]
            a == scm_malloc(NoBlocks, StateLen)
            e == a.scm
            p == 0 + Header
<1>1. Empty = [scm |-> e, end |-> "open", node |-> none, word |-> none,
               root |-> NULL, items |-> 0, unique |-> 0]
  BY DEF Empty
<1>2. DOMAIN none = {} OBVIOUS
<1>3. NoBlocks.utilized = 0 /\ Blocks(NoBlocks) = {} BY DEF NoBlocks, Blocks
<1>4. /\ Header \in Nat /\ StateLen \in Nat /\ SizeT \in Nat /\ Capacity \in Nat
      /\ Header + StateLen + SizeT <= Capacity
  BY Numbers, Lengths
<1>5. HasRoom(NoBlocks, StateLen) BY <1>3, <1>4 DEF HasRoom
<1>6. e = [utilized |-> p + StateLen,
           block |-> [q \in {} \cup {p} |->
                        IF q = p THEN [used |-> TRUE, n |-> StateLen]
                                 ELSE NoBlocks.block[q]]]
  BY <1>3, <1>5 DEF scm_malloc
<1>7. p = Header BY <1>4
<1>8. Region(e) BY <1>4, NewRegion, MallocGivesOnce
<1>. HIDE DEF e, p, a
<1>9. /\ Blocks(e) = {p} /\ e.block[p] = [used |-> TRUE, n |-> StateLen]
      /\ e.utilized = p + StateLen
  BY Zenon, <1>6 DEF Blocks
<1>10. Based(e) BY <1>7, <1>9 DEF Based, scm_mbase
<1>. HIDE DEF none
<1>11. /\ IsMem(Empty) /\ Empty.root = NULL /\ Empty.end = "open"
       /\ Empty.node = none /\ Empty.word = none
       /\ Empty.items = 0 /\ Empty.unique = 0 /\ Empty.scm = e
  BY <1>1 DEF IsMem
<1>12. Graph(none) BY NoneGraph DEF none
<1>. QED BY <1>2, <1>7, <1>8, <1>9, <1>10, <1>11, <1>12

(* A tree without nodes. *)
LEMMA NoneIs ==
  ASSUME NEW mem, Graph(mem.node), DOMAIN mem.node = {}, mem.root = NULL
  PROVE  /\ mem.root \in Places(mem.node)
         /\ Sub(mem.node, mem.root) = {} /\ Nodes(mem.node, mem.root) = {}
         /\ Leveled(mem.node, DOMAIN mem.node) /\ Tree(mem, mem.root)
         /\ \A w : avl_exists(mem, w) = 0
<1>. DEFINE node == mem.node
<1>1. Graph(node) OBVIOUS
<1>2. /\ mem.root \in Places(node) /\ Sub(node, mem.root) = {}
      /\ Leveled(node, DOMAIN node) /\ Leveled(node, Sub(node, mem.root))
  BY SubNull DEF Places, Leveled
<1>3. Nodes(node, mem.root) = {} BY <1>1, <1>2, NodesIs
<1>4. Shallow(node) BY <1>1, <1>2, ShallowIs
<1>5. Tree(mem, mem.root) BY <1>2 DEF Tree, AVL, Spelt
<1>6. \A w : avl_exists(mem, w) = 0 BY <1>2, <1>4, <1>5, ExistsIs
<1>. QED BY <1>1, <1>2, <1>3, <1>5, <1>6

LEMMA EmptyWhole == Whole(Empty) /\ Worded(Empty)
<1>1. /\ Graph(Empty.node) /\ Empty.root \in Places(Empty.node)
      /\ Sub(Empty.node, Empty.root) = {}
      /\ Leveled(Empty.node, DOMAIN Empty.node) /\ Tree(Empty, Empty.root)
  BY Zenon, EmptyIs, NoneIs
<1>2. Lodged(Empty) /\ Worded(Empty) BY EmptyIs DEF Lodged, Worded
<1>3. Ready(Empty) BY <1>1, <1>2, EmptyIs DEF Ready
<1>4. IsFiniteSet(DOMAIN Empty.node) BY EmptyIs, FS_EmptySet
<1>5. Formed(Empty) BY <1>1, <1>3, <1>4, EmptyIs DEF Formed
<1>6. Copies(Empty, DOMAIN Empty.node) = {} BY EmptyIs DEF Copies
<1>7. Agree(Empty) BY <1>6, EmptyIs, FS_EmptySet DEF Agree
<1>. QED BY <1>1, <1>2, <1>5, <1>7 DEF Whole

LEMMA WholeIs ==
  ASSUME NEW mem, Whole(mem)
  PROVE  Formed(mem) /\ Weak(mem) /\ mem.items \in Nat /\ mem.unique \in Nat
<1>1. Formed(mem) /\ Tree(mem, mem.root) /\ Agree(mem) BY DEF Whole
<1>2. mem.items \in Nat /\ mem.unique \in Nat
  <2>1. IsFiniteSet(DOMAIN mem.node) BY <1>1 DEF Formed
  <2>. QED BY <1>1, <2>1, FS_CardinalityType DEF Agree
<1>3. \A a \in DOMAIN mem.node : Ordered(mem.node, mem.word, a)
  BY <1>1 DEF Tree, AVL, Formed
<1>4. \A a \in DOMAIN mem.node : Item(mem, a) \in Nat BY <1>1, FormedIs
<1>5. \A a : Sub(mem.node, a) \subseteq DOMAIN mem.node BY SubIn
<1>6. ASSUME NEW a \in DOMAIN mem.node
      PROVE  /\ \A b \in Sub(mem.node, mem.node[a].left) : Item(mem, b) <= Item(mem, a)
             /\ \A b \in Sub(mem.node, mem.node[a].right) : Item(mem, a) <= Item(mem, b)
  <2>1. /\ \A b \in Sub(mem.node, mem.node[a].left) : Item(mem, b) < Item(mem, a)
        /\ \A b \in Sub(mem.node, mem.node[a].right) : Item(mem, a) < Item(mem, b)
    BY <1>3, ItemIsKey DEF Ordered
  <2>2. ASSUME NEW b \in DOMAIN mem.node
        PROVE  /\ Item(mem, b) < Item(mem, a) => Item(mem, b) <= Item(mem, a)
               /\ Item(mem, a) < Item(mem, b) => Item(mem, a) <= Item(mem, b)
    BY <1>4
  <2>. QED BY <1>5, <2>1, <2>2
<1>7. Weak(mem) BY <1>6 DEF Weak
<1>. QED BY <1>1, <1>2, <1>7

(* avl_insert() *)
LEMMA InsertStep ==
  ASSUME AVLInv, NEW w \in Words, Insert(w)
  PROVE  /\ AVLInv' /\ harm' = harm /\ Whole(m)
         /\ Succeeds(m, w, st') => Counting(m, m', w, 1)
         /\ ~Succeeds(m, w, st') => Counting(m, m', w, 0)
<1>. DEFINE u == update(m, m.root, w)
            x == AfterInsert(m, u)
<1>1. st = "open" /\ "duplicate" \notin harm BY DEF Insert, Callable
<1>2. Stored /\ Whole(m) BY <1>1 DEF AVLInv, Stored
<1>3. InsertsInto(m, w, u) BY <1>2, InsertIs
<1>. HIDE DEF u
<1>4. /\ st' = IF u.mem.end = "killed" THEN "closed" ELSE u.mem.end
      /\ m' = x /\ stale' = stale /\ harm' = harm
  BY DEF Insert, AfterInsert, SetRoot, u
<1>5. /\ u.mem.end \in {"open", "killed", "undefined"}
      /\ u.mem.end = "undefined" => stale \/ ~Worded(m)
      /\ Whole(x) /\ (Worded(m) => Worded(x))
      /\ Succeeds(m, w, u.mem.end) => Counting(m, x, w, 1)
      /\ ~Succeeds(m, w, u.mem.end) => Counting(m, x, w, 0)
  BY <1>3 DEF InsertsInto
<1>. HIDE DEF x
<1>6. st' \in {"closed", "open", "undefined"} BY <1>4, <1>5
<1>7. st' = "undefined" => u.mem.end = "undefined" BY <1>4, <1>5
<1>8. "freed" \notin harm => Worded(m) BY <1>2 DEF Stored
<1>9. Formed(x) /\ Weak(x) /\ x.items \in Nat /\ x.unique \in Nat
  BY <1>5, WholeIs
<1>10. Stored' BY <1>4, <1>5, <1>8, <1>9 DEF Stored
<1>11. AVLInv' BY <1>4, <1>5, <1>6, <1>7, <1>8, <1>10 DEF AVLInv
<1>12. st' = "open" <=> u.mem.end = "open" BY <1>4, <1>5
<1>13. Succeeds(m, w, st') <=> Succeeds(m, w, u.mem.end)
  BY <1>12 DEF Succeeds
<1>. QED BY <1>2, <1>4, <1>5, <1>11, <1>13

(* remove_word() *)
LEMMA RemoveStep ==
  ASSUME AVLInv, NEW w \in Words, Remove(w)
  PROVE  /\ AVLInv' /\ Whole(m)
         /\ "duplicate" \in harm' \/ Counting(m, m', w, -1)
<1>. DEFINE u == remove_node(m, m.root, w)
            x == AfterRemove(u)
<1>1. st = "open" /\ "duplicate" \notin harm /\ avl_exists(m, w) > 0
  BY DEF Remove, Callable
<1>2. Whole(m) BY <1>1 DEF AVLInv, Stored
<1>3. RemovesFrom(m, w, x) BY <1>1, <1>2, RemoveIs
<1>. HIDE DEF u
<1>4. m' = x /\ harm' = harm \cup Damage(x) /\ st' = st /\ stale' = stale
  BY DEF Remove, AfterRemove, SetRoot, u
<1>. HIDE DEF x
<1>5. Formed(x) /\ Weak(x) /\ x.items \in Nat /\ x.unique \in Nat
  BY <1>3, WholeIs DEF RemovesFrom
<1>6. "duplicate" \in Damage(x) \/ (Whole(x) /\ Counting(m, x, w, -1))
  BY <1>3 DEF RemovesFrom, Damage
<1>7. "freed" \notin Damage(x) => Worded(x) BY DEF Damage, Worded
<1>8. harm' \subseteq {"duplicate", "freed"}
  <2>1. Damage(x) \subseteq {"duplicate", "freed"} BY DEF Damage
  <2>. QED BY Zenon, <1>4, <2>1 DEF AVLInv
<1>9. Stored' BY <1>4, <1>5, <1>6, <1>7 DEF Stored
<1>10. AVLInv' BY <1>1, <1>4, <1>8, <1>9 DEF AVLInv
<1>. QED BY <1>2, <1>4, <1>6, <1>10

(* Where a region has no more bytes than an empty one, it has no tree. *)
LEMMA NoTree ==
  ASSUME NEW mem, Formed(mem), mem.scm.utilized <= Header + StateLen
  PROVE  Graph(mem.node) /\ DOMAIN mem.node = {} /\ mem.root = NULL
<1>. DEFINE scm == mem.scm
<1>1. Region(scm) /\ Based(scm) /\ Lodged(mem) /\ Graph(mem.node)
  BY DEF Formed, Ready
<1>2. ASSUME NEW a \in DOMAIN mem.node PROVE FALSE
  <2>1. /\ a \in Blocks(scm) /\ scm.block[a].n >= NodeLen /\ a # scm_mbase
    BY <1>1 DEF Lodged
  <2>2. /\ a \in Nat /\ scm.block[a].n \in Nat /\ Header <= a
        /\ a + scm.block[a].n <= scm.utilized /\ scm.utilized \in Nat
    BY <1>1, <2>1, BlockIs
  <2>3. /\ scm_mbase \in Blocks(scm) /\ scm.block[scm_mbase].n = StateLen
    BY <1>1 DEF Based
  <2>4. \A p, q \in Blocks(scm) : p < q => p + scm.block[p].n + Header <= q
    BY <1>1 DEF Region, Tiled
  <2>5. scm_mbase = Header /\ Header \in Nat /\ Header > 0 BY Numbers DEF scm_mbase
  <2>6. scm_mbase < a BY <2>1, <2>2, <2>5
  <2>7. scm_mbase + StateLen + Header <= a BY <2>1, <2>3, <2>4, <2>6
  <2>8. NodeLen \in Nat /\ NodeLen > 0 /\ StateLen \in Nat BY Lengths
  <2>. QED BY <2>1, <2>2, <2>5, <2>7, <2>8
<1>3. DOMAIN mem.node = {} BY <1>2
<1>4. mem.root = NULL BY <1>3 DEF Formed, Places
<1>. QED BY <1>1, <1>3, <1>4

(* scm_open(), scm_close(): nothing changes but by truncation. *)
LEMMA OpenStep ==
  ASSUME AVLInv, NEW truncate \in BOOLEAN, Open(truncate)
  PROVE  /\ AVLInv'
         /\ \A v \in Words :
              avl_exists(m', v) = IF truncate THEN 0 ELSE avl_exists(m, v)
<1>1. CASE truncate \/ m.scm.utilized = 0
  <2>1. /\ st' = "open" /\ m' = Empty /\ harm' = {}
        /\ stale' = (stale \/ m.scm.utilized > 0)
    BY <1>1 DEF Open
  <2>2. Whole(Empty) /\ Worded(Empty) BY EmptyWhole
  <2>3. Stored' BY <2>1, <2>2, WholeIs DEF Stored
  <2>4. AVLInv' BY <2>1, <2>3 DEF AVLInv
  <2>5. \A v : avl_exists(Empty, v) = 0 BY EmptyIs, NoneIs
  <2>6. ASSUME m.scm.utilized = 0 PROVE \A v : avl_exists(m, v) = 0
    <3>1. CASE m = Blank BY <3>1, BlankIs, NoneIs
    <3>2. CASE Formed(m)
      <4>1. m.scm.utilized <= Header + StateLen BY <2>6, Numbers, Lengths
      <4>2. Graph(m.node) /\ DOMAIN m.node = {} /\ m.root = NULL
        BY <3>2, <4>1, NoTree
      <4>. QED BY <4>2, NoneIs
    <3>. QED BY <3>1, <3>2 DEF AVLInv, Stored
  <2>. QED BY <1>1, <2>1, <2>4, <2>5, <2>6
<1>2. CASE ~(truncate \/ m.scm.utilized = 0)
  <2>1. st' = "open" /\ m' = m /\ stale' = stale /\ harm' = harm
    BY <1>2 DEF Open
  <2>2. m # Blank BY <1>2, BlankIs
  <2>3. Stored BY <2>2 DEF AVLInv
  <2>4. Stored' BY <2>1, <2>3 DEF Stored
  <2>. QED BY <1>2, <2>1, <2>4 DEF AVLInv
<1>. QED BY <1>1, <1>2

LEMMA StillStep ==
  ASSUME AVLInv, Close \/ Ended \/ UNCHANGED vars
  PROVE  AVLInv' /\ m' = m
<1>1. /\ m' = m /\ stale' = stale /\ harm' = harm
      /\ st' = st \/ (st = "open" /\ st' = "closed")
  BY DEF Close, Ended, vars
<1>2. Stored => Stored' BY <1>1 DEF Stored
<1>. QED BY <1>1, <1>2 DEF AVLInv

LEMMA AVLStep == AVLInv /\ [Next]_vars => AVLInv'
<1>. SUFFICES ASSUME AVLInv, [Next]_vars PROVE AVLInv' OBVIOUS
<1>1. ASSUME NEW truncate \in BOOLEAN, Open(truncate) PROVE AVLInv'
  BY <1>1, OpenStep
<1>2. CASE Close \/ Ended \/ UNCHANGED vars BY <1>2, StillStep
<1>3. ASSUME NEW w \in Words, Insert(w) PROVE AVLInv' BY <1>3, InsertStep
<1>4. ASSUME NEW w \in Words, Remove(w) PROVE AVLInv' BY <1>4, RemoveStep
<1>. QED BY <1>1, <1>2, <1>3, <1>4 DEF Next

LEMMA AVLBegins == Init => AVLInv
<1>. SUFFICES ASSUME Init PROVE AVLInv OBVIOUS
<1>1. st = "closed" /\ m = Blank /\ stale = FALSE /\ harm = {}
  BY DEF Init, Blank
<1>. QED BY Zenon, <1>1 DEF AVLInv

(* Every state that avl_open(), avl_insert(), avl_remove(), avl_close() and *)
(* a process killed in scm_malloc() reach from an empty file satisfies the  *)
(* invariant (avl.c, scm.c).                                                *)
THEOREM AVLAlways == Spec => []AVLInv
<1>. QED BY AVLBegins, AVLStep, PTL DEF Spec

-----------------------------------------------------------------------------
(* What the invariant promises *)

LEMMA BlankNodes == m = Blank => Nodes(m.node, m.root) = {}
BY BlankIs, NoneIs

LEMMA FormedNodes ==
  ASSUME NEW mem, Formed(mem)
  PROVE  /\ Graph(mem.node) /\ Nodes(mem.node, mem.root) = DOMAIN mem.node
         /\ \A a \in DOMAIN mem.node :
              /\ Nodes(mem.node, mem.node[a].left)
                   = Sub(mem.node, mem.node[a].left)
              /\ Nodes(mem.node, mem.node[a].right)
                   = Sub(mem.node, mem.node[a].right)
<1>1. /\ Graph(mem.node) /\ mem.root \in Places(mem.node)
      /\ DOMAIN mem.node = Sub(mem.node, mem.root)
      /\ Leveled(mem.node, DOMAIN mem.node)
  BY DEF Formed, Ready
<1>2. ASSUME NEW a \in Places(mem.node)
      PROVE  Nodes(mem.node, a) = Sub(mem.node, a)
  <2>1. Leveled(mem.node, Sub(mem.node, a)) BY <1>1, SubIn DEF Leveled
  <2>. QED BY <1>1, <2>1, NodesIs
<1>. QED BY <1>1, <1>2, GraphIs

LEMMA TypeStored == AVLInv => TypeOK
<1>. SUFFICES ASSUME AVLInv PROVE TypeOK OBVIOUS
<1>1. CASE m = Blank
  <2>1. 0 \in 0 .. Capacity BY Numbers
  <2>2. Blocks(m.scm) = {} BY <1>1, BlankIs DEF Blocks, NoBlocks
  <2>. QED BY <1>1, <2>1, <2>2, BlankIs DEF TypeOK, AVLInv
<1>2. CASE Stored
  <2>1. /\ Region(m.scm) /\ Lodged(m) /\ m.items \in Nat /\ m.unique \in Nat
    BY <1>2 DEF Stored, Formed, Ready
  <2>2. m.scm.utilized \in 0 .. Capacity BY <2>1 DEF Region
  <2>3. /\ DOMAIN m.node \subseteq Blocks(m.scm)
        /\ DOMAIN m.word \subseteq Blocks(m.scm)
    BY <2>1 DEF Lodged
  <2>. QED BY <2>1, <2>2, <2>3 DEF TypeOK, AVLInv
<1>. QED BY <1>1, <1>2 DEF AVLInv

LEMMA AVLStored == AVLInv => IsAVL
<1>. SUFFICES ASSUME AVLInv PROVE IsAVL OBVIOUS
<1>1. CASE m = Blank BY <1>1, BlankNodes DEF IsAVL
<1>2. CASE Stored
  <2>. DEFINE node == m.node
  <2>1. /\ Formed(m) /\ Weak(m)
        /\ "duplicate" \notin harm => Tree(m, m.root)
    BY <1>2 DEF Stored, Whole
  <2>2. /\ Graph(node) /\ Nodes(node, m.root) = DOMAIN node
        /\ Leveled(node, DOMAIN node) /\ DOMAIN node = Sub(node, m.root)
    BY <2>1, FormedNodes DEF Formed
  <2>3. ASSUME NEW a \in DOMAIN node
        PROVE  /\ node[a].depth = Height(node, a)
               /\ balance(node, a) \in -1 .. 1
    <3>1. a \in Places(node) /\ a # NULL BY <2>2, GraphIs DEF Places
    <3>2. Height(node, a) = delta(node, a) BY <2>2, <3>1, HeightIs
    <3>3. delta(node, a) = node[a].depth BY <3>1 DEF delta
    <3>4. balance(node, a) \in -1 .. 1 BY <2>2 DEF Leveled, Level
    <3>. QED BY <3>2, <3>3, <3>4
  <2>4. ASSUME NEW a \in DOMAIN node, NEW b \in DOMAIN node
        PROVE  /\ Item(m, b) <= Item(m, a) /\ "duplicate" \in harm
                    => Below(Item(m, b), Item(m, a))
               /\ Item(m, b) < Item(m, a) => Below(Item(m, b), Item(m, a))
    <3>1. Item(m, a) \in Nat /\ Item(m, b) \in Nat BY <2>1, FormedIs
    <3>. QED BY <3>1 DEF Below
  <2>5. ASSUME NEW a \in DOMAIN node
        PROVE  /\ \A b \in Sub(node, node[a].left) : Below(Item(m, b), Item(m, a))
               /\ \A b \in Sub(node, node[a].right) : Below(Item(m, a), Item(m, b))
    <3>1. \A e : Sub(node, e) \subseteq DOMAIN node BY SubIn
    <3>2. CASE "duplicate" \in harm
      <4>1. /\ \A b \in Sub(node, node[a].left) : Item(m, b) <= Item(m, a)
            /\ \A b \in Sub(node, node[a].right) : Item(m, a) <= Item(m, b)
        BY <2>1 DEF Weak
      <4>. QED BY <2>4, <3>1, <3>2, <4>1
    <3>3. CASE "duplicate" \notin harm
      <4>1. Ordered(node, m.word, a) BY <2>1, <2>2, <3>3 DEF Tree, AVL
      <4>2. /\ \A b \in Sub(node, node[a].left) : Item(m, b) < Item(m, a)
            /\ \A b \in Sub(node, node[a].right) : Item(m, a) < Item(m, b)
        BY <4>1, ItemIsKey DEF Ordered
      <4>. QED BY <2>4, <3>1, <4>2
    <3>. QED BY <3>2, <3>3
  <2>6. \A a \in DOMAIN node :
          /\ Nodes(node, node[a].left) = Sub(node, node[a].left)
          /\ Nodes(node, node[a].right) = Sub(node, node[a].right)
    BY <2>1, FormedNodes
  <2>. QED BY <2>2, <2>3, <2>5, <2>6 DEF IsAVL
<1>. QED BY <1>1, <1>2 DEF AVLInv

LEMMA CountsStored == AVLInv => CountsAgree
<1>. SUFFICES ASSUME AVLInv, "duplicate" \notin harm
              PROVE  /\ m.unique = Cardinality(Nodes(m.node, m.root))
                     /\ m.items = Cardinality(Copies(m, Nodes(m.node, m.root)))
  BY DEF CountsAgree
<1>1. CASE m = Blank
  <2>1. Nodes(m.node, m.root) = {} BY <1>1, BlankNodes
  <2>2. Copies(m, {}) = {} BY DEF Copies
  <2>. QED BY <1>1, <2>1, <2>2, BlankIs, FS_EmptySet
<1>2. CASE Stored
  <2>1. Formed(m) /\ Agree(m) BY <1>2 DEF Stored, Whole
  <2>2. Nodes(m.node, m.root) = DOMAIN m.node BY <2>1, FormedNodes
  <2>. QED BY <2>1, <2>2 DEF Agree
<1>. QED BY <1>1, <1>2 DEF AVLInv

LEMMA BlocksStored == AVLInv => BlocksApart
<1>. SUFFICES ASSUME AVLInv PROVE BlocksApart OBVIOUS
<1>1. CASE m = Blank
  <2>1. Nodes(m.node, m.root) = {} BY <1>1, BlankNodes
  <2>2. Tiled(m.scm) BY SMTT(60), <1>1, BlankIs, NewRegion DEF Region
  <2>. QED BY <2>1, <2>2 DEF BlocksApart
<1>2. CASE Stored
  <2>. DEFINE node == m.node
  <2>1. /\ Formed(m) /\ ("freed" \notin harm => Worded(m))
        /\ "duplicate" \notin harm => Tree(m, m.root)
    BY <1>2 DEF Stored, Whole
  <2>2. /\ Tiled(m.scm) /\ Lodged(m) /\ Shallow(node)
        /\ DOMAIN node = Sub(node, m.root)
        /\ Nodes(node, m.root) = DOMAIN node
    BY <2>1, FormedNodes, FormedIs DEF Formed, Ready, Region
  <2>3. ASSUME NEW a \in DOMAIN node
        PROVE  /\ m.scm.block[a].used /\ m.scm.block[a].n >= NodeLen
               /\ m.scm.block[node[a].item].n >= WordLen[Item(m, a)]
               /\ m.scm.block[node[a].item].used \/ "freed" \in harm
               /\ a # scm_mbase /\ node[a].item \notin DOMAIN node
    BY <2>1, <2>2 DEF Lodged, Item, Worded
  <2>4. ASSUME NEW a \in DOMAIN node, NEW b \in DOMAIN node,
               node[a].item = node[b].item
        PROVE  a = b \/ "duplicate" \in harm
    <3>1. Item(m, a) = Item(m, b) BY <2>4 DEF Item
    <3>. QED BY <2>1, <2>2, <3>1, OneNode
  <2>5. \A a, b \in DOMAIN node :
          /\ node[a].item # b /\ a # scm_mbase
          /\ node[a].item = node[b].item => a = b \/ "duplicate" \in harm
    BY <2>3, <2>4
  <2>. QED BY <2>2, <2>3, <2>5 DEF BlocksApart
<1>. QED BY <1>1, <1>2 DEF AVLInv

(* What a step changes of the answers of avl_exists(). *)
AnsweredStep ==
  /\ \A w \in Words :
       /\ Insert(w) /\ st' # "undefined" =>
            Answers(m') =
              IF st' = "open" /\ (avl_exists(m, w) > 0 \/ Granted(m, w))
              THEN [Answers(m) EXCEPT ![w] = @ + 1] ELSE Answers(m)
       /\ Remove(w) /\ "duplicate" \notin harm' =>
            Answers(m') = [Answers(m) EXCEPT ![w] = @ - 1]
  /\ \A truncate \in BOOLEAN : Open(truncate) =>
       Answers(m') = IF truncate THEN [v \in Words |-> 0] ELSE Answers(m)

LEMMA CountingAnswers ==
  ASSUME NEW w \in Words, NEW k \in Int, Counting(m, m', w, k)
  PROVE  Answers(m') = [Answers(m) EXCEPT ![w] = @ + k]
<1>. DEFINE e == Answers(m)
            f == Answers(m')
<1>1. e = [v \in Words |-> avl_exists(m, v)] BY DEF Answers
<1>2. f = [v \in Words |-> avl_exists(m', v)] BY DEF Answers
<1>3. f[w] = e[w] + k BY <1>1, <1>2 DEF Counting
<1>4. \A v \in Words \ {w} : f[v] = e[v] BY <1>1, <1>2 DEF Counting
<1>5. e = [v \in Words |-> e[v]] /\ f = [v \in Words |-> f[v]] BY <1>1, <1>2
<1>. HIDE DEF e, f
<1>6. f = [e EXCEPT ![w] = @ + k] BY <1>3, <1>4, <1>5
<1>. QED BY <1>6 DEF e, f

LEMMA AnsweredSteps == AVLInv => AnsweredStep
<1>. SUFFICES ASSUME AVLInv PROVE AnsweredStep OBVIOUS
<1>1. ASSUME NEW w \in Words, Insert(w)
      PROVE  Answers(m') =
               IF st' = "open" /\ (avl_exists(m, w) > 0 \/ Granted(m, w))
               THEN [Answers(m) EXCEPT ![w] = @ + 1] ELSE Answers(m)
  <2>1. CASE Succeeds(m, w, st')
    <3>1. Counting(m, m', w, 1) BY <1>1, <2>1, InsertStep
    <3>2. Answers(m') = [Answers(m) EXCEPT ![w] = @ + 1]
      BY <3>1, CountingAnswers
    <3>. QED BY <2>1, <3>2 DEF Succeeds
  <2>2. CASE ~Succeeds(m, w, st')
    <3>1. Counting(m, m', w, 0) BY <1>1, <2>2, InsertStep
    <3>2. \A v \in Words : avl_exists(m', v) = avl_exists(m, v)
      BY <3>1 DEF Counting
    <3>3. Answers(m') = Answers(m) BY <3>2 DEF Answers
    <3>. QED BY <2>2, <3>3 DEF Succeeds
  <2>. QED BY <2>1, <2>2
<1>2. ASSUME NEW w \in Words, Remove(w), "duplicate" \notin harm'
      PROVE  Answers(m') = [Answers(m) EXCEPT ![w] = @ - 1]
  <2>1. Counting(m, m', w, -1) BY <1>2, RemoveStep
  <2>2. Answers(m') = [Answers(m) EXCEPT ![w] = @ + -1]
    BY <2>1, CountingAnswers
  <2>3. Answers(m)[w] \in Int BY <2>1 DEF Counting, Answers
  <2>4. Answers(m)[w] + -1 = Answers(m)[w] - 1 BY <2>3
  <2>. QED BY <2>2, <2>4
<1>3. ASSUME NEW truncate \in BOOLEAN, Open(truncate)
      PROVE  Answers(m') =
               IF truncate THEN [v \in Words |-> 0] ELSE Answers(m)
  <2>1. \A v \in Words :
          avl_exists(m', v) = IF truncate THEN 0 ELSE avl_exists(m, v)
    BY <1>3, OpenStep
  <2>. QED BY <2>1 DEF Answers
<1>. QED BY <1>1, <1>2, <1>3 DEF AnsweredStep

(* Nodes and words lie in blocks that scm_malloc() has made, and the totals *)
(* never go below zero: no removal subtracts what no insertion has added.   *)
THEOREM TypeIsOK == Spec => []TypeOK
<1>. QED BY AVLAlways, TypeStored, PTL

(* After every avl_insert() and avl_remove() the tree is an AVL tree: the   *)
(* rotations of update() (avl.c:86) and remove_node() (avl.c:265) restore   *)
(* depths, balance and order wherever the word lies, however many nodes     *)
(* above it are out of balance on the way up, and whether there is memory.  *)
THEOREM TreeIsAVL == Spec => []IsAVL
<1>. QED BY AVLAlways, AVLStored, PTL

(* What avl_items() and avl_unique() say (avl.c:230) is what the nodes      *)
(* count, also when update() finds no memory below a node and reports it to *)
(* nobody, and when the process is killed in between, unless a removal has  *)
(* put a word in two nodes.                                                 *)
THEOREM TotalsAgree == Spec => []CountsAgree
<1>. QED BY AVLAlways, CountsStored, PTL

(* No node and no word lies in the block of another, each block is in use   *)
(* and large enough for what is in it, and the blocks tile the region, but  *)
(* for the words that remove_node() frees with an inner node (avl.c:297).   *)
THEOREM BlocksAreApart == Spec => []BlocksApart
<1>. QED BY AVLAlways, BlocksStored, PTL

(* scm_malloc() never gives out a block that the tree still uses (scm.c),   *)
(* unless an inner node was removed or the file truncated before.           *)
THEOREM MemoryGivenOnce == Spec => []GivenOnce
<1>1. AVLInv => GivenOnce BY DEF AVLInv, GivenOnce
<1>. QED BY <1>1, AVLAlways, PTL

(* An insertion that succeeds adds one to what avl_exists() says of its     *)
(* word (avl.c:205), one that fails or is killed changes no answer, and a   *)
(* removal takes one from that of its word: a search finds every other word *)
(* as before, whatever was rotated, freed, copied or could not be           *)
(* allocated, and after the region is opened again, unless a removal has    *)
(* put a word in two nodes.                                                 *)
THEOREM ChangesOneWord == Spec => OneWordAtATime
<1>1. AVLInv /\ [Next]_vars => [AnsweredStep]_vars BY AnsweredSteps
<1>2. Spec => [][AnsweredStep]_vars BY <1>1, AVLAlways, PTL DEF Spec
<1>. QED BY <1>2 DEF OneWordAtATime, AnsweredStep
=============================================================================
