-------------------------- MODULE TreeMemoryProofs --------------------------
(***************************************************************************)
(* What is proved of the memory of src/p3, for every capacity, every size  *)
(* of header and every length asked for, and every graph of nodes: what    *)
(* scm_malloc() and scm_free() do to the blocks of the region, and what    *)
(* the rotations, the depths and the links that insertions and removals    *)
(* set do to the nodes of a tree below the place where they are set.       *)
(***************************************************************************)
EXTENDS AVLTree, FiniteSetTheorems, WellFoundedInduction, TLAPS

(* Blocks *)

(* A region as scm_open() makes it and scm_malloc() and scm_free() leave   *)
(* it.                                                                     *)
Region(scm) ==
  /\ scm = [utilized |-> scm.utilized, block |-> scm.block]
  /\ Blocks(scm) \subseteq Nat
  /\ scm.block \in [Blocks(scm) -> [used : BOOLEAN, n : Nat]]
  /\ scm.utilized \in 0 .. Capacity
  /\ \A p \in Blocks(scm) :
       Header <= p /\ p + scm.block[p].n <= scm.utilized
  /\ Tiled(scm)

(* The bytes of a block, with its header. *)
Extent(scm, p) == p - Header .. p + scm.block[p].n - 1

LEMMA Numbers == Header \in Nat /\ 0 < Header /\ Capacity \in Nat
                 /\ SizeT \in Nat /\ 0 < SizeT /\ SizeT < Header
BY SCMAssumption, SMT

LEMMA BlockIs ==
  ASSUME NEW scm, Region(scm), NEW p \in Blocks(scm)
  PROVE  /\ p \in Nat /\ scm.block[p].n \in Nat /\ scm.block[p].used \in BOOLEAN
         /\ scm.utilized \in Nat /\ scm.utilized <= Capacity
         /\ Header <= p /\ p + scm.block[p].n <= scm.utilized
<1>1. scm.block[p] \in [used : BOOLEAN, n : Nat] BY DEF Region
<1>. QED BY <1>1, Numbers DEF Region

-----------------------------------------------------------------------------
(* A new block behind the last. *)

Extended(scm, n) ==
  LET p == scm.utilized + Header
  IN  [utilized |-> p + n,
       block |-> [q \in Blocks(scm) \cup {p} |->
                    IF q = p THEN [used |-> TRUE, n |-> n] ELSE scm.block[q]]]

LEMMA ExtendedIs ==
  ASSUME NEW scm, Region(scm), NEW n \in Nat,
         NEW x, x = Extended(scm, n), NEW p, p = scm.utilized + Header
  PROVE  /\ x.utilized = p + n /\ p \in Nat /\ p \notin Blocks(scm)
         /\ Blocks(x) = Blocks(scm) \cup {p}
         /\ x.block[p] = [used |-> TRUE, n |-> n]
         /\ \A q \in Blocks(scm) : x.block[q] = scm.block[q] /\ q < p
         /\ x = [utilized |-> x.utilized, block |-> x.block]
<1>1. scm.utilized \in Nat BY Numbers DEF Region
<1>2. \A q \in Blocks(scm) : q < p BY <1>1, BlockIs, Numbers
<1>3. p \in Nat /\ p \notin Blocks(scm) BY <1>1, <1>2, Numbers
<1>4. /\ x.utilized = p + n
      /\ x.block = [q \in Blocks(scm) \cup {p} |->
                      IF q = p THEN [used |-> TRUE, n |-> n] ELSE scm.block[q]]
      /\ x = [utilized |-> x.utilized, block |-> x.block]
  BY DEF Extended
<1>. QED BY <1>2, <1>3, <1>4 DEF Blocks

LEMMA ExtendedRegion ==
  ASSUME NEW scm, Region(scm), NEW n \in Nat, HasRoom(scm, n)
  PROVE  Region(Extended(scm, n))
<1>. DEFINE x == Extended(scm, n)
            p == scm.utilized + Header
<1>1. /\ x.utilized = p + n /\ p \in Nat /\ p \notin Blocks(scm)
      /\ Blocks(x) = Blocks(scm) \cup {p}
      /\ x.block[p] = [used |-> TRUE, n |-> n]
      /\ \A q \in Blocks(scm) : x.block[q] = scm.block[q] /\ q < p
      /\ x = [utilized |-> x.utilized, block |-> x.block]
  BY ExtendedIs
<1>2. scm.utilized \in Nat /\ p = scm.utilized + Header BY Numbers DEF Region
<1>3. x.utilized \in 0 .. Capacity
  BY <1>1, <1>2, Numbers DEF HasRoom
<1>4. x.block \in [Blocks(x) -> [used : BOOLEAN, n : Nat]]
  BY DEF x, Extended, Blocks, Region
<1>. HIDE DEF x, p
<1>5. x.block[p].n = n /\ \A q \in Blocks(scm) : x.block[q].n = scm.block[q].n
  BY <1>1
<1>6. \A q \in Blocks(x) : Header <= q /\ q + x.block[q].n <= x.utilized
  BY <1>1, <1>2, <1>5, BlockIs, Numbers
<1>7. Tiled(x)
  <2>1. scm_mbase \in Blocks(x)
    <3>1. CASE scm.utilized = 0 BY <1>1, <1>2, <3>1, Numbers DEF scm_mbase
    <3>2. CASE scm.utilized # 0 BY <1>1, <3>2 DEF Region, Tiled
    <3>. QED BY <3>1, <3>2
  <2>2. ASSUME NEW q \in Blocks(x)
        PROVE  q + x.block[q].n = x.utilized
               \/ q + x.block[q].n + Header \in Blocks(x)
    <3>1. CASE q = p BY <1>1, <1>5, <3>1
    <3>2. CASE q \in Blocks(scm)
      <4>1. \/ q + scm.block[q].n = scm.utilized
            \/ q + scm.block[q].n + Header \in Blocks(scm)
        BY <3>2 DEF Region, Tiled
      <4>. QED BY <1>1, <1>2, <1>5, <3>2, <4>1
    <3>. QED BY <1>1, <3>1, <3>2
  <2>3. ASSUME NEW q \in Blocks(x), NEW r \in Blocks(x), q < r
        PROVE  q + x.block[q].n + Header <= r
    <3>1. q \in Nat /\ r \in Nat BY <1>1, BlockIs
    <3>2. q \in Blocks(scm) BY <1>1, <2>3, <3>1, SMT
    <3>3. CASE r = p
      <4>1. q + scm.block[q].n <= scm.utilized /\ scm.block[q].n \in Nat
        BY <3>2, BlockIs
      <4>2. x.block[q].n = scm.block[q].n BY <1>5, <3>2
      <4>. QED BY <1>2, <3>1, <3>3, <4>1, <4>2, Numbers
    <3>4. CASE r \in Blocks(scm)
      <4>1. q + scm.block[q].n + Header <= r
        BY <2>3, <3>2, <3>4 DEF Region, Tiled
      <4>. QED BY <1>5, <3>2, <4>1
    <3>. QED BY <1>1, <3>3, <3>4
  <2>. QED BY <2>1, <2>2, <2>3 DEF Tiled
<1>8. Blocks(x) \subseteq Nat BY <1>1 DEF Region
<1>9. Region(x) BY <1>1, <1>3, <1>4, <1>6, <1>7, <1>8 DEF Region
<1>. QED BY <1>9 DEF x

-----------------------------------------------------------------------------
(* A block that is taken, or given back. *)

Marked(scm, p, u) == [scm EXCEPT !.block[p].used = u]

(* x is scm with the mark of p set to u. *)
IsMarked(x, scm, p, u) ==
  /\ x.utilized = scm.utilized /\ Blocks(x) = Blocks(scm)
  /\ x.block[p].used = u /\ x.block[p].n = scm.block[p].n
  /\ \A q \in Blocks(scm) : x.block[q].n = scm.block[q].n
  /\ \A q \in Blocks(scm) \ {p} : x.block[q] = scm.block[q]
  /\ x.block \in [Blocks(x) -> [used : BOOLEAN, n : Nat]]
  /\ x = [utilized |-> x.utilized, block |-> x.block]

LEMMA MarkedIs ==
  ASSUME NEW scm, Region(scm), NEW p \in Blocks(scm), NEW u \in BOOLEAN
  PROVE  IsMarked(Marked(scm, p, u), scm, p, u)
<1>. DEFINE x == Marked(scm, p, u)
<1>. DEFINE b == [used |-> u, n |-> scm.block[p].n]
<1>1. scm.block \in [Blocks(scm) -> [used : BOOLEAN, n : Nat]] BY DEF Region
<1>2. scm.block[p] \in [used : BOOLEAN, n : Nat] BY <1>1
<1>3. [scm.block[p] EXCEPT !.used = u] = b BY <1>2
<1>4. x = [utilized |-> scm.utilized,
           block |-> [scm.block EXCEPT ![p] = b]]
  BY <1>3 DEF Marked, Region, x
<1>5. b \in [used : BOOLEAN, n : Nat] /\ b.used = u /\ b.n = scm.block[p].n
  BY <1>2
<1>. HIDE DEF b, x
<1>6. x.utilized = scm.utilized /\ x.block = [scm.block EXCEPT ![p] = b]
  BY <1>4
<1>7. Blocks(x) = Blocks(scm) BY <1>1, <1>6 DEF Blocks
<1>8. IsMarked(x, scm, p, u) BY <1>1, <1>4, <1>5, <1>6, <1>7 DEF IsMarked
<1>. QED BY <1>8 DEF x

LEMMA MarkedRegion ==
  ASSUME NEW scm, Region(scm), NEW p \in Blocks(scm), NEW u \in BOOLEAN
  PROVE  Region(Marked(scm, p, u))
<1>. DEFINE x == Marked(scm, p, u)
<1>1. /\ x.utilized = scm.utilized /\ Blocks(x) = Blocks(scm)
      /\ \A q \in Blocks(scm) : x.block[q].n = scm.block[q].n
      /\ x.block \in [Blocks(x) -> [used : BOOLEAN, n : Nat]]
      /\ x = [utilized |-> x.utilized, block |-> x.block]
  BY MarkedIs DEF IsMarked
<1>. HIDE DEF x
<1>2. Tiled(x) BY <1>1 DEF Region, Tiled
<1>3. Region(x) BY <1>1, <1>2 DEF Region
<1>. QED BY <1>3 DEF x

-----------------------------------------------------------------------------
(* The first of the free blocks. *)

LEMMA LeastOf ==
  ASSUME NEW S, S \subseteq Nat, S # {}
  PROVE  \E x \in S : \A y \in S : x <= y
<1>. DEFINE R == {ss \in Nat \X Nat : ss[1] < ss[2]}
<1>1. IsWellFoundedOn(R, Nat) BY NatLessThanWellFounded DEF OpToRel
<1>. HIDE DEF R
<1>2. \E x \in S : \A y \in S : <<y, x>> \notin R BY <1>1, WFMin
<1>3. \A x, y \in Nat : <<y, x>> \notin R => x <= y BY SMT DEF R
<1>. QED BY <1>2, <1>3

LEMMA FirstIs ==
  ASSUME NEW scm, Region(scm), NEW free, free \subseteq Blocks(scm), free # {}
  PROVE  LET a == FirstOf(scm, free)
         IN  a.p \in free /\ a.scm = Marked(scm, a.p, TRUE)
<1>. DEFINE p == CHOOSE q \in free : \A r \in free : q <= r
<1>1. \E q \in free : \A r \in free : q <= r BY LeastOf DEF Region
<1>2. p \in free BY <1>1
<1>3. FirstOf(scm, free) = [p |-> p, scm |-> Marked(scm, p, TRUE)]
  BY DEF FirstOf, Marked
<1>. QED BY <1>2, <1>3

-----------------------------------------------------------------------------
(* What is promised. *)

(* scm_open() with truncation makes a region without blocks.               *)
THEOREM NewRegion == Region(NoBlocks)
<1>1. Blocks(NoBlocks) = {} /\ NoBlocks.utilized = 0 BY DEF NoBlocks, Blocks
<1>2. NoBlocks.block \in [Blocks(NoBlocks) -> [used : BOOLEAN, n : Nat]]
  BY DEF NoBlocks, Blocks
<1>. QED BY <1>1, <1>2, Numbers DEF NoBlocks, Region, Tiled

(* The memory of a block, with its header, is the block's own.             *)
THEOREM ExtentsAreDisjoint ==
  ASSUME NEW scm, Region(scm), NEW p \in Blocks(scm), NEW q \in Blocks(scm),
         p # q
  PROVE  Extent(scm, p) \cap Extent(scm, q) = {}
<1>1. /\ p \in Nat /\ q \in Nat
      /\ scm.block[p].n \in Nat /\ scm.block[q].n \in Nat
  BY BlockIs
<1>2. /\ p < q => p + scm.block[p].n + Header <= q
      /\ q < p => q + scm.block[q].n + Header <= p
  BY DEF Region, Tiled
<1>. QED BY <1>1, <1>2, Numbers DEF Extent

(* scm_malloc() (scm.c:132) keeps the region in blocks and, when it does   *)
(* not return NULL, returns a block of at least n bytes that was not in    *)
(* use; no other block changes, and none goes away.                        *)
THEOREM MallocGivesOnce ==
  ASSUME NEW scm, Region(scm), NEW n \in Nat
  PROVE  LET a == scm_malloc(scm, n)
         IN  /\ Region(a.scm)
             /\ a.p = NULL => a.scm = scm
             /\ a.p # NULL =>
                  /\ a.p \in Blocks(a.scm)
                  /\ a.scm.block[a.p].used /\ n <= a.scm.block[a.p].n
                  /\ a.p \in Blocks(scm) => ~scm.block[a.p].used
             /\ \A q \in Blocks(scm) \ {a.p} :
                  q \in Blocks(a.scm) /\ a.scm.block[q] = scm.block[q]
<1>. DEFINE a == scm_malloc(scm, n)
            free == Fitting(scm, n)
<1>1. CASE HasRoom(scm, n)
  <2>. DEFINE p == scm.utilized + Header
              x == Extended(scm, n)
  <2>1. a = [p |-> p, scm |-> x] BY <1>1 DEF scm_malloc, Extended
  <2>2. a.p = p /\ a.scm = x BY <2>1
  <2>3. /\ p \in Nat /\ p \notin Blocks(scm) /\ Blocks(x) = Blocks(scm) \cup {p}
        /\ x.block[p] = [used |-> TRUE, n |-> n]
        /\ \A q \in Blocks(scm) : x.block[q] = scm.block[q]
    BY ExtendedIs
  <2>4. p # NULL
    <3>1. scm.utilized \in Nat BY Numbers DEF Region
    <3>. QED BY <3>1, Numbers DEF NULL
  <2>5. Region(x) BY <1>1, ExtendedRegion
  <2>. HIDE DEF p, x
  <2>6. x.block[p].used /\ x.block[p].n = n BY <2>3
  <2>. QED BY <2>2, <2>3, <2>4, <2>5, <2>6
<1>2. CASE ~HasRoom(scm, n) /\ free = {}
  <2>1. a = [p |-> NULL, scm |-> scm] BY <1>2 DEF scm_malloc, FirstOf
  <2>. QED BY <2>1
<1>3. CASE ~HasRoom(scm, n) /\ free # {}
  <2>1. free \subseteq Blocks(scm)
        /\ \A q \in free : ~scm.block[q].used /\ scm.block[q].n >= n
    BY DEF Fitting
  <2>2. a = FirstOf(scm, free) BY <1>3 DEF scm_malloc
  <2>3. a.p \in free /\ a.scm = Marked(scm, a.p, TRUE)
    BY <1>3, <2>1, <2>2, FirstIs
  <2>. HIDE DEF a, free
  <2>4. a.p \in Blocks(scm) /\ ~scm.block[a.p].used /\ scm.block[a.p].n >= n
    BY <2>1, <2>3
  <2>5. a.p # NULL BY <2>4, BlockIs, Numbers DEF NULL
  <2>6. /\ Blocks(a.scm) = Blocks(scm) /\ a.scm.block[a.p].used
        /\ a.scm.block[a.p].n = scm.block[a.p].n
        /\ \A q \in Blocks(scm) \ {a.p} : a.scm.block[q] = scm.block[q]
    <3>1. IsMarked(a.scm, scm, a.p, TRUE) BY <2>3, <2>4, MarkedIs
    <3>. QED BY <3>1 DEF IsMarked
  <2>7. Region(a.scm) BY <2>3, <2>4, MarkedRegion
  <2>8. n <= a.scm.block[a.p].n BY <2>4, <2>6, BlockIs
  <2>9. /\ Region(a.scm)
        /\ a.p = NULL => a.scm = scm
        /\ a.p # NULL =>
             /\ a.p \in Blocks(a.scm)
             /\ a.scm.block[a.p].used /\ n <= a.scm.block[a.p].n
             /\ a.p \in Blocks(scm) => ~scm.block[a.p].used
        /\ \A q \in Blocks(scm) \ {a.p} :
             q \in Blocks(a.scm) /\ a.scm.block[q] = scm.block[q]
    BY <2>4, <2>5, <2>6, <2>7, <2>8
  <2>. QED BY <2>9 DEF a
<1>. QED BY <1>1, <1>2, <1>3

(* scm_free() (scm.c:178) keeps the region in blocks of the same sizes and *)
(* changes no other.                                                       *)
THEOREM FreeKeepsBlocks ==
  ASSUME NEW scm, Region(scm), NEW p \in Blocks(scm)
  PROVE  LET x == scm_free(scm, p)
         IN  /\ Region(x) /\ Blocks(x) = Blocks(scm)
             /\ ~x.block[p].used /\ x.block[p].n = scm.block[p].n
             /\ \A q \in Blocks(scm) \ {p} : x.block[q] = scm.block[q]
<1>. DEFINE x == scm_free(scm, p)
<1>1. x = Marked(scm, p, FALSE) BY DEF scm_free, Marked
<1>2. Region(x) BY <1>1, MarkedRegion
<1>. HIDE DEF x
<1>3. /\ Blocks(x) = Blocks(scm)
      /\ x.block[p].used = FALSE /\ x.block[p].n = scm.block[p].n
      /\ \A q \in Blocks(scm) \ {p} : x.block[q] = scm.block[q]
  <2>1. IsMarked(x, scm, p, FALSE) BY <1>1, MarkedIs
  <2>. QED BY <2>1 DEF IsMarked
<1>4. /\ Region(x) /\ Blocks(x) = Blocks(scm)
      /\ ~x.block[p].used /\ x.block[p].n = scm.block[p].n
      /\ \A q \in Blocks(scm) \ {p} : x.block[q] = scm.block[q]
  BY <1>2, <1>3
<1>. QED BY <1>4 DEF x

(* The bound of the scan (scm.c:140) loses no memory but a word: with more *)
(* than that asked for, scm_malloc() returns NULL only if neither the rest *)
(* of the region nor a free block has room.                                *)
THEOREM NullWhenFull ==
  ASSUME NEW scm, Region(scm), NEW n \in Nat, SizeT < n,
         scm_malloc(scm, n).p = NULL
  PROVE  /\ ~HasRoom(scm, n)
         /\ \A q \in Blocks(scm) : scm.block[q].used \/ scm.block[q].n < n
<1>. DEFINE free == Fitting(scm, n)
<1>1. ~HasRoom(scm, n)
  <2>1. SUFFICES ASSUME HasRoom(scm, n) PROVE FALSE OBVIOUS
  <2>2. scm_malloc(scm, n).p = scm.utilized + Header BY <2>1 DEF scm_malloc
  <2>3. scm.utilized \in Nat BY Numbers DEF Region
  <2>. QED BY <2>2, <2>3, Numbers DEF NULL
<1>2. free = {}
  <2>1. SUFFICES ASSUME free # {} PROVE FALSE OBVIOUS
  <2>2. free \subseteq Blocks(scm) BY DEF Fitting
  <2>3. scm_malloc(scm, n) = FirstOf(scm, free) BY <1>1 DEF scm_malloc
  <2>4. FirstOf(scm, free).p \in free BY <2>1, <2>2, FirstIs
  <2>. HIDE DEF free
  <2>5. NULL \in Blocks(scm) BY <2>2, <2>3, <2>4
  <2>. QED BY <2>5, BlockIs, Numbers DEF NULL
<1>3. ASSUME NEW q \in Blocks(scm), ~scm.block[q].used, ~(scm.block[q].n < n)
      PROVE  FALSE
  <2>1. /\ q \in Nat /\ scm.block[q].n \in Nat /\ scm.utilized \in Nat
        /\ q + scm.block[q].n <= scm.utilized /\ scm.utilized <= Capacity
    BY BlockIs
  <2>2. scm.block[q].n >= n /\ q - Header < Capacity - Header - SizeT
    BY <1>3, <2>1, Numbers
  <2>. QED BY <1>2, <1>3, <2>2 DEF Fitting
<1>. QED BY <1>1, <1>3

(* Only the last block ends after the mapping, by a word at most.          *)
THEOREM LastOverruns ==
  ASSUME NEW scm, Region(scm), NEW p \in Blocks(scm), Overruns(scm, p)
  PROVE  /\ p + scm.block[p].n = scm.utilized
         /\ p + scm.block[p].n - (Capacity - SizeT) <= SizeT
<1>1. /\ p \in Nat /\ scm.block[p].n \in Nat /\ scm.utilized \in Nat
      /\ p + scm.block[p].n <= scm.utilized /\ scm.utilized <= Capacity
  BY BlockIs
<1>2. p + scm.block[p].n + Header \notin Blocks(scm)
  <2>1. SUFFICES ASSUME p + scm.block[p].n + Header \in Blocks(scm)
                 PROVE  FALSE
    OBVIOUS
  <2>2. p + scm.block[p].n + Header <= Capacity
    <3>. DEFINE q == p + scm.block[p].n + Header
    <3>1. q \in Nat /\ scm.block[q].n \in Nat
          /\ q + scm.block[q].n <= scm.utilized
      BY <2>1, BlockIs
    <3>. HIDE DEF q
    <3>2. q <= Capacity BY <1>1, <3>1, Numbers
    <3>. QED BY <3>2 DEF q
  <2>. QED BY <1>1, <2>2, Numbers DEF Overruns
<1>3. p + scm.block[p].n = scm.utilized BY <1>2 DEF Region, Tiled
<1>. QED BY <1>1, <1>3, Numbers

-----------------------------------------------------------------------------
(* Nodes *)

(* Nodes at addresses other than NULL, whose children are among them.      *)
Node(S) ==
  [depth : Nat, count : Nat, item : Nat,
   left : S \cup {NULL}, right : S \cup {NULL}]

Graph(node) ==
  /\ DOMAIN node \subseteq Nat \ {0}
  /\ node \in [DOMAIN node -> Node(DOMAIN node)]

(* The nodes below a, without recursion: those that are in every set of    *)
(* nodes that has a and is closed under children.                          *)
Closed(node, S) ==
  /\ S \subseteq DOMAIN node
  /\ \A b \in S : /\ node[b].left \in S \cup {NULL}
                  /\ node[b].right \in S \cup {NULL}

Sub(node, a) ==
  {b \in DOMAIN node :
     /\ a # NULL
     /\ \A S \in SUBSET DOMAIN node : a \in S /\ Closed(node, S) => b \in S}

LEMMA GraphIs ==
  ASSUME NEW node, Graph(node), NEW b \in DOMAIN node
  PROVE  /\ b \in Nat /\ b # NULL
         /\ node[b] \in Node(DOMAIN node)
         /\ node[b].left \in Places(node) /\ node[b].right \in Places(node)
         /\ node[b].depth \in Nat /\ node[b].count \in Nat
         /\ node[b].item \in Nat
<1>1. node[b] \in Node(DOMAIN node) BY DEF Graph
<1>2. b \in Nat \ {0} BY DEF Graph
<1>. QED BY <1>1, <1>2 DEF Node, Places, NULL

LEMMA NullIsNone == ASSUME NEW node, Graph(node) PROVE NULL \notin DOMAIN node
BY DEF Graph, NULL

LEMMA SubNull == ASSUME NEW node PROVE Sub(node, NULL) = {}
BY DEF Sub

LEMMA SubIn == ASSUME NEW node, NEW a PROVE Sub(node, a) \subseteq DOMAIN node
BY DEF Sub

LEMMA SubSelf ==
  ASSUME NEW node, Graph(node), NEW a \in DOMAIN node
  PROVE  a \in Sub(node, a)
BY GraphIs DEF Sub

LEMMA SubLeast ==
  ASSUME NEW node, NEW S, Closed(node, S), NEW a \in S \cup {NULL}
  PROVE  Sub(node, a) \subseteq S
<1>1. S \in SUBSET DOMAIN node BY DEF Closed
<1>2. CASE a = NULL BY <1>2, SubNull
<1>3. CASE a \in S BY <1>1, <1>3 DEF Sub
<1>. QED BY <1>2, <1>3

LEMMA SubClosed ==
  ASSUME NEW node, Graph(node), NEW a
  PROVE  Closed(node, Sub(node, a))
<1>. SUFFICES ASSUME NEW b \in Sub(node, a)
              PROVE  /\ node[b].left \in Sub(node, a) \cup {NULL}
                     /\ node[b].right \in Sub(node, a) \cup {NULL}
  BY SubIn DEF Closed
<1>1. b \in DOMAIN node /\ a # NULL BY DEF Sub
<1>2. node[b].left \in Places(node) /\ node[b].right \in Places(node)
  BY <1>1, GraphIs
<1>3. ASSUME NEW S \in SUBSET DOMAIN node, a \in S, Closed(node, S)
      PROVE  node[b].left \in S \cup {NULL} /\ node[b].right \in S \cup {NULL}
  <2>1. b \in S BY <1>3 DEF Sub
  <2>. QED BY <1>3, <2>1 DEF Closed
<1>4. CASE node[b].left # NULL BY <1>1, <1>2, <1>3, <1>4 DEF Sub, Places
<1>. QED BY <1>1, <1>2, <1>3 DEF Sub, Places

LEMMA SubTransitive ==
  ASSUME NEW node, Graph(node), NEW a, NEW b \in Sub(node, a)
  PROVE  /\ Sub(node, b) \subseteq Sub(node, a)
         /\ Sub(node, node[b].left) \subseteq Sub(node, a)
         /\ Sub(node, node[b].right) \subseteq Sub(node, a)
<1>1. Closed(node, Sub(node, a)) BY SubClosed
<1>2. /\ node[b].left \in Sub(node, a) \cup {NULL}
      /\ node[b].right \in Sub(node, a) \cup {NULL}
  BY <1>1 DEF Closed
<1>. QED BY <1>1, <1>2, SubLeast

(* The nodes below a are a and those below its children. *)
LEMMA SubUnfold ==
  ASSUME NEW node, Graph(node), NEW a \in DOMAIN node
  PROVE  Sub(node, a) = {a} \cup Sub(node, node[a].left)
                            \cup Sub(node, node[a].right)
<1>. DEFINE l == node[a].left
            r == node[a].right
            S == {a} \cup Sub(node, l) \cup Sub(node, r)
<1>1. a \in Sub(node, a) BY SubSelf
<1>2. S \subseteq Sub(node, a) BY <1>1, SubTransitive
<1>3. l \in Places(node) /\ r \in Places(node) BY GraphIs
<1>4. /\ l \in Sub(node, l) \cup {NULL}
      /\ r \in Sub(node, r) \cup {NULL}
  BY <1>3, SubSelf DEF Places
<1>5. Closed(node, Sub(node, l)) /\ Closed(node, Sub(node, r)) BY SubClosed
<1>6. Closed(node, S)
  <2>1. S \subseteq DOMAIN node BY SubIn
  <2>2. ASSUME NEW b \in S
        PROVE  node[b].left \in S \cup {NULL} /\ node[b].right \in S \cup {NULL}
    <3>1. CASE b = a BY <1>4, <3>1
    <3>2. CASE b \in Sub(node, l) BY <1>5, <3>2 DEF Closed
    <3>3. CASE b \in Sub(node, r) BY <1>5, <3>3 DEF Closed
    <3>. QED BY <2>2, <3>1, <3>2, <3>3
  <2>. QED BY <2>1, <2>2 DEF Closed
<1>. HIDE DEF l, r
<1>7. a \in S OBVIOUS
<1>. HIDE DEF S
<1>8. Sub(node, a) \subseteq S BY <1>6, <1>7, SubLeast
<1>9. Sub(node, a) = S BY <1>2, <1>8
<1>. QED BY <1>9 DEF S, l, r

-----------------------------------------------------------------------------
(* Balanced search trees *)

Key(node, word, b) == word[node[b].item]

Level(node, b) ==
  /\ node[b].depth = depth(node, node[b].left, node[b].right)
  /\ balance(node, b) \in -1 .. 1

Ordered(node, word, b) ==
  /\ \A c \in Sub(node, node[b].left) : Key(node, word, c) < Key(node, word, b)
  /\ \A c \in Sub(node, node[b].right) : Key(node, word, b) < Key(node, word, c)

AVL(node, word, a) ==
  \A b \in Sub(node, a) : Level(node, b) /\ Ordered(node, word, b)

(* x has the nodes S with the children, the depths and the words that node *)
(* gives them.                                                             *)
Same(node, word, x, new, S) ==
  \A b \in S : /\ b \in DOMAIN x
               /\ x[b].left = node[b].left /\ x[b].right = node[b].right
               /\ x[b].depth = node[b].depth
               /\ Key(x, new, b) = Key(node, word, b)

LEMMA SubSame ==
  ASSUME NEW node, Graph(node), NEW x, Graph(x), NEW a \in Places(node),
         NEW word, NEW new, Same(node, word, x, new, Sub(node, a))
  PROVE  Sub(x, a) = Sub(node, a)
<1>. DEFINE S == Sub(node, a)
<1>1. a \in S \cup {NULL} BY SubSelf DEF Places
<1>2. Closed(node, S) BY SubClosed
<1>3. Closed(x, S) BY <1>2 DEF Closed, Same
<1>4. Sub(x, a) \subseteq S BY <1>1, <1>3, SubLeast
<1>5. Closed(x, Sub(x, a)) BY SubClosed
<1>6. a \in Sub(x, a) \cup {NULL}
  <2>1. CASE a = NULL BY <2>1
  <2>2. CASE a \in S BY <2>2, SubSelf DEF Same
  <2>. QED BY <1>1, <2>1, <2>2
<1>7. Closed(node, Sub(x, a))
  <2>1. Sub(x, a) \subseteq DOMAIN node BY <1>4, SubIn
  <2>2. \A b \in Sub(x, a) :
          node[b].left = x[b].left /\ node[b].right = x[b].right
    BY <1>4 DEF Same
  <2>. QED BY <1>5, <2>1, <2>2 DEF Closed
<1>8. S \subseteq Sub(x, a) BY <1>6, <1>7, SubLeast
<1>. QED BY <1>4, <1>8

LEMMA DeltaSame ==
  ASSUME NEW node, Graph(node), NEW x, NEW a \in Places(node),
         NEW word, NEW new, Same(node, word, x, new, Sub(node, a))
  PROVE  delta(x, a) = delta(node, a)
<1>1. CASE a = NULL BY <1>1 DEF delta
<1>2. CASE a \in DOMAIN node
  <2>1. a \in Sub(node, a) /\ a # NULL BY <1>2, SubSelf, NullIsNone
  <2>. QED BY <2>1 DEF Same, delta
<1>. QED BY <1>1, <1>2 DEF Places

(* A tree is what its nodes are, wherever else something changes. *)
LEMMA AVLSame ==
  ASSUME NEW node, Graph(node), NEW x, Graph(x), NEW a \in Places(node),
         NEW word, NEW new, Same(node, word, x, new, Sub(node, a)),
         AVL(node, word, a)
  PROVE  AVL(x, new, a)
<1>1. Sub(x, a) = Sub(node, a) BY SubSame
<1>. SUFFICES ASSUME NEW b \in Sub(node, a)
              PROVE  Level(x, b) /\ Ordered(x, new, b)
  BY <1>1 DEF AVL
<1>. DEFINE l == node[b].left
            r == node[b].right
<1>2. b \in DOMAIN node BY SubIn
<1>3. l \in Places(node) /\ r \in Places(node) BY <1>2, GraphIs
<1>4. Sub(node, l) \subseteq Sub(node, a) /\ Sub(node, r) \subseteq Sub(node, a)
  BY SubTransitive
<1>5. /\ Same(node, word, x, new, Sub(node, l))
      /\ Same(node, word, x, new, Sub(node, r))
  BY <1>4 DEF Same
<1>6. /\ Sub(x, l) = Sub(node, l) /\ Sub(x, r) = Sub(node, r)
      /\ delta(x, l) = delta(node, l) /\ delta(x, r) = delta(node, r)
  BY <1>3, <1>5, SubSame, DeltaSame
<1>7. /\ x[b].left = l /\ x[b].right = r /\ x[b].depth = node[b].depth
      /\ Key(x, new, b) = Key(node, word, b)
  BY DEF Same
<1>8. Level(node, b) /\ Ordered(node, word, b) BY DEF AVL
<1>9. Level(x, b) BY <1>6, <1>7, <1>8 DEF Level, depth, balance
<1>10. Ordered(x, new, b)
  <2>1. \A c \in Sub(node, l) \cup Sub(node, r) :
          Key(x, new, c) = Key(node, word, c)
    BY <1>5 DEF Same
  <2>. QED BY <1>6, <1>7, <1>8, <2>1 DEF Ordered
<1>. QED BY <1>9, <1>10

LEMMA AVLNull == ASSUME NEW node, NEW word PROVE AVL(node, word, NULL)
BY SubNull DEF AVL

(* Two trees under a node that lies between them are a tree. *)
LEMMA AVLBuild ==
  ASSUME NEW node, Graph(node), NEW word, NEW a \in DOMAIN node,
         AVL(node, word, node[a].left), AVL(node, word, node[a].right),
         Level(node, a), Ordered(node, word, a)
  PROVE  AVL(node, word, a)
<1>1. Sub(node, a) = {a} \cup Sub(node, node[a].left)
                         \cup Sub(node, node[a].right)
  BY SubUnfold
<1>. QED BY <1>1 DEF AVL

LEMMA AVLOpen ==
  ASSUME NEW node, Graph(node), NEW word, NEW a \in DOMAIN node,
         AVL(node, word, a)
  PROVE  /\ AVL(node, word, node[a].left) /\ AVL(node, word, node[a].right)
         /\ Level(node, a) /\ Ordered(node, word, a)
<1>1. Sub(node, a) = {a} \cup Sub(node, node[a].left)
                         \cup Sub(node, node[a].right)
  BY SubUnfold
<1>. QED BY <1>1 DEF AVL

(* The words are numbers. *)
Spelt(node, word, S) == \A b \in S : Key(node, word, b) \in Nat

(* A node between two trees is in neither, and they have none in common. *)
LEMMA Apart ==
  ASSUME NEW node, Graph(node), NEW word, NEW a \in DOMAIN node,
         Ordered(node, word, a), Spelt(node, word, Sub(node, a))
  PROVE  /\ a \notin Sub(node, node[a].left)
         /\ a \notin Sub(node, node[a].right)
         /\ Sub(node, node[a].left) \cap Sub(node, node[a].right) = {}
<1>1. Sub(node, a) = {a} \cup Sub(node, node[a].left)
                         \cup Sub(node, node[a].right)
  BY SubUnfold
<1>2. \A b \in Sub(node, a) : Key(node, word, b) \in Nat BY DEF Spelt
<1>3. ASSUME NEW b, b \in Sub(node, node[a].left),
             b \in Sub(node, node[a].right)
      PROVE  FALSE
  <2>1. /\ Key(node, word, b) < Key(node, word, a)
        /\ Key(node, word, a) < Key(node, word, b)
    BY <1>3 DEF Ordered
  <2>. QED BY <1>1, <1>2, <1>3, <2>1
<1>4. ~(Key(node, word, a) < Key(node, word, a)) BY <1>1, <1>2
<1>5. a \notin Sub(node, node[a].left) BY <1>4 DEF Ordered
<1>6. a \notin Sub(node, node[a].right) BY <1>4 DEF Ordered
<1>. QED BY <1>3, <1>5, <1>6

-----------------------------------------------------------------------------
(* Changes that keep what lies apart *)

LEMMA DeltaIs ==
  ASSUME NEW node, Graph(node), NEW a \in Places(node)
  PROVE  /\ delta(node, a) \in Int /\ delta(node, a) >= -1
         /\ a # NULL => a \in DOMAIN node /\ delta(node, a) = node[a].depth
                        /\ delta(node, a) >= 0
<1>1. CASE a = NULL BY <1>1 DEF delta
<1>2. CASE a \in DOMAIN node
  <2>1. node[a].depth \in Nat /\ a # NULL BY <1>2, GraphIs
  <2>. QED BY <1>2, <2>1 DEF delta
<1>. QED BY <1>1, <1>2 DEF Places

LEMMA LevelIs ==
  ASSUME NEW node, Graph(node), NEW b \in DOMAIN node, Level(node, b)
  PROVE  LET dl == delta(node, node[b].left)
             dr == delta(node, node[b].right)
             d  == delta(node, b)
         IN  /\ dl \in Int /\ dr \in Int /\ d \in Int /\ dl >= -1 /\ dr >= -1
             /\ balance(node, b) = dl - dr
             /\ \/ dl = dr /\ d = dl + 1
                \/ dl = dr + 1 /\ d = dl + 1
                \/ dr = dl + 1 /\ d = dr + 1
<1>1. node[b].left \in Places(node) /\ node[b].right \in Places(node)
      /\ b \in Places(node) /\ b # NULL
  BY GraphIs DEF Places
<1>. DEFINE dl == delta(node, node[b].left)
            dr == delta(node, node[b].right)
<1>2. dl \in Int /\ dr \in Int /\ dl >= -1 /\ dr >= -1 BY <1>1, DeltaIs
<1>3. delta(node, b) = node[b].depth BY <1>1, DeltaIs
<1>4. /\ node[b].depth = IF dl > dr THEN dl + 1 ELSE dr + 1
      /\ dl - dr \in -1 .. 1
  BY DEF Level, depth, balance
<1>5. balance(node, b) = dl - dr BY DEF balance
<1>. HIDE DEF dl, dr
<1>6. \/ dl = dr /\ delta(node, b) = dl + 1
      \/ dl = dr + 1 /\ delta(node, b) = dl + 1
      \/ dr = dl + 1 /\ delta(node, b) = dr + 1
  BY <1>2, <1>3, <1>4
<1>7. delta(node, b) \in Int BY <1>2, <1>6
<1>. QED BY <1>2, <1>5, <1>6, <1>7 DEF dl, dr

-----------------------------------------------------------------------------
(* What the assignments to nodes do *)

(* x is node with other children and depths for the nodes S. *)
Kept(node, x, S) ==
  /\ Graph(x) /\ DOMAIN x = DOMAIN node
  /\ \A b \in DOMAIN node :
       x[b].count = node[b].count /\ x[b].item = node[b].item
  /\ \A b \in DOMAIN node \ S : x[b] = node[b]

(* x is node but for a, which has these fields. *)
Holds(node, x, a, d, l, r) ==
  /\ Kept(node, x, {a})
  /\ x[a].depth = d /\ x[a].left = l /\ x[a].right = r

SetLeft(node, a, c) == [node EXCEPT ![a].left = c]
SetRight(node, a, c) == [node EXCEPT ![a].right = c]

LEMMA HoldsIf ==
  ASSUME NEW node, Graph(node), NEW a \in DOMAIN node, NEW d \in Nat,
         NEW l \in Places(node), NEW r \in Places(node), NEW x,
         x = [node EXCEPT ![a] = [depth |-> d, count |-> node[a].count,
                                  item |-> node[a].item, left |-> l,
                                  right |-> r]]
  PROVE  Holds(node, x, a, d, l, r)
<1>. DEFINE n == [depth |-> d, count |-> node[a].count,
                  item |-> node[a].item, left |-> l, right |-> r]
<1>1. n \in Node(DOMAIN node) BY GraphIs DEF Node, Places
<1>2. n.depth = d /\ n.count = node[a].count /\ n.item = node[a].item
      /\ n.left = l /\ n.right = r
  OBVIOUS
<1>3. x = [node EXCEPT ![a] = n] OBVIOUS
<1>. HIDE DEF n
<1>4. /\ node \in [DOMAIN node -> Node(DOMAIN node)]
      /\ DOMAIN node \subseteq Nat \ {0}
  BY DEF Graph
<1>5. x \in [DOMAIN node -> Node(DOMAIN node)] /\ DOMAIN x = DOMAIN node
      /\ x[a] = n /\ \A b \in DOMAIN node \ {a} : x[b] = node[b]
  BY <1>1, <1>3, <1>4
<1>6. Graph(x) BY <1>4, <1>5 DEF Graph
<1>7. \A b \in DOMAIN node :
        x[b].count = node[b].count /\ x[b].item = node[b].item
  BY <1>2, <1>5
<1>. QED BY <1>2, <1>5, <1>6, <1>7 DEF Holds, Kept

LEMMA FieldsOf ==
  ASSUME NEW node, Graph(node), NEW a \in DOMAIN node
  PROVE  node[a] = [depth |-> node[a].depth, count |-> node[a].count,
                    item |-> node[a].item, left |-> node[a].left,
                    right |-> node[a].right]
BY GraphIs DEF Node

LEMMA SetLeftIs ==
  ASSUME NEW node, Graph(node), NEW a \in DOMAIN node, NEW c \in Places(node)
  PROVE  Holds(node, SetLeft(node, a, c), a, node[a].depth, c, node[a].right)
<1>1. [node[a] EXCEPT !.left = c] =
        [depth |-> node[a].depth, count |-> node[a].count,
         item |-> node[a].item, left |-> c, right |-> node[a].right]
  BY GraphIs DEF Node
<1>2. SetLeft(node, a, c) =
        [node EXCEPT ![a] = [depth |-> node[a].depth, count |-> node[a].count,
                             item |-> node[a].item, left |-> c,
                             right |-> node[a].right]]
  BY Zenon, <1>1 DEF SetLeft
<1>3. node[a].depth \in Nat /\ node[a].right \in Places(node) BY GraphIs
<1>. QED BY Zenon, <1>2, <1>3, HoldsIf

LEMMA SetRightIs ==
  ASSUME NEW node, Graph(node), NEW a \in DOMAIN node, NEW c \in Places(node)
  PROVE  Holds(node, SetRight(node, a, c), a, node[a].depth, node[a].left, c)
<1>1. [node[a] EXCEPT !.right = c] =
        [depth |-> node[a].depth, count |-> node[a].count,
         item |-> node[a].item, left |-> node[a].left, right |-> c]
  BY GraphIs DEF Node
<1>2. SetRight(node, a, c) =
        [node EXCEPT ![a] = [depth |-> node[a].depth, count |-> node[a].count,
                             item |-> node[a].item, left |-> node[a].left,
                             right |-> c]]
  BY Zenon, <1>1 DEF SetRight
<1>3. node[a].depth \in Nat /\ node[a].left \in Places(node) BY GraphIs
<1>. QED BY Zenon, <1>2, <1>3, HoldsIf

LEMMA DepthIs ==
  ASSUME NEW node, Graph(node), NEW l \in Places(node), NEW r \in Places(node)
  PROVE  depth(node, l, r) \in Nat
<1>1. /\ delta(node, l) \in Int /\ delta(node, l) >= -1
      /\ delta(node, r) \in Int /\ delta(node, r) >= -1
  BY DeltaIs
<1>. QED BY <1>1 DEF depth

LEMMA SetDepthIs ==
  ASSUME NEW node, Graph(node), NEW a \in DOMAIN node
  PROVE  Holds(node, SetDepth(node, a), a,
               depth(node, node[a].left, node[a].right),
               node[a].left, node[a].right)
<1>. DEFINE d == depth(node, node[a].left, node[a].right)
<1>1. d \in Nat /\ node[a].left \in Places(node) /\ node[a].right \in Places(node)
  BY DepthIs, GraphIs
<1>2. SetDepth(node, a) = [node EXCEPT ![a] = [node[a] EXCEPT !.depth = d]]
  BY DEF SetDepth
<1>. HIDE DEF d
<1>3. [node[a] EXCEPT !.depth = d] =
        [depth |-> d, count |-> node[a].count,
         item |-> node[a].item, left |-> node[a].left, right |-> node[a].right]
  BY GraphIs DEF Node
<1>4. SetDepth(node, a) =
        [node EXCEPT ![a] = [depth |-> d, count |-> node[a].count,
                             item |-> node[a].item, left |-> node[a].left,
                             right |-> node[a].right]]
  BY Zenon, <1>2, <1>3
<1>5. Holds(node, SetDepth(node, a), a, d, node[a].left, node[a].right)
  BY Zenon, <1>1, <1>4, HoldsIf
<1>. QED BY <1>5 DEF d

-----------------------------------------------------------------------------
(* Rotations *)

(* x is node with its left child l in the place of a. *)
TurnsRight(node, a, l, x) ==
  LET g == x.node
  IN  /\ x.root = l /\ Kept(node, g, {a, l})
      /\ g[a].left = node[l].right /\ g[a].right = node[a].right
      /\ g[l].left = node[l].left /\ g[l].right = a
      /\ g[a].depth = depth(g, g[a].left, g[a].right)
      /\ g[l].depth = depth(g, g[l].left, g[l].right)

LEMMA RotateRightIs ==
  ASSUME NEW node, Graph(node), NEW a \in DOMAIN node,
         NEW l, l = node[a].left, l \notin {NULL, a},
         {node[l].left, node[l].right, node[a].right} \cap {a, l} = {}
  PROVE  TurnsRight(node, a, l, rotate_right(node, a))
<1>. DEFINE g1 == SetLeft(node, a, node[l].right)
            g2 == SetRight(g1, l, a)
            g3 == SetDepth(g2, a)
            g  == SetDepth(g3, l)
<1>1. l \in DOMAIN node /\ a \in Places(node) BY GraphIs DEF Places
<1>2. /\ node[l].left \in Places(node) /\ node[l].right \in Places(node)
      /\ node[a].right \in Places(node)
  BY <1>1, GraphIs
<1>3. rotate_right(node, a) = [node |-> g, root |-> l]
  BY DEF rotate_right, Top, SetLeft, SetRight
<1>4. Holds(node, g1, a, node[a].depth, node[l].right, node[a].right)
  BY <1>2, SetLeftIs
<1>. HIDE DEF g1
<1>5. /\ Graph(g1) /\ DOMAIN g1 = DOMAIN node /\ g1[l] = node[l]
      /\ Places(g1) = Places(node)
  BY <1>1, <1>4 DEF Holds, Kept, Places
<1>6. Holds(g1, g2, l, node[l].depth, node[l].left, a)
  BY <1>1, <1>5, SetRightIs
<1>. HIDE DEF g2
<1>7. /\ Kept(node, g2, {a, l})
      /\ g2[a].left = node[l].right /\ g2[a].right = node[a].right
      /\ g2[l].left = node[l].left /\ g2[l].right = a
      /\ \A b \in DOMAIN node : g2[b].depth = node[b].depth
  BY <1>1, <1>4, <1>5, <1>6 DEF Holds, Kept
<1>8. Graph(g2) /\ DOMAIN g2 = DOMAIN node BY <1>7 DEF Kept
<1>9. Holds(g2, g3, a, depth(g2, node[l].right, node[a].right),
            node[l].right, node[a].right)
  BY <1>7, <1>8, SetDepthIs
<1>. HIDE DEF g3
<1>10. /\ Kept(node, g3, {a, l}) /\ Graph(g3) /\ DOMAIN g3 = DOMAIN node
       /\ g3[a].left = node[l].right /\ g3[a].right = node[a].right
       /\ g3[l].left = node[l].left /\ g3[l].right = a
       /\ g3[a].depth = depth(g2, node[l].right, node[a].right)
       /\ \A b \in DOMAIN node \ {a} : g3[b].depth = node[b].depth
  BY <1>1, <1>7, <1>8, <1>9 DEF Holds, Kept
<1>11. Holds(g3, g, l, depth(g3, node[l].left, a), node[l].left, a)
  BY <1>1, <1>10, SetDepthIs
<1>. HIDE DEF g
<1>12. /\ Kept(node, g, {a, l})
       /\ g[a].left = node[l].right /\ g[a].right = node[a].right
       /\ g[l].left = node[l].left /\ g[l].right = a
       /\ g[a].depth = depth(g2, node[l].right, node[a].right)
       /\ g[l].depth = depth(g3, node[l].left, a)
       /\ \A b \in DOMAIN node \ {l} : g[b].depth = g3[b].depth
  BY <1>1, <1>10, <1>11 DEF Holds, Kept
<1>13. /\ delta(g, node[l].right) = delta(g2, node[l].right)
       /\ delta(g, node[a].right) = delta(g2, node[a].right)
       /\ delta(g, node[l].left) = delta(g3, node[l].left)
       /\ delta(g, a) = delta(g3, a)
  <2>1. ASSUME NEW c \in Places(node), c \notin {a, l}
        PROVE  delta(g, c) = delta(g2, c) /\ delta(g, c) = delta(g3, c)
    BY <1>7, <1>10, <1>12, <2>1 DEF delta, Places
  <2>2. delta(g, a) = delta(g3, a) BY <1>12 DEF delta
  <2>. QED BY Zenon, <1>2, <2>1, <2>2
<1>14. /\ g[a].depth = depth(g, g[a].left, g[a].right)
       /\ g[l].depth = depth(g, g[l].left, g[l].right)
  BY <1>12, <1>13 DEF depth
<1>15. TurnsRight(node, a, l, [node |-> g, root |-> l])
  BY <1>12, <1>14 DEF TurnsRight
<1>. QED BY <1>3, <1>15

(* What lies apart from the nodes that changed is the tree that it was. *)
LEMMA KeptTree ==
  ASSUME NEW node, Graph(node), NEW word, NEW g, NEW S, Kept(node, g, S),
         NEW c \in Places(node), S \cap Sub(node, c) = {},
         AVL(node, word, c)
  PROVE  /\ Sub(g, c) = Sub(node, c) /\ delta(g, c) = delta(node, c)
         /\ AVL(g, word, c)
<1>1. Graph(g) BY DEF Kept
<1>2. Same(node, word, g, word, Sub(node, c))
  <2>1. \A b \in Sub(node, c) : b \in DOMAIN g /\ g[b] = node[b]
    BY SubIn DEF Kept
  <2>. QED BY <2>1 DEF Same, Key
<1>. QED BY <1>1, <1>2, SubSame, DeltaSame, AVLSame

LEMMA KeptKeys ==
  ASSUME NEW node, NEW g, NEW S, Kept(node, g, S), NEW word,
         NEW b \in DOMAIN node
  PROVE  Key(g, word, b) = Key(node, word, b)
BY DEF Kept, Key

(* x is the tree below a, turned. *)
Turned(node, word, a, x) ==
  /\ Kept(node, x.node, Sub(node, a)) /\ x.root \in DOMAIN node
  /\ Sub(x.node, x.root) = Sub(node, a)
  /\ AVL(x.node, word, x.root)

(* Two trees that a node lies between: what it has on its sides. *)
Between(node, word, a) ==
  /\ AVL(node, word, node[a].left) /\ AVL(node, word, node[a].right)
  /\ Ordered(node, word, a) /\ Spelt(node, word, Sub(node, a))

(* The left side is the deeper by two, and does not lean to the right. *)
LEMMA RotatedRight ==
  ASSUME NEW node, Graph(node), NEW word, NEW a \in DOMAIN node,
         Between(node, word, a),
         NEW l, l = node[a].left,
         delta(node, l) = delta(node, node[a].right) + 2,
         balance(node, l) >= 0
  PROVE  LET x == rotate_right(node, a)
         IN  /\ Turned(node, word, a, x)
             /\ delta(x.node, x.root) = IF balance(node, l) = 0
                                        THEN delta(node, l) + 1
                                        ELSE delta(node, l)
<1>. DEFINE r == node[a].right
            ll == node[l].left
            lr == node[l].right
            x == rotate_right(node, a)
            g == x.node
<1>1. /\ AVL(node, word, l) /\ AVL(node, word, r)
      /\ Ordered(node, word, a) /\ Spelt(node, word, Sub(node, a))
  BY DEF Between
<1>2. l \in Places(node) /\ r \in Places(node) BY GraphIs
<1>3. l \in DOMAIN node /\ l # NULL
  <2>1. delta(node, r) \in Int /\ delta(node, r) >= -1 BY <1>2, DeltaIs
  <2>2. delta(node, l) # -1 BY <2>1
  <2>. QED BY <1>2, <2>2 DEF delta, Places
<1>4. /\ AVL(node, word, ll) /\ AVL(node, word, lr)
      /\ Level(node, l) /\ Ordered(node, word, l)
  BY <1>1, <1>3, AVLOpen
<1>5. /\ Sub(node, a) = {a} \cup Sub(node, l) \cup Sub(node, r)
      /\ Sub(node, l) = {l} \cup Sub(node, ll) \cup Sub(node, lr)
  BY <1>3, SubUnfold
<1>6. /\ a \notin Sub(node, l) /\ a \notin Sub(node, r)
      /\ Sub(node, l) \cap Sub(node, r) = {}
  BY <1>1, Apart
<1>7. l \notin Sub(node, ll) /\ l \notin Sub(node, lr)
  <2>1. Spelt(node, word, Sub(node, l)) BY <1>1, <1>5 DEF Spelt
  <2>. QED BY <1>3, <1>4, <2>1, Apart
<1>8. ll \in Places(node) /\ lr \in Places(node) BY <1>3, GraphIs
<1>9. {a, l} \cap (Sub(node, ll) \cup Sub(node, lr) \cup Sub(node, r)) = {}
  BY <1>5, <1>6, <1>7
<1>10. {ll, lr, r} \cap {a, l} = {}
  <2>1. \A c \in {ll, lr, r} : c # NULL => c \in Sub(node, c)
    BY <1>2, <1>8, SubSelf DEF Places
  <2>2. a # NULL BY GraphIs
  <2>. QED BY <1>3, <1>9, <2>1, <2>2
<1>11. l # a BY <1>3, <1>6, SubSelf
<1>12. /\ x.root = l /\ Kept(node, g, {a, l})
       /\ g[a].left = lr /\ g[a].right = r
       /\ g[l].left = ll /\ g[l].right = a
       /\ g[a].depth = depth(g, g[a].left, g[a].right)
       /\ g[l].depth = depth(g, g[l].left, g[l].right)
  <2>1. TurnsRight(node, a, l, x) BY <1>3, <1>10, <1>11, RotateRightIs
  <2>. HIDE DEF x
  <2>. QED BY <2>1 DEF TurnsRight
<1>. HIDE DEF x
<1>13. /\ Sub(g, ll) = Sub(node, ll) /\ delta(g, ll) = delta(node, ll)
       /\ Sub(g, lr) = Sub(node, lr) /\ delta(g, lr) = delta(node, lr)
       /\ Sub(g, r) = Sub(node, r) /\ delta(g, r) = delta(node, r)
       /\ AVL(g, word, ll) /\ AVL(g, word, lr) /\ AVL(g, word, r)
  <2>1. /\ {a, l} \cap Sub(node, ll) = {} /\ {a, l} \cap Sub(node, lr) = {}
        /\ {a, l} \cap Sub(node, r) = {}
    BY <1>9
  <2>. HIDE DEF g, ll, lr, r
  <2>2. /\ Sub(g, ll) = Sub(node, ll) /\ delta(g, ll) = delta(node, ll)
        /\ AVL(g, word, ll)
    BY <1>4, <1>8, <1>12, <2>1, KeptTree
  <2>3. /\ Sub(g, lr) = Sub(node, lr) /\ delta(g, lr) = delta(node, lr)
        /\ AVL(g, word, lr)
    BY <1>4, <1>8, <1>12, <2>1, KeptTree
  <2>4. /\ Sub(g, r) = Sub(node, r) /\ delta(g, r) = delta(node, r)
        /\ AVL(g, word, r)
    BY <1>1, <1>2, <1>12, <2>1, KeptTree
  <2>. QED BY <2>2, <2>3, <2>4
<1>14. Graph(g) /\ DOMAIN g = DOMAIN node BY <1>12 DEF Kept
<1>15. \A b \in DOMAIN node : Key(g, word, b) = Key(node, word, b)
  BY <1>12, KeptKeys
<1>16. /\ delta(g, a) = g[a].depth /\ delta(g, l) = g[l].depth
  BY <1>3, GraphIs DEF delta
<1>17. LET dl == delta(node, ll)  dr == delta(node, lr)  d == delta(node, l)
       IN  /\ dl \in Int /\ dr \in Int /\ d \in Int
           /\ balance(node, l) = dl - dr
           /\ \/ dl = dr /\ d = dl + 1
              \/ dl = dr + 1 /\ d = dl + 1
              \/ dr = dl + 1 /\ d = dr + 1
  BY <1>3, <1>4, LevelIs
<1>18. delta(node, r) \in Int BY <1>2, DeltaIs
<1>19. /\ delta(g, a) = IF delta(node, lr) > delta(node, r)
                        THEN delta(node, lr) + 1 ELSE delta(node, r) + 1
       /\ balance(g, a) = delta(node, lr) - delta(node, r)
       /\ delta(g, l) = IF delta(node, ll) > delta(g, a)
                        THEN delta(node, ll) + 1 ELSE delta(g, a) + 1
       /\ balance(g, l) = delta(node, ll) - delta(g, a)
  BY <1>12, <1>13, <1>16 DEF depth, balance
<1>20. /\ balance(g, a) \in -1 .. 1 /\ balance(g, l) \in -1 .. 1
       /\ delta(g, l) = IF balance(node, l) = 0 THEN delta(node, l) + 1
                                                ELSE delta(node, l)
  BY <1>17, <1>18, <1>19
<1>21. Level(g, a) /\ Level(g, l) BY <1>12, <1>20 DEF Level
<1>22. Ordered(g, word, a)
  <2>1. \A c \in Sub(node, l) \cup Sub(node, r) : c \in DOMAIN node BY SubIn
  <2>. QED BY <1>1, <1>5, <1>12, <1>13, <1>15, <2>1 DEF Ordered
<1>23. AVL(g, word, a) /\ Sub(g, a) = {a} \cup Sub(node, lr) \cup Sub(node, r)
  BY <1>12, <1>13, <1>14, <1>21, <1>22, AVLBuild, SubUnfold
<1>24. Ordered(g, word, l)
  <2>1. \A c \in Sub(node, a) : c \in DOMAIN node /\ Key(node, word, c) \in Nat
    BY <1>1, SubIn DEF Spelt
  <2>2. \A c \in Sub(node, ll) : Key(g, word, c) < Key(g, word, l)
    BY <1>3, <1>4, <1>5, <1>15, <2>1 DEF Ordered
  <2>3. Key(node, word, l) < Key(node, word, a)
    BY <1>1, <1>5 DEF Ordered
  <2>4. \A c \in Sub(node, lr) : Key(node, word, l) < Key(node, word, c)
    BY <1>4 DEF Ordered
  <2>5. \A c \in Sub(node, r) : Key(node, word, l) < Key(node, word, c)
    <3>1. \A c \in Sub(node, r) : Key(node, word, a) < Key(node, word, c)
      BY <1>1 DEF Ordered
    <3>2. a \in Sub(node, a) /\ l \in Sub(node, a) BY <1>5
    <3>. QED BY <1>5, <2>1, <2>3, <3>1, <3>2
  <2>6. \A c \in Sub(g, a) : Key(g, word, l) < Key(g, word, c)
    BY <1>3, <1>5, <1>15, <1>23, <2>1, <2>3, <2>4, <2>5
  <2>. QED BY <1>12, <1>13, <2>2, <2>6 DEF Ordered
<1>25. AVL(g, word, l) BY <1>3, <1>12, <1>13, <1>14, <1>21, <1>23, <1>24, AVLBuild
<1>26. Sub(g, l) = Sub(node, a)
  BY <1>3, <1>5, <1>12, <1>13, <1>14, <1>23, SubUnfold
<1>27. Kept(node, g, Sub(node, a)) BY <1>5, <1>12 DEF Kept
<1>28. Turned(node, word, a, x) BY <1>3, <1>12, <1>25, <1>26, <1>27 DEF Turned
<1>. QED BY <1>12, <1>20, <1>28 DEF x

-----------------------------------------------------------------------------
(* Rotations *)

(* x is node with its right child r in the place of a. *)
TurnsLeft(node, a, r, x) ==
  LET g == x.node
  IN  /\ x.root = r /\ Kept(node, g, {a, r})
      /\ g[a].right = node[r].left /\ g[a].left = node[a].left
      /\ g[r].right = node[r].right /\ g[r].left = a
      /\ g[a].depth = depth(g, g[a].left, g[a].right)
      /\ g[r].depth = depth(g, g[r].left, g[r].right)

LEMMA RotateLeftIs ==
  ASSUME NEW node, Graph(node), NEW a \in DOMAIN node,
         NEW r, r = node[a].right, r \notin {NULL, a},
         {node[r].right, node[r].left, node[a].left} \cap {a, r} = {}
  PROVE  TurnsLeft(node, a, r, rotate_left(node, a))
<1>. DEFINE g1 == SetRight(node, a, node[r].left)
            g2 == SetLeft(g1, r, a)
            g3 == SetDepth(g2, a)
            g  == SetDepth(g3, r)
<1>1. r \in DOMAIN node /\ a \in Places(node) BY GraphIs DEF Places
<1>2. /\ node[r].right \in Places(node) /\ node[r].left \in Places(node)
      /\ node[a].left \in Places(node)
  BY <1>1, GraphIs
<1>3. rotate_left(node, a) = [node |-> g, root |-> r]
  BY DEF rotate_left, Top, SetRight, SetLeft
<1>4. Holds(node, g1, a, node[a].depth, node[a].left, node[r].left)
  BY <1>2, SetRightIs
<1>. HIDE DEF g1
<1>5. /\ Graph(g1) /\ DOMAIN g1 = DOMAIN node /\ g1[r] = node[r]
      /\ Places(g1) = Places(node)
  BY <1>1, <1>4 DEF Holds, Kept, Places
<1>6. Holds(g1, g2, r, node[r].depth, a, node[r].right)
  BY <1>1, <1>5, SetLeftIs
<1>. HIDE DEF g2
<1>7. /\ Kept(node, g2, {a, r})
      /\ g2[a].right = node[r].left /\ g2[a].left = node[a].left
      /\ g2[r].right = node[r].right /\ g2[r].left = a
      /\ \A b \in DOMAIN node : g2[b].depth = node[b].depth
  BY <1>1, <1>4, <1>5, <1>6 DEF Holds, Kept
<1>8. Graph(g2) /\ DOMAIN g2 = DOMAIN node BY <1>7 DEF Kept
<1>9. Holds(g2, g3, a, depth(g2, node[a].left, node[r].left),
            node[a].left, node[r].left)
  BY <1>7, <1>8, SetDepthIs
<1>. HIDE DEF g3
<1>10. /\ Kept(node, g3, {a, r}) /\ Graph(g3) /\ DOMAIN g3 = DOMAIN node
       /\ g3[a].right = node[r].left /\ g3[a].left = node[a].left
       /\ g3[r].right = node[r].right /\ g3[r].left = a
       /\ g3[a].depth = depth(g2, node[a].left, node[r].left)
       /\ \A b \in DOMAIN node \ {a} : g3[b].depth = node[b].depth
  BY <1>1, <1>7, <1>8, <1>9 DEF Holds, Kept
<1>11. Holds(g3, g, r, depth(g3, a, node[r].right), a, node[r].right)
  BY <1>1, <1>10, SetDepthIs
<1>. HIDE DEF g
<1>12. /\ Kept(node, g, {a, r})
       /\ g[a].right = node[r].left /\ g[a].left = node[a].left
       /\ g[r].right = node[r].right /\ g[r].left = a
       /\ g[a].depth = depth(g2, node[a].left, node[r].left)
       /\ g[r].depth = depth(g3, a, node[r].right)
       /\ \A b \in DOMAIN node \ {r} : g[b].depth = g3[b].depth
  BY <1>1, <1>10, <1>11 DEF Holds, Kept
<1>13. /\ delta(g, node[r].left) = delta(g2, node[r].left)
       /\ delta(g, node[a].left) = delta(g2, node[a].left)
       /\ delta(g, node[r].right) = delta(g3, node[r].right)
       /\ delta(g, a) = delta(g3, a)
  <2>1. ASSUME NEW c \in Places(node), c \notin {a, r}
        PROVE  delta(g, c) = delta(g2, c) /\ delta(g, c) = delta(g3, c)
    BY <1>7, <1>10, <1>12, <2>1 DEF delta, Places
  <2>2. delta(g, a) = delta(g3, a) BY <1>12 DEF delta
  <2>. QED BY Zenon, <1>2, <2>1, <2>2
<1>14. /\ g[a].depth = depth(g, g[a].left, g[a].right)
       /\ g[r].depth = depth(g, g[r].left, g[r].right)
  BY <1>12, <1>13 DEF depth
<1>15. TurnsLeft(node, a, r, [node |-> g, root |-> r])
  BY <1>12, <1>14 DEF TurnsLeft
<1>. QED BY <1>3, <1>15

LEMMA RotateLeftRightIs ==
  ASSUME NEW node, Graph(node), NEW a \in DOMAIN node,
         NEW l, l = node[a].left, l \notin {NULL, a},
         NEW c, c = node[l].right, c \notin {NULL, a, l},
         {node[l].left, node[c].left, node[c].right, node[a].right}
           \cap {a, l, c} = {}
  PROVE  LET x == rotate_left_right(node, a)  g == x.node
         IN  /\ x.root = c /\ Kept(node, g, {a, l, c})
             /\ g[l].left = node[l].left /\ g[l].right = node[c].left
             /\ g[a].left = node[c].right /\ g[a].right = node[a].right
             /\ g[c].left = l /\ g[c].right = a
             /\ g[l].depth = depth(g, g[l].left, g[l].right)
             /\ g[a].depth = depth(g, g[a].left, g[a].right)
             /\ g[c].depth = depth(g, g[c].left, g[c].right)
<1>. DEFINE x1 == rotate_left(node, l)
            g1 == x1.node
            g2 == SetLeft(g1, a, c)
            x == rotate_right(g2, a)
            g == x.node
<1>1. l \in DOMAIN node /\ c \in DOMAIN node BY GraphIs DEF Places
<1>2. /\ node[l].left \in Places(node) /\ node[c].left \in Places(node)
      /\ node[c].right \in Places(node) /\ node[a].right \in Places(node)
      /\ a \in Places(node) /\ c \in Places(node)
  BY <1>1, GraphIs DEF Places
<1>3. /\ x1.root = c /\ Kept(node, g1, {l, c})
      /\ g1[l].right = node[c].left /\ g1[l].left = node[l].left
      /\ g1[c].right = node[c].right /\ g1[c].left = l
      /\ g1[l].depth = depth(g1, g1[l].left, g1[l].right)
  <2>1. /\ c \notin {NULL, l}
        /\ {node[c].left, node[c].right, node[l].left} \cap {l, c} = {}
    OBVIOUS
  <2>2. TurnsLeft(node, l, c, x1) BY <1>1, <2>1, RotateLeftIs
  <2>. HIDE DEF x1
  <2>. QED BY <2>2 DEF TurnsLeft
<1>4. rotate_left_right(node, a) = x
  BY <1>3 DEF rotate_left_right, SetLeft
<1>. HIDE DEF x1
<1>5. /\ Graph(g1) /\ DOMAIN g1 = DOMAIN node /\ Places(g1) = Places(node)
      /\ g1[a] = node[a]
  BY <1>3 DEF Kept, Places
<1>6. Holds(g1, g2, a, g1[a].depth, c, g1[a].right)
  BY <1>2, <1>5, SetLeftIs
<1>. HIDE DEF g2
<1>7. /\ Kept(node, g2, {a, l, c}) /\ Graph(g2) /\ DOMAIN g2 = DOMAIN node
      /\ g2[l] = g1[l] /\ g2[c] = g1[c]
      /\ g2[a].left = c /\ g2[a].right = node[a].right
  BY <1>1, <1>3, <1>5, <1>6 DEF Holds, Kept
<1>8. /\ x.root = c /\ Kept(g2, g, {a, c})
      /\ g[a].left = node[c].right /\ g[a].right = node[a].right
      /\ g[c].left = l /\ g[c].right = a
      /\ g[a].depth = depth(g, g[a].left, g[a].right)
      /\ g[c].depth = depth(g, g[c].left, g[c].right)
  <2>1. c = g2[a].left /\ c \notin {NULL, a} BY <1>7
  <2>2. /\ {g2[c].left, g2[c].right, g2[a].right} \cap {a, c} = {}
        /\ g2[c].left = l /\ g2[c].right = node[c].right
    BY <1>3, <1>7
  <2>. HIDE DEF g1, x, g
  <2>3. TurnsRight(g2, a, c, x) BY <1>7, <2>1, <2>2, RotateRightIs DEF x
  <2>. QED BY <1>7, <2>2, <2>3 DEF TurnsRight, g
<1>. HIDE DEF x
<1>9. Kept(node, g, {a, l, c}) /\ g[l] = g1[l]
  BY <1>1, <1>7, <1>8 DEF Kept
<1>10. /\ delta(g, node[l].left) = delta(g1, node[l].left)
       /\ delta(g, node[c].left) = delta(g1, node[c].left)
  <2>1. ASSUME NEW b \in Places(node), b \notin {a, l, c}
        PROVE  delta(g, b) = delta(g1, b)
    BY <1>3, <1>9, <2>1 DEF Kept, delta, Places
  <2>. QED BY Zenon, <1>2, <2>1
<1>11. /\ delta(g, node[l].left) \in Int /\ delta(g, node[c].left) \in Int
  <2>1. Graph(g) /\ Places(g) = Places(node) BY <1>9 DEF Kept, Places
  <2>. QED BY <1>2, <2>1, DeltaIs
<1>12. /\ g[l].left = node[l].left /\ g[l].right = node[c].left
       /\ g[l].depth = depth(g, g[l].left, g[l].right)
  BY <1>3, <1>9, <1>10, <1>11 DEF depth
<1>. QED BY <1>4, <1>8, <1>9, <1>12

LEMMA RotateRightLeftIs ==
  ASSUME NEW node, Graph(node), NEW a \in DOMAIN node,
         NEW r, r = node[a].right, r \notin {NULL, a},
         NEW c, c = node[r].left, c \notin {NULL, a, r},
         {node[r].right, node[c].right, node[c].left, node[a].left}
           \cap {a, r, c} = {}
  PROVE  LET x == rotate_right_left(node, a)  g == x.node
         IN  /\ x.root = c /\ Kept(node, g, {a, r, c})
             /\ g[r].right = node[r].right /\ g[r].left = node[c].right
             /\ g[a].right = node[c].left /\ g[a].left = node[a].left
             /\ g[c].right = r /\ g[c].left = a
             /\ g[r].depth = depth(g, g[r].left, g[r].right)
             /\ g[a].depth = depth(g, g[a].left, g[a].right)
             /\ g[c].depth = depth(g, g[c].left, g[c].right)
<1>. DEFINE x1 == rotate_right(node, r)
            g1 == x1.node
            g2 == SetRight(g1, a, c)
            x == rotate_left(g2, a)
            g == x.node
<1>1. r \in DOMAIN node /\ c \in DOMAIN node BY GraphIs DEF Places
<1>2. /\ node[r].right \in Places(node) /\ node[c].right \in Places(node)
      /\ node[c].left \in Places(node) /\ node[a].left \in Places(node)
      /\ a \in Places(node) /\ c \in Places(node)
  BY <1>1, GraphIs DEF Places
<1>3. /\ x1.root = c /\ Kept(node, g1, {r, c})
      /\ g1[r].left = node[c].right /\ g1[r].right = node[r].right
      /\ g1[c].left = node[c].left /\ g1[c].right = r
      /\ g1[r].depth = depth(g1, g1[r].left, g1[r].right)
  <2>1. /\ c \notin {NULL, r}
        /\ {node[c].right, node[c].left, node[r].right} \cap {r, c} = {}
    OBVIOUS
  <2>2. TurnsRight(node, r, c, x1) BY <1>1, <2>1, RotateRightIs
  <2>. HIDE DEF x1
  <2>. QED BY <2>2 DEF TurnsRight
<1>4. rotate_right_left(node, a) = x
  BY <1>3 DEF rotate_right_left, SetRight
<1>. HIDE DEF x1
<1>5. /\ Graph(g1) /\ DOMAIN g1 = DOMAIN node /\ Places(g1) = Places(node)
      /\ g1[a] = node[a]
  BY <1>3 DEF Kept, Places
<1>6. Holds(g1, g2, a, g1[a].depth, g1[a].left, c)
  BY <1>2, <1>5, SetRightIs
<1>. HIDE DEF g2
<1>7. /\ Kept(node, g2, {a, r, c}) /\ Graph(g2) /\ DOMAIN g2 = DOMAIN node
      /\ g2[r] = g1[r] /\ g2[c] = g1[c]
      /\ g2[a].right = c /\ g2[a].left = node[a].left
  BY <1>1, <1>3, <1>5, <1>6 DEF Holds, Kept
<1>8. /\ x.root = c /\ Kept(g2, g, {a, c})
      /\ g[a].right = node[c].left /\ g[a].left = node[a].left
      /\ g[c].right = r /\ g[c].left = a
      /\ g[a].depth = depth(g, g[a].left, g[a].right)
      /\ g[c].depth = depth(g, g[c].left, g[c].right)
  <2>1. c = g2[a].right /\ c \notin {NULL, a} BY <1>7
  <2>2. /\ {g2[c].right, g2[c].left, g2[a].left} \cap {a, c} = {}
        /\ g2[c].right = r /\ g2[c].left = node[c].left
    BY <1>3, <1>7
  <2>. HIDE DEF g1, x, g
  <2>3. TurnsLeft(g2, a, c, x) BY <1>7, <2>1, <2>2, RotateLeftIs DEF x
  <2>. QED BY <1>7, <2>2, <2>3 DEF TurnsLeft, g
<1>. HIDE DEF x
<1>9. Kept(node, g, {a, r, c}) /\ g[r] = g1[r]
  BY <1>1, <1>7, <1>8 DEF Kept
<1>10. /\ delta(g, node[r].right) = delta(g1, node[r].right)
       /\ delta(g, node[c].right) = delta(g1, node[c].right)
  <2>1. ASSUME NEW b \in Places(node), b \notin {a, r, c}
        PROVE  delta(g, b) = delta(g1, b)
    BY <1>3, <1>9, <2>1 DEF Kept, delta, Places
  <2>. QED BY Zenon, <1>2, <2>1
<1>11. /\ delta(g, node[r].right) \in Int /\ delta(g, node[c].right) \in Int
  <2>1. Graph(g) /\ Places(g) = Places(node) BY <1>9 DEF Kept, Places
  <2>. QED BY <1>2, <2>1, DeltaIs
<1>12. /\ g[r].right = node[r].right /\ g[r].left = node[c].right
       /\ g[r].depth = depth(g, g[r].left, g[r].right)
  BY <1>3, <1>9, <1>10, <1>11 DEF depth
<1>. QED BY <1>4, <1>8, <1>9, <1>12

(* The right side is the deeper by two, and does not lean to the left. *)
LEMMA RotatedLeft ==
  ASSUME NEW node, Graph(node), NEW word, NEW a \in DOMAIN node,
         Between(node, word, a),
         NEW r, r = node[a].right,
         delta(node, r) = delta(node, node[a].left) + 2,
         balance(node, r) <= 0
  PROVE  LET x == rotate_left(node, a)
         IN  /\ Turned(node, word, a, x)
             /\ delta(x.node, x.root) = IF balance(node, r) = 0
                                        THEN delta(node, r) + 1
                                        ELSE delta(node, r)
<1>. DEFINE l == node[a].left
            rr == node[r].right
            rl == node[r].left
            x == rotate_left(node, a)
            g == x.node
<1>1. /\ AVL(node, word, r) /\ AVL(node, word, l)
      /\ Ordered(node, word, a) /\ Spelt(node, word, Sub(node, a))
  BY DEF Between
<1>2. r \in Places(node) /\ l \in Places(node) BY GraphIs
<1>3. r \in DOMAIN node /\ r # NULL
  <2>1. delta(node, l) \in Int /\ delta(node, l) >= -1 BY <1>2, DeltaIs
  <2>2. delta(node, r) # -1 BY <2>1
  <2>. QED BY <1>2, <2>2 DEF delta, Places
<1>4. /\ AVL(node, word, rr) /\ AVL(node, word, rl)
      /\ Level(node, r) /\ Ordered(node, word, r)
  BY <1>1, <1>3, AVLOpen
<1>5. /\ Sub(node, a) = {a} \cup Sub(node, r) \cup Sub(node, l)
      /\ Sub(node, r) = {r} \cup Sub(node, rr) \cup Sub(node, rl)
  BY <1>3, SubUnfold
<1>6. /\ a \notin Sub(node, r) /\ a \notin Sub(node, l)
      /\ Sub(node, r) \cap Sub(node, l) = {}
  BY <1>1, Apart
<1>7. r \notin Sub(node, rr) /\ r \notin Sub(node, rl)
  <2>1. Spelt(node, word, Sub(node, r)) BY <1>1, <1>5 DEF Spelt
  <2>. QED BY <1>3, <1>4, <2>1, Apart
<1>8. rr \in Places(node) /\ rl \in Places(node) BY <1>3, GraphIs
<1>9. {a, r} \cap (Sub(node, rr) \cup Sub(node, rl) \cup Sub(node, l)) = {}
  BY <1>5, <1>6, <1>7
<1>10. {rr, rl, l} \cap {a, r} = {}
  <2>1. \A c \in {rr, rl, l} : c # NULL => c \in Sub(node, c)
    BY <1>2, <1>8, SubSelf DEF Places
  <2>2. a # NULL BY GraphIs
  <2>. QED BY <1>3, <1>9, <2>1, <2>2
<1>11. r # a BY <1>3, <1>6, SubSelf
<1>12. /\ x.root = r /\ Kept(node, g, {a, r})
       /\ g[a].right = rl /\ g[a].left = l
       /\ g[r].right = rr /\ g[r].left = a
       /\ g[a].depth = depth(g, g[a].left, g[a].right)
       /\ g[r].depth = depth(g, g[r].left, g[r].right)
  <2>1. TurnsLeft(node, a, r, x) BY <1>3, <1>10, <1>11, RotateLeftIs
  <2>. HIDE DEF x
  <2>. QED BY <2>1 DEF TurnsLeft
<1>. HIDE DEF x
<1>13. /\ Sub(g, rr) = Sub(node, rr) /\ delta(g, rr) = delta(node, rr)
       /\ Sub(g, rl) = Sub(node, rl) /\ delta(g, rl) = delta(node, rl)
       /\ Sub(g, l) = Sub(node, l) /\ delta(g, l) = delta(node, l)
       /\ AVL(g, word, rr) /\ AVL(g, word, rl) /\ AVL(g, word, l)
  <2>1. /\ {a, r} \cap Sub(node, rr) = {} /\ {a, r} \cap Sub(node, rl) = {}
        /\ {a, r} \cap Sub(node, l) = {}
    BY <1>9
  <2>. HIDE DEF g, rr, rl, l
  <2>2. /\ Sub(g, rr) = Sub(node, rr) /\ delta(g, rr) = delta(node, rr)
        /\ AVL(g, word, rr)
    BY <1>4, <1>8, <1>12, <2>1, KeptTree
  <2>3. /\ Sub(g, rl) = Sub(node, rl) /\ delta(g, rl) = delta(node, rl)
        /\ AVL(g, word, rl)
    BY <1>4, <1>8, <1>12, <2>1, KeptTree
  <2>4. /\ Sub(g, l) = Sub(node, l) /\ delta(g, l) = delta(node, l)
        /\ AVL(g, word, l)
    BY <1>1, <1>2, <1>12, <2>1, KeptTree
  <2>. QED BY <2>2, <2>3, <2>4
<1>14. Graph(g) /\ DOMAIN g = DOMAIN node BY <1>12 DEF Kept
<1>15. \A b \in DOMAIN node : Key(g, word, b) = Key(node, word, b)
  BY <1>12, KeptKeys
<1>16. /\ delta(g, a) = g[a].depth /\ delta(g, r) = g[r].depth
  BY <1>3, GraphIs DEF delta
<1>17. LET dr == delta(node, rr)  dl == delta(node, rl)  d == delta(node, r)
       IN  /\ dr \in Int /\ dl \in Int /\ d \in Int
           /\ balance(node, r) = dl - dr
           /\ \/ dr = dl /\ d = dr + 1
              \/ dr = dl + 1 /\ d = dr + 1
              \/ dl = dr + 1 /\ d = dl + 1
  BY <1>3, <1>4, LevelIs
<1>18. delta(node, l) \in Int BY <1>2, DeltaIs
<1>19. /\ delta(g, a) = IF delta(node, l) > delta(node, rl)
                        THEN delta(node, l) + 1 ELSE delta(node, rl) + 1
       /\ balance(g, a) = delta(node, l) - delta(node, rl)
       /\ delta(g, r) = IF delta(g, a) > delta(node, rr)
                        THEN delta(g, a) + 1 ELSE delta(node, rr) + 1
       /\ balance(g, r) = delta(g, a) - delta(node, rr)
  BY <1>12, <1>13, <1>16 DEF depth, balance
<1>20. /\ balance(g, a) \in -1 .. 1 /\ balance(g, r) \in -1 .. 1
       /\ delta(g, r) = IF balance(node, r) = 0 THEN delta(node, r) + 1
                                                ELSE delta(node, r)
  BY <1>17, <1>18, <1>19
<1>21. Level(g, a) /\ Level(g, r) BY <1>12, <1>20 DEF Level
<1>22. Ordered(g, word, a)
  <2>1. \A c \in Sub(node, r) \cup Sub(node, l) : c \in DOMAIN node BY SubIn
  <2>. QED BY <1>1, <1>5, <1>12, <1>13, <1>15, <2>1 DEF Ordered
<1>23. AVL(g, word, a) /\ Sub(g, a) = {a} \cup Sub(node, rl) \cup Sub(node, l)
  BY <1>12, <1>13, <1>14, <1>21, <1>22, AVLBuild, SubUnfold
<1>24. Ordered(g, word, r)
  <2>1. \A c \in Sub(node, a) : c \in DOMAIN node /\ Key(node, word, c) \in Nat
    BY <1>1, SubIn DEF Spelt
  <2>2. \A c \in Sub(node, rr) : Key(g, word, r) < Key(g, word, c)
    BY <1>3, <1>4, <1>5, <1>15, <2>1 DEF Ordered
  <2>3. Key(node, word, a) < Key(node, word, r)
    BY <1>1, <1>5 DEF Ordered
  <2>4. \A c \in Sub(node, rl) : Key(node, word, c) < Key(node, word, r)
    BY <1>4 DEF Ordered
  <2>5. \A c \in Sub(node, l) : Key(node, word, c) < Key(node, word, r)
    <3>1. \A c \in Sub(node, l) : Key(node, word, c) < Key(node, word, a)
      BY <1>1 DEF Ordered
    <3>2. a \in Sub(node, a) /\ r \in Sub(node, a) BY <1>5
    <3>. QED BY <1>5, <2>1, <2>3, <3>1, <3>2
  <2>6. \A c \in Sub(g, a) : Key(g, word, c) < Key(g, word, r)
    BY <1>3, <1>5, <1>15, <1>23, <2>1, <2>3, <2>4, <2>5
  <2>. QED BY <1>12, <1>13, <2>2, <2>6 DEF Ordered
<1>25. AVL(g, word, r) BY <1>3, <1>12, <1>13, <1>14, <1>21, <1>23, <1>24, AVLBuild
<1>26. Sub(g, r) = Sub(node, a)
  BY <1>3, <1>5, <1>12, <1>13, <1>14, <1>23, SubUnfold
<1>27. Kept(node, g, Sub(node, a)) BY <1>5, <1>12 DEF Kept
<1>28. Turned(node, word, a, x) BY <1>3, <1>12, <1>25, <1>26, <1>27 DEF Turned
<1>. QED BY <1>12, <1>20, <1>28 DEF x

-----------------------------------------------------------------------------
(* Double rotations restore the balance *)

(* The left side is the deeper by two, and leans to the right. *)
LEMMA RotatedLeftRight ==
  ASSUME NEW node, Graph(node), NEW word, NEW a \in DOMAIN node,
         Between(node, word, a),
         NEW l, l = node[a].left,
         delta(node, l) = delta(node, node[a].right) + 2,
         balance(node, l) < 0
  PROVE  LET x == rotate_left_right(node, a)
         IN  /\ Turned(node, word, a, x)
             /\ delta(x.node, x.root) = delta(node, l)
<1>. DEFINE r == node[a].right
            ll == node[l].left
            c == node[l].right
            cl == node[c].left
            cr == node[c].right
            x == rotate_left_right(node, a)
            g == x.node
<1>1. /\ AVL(node, word, l) /\ AVL(node, word, r)
      /\ Ordered(node, word, a) /\ Spelt(node, word, Sub(node, a))
  BY DEF Between
<1>2. l \in Places(node) /\ r \in Places(node) /\ delta(node, r) \in Int
      /\ delta(node, r) >= -1
  BY GraphIs, DeltaIs
<1>3. l \in DOMAIN node /\ l # NULL
  <2>1. delta(node, l) # -1 BY <1>2
  <2>. QED BY <1>2, <2>1 DEF delta, Places
<1>4. /\ AVL(node, word, ll) /\ AVL(node, word, c)
      /\ Level(node, l) /\ Ordered(node, word, l)
  BY <1>1, <1>3, AVLOpen
<1>5. /\ delta(node, l) \in Int /\ delta(node, c) = delta(node, l) - 1
      /\ delta(node, ll) = delta(node, l) - 2 /\ delta(node, ll) >= -1
  <2>1. LET dl == delta(node, ll)  dc == delta(node, c)  d == delta(node, l)
        IN  /\ dl \in Int /\ dc \in Int /\ d \in Int /\ dl >= -1
            /\ balance(node, l) = dl - dc
            /\ \/ dl = dc /\ d = dl + 1
               \/ dl = dc + 1 /\ d = dl + 1
               \/ dc = dl + 1 /\ d = dc + 1
    BY <1>3, <1>4, LevelIs
  <2>. QED BY <2>1
<1>6. ll \in Places(node) /\ c \in Places(node) BY <1>3, GraphIs
<1>7. c \in DOMAIN node /\ c # NULL
  <2>1. delta(node, c) # -1 BY <1>5
  <2>. QED BY <1>6, <2>1 DEF delta, Places
<1>8. /\ AVL(node, word, cl) /\ AVL(node, word, cr)
      /\ Level(node, c) /\ Ordered(node, word, c)
  BY <1>4, <1>7, AVLOpen
<1>9. cl \in Places(node) /\ cr \in Places(node) BY <1>7, GraphIs
<1>10. LET dl == delta(node, cl)  dr == delta(node, cr)  d == delta(node, c)
       IN  /\ dl \in Int /\ dr \in Int
           /\ \/ dl = dr /\ d = dl + 1
              \/ dl = dr + 1 /\ d = dl + 1
              \/ dr = dl + 1 /\ d = dr + 1
  BY <1>7, <1>8, LevelIs
<1>11. /\ Sub(node, a) = {a} \cup Sub(node, l) \cup Sub(node, r)
       /\ Sub(node, l) = {l} \cup Sub(node, ll) \cup Sub(node, c)
       /\ Sub(node, c) = {c} \cup Sub(node, cl) \cup Sub(node, cr)
  BY <1>3, <1>7, SubUnfold
<1>12. /\ Spelt(node, word, Sub(node, l)) /\ Spelt(node, word, Sub(node, c))
  BY <1>1, <1>11 DEF Spelt
<1>13. /\ a \notin Sub(node, l) /\ a \notin Sub(node, r)
       /\ Sub(node, l) \cap Sub(node, r) = {}
  BY <1>1, Apart
<1>14. /\ l \notin Sub(node, ll) /\ l \notin Sub(node, c)
       /\ Sub(node, ll) \cap Sub(node, c) = {}
  BY <1>3, <1>4, <1>12, Apart
<1>15. c \notin Sub(node, cl) /\ c \notin Sub(node, cr)
  BY <1>7, <1>8, <1>12, Apart
<1>. DEFINE S == {a, l, c}
<1>16. /\ S \cap Sub(node, ll) = {} /\ S \cap Sub(node, cl) = {}
       /\ S \cap Sub(node, cr) = {} /\ S \cap Sub(node, r) = {}
  <2>1. c \in Sub(node, c) /\ c \in Sub(node, l) /\ l \in Sub(node, l)
    BY Zenon, <1>11
  <2>2. a \notin Sub(node, ll) /\ a \notin Sub(node, cl) /\ a \notin Sub(node, cr)
    BY Zenon, <1>11, <1>13
  <2>3. l \notin Sub(node, cl) /\ l \notin Sub(node, cr) /\ l \notin Sub(node, r)
    BY <1>11, <1>13, <1>14, <2>1
  <2>4. c \notin Sub(node, ll) /\ c \notin Sub(node, r)
    BY <1>13, <1>14, <2>1
  <2>. HIDE DEF ll, cl, cr, r
  <2>. QED BY <1>13, <1>14, <1>15, <2>2, <2>3, <2>4
<1>17. {ll, cl, cr, r} \cap S = {}
  <2>1. \A b \in {ll, cl, cr, r} : b # NULL => b \in Sub(node, b)
    BY <1>2, <1>6, <1>9, SubSelf DEF Places
  <2>2. a # NULL BY GraphIs
  <2>. QED BY <1>3, <1>7, <1>16, <2>1, <2>2
<1>18. l # a /\ c # a /\ c # l BY <1>3, <1>7, <1>11, <1>13, <1>14, SubSelf
<1>19. /\ x.root = c /\ Kept(node, g, S)
       /\ g[l].left = ll /\ g[l].right = cl
       /\ g[a].left = cr /\ g[a].right = r
       /\ g[c].left = l /\ g[c].right = a
       /\ g[l].depth = depth(g, g[l].left, g[l].right)
       /\ g[a].depth = depth(g, g[a].left, g[a].right)
       /\ g[c].depth = depth(g, g[c].left, g[c].right)
  BY <1>3, <1>7, <1>17, <1>18, RotateLeftRightIs
<1>. HIDE DEF x
<1>20. /\ Sub(g, ll) = Sub(node, ll) /\ delta(g, ll) = delta(node, ll)
       /\ Sub(g, cl) = Sub(node, cl) /\ delta(g, cl) = delta(node, cl)
       /\ Sub(g, cr) = Sub(node, cr) /\ delta(g, cr) = delta(node, cr)
       /\ Sub(g, r) = Sub(node, r) /\ delta(g, r) = delta(node, r)
       /\ AVL(g, word, ll) /\ AVL(g, word, cl)
       /\ AVL(g, word, cr) /\ AVL(g, word, r)
  <2>. HIDE DEF g, ll, cl, cr, r, S
  <2>1. /\ Sub(g, ll) = Sub(node, ll) /\ delta(g, ll) = delta(node, ll)
        /\ AVL(g, word, ll)
    BY <1>4, <1>6, <1>16, <1>19, KeptTree
  <2>2. /\ Sub(g, cl) = Sub(node, cl) /\ delta(g, cl) = delta(node, cl)
        /\ AVL(g, word, cl)
    BY <1>8, <1>9, <1>16, <1>19, KeptTree
  <2>3. /\ Sub(g, cr) = Sub(node, cr) /\ delta(g, cr) = delta(node, cr)
        /\ AVL(g, word, cr)
    BY <1>8, <1>9, <1>16, <1>19, KeptTree
  <2>4. /\ Sub(g, r) = Sub(node, r) /\ delta(g, r) = delta(node, r)
        /\ AVL(g, word, r)
    BY <1>1, <1>2, <1>16, <1>19, KeptTree
  <2>. QED BY <2>1, <2>2, <2>3, <2>4
<1>21. Graph(g) /\ DOMAIN g = DOMAIN node BY <1>19 DEF Kept
<1>22. \A b \in DOMAIN node : Key(g, word, b) = Key(node, word, b)
  BY <1>19, KeptKeys
<1>23. /\ delta(g, a) = g[a].depth /\ delta(g, l) = g[l].depth
       /\ delta(g, c) = g[c].depth
  BY <1>3, <1>7, GraphIs DEF delta
<1>. DEFINE D == delta(node, l)
<1>24. /\ delta(node, ll) = D - 2 /\ delta(node, r) = D - 2 /\ D \in Int
       /\ delta(node, cl) \in {D - 2, D - 3}
       /\ delta(node, cr) \in {D - 2, D - 3}
  <2>1. delta(node, r) = D - 2 BY <1>2, <1>5
  <2>2. /\ delta(node, cl) \in {D - 2, D - 3}
        /\ delta(node, cr) \in {D - 2, D - 3}
    <3>. HIDE DEF c, cl, cr
    <3>. QED BY <1>5, <1>10
  <2>. QED BY <1>5, <2>1, <2>2
<1>25. /\ delta(g, l) = depth(g, ll, cl) /\ delta(g, a) = depth(g, cr, r)
       /\ delta(g, c) = depth(g, l, a)
       /\ balance(g, l) = delta(g, ll) - delta(g, cl)
       /\ balance(g, a) = delta(g, cr) - delta(g, r)
       /\ balance(g, c) = delta(g, l) - delta(g, a)
  BY <1>19, <1>23 DEF balance
<1>26. delta(g, l) = D - 1 /\ delta(g, a) = D - 1
  <2>. HIDE DEF g, ll, cl, cr, r, D, c
  <2>. QED BY <1>20, <1>24, <1>25 DEF depth
<1>27. /\ delta(g, c) = D /\ balance(g, l) \in -1 .. 1
       /\ balance(g, a) \in -1 .. 1 /\ balance(g, c) \in -1 .. 1
  <2>. HIDE DEF g, ll, cl, cr, r, D, c
  <2>. QED BY <1>20, <1>24, <1>25, <1>26 DEF depth
<1>28. Level(g, a) /\ Level(g, l) /\ Level(g, c)
  BY <1>19, <1>27 DEF Level
<1>29. \A b \in Sub(node, a) : b \in DOMAIN node /\ Key(node, word, b) \in Nat
  BY <1>1, SubIn DEF Spelt
<1>30. {a, l, c} \subseteq Sub(node, a) BY <1>11
<1>31. Key(node, word, l) < Key(node, word, c) BY Zenon, <1>4, <1>11 DEF Ordered
<1>32. Key(node, word, c) < Key(node, word, a) BY <1>1, <1>11 DEF Ordered
<1>33. \A b \in Sub(node, ll) : Key(node, word, b) < Key(node, word, l)
  BY Zenon, <1>4 DEF Ordered
<1>34. \A b \in Sub(node, cl) : Key(node, word, l) < Key(node, word, b)
  BY Zenon, <1>4, <1>11 DEF Ordered
<1>35. \A b \in Sub(node, cl) : Key(node, word, b) < Key(node, word, c)
  BY <1>8 DEF Ordered
<1>36. \A b \in Sub(node, cr) : Key(node, word, c) < Key(node, word, b)
  BY Zenon, <1>8 DEF Ordered
<1>37. \A b \in Sub(node, cr) : Key(node, word, b) < Key(node, word, a)
  BY <1>1, <1>11 DEF Ordered
<1>38. \A b \in Sub(node, r) : Key(node, word, a) < Key(node, word, b)
  BY <1>1 DEF Ordered
<1>39. \A b \in Sub(node, ll) : Key(node, word, b) < Key(node, word, c)
  <2>. HIDE DEF ll, c
  <2>. QED BY <1>11, <1>29, <1>30, <1>31, <1>33
<1>40. \A b \in Sub(node, r) : Key(node, word, c) < Key(node, word, b)
  <2>. HIDE DEF r, c
  <2>. QED BY <1>11, <1>29, <1>30, <1>32, <1>38
<1>50. \A b \in Sub(node, a) : Key(g, word, b) = Key(node, word, b)
  BY Zenon, <1>22, <1>29
<1>51. /\ Sub(node, ll) \subseteq Sub(node, a) /\ Sub(node, cl) \subseteq Sub(node, a)
       /\ Sub(node, cr) \subseteq Sub(node, a) /\ Sub(node, r) \subseteq Sub(node, a)
  BY <1>11
<1>41. Ordered(g, word, l)
  <2>1. \A b \in Sub(node, ll) : Key(g, word, b) < Key(g, word, l)
    BY <1>30, <1>33, <1>50, <1>51
  <2>2. \A b \in Sub(node, cl) : Key(g, word, l) < Key(g, word, b)
    BY <1>30, <1>34, <1>50, <1>51
  <2>. QED BY Zenon, <1>19, <1>20, <2>1, <2>2 DEF Ordered
<1>42. Ordered(g, word, a)
  <2>1. \A b \in Sub(node, cr) : Key(g, word, b) < Key(g, word, a)
    BY <1>30, <1>37, <1>50, <1>51
  <2>2. \A b \in Sub(node, r) : Key(g, word, a) < Key(g, word, b)
    BY <1>30, <1>38, <1>50, <1>51
  <2>. QED BY Zenon, <1>19, <1>20, <2>1, <2>2 DEF Ordered
<1>43. /\ AVL(g, word, l) /\ Sub(g, l) = {l} \cup Sub(node, ll) \cup Sub(node, cl)
  <2>1. /\ l \in DOMAIN g /\ AVL(g, word, g[l].left) /\ AVL(g, word, g[l].right)
        /\ Level(g, l)
    BY <1>3, <1>19, <1>20, <1>21, <1>28
  <2>2. AVL(g, word, l) BY <1>21, <1>41, <2>1, AVLBuild
  <2>3. Sub(g, l) = {l} \cup Sub(g, g[l].left) \cup Sub(g, g[l].right)
    BY <1>21, <2>1, SubUnfold
  <2>. QED BY Zenon, <1>19, <1>20, <2>2, <2>3
<1>44. /\ AVL(g, word, a) /\ Sub(g, a) = {a} \cup Sub(node, cr) \cup Sub(node, r)
  <2>1. /\ a \in DOMAIN g /\ AVL(g, word, g[a].left) /\ AVL(g, word, g[a].right)
        /\ Level(g, a)
    BY <1>3, <1>19, <1>20, <1>21, <1>28
  <2>2. AVL(g, word, a) BY <1>21, <1>42, <2>1, AVLBuild
  <2>3. Sub(g, a) = {a} \cup Sub(g, g[a].left) \cup Sub(g, g[a].right)
    BY Zenon, <1>21, <2>1, SubUnfold
  <2>. QED BY Zenon, <1>19, <1>20, <2>2, <2>3
<1>45. Ordered(g, word, c)
  <2>1. \A b \in Sub(g, l) : Key(g, word, b) < Key(g, word, c)
    <3>1. \A b \in Sub(node, ll) \cup Sub(node, cl) \cup {l} :
            b \in Sub(node, a) /\ Key(node, word, b) < Key(node, word, c)
      BY <1>30, <1>31, <1>35, <1>39, <1>51
    <3>. QED BY <1>30, <1>43, <1>50, <3>1
  <2>2. \A b \in Sub(g, a) : Key(g, word, c) < Key(g, word, b)
    <3>1. \A b \in Sub(node, cr) \cup Sub(node, r) \cup {a} :
            b \in Sub(node, a) /\ Key(node, word, c) < Key(node, word, b)
      BY <1>30, <1>32, <1>36, <1>40, <1>51
    <3>. QED BY <1>30, <1>44, <1>50, <3>1
  <2>. QED BY <1>19, <2>1, <2>2 DEF Ordered
<1>46. AVL(g, word, c)
  <2>1. /\ c \in DOMAIN g /\ AVL(g, word, g[c].left) /\ AVL(g, word, g[c].right)
        /\ Level(g, c)
    BY Zenon, <1>7, <1>19, <1>21, <1>28, <1>43, <1>44
  <2>. QED BY Zenon, <1>21, <1>45, <2>1, AVLBuild
<1>47. Sub(g, c) = Sub(node, a)
  <2>1. c \in DOMAIN g BY <1>7, <1>21
  <2>2. Sub(g, c) = {c} \cup Sub(g, g[c].left) \cup Sub(g, g[c].right)
    BY Zenon, <1>21, <2>1, SubUnfold
  <2>3. Sub(g, c) = {c} \cup Sub(g, l) \cup Sub(g, a) BY Zenon, <1>19, <2>2
  <2>. QED BY <1>11, <1>43, <1>44, <2>3
<1>48. Kept(node, g, Sub(node, a)) BY <1>19, <1>30 DEF Kept
<1>49. Turned(node, word, a, x) BY <1>7, <1>19, <1>46, <1>47, <1>48 DEF Turned
<1>. QED BY <1>19, <1>27, <1>49 DEF x

(* The right side is the deeper by two, and leans to the left. *)
LEMMA RotatedRightLeft ==
  ASSUME NEW node, Graph(node), NEW word, NEW a \in DOMAIN node,
         Between(node, word, a),
         NEW r, r = node[a].right,
         delta(node, r) = delta(node, node[a].left) + 2,
         balance(node, r) > 0
  PROVE  LET x == rotate_right_left(node, a)
         IN  /\ Turned(node, word, a, x)
             /\ delta(x.node, x.root) = delta(node, r)
<1>. DEFINE l == node[a].left
            rr == node[r].right
            c == node[r].left
            cr == node[c].right
            cl == node[c].left
            x == rotate_right_left(node, a)
            g == x.node
<1>1. /\ AVL(node, word, r) /\ AVL(node, word, l)
      /\ Ordered(node, word, a) /\ Spelt(node, word, Sub(node, a))
  BY DEF Between
<1>2. r \in Places(node) /\ l \in Places(node) /\ delta(node, l) \in Int
      /\ delta(node, l) >= -1
  BY GraphIs, DeltaIs
<1>3. r \in DOMAIN node /\ r # NULL
  <2>1. delta(node, r) # -1 BY <1>2
  <2>. QED BY <1>2, <2>1 DEF delta, Places
<1>4. /\ AVL(node, word, rr) /\ AVL(node, word, c)
      /\ Level(node, r) /\ Ordered(node, word, r)
  BY <1>1, <1>3, AVLOpen
<1>5. /\ delta(node, r) \in Int /\ delta(node, c) = delta(node, r) - 1
      /\ delta(node, rr) = delta(node, r) - 2 /\ delta(node, rr) >= -1
  <2>1. LET dr == delta(node, rr)  dc == delta(node, c)  d == delta(node, r)
        IN  /\ dr \in Int /\ dc \in Int /\ d \in Int /\ dr >= -1
            /\ balance(node, r) = dc - dr
            /\ \/ dr = dc /\ d = dr + 1
               \/ dr = dc + 1 /\ d = dr + 1
               \/ dc = dr + 1 /\ d = dc + 1
    BY <1>3, <1>4, LevelIs
  <2>. QED BY <2>1
<1>6. rr \in Places(node) /\ c \in Places(node) BY <1>3, GraphIs
<1>7. c \in DOMAIN node /\ c # NULL
  <2>1. delta(node, c) # -1 BY <1>5
  <2>. QED BY <1>6, <2>1 DEF delta, Places
<1>8. /\ AVL(node, word, cr) /\ AVL(node, word, cl)
      /\ Level(node, c) /\ Ordered(node, word, c)
  BY <1>4, <1>7, AVLOpen
<1>9. cr \in Places(node) /\ cl \in Places(node) BY <1>7, GraphIs
<1>10. LET dr == delta(node, cr)  dl == delta(node, cl)  d == delta(node, c)
       IN  /\ dr \in Int /\ dl \in Int
           /\ \/ dr = dl /\ d = dr + 1
              \/ dr = dl + 1 /\ d = dr + 1
              \/ dl = dr + 1 /\ d = dl + 1
  BY <1>7, <1>8, LevelIs
<1>11. /\ Sub(node, a) = {a} \cup Sub(node, r) \cup Sub(node, l)
       /\ Sub(node, r) = {r} \cup Sub(node, rr) \cup Sub(node, c)
       /\ Sub(node, c) = {c} \cup Sub(node, cr) \cup Sub(node, cl)
  BY SMTT(60), <1>3, <1>7, SubUnfold
<1>12. /\ Spelt(node, word, Sub(node, r)) /\ Spelt(node, word, Sub(node, c))
  BY <1>1, <1>11 DEF Spelt
<1>13. /\ a \notin Sub(node, r) /\ a \notin Sub(node, l)
       /\ Sub(node, r) \cap Sub(node, l) = {}
  BY <1>1, Apart
<1>14. /\ r \notin Sub(node, rr) /\ r \notin Sub(node, c)
       /\ Sub(node, rr) \cap Sub(node, c) = {}
  BY <1>3, <1>4, <1>12, Apart
<1>15. c \notin Sub(node, cr) /\ c \notin Sub(node, cl)
  BY <1>7, <1>8, <1>12, Apart
<1>. DEFINE S == {a, r, c}
<1>16. /\ S \cap Sub(node, rr) = {} /\ S \cap Sub(node, cr) = {}
       /\ S \cap Sub(node, cl) = {} /\ S \cap Sub(node, l) = {}
  <2>1. c \in Sub(node, c) /\ c \in Sub(node, r) /\ r \in Sub(node, r)
    BY Zenon, <1>11
  <2>2. a \notin Sub(node, rr) /\ a \notin Sub(node, cr) /\ a \notin Sub(node, cl)
    BY Zenon, <1>11, <1>13
  <2>3. r \notin Sub(node, cr) /\ r \notin Sub(node, cl) /\ r \notin Sub(node, l)
    BY <1>11, <1>13, <1>14, <2>1
  <2>4. c \notin Sub(node, rr) /\ c \notin Sub(node, l)
    BY <1>13, <1>14, <2>1
  <2>. HIDE DEF rr, cr, cl, l
  <2>. QED BY <1>13, <1>14, <1>15, <2>2, <2>3, <2>4
<1>17. {rr, cr, cl, l} \cap S = {}
  <2>1. \A b \in {rr, cr, cl, l} : b # NULL => b \in Sub(node, b)
    BY <1>2, <1>6, <1>9, SubSelf DEF Places
  <2>2. a # NULL BY GraphIs
  <2>. QED BY <1>3, <1>7, <1>16, <2>1, <2>2
<1>18. r # a /\ c # a /\ c # r BY <1>3, <1>7, <1>11, <1>13, <1>14, SubSelf
<1>19. /\ x.root = c /\ Kept(node, g, S)
       /\ g[r].right = rr /\ g[r].left = cr
       /\ g[a].right = cl /\ g[a].left = l
       /\ g[c].right = r /\ g[c].left = a
       /\ g[r].depth = depth(g, g[r].left, g[r].right)
       /\ g[a].depth = depth(g, g[a].left, g[a].right)
       /\ g[c].depth = depth(g, g[c].left, g[c].right)
  BY <1>3, <1>7, <1>17, <1>18, RotateRightLeftIs
<1>. HIDE DEF x
<1>20. /\ Sub(g, rr) = Sub(node, rr) /\ delta(g, rr) = delta(node, rr)
       /\ Sub(g, cr) = Sub(node, cr) /\ delta(g, cr) = delta(node, cr)
       /\ Sub(g, cl) = Sub(node, cl) /\ delta(g, cl) = delta(node, cl)
       /\ Sub(g, l) = Sub(node, l) /\ delta(g, l) = delta(node, l)
       /\ AVL(g, word, rr) /\ AVL(g, word, cr)
       /\ AVL(g, word, cl) /\ AVL(g, word, l)
  <2>. HIDE DEF g, rr, cr, cl, l, S
  <2>1. /\ Sub(g, rr) = Sub(node, rr) /\ delta(g, rr) = delta(node, rr)
        /\ AVL(g, word, rr)
    BY <1>4, <1>6, <1>16, <1>19, KeptTree
  <2>2. /\ Sub(g, cr) = Sub(node, cr) /\ delta(g, cr) = delta(node, cr)
        /\ AVL(g, word, cr)
    BY <1>8, <1>9, <1>16, <1>19, KeptTree
  <2>3. /\ Sub(g, cl) = Sub(node, cl) /\ delta(g, cl) = delta(node, cl)
        /\ AVL(g, word, cl)
    BY <1>8, <1>9, <1>16, <1>19, KeptTree
  <2>4. /\ Sub(g, l) = Sub(node, l) /\ delta(g, l) = delta(node, l)
        /\ AVL(g, word, l)
    BY <1>1, <1>2, <1>16, <1>19, KeptTree
  <2>. QED BY <2>1, <2>2, <2>3, <2>4
<1>21. Graph(g) /\ DOMAIN g = DOMAIN node BY <1>19 DEF Kept
<1>22. \A b \in DOMAIN node : Key(g, word, b) = Key(node, word, b)
  BY <1>19, KeptKeys
<1>23. /\ delta(g, a) = g[a].depth /\ delta(g, r) = g[r].depth
       /\ delta(g, c) = g[c].depth
  BY <1>3, <1>7, GraphIs DEF delta
<1>. DEFINE D == delta(node, r)
<1>24. /\ delta(node, rr) = D - 2 /\ delta(node, l) = D - 2 /\ D \in Int
       /\ delta(node, cr) \in {D - 2, D - 3}
       /\ delta(node, cl) \in {D - 2, D - 3}
  <2>1. delta(node, l) = D - 2 BY <1>2, <1>5
  <2>2. /\ delta(node, cr) \in {D - 2, D - 3}
        /\ delta(node, cl) \in {D - 2, D - 3}
    <3>. HIDE DEF c, cr, cl
    <3>. QED BY <1>5, <1>10
  <2>. QED BY <1>5, <2>1, <2>2
<1>25. /\ delta(g, r) = depth(g, cr, rr) /\ delta(g, a) = depth(g, l, cl)
       /\ delta(g, c) = depth(g, a, r)
       /\ balance(g, r) = delta(g, cr) - delta(g, rr)
       /\ balance(g, a) = delta(g, l) - delta(g, cl)
       /\ balance(g, c) = delta(g, a) - delta(g, r)
  BY <1>19, <1>23 DEF balance
<1>26. delta(g, r) = D - 1 /\ delta(g, a) = D - 1
  <2>. HIDE DEF g, rr, cr, cl, l, D, c
  <2>. QED BY <1>20, <1>24, <1>25 DEF depth
<1>27. /\ delta(g, c) = D /\ balance(g, r) \in -1 .. 1
       /\ balance(g, a) \in -1 .. 1 /\ balance(g, c) \in -1 .. 1
  <2>. HIDE DEF g, rr, cr, cl, l, D, c
  <2>. QED BY <1>20, <1>24, <1>25, <1>26 DEF depth
<1>28. Level(g, a) /\ Level(g, r) /\ Level(g, c)
  BY <1>19, <1>27 DEF Level
<1>29. \A b \in Sub(node, a) : b \in DOMAIN node /\ Key(node, word, b) \in Nat
  BY <1>1, SubIn DEF Spelt
<1>30. {a, r, c} \subseteq Sub(node, a) BY <1>11
<1>31. Key(node, word, c) < Key(node, word, r) BY Zenon, <1>4, <1>11 DEF Ordered
<1>32. Key(node, word, a) < Key(node, word, c) BY <1>1, <1>11 DEF Ordered
<1>33. \A b \in Sub(node, rr) : Key(node, word, r) < Key(node, word, b)
  BY <1>4 DEF Ordered
<1>34. \A b \in Sub(node, cr) : Key(node, word, b) < Key(node, word, r)
  BY <1>4, <1>11 DEF Ordered
<1>35. \A b \in Sub(node, cr) : Key(node, word, c) < Key(node, word, b)
  BY <1>8 DEF Ordered
<1>36. \A b \in Sub(node, cl) : Key(node, word, b) < Key(node, word, c)
  BY Zenon, <1>8 DEF Ordered
<1>37. \A b \in Sub(node, cl) : Key(node, word, a) < Key(node, word, b)
  BY <1>1, <1>11 DEF Ordered
<1>38. \A b \in Sub(node, l) : Key(node, word, b) < Key(node, word, a)
  BY <1>1 DEF Ordered
<1>39. \A b \in Sub(node, rr) : Key(node, word, c) < Key(node, word, b)
  <2>. HIDE DEF rr, c
  <2>. QED BY <1>11, <1>29, <1>30, <1>31, <1>33
<1>40. \A b \in Sub(node, l) : Key(node, word, b) < Key(node, word, c)
  <2>. HIDE DEF l, c
  <2>. QED BY <1>11, <1>29, <1>30, <1>32, <1>38
<1>50. \A b \in Sub(node, a) : Key(g, word, b) = Key(node, word, b)
  BY Zenon, <1>22, <1>29
<1>51. /\ Sub(node, rr) \subseteq Sub(node, a) /\ Sub(node, cr) \subseteq Sub(node, a)
       /\ Sub(node, cl) \subseteq Sub(node, a) /\ Sub(node, l) \subseteq Sub(node, a)
  BY <1>11
<1>41. Ordered(g, word, r)
  <2>1. \A b \in Sub(node, rr) : Key(g, word, r) < Key(g, word, b)
    BY <1>30, <1>33, <1>50, <1>51
  <2>2. \A b \in Sub(node, cr) : Key(g, word, b) < Key(g, word, r)
    BY <1>30, <1>34, <1>50, <1>51
  <2>. QED BY Zenon, <1>19, <1>20, <2>1, <2>2 DEF Ordered
<1>42. Ordered(g, word, a)
  <2>1. \A b \in Sub(node, cl) : Key(g, word, a) < Key(g, word, b)
    BY <1>30, <1>37, <1>50, <1>51
  <2>2. \A b \in Sub(node, l) : Key(g, word, b) < Key(g, word, a)
    BY <1>30, <1>38, <1>50, <1>51
  <2>. QED BY Zenon, <1>19, <1>20, <2>1, <2>2 DEF Ordered
<1>43. /\ AVL(g, word, r) /\ Sub(g, r) = {r} \cup Sub(node, rr) \cup Sub(node, cr)
  <2>1. /\ r \in DOMAIN g /\ AVL(g, word, g[r].right) /\ AVL(g, word, g[r].left)
        /\ Level(g, r)
    BY <1>3, <1>19, <1>20, <1>21, <1>28
  <2>2. AVL(g, word, r) BY <1>21, <1>41, <2>1, AVLBuild
  <2>3. Sub(g, r) = {r} \cup Sub(g, g[r].right) \cup Sub(g, g[r].left)
    BY <1>21, <2>1, SubUnfold
  <2>. QED BY ZenonT(60), <1>19, <1>20, <2>2, <2>3
<1>44. /\ AVL(g, word, a) /\ Sub(g, a) = {a} \cup Sub(node, cl) \cup Sub(node, l)
  <2>1. /\ a \in DOMAIN g /\ AVL(g, word, g[a].right) /\ AVL(g, word, g[a].left)
        /\ Level(g, a)
    BY <1>3, <1>19, <1>20, <1>21, <1>28
  <2>2. AVL(g, word, a) BY <1>21, <1>42, <2>1, AVLBuild
  <2>3. Sub(g, a) = {a} \cup Sub(g, g[a].right) \cup Sub(g, g[a].left)
    BY SMTT(60), <1>21, <2>1, SubUnfold
  <2>. QED BY Zenon, <1>19, <1>20, <2>2, <2>3
<1>45. Ordered(g, word, c)
  <2>1. \A b \in Sub(g, r) : Key(g, word, c) < Key(g, word, b)
    <3>1. \A b \in Sub(node, rr) \cup Sub(node, cr) \cup {r} :
            b \in Sub(node, a) /\ Key(node, word, c) < Key(node, word, b)
      BY <1>30, <1>31, <1>35, <1>39, <1>51
    <3>. QED BY <1>30, <1>43, <1>50, <3>1
  <2>2. \A b \in Sub(g, a) : Key(g, word, b) < Key(g, word, c)
    <3>1. \A b \in Sub(node, cl) \cup Sub(node, l) \cup {a} :
            b \in Sub(node, a) /\ Key(node, word, b) < Key(node, word, c)
      BY <1>30, <1>32, <1>36, <1>40, <1>51
    <3>. QED BY <1>30, <1>44, <1>50, <3>1
  <2>. QED BY <1>19, <2>1, <2>2 DEF Ordered
<1>46. AVL(g, word, c)
  <2>1. /\ c \in DOMAIN g /\ AVL(g, word, g[c].right) /\ AVL(g, word, g[c].left)
        /\ Level(g, c)
    BY Zenon, <1>7, <1>19, <1>21, <1>28, <1>43, <1>44
  <2>. QED BY Zenon, <1>21, <1>45, <2>1, AVLBuild
<1>47. Sub(g, c) = Sub(node, a)
  <2>1. c \in DOMAIN g BY <1>7, <1>21
  <2>2. Sub(g, c) = {c} \cup Sub(g, g[c].right) \cup Sub(g, g[c].left)
    BY SMTT(60), <1>21, <2>1, SubUnfold
  <2>3. Sub(g, c) = {c} \cup Sub(g, r) \cup Sub(g, a) BY <1>19, <2>2
  <2>. QED BY <1>11, <1>43, <1>44, <2>3
<1>48. Kept(node, g, Sub(node, a)) BY <1>19, <1>30 DEF Kept
<1>49. Turned(node, word, a, x) BY <1>7, <1>19, <1>46, <1>47, <1>48 DEF Turned
<1>. QED BY <1>19, <1>27, <1>49 DEF x

-----------------------------------------------------------------------------
(* The end of an insertion and of a removal *)

LEMMA SetDepthSame ==
  ASSUME NEW node, Graph(node), NEW a \in DOMAIN node,
         node[a].depth = depth(node, node[a].left, node[a].right)
  PROVE  SetDepth(node, a) = node
<1>1. [node[a] EXCEPT !.depth = node[a].depth] = node[a]
  BY GraphIs DEF Node
<1>2. SetDepth(node, a) = [node EXCEPT ![a] = [node[a] EXCEPT !.depth =
                             depth(node, node[a].left, node[a].right)]]
  BY DEF SetDepth
<1>3. node = [b \in DOMAIN node |-> node[b]] BY DEF Graph
<1>4. SetDepth(node, a) = [node EXCEPT ![a] = node[a]] BY Zenon, <1>1, <1>2
<1>. QED BY <1>3, <1>4

LEMMA KeptTwice ==
  ASSUME NEW node, NEW g, NEW h, NEW S, NEW T,
         Kept(node, g, S), Kept(g, h, T)
  PROVE  Kept(node, h, S \cup T)
BY DEF Kept

LEMMA KeptMore ==
  ASSUME NEW node, NEW g, NEW S, NEW T, Kept(node, g, S), S \subseteq T
  PROVE  Kept(node, g, T)
BY DEF Kept

LEMMA KeptSelf ==
  ASSUME NEW node, Graph(node), NEW S PROVE Kept(node, node, S)
BY DEF Kept

(* The end of remove_node() turns a tree whose sides differ by two. *)
LEMMA RebalancedIs ==
  ASSUME NEW node, Graph(node), NEW word, NEW a \in DOMAIN node,
         Between(node, word, a),
         node[a].depth = depth(node, node[a].left, node[a].right),
         balance(node, a) \in -2 .. 2
  PROVE  LET x == Rebalanced(node, a)
             d == delta(x.node, x.root)
         IN  /\ Turned(node, word, a, x)
             /\ d \in {node[a].depth, node[a].depth - 1}
             /\ balance(node, a) \in -1 .. 1 => d = node[a].depth
<1>. DEFINE l == node[a].left
            r == node[a].right
            x == Rebalanced(node, a)
            d == delta(x.node, x.root)
<1>1. /\ l \in Places(node) /\ r \in Places(node)
      /\ delta(node, l) \in Int /\ delta(node, r) \in Int
      /\ delta(node, l) >= -1 /\ delta(node, r) >= -1
  BY GraphIs, DeltaIs
<1>2. /\ balance(node, a) = delta(node, l) - delta(node, r)
      /\ node[a].depth = IF delta(node, l) > delta(node, r)
                         THEN delta(node, l) + 1 ELSE delta(node, r) + 1
  BY DEF balance, depth
<1>3. CASE balance(node, a) \in -1 .. 1
  <2>1. x = Top(node, a)
    <3>1. ~(balance(node, a) > 1) /\ ~(balance(node, a) < -1) BY <1>3
    <3>. QED BY <3>1 DEF Rebalanced
  <2>2. x.node = node /\ x.root = a BY <2>1 DEF Top
  <2>3. AVL(node, word, a) BY <1>3, AVLBuild DEF Between, Level
  <2>4. Turned(node, word, a, x) BY <2>2, <2>3, KeptSelf DEF Turned
  <2>5. d = node[a].depth BY <2>2, GraphIs DEF delta
  <2>. QED BY <2>4, <2>5
<1>4. CASE balance(node, a) = 2
  <2>1. /\ delta(node, l) = delta(node, r) + 2
        /\ node[a].depth = delta(node, l) + 1
    <3>. HIDE DEF l, r
    <3>. QED BY <1>1, <1>2, <1>4
  <2>2. l \in DOMAIN node
    <3>1. delta(node, l) # -1 BY <1>1, <2>1
    <3>. QED BY <1>1, <3>1 DEF delta, Places
  <2>3. balance(node, l) \in Int
    <3>1. AVL(node, word, l) BY DEF Between
    <3>2. Level(node, l) BY <2>2, <3>1, AVLOpen
    <3>. QED BY <3>2 DEF Level
  <2>4. CASE balance(node, l) >= 0
    <3>1. x = rotate_right(node, a) BY <1>4, <2>4 DEF Rebalanced
    <3>2. /\ Turned(node, word, a, x)
          /\ d = IF balance(node, l) = 0 THEN delta(node, l) + 1
                                         ELSE delta(node, l)
      BY <2>1, <2>4, <3>1, RotatedRight
    <3>. HIDE DEF x, d, l
    <3>3. d \in {node[a].depth, node[a].depth - 1}
      BY <1>1, <2>1, <3>2
    <3>4. ~(balance(node, a) \in -1 .. 1) BY <1>4
    <3>. QED BY <3>2, <3>3, <3>4 DEF x, d
  <2>5. CASE balance(node, l) < 0
    <3>1. x = rotate_left_right(node, a)
      <4>1. ~(balance(node, l) >= 0) BY <2>3, <2>5
      <4>. QED BY <1>4, <4>1 DEF Rebalanced
    <3>2. /\ Turned(node, word, a, x) /\ d = delta(node, l)
      BY <2>1, <2>5, <3>1, RotatedLeftRight
    <3>. HIDE DEF x, d, l
    <3>3. d \in {node[a].depth, node[a].depth - 1}
      BY <1>1, <2>1, <3>2
    <3>4. ~(balance(node, a) \in -1 .. 1) BY <1>4
    <3>. QED BY <3>2, <3>3, <3>4 DEF x, d
  <2>. QED BY <2>3, <2>4, <2>5
<1>5. CASE balance(node, a) = -2
  <2>1. /\ delta(node, r) = delta(node, l) + 2
        /\ node[a].depth = delta(node, r) + 1
    <3>. HIDE DEF l, r
    <3>. QED BY <1>1, <1>2, <1>5
  <2>2. r \in DOMAIN node
    <3>1. delta(node, r) # -1 BY <1>1, <2>1
    <3>. QED BY <1>1, <3>1 DEF delta, Places
  <2>3. balance(node, r) \in Int
    <3>1. AVL(node, word, r) BY DEF Between
    <3>2. Level(node, r) BY <2>2, <3>1, AVLOpen
    <3>. QED BY <3>2 DEF Level
  <2>4. CASE balance(node, r) <= 0
    <3>1. x = rotate_left(node, a) BY <1>5, <2>4 DEF Rebalanced
    <3>2. /\ Turned(node, word, a, x)
          /\ d = IF balance(node, r) = 0 THEN delta(node, r) + 1
                                         ELSE delta(node, r)
      BY <2>1, <2>4, <3>1, RotatedLeft
    <3>. HIDE DEF x, d, r
    <3>3. d \in {node[a].depth, node[a].depth - 1}
      BY <1>1, <2>1, <3>2
    <3>4. ~(balance(node, a) \in -1 .. 1) BY <1>5
    <3>. QED BY <3>2, <3>3, <3>4 DEF x, d
  <2>5. CASE balance(node, r) > 0
    <3>1. x = rotate_right_left(node, a)
      <4>1. ~(balance(node, r) <= 0) BY <2>3, <2>5
      <4>. QED BY <1>5, <4>1 DEF Rebalanced
    <3>2. /\ Turned(node, word, a, x) /\ d = delta(node, r)
      BY <2>1, <2>5, <3>1, RotatedRightLeft
    <3>. HIDE DEF x, d, r
    <3>3. d \in {node[a].depth, node[a].depth - 1}
      BY <1>1, <2>1, <3>2
    <3>4. ~(balance(node, a) \in -1 .. 1) BY <1>5
    <3>. QED BY <3>2, <3>3, <3>4 DEF x, d
  <2>. QED BY <2>3, <2>4, <2>5
<1>6. balance(node, a) \in -1 .. 1 \/ balance(node, a) = 2 \/ balance(node, a) = -2
  OBVIOUS
<1>. QED BY <1>3, <1>4, <1>5, <1>6

(* The words of T come before that of a, or after it. *)
Lower(node, word, a, T) ==
  \A b \in T : /\ Key(node, word, b) \in Nat
              /\ Key(node, word, b) < Key(node, word, a)

Upper(node, word, a, T) ==
  \A b \in T : /\ Key(node, word, b) \in Nat
              /\ Key(node, word, a) < Key(node, word, b)

(* The tree below t of g, which differs from node in S, fits below a. *)
FitsLeft(node, word, a, g, S, t) ==
  /\ Kept(node, g, S) /\ a \notin S /\ t \in Places(node)
  /\ AVL(g, word, t) /\ AVL(node, word, node[a].right)
  /\ S \cap Sub(node, node[a].right) = {}
  /\ Lower(node, word, a, Sub(g, t))
  /\ Upper(node, word, a, Sub(node, node[a].right))
  /\ Key(node, word, a) \in Nat

FittedLeft(node, word, a, g, S, t, put) ==
  LET r == node[a].right
  IN  /\ Kept(node, put, S \cup {a}) /\ Between(put, word, a)
      /\ put[a].left = t /\ put[a].right = r /\ put[a].depth = node[a].depth
      /\ delta(put, t) = delta(g, t) /\ delta(put, r) = delta(node, r)
      /\ AVL(put, word, t) /\ AVL(put, word, r)
      /\ Sub(put, a) = {a} \cup Sub(g, t) \cup Sub(node, r)
      /\ Sub(put, t) = Sub(g, t) /\ a \notin Sub(g, t)

LEMMA PutLeft ==
  ASSUME NEW node, Graph(node), NEW word, NEW a \in DOMAIN node,
         NEW g, NEW S, NEW t, FitsLeft(node, word, a, g, S, t)
  PROVE  FittedLeft(node, word, a, g, S, t, SetLeft(g, a, t))
<1>. DEFINE put == SetLeft(g, a, t)
            r == node[a].right
<1>0. /\ Kept(node, g, S) /\ a \notin S /\ t \in Places(node)
      /\ AVL(g, word, t) /\ AVL(node, word, r)
      /\ S \cap Sub(node, r) = {} /\ Lower(node, word, a, Sub(g, t))
      /\ Upper(node, word, a, Sub(node, r)) /\ Key(node, word, a) \in Nat
  BY DEF FitsLeft
<1>1. /\ Graph(g) /\ DOMAIN g = DOMAIN node /\ Places(g) = Places(node)
      /\ g[a] = node[a]
  BY <1>0 DEF Kept, Places
<1>2. r \in Places(node) BY GraphIs
<1>3. Holds(g, put, a, node[a].depth, t, r) BY <1>0, <1>1, SetLeftIs
<1>. HIDE DEF put
<1>4. /\ Kept(g, put, {a}) /\ Graph(put) /\ DOMAIN put = DOMAIN node
      /\ put[a].left = t /\ put[a].right = r /\ put[a].depth = node[a].depth
  BY <1>1, <1>3 DEF Holds, Kept
<1>5. Kept(node, put, S \cup {a}) BY <1>0, <1>4, KeptTwice
<1>6. a \notin Sub(g, t) /\ a \notin Sub(node, r)
  <2>1. ~(Key(node, word, a) < Key(node, word, a)) BY <1>0
  <2>. QED BY <1>0, <2>1 DEF Lower, Upper
<1>7. /\ Sub(put, t) = Sub(g, t) /\ delta(put, t) = delta(g, t)
      /\ AVL(put, word, t)
  <2>1. {a} \cap Sub(g, t) = {} BY <1>6
  <2>. QED BY <1>0, <1>1, <1>4, <2>1, KeptTree
<1>8. /\ Sub(put, r) = Sub(node, r) /\ delta(put, r) = delta(node, r)
      /\ AVL(put, word, r)
  <2>1. (S \cup {a}) \cap Sub(node, r) = {} BY <1>0, <1>6
  <2>. HIDE DEF r
  <2>2. AVL(node, word, r) BY <1>0
  <2>. QED BY <1>2, <1>5, <2>1, <2>2, KeptTree
<1>9. Sub(put, a) = {a} \cup Sub(g, t) \cup Sub(node, r)
  BY <1>4, <1>7, <1>8, SubUnfold
<1>10. \A b \in DOMAIN node : Key(put, word, b) = Key(node, word, b)
  BY <1>5, KeptKeys
<1>11. /\ \A b \in Sub(g, t) : b \in DOMAIN node
       /\ \A b \in Sub(node, r) : b \in DOMAIN node
  BY <1>1, SubIn
<1>12. Ordered(put, word, a)
  BY <1>0, <1>4, <1>7, <1>8, <1>10, <1>11 DEF Ordered, Lower, Upper
<1>13. Spelt(put, word, Sub(put, a))
  BY <1>0, <1>9, <1>10, <1>11 DEF Spelt, Lower, Upper
<1>14. Between(put, word, a)
  BY <1>4, <1>7, <1>8, <1>12, <1>13 DEF Between
<1>15. FittedLeft(node, word, a, g, S, t, put)
  BY <1>4, <1>5, <1>6, <1>7, <1>8, <1>9, <1>14 DEF FittedLeft
<1>. QED BY <1>15 DEF put

(* The tree below t of g, which differs from node in S, fits below a. *)
FitsRight(node, word, a, g, S, t) ==
  /\ Kept(node, g, S) /\ a \notin S /\ t \in Places(node)
  /\ AVL(g, word, t) /\ AVL(node, word, node[a].left)
  /\ S \cap Sub(node, node[a].left) = {}
  /\ Upper(node, word, a, Sub(g, t))
  /\ Lower(node, word, a, Sub(node, node[a].left))
  /\ Key(node, word, a) \in Nat

FittedRight(node, word, a, g, S, t, put) ==
  LET l == node[a].left
  IN  /\ Kept(node, put, S \cup {a}) /\ Between(put, word, a)
      /\ put[a].right = t /\ put[a].left = l /\ put[a].depth = node[a].depth
      /\ delta(put, t) = delta(g, t) /\ delta(put, l) = delta(node, l)
      /\ AVL(put, word, t) /\ AVL(put, word, l)
      /\ Sub(put, a) = {a} \cup Sub(g, t) \cup Sub(node, l)
      /\ Sub(put, t) = Sub(g, t) /\ a \notin Sub(g, t)

LEMMA PutRight ==
  ASSUME NEW node, Graph(node), NEW word, NEW a \in DOMAIN node,
         NEW g, NEW S, NEW t, FitsRight(node, word, a, g, S, t)
  PROVE  FittedRight(node, word, a, g, S, t, SetRight(g, a, t))
<1>. DEFINE put == SetRight(g, a, t)
            l == node[a].left
<1>0. /\ Kept(node, g, S) /\ a \notin S /\ t \in Places(node)
      /\ AVL(g, word, t) /\ AVL(node, word, l)
      /\ S \cap Sub(node, l) = {} /\ Upper(node, word, a, Sub(g, t))
      /\ Lower(node, word, a, Sub(node, l)) /\ Key(node, word, a) \in Nat
  BY DEF FitsRight
<1>1. /\ Graph(g) /\ DOMAIN g = DOMAIN node /\ Places(g) = Places(node)
      /\ g[a] = node[a]
  BY <1>0 DEF Kept, Places
<1>2. l \in Places(node) BY GraphIs
<1>3. Holds(g, put, a, node[a].depth, l, t) BY <1>0, <1>1, SetRightIs
<1>. HIDE DEF put
<1>4. /\ Kept(g, put, {a}) /\ Graph(put) /\ DOMAIN put = DOMAIN node
      /\ put[a].right = t /\ put[a].left = l /\ put[a].depth = node[a].depth
  BY <1>1, <1>3 DEF Holds, Kept
<1>5. Kept(node, put, S \cup {a}) BY <1>0, <1>4, KeptTwice
<1>6. a \notin Sub(g, t) /\ a \notin Sub(node, l)
  <2>1. ~(Key(node, word, a) < Key(node, word, a)) BY <1>0
  <2>. QED BY <1>0, <2>1 DEF Upper, Lower
<1>7. /\ Sub(put, t) = Sub(g, t) /\ delta(put, t) = delta(g, t)
      /\ AVL(put, word, t)
  <2>1. {a} \cap Sub(g, t) = {} BY <1>6
  <2>. QED BY <1>0, <1>1, <1>4, <2>1, KeptTree
<1>8. /\ Sub(put, l) = Sub(node, l) /\ delta(put, l) = delta(node, l)
      /\ AVL(put, word, l)
  <2>1. (S \cup {a}) \cap Sub(node, l) = {} BY <1>0, <1>6
  <2>. HIDE DEF l
  <2>2. AVL(node, word, l) BY <1>0
  <2>. QED BY <1>2, <1>5, <2>1, <2>2, KeptTree
<1>9. Sub(put, a) = {a} \cup Sub(g, t) \cup Sub(node, l)
  BY <1>4, <1>7, <1>8, SubUnfold
<1>10. \A b \in DOMAIN node : Key(put, word, b) = Key(node, word, b)
  BY <1>5, KeptKeys
<1>11. /\ \A b \in Sub(g, t) : b \in DOMAIN node
       /\ \A b \in Sub(node, l) : b \in DOMAIN node
  BY <1>1, SubIn
<1>12. Ordered(put, word, a)
  BY <1>0, <1>4, <1>7, <1>8, <1>10, <1>11 DEF Ordered, Upper, Lower
<1>13. Spelt(put, word, Sub(put, a))
  BY <1>0, <1>9, <1>10, <1>11 DEF Spelt, Upper, Lower
<1>14. Between(put, word, a)
  BY <1>4, <1>7, <1>8, <1>12, <1>13 DEF Between
<1>15. FittedRight(node, word, a, g, S, t, put)
  BY <1>4, <1>5, <1>6, <1>7, <1>8, <1>9, <1>14 DEF FittedRight
<1>. QED BY <1>15 DEF put

-----------------------------------------------------------------------------
(* On the way up *)

(* A node between two trees gets the depth that they give it. *)
LEMMA Deepened ==
  ASSUME NEW node, Graph(node), NEW word, NEW a \in DOMAIN node,
         Between(node, word, a)
  PROVE  LET h == SetDepth(node, a)  l == node[a].left  r == node[a].right
         IN  /\ Kept(node, h, {a}) /\ Between(h, word, a)
             /\ h[a].left = l /\ h[a].right = r
             /\ h[a].depth = depth(h, l, r) /\ h[a].depth = depth(node, l, r)
             /\ balance(h, a) = balance(node, a)
             /\ Sub(h, a) = Sub(node, a)
<1>. DEFINE h == SetDepth(node, a)
            l == node[a].left
            r == node[a].right
<1>1. /\ AVL(node, word, l) /\ AVL(node, word, r) /\ Ordered(node, word, a)
      /\ Spelt(node, word, Sub(node, a))
  BY DEF Between
<1>2. l \in Places(node) /\ r \in Places(node) BY GraphIs
<1>3. {a} \cap Sub(node, l) = {} /\ {a} \cap Sub(node, r) = {}
  BY <1>1, Apart
<1>4. Holds(node, h, a, depth(node, l, r), l, r) BY SetDepthIs
<1>. HIDE DEF h
<1>5. /\ Kept(node, h, {a}) /\ Graph(h) /\ DOMAIN h = DOMAIN node
      /\ h[a].left = l /\ h[a].right = r /\ h[a].depth = depth(node, l, r)
  BY <1>4 DEF Holds, Kept
<1>6. /\ Sub(h, l) = Sub(node, l) /\ delta(h, l) = delta(node, l)
      /\ AVL(h, word, l)
  <2>. HIDE DEF l
  <2>. QED BY <1>1, <1>2, <1>3, <1>5, KeptTree
<1>7. /\ Sub(h, r) = Sub(node, r) /\ delta(h, r) = delta(node, r)
      /\ AVL(h, word, r)
  <2>. HIDE DEF r
  <2>. QED BY <1>1, <1>2, <1>3, <1>5, KeptTree
<1>8. Sub(node, a) = {a} \cup Sub(node, l) \cup Sub(node, r) BY SubUnfold
<1>9. Sub(h, a) = Sub(node, a) BY <1>5, <1>6, <1>7, <1>8, SubUnfold
<1>10. \A b \in DOMAIN node : Key(h, word, b) = Key(node, word, b)
  BY <1>5, KeptKeys
<1>11. \A b \in Sub(node, a) : b \in DOMAIN node BY SubIn
<1>12. Ordered(h, word, a)
  BY <1>1, <1>5, <1>6, <1>7, <1>8, <1>10, <1>11 DEF Ordered
<1>13. Spelt(h, word, Sub(h, a)) BY <1>1, <1>9, <1>10, <1>11 DEF Spelt
<1>14. Between(h, word, a)
  BY <1>5, <1>6, <1>7, <1>12, <1>13 DEF Between
<1>15. /\ h[a].depth = depth(h, l, r) /\ balance(h, a) = balance(node, a)
  BY <1>5, <1>6, <1>7 DEF depth, balance
<1>. QED BY <1>5, <1>9, <1>14, <1>15 DEF h

(* x is the tree below a without d. *)
Shrunk(node, word, a, x, d) ==
  /\ Kept(node, x.node, Sub(node, a)) /\ x.root \in Places(node)
  /\ d \in Sub(node, a) /\ Sub(x.node, x.root) = Sub(node, a) \ {d}
  /\ AVL(x.node, word, x.root)
  /\ delta(x.node, x.root) \in {delta(node, a), delta(node, a) - 1}

LEMMA ShrinkLeft ==
  ASSUME NEW node, Graph(node), NEW word, NEW a \in DOMAIN node,
         Level(node, a), AVL(node, word, node[a].right),
         NEW x, NEW d, Shrunk(node, word, node[a].left, x, d),
         Lower(node, word, a, Sub(node, node[a].left) \ {d}),
         Upper(node, word, a, Sub(node, node[a].right)),
         Key(node, word, a) \in Nat, a \notin Sub(node, node[a].left),
         Sub(node, node[a].left) \cap Sub(node, node[a].right) = {}
  PROVE  LET h == SetDepth(SetLeft(x.node, a, x.root), a)
         IN  Shrunk(node, word, a, Rebalanced(h, a), d)
<1>. DEFINE l == node[a].left
            r == node[a].right
            g == x.node
            t == x.root
            S == Sub(node, l)
            put == SetLeft(g, a, t)
            h == SetDepth(put, a)
            y == Rebalanced(h, a)
<1>1. /\ Kept(node, g, S) /\ t \in Places(node) /\ d \in S
      /\ Sub(g, t) = S \ {d} /\ AVL(g, word, t)
      /\ delta(g, t) \in {delta(node, l), delta(node, l) - 1}
  BY DEF Shrunk
<1>2. l \in Places(node) /\ r \in Places(node) BY GraphIs
<1>3. /\ AVL(node, word, r) /\ a \notin S /\ S \cap Sub(node, r) = {}
      /\ Lower(node, word, a, Sub(g, t)) /\ Upper(node, word, a, Sub(node, r))
  BY <1>1
<1>. HIDE DEF g, t, S, l
<1>4. /\ Kept(node, put, S \cup {a}) /\ Between(put, word, a)
      /\ put[a].left = t /\ put[a].right = r
      /\ delta(put, t) = delta(g, t) /\ delta(put, r) = delta(node, r)
      /\ Sub(put, a) = {a} \cup Sub(g, t) \cup Sub(node, r)
  <2>1. FitsLeft(node, word, a, g, S, t) BY <1>1, <1>3 DEF FitsLeft
  <2>3. FittedLeft(node, word, a, g, S, t, put) BY <2>1, PutLeft
  <2>. HIDE DEF put
  <2>. QED BY <2>3 DEF FittedLeft
<1>. HIDE DEF put
<1>5. Graph(put) /\ DOMAIN put = DOMAIN node /\ a \in DOMAIN put
  BY <1>4 DEF Kept
<1>6. /\ Kept(put, h, {a}) /\ Between(h, word, a)
      /\ h[a].left = t /\ h[a].right = r
      /\ h[a].depth = depth(h, t, r) /\ h[a].depth = depth(put, t, r)
      /\ balance(h, a) = balance(put, a) /\ Sub(h, a) = Sub(put, a)
  BY <1>4, <1>5, Deepened
<1>. HIDE DEF h
<1>7. Graph(h) /\ DOMAIN h = DOMAIN node BY <1>5, <1>6 DEF Kept
<1>8. LET dl == delta(node, l)  dr == delta(node, r)  e == delta(node, a)
      IN  /\ dl \in Int /\ dr \in Int /\ e \in Int
          /\ \/ dl = dr /\ e = dl + 1
             \/ dl = dr + 1 /\ e = dl + 1
             \/ dr = dl + 1 /\ e = dr + 1
  BY LevelIs DEF l
<1>9. /\ balance(h, a) = delta(g, t) - delta(node, r)
      /\ h[a].depth = IF delta(g, t) > delta(node, r)
                      THEN delta(g, t) + 1 ELSE delta(node, r) + 1
  BY <1>4, <1>6 DEF balance, depth
<1>10. delta(g, t) \in Int BY <1>1, <1>8
<1>11. balance(h, a) \in -2 .. 2
  <2>. HIDE DEF r
  <2>. QED BY <1>1, <1>8, <1>9, <1>10
<1>12. /\ Turned(h, word, a, y)
       /\ delta(y.node, y.root) \in {h[a].depth, h[a].depth - 1}
       /\ balance(h, a) \in -1 .. 1 => delta(y.node, y.root) = h[a].depth
  <2>1. h[a].depth = depth(h, h[a].left, h[a].right) BY <1>6
  <2>. QED BY <1>5, <1>6, <1>7, <1>11, <2>1, RebalancedIs
<1>. HIDE DEF y, r
<1>13. delta(y.node, y.root) \in {delta(node, a), delta(node, a) - 1}
  BY <1>1, <1>8, <1>9, <1>10, <1>11, <1>12
<1>14. Sub(node, a) = {a} \cup S \cup Sub(node, r) BY SubUnfold DEF S, l, r
<1>15. Sub(y.node, y.root) = Sub(node, a) \ {d}
  BY <1>1, <1>3, <1>4, <1>6, <1>12, <1>14 DEF Turned
<1>16. Kept(node, y.node, Sub(node, a))
  <2>1. Sub(h, a) \subseteq Sub(node, a)
    BY <1>1, <1>4, <1>6, <1>14
  <2>2. Kept(h, y.node, Sub(node, a)) BY <1>12, <2>1, KeptMore DEF Turned
  <2>3. Kept(node, h, S \cup {a}) BY <1>4, <1>6, KeptTwice, KeptMore
  <2>4. Kept(node, h, Sub(node, a)) BY <1>14, <2>3, KeptMore
  <2>. QED BY <2>2, <2>4, KeptTwice, KeptMore
<1>17. y.root \in Places(node) BY <1>7, <1>12 DEF Turned, Places
<1>18. AVL(y.node, word, y.root) BY <1>12 DEF Turned
<1>19. Shrunk(node, word, a, y, d)
  BY <1>1, <1>13, <1>14, <1>15, <1>16, <1>17, <1>18 DEF Shrunk
<1>. QED BY <1>19 DEF y, h, put, g, t

LEMMA ShrinkRight ==
  ASSUME NEW node, Graph(node), NEW word, NEW a \in DOMAIN node,
         Level(node, a), AVL(node, word, node[a].left),
         NEW x, NEW d, Shrunk(node, word, node[a].right, x, d),
         Upper(node, word, a, Sub(node, node[a].right) \ {d}),
         Lower(node, word, a, Sub(node, node[a].left)),
         Key(node, word, a) \in Nat, a \notin Sub(node, node[a].right),
         Sub(node, node[a].right) \cap Sub(node, node[a].left) = {}
  PROVE  LET h == SetDepth(SetRight(x.node, a, x.root), a)
         IN  Shrunk(node, word, a, Rebalanced(h, a), d)
<1>. DEFINE r == node[a].right
            l == node[a].left
            g == x.node
            t == x.root
            S == Sub(node, r)
            put == SetRight(g, a, t)
            h == SetDepth(put, a)
            y == Rebalanced(h, a)
<1>1. /\ Kept(node, g, S) /\ t \in Places(node) /\ d \in S
      /\ Sub(g, t) = S \ {d} /\ AVL(g, word, t)
      /\ delta(g, t) \in {delta(node, r), delta(node, r) - 1}
  BY DEF Shrunk
<1>2. r \in Places(node) /\ l \in Places(node) BY GraphIs
<1>3. /\ AVL(node, word, l) /\ a \notin S /\ S \cap Sub(node, l) = {}
      /\ Upper(node, word, a, Sub(g, t)) /\ Lower(node, word, a, Sub(node, l))
  BY <1>1
<1>. HIDE DEF g, t, S, r
<1>4. /\ Kept(node, put, S \cup {a}) /\ Between(put, word, a)
      /\ put[a].right = t /\ put[a].left = l
      /\ delta(put, t) = delta(g, t) /\ delta(put, l) = delta(node, l)
      /\ Sub(put, a) = {a} \cup Sub(g, t) \cup Sub(node, l)
  <2>1. FitsRight(node, word, a, g, S, t) BY <1>1, <1>3 DEF FitsRight
  <2>3. FittedRight(node, word, a, g, S, t, put) BY <2>1, PutRight
  <2>. HIDE DEF put
  <2>. QED BY <2>3 DEF FittedRight
<1>. HIDE DEF put
<1>5. Graph(put) /\ DOMAIN put = DOMAIN node /\ a \in DOMAIN put
  BY <1>4 DEF Kept
<1>6. /\ Kept(put, h, {a}) /\ Between(h, word, a)
      /\ h[a].right = t /\ h[a].left = l
      /\ h[a].depth = depth(h, l, t) /\ h[a].depth = depth(put, l, t)
      /\ balance(h, a) = balance(put, a) /\ Sub(h, a) = Sub(put, a)
  BY <1>4, <1>5, Deepened
<1>. HIDE DEF h
<1>7. Graph(h) /\ DOMAIN h = DOMAIN node BY <1>5, <1>6 DEF Kept
<1>8. LET dr == delta(node, r)  dl == delta(node, l)  e == delta(node, a)
      IN  /\ dr \in Int /\ dl \in Int /\ e \in Int
          /\ \/ dr = dl /\ e = dr + 1
             \/ dr = dl + 1 /\ e = dr + 1
             \/ dl = dr + 1 /\ e = dl + 1
  BY LevelIs DEF r
<1>9. /\ balance(h, a) = delta(node, l) - delta(g, t)
      /\ h[a].depth = IF delta(node, l) > delta(g, t)
                      THEN delta(node, l) + 1 ELSE delta(g, t) + 1
  BY <1>4, <1>6 DEF balance, depth
<1>10. delta(g, t) \in Int BY <1>1, <1>8
<1>11. balance(h, a) \in -2 .. 2
  <2>. HIDE DEF l
  <2>. QED BY <1>1, <1>8, <1>9, <1>10
<1>12. /\ Turned(h, word, a, y)
       /\ delta(y.node, y.root) \in {h[a].depth, h[a].depth - 1}
       /\ balance(h, a) \in -1 .. 1 => delta(y.node, y.root) = h[a].depth
  <2>1. h[a].depth = depth(h, h[a].left, h[a].right) BY <1>6
  <2>. QED BY <1>5, <1>6, <1>7, <1>11, <2>1, RebalancedIs
<1>. HIDE DEF y, l
<1>13. delta(y.node, y.root) \in {delta(node, a), delta(node, a) - 1}
  BY <1>1, <1>8, <1>9, <1>10, <1>11, <1>12
<1>14. Sub(node, a) = {a} \cup S \cup Sub(node, l) BY SubUnfold DEF S, r, l
<1>15. Sub(y.node, y.root) = Sub(node, a) \ {d}
  BY <1>1, <1>3, <1>4, <1>6, <1>12, <1>14 DEF Turned
<1>16. Kept(node, y.node, Sub(node, a))
  <2>1. Sub(h, a) \subseteq Sub(node, a)
    BY <1>1, <1>4, <1>6, <1>14
  <2>2. Kept(h, y.node, Sub(node, a)) BY <1>12, <2>1, KeptMore DEF Turned
  <2>3. Kept(node, h, S \cup {a}) BY <1>4, <1>6, KeptTwice, KeptMore
  <2>4. Kept(node, h, Sub(node, a)) BY <1>14, <2>3, KeptMore
  <2>. QED BY <2>2, <2>4, KeptTwice, KeptMore
<1>17. y.root \in Places(node) BY <1>7, <1>12 DEF Turned, Places
<1>18. AVL(y.node, word, y.root) BY <1>12 DEF Turned
<1>19. Shrunk(node, word, a, y, d)
  BY <1>1, <1>13, <1>14, <1>15, <1>16, <1>17, <1>18 DEF Shrunk
<1>. QED BY <1>19 DEF y, h, put, g, t

LEMMA BalanceKept ==
  ASSUME NEW node, Graph(node), NEW g, NEW S, Kept(node, g, S),
         NEW a \in DOMAIN node, S \cap Sub(node, a) = {}
  PROVE  balance(g, a) = balance(node, a)
<1>. DEFINE T == Sub(node, a)
            l == node[a].left
            r == node[a].right
<1>1. a \in T /\ Closed(node, T) BY SubSelf, SubClosed
<1>2. l \in T \cup {NULL} /\ r \in T \cup {NULL} BY <1>1 DEF Closed
<1>3. \A b \in T : g[b] = node[b]
  <2>1. T \subseteq DOMAIN node BY SubIn
  <2>. QED BY <2>1 DEF Kept
<1>. HIDE DEF T
<1>4. delta(g, l) = delta(node, l) /\ delta(g, r) = delta(node, r)
  BY <1>2, <1>3 DEF delta
<1>. QED BY <1>1, <1>3, <1>4 DEF balance

(* x is the tree below a and the node p, which leans towards p where it    *)
(* has become deeper.                                                      *)
Leans(node, word, x, p) ==
  \/ /\ Key(node, word, p) < Key(node, word, x.root)
     /\ balance(x.node, x.root) = 1
  \/ /\ Key(node, word, x.root) < Key(node, word, p)
     /\ balance(x.node, x.root) = -1

Grown(node, word, a, x, p) ==
  /\ Kept(node, x.node, Sub(node, a) \cup {p}) /\ x.root \in DOMAIN node
  /\ Sub(x.node, x.root) = Sub(node, a) \cup {p}
  /\ AVL(x.node, word, x.root)
  /\ \/ delta(x.node, x.root) = delta(node, a)
     \/ /\ delta(x.node, x.root) = delta(node, a) + 1
        /\ a # NULL => Leans(node, word, x, p)

(* The way up from an insertion on the left, and on the right. *)
RaisedLeft(node, word, a, x, p) ==
  LET put == SetLeft(x.node, a, x.root)
      new == IF abs(balance(put, a)) <= 1 THEN Top(put, a)
             ELSE IF Key(node, word, p) < Key(node, word, x.root)
                  THEN rotate_right(put, a) ELSE rotate_left_right(put, a)
  IN  Top(SetDepth(new.node, new.root), new.root)

RaisedRight(node, word, a, x, p) ==
  LET put == SetRight(x.node, a, x.root)
      new == IF abs(balance(put, a)) <= 1 THEN Top(put, a)
             ELSE IF Key(node, word, x.root) < Key(node, word, p)
                  THEN rotate_left(put, a) ELSE rotate_right_left(put, a)
  IN  Top(SetDepth(new.node, new.root), new.root)

LEMMA GrowLeft ==
  ASSUME NEW node, Graph(node), NEW word, NEW a \in DOMAIN node,
         NEW p \in DOMAIN node, p \notin Sub(node, a),
         AVL(node, word, a), Spelt(node, word, Sub(node, a) \cup {p}),
         Key(node, word, p) < Key(node, word, a),
         NEW x, Grown(node, word, node[a].left, x, p)
  PROVE  Grown(node, word, a, RaisedLeft(node, word, a, x, p), p)
<1>. DEFINE l == node[a].left
            r == node[a].right
            g == x.node
            t == x.root
            S == Sub(node, l) \cup {p}
            put == SetLeft(g, a, t)
            y == RaisedLeft(node, word, a, x, p)
<1>1. /\ Kept(node, g, S) /\ t \in DOMAIN node
      /\ Sub(g, t) = S /\ AVL(g, word, t)
      /\ \/ delta(g, t) = delta(node, l)
         \/ delta(g, t) = delta(node, l) + 1
            /\ (l # NULL => Leans(node, word, x, p))
  BY DEF Grown
<1>2. l \in Places(node) /\ r \in Places(node) BY GraphIs
<1>3. /\ AVL(node, word, l) /\ AVL(node, word, r)
      /\ Level(node, a) /\ Ordered(node, word, a)
      /\ Sub(node, a) = {a} \cup Sub(node, l) \cup Sub(node, r)
  BY AVLOpen, SubUnfold
<1>4. Spelt(node, word, Sub(node, a)) BY DEF Spelt
<1>5. /\ a \notin Sub(node, l) /\ a \notin Sub(node, r)
      /\ Sub(node, l) \cap Sub(node, r) = {} /\ a # p
  BY Zenon, <1>3, <1>4, Apart
<1>6. a \notin S /\ S \cap Sub(node, r) = {} BY <1>3, <1>5
<1>7. /\ Lower(node, word, a, S) /\ Upper(node, word, a, Sub(node, r))
      /\ Key(node, word, a) \in Nat
  BY <1>3 DEF Ordered, Lower, Upper, Spelt
<1>. HIDE DEF g, t, S
<1>8. /\ Kept(node, put, S \cup {a}) /\ Between(put, word, a)
      /\ put[a].left = t /\ put[a].right = r
      /\ delta(put, t) = delta(g, t) /\ delta(put, r) = delta(node, r)
      /\ Sub(put, a) = {a} \cup S \cup Sub(node, r)
      /\ AVL(put, word, t)
  <2>1. t \in Places(node) BY <1>1 DEF Places
  <2>2. FitsLeft(node, word, a, g, S, t)
    BY <1>1, <1>3, <1>6, <1>7, <2>1 DEF FitsLeft
  <2>3. FittedLeft(node, word, a, g, S, t, put) BY <2>2, PutLeft
  <2>. HIDE DEF put
  <2>. QED BY <1>1, <2>3 DEF FittedLeft
<1>9. balance(put, t) = balance(g, t)
  <2>1. /\ Graph(g) /\ DOMAIN g = DOMAIN node BY <1>1 DEF Kept
  <2>2. Holds(g, put, a, g[a].depth, t, g[a].right)
    <3>1. t \in Places(g) /\ a \in DOMAIN g BY <1>1, <2>1 DEF Places
    <3>. QED BY <2>1, <3>1, SetLeftIs
  <2>3. Kept(g, put, {a}) BY <2>2 DEF Holds
  <2>4. {a} \cap Sub(g, t) = {} BY <1>1, <1>6
  <2>. HIDE DEF put
  <2>. QED BY <1>1, <2>1, <2>3, <2>4, BalanceKept
<1>10. Graph(put) /\ DOMAIN put = DOMAIN node BY <1>8 DEF Kept
<1>11. LET dl == delta(node, l)  dr == delta(node, r)  e == delta(node, a)
       IN  /\ dl \in Int /\ dr \in Int /\ e \in Int /\ dl >= -1 /\ dr >= -1
           /\ \/ dl = dr /\ e = dl + 1
              \/ dl = dr + 1 /\ e = dl + 1
              \/ dr = dl + 1 /\ e = dr + 1
  BY <1>3, LevelIs
<1>12. balance(put, a) = delta(g, t) - delta(node, r)
  BY <1>8 DEF balance
<1>13. Sub(put, a) = Sub(node, a) \cup {p} BY <1>3, <1>8 DEF S
<1>14. Kept(node, put, Sub(node, a) \cup {p})
  BY <1>3, <1>8, KeptMore DEF S
<1>15. CASE abs(balance(put, a)) <= 1
  <2>. DEFINE h == SetDepth(put, a)
  <2>1. y.node = h /\ y.root = a BY <1>15 DEF RaisedLeft, Top, put, g, t
  <2>. HIDE DEF put
  <2>2. /\ Kept(put, h, {a}) /\ Between(h, word, a)
        /\ h[a].left = t /\ h[a].right = r
        /\ h[a].depth = depth(h, t, r) /\ h[a].depth = depth(put, t, r)
        /\ balance(h, a) = balance(put, a) /\ Sub(h, a) = Sub(put, a)
    BY <1>8, <1>10, Deepened
  <2>. HIDE DEF h
  <2>3. Graph(h) /\ DOMAIN h = DOMAIN node BY <1>10, <2>2 DEF Kept
  <2>4. balance(h, a) \in -1 .. 1 /\ balance(h, a) = delta(g, t) - delta(node, r)
    <3>. HIDE DEF l, r
    <3>1. delta(g, t) \in Int BY <1>1, <1>11
    <3>2. delta(g, t) - delta(node, r) \in Int BY <1>11, <3>1
    <3>3. balance(put, a) \in -1 .. 1 BY <1>12, <1>15, <3>2 DEF abs
    <3>. QED BY <1>12, <2>2, <3>3
  <2>5. AVL(h, word, a)
    BY Zenon, <2>2, <2>3, <2>4, AVLBuild DEF Between, Level
  <2>6. delta(h, a) = IF delta(g, t) > delta(node, r)
                      THEN delta(g, t) + 1 ELSE delta(node, r) + 1
    <3>1. delta(h, a) = h[a].depth BY GraphIs DEF delta
    <3>. QED BY <1>8, <2>2, <3>1 DEF depth
  <2>7. \/ delta(h, a) = delta(node, a)
        \/ delta(h, a) = delta(node, a) + 1 /\ balance(h, a) = 1
    <3>. HIDE DEF l, r
    <3>1. delta(g, t) \in {delta(node, l), delta(node, l) + 1} BY <1>1
    <3>. QED BY <1>11, <2>4, <2>6, <3>1
  <2>8. Sub(h, a) = Sub(node, a) \cup {p} BY <1>13, <2>2
  <2>9. Kept(node, h, Sub(node, a) \cup {p})
    <3>1. {a} \subseteq Sub(node, a) \cup {p} BY <1>3
    <3>. QED BY <1>14, <2>2, <3>1, KeptTwice, KeptMore
  <2>10. Leans(node, word, y, p) \/ balance(h, a) # 1
    BY <2>1 DEF Leans
  <2>. HIDE DEF y
  <2>. QED BY <2>1, <2>5, <2>7, <2>8, <2>9, <2>10 DEF Grown, y
<1>16. CASE ~(abs(balance(put, a)) <= 1)
  <2>1. /\ delta(g, t) = delta(node, r) + 2 /\ delta(g, t) = delta(node, a)
        /\ delta(g, t) = delta(node, l) + 1 /\ delta(node, l) >= 0
    <3>. HIDE DEF l, r, put
    <3>1. delta(g, t) \in {delta(node, l), delta(node, l) + 1} BY <1>1
    <3>. QED BY <1>11, <1>12, <1>16, <3>1 DEF abs
  <2>2. l # NULL BY <2>1 DEF delta
  <2>3. Leans(node, word, x, p)
    <3>1. delta(g, t) # delta(node, l)
      <4>. HIDE DEF l
      <4>. QED BY <1>11, <2>1
    <3>. QED BY <1>1, <2>2, <3>1
  <2>. DEFINE z == IF Key(node, word, p) < Key(node, word, t)
                   THEN rotate_right(put, a) ELSE rotate_left_right(put, a)
  <2>4. y = Top(SetDepth(z.node, z.root), z.root)
    BY <1>16 DEF RaisedLeft, put, g, t
  <2>5. /\ Turned(put, word, a, z) /\ delta(z.node, z.root) = delta(put, t)
    <3>1. CASE /\ Key(node, word, p) < Key(node, word, t)
               /\ balance(g, t) = 1
      <4>. HIDE DEF put
      <4>1. z = rotate_right(put, a) BY <3>1
      <4>. HIDE DEF z
      <4>2. balance(put, t) >= 0 /\ balance(put, t) # 0 BY <1>9, <3>1
      <4>3. delta(put, t) = delta(put, put[a].right) + 2 BY <1>8, <2>1
      <4>. QED BY <1>8, <1>10, <4>1, <4>2, <4>3, RotatedRight
    <3>2. CASE /\ Key(node, word, t) < Key(node, word, p)
               /\ balance(g, t) = -1
      <4>. HIDE DEF put
      <4>1. z = rotate_left_right(put, a)
        <5>1. Key(node, word, t) \in Nat /\ Key(node, word, p) \in Nat
          <6>1. t \in S BY <1>1, SubSelf DEF Kept
          <6>. QED BY <1>7, <6>1 DEF Lower, Spelt
        <5>. QED BY <3>2, <5>1
      <4>. HIDE DEF z
      <4>2. balance(put, t) < 0 BY <1>9, <3>2
      <4>3. delta(put, t) = delta(put, put[a].right) + 2 BY <1>8, <2>1
      <4>. QED BY <1>8, <1>10, <4>1, <4>2, <4>3, RotatedLeftRight
    <3>. QED BY <2>3, <3>1, <3>2 DEF Leans, g, t
  <2>. HIDE DEF z, put
  <2>6. /\ Kept(put, z.node, Sub(put, a)) /\ z.root \in DOMAIN node
        /\ Sub(z.node, z.root) = Sub(put, a) /\ AVL(z.node, word, z.root)
    BY <1>10, <2>5 DEF Turned
  <2>7. Graph(z.node) /\ z.root \in DOMAIN z.node
    BY <1>10, <2>6 DEF Kept
  <2>8. SetDepth(z.node, z.root) = z.node
    <3>1. Level(z.node, z.root) BY <2>6, <2>7, AVLOpen
    <3>. QED BY <2>7, <3>1, SetDepthSame DEF Level
  <2>9. y.node = z.node /\ y.root = z.root BY <2>4, <2>8 DEF Top
  <2>10. Kept(node, z.node, Sub(node, a) \cup {p})
    BY <1>13, <1>14, <2>6, KeptTwice, KeptMore
  <2>11. delta(z.node, z.root) = delta(node, a) BY <1>8, <2>1, <2>5
  <2>. HIDE DEF y
  <2>. QED BY <1>13, <2>6, <2>9, <2>10, <2>11 DEF Grown, y
<1>. QED BY <1>15, <1>16

LEMMA GrowRight ==
  ASSUME NEW node, Graph(node), NEW word, NEW a \in DOMAIN node,
         NEW p \in DOMAIN node, p \notin Sub(node, a),
         AVL(node, word, a), Spelt(node, word, Sub(node, a) \cup {p}),
         Key(node, word, a) < Key(node, word, p),
         NEW x, Grown(node, word, node[a].right, x, p)
  PROVE  Grown(node, word, a, RaisedRight(node, word, a, x, p), p)
<1>. DEFINE r == node[a].right
            l == node[a].left
            g == x.node
            t == x.root
            S == Sub(node, r) \cup {p}
            put == SetRight(g, a, t)
            y == RaisedRight(node, word, a, x, p)
<1>1. /\ Kept(node, g, S) /\ t \in DOMAIN node
      /\ Sub(g, t) = S /\ AVL(g, word, t)
      /\ \/ delta(g, t) = delta(node, r)
         \/ delta(g, t) = delta(node, r) + 1
            /\ (r # NULL => Leans(node, word, x, p))
  BY DEF Grown
<1>2. r \in Places(node) /\ l \in Places(node) BY GraphIs
<1>3. /\ AVL(node, word, r) /\ AVL(node, word, l)
      /\ Level(node, a) /\ Ordered(node, word, a)
      /\ Sub(node, a) = {a} \cup Sub(node, r) \cup Sub(node, l)
  BY AVLOpen, SubUnfold
<1>4. Spelt(node, word, Sub(node, a)) BY DEF Spelt
<1>5. /\ a \notin Sub(node, r) /\ a \notin Sub(node, l)
      /\ Sub(node, r) \cap Sub(node, l) = {} /\ a # p
  BY <1>3, <1>4, Apart
<1>6. a \notin S /\ S \cap Sub(node, l) = {} BY <1>3, <1>5
<1>7. /\ Upper(node, word, a, S) /\ Lower(node, word, a, Sub(node, l))
      /\ Key(node, word, a) \in Nat
  BY <1>3 DEF Ordered, Upper, Lower, Spelt
<1>. HIDE DEF g, t, S
<1>8. /\ Kept(node, put, S \cup {a}) /\ Between(put, word, a)
      /\ put[a].right = t /\ put[a].left = l
      /\ delta(put, t) = delta(g, t) /\ delta(put, l) = delta(node, l)
      /\ Sub(put, a) = {a} \cup S \cup Sub(node, l)
      /\ AVL(put, word, t)
  <2>1. t \in Places(node) BY <1>1 DEF Places
  <2>2. FitsRight(node, word, a, g, S, t)
    BY <1>1, <1>3, <1>6, <1>7, <2>1 DEF FitsRight
  <2>3. FittedRight(node, word, a, g, S, t, put) BY <2>2, PutRight
  <2>. HIDE DEF put
  <2>. QED BY <1>1, <2>3 DEF FittedRight
<1>9. balance(put, t) = balance(g, t)
  <2>1. /\ Graph(g) /\ DOMAIN g = DOMAIN node BY <1>1 DEF Kept
  <2>2. Holds(g, put, a, g[a].depth, g[a].left, t)
    <3>1. t \in Places(g) /\ a \in DOMAIN g BY <1>1, <2>1 DEF Places
    <3>. QED BY <2>1, <3>1, SetRightIs
  <2>3. Kept(g, put, {a}) BY <2>2 DEF Holds
  <2>4. {a} \cap Sub(g, t) = {} BY <1>1, <1>6
  <2>. HIDE DEF put
  <2>. QED BY <1>1, <2>1, <2>3, <2>4, BalanceKept
<1>10. Graph(put) /\ DOMAIN put = DOMAIN node BY <1>8 DEF Kept
<1>11. LET dr == delta(node, r)  dl == delta(node, l)  e == delta(node, a)
       IN  /\ dr \in Int /\ dl \in Int /\ e \in Int /\ dr >= -1 /\ dl >= -1
           /\ \/ dr = dl /\ e = dr + 1
              \/ dr = dl + 1 /\ e = dr + 1
              \/ dl = dr + 1 /\ e = dl + 1
  BY <1>3, LevelIs
<1>12. balance(put, a) = delta(node, l) - delta(g, t)
  BY <1>8 DEF balance
<1>13. Sub(put, a) = Sub(node, a) \cup {p} BY <1>3, <1>8 DEF S
<1>14. Kept(node, put, Sub(node, a) \cup {p})
  BY <1>3, <1>8, KeptMore DEF S
<1>15. CASE abs(balance(put, a)) <= 1
  <2>. DEFINE h == SetDepth(put, a)
  <2>1. y.node = h /\ y.root = a BY <1>15 DEF RaisedRight, Top, put, g, t
  <2>. HIDE DEF put
  <2>2. /\ Kept(put, h, {a}) /\ Between(h, word, a)
        /\ h[a].right = t /\ h[a].left = l
        /\ h[a].depth = depth(h, l, t) /\ h[a].depth = depth(put, l, t)
        /\ balance(h, a) = balance(put, a) /\ Sub(h, a) = Sub(put, a)
    BY <1>8, <1>10, Deepened
  <2>. HIDE DEF h
  <2>3. Graph(h) /\ DOMAIN h = DOMAIN node BY <1>10, <2>2 DEF Kept
  <2>4. balance(h, a) \in -1 .. 1 /\ balance(h, a) = delta(node, l) - delta(g, t)
    <3>. HIDE DEF r, l
    <3>1. delta(g, t) \in Int BY <1>1, <1>11
    <3>2. delta(node, l) - delta(g, t) \in Int BY <1>11, <3>1
    <3>3. balance(put, a) \in -1 .. 1 BY <1>12, <1>15, <3>2 DEF abs
    <3>. QED BY <1>12, <2>2, <3>3
  <2>5. AVL(h, word, a)
    BY Zenon, <2>2, <2>3, <2>4, AVLBuild DEF Between, Level
  <2>6. delta(h, a) = IF delta(node, l) > delta(g, t)
                      THEN delta(node, l) + 1 ELSE delta(g, t) + 1
    <3>1. delta(h, a) = h[a].depth BY GraphIs DEF delta
    <3>. QED BY <1>8, <2>2, <3>1 DEF depth
  <2>7. \/ delta(h, a) = delta(node, a)
        \/ delta(h, a) = delta(node, a) + 1 /\ balance(h, a) = -1
    <3>. HIDE DEF r, l
    <3>1. delta(g, t) \in {delta(node, r), delta(node, r) + 1} BY <1>1
    <3>. QED BY <1>11, <2>4, <2>6, <3>1
  <2>8. Sub(h, a) = Sub(node, a) \cup {p} BY <1>13, <2>2
  <2>9. Kept(node, h, Sub(node, a) \cup {p})
    <3>1. {a} \subseteq Sub(node, a) \cup {p} BY <1>3
    <3>. QED BY <1>14, <2>2, <3>1, KeptTwice, KeptMore
  <2>10. Leans(node, word, y, p) \/ balance(h, a) # -1
    BY <2>1 DEF Leans
  <2>. HIDE DEF y
  <2>. QED BY <2>1, <2>5, <2>7, <2>8, <2>9, <2>10 DEF Grown, y
<1>16. CASE ~(abs(balance(put, a)) <= 1)
  <2>1. /\ delta(g, t) = delta(node, l) + 2 /\ delta(g, t) = delta(node, a)
        /\ delta(g, t) = delta(node, r) + 1 /\ delta(node, r) >= 0
    <3>. HIDE DEF r, l, put
    <3>1. delta(g, t) \in {delta(node, r), delta(node, r) + 1} BY <1>1
    <3>. QED BY <1>11, <1>12, <1>16, <3>1 DEF abs
  <2>2. r # NULL BY <2>1 DEF delta
  <2>3. Leans(node, word, x, p)
    <3>1. delta(g, t) # delta(node, r)
      <4>. HIDE DEF r
      <4>. QED BY <1>11, <2>1
    <3>. QED BY <1>1, <2>2, <3>1
  <2>. DEFINE z == IF Key(node, word, t) < Key(node, word, p)
                   THEN rotate_left(put, a) ELSE rotate_right_left(put, a)
  <2>4. y = Top(SetDepth(z.node, z.root), z.root)
    BY <1>16 DEF RaisedRight, put, g, t
  <2>5. /\ Turned(put, word, a, z) /\ delta(z.node, z.root) = delta(put, t)
    <3>1. CASE /\ Key(node, word, t) < Key(node, word, p)
               /\ balance(g, t) = -1
      <4>. HIDE DEF put
      <4>1. z = rotate_left(put, a) BY <3>1
      <4>. HIDE DEF z
      <4>2. balance(put, t) <= 0 /\ balance(put, t) # 0 BY <1>9, <3>1
      <4>3. delta(put, t) = delta(put, put[a].left) + 2 BY <1>8, <2>1
      <4>. QED BY <1>8, <1>10, <4>1, <4>2, <4>3, RotatedLeft
    <3>2. CASE /\ Key(node, word, p) < Key(node, word, t)
               /\ balance(g, t) = 1
      <4>. HIDE DEF put
      <4>1. z = rotate_right_left(put, a)
        <5>1. Key(node, word, t) \in Nat /\ Key(node, word, p) \in Nat
          <6>1. t \in S BY <1>1, SubSelf DEF Kept
          <6>. QED BY <1>7, <6>1 DEF Upper, Spelt
        <5>. QED BY <3>2, <5>1
      <4>. HIDE DEF z
      <4>2. balance(put, t) > 0 BY <1>9, <3>2
      <4>3. delta(put, t) = delta(put, put[a].left) + 2 BY <1>8, <2>1
      <4>. QED BY <1>8, <1>10, <4>1, <4>2, <4>3, RotatedRightLeft
    <3>. QED BY <2>3, <3>1, <3>2 DEF Leans, g, t
  <2>. HIDE DEF z, put
  <2>6. /\ Kept(put, z.node, Sub(put, a)) /\ z.root \in DOMAIN node
        /\ Sub(z.node, z.root) = Sub(put, a) /\ AVL(z.node, word, z.root)
    BY <1>10, <2>5 DEF Turned
  <2>7. Graph(z.node) /\ z.root \in DOMAIN z.node
    BY <1>10, <2>6 DEF Kept
  <2>8. SetDepth(z.node, z.root) = z.node
    <3>1. Level(z.node, z.root) BY <2>6, <2>7, AVLOpen
    <3>. QED BY <2>7, <3>1, SetDepthSame DEF Level
  <2>9. y.node = z.node /\ y.root = z.root BY <2>4, <2>8 DEF Top
  <2>10. Kept(node, z.node, Sub(node, a) \cup {p})
    BY <1>13, <1>14, <2>6, KeptTwice, KeptMore
  <2>11. delta(z.node, z.root) = delta(node, a) BY <1>8, <2>1, <2>5
  <2>. HIDE DEF y
  <2>. QED BY <1>13, <2>6, <2>9, <2>10, <2>11 DEF Grown, y
<1>. QED BY <1>15, <1>16
=============================================================================
