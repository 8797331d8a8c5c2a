------------------------------ MODULE AVLTree ------------------------------
(***************************************************************************)
(* The counting AVL tree of src/p3/avl.c, whose nodes and words lie in the *)
(* blocks of the SCM region and survive in its file.  Its operations go    *)
(* down to a word, which changes nothing, and change the memory on the way *)
(* up: each returns the memory and the node that replaces the one it had.  *)
(***************************************************************************)
EXTENDS SCM, FiniteSets

CONSTANTS
  Words,      \* the words, as numbers in the order of strcmp()
  WordLen,    \* strlen() + 1 of a word
  NodeLen,    \* sizeof (struct node)
  StateLen,   \* sizeof (struct state)
  MaxCount    \* bound: how often each word is inserted

ASSUME AVLAssumption ==
  /\ Words \subseteq Nat /\ WordLen \in [Words -> Nat \ {0}]
  /\ NodeLen \in Nat \ {0} /\ StateLen \in Nat
  /\ MaxCount \in [Words -> Nat]
  /\ Header + StateLen + SizeT <= Capacity

VARIABLES
  st,      \* "closed", "open", "undefined": memory in use was given away
  m,       \* the memory: the file that is mapped
  stale,   \* the file holds blocks from before it was truncated
  harm     \* history: what removals have damaged

vars == <<st, m, stale, harm>>

(* Places of the tree: the address of a node, or NULL where there is none. *)
Places(node) == {NULL} \cup DOMAIN node

delta(node, a) == IF a = NULL THEN -1 ELSE node[a].depth
balance(node, a) == delta(node, node[a].left) - delta(node, node[a].right)
depth(node, a, b) ==
  IF delta(node, a) > delta(node, b) THEN delta(node, a) + 1
                                     ELSE delta(node, b) + 1

abs(n) == IF n < 0 THEN -n ELSE n

Item(mem, a) == mem.word[mem.node[a].item]

(* Where a search for w goes on from a. *)
Toward(mem, a, w) ==
  IF w < Item(mem, a) THEN mem.node[a].left ELSE mem.node[a].right

SetDepth(node, a) ==
  [node EXCEPT ![a].depth = depth(node, node[a].left, node[a].right)]

(* What the operations return: the nodes, or all the memory, and the root. *)
Top(node, a) == [node |-> node, root |-> a]
At(mem, a) == [mem |-> mem, root |-> a]

-----------------------------------------------------------------------------
(* Rotations                                                               *)

rotate_right(node, a) ==
  LET root  == node[a].left
      moved == [node EXCEPT ![a].left = node[root].right, ![root].right = a]
  IN  Top(SetDepth(SetDepth(moved, a), root), root)

rotate_left(node, a) ==
  LET root  == node[a].right
      moved == [node EXCEPT ![a].right = node[root].left, ![root].left = a]
  IN  Top(SetDepth(SetDepth(moved, a), root), root)

rotate_left_right(node, a) ==
  LET left == rotate_left(node, node[a].left)
  IN  rotate_right([left.node EXCEPT ![a].left = left.root], a)

rotate_right_left(node, a) ==
  LET right == rotate_right(node, node[a].right)
  IN  rotate_left([right.node EXCEPT ![a].right = right.root], a)

-----------------------------------------------------------------------------
(* Insertion                                                               *)

Nodes(node, a) ==
  LET below[b \in Places(node)] ==
        IF b = NULL THEN {}
        ELSE {b} \cup below[node[b].left] \cup below[node[b].right]
  IN  below[a]

(* The blocks that the tree refers to: no others are kept (see Trimmed). *)
InUse(mem) == {scm_mbase} \cup DOMAIN mem.node \cup DOMAIN mem.word

(* f with the value v at x. *)
With(f, x, v) == [y \in DOMAIN f \cup {x} |-> IF y = x THEN v ELSE f[y]]

(* The memory with a block of n bytes, and where it is.  `end' says what   *)
(* becomes of the process: "killed" when it fills, or writes the size of,  *)
(* a block that ends after the mapping; "undefined" when the block is in   *)
(* use already or, after a truncation, the scan has read what older blocks *)
(* have left.                                                              *)
Allocated(mem, n) ==
  LET a == scm_malloc(mem.scm, n)
  IN  [p   |-> a.p,
       mem |-> [mem EXCEPT !.scm = IF Unmapped(a.p) THEN @ ELSE a.scm,
                  !.end = IF mem.end # "open" THEN mem.end
                          ELSE IF \/ a.p \in InUse(mem)
                                  \/ stale /\ ~HasRoom(mem.scm, n)
                               THEN "undefined"
                          ELSE IF a.p # NULL /\ Overruns(a.scm, a.p)
                               THEN "killed" ELSE "open"]]

(* Mutant of NewNode: counts before the word is stored. *)
NewNodeCounted(mem, w) ==
  LET node == Allocated(mem, NodeLen)
      item == Allocated(node.mem, WordLen[w])
      counted == [item.mem EXCEPT !.items = @ + 1, !.unique = @ + 1]
  IN  IF node.p = NULL THEN At(mem, NULL)
      ELSE IF node.mem.end # "open" THEN At(node.mem, NULL)
      ELSE IF item.p = NULL \/ item.mem.end # "open" THEN At(counted, NULL)
      ELSE At([counted EXCEPT
                 !.node = With(@, node.p, [depth |-> 0, count |-> 1,
                                           item |-> item.p,
                                           left |-> NULL, right |-> NULL]),
                 !.word = With(@, item.p, w)], node.p)

NewNode(mem, w) ==
  LET node == Allocated(mem, NodeLen)
      item == Allocated(node.mem, WordLen[w])
  IN  IF node.p = NULL THEN At(mem, NULL)
      ELSE IF node.mem.end # "open" THEN At(node.mem, NULL)
      ELSE IF item.p = NULL \/ item.mem.end # "open" THEN At(item.mem, NULL)
      ELSE At([item.mem EXCEPT
                 !.node = With(@, node.p, [depth |-> 0, count |-> 1,
                                           item |-> item.p,
                                           left |-> NULL, right |-> NULL]),
                 !.word = With(@, item.p, w),
                 !.items = @ + 1, !.unique = @ + 1], node.p)

(* On the way up: w was inserted below a, which now may lean to that side. *)
Inserted(mem, a, w, sub) ==
  LET left == w < Item(mem, a)
      put  == IF left THEN [sub.mem.node EXCEPT ![a].left = sub.root]
                      ELSE [sub.mem.node EXCEPT ![a].right = sub.root]
      new  == IF abs(balance(put, a)) <= 1 THEN Top(put, a)
              ELSE IF left
              THEN IF w < Item(sub.mem, sub.root)
                   THEN rotate_right(put, a) ELSE rotate_left_right(put, a)
              ELSE IF w > Item(sub.mem, sub.root)
                   THEN rotate_left(put, a) ELSE rotate_right_left(put, a)
  IN  At([sub.mem EXCEPT !.node = SetDepth(new.node, new.root)], new.root)

(* The memory with one more of the word of a. *)
Counted(mem, a) ==
  [mem EXCEPT !.node = SetDepth([mem.node EXCEPT ![a].count = @ + 1], a),
              !.items = @ + 1]

update(mem, root, w) ==
  LET new[a \in Places(mem.node)] ==
        IF a = NULL THEN NewNode(mem, w)
        ELSE IF w = Item(mem, a) THEN At(Counted(mem, a), a)
        ELSE Inserted(mem, a, w, new[Toward(mem, a, w)])
  IN  new[root]

avl_exists(mem, w) ==
  LET count[a \in Places(mem.node)] ==
        IF a = NULL THEN 0
        ELSE IF w = Item(mem, a) THEN mem.node[a].count
        ELSE count[Toward(mem, a, w)]
  IN  count[mem.root]

(* Bound: no call after a removal that left a word in two nodes.           *)
Callable == st = "open" /\ "duplicate" \notin harm

(* avl_insert(): a word that finds no memory below another node is not     *)
(* reported.  Killed, the process leaves the blocks that it has taken.     *)
Insert(w) ==
  /\ Callable
  /\ avl_exists(m, w) < MaxCount[w]
  /\ \E new \in {update(m, m.root, w)} :
       /\ st' = IF new.mem.end = "killed" THEN "closed" ELSE new.mem.end
       /\ m'  = IF new.mem.end # "open" THEN [m EXCEPT !.scm = new.mem.scm]
                ELSE IF new.root = NULL THEN [new.mem EXCEPT !.root = m.root]
                ELSE [new.mem EXCEPT !.root = new.root]
  /\ UNCHANGED <<stale, harm>>

-----------------------------------------------------------------------------
(* Removal                                                                 *)

Free(mem, p) == [mem EXCEPT !.scm = scm_free(@, p)]

Uncounted(mem) == [mem EXCEPT !.items = @ - 1, !.unique = @ - 1]

(* The node of the next word: the leftmost one below a. *)
Leftmost(node, a) ==
  LET least[b \in DOMAIN node] ==
        IF node[b].left = NULL THEN b ELSE least[node[b].left]
  IN  least[a]

(* Mutant of Rebalanced: the balance of the child is ignored. *)
RebalancedSingle(node, a) ==
  IF balance(node, a) > 1 THEN rotate_right(node, a)
  ELSE IF balance(node, a) < -1 THEN rotate_left(node, a)
  ELSE Top(node, a)

(* The end of remove_node(). *)
Rebalanced(node, a) ==
  LET bal  == balance(node, a)
      left == node[a].left  right == node[a].right
  IN  IF bal > 1
      THEN IF balance(node, left) >= 0 THEN rotate_right(node, a)
                                       ELSE rotate_left_right(node, a)
      ELSE IF bal < -1
      THEN IF balance(node, right) <= 0 THEN rotate_left(node, a)
                                        ELSE rotate_right_left(node, a)
      ELSE Top(node, a)

(* On the way up: w was removed below a. *)
Removed(mem, a, w, sub) ==
  LET put == IF w < Item(mem, a) THEN [sub.mem.node EXCEPT ![a].left = sub.root]
                                 ELSE [sub.mem.node EXCEPT ![a].right = sub.root]
      new == Rebalanced(SetDepth(put, a), a)
  IN  At([sub.mem EXCEPT !.node = new.node], new.root)

(* The way down to the node of w, where found[] says what is removed.      *)
RemoveIn(mem, root, w, found) ==
  LET new[a \in Places(mem.node)] ==
        IF a = NULL THEN At(mem, NULL)
        ELSE IF w = Item(mem, a) THEN found[a]
        ELSE Removed(mem, a, w, new[Toward(mem, a, w)])
  IN  new[root]

(* One count of many; or a node with one child, which becomes a copy of it *)
(* whose item and memory are then freed; or a node without.                *)
RemoveCount(mem, a) == [mem EXCEPT !.node[a].count = @ - 1, !.items = @ - 1]

RemoveFew(mem, a) ==
  LET node == mem.node[a]
      temp == IF node.left # NULL THEN node.left ELSE node.right
      copy == Rebalanced(SetDepth([mem.node EXCEPT ![a] = mem.node[temp]], a), a)
  IN  IF node.count > 1 THEN At(RemoveCount(mem, a), a)
      ELSE IF temp = NULL
      THEN At(Uncounted(Free(Free(mem, node.item), a)), NULL)
      ELSE At([Uncounted(Free(Free(mem, mem.node[temp].item), temp))
                 EXCEPT !.node = copy.node], copy.root)

(* Mutant of RemoveInner: the node keeps its own item and count. *)
RemoveInnerKeeps(mem, a) ==
  LET right == mem.node[a].right
      temp  == mem.node[Leftmost(mem.node, right)]
      few   == [b \in DOMAIN mem.node |-> RemoveFew(mem, b)]
      next  == mem.word[temp.item]
  IN  Removed(mem, a, next, RemoveIn(mem, right, next, few))

(* A node with two children takes the item and the count of the next word, *)
(* whose node, which has none on its left, is then removed by one count.   *)
RemoveInner(mem, a) ==
  LET right == mem.node[a].right
      temp  == mem.node[Leftmost(mem.node, right)]
      next  == mem.word[temp.item]
      took  == [mem EXCEPT !.node[a].item = temp.item,
                           !.node[a].count = temp.count]
      few   == [b \in DOMAIN took.node |-> RemoveFew(took, b)]
  IN  Removed(took, a, next, RemoveIn(took, right, next, few))

remove_node(mem, root, w) ==
  RemoveIn(mem, root, w,
    [a \in DOMAIN mem.node |->
       IF /\ mem.node[a].count <= 1
          /\ mem.node[a].left # NULL /\ mem.node[a].right # NULL
       THEN RemoveInner(mem, a) ELSE RemoveFew(mem, a)])

(* Whether some word is in two nodes, and whether a node's word is free.   *)
Damage(mem) ==
  {d \in {"duplicate", "freed"} :
     \/ d = "duplicate" /\ Cardinality(DOMAIN mem.word) < Cardinality(DOMAIN mem.node)
     \/ d = "freed" /\ \E p \in DOMAIN mem.word : ~mem.scm.block[p].used}

(* What lies in the blocks that the tree has left is never read again.     *)
Trimmed(mem) ==
  LET nodes == Nodes(mem.node, mem.root)
  IN  [mem EXCEPT !.node = [a \in nodes |-> mem.node[a]],
                  !.word = [p \in {mem.node[a].item : a \in nodes} |-> mem.word[p]]]

(* remove_word() of main.c asks whether the word exists first. *)
Remove(w) ==
  /\ Callable
  /\ avl_exists(m, w) > 0
  /\ \E new \in {remove_node(m, m.root, w)} :
       m' = Trimmed([new.mem EXCEPT !.root = new.root])
  /\ harm' = harm \cup Damage(m')
  /\ UNCHANGED <<st, stale>>

-----------------------------------------------------------------------------
(* Opening and closing                                                     *)

(* A region that says it is not utilized gets a new state.                 *)
Empty ==
  [scm |-> scm_malloc(NoBlocks, StateLen).scm, end |-> "open",
   node |-> [p \in {} |-> 0], word |-> [p \in {} |-> 0],
   root |-> NULL, items |-> 0, unique |-> 0]

Init ==
  /\ st = "closed" /\ m = [Empty EXCEPT !.scm = NoBlocks]
  /\ stale = FALSE /\ harm = {}

(* Truncating to its own size leaves the bytes of the file as they are.    *)
Open(truncate) ==
  /\ st = "closed" /\ st' = "open"
  /\ IF truncate \/ m.scm.utilized = 0
     THEN m' = Empty /\ harm' = {} /\ stale' = (stale \/ m.scm.utilized > 0)
     ELSE UNCHANGED <<m, stale, harm>>

Close == st = "open" /\ st' = "closed" /\ UNCHANGED <<m, stale, harm>>

Ended == st = "undefined" /\ UNCHANGED vars

Next ==
  \/ \E truncate \in BOOLEAN : Open(truncate)
  \/ Close \/ Ended
  \/ \E w \in Words : Insert(w) \/ Remove(w)

Spec == Init /\ [][Next]_vars

-----------------------------------------------------------------------------
(* Properties                                                              *)

(* Nodes and words lie in blocks, and fields have their types.             *)
TypeOK ==
  /\ st \in {"closed", "open", "undefined"}
  /\ stale \in BOOLEAN /\ harm \subseteq {"duplicate", "freed"}
  /\ m.scm.utilized \in 0 .. Capacity
  /\ DOMAIN m.node \subseteq Blocks(m.scm) /\ DOMAIN m.word \subseteq Blocks(m.scm)
  /\ m.items \in Nat /\ m.unique \in Nat

(* The tree is an AVL tree after every insertion and removal (avl.c): each *)
(* node has the depth of its subtree, the depths of its children differ by *)
(* at most one, and its word lies between theirs, strictly unless removing *)
(* a node has put the next word, inserted more than once, in two nodes.    *)
Height(node, a) ==
  LET height[b \in Places(node)] ==
        IF b = NULL THEN -1
        ELSE LET l == height[node[b].left]  r == height[node[b].right]
             IN  1 + (IF l > r THEN l ELSE r)
  IN  height[a]

Below(v, w) == v < w \/ (v = w /\ "duplicate" \in harm)

IsAVL ==
  \A a \in Nodes(m.node, m.root) :
    /\ m.node[a].depth = Height(m.node, a)
    /\ balance(m.node, a) \in -1 .. 1
    /\ \A b \in Nodes(m.node, m.node[a].left) : Below(Item(m, b), Item(m, a))
    /\ \A b \in Nodes(m.node, m.node[a].right) : Below(Item(m, a), Item(m, b))

(* info of main.c prints the totals: `unique' is the number of nodes and   *)
(* `items' how many insertions of their words they count, also when memory *)
(* ran out in the middle of an insertion, unless a word is in two nodes.   *)
Copies(mem, nodes) ==
  UNION {{Item(mem, a)} \X (1 .. mem.node[a].count) : a \in nodes}

CountsAgree ==
  "duplicate" \notin harm =>
    /\ m.unique = Cardinality(Nodes(m.node, m.root))
    /\ m.items = Cardinality(Copies(m, Nodes(m.node, m.root)))

(* The blocks tile the utilized bytes, whatever was freed and taken again; *)
(* nodes and words have blocks of their own, large enough and marked in    *)
(* use, but for words that the removal of an inner node has freed.         *)
BlocksApart ==
  LET nodes == Nodes(m.node, m.root)
  IN  /\ Tiled(m.scm)
      /\ \A a \in nodes :
           /\ m.scm.block[a].used /\ m.scm.block[a].n >= NodeLen
           /\ m.scm.block[m.node[a].item].n >= WordLen[Item(m, a)]
           /\ m.scm.block[m.node[a].item].used \/ "freed" \in harm
      /\ \A a, b \in nodes :
           /\ m.node[a].item # b /\ a # scm_mbase
           /\ m.node[a].item = m.node[b].item => a = b \/ "duplicate" \in harm

(* scm_malloc() gives out a block that the tree still uses, or reads what  *)
(* an older region has left, only after an inner node was removed or the   *)
(* file truncated.                                                         *)
GivenOnce == st = "undefined" => "freed" \in harm \/ stale

(* What avl_exists() says of every word, and whether scm_malloc() has the  *)
(* blocks of a new node and its word.                                      *)
Answers(mem) == [v \in Words |-> avl_exists(mem, v)]

Granted(mem, w) ==
  LET node == Allocated(mem, NodeLen)
  IN  node.p # NULL /\ Allocated(node.mem, WordLen[w]).p # NULL

(* avl_insert(w) adds one to what avl_exists() says of w, if the process   *)
(* lives and w is counted already or the blocks of its node are granted;   *)
(* avl_remove(w) takes one from it.  Of every other word, and of w when    *)
(* the insertion fails, it says what it said before, as it does when the   *)
(* region is opened again without truncating it.                           *)
OneWordAtATime ==
  [][/\ \A w \in Words :
          /\ Insert(w) /\ st' # "undefined" =>
               Answers(m') =
                 IF st' = "open" /\ (avl_exists(m, w) > 0 \/ Granted(m, w))
                 THEN [Answers(m) EXCEPT ![w] = @ + 1] ELSE Answers(m)
          /\ Remove(w) /\ "duplicate" \notin harm' =>
               Answers(m') = [Answers(m) EXCEPT ![w] = @ - 1]
     /\ \A truncate \in BOOLEAN : Open(truncate) =>
          Answers(m') = IF truncate THEN [v \in Words |-> 0] ELSE Answers(m)
    ]_vars
=============================================================================
