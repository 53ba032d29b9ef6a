------------------------------- MODULE RBTree -------------------------------
(***************************************************************************)
(* The red-black tree of rb_tree/red_black_tree.c, which the scheduler      *)
(* keeps its processes in.  A tree is a record of the fields of its nodes;  *)
(* nil and root are the two sentinels, and t.left[root] is the node at the  *)
(* top.  The functions of the C file that differ only in left and right are *)
(* one operator with a direction.                                           *)
(***************************************************************************)
EXTENDS Integers, SequencesExt

CONSTANTS
  NODES,   (* number of nodes that can be allocated                      *)
  COPIES,  (* of the nodes that share the smallest key                   *)
  nil,     (* the sentinel below the leaves                              *)
  root,    (* the sentinel above the top                                 *)
  Queries  (* the keys that are looked for and bound the ranges          *)

ASSUME RBTreeAssumption ==
  /\ NODES \in Nat \ {0} /\ COPIES \in Nat \ {0}
  /\ nil # root /\ nil \notin 1 .. NODES /\ root \notin 1 .. NODES
  /\ Queries \subseteq Int

Nodes == 1 .. NODES
Key(n) == IF n <= COPIES THEN COPIES ELSE n

Opposite(d) == IF d = "left" THEN "right" ELSE "left"

(* Which child of its parent x is: the code asks for the left one first. *)
Side(t, x) == IF x = t.left[t.parent[x]] THEN "left" ELSE "right"

(* Compare(x->key, z->key) == 1: z belongs to the left of x. *)
SideForBefore(x, z) == IF Key(x) >= Key(z) THEN "left" ELSE "right"
SideFor(x, z) == IF Key(x) > Key(z) THEN "left" ELSE "right"

RBTreeCreate ==
  [ left   |-> [n \in Nodes \cup {nil, root} |-> nil],
    right  |-> [n \in Nodes \cup {nil, root} |-> nil],
    parent |-> [n \in Nodes \cup {nil, root} |-> nil],
    red    |-> [n \in Nodes \cup {nil, root} |-> FALSE] ]

-----------------------------------------------------------------------------
(***************************************************************************)
(* Rotations.  Rotate(t, "left", x) is LeftRotate(tree, x): the child of x  *)
(* on the other side takes its place, and x goes down in direction d.  The  *)
(* parent of nil is left alone: RBDeleteFixUp relies on it.                 *)
(***************************************************************************)
RotateNilToo(t, d, x) ==
  LET y     == t[Opposite(d)][x]
      below == t[d][y]
      above == t.parent[x]
  IN  [t EXCEPT ![Opposite(d)][x] = below, !.parent[below] = x,
                !.parent[y] = above, ![Side(t, x)][above] = y,
                ![d][y] = x, !.parent[x] = y]
Rotate(t, d, x) ==
  LET y     == t[Opposite(d)][x]
      below == t[d][y]
      above == t.parent[x]
  IN  [t EXCEPT ![Opposite(d)][x] = below,
                !.parent[below] = IF below = nil THEN @ ELSE x,
                !.parent[y] = above, ![Side(t, x)][above] = y,
                ![d][y] = x, !.parent[x] = y]

(* a becomes black and b red, as before most rotations. *)
Paint(t, a, b) == [t EXCEPT !.red[a] = FALSE, !.red[b] = TRUE]

-----------------------------------------------------------------------------
(***************************************************************************)
(* RBTreeInsert.                                                            *)
(***************************************************************************)
(* One turn of the loop of TreeInsertHelp: down from x, whose parent is y.   *)
Down(t, z, s) ==
  LET x == s[1] IN IF x = nil THEN s ELSE <<t[SideFor(x, z)][x], x>>

(* Where the walk from the top ends: it passes every node once at most.     *)
PlaceFor(t, z) ==
  LET walk[i \in Nat] ==
        IF i = 0 THEN <<t.left[root], root>> ELSE Down(t, z, walk[i - 1])
  IN  walk[NODES][2]

Hang(t, z, y, d) ==
  [t EXCEPT !.left[z] = nil, !.right[z] = nil, !.parent[z] = y, ![d][y] = z]

TreeInsertHelp(t, z) ==
  LET y == PlaceFor(t, z)
  IN  Hang(t, z, y, IF y = root THEN "left" ELSE SideFor(y, z))

(* A red node x below a red parent p: with a red uncle the conflict moves   *)
(* up to the grandparent g, otherwise p or x takes the place of g.          *)
RedUncle(t, x) ==
  LET p == t.parent[x]
      g == t.parent[p]
  IN  [t EXCEPT !.red[p] = FALSE, !.red[t[Opposite(Side(t, p))][g]] = FALSE,
                !.red[g] = TRUE]

RaiseParent(t, x, d) ==
  LET p == t.parent[x]
      g == t.parent[p]
  IN  Rotate(Paint(t, p, g), Opposite(d), g)

BlackUncle(t, x) ==
  LET p == t.parent[x]
      d == Side(t, p)
  IN  IF x = t[Opposite(d)][p]
        THEN RaiseParent(Rotate(t, d, p), p, d)
        ELSE RaiseParent(t, x, d)

(* One turn of the loop of RBTreeInsert.  After BlackUncle the parent is    *)
(* black, which ends it.                                                    *)
InsertTurn(s) ==
  LET t == s[1]
      x == s[2]
      p == t.parent[x]
      g == t.parent[p]
      d == Side(t, p)
  IN  IF ~t.red[p] THEN s
      ELSE IF t.red[t[Opposite(d)][g]] THEN <<RedUncle(t, x), g>>
      ELSE <<BlackUncle(t, x), IF x = t[Opposite(d)][p] THEN p ELSE x>>

(* The loop goes up by two levels in each turn but the last.                *)
InsertFixUp(t, x) ==
  LET turn[i \in Nat] == IF i = 0 THEN <<t, x>> ELSE InsertTurn(turn[i - 1])
      u == turn[NODES][1]
  IN  [u EXCEPT !.red[u.left[root]] = FALSE]

RBTreeInsert(t, x) ==
  LET u == TreeInsertHelp(t, x) IN InsertFixUp([u EXCEPT !.red[x] = TRUE], x)

-----------------------------------------------------------------------------
(***************************************************************************)
(* Walks that change nothing: leftmost of sched.c, TreeSuccessor and        *)
(* TreePredecessor.                                                         *)
(***************************************************************************)
(* The last node of the walk from x in direction d.                         *)
Furthest(t, d, x) ==
  LET last[i \in Nat] ==
        [y \in Nodes \cup {root} |->
           IF i = 0 \/ t[d][y] = nil THEN y ELSE last[i - 1][t[d][y]]]
  IN  last[NODES][x]

(* The first node above x that x is not on the d side of, or root.          *)
Climb(t, d, x) ==
  LET above[i \in Nat] ==
        [y \in Nodes \cup {nil, root} |->
           LET p == t.parent[y]
           IN  IF i = 0 \/ p = root \/ y # t[d][p] THEN p ELSE above[i - 1][p]]
  IN  above[NODES][x]

(* The next node in direction d: furthest the other way in the subtree on   *)
(* that side, or the first ancestor on that side; the sentinel nil if there *)
(* is none (not NULL).                                                      *)
NeighbourToRoot(t, d, x) ==
  IF t[d][x] # nil THEN Furthest(t, Opposite(d), t[d][x]) ELSE Climb(t, d, x)
Neighbour(t, d, x) ==
  IF t[d][x] # nil
    THEN Furthest(t, Opposite(d), t[d][x])
    ELSE LET y == Climb(t, d, x) IN IF y = root THEN nil ELSE y

TreeSuccessor(t, x) == Neighbour(t, "right", x)
TreePredecessor(t, x) == Neighbour(t, "left", x)

Leftmost(t) == Furthest(t, "left", root)

NULL == 0

(* One turn of the loop of RBExactQuery: down from x unless it matches.     *)
SearchDown(t, q, x) ==
  IF x = nil \/ Key(x) = q THEN x ELSE IF Key(x) > q THEN t.left[x] ELSE t.right[x]

RBExactQuery(t, q) ==
  LET walk[i \in 0 .. NODES] ==
        IF i = 0 THEN t.left[root] ELSE SearchDown(t, q, walk[i - 1])
      last == walk[NODES]
  IN  IF last = nil THEN NULL ELSE last

(* One turn of the first loop of RBEnumerate: down from x; lastBest is the  *)
(* last node on the way whose key is at most high.                          *)
UpToDown(t, high, s) ==
  LET x == s[1]
      lastBest == s[2]
  IN  IF x = nil THEN s
      ELSE IF Key(x) > high THEN <<t.left[x], lastBest>> ELSE <<t.right[x], x>>

LastUpTo(t, high) ==
  LET walk[i \in 0 .. NODES] ==
        IF i = 0 THEN <<t.left[root], nil>> ELSE UpToDown(t, high, walk[i - 1])
  IN  walk[NODES][2]

(* The second: x and the nodes before it are pushed, down to low.           *)
Pushed(t, low, last) ==
  LET stack[i \in Nat] ==
        [x \in Nodes \cup {nil, root} |->
          IF i = 0 \/ x = nil \/ low > Key(x) THEN <<>>
          ELSE stack[i - 1][TreePredecessor(t, x)] \o <<x>>]
  IN  stack[NODES][last]

RBEnumerateAboveLow(t, low, high) == Pushed(t, low + 1, LastUpTo(t, high))
RBEnumerate(t, low, high) == Pushed(t, low, LastUpTo(t, high))

-----------------------------------------------------------------------------
(***************************************************************************)
(* RBDelete.  x has taken the place of the node y that was unlinked, and    *)
(* its subtree is short of one black node.                                  *)
(***************************************************************************)
Sibling(t, x) == t[Opposite(Side(t, x))][t.parent[x]]

(* The parent of x goes down and x gets a black sibling. *)
RedSibling(t, x) ==
  LET p == t.parent[x]
  IN  Rotate(Paint(t, Sibling(t, x), p), Side(t, x), p)

BlackNephews(t, x) ==
  LET w == Sibling(t, x) IN ~t.red[t.left[w]] /\ ~t.red[t.right[w]]

(* The red nephew is turned to the far side of x. *)
NearNephew(t, x) ==
  LET w == Sibling(t, x)
      d == Side(t, x)
  IN  Rotate(Paint(t, t[d][w], w), Opposite(d), w)

(* The sibling takes the place and the colour of the parent. *)
FarNephewKeepColour(t, x) ==
  LET p == t.parent[x]
      d == Side(t, x)
      w == Sibling(t, x)
  IN  Rotate([t EXCEPT !.red[p] = FALSE, !.red[t[Opposite(d)][w]] = FALSE], d, p)
FarNephew(t, x) ==
  LET p == t.parent[x]
      d == Side(t, x)
      w == Sibling(t, x)
  IN  Rotate([t EXCEPT !.red[w] = t.red[p], !.red[p] = FALSE,
                       !.red[t[Opposite(d)][w]] = FALSE], d, p)

(* One turn of the loop of RBDeleteFixUp.  top is the node that was at the  *)
(* top when it was called; it is what x is set to in order to leave.        *)
DeleteTurn(s, top) ==
  LET t == s[1]
      x == s[2]
      u == IF t.red[Sibling(t, x)] THEN RedSibling(t, x) ELSE t
      w == Sibling(u, x)
  IN  IF t.red[x] \/ x = top THEN s
      ELSE IF BlackNephews(u, x)
        THEN <<[u EXCEPT !.red[w] = TRUE], u.parent[x]>>
      ELSE IF u.red[u[Opposite(Side(u, x))][w]]
        THEN <<FarNephew(u, x), top>>
        ELSE <<FarNephew(NearNephew(u, x), x), top>>

(* The loop goes up by one level in each turn but the last.                 *)
DeleteFixUp(t, x) ==
  LET turn[i \in Nat] ==
        IF i = 0 THEN <<t, x>> ELSE DeleteTurn(turn[i - 1], t.left[root])
      last == turn[NODES]
  IN  [last[1] EXCEPT !.red[last[2]] = FALSE]

(* The node to unlink for z: one with at most one child. *)
Unlinked(t, z) ==
  IF t.left[z] = nil \/ t.right[z] = nil THEN z ELSE TreeSuccessor(t, z)

(* y is replaced by its child.  The child's parent is set even if it is nil. *)
SpliceOut(t, y) ==
  LET x == IF t.left[y] = nil THEN t.right[y] ELSE t.left[y]
      u == [t EXCEPT !.parent[x] = t.parent[y], ![Side(t, y)][t.parent[y]] = x]
  IN  IF t.red[y] THEN u ELSE DeleteFixUp(u, x)

(* y takes the links and the colour of z. *)
TakePlace(t, y, z) ==
  [t EXCEPT !.left[y] = t.left[z], !.right[y] = t.right[z], !.parent[y] = t.parent[z],
            !.red[y] = t.red[z],
            ![Side(t, z)][t.parent[z]] = y,
            !.parent[t.left[z]] = y, !.parent[t.right[z]] = y]

(* The fields of a node that is not allocated are of no interest. *)
Free(t, z) ==
  [t EXCEPT !.left[z] = nil, !.right[z] = nil, !.parent[z] = nil, !.red[z] = FALSE]

RBDelete(t, z) ==
  LET y == Unlinked(t, z)
      u == SpliceOut(t, y)
  IN  Free(IF y = z THEN u ELSE TakePlace(u, y, z), z)

-----------------------------------------------------------------------------
VARIABLES
  tree,      (* the fields of the sentinels and of the nodes              *)
  allocated  (* the nodes RBTreeInsert has returned and RBDelete not freed *)

rbVars == <<tree, allocated>>

RBInit ==
  /\ tree = RBTreeCreate
  /\ allocated = {}

Insert(n) ==
  /\ n \notin allocated
  /\ tree' = RBTreeInsert(tree, n)
  /\ allocated' = allocated \cup {n}

Delete(n) ==
  /\ n \in allocated
  /\ tree' = RBDelete(tree, n)
  /\ allocated' = allocated \ {n}

RBNext == \E n \in Nodes : Insert(n) \/ Delete(n)

RBSpec == RBInit /\ [][RBNext]_rbVars

-----------------------------------------------------------------------------
(* The nodes A of the tree from left to right.                              *)
InOrder(t, A) ==
  LET below[x \in A \cup {nil}] ==
        IF x = nil THEN <<>> ELSE below[t.left[x]] \o <<x>> \o below[t.right[x]]
  IN  below[t.left[root]]

(* The numbers of black nodes on the paths from the top down to nil.        *)
BlackHeights(t, A) ==
  LET below[x \in A \cup {nil}] ==
        IF x = nil THEN {0}
        ELSE { h + (IF t.red[x] THEN 0 ELSE 1) : h \in below[t.left[x]] \cup below[t.right[x]] }
  IN  below[t.left[root]]

list == InOrder(tree, allocated)

(* The links are those of a tree of exactly the allocated nodes: nobody     *)
(* points to a freed node, none is lost or reached twice, and parents and   *)
(* children agree.  Rotations and TakePlace assign six links in turn, and   *)
(* RBDelete re-links y after the rotations of RBDeleteFixUp have moved z.   *)
Linked ==
  /\ Range(list) = allocated /\ Len(list) = Cardinality(allocated)
  /\ tree.right[root] = nil /\ tree.left[nil] = nil /\ tree.right[nil] = nil
  /\ \A n \in allocated \cup {root} : \A d \in {"left", "right"} :
       tree[d][n] # nil => tree.parent[tree[d][n]] = n

(* What bounds the depth: no red node below a red one and equally many      *)
(* black nodes on all paths; and the sentinels are black, as the assertions *)
(* of RBTreeInsert, RBDeleteFixUp and the rotations demand.  It has to be   *)
(* restored while z, whose place y will take, is still in the tree.         *)
RedBlack ==
  /\ ~tree.red[nil] /\ ~tree.red[root] /\ ~tree.red[tree.left[root]]
  /\ \A n \in allocated : tree.red[n] => ~tree.red[tree.parent[n]]
  /\ Cardinality(BlackHeights(tree, allocated)) = 1

(* Whatever rotations do, the nodes stay in the order of their keys, and    *)
(* nodes with equal keys in the order of their insertion; a deletion takes  *)
(* out the node it is given, although it may move another in its place.     *)
Promise == INSTANCE OrderedList
ImplementsOrderedList == Promise!Spec

(* TreeSuccessor and TreePredecessor lead from each node to the next one    *)
(* and to the one before; leftmost of sched.c is the first.  The climb      *)
(* relies on the links of the two sentinels, of which nil's change with     *)
(* each deletion.  At the ends the result is the sentinel nil, which the    *)
(* loop of RBEnumerate tests for (red_black_tree.c:659), and not NULL, as   *)
(* the comments of both functions have it (red_black_tree.c:286 and 320).   *)
NeighboursFound ==
  LET nodes == list
  IN  /\ nodes # <<>> => Leftmost(tree) = Head(nodes)
      /\ \A i \in DOMAIN nodes :
           /\ TreeSuccessor(tree, nodes[i]) = IF i = Len(nodes) THEN nil ELSE nodes[i + 1]
           /\ TreePredecessor(tree, nodes[i]) = IF i = 1 THEN nil ELSE nodes[i - 1]

(* "if there are multiple nodes with key equal to q this function returns   *)
(* the one highest in the tree" (RBExactQuery): after rotations nodes with  *)
(* equal keys are on both sides of each other.                              *)
HighestFound(q) ==
  LET hits == { n \in allocated : Key(n) = q }
      x    == RBExactQuery(tree, q)
      depth[n \in allocated \cup {root}] ==
        IF n = root THEN 0 ELSE 1 + depth[tree.parent[n]]
  IN  IF hits = {} THEN x = NULL
      ELSE x \in hits /\ \A n \in hits \ {x} : depth[x] < depth[n]

(* How many of the nodes, which are sorted, come before those with key k,   *)
(* and how many up to the last of them.                                     *)
Before(nodes, k) == Cardinality({ i \in DOMAIN nodes : Key(nodes[i]) < k })
UpTo(nodes, k) == Cardinality({ i \in DOMAIN nodes : Key(nodes[i]) <= k })

(* RBEnumerate finds the nodes from low to high and no others, with the     *)
(* first on top of the stack.                                               *)
RangeEnumerated(nodes, low, high) ==
  RBEnumerate(tree, low, high) = SubSeq(nodes, Before(nodes, low) + 1, UpTo(nodes, high))

(* What a search finds does not depend on the shape the rotations have left *)
(* and, for bounds that are not keys of the tree too, is all there is.      *)
QueriesAnswered ==
  LET nodes == list
  IN  \A q \in Queries :
        /\ HighestFound(q)
        /\ \A low \in { k \in Queries : k <= q } : RangeEnumerated(nodes, low, q)
=============================================================================
