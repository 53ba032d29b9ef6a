---------------------------- MODULE RBFixUpProofs ----------------------------
(***************************************************************************)
(* The lemmas on rotations, insertion and the fix-up of a deletion that    *)
(* the theorems of RBProofs rest on, for any number of nodes and of equal  *)
(* keys.                                                                   *)
(*                                                                         *)
(* Shaped says that the links and the order lt are those of a search tree, *)
(* with sub[n] the nodes of the subtree of n; Colours and Heights are the  *)
(* red-black conditions, but for one node that may be red below a red one, *)
(* or one subtree that is short of a black node: what the loops of         *)
(* RBTreeInsert and RBDeleteFixUp have yet to repair.  Each turn of a loop *)
(* is a lemma; that the loops end follows from the sizes of the subtrees.  *)
(* All lemmas are about a tree t, not about the variable.                  *)
(***************************************************************************)
EXTENDS RBTree, FiniteSetTheorems, SequenceTheorems, TLAPS

(* What holds of 0 and goes from each number to the next holds of all. *)
LEMMA AllReached ==
  ASSUME NEW P, 0 \in P, \A i \in Nat : i \in P => i + 1 \in P
  PROVE  Nat \subseteq P
<1> DEFINE Out == Nat \ P
           R == OpToRel(<, Nat)
<1>1. SUFFICES ASSUME Out # {} PROVE FALSE
  OBVIOUS
<1>2. PICK x \in Out : \A y \in Out : <<y, x>> \notin R
  <2>1. Out \subseteq Nat
    OBVIOUS
  <2> QED  BY <1>1, <2>1, NatLessThanWellFounded, WFMin, Zenon
<1>3. \A y \in Out : ~(y < x)
  BY <1>2 DEF OpToRel
<1>4. x # 0 /\ x \in Nat /\ x \notin P
  OBVIOUS
<1>5. x - 1 \in Nat /\ x - 1 < x /\ (x - 1) + 1 = x
  BY <1>4
<1>6. x - 1 \in P
  BY <1>3, <1>5
<1> QED  BY <1>4, <1>5, <1>6

(* The steps F from a on are those of a function. *)
Run(F, a, n, g) == g[0] = a /\ \A i \in 1 .. n : g[i] = F[g[i - 1]]

(* The values of f are a and what F makes of it in 0, 1, 2, ... steps.      *)
Iterates(f, S, F, a) ==
  f \in [Nat -> S] /\ f[0] = a /\ \A i \in Nat : f[i + 1] = F[f[i]]

(* A function can be applied any number of times in turn: the recursive     *)
(* functions of the loops are defined.                                      *)
LEMMA Iteration ==
  ASSUME NEW S, NEW F \in [S -> S], NEW a \in S
  PROVE  \E f : Iterates(f, S, F, a)
<1> DEFINE Runs(n) == { g \in [0 .. n -> S] : Run(F, a, n, g) }
           Some == { n \in Nat : Runs(n) # {} }
           Same == { i \in Nat : \A m, n \in Nat : \A g \in Runs(m) : \A h \in Runs(n) :
                       i <= m /\ i <= n => g[i] = h[i] }
           run == [n \in Nat |-> CHOOSE g : g \in Runs(n)]
           f == [n \in Nat |-> run[n][n]]
<1>1. \A n \in Nat : Runs(n) # {}
  <2>1. Runs(0) # {}
    <3>1. [i \in 0 .. 0 |-> a] \in Runs(0)
      BY DEF Run
    <3> QED  BY <3>1
  <2>2. ASSUME NEW n \in Nat, Runs(n) # {} PROVE Runs(n + 1) # {}
    <3>1. PICK g \in Runs(n) : TRUE
      BY <2>2
    <3>2. g \in [0 .. n -> S] /\ Run(F, a, n, g)
      BY <3>1
    <3> DEFINE h == [i \in 0 .. n + 1 |-> IF i = n + 1 THEN F[g[n]] ELSE g[i]]
    <3>3. h \in [0 .. n + 1 -> S]
      BY <3>2
    <3>4. \A i \in 0 .. n : h[i] = g[i] /\ i # n + 1
      OBVIOUS
    <3>5. h[n + 1] = F[g[n]]
      OBVIOUS
    <3>6. ASSUME NEW i \in 1 .. n + 1 PROVE h[i] = F[h[i - 1]]
      <4>1. CASE i = n + 1
        <5>1. i - 1 = n /\ n \in 0 .. n
          BY <4>1
        <5> QED  BY <3>4, <3>5, <4>1, <5>1
      <4>2. CASE i # n + 1
        <5>1. i \in 1 .. n /\ i - 1 \in 0 .. n /\ i \in 0 .. n
          BY <4>2
        <5>2. g[i] = F[g[i - 1]]
          BY <3>2, <5>1 DEF Run
        <5> QED  BY <3>4, <5>1, <5>2
      <4> QED  BY <4>1, <4>2
    <3>7. h[0] = a
      <4>1. 0 \in 0 .. n
        OBVIOUS
      <4> QED  BY <3>2, <3>4, <4>1 DEF Run
    <3>8. h \in Runs(n + 1)
      <4> HIDE DEF h
      <4> QED  BY <3>3, <3>6, <3>7 DEF Run
    <3> QED  BY <3>8
  <2>3. 0 \in Some /\ \A n \in Nat : n \in Some => n + 1 \in Some
    <3> HIDE DEF Runs
    <3> QED  BY <2>1, <2>2
  <2>4. Nat \subseteq Some
    <3> HIDE DEF Some
    <3> QED  BY <2>3, AllReached
  <2> QED  BY <2>4
<1>2. \A i \in Nat : i \in Same
  <2>1. 0 \in Same
    BY DEF Run
  <2>2. ASSUME NEW i \in Nat, i \in Same PROVE i + 1 \in Same
    <3>1. ASSUME NEW m \in Nat, NEW n \in Nat, NEW g \in Runs(m), NEW h \in Runs(n),
                 i + 1 <= m, i + 1 <= n
          PROVE  g[i + 1] = h[i + 1]
      <4>1. g[i] = h[i]
        <5>1. i <= m /\ i <= n
          BY <3>1
        <5> HIDE DEF Runs
        <5> QED  BY <2>2, <5>1
      <4>2. Run(F, a, m, g) /\ Run(F, a, n, h)
        OBVIOUS
      <4>3. i + 1 \in 1 .. m /\ i + 1 \in 1 .. n /\ (i + 1) - 1 = i
        BY <3>1
      <4>4. g[i + 1] = F[g[i]] /\ h[i + 1] = F[h[i]]
        BY <4>2, <4>3 DEF Run
      <4> QED  BY <4>1, <4>4
    <3> HIDE DEF Runs
    <3> QED  BY <3>1
  <2> HIDE DEF Same
  <2> QED  BY <2>1, <2>2, AllReached
<1>3. \A n \in Nat : run[n] \in Runs(n)
  <2> HIDE DEF Runs
  <2> QED  BY <1>1
<1>4. \A n \in Nat : run[n] \in [0 .. n -> S] /\ Run(F, a, n, run[n])
  <2> HIDE DEF run
  <2> QED  BY <1>3
<1>5. f \in [Nat -> S]
  <2>1. \A n \in Nat : n \in 0 .. n
    OBVIOUS
  <2> HIDE DEF run
  <2> QED  BY <1>4, <2>1
<1>6. ASSUME NEW n \in Nat PROVE f[n] = IF n = 0 THEN a ELSE F[f[n - 1]]
  <2>1. f[n] = run[n][n]
    BY DEF f
  <2>2. CASE n = 0
    <3> HIDE DEF run, f
    <3> QED  BY <1>4, <2>1, <2>2 DEF Run
  <2>3. CASE n # 0
    <3>1. n \in 1 .. n /\ n - 1 \in Nat /\ n - 1 <= n /\ n - 1 <= n - 1
      BY <2>3
    <3>2. f[n - 1] = run[n - 1][n - 1]
      BY <3>1 DEF f
    <3>3. run[n][n] = F[run[n][n - 1]]
      <4> HIDE DEF run
      <4> QED  BY <1>4, <3>1 DEF Run
    <3>4. run[n][n - 1] = run[n - 1][n - 1]
      <4>1. n - 1 \in Same
        BY <1>2, <3>1
      <4> HIDE DEF run, Runs
      <4> QED  BY <1>3, <3>1, <4>1
    <3> HIDE DEF run, f
    <3> QED  BY <2>1, <2>3, <3>2, <3>3, <3>4
  <2> QED  BY <2>2, <2>3
<1>7. f[0] = a /\ \A i \in Nat : f[i + 1] = F[f[i]]
  <2>1. \A i \in Nat : i + 1 \in Nat /\ i + 1 # 0 /\ (i + 1) - 1 = i
    OBVIOUS
  <2> HIDE DEF f
  <2> QED  BY <1>6, <2>1
<1> HIDE DEF f
<1> QED  BY <1>5, <1>7 DEF Iterates

-----------------------------------------------------------------------------
(* All nodes with the sentinels, the sides a node can be on, and the        *)
(* records a tree can be.                                                   *)
N == Nodes \cup {nil, root}
Sides == {"left", "right"}
Tree == [left : [N -> N], right : [N -> N], parent : [N -> N], red : [N -> BOOLEAN]]

(* The links are those of nodes A below root: who is pointed to as a child  *)
(* points back, and every node is a child of its parent.                    *)
Links(t, A) ==
  /\ t \in Tree
  /\ A \subseteq Nodes
  /\ t.right[root] = nil
  /\ \A e \in Sides : t[e][nil] = nil
  /\ \A e \in Sides : \A n \in A \cup {root} :
       t[e][n] # nil => t[e][n] \in A /\ t.parent[t[e][n]] = n
  /\ \A n \in A : /\ t.parent[n] \in A \cup {root}
                  /\ \E e \in Sides : t[e][t.parent[n]] = n

(* a is on side e of b in the order lt.                                     *)
On(lt, e, a, b) == IF e = "left" THEN <<a, b>> \in lt ELSE <<b, a>> \in lt

(* lt orders the nodes A totally and strictly.                              *)
Order(lt, A) ==
  /\ \A a \in A : <<a, a>> \notin lt
  /\ \A a, b, c \in A : <<a, b>> \in lt /\ <<b, c>> \in lt => <<a, c>> \in lt
  /\ \A a, b \in A : a = b \/ <<a, b>> \in lt \/ <<b, a>> \in lt

(* sub[n] are the nodes of the subtree of n.  Those on side e of n in the   *)
(* tree are on side e of n in the order.                                    *)
Search(t, A, lt, sub) ==
  /\ sub \in [N -> SUBSET A]
  /\ sub[nil] = {}
  /\ sub[t.left[root]] = A
  /\ \A n \in A : sub[n] = {n} \cup sub[t["left"][n]] \cup sub[t["right"][n]]
  /\ \A e \in Sides : \A n \in A : \A m \in sub[t[e][n]] : On(lt, e, m, n)

-----------------------------------------------------------------------------
(* The sentinels are no nodes, and there are NODES nodes.                   *)
LEMMA Names ==
  /\ root \in N /\ nil \in N /\ Nodes \subseteq N
  /\ nil # root /\ nil \notin Nodes /\ root \notin Nodes
  /\ IsFiniteSet(Nodes) /\ Cardinality(Nodes) = NODES /\ NODES \in Nat
BY RBTreeAssumption, FS_Interval DEF N, Nodes

(* Left and right are opposite to each other.                               *)
LEMMA SideFacts ==
  /\ "left" \in Sides /\ "right" \in Sides /\ "left" # "right"
  /\ \A e \in Sides : /\ Opposite(e) \in Sides /\ Opposite(e) # e
                      /\ Opposite(Opposite(e)) = e
                      /\ e = "left" \/ e = "right"
  /\ \A e, d \in Sides : e # d => e = Opposite(d)
BY DEF Sides, Opposite

(* The fields of a tree are functions on the nodes.                         *)
LEMMA TreeFields ==
  ASSUME NEW t \in Tree
  PROVE  /\ \A e \in Sides : t[e] \in [N -> N]
         /\ t.parent \in [N -> N] /\ t.red \in [N -> BOOLEAN]
         /\ t.left = t["left"] /\ t.right = t["right"]
BY DEF Tree, Sides

(* What the order says of two sides.                                        *)
LEMMA OnFacts ==
  ASSUME NEW lt, NEW A, Order(lt, A)
  PROVE  /\ \A e \in Sides : \A a, b \in A :
              /\ On(lt, Opposite(e), a, b) <=> On(lt, e, b, a)
              /\ ~(On(lt, e, a, b) /\ On(lt, e, b, a))
              /\ ~On(lt, e, a, a)
              /\ a = b \/ On(lt, e, a, b) \/ On(lt, e, b, a)
         /\ \A e \in Sides : \A a, b, c \in A :
              On(lt, e, a, b) /\ On(lt, e, b, c) => On(lt, e, a, c)
BY DEF Order, On, Opposite, Sides

(* t with n as the child of m on side d.                                    *)
WithChild(t, e, a, v) == [t EXCEPT ![e][a] = v]

(* The assignment of a child link changes nothing else.                     *)
LEMMA ChildSet ==
  ASSUME NEW t \in Tree, NEW e \in Sides, NEW a \in N, NEW v \in N
  PROVE  /\ WithChild(t, e, a, v) \in Tree
         /\ WithChild(t, e, a, v).parent = t.parent
         /\ WithChild(t, e, a, v).red = t.red
         /\ WithChild(t, e, a, v)[e] = [t[e] EXCEPT ![a] = v]
         /\ WithChild(t, e, a, v)[Opposite(e)] = t[Opposite(e)]
BY DEF Tree, Sides, Opposite, WithChild

(* Nor does that of a parent link.                                          *)
LEMMA ParentSet ==
  ASSUME NEW t \in Tree, NEW a \in N, NEW v \in N
  PROVE  LET u == [t EXCEPT !.parent[a] = v]
         IN  /\ u \in Tree
             /\ u.parent = [t.parent EXCEPT ![a] = v] /\ u.red = t.red
             /\ \A e \in Sides : u[e] = t[e]
BY DEF Tree, Sides

(* Nor does that of a colour.                                               *)
LEMMA ColourSet ==
  ASSUME NEW t \in Tree, NEW a \in N, NEW v \in BOOLEAN
  PROVE  LET u == [t EXCEPT !.red[a] = v]
         IN  /\ u \in Tree
             /\ u.parent = t.parent /\ u.red = [t.red EXCEPT ![a] = v]
             /\ \A e \in Sides : u[e] = t[e]
BY DEF Tree, Sides

(* Side finds the side on which a node is a child. *)
LEMMA SideIs ==
  ASSUME NEW t, NEW A, Links(t, A), NEW x \in A
  PROVE  /\ Side(t, x) \in Sides
         /\ t[Side(t, x)][t.parent[x]] = x
         /\ t.parent[x] = root => Side(t, x) = "left"
<1>1. PICK e \in Sides : t[e][t.parent[x]] = x
  BY DEF Links
<1>2. e = "left" \/ e = "right"
  BY SideFacts
<1>3. x # nil
  BY Names DEF Links
<1> QED  BY <1>1, <1>2, <1>3, SideFacts, TreeFields DEF Links, Side

(* The nodes below a node: its children's subtrees do not hold it. *)
LEMMA ChildOn ==
  ASSUME NEW t, NEW A, NEW lt, NEW sub,
         Links(t, A), Order(lt, A), Search(t, A, lt, sub),
         NEW x \in A, NEW e \in Sides
  PROVE  /\ x \in sub[x] /\ x \notin sub[t[e][x]]
         /\ sub[t[e][x]] \subseteq sub[x]
         /\ \A m \in sub[t[e][x]] : m \in A /\ On(lt, e, m, x)
         /\ sub[x] = {x} \cup sub[t[e][x]] \cup sub[t[Opposite(e)][x]]
         /\ t[e][x] # nil => /\ t[e][x] \in A /\ t.parent[t[e][x]] = x
                             /\ t[e][x] \in sub[t[e][x]]
                             /\ t[e][x] # x
<1>1. sub[x] = {x} \cup sub[t[e][x]] \cup sub[t[Opposite(e)][x]]
  BY SideFacts DEF Search, Opposite
<1>2. t[e][x] \in N /\ x \in N
  BY Names, TreeFields DEF Links
<1>3. \A m \in sub[t[e][x]] : m \in A /\ On(lt, e, m, x)
  BY <1>2 DEF Search
<1>4. x \notin sub[t[e][x]]
  BY <1>3, OnFacts
<1>5. ASSUME t[e][x] # nil
      PROVE  /\ t[e][x] \in A /\ t.parent[t[e][x]] = x
             /\ t[e][x] \in sub[t[e][x]]
  BY <1>5 DEF Links, Search
<1> QED  BY <1>1, <1>3, <1>4, <1>5

(* No node is the child of another on both sides. *)
LEMMA OneSide ==
  ASSUME NEW t, NEW A, NEW lt, NEW sub,
         Links(t, A), Order(lt, A), Search(t, A, lt, sub),
         NEW n \in A \cup {root}, NEW e \in Sides, NEW d \in Sides,
         t[e][n] # nil, t[d][n] = t[e][n]
  PROVE  d = e
<1>1. CASE n = root
  <2>1. \A k \in Sides : t[k][n] # nil => k = "left"
    BY <1>1, SideFacts, TreeFields DEF Links
  <2> QED  BY <2>1
<1>2. CASE n # root
  <2>1. /\ t[e][n] \in A /\ n \in A
        /\ On(lt, e, t[e][n], n) /\ On(lt, d, t[e][n], n)
    BY <1>2, ChildOn
  <2>2. d # e => On(lt, Opposite(e), t[e][n], n)
    BY <2>1, SideFacts
  <2> QED  BY <2>1, <2>2, OnFacts
<1> QED  BY <1>1, <1>2

(* A node is a child of its parent, and not above it. *)
LEMMA ParentOn ==
  ASSUME NEW t, NEW A, NEW lt, NEW sub,
         Links(t, A), Order(lt, A), Search(t, A, lt, sub),
         NEW x \in A
  PROVE  /\ Side(t, x) \in Sides /\ t[Side(t, x)][t.parent[x]] = x
         /\ t.parent[x] \in A \cup {root} /\ t.parent[x] \notin sub[x]
         /\ t.parent[x] = root => Side(t, x) = "left"
         /\ t.parent[x] # root => sub[x] \subseteq sub[t.parent[x]]
<1>1. /\ Side(t, x) \in Sides /\ t[Side(t, x)][t.parent[x]] = x
      /\ t.parent[x] = root => Side(t, x) = "left"
      /\ t.parent[x] \in A \cup {root}
  BY SideIs DEF Links
<1>2. root \notin A /\ sub[x] \subseteq A
  BY Names DEF Links, Search
<1>3. CASE t.parent[x] = root
  BY <1>1, <1>2, <1>3
<1>4. CASE t.parent[x] \in A
  BY <1>1, <1>4, <1>2, ChildOn
<1> QED  BY <1>1, <1>3, <1>4

(* The four nodes a rotation relinks are different ones.                    *)
LEMMA RotateApart ==
  ASSUME NEW t, NEW A, NEW lt, NEW sub,
         Links(t, A), Order(lt, A), Search(t, A, lt, sub),
         NEW d \in Sides, NEW x \in A, t[Opposite(d)][x] # nil
  PROVE  LET y == t[Opposite(d)][x]
             below == t[d][y]
             above == t.parent[x]
         IN  /\ y \in A /\ y # x /\ above # x /\ above # y
             /\ below # x /\ below # y /\ below # above
             /\ below # nil => below \in A
             /\ above \in A \cup {root}
<1> DEFINE y == t[Opposite(d)][x]
           below == t[d][y]
           above == t.parent[x]
<1>1. /\ Opposite(d) \in Sides /\ nil \notin A /\ root \notin A /\ nil # root
  BY SideFacts, Names DEF Links
<1>2. /\ y \in A /\ y # x /\ x \notin sub[y] /\ y \in sub[y] /\ sub[y] \subseteq sub[x]
      /\ x \in sub[x]
  BY <1>1, ChildOn
<1>3. below # nil => /\ below \in A /\ below \in sub[below]
                     /\ y \notin sub[below] /\ sub[below] \subseteq sub[y]
  BY <1>2, ChildOn
<1>4. above \in A \cup {root} /\ above \notin sub[x]
  BY ParentOn
<1> QED  BY <1>1, <1>2, <1>3, <1>4

(* What each link is after a rotation: the six assignments of LeftRotate    *)
(* and RightRotate, one after the other.                                    *)
LEMMA RotateEffect ==
  ASSUME NEW t, NEW A, NEW lt, NEW sub,
         Links(t, A), Order(lt, A), Search(t, A, lt, sub),
         NEW d \in Sides, NEW x \in A, t[Opposite(d)][x] # nil
  PROVE  LET u == Rotate(t, d, x)
             y == t[Opposite(d)][x]
             below == t[d][y]
             above == t.parent[x]
             s == Side(t, x)
         IN  /\ u \in Tree
             /\ u.red = t.red
             /\ \A n \in N :
                  u.parent[n] = IF n = x THEN y
                                ELSE IF n = y THEN above
                                ELSE IF n = below /\ below # nil THEN x
                                ELSE t.parent[n]
             /\ \A e \in Sides : \A n \in N :
                  u[e][n] = IF n = x /\ e = Opposite(d) THEN below
                            ELSE IF n = y /\ e = d THEN x
                            ELSE IF n = above /\ e = s THEN y
                            ELSE t[e][n]
<1> DEFINE y == t[Opposite(d)][x]
           below == t[d][y]
           above == t.parent[x]
           o == Opposite(d)
           s == Side(t, x)
           v == IF below = nil THEN t.parent[below] ELSE x
           t1 == WithChild(t, o, x, below)
           t2 == [t1 EXCEPT !.parent[below] = v]
           t3 == [t2 EXCEPT !.parent[y] = above]
           t4 == WithChild(t3, s, above, y)
           t5 == WithChild(t4, d, y, x)
           t6 == [t5 EXCEPT !.parent[x] = y]
<1>1. Rotate(t, d, x) = t6
  BY Zenon DEF Rotate, WithChild
<1>2. /\ o \in Sides /\ s \in Sides /\ o # d /\ Opposite(o) = d
      /\ t \in Tree /\ x \in N /\ y \in N /\ below \in N /\ above \in N
      /\ y # x /\ x # above /\ above # y /\ below # x /\ below # y
      /\ A \subseteq N /\ nil \in N /\ x # nil /\ y # nil
  <2>1. s \in Sides
    BY SideIs
  <2>2. o \in Sides /\ o # d /\ Opposite(o) = d
    BY SideFacts
  <2>3. /\ y # x /\ x # above /\ above # y /\ below # x /\ below # y
        /\ y \in A /\ (below # nil => below \in A) /\ above \in A \cup {root}
    BY RotateApart
  <2>4. t \in Tree /\ A \subseteq N /\ root \in N /\ nil \in N /\ x # nil /\ y # nil
    BY Names DEF Links
  <2> QED  BY <2>1, <2>2, <2>3, <2>4
<1>3. v \in N
  BY <1>2, TreeFields
<1> HIDE DEF y, below, above, o, s, v
<1>4. /\ t1 \in Tree /\ t1.parent = t.parent /\ t1.red = t.red
      /\ t1[o] = [t[o] EXCEPT ![x] = below] /\ t1[d] = t[d]
  <2>1. t \in Tree /\ x \in N /\ below \in N /\ o \in Sides /\ Opposite(o) = d
    BY <1>2
  <2>2. /\ t1 \in Tree /\ t1.parent = t.parent /\ t1.red = t.red
        /\ t1[o] = [t[o] EXCEPT ![x] = below] /\ t1[Opposite(o)] = t[Opposite(o)]
    BY <2>1, ChildSet
  <2> QED  BY <2>1, <2>2
<1> HIDE DEF t1
<1>5. /\ t2 \in Tree /\ t2.parent = [t1.parent EXCEPT ![below] = v] /\ t2.red = t1.red
      /\ t2[o] = t1[o] /\ t2[d] = t1[d]
  <2>1. t1 \in Tree /\ below \in N /\ v \in N /\ o \in Sides
    BY <1>2, <1>3, <1>4
  <2> QED  BY <2>1, ParentSet
<1> HIDE DEF t2
<1>6. /\ t3 \in Tree /\ t3.parent = [t2.parent EXCEPT ![y] = above] /\ t3.red = t2.red
      /\ t3[o] = t2[o] /\ t3[d] = t2[d]
  <2>1. t2 \in Tree /\ y \in N /\ above \in N /\ o \in Sides
    BY <1>2, <1>5
  <2> QED  BY <2>1, ParentSet
<1> HIDE DEF t3
<1>7. /\ t4 \in Tree /\ t4.parent = t3.parent /\ t4.red = t3.red
      /\ t4[s] = [t3[s] EXCEPT ![above] = y] /\ t4[Opposite(s)] = t3[Opposite(s)]
  <2>1. t3 \in Tree /\ s \in Sides /\ above \in N /\ y \in N
    BY <1>2, <1>6
  <2> QED  BY <2>1, ChildSet
<1> HIDE DEF t4
<1>8. /\ t5 \in Tree /\ t5.parent = t4.parent /\ t5.red = t4.red
      /\ t5[d] = [t4[d] EXCEPT ![y] = x] /\ t5[o] = t4[o]
  <2>1. o = Opposite(d)
    BY DEF o
  <2>2. t4 \in Tree /\ y \in N /\ x \in N
    BY <1>2, <1>7
  <2>3. /\ t5 \in Tree /\ t5.parent = t4.parent /\ t5.red = t4.red
        /\ t5[d] = [t4[d] EXCEPT ![y] = x] /\ t5[Opposite(d)] = t4[Opposite(d)]
    BY <2>2, ChildSet
  <2> QED  BY <2>1, <2>3
<1> HIDE DEF t5
<1>9. /\ t6 \in Tree /\ t6.parent = [t5.parent EXCEPT ![x] = y] /\ t6.red = t5.red
      /\ t6[o] = t5[o] /\ t6[d] = t5[d]
  <2>1. t5 \in Tree /\ x \in N /\ y \in N /\ o \in Sides
    BY <1>2, <1>8
  <2> QED  BY <2>1, ParentSet
<1> HIDE DEF t6
<1>10. \A n \in N : t6.parent[n] = IF n = x THEN y ELSE IF n = y THEN above
                                 ELSE IF n = below THEN v ELSE t.parent[n]
  BY <1>2, <1>4, <1>5, <1>6, <1>7, <1>8, <1>9, TreeFields
<1>11. \A e \in Sides : \A n \in N :
         t6[e][n] = IF n = x /\ e = o THEN below
                    ELSE IF n = y /\ e = d THEN x
                    ELSE IF n = above /\ e = s THEN y
                    ELSE t[e][n]
  <2>1. s = d \/ s = o
    BY <1>2, SideFacts
  <2>2. CASE s = d
    <3>1. \A n \in N : /\ t6[d][n] = IF n = y THEN x ELSE IF n = above THEN y ELSE t[d][n]
                       /\ t6[o][n] = IF n = x THEN below ELSE t[o][n]
      BY <2>2, <1>2, <1>4, <1>5, <1>6, <1>7, <1>8, <1>9, TreeFields DEF o
    <3> QED  BY <3>1, <2>2, <1>2, SideFacts
  <2>3. CASE s = o
    <3>1. \A n \in N : /\ t6[d][n] = IF n = y THEN x ELSE t[d][n]
                       /\ t6[o][n] = IF n = x THEN below ELSE IF n = above THEN y ELSE t[o][n]
      BY <2>3, <1>2, <1>4, <1>5, <1>6, <1>7, <1>8, <1>9, TreeFields
    <3> QED  BY <3>1, <2>3, <1>2, SideFacts
  <2> QED  BY <2>1, <2>2, <2>3
<1>12. t6.red = t.red
  BY <1>4, <1>5, <1>6, <1>7, <1>8, <1>9
<1>13. \A n \in N : t6.parent[n] = IF n = x THEN y ELSE IF n = y THEN above
                     ELSE IF n = below /\ below # nil THEN x ELSE t.parent[n]
  BY <1>10 DEF v
<1> QED  BY <1>1, <1>9, <1>11, <1>12, <1>13 DEF y, below, above, o, s

(* What a rotation does to the subtrees: x leaves some nodes to y. *)
RotatedSub(t, sub, d, x) ==
  LET y == t[Opposite(d)][x]
  IN  [sub EXCEPT ![y] = sub[x], ![x] = {x} \cup sub[t[d][x]] \cup sub[t[d][y]]]

(* A rotation keeps the links those of a tree of the same nodes ... *)
LEMMA RotateLinks ==
  ASSUME NEW t, NEW A, NEW lt, NEW sub,
         Links(t, A), Order(lt, A), Search(t, A, lt, sub),
         NEW d \in Sides, NEW x \in A, t[Opposite(d)][x] # nil
  PROVE  Links(Rotate(t, d, x), A)
<1> DEFINE u == Rotate(t, d, x)
           y == t[Opposite(d)][x]
           below == t[d][y]
           above == t.parent[x]
           o == Opposite(d)
           s == Side(t, x)
<1>1. /\ u \in Tree
      /\ \A n \in N :
           u.parent[n] = IF n = x THEN y
                         ELSE IF n = y THEN above
                         ELSE IF n = below /\ below # nil THEN x
                         ELSE t.parent[n]
      /\ \A e \in Sides : \A n \in N :
           u[e][n] = IF n = x /\ e = o THEN below
                     ELSE IF n = y /\ e = d THEN x
                     ELSE IF n = above /\ e = s THEN y
                     ELSE t[e][n]
  BY RotateEffect
<1>2. /\ y \in A /\ y # x /\ above # x /\ above # y
      /\ below # x /\ below # y /\ below # above
      /\ below # nil => below \in A
      /\ above \in A \cup {root}
  BY RotateApart
<1>3. s \in Sides /\ t[s][above] = x /\ (above = root => s = "left")
  BY SideIs
<1>4. /\ o \in Sides /\ o # d /\ \A e \in Sides : e = d \/ e = o
  BY SideFacts
<1>10. /\ t.parent[y] = x /\ t[o][x] = y /\ y # nil
       /\ t[d][y] = below /\ (below # nil => t.parent[below] = y)
  BY <1>2, <1>4 DEF Links
<1>5. A \subseteq Nodes /\ A \subseteq N /\ root \in N /\ x \in N /\ root \notin A /\ nil \notin A
  BY Names DEF Links
<1>6. /\ \A e \in Sides : \A n \in A \cup {root} :
           t[e][n] # nil => t[e][n] \in A /\ t.parent[t[e][n]] = n
      /\ \A n \in A : /\ t.parent[n] \in A \cup {root}
                      /\ \E e \in Sides : t[e][t.parent[n]] = n
      /\ t["right"][root] = nil
  BY TreeFields DEF Links
<1> HIDE DEF u, y, below, above, o, s
<1>7. u.right[root] = nil /\ \A e \in Sides : u[e][nil] = nil
  <2>1. u["right"][root] = t["right"][root]
    <3>1. root \in N /\ root # x /\ root # y /\ "right" \in Sides /\ "right" # "left"
      BY <1>2, <1>5, SideFacts
    <3> QED  BY <1>1, <1>3, <3>1
  <2>2. \A e \in Sides : u[e][nil] = t[e][nil] /\ t[e][nil] = nil
    <3>1. nil \in N /\ nil # x /\ nil # y /\ nil # above
      BY <1>2, <1>5, Names
    <3> QED  BY <1>1, <3>1 DEF Links
  <2> QED  BY <1>1, <1>6, <2>1, <2>2, TreeFields
<1>8. ASSUME NEW e \in Sides, NEW n \in A \cup {root}, u[e][n] # nil
      PROVE  u[e][n] \in A /\ u.parent[u[e][n]] = n
  <2>1. n \in N
    BY <1>5
  <2>2. CASE n = x /\ e = o
    BY <1>1, <1>2, <1>5, <1>8, <2>1, <2>2
  <2>3. CASE n = y /\ e = d
    BY <1>1, <1>2, <1>4, <1>5, <1>8, <2>1, <2>3
  <2>4. CASE n = above /\ e = s
    BY <1>1, <1>2, <1>4, <1>5, <1>8, <2>1, <2>4
  <2>5. CASE ~(n = x /\ e = o) /\ ~(n = y /\ e = d) /\ ~(n = above /\ e = s)
    <3>1. u[e][n] = t[e][n] /\ t[e][n] \in A /\ t.parent[t[e][n]] = n
      BY <1>1, <1>6, <1>8, <2>1, <2>5
    <3>2. ASSUME NEW k \in Sides, t[k][n] = t[e][n]
          PROVE  k = e
      <4>1. t[e][n] # nil
        BY <1>5, <3>1
      <4> QED  BY <3>2, <4>1, OneSide
    <3>3. t[e][n] # x
      <4> SUFFICES ASSUME t[e][n] = x PROVE FALSE
        OBVIOUS
      <4>1. n = above
        BY <3>1 DEF above
      <4> QED  BY <1>3, <2>5, <3>2, <4>1
    <3>4. t[e][n] # y
      <4> SUFFICES ASSUME t[e][n] = y PROVE FALSE
        OBVIOUS
      <4>1. n = x
        BY <1>10, <3>1
      <4> QED  BY <1>4, <1>10, <2>5, <3>2, <4>1
    <3>5. t[e][n] # below \/ below = nil
      <4> SUFFICES ASSUME t[e][n] = below, below # nil PROVE FALSE
        OBVIOUS
      <4>1. n = y
        BY <1>10, <3>1
      <4> QED  BY <1>10, <2>5, <3>2, <4>1
    <3>6. t[e][n] \in N
      BY <1>5, <3>1
    <3> QED  BY <1>1, <3>1, <3>3, <3>4, <3>5, <3>6
  <2> QED  BY <2>2, <2>3, <2>4, <2>5
<1>9. ASSUME NEW n \in A
      PROVE  /\ u.parent[n] \in A \cup {root}
             /\ \E e \in Sides : u[e][u.parent[n]] = n
  <2>1. n \in N /\ n # nil /\ y \in N /\ above \in N
    BY <1>2, <1>5
  <2>2. CASE n = x
    <3>1. u.parent[n] = y /\ u[d][y] = x
      BY <1>1, <1>2, <2>1, <2>2
    <3> QED  BY <1>2, <2>2, <3>1
  <2>3. CASE n = y
    <3>1. u.parent[n] = above /\ u[s][above] = y
      BY <1>1, <1>2, <1>3, <2>1, <2>3
    <3> QED  BY <1>2, <1>3, <2>3, <3>1
  <2>4. CASE n = below
    <3>1. u.parent[n] = x
      BY <1>1, <1>2, <2>1, <2>4
    <3>2. u[o][x] = below
      BY <1>1, <1>4, <1>5
    <3> QED  BY <1>4, <2>4, <3>1, <3>2
  <2>5. CASE n # x /\ n # y /\ n # below
    <3>1. u.parent[n] = t.parent[n] /\ t.parent[n] \in A \cup {root} /\ t.parent[n] \in N
      BY <1>1, <1>5, <1>6, <2>1, <2>5
    <3>2. PICK e \in Sides : t[e][t.parent[n]] = n
      BY <1>6
    <3>3. u[e][t.parent[n]] = n
      <4>1. /\ t[o][x] = y /\ t[d][y] = below
        BY DEF o, y, below
      <4> QED  BY <1>1, <1>3, <2>5, <3>1, <3>2, <4>1
    <3> QED  BY <3>1, <3>3
  <2> QED  BY <2>2, <2>3, <2>4, <2>5
<1> QED  BY <1>1, <1>5, <1>7, <1>8, <1>9 DEF Links, u

(* ... and in the same order. *)
LEMMA RotateSearch ==
  ASSUME NEW t, NEW A, NEW lt, NEW sub,
         Links(t, A), Order(lt, A), Search(t, A, lt, sub),
         NEW d \in Sides, NEW x \in A, t[Opposite(d)][x] # nil
  PROVE  Search(Rotate(t, d, x), A, lt, RotatedSub(t, sub, d, x))
<1> DEFINE u == Rotate(t, d, x)
           f == RotatedSub(t, sub, d, x)
           y == t[Opposite(d)][x]
           below == t[d][y]
           above == t.parent[x]
           o == Opposite(d)
           s == Side(t, x)
<1>1. /\ u \in Tree
      /\ \A e \in Sides : \A n \in N :
           u[e][n] = IF n = x /\ e = o THEN below
                     ELSE IF n = y /\ e = d THEN x
                     ELSE IF n = above /\ e = s THEN y
                     ELSE t[e][n]
  BY RotateEffect
<1>2. /\ y \in A /\ y # x /\ above # x /\ above # y
      /\ below # x /\ below # y /\ below # above
      /\ below # nil => below \in A
      /\ above \in A \cup {root}
  BY RotateApart
<1>3. s \in Sides /\ t[s][above] = x /\ (above = root => s = "left")
  BY SideIs
<1>4. /\ o \in Sides /\ o # d /\ Opposite(o) = d
      /\ \A e \in Sides : e = d \/ e = o
      /\ \A e \in Sides : Opposite(e) \in Sides /\ Opposite(e) # e
  BY SideFacts
<1>5. /\ A \subseteq N /\ root \in N /\ nil \in N /\ x \in N /\ y \in N /\ above \in N
      /\ root \notin A /\ nil \notin A /\ y # nil /\ x # nil
  BY <1>2, Names DEF Links
<1>6. t[o][x] = y /\ t[d][y] = below
  BY DEF o, y, below
<1>7. /\ \A e \in Sides : t[e] \in [N -> N]
      /\ t.left = t["left"] /\ u.left = u["left"]
  BY <1>1, TreeFields DEF Links
<1>8. sub \in [N -> SUBSET A] /\ sub[nil] = {} /\ sub[t.left[root]] = A
  BY DEF Search
<1>9. \A n \in A : \A e \in Sides :
        /\ n \in sub[n] /\ n \notin sub[t[e][n]]
        /\ \A m \in sub[t[e][n]] : m \in A /\ On(lt, e, m, n)
        /\ sub[n] = {n} \cup sub[t[e][n]] \cup sub[t[Opposite(e)][n]]
        /\ t[e][n] # nil => t.parent[t[e][n]] = n
  BY ChildOn
<1>10. /\ \A e \in Sides : \A a, b \in A :
            /\ On(lt, Opposite(e), a, b) <=> On(lt, e, b, a)
            /\ ~(On(lt, e, a, b) /\ On(lt, e, b, a))
       /\ \A e \in Sides : \A a, b, c \in A :
            On(lt, e, a, b) /\ On(lt, e, b, c) => On(lt, e, a, c)
  BY OnFacts
<1>11. f = [sub EXCEPT ![y] = sub[x], ![x] = {x} \cup sub[t[d][x]] \cup sub[below]]
  BY DEF RotatedSub
<1> HIDE DEF u, f, y, below, above, o, s
<1>12. /\ f \in [N -> SUBSET A]
       /\ f[y] = sub[x] /\ f[x] = {x} \cup sub[t[d][x]] \cup sub[below]
       /\ \A n \in N : n # x /\ n # y => f[n] = sub[n]
  <2>1. sub[x] \in SUBSET A /\ {x} \cup sub[t[d][x]] \cup sub[below] \in SUBSET A
    BY <1>5, <1>6, <1>7, <1>8
  <2> QED  BY <1>2, <1>5, <1>8, <1>11, <2>1
<1>13. /\ sub[x] = {x} \cup sub[t[d][x]] \cup sub[y]
       /\ sub[y] = {y} \cup sub[below] \cup sub[t[o][y]]
  BY <1>2, <1>4, <1>6, <1>9
<1>14. /\ t[d][x] # x /\ t[d][x] # y /\ t[o][y] # x /\ t[o][y] # y
       /\ t[d][x] \in N /\ t[o][y] \in N /\ below \in N
  <2>1. /\ \A e \in Sides : \A n \in N : t[e][n] \in N
        /\ x \notin sub[y] /\ x \in A /\ y \in sub[x]
    BY <1>4, <1>5, <1>6, <1>7, <1>9, <1>13
  <2>2. t[d][x] # x /\ t[o][y] # y
    BY <1>2, <1>4, <1>9, <2>1
  <2>3. t[d][x] # y
    BY <1>2, <1>4, <1>5, <1>6, <2>1, OneSide
  <2>4. t[o][y] # x
    BY <1>2, <1>4, <1>9, <1>13, <2>1
  <2> QED  BY <1>4, <1>5, <1>6, <2>1, <2>2, <2>3, <2>4
<1>20. ASSUME NEW e \in Sides, NEW n \in A \cup {root}
       PROVE  /\ t[e][n] \in N
              /\ t[e][n] = x => n = above /\ e = s
              /\ t[e][n] = y => n = x /\ e = o
  <2>1. t[e][n] \in N
    BY <1>5, <1>7
  <2>2. ASSUME t[e][n] = x PROVE n = above /\ e = s
    <3>1. n = above
      BY <1>5, <2>2 DEF Links, above
    <3> QED  BY <1>3, <1>5, <2>2, <3>1, OneSide
  <2>3. ASSUME t[e][n] = y PROVE n = x /\ e = o
    <3>1. t.parent[y] = x
      BY <1>4, <1>5, <1>6, <1>9
    <3>2. n = x
      BY <1>5, <2>3, <3>1 DEF Links
    <3> QED  BY <1>4, <1>5, <1>6, <2>3, <3>2, OneSide
  <2> QED  BY <2>1, <2>2, <2>3
<1>15. ASSUME NEW e \in Sides, NEW n \in A, NEW m \in f[u[e][n]]
       PROVE  On(lt, e, m, n)
  <2>1. CASE n = x /\ e = o
    <3>1. m \in sub[below]
      BY <1>1, <1>2, <1>5, <1>12, <1>14, <2>1
    <3>2. m \in sub[t[o][x]]
      BY <1>6, <1>13, <3>1
    <3> QED  BY <1>9, <2>1, <3>2
  <2>2. CASE n = y /\ e = d
    <3>1. m = x \/ m \in sub[t[d][x]] \/ m \in sub[below]
      BY <1>1, <1>2, <1>5, <1>12, <2>2
    <3>2. On(lt, d, x, y)
      <4>1. On(lt, o, y, x)
        BY <1>2, <1>4, <1>6, <1>9
      <4> QED  BY <1>2, <1>4, <1>10, <4>1
    <3>3. m \in sub[t[d][x]] => m \in A /\ On(lt, d, m, x)
      BY <1>9
    <3>4. m \in sub[below] => On(lt, d, m, y)
      BY <1>2, <1>6, <1>9
    <3> QED  BY <1>2, <1>10, <2>2, <3>1, <3>2, <3>3, <3>4
  <2>3. CASE n = above /\ e = s
    <3>1. m \in sub[t[s][above]]
      BY <1>1, <1>2, <1>3, <1>5, <1>12, <2>3
    <3> QED  BY <1>9, <2>3, <3>1
  <2>4. CASE ~(n = x /\ e = o) /\ ~(n = y /\ e = d) /\ ~(n = above /\ e = s)
    <3>1. u[e][n] = t[e][n]
      BY <1>1, <1>5, <2>4
    <3>2. m \in sub[t[e][n]]
      BY <1>12, <1>20, <2>4, <3>1
    <3> QED  BY <1>9, <3>2
  <2> QED  BY <2>1, <2>2, <2>3, <2>4
<1>16. ASSUME NEW n \in A
       PROVE  f[n] = {n} \cup f[u[d][n]] \cup f[u[o][n]]
  <2>1. CASE n = x
    <3>1. u[d][x] = t[d][x] /\ u[o][x] = below
      BY <1>1, <1>2, <1>4, <1>5
    <3> QED  BY <1>2, <1>5, <1>12, <1>14, <2>1, <3>1
  <2>2. CASE n = y
    <3>1. u[d][y] = x /\ u[o][y] = t[o][y]
      BY <1>1, <1>2, <1>4, <1>5
    <3>2. f[t[o][y]] = sub[t[o][y]]
      BY <1>12, <1>14
    <3> QED  BY <1>2, <1>5, <1>12, <1>13, <2>2, <3>1, <3>2
  <2>3. CASE n # x /\ n # y
    <3>1. n \in N /\ f[n] = sub[n] /\ sub[n] = {n} \cup sub[t[d][n]] \cup sub[t[o][n]]
      BY <1>4, <1>5, <1>9, <1>12, <2>3
    <3>2. ASSUME NEW e \in Sides PROVE f[u[e][n]] = sub[t[e][n]]
      <4>1. CASE n = above /\ e = s
        BY <1>1, <1>3, <1>5, <1>12, <2>3, <4>1
      <4>2. CASE ~(n = above /\ e = s)
        <5>1. u[e][n] = t[e][n]
          BY <1>1, <2>3, <3>1, <4>2
        <5> QED  BY <1>12, <1>20, <2>3, <4>2, <5>1
      <4> QED  BY <4>1, <4>2
    <3> QED  BY <1>4, <3>1, <3>2
  <2> QED  BY <2>1, <2>2, <2>3
<1>17. ASSUME NEW n \in A
       PROVE  f[n] = {n} \cup f[u["left"][n]] \cup f[u["right"][n]]
  <2>1. \/ d = "left" /\ o = "right"
        \/ d = "right" /\ o = "left"
    BY DEF o, Opposite, Sides
  <2> QED  BY <1>16, <2>1
<1>18. f[u.left[root]] = A
  <2>1. /\ root \in N /\ root # x /\ root # y /\ "left" \in Sides
    BY <1>2, <1>5, SideFacts
  <2>2. CASE above = root
    <3>1. u["left"][root] = y /\ t["left"][root] = x
      BY <1>1, <1>3, <2>1, <2>2
    <3> QED  BY <1>7, <1>8, <1>12, <3>1
  <2>3. CASE above # root
    <3>1. u["left"][root] = t["left"][root]
      BY <1>1, <2>1, <2>3
    <3> QED  BY <1>7, <1>8, <1>12, <1>20, <2>1, <2>3, <3>1
  <2> QED  BY <2>2, <2>3
<1>19. f[nil] = {}
  BY <1>2, <1>5, <1>8, <1>12
<1> QED  BY <1>12, <1>15, <1>17, <1>18, <1>19 DEF Search, u, f

-----------------------------------------------------------------------------
(* The links and the order are those of a search tree of the nodes A.       *)
Shaped(t, A, lt, sub) == Links(t, A) /\ Order(lt, A) /\ Search(t, A, lt, sub)

(* A red node has a black parent, unless it is x. *)
Colours(t, A, x) ==
  /\ ~t.red[nil] /\ ~t.red[root]
  /\ \A n \in A : t.red[n] /\ n # x => ~t.red[t.parent[n]]

(* bh[n] black nodes are on each path from n down; the child of p on side d *)
(* is short of one.                                                         *)
Heights(t, A, bh, p, d) ==
  /\ bh \in [N -> Nat] /\ bh[nil] = 0
  /\ \A e \in Sides : \A n \in A :
       bh[n] = bh[t[e][n]] + (IF t.red[n] THEN 0 ELSE 1)
                           + (IF n = p /\ e = d THEN 1 ELSE 0)

(* What the invariant says of single links.                                 *)
LEMMA ShapeFacts ==
  ASSUME NEW t, NEW A, NEW lt, NEW sub, Shaped(t, A, lt, sub)
  PROVE  /\ t \in Tree /\ t.red \in [N -> BOOLEAN] /\ t.parent \in [N -> N]
         /\ A \subseteq N /\ nil \in N /\ root \in N
         /\ nil \notin A /\ root \notin A /\ nil # root
         /\ \A e \in Sides : \A n \in A \cup {root} :
              /\ t[e][n] \in N
              /\ t[e][n] # nil => t[e][n] \in A /\ t.parent[t[e][n]] = n
              /\ t[e][n] # n
         /\ \A n \in A : /\ t.parent[n] \in A \cup {root} /\ t.parent[n] \in N
                         /\ Side(t, n) \in Sides /\ t[Side(t, n)][t.parent[n]] = n
                         /\ t.parent[n] # n
         /\ \A e, d \in Sides : \A n \in A \cup {root} :
              t[e][n] # nil /\ t[d][n] = t[e][n] => d = e
         /\ \A e \in Sides : t[e][nil] = nil
         /\ t.left = t["left"] /\ t.right[root] = nil
<1>1. Links(t, A) /\ Order(lt, A) /\ Search(t, A, lt, sub)
  BY DEF Shaped
<1>2. /\ t \in Tree /\ t.red \in [N -> BOOLEAN] /\ t.parent \in [N -> N]
      /\ t.left = t["left"] /\ \A e \in Sides : t[e] \in [N -> N]
  BY <1>1, TreeFields DEF Links
<1>3. A \subseteq N /\ nil \in N /\ root \in N /\ nil \notin A /\ root \notin A /\ nil # root
  BY <1>1, Names DEF Links
<1>4. ASSUME NEW e \in Sides, NEW n \in A \cup {root}
      PROVE  /\ t[e][n] \in N
             /\ t[e][n] # nil => t[e][n] \in A /\ t.parent[t[e][n]] = n
             /\ t[e][n] # n
  <2>1. t[e][n] \in N
    BY <1>2, <1>3
  <2>2. t[e][n] # nil => t[e][n] \in A /\ t.parent[t[e][n]] = n
    BY <1>1 DEF Links
  <2>3. CASE n = root
    BY <1>3, <2>1, <2>2, <2>3
  <2>4. CASE n \in A
    BY <1>1, <1>3, <2>1, <2>2, <2>4, ChildOn
  <2> QED  BY <2>3, <2>4
<1>5. \A n \in A : /\ t.parent[n] \in A \cup {root} /\ t.parent[n] \in N
                   /\ Side(t, n) \in Sides /\ t[Side(t, n)][t.parent[n]] = n
                   /\ t.parent[n] # n
  BY <1>1, <1>3, ParentOn, ChildOn
<1>6. \A e, d \in Sides : \A n \in A \cup {root} :
              t[e][n] # nil /\ t[d][n] = t[e][n] => d = e
  BY <1>1, OneSide
<1>7. (\A e \in Sides : t[e][nil] = nil) /\ t.right[root] = nil
  BY <1>1 DEF Links
<1> QED  BY <1>2, <1>3, <1>4, <1>5, <1>6, <1>7

(* The colours do not matter for the shape. *)
LEMMA Recoloured ==
  ASSUME NEW t, NEW A, NEW lt, NEW sub, Shaped(t, A, lt, sub),
         NEW u \in Tree, u.parent = t.parent, \A e \in Sides : u[e] = t[e]
  PROVE  /\ Shaped(u, A, lt, sub) /\ u.left = t.left
         /\ \A n : Side(u, n) = Side(t, n)
<1>1. t \in Tree
  BY ShapeFacts
<1>2. u["left"] = t["left"] /\ u["right"] = t["right"] /\ u.left = t.left /\ u.right = t.right
  BY <1>1, SideFacts, TreeFields
<1>3. Links(u, A)
  BY <1>2 DEF Links, Shaped
<1>4. Search(u, A, lt, sub)
  BY <1>2 DEF Search, Shaped
<1> QED  BY <1>2, <1>3, <1>4 DEF Shaped, Side

(* A rotation keeps links and order; the subtree of x loses what now        *)
(* hangs at y.                                                              *)
LEMMA RotateShaped ==
  ASSUME NEW t, NEW A, NEW lt, NEW sub, Shaped(t, A, lt, sub),
         NEW d \in Sides, NEW x \in A, t[Opposite(d)][x] # nil
  PROVE  Shaped(Rotate(t, d, x), A, lt, RotatedSub(t, sub, d, x))
BY RotateLinks, RotateSearch DEF Shaped

(* RotateEffect for a tree that has been recoloured before. *)
LEMMA RotateStep ==
  ASSUME NEW t, NEW A, NEW lt, NEW sub, Shaped(t, A, lt, sub),
         NEW d \in Sides, NEW o \in Sides, o = Opposite(d),
         NEW x \in A, NEW y, y = t[o][x], y # nil,
         NEW below, below = t[d][y], NEW above, above = t.parent[x],
         NEW u, u = Rotate(t, d, x)
  PROVE  /\ Shaped(u, A, lt, RotatedSub(t, sub, d, x))
         /\ u \in Tree /\ u.red = t.red
         /\ \A n \in N :
              u.parent[n] = IF n = x THEN y
                            ELSE IF n = y THEN above
                            ELSE IF n = below /\ below # nil THEN x
                            ELSE t.parent[n]
         /\ \A e \in Sides : \A n \in N :
              u[e][n] = IF n = x /\ e = o THEN below
                        ELSE IF n = y /\ e = d THEN x
                        ELSE IF n = above /\ e = Side(t, x) THEN y
                        ELSE t[e][n]
         /\ y \in A /\ y # x /\ above # x /\ above # y
         /\ below # x /\ below # y /\ below # above /\ below \in A \cup {nil}
         /\ above \in A \cup {root}
<1>1. Links(t, A) /\ Order(lt, A) /\ Search(t, A, lt, sub)
  BY DEF Shaped
<1> QED  BY <1>1, RotateEffect, RotateApart, RotateShaped

-----------------------------------------------------------------------------
(* RBTreeInsert with a red uncle. *)
LEMMA RedUncleStep ==
  ASSUME NEW t, NEW A, NEW lt, NEW sub, NEW bh,
         Shaped(t, A, lt, sub), NEW x \in A, Colours(t, A, x),
         Heights(t, A, bh, nil, "left"),
         NEW p \in A, p = t.parent[x], t.red[x], t.red[p],
         NEW g \in A, g = t.parent[p],
         NEW w, w = t[Opposite(Side(t, p))][g], t.red[w]
  PROVE  LET u == RedUncle(t, x)
         IN  /\ Shaped(u, A, lt, sub) /\ Colours(u, A, g) /\ u.red[g]
             /\ \E h : Heights(u, A, h, nil, "left")
             /\ u.left = t.left
             /\ \A n \in A : u.red[n] => n = g \/ t.red[n]
<1> DEFINE u == RedUncle(t, x)
           o == Opposite(Side(t, p))
           t1 == [t EXCEPT !.red[p] = FALSE]
           t2 == [t1 EXCEPT !.red[w] = FALSE]
           t3 == [t2 EXCEPT !.red[g] = TRUE]
           h == [n \in N |-> bh[n] + (IF n = p \/ n = w THEN 1 ELSE 0)]
<1>1. u = t3
  BY DEF RedUncle
<1>0. /\ t \in Tree /\ t.red \in [N -> BOOLEAN]
      /\ A \subseteq N /\ nil \in N /\ root \in N /\ nil \notin A /\ root \notin A
      /\ FALSE \in BOOLEAN /\ TRUE \in BOOLEAN
  BY ShapeFacts
<1>2. /\ A \subseteq N /\ root \in N /\ nil \notin A /\ root \notin A
      /\ \A e \in Sides : \A n \in A \cup {root} :
              /\ t[e][n] \in N
              /\ t[e][n] # nil => t[e][n] \in A /\ t.parent[t[e][n]] = n
              /\ t[e][n] # n
      /\ \A n \in A : /\ t.parent[n] \in A \cup {root} /\ t.parent[n] \in N
                      /\ Side(t, n) \in Sides /\ t[Side(t, n)][t.parent[n]] = n
                      /\ t.parent[n] # n
      /\ \A e, d \in Sides : \A n \in A \cup {root} :
              t[e][n] # nil /\ t[d][n] = t[e][n] => d = e
  BY ShapeFacts
<1>3. /\ o \in Sides /\ o # Side(t, p) /\ t[Side(t, p)][g] = p
      /\ \A e \in Sides : e = o \/ e = Side(t, p)
  BY <1>2, SideFacts
<1>4. /\ w \in A /\ w # nil /\ t.parent[w] = g /\ w # p /\ p # g /\ w # g
      /\ x # p /\ p \in N /\ w \in N /\ g \in N
  <2>1. w \in N /\ w # nil
    BY <1>2, <1>3 DEF Colours
  <2>2. w \in A /\ t.parent[w] = g
    BY <1>2, <1>3, <2>1
  <2>3. w # p
    BY <1>2, <1>3
  <2> QED  BY <1>2, <2>1, <2>2, <2>3
<1>13. p \in N /\ w \in N /\ g \in N /\ nil # p /\ nil # w /\ nil # g
       /\ root # p /\ root # w /\ root # g
  BY <1>0, <1>4
<1>5. /\ t3 \in Tree /\ t3.parent = t.parent /\ \A e \in Sides : t3[e] = t[e]
      /\ t3.red = [[[t.red EXCEPT ![p] = FALSE] EXCEPT ![w] = FALSE] EXCEPT ![g] = TRUE]
  <2>1. /\ t1 \in Tree /\ t1.parent = t.parent /\ \A e \in Sides : t1[e] = t[e]
        /\ t1.red = [t.red EXCEPT ![p] = FALSE]
    BY <1>0, <1>13 DEF Tree, Sides, t1
  <2> HIDE DEF t1
  <2>2. /\ t2 \in Tree /\ t2.parent = t.parent /\ \A e \in Sides : t2[e] = t[e]
        /\ t2.red = [t1.red EXCEPT ![w] = FALSE]
    BY <1>0, <1>13, <2>1 DEF Tree, Sides, t2
  <2> HIDE DEF t2
  <2>3. /\ t3 \in Tree /\ t3.parent = t.parent /\ \A e \in Sides : t3[e] = t[e]
        /\ t3.red = [t2.red EXCEPT ![g] = TRUE]
    BY <1>0, <1>13, <2>2 DEF Tree, Sides, t3
  <2> HIDE DEF t3
  <2> QED  BY <2>1, <2>2, <2>3
<1> HIDE DEF t3
<1>6. Shaped(u, A, lt, sub) /\ u.left = t.left
  BY <1>1, <1>5, Recoloured
<1>7. \A n \in N : /\ n = g => u.red[n]
                   /\ n = p \/ n = w => ~u.red[n]
                   /\ n # g /\ n # p /\ n # w => (u.red[n] <=> t.red[n])
  <2>1. u.red = [[[t.red EXCEPT ![p] = FALSE] EXCEPT ![w] = FALSE] EXCEPT ![g] = TRUE]
    BY <1>1, <1>5
  <2>2. p # g /\ w # g /\ w # p /\ t.red \in [N -> BOOLEAN]
    BY <1>0, <1>4
  <2> HIDE DEF u
  <2> QED  BY <2>1, <2>2
<1>8. u.parent = t.parent /\ \A e \in Sides : u[e] = t[e]
  BY <1>1, <1>5
<1> HIDE DEF u
<1>9. Colours(u, A, g)
  <2>1. ~u.red[nil] /\ ~u.red[root]
    BY <1>0, <1>13, <1>7 DEF Colours
  <2>2. ASSUME NEW n \in A, u.red[n], n # g PROVE ~u.red[t.parent[n]]
    <3>1. n # p /\ n # w /\ t.red[n] /\ n \in N
      BY <1>2, <1>7, <2>2
    <3>2. t.parent[n] # g
      BY <1>2, <1>3, <3>1
    <3>3. n # x => ~t.red[t.parent[n]]
      BY <3>1 DEF Colours
    <3> QED  BY <1>2, <1>7, <3>2, <3>3
  <2> QED  BY <1>8, <2>1, <2>2 DEF Colours
<1>10. Heights(u, A, h, nil, "left")
  <2>1. bh \in [N -> Nat] /\ bh[nil] = 0
    BY DEF Heights
  <2>2. h \in [N -> Nat] /\ \A n \in N : h[n] = bh[n] + (IF n = p \/ n = w THEN 1 ELSE 0)
    <3>1. \A n \in N : bh[n] + (IF n = p \/ n = w THEN 1 ELSE 0) \in Nat
      BY <2>1
    <3> QED  BY <3>1
  <2> HIDE DEF h
  <2>3. h[nil] = 0
    BY <1>0, <1>13, <2>1, <2>2
  <2>4. ASSUME NEW e \in Sides, NEW n \in A
        PROVE  h[n] = h[u[e][n]] + (IF u.red[n] THEN 0 ELSE 1)
    <3>1. /\ bh[n] = bh[t[e][n]] + (IF t.red[n] THEN 0 ELSE 1)
          /\ t[e][n] \in N /\ n \in N /\ u[e][n] = t[e][n]
          /\ h[n] \in Nat /\ bh[n] \in Nat /\ bh[t[e][n]] \in Nat
      BY <1>2, <1>8, <2>1, <2>2 DEF Heights
    <3>2. CASE n = g
      <4>1. t[e][n] = p \/ t[e][n] = w
        BY <1>3, <3>2
      <4>2. ~t.red[g] /\ u.red[g]
        BY <1>4, <1>7 DEF Colours
      <4>3. h[t[e][n]] = bh[t[e][n]] + 1
        BY <2>2, <3>1, <4>1
      <4>4. h[n] = bh[n]
        <5>1. n # p /\ n # w /\ n \in N
          BY <1>4, <3>1, <3>2
        <5> QED  BY <2>2, <3>1, <5>1
      <4>5. ~t.red[n] /\ u.red[n] /\ u[e][n] = t[e][n]
        BY <3>1, <3>2, <4>2
      <4> QED  BY <3>1, <4>3, <4>4, <4>5
    <3>3. CASE n # g
      <4>1. t[e][n] # p /\ t[e][n] # w
        BY <1>2, <1>4, <3>3
      <4>2. /\ n = p \/ n = w => ~u.red[n]
            /\ n # p /\ n # w => (u.red[n] <=> t.red[n])
        BY <1>7, <3>1, <3>3
      <4>3. t.red[p] /\ t.red[w]
        OBVIOUS
      <4>4. h[t[e][n]] = bh[t[e][n]]
        BY <2>2, <3>1, <4>1
      <4>5. h[n] = bh[n] + (IF n = p \/ n = w THEN 1 ELSE 0)
        BY <2>2, <3>1
      <4> QED  BY <3>1, <4>2, <4>3, <4>4, <4>5
    <3> QED  BY <3>2, <3>3
  <2>5. \A e \in Sides : \A n \in A : h[u[e][n]] \in Nat
    BY <1>2, <1>8, <2>2
  <2> QED  BY <1>2, <2>2, <2>3, <2>4, <2>5 DEF Heights
<1>11. u.red[g] /\ \A n \in A : u.red[n] => n = g \/ t.red[n]
  BY <1>2, <1>4, <1>7
<1> HIDE DEF h
<1> QED  BY <1>6, <1>9, <1>10, <1>11 DEF u

(* r is t with the colours of the red node p and the black node g exchanged. *)
Exchanged(r, t, p, g) ==
  /\ r \in Tree /\ r.parent = t.parent /\ \A e \in Sides : r[e] = t[e]
  /\ ~r.red[p] /\ r.red[g]
  /\ \A n \in N : n # p /\ n # g => (r.red[n] <=> t.red[n])

(* Paint exchanges the colours of a red parent and a black grandparent.     *)
LEMMA Exchange ==
  ASSUME NEW t \in Tree, NEW p \in N, NEW g \in N, p # g
  PROVE  Exchanged(Paint(t, p, g), t, p, g)
<1> DEFINE t1 == [t EXCEPT !.red[p] = FALSE]
           t2 == [t1 EXCEPT !.red[g] = TRUE]
<1>1. /\ t1 \in Tree /\ t1.parent = t.parent /\ \A e \in Sides : t1[e] = t[e]
      /\ t1.red = [t.red EXCEPT ![p] = FALSE]
  BY DEF Tree, Sides, t1
<1> HIDE DEF t1
<1>2. /\ t2 \in Tree /\ t2.parent = t.parent /\ \A e \in Sides : t2[e] = t[e]
      /\ t2.red = [t1.red EXCEPT ![g] = TRUE]
  BY <1>1 DEF Tree, Sides, t2
<1> HIDE DEF t2
<1>3. /\ ~t2.red[p] /\ t2.red[g]
      /\ \A n \in N : n # p /\ n # g => (t2.red[n] <=> t.red[n])
  <2>1. t.red \in [N -> BOOLEAN] /\ TRUE \in BOOLEAN /\ FALSE \in BOOLEAN
    BY TreeFields
  <2> QED  BY <1>1, <1>2, <2>1
<1> QED  BY <1>2, <1>3 DEF Exchanged, Paint, t1, t2

(* A red node p takes the place of its black parent g, and the colours are  *)
(* exchanged: no path changes its number of black nodes.                    *)
LEMMA RaiseRed ==
  ASSUME NEW t, NEW A, NEW lt, NEW sub, NEW bh, NEW x, NEW q, NEW k,
         Shaped(t, A, lt, sub), Colours(t, A, x), Heights(t, A, bh, q, k),
         NEW g \in A, NEW d \in Sides, NEW o \in Sides, o = Opposite(d),
         NEW p \in A, p = t[d][g],
         t.red[p], ~t.red[g], ~t.red[t[o][g]],
         x # p, x # t[o][p], q # p, ~(q = g /\ k = d),
         NEW below, below = t[o][p], NEW above, above = t.parent[g],
         NEW r, Exchanged(r, t, p, g), NEW u, u = Rotate(r, o, g)
  PROVE  /\ u \in Tree /\ \E f : Shaped(u, A, lt, f)
         /\ Colours(u, A, x) /\ \E h : Heights(u, A, h, q, k)
         /\ ~u.red[p] /\ u.red[g]
         /\ \A n \in N : n # p /\ n # g => (u.red[n] <=> t.red[n])
         /\ \A n \in N : u.parent[n] = IF n = g THEN p
                                    ELSE IF n = p THEN above
                                    ELSE IF n = below /\ below # nil THEN g
                                    ELSE t.parent[n]
         /\ \A e \in Sides : \A n \in N :
              u[e][n] = IF n = g /\ e = d THEN below
                        ELSE IF n = p /\ e = o THEN g
                        ELSE IF n = above /\ e = Side(t, g) THEN p
                        ELSE t[e][n]
         /\ above # g /\ above # p
         /\ below # g /\ below # p /\ below # above /\ below \in A \cup {nil}
         /\ above \in A \cup {root}
<1> DEFINE s == Side(t, g)
           h == [n \in N |-> IF n = p THEN bh[g] ELSE IF n = g THEN bh[p] ELSE bh[n]]
<1>2. /\ t \in Tree /\ t.red \in [N -> BOOLEAN]
      /\ A \subseteq N /\ nil \in N /\ root \in N /\ nil \notin A /\ root \notin A
      /\ nil # root
      /\ FALSE \in BOOLEAN /\ TRUE \in BOOLEAN
  BY ShapeFacts
<1>3. /\ \A e \in Sides : \A n \in A \cup {root} :
              /\ t[e][n] \in N
              /\ t[e][n] # nil => t[e][n] \in A /\ t.parent[t[e][n]] = n
              /\ t[e][n] # n
      /\ \A n \in A : /\ t.parent[n] \in A \cup {root} /\ t.parent[n] \in N
                      /\ Side(t, n) \in Sides /\ t[Side(t, n)][t.parent[n]] = n
                      /\ t.parent[n] # n
      /\ \A e, j \in Sides : \A n \in A \cup {root} :
              t[e][n] # nil /\ t[j][n] = t[e][n] => j = e
  BY ShapeFacts
<1>4. /\ o # d /\ Opposite(o) = d /\ \A e \in Sides : e = o \/ e = d
  BY SideFacts
<1>5. /\ p \in N /\ g \in N /\ p # g /\ p # nil /\ g # nil
      /\ root # p /\ root # g /\ t.parent[p] = g
  BY <1>2, <1>3
<1>7. /\ r \in Tree /\ r.parent = t.parent /\ \A e \in Sides : r[e] = t[e]
      /\ ~r.red[p] /\ r.red[g]
      /\ \A n \in N : n # p /\ n # g => (r.red[n] <=> t.red[n])
  BY DEF Exchanged
<1>8. Shaped(r, A, lt, sub) /\ Side(r, g) = s
  BY <1>7, Recoloured
<1>9. r[d][g] = p /\ r[o][p] = below /\ r.parent[g] = above
  BY <1>4, <1>7
<1> HIDE DEF s
<1>10. /\ Shaped(u, A, lt, RotatedSub(r, sub, o, g))
       /\ u \in Tree /\ u.red = r.red
       /\ \A n \in N :
              u.parent[n] = IF n = g THEN p
                            ELSE IF n = p THEN above
                            ELSE IF n = below /\ below # nil THEN g
                            ELSE r.parent[n]
       /\ \A e \in Sides : \A n \in N :
              u[e][n] = IF n = g /\ e = d THEN below
                        ELSE IF n = p /\ e = o THEN g
                        ELSE IF n = above /\ e = s THEN p
                        ELSE r[e][n]
       /\ above # g /\ above # p
       /\ below # g /\ below # p /\ below # above /\ below \in A \cup {nil}
       /\ above \in A \cup {root}
  BY <1>4, <1>5, <1>8, <1>9, RotateStep
<1>11. /\ ~u.red[p] /\ u.red[g]
       /\ \A n \in N : n # p /\ n # g => (u.red[n] <=> t.red[n])
  BY <1>7, <1>10
<1>12. /\ \A n \in N : u.parent[n] = IF n = g THEN p
                            ELSE IF n = p THEN above
                            ELSE IF n = below /\ below # nil THEN g
                            ELSE t.parent[n]
       /\ \A e \in Sides : \A n \in N :
              u[e][n] = IF n = g /\ e = d THEN below
                        ELSE IF n = p /\ e = o THEN g
                        ELSE IF n = above /\ e = s THEN p
                        ELSE t[e][n]
  BY <1>7, <1>10
<1>13. /\ s \in Sides /\ t[s][above] = g /\ above \in N
  BY <1>3 DEF s
<1>14. x # below /\ ~t.red[below]
  <2>1. x # below
    OBVIOUS
  <2>3. CASE below = nil
    BY <2>1, <2>3 DEF Colours
  <2>4. CASE below \in A
    <3>1. t.parent[below] = p
      BY <1>2, <1>3, <1>4, <2>4
    <3> QED  BY <2>1, <2>4, <3>1 DEF Colours
  <2> QED  BY <1>10, <2>1, <2>3, <2>4
<1>15. Colours(u, A, x)
  <2>1. ~u.red[nil] /\ ~u.red[root]
    BY <1>2, <1>5, <1>11 DEF Colours
  <2>2. ASSUME NEW n \in A, u.red[n], n # x PROVE ~u.red[u.parent[n]]
    <3>1. n \in N /\ n # p
      BY <1>2, <1>11, <2>2
    <3>2. CASE n = g
      BY <1>11, <1>12, <3>1, <3>2
    <3>3. CASE n # g
      <4>1. t.red[n]
        BY <1>11, <2>2, <3>1, <3>3
      <4>2. n # below
        BY <1>14, <4>1
      <4>3. u.parent[n] = t.parent[n] /\ t.parent[n] \in N
        BY <1>3, <1>12, <3>1, <3>3, <4>2
      <4>4. t.parent[n] # g
        <5>1. t.parent[n] = g => n = p \/ n = t[o][g]
          <6>1. Side(t, n) \in Sides /\ t[Side(t, n)][t.parent[n]] = n
            BY <1>3
          <6>2. Side(t, n) = o \/ Side(t, n) = d
            BY <1>4, <6>1
          <6> QED  BY <6>1, <6>2
        <5> QED  BY <3>1, <4>1, <5>1
      <4>6. ~t.red[t.parent[n]]
        BY <2>2, <4>1 DEF Colours
      <4> QED  BY <1>11, <4>3, <4>4, <4>6
    <3> QED  BY <3>2, <3>3
  <2> QED  BY <2>1, <2>2 DEF Colours
<1>16. Heights(u, A, h, q, k)
  <2> DEFINE Short(n, e) == IF n = q /\ e = k THEN 1 ELSE 0
  <2>1. /\ bh \in [N -> Nat] /\ bh[nil] = 0
        /\ \A e \in Sides : \A n \in A :
             bh[n] = bh[t[e][n]] + (IF t.red[n] THEN 0 ELSE 1) + Short(n, e)
    BY DEF Heights
  <2>2. h \in [N -> Nat] /\ h[p] = bh[g] /\ h[g] = bh[p]
        /\ \A n \in N : n # p /\ n # g => h[n] = bh[n]
    BY <1>5, <2>1
  <2> HIDE DEF h
  <2>3. h[nil] = 0
    BY <1>2, <1>5, <2>1, <2>2
  <2>7. Short(g, d) = 0 /\ Short(p, d) = 0 /\ Short(p, o) = 0
        /\ \A n, e : Short(n, e) \in {0, 1}
    OBVIOUS
  <2> HIDE DEF Short
  <2>4. /\ bh[p] = bh[t[d][p]] /\ bh[p] = bh[below] /\ bh[g] = bh[p] + 1
        /\ bh[t[o][g]] + Short(g, o) = bh[p]
        /\ bh[p] \in Nat
    <3>2. bh[t[o][g]] \in Nat /\ bh[p] \in Nat /\ bh[t[d][p]] \in Nat /\ bh[below] \in Nat
      BY <1>2, <1>3, <1>4, <1>5, <1>10, <2>1
    <3>3. /\ bh[p] = bh[t[d][p]] + Short(p, d) /\ bh[p] = bh[t[o][p]] + Short(p, o)
          /\ bh[g] = bh[p] + 1 + Short(g, d) /\ bh[g] = bh[t[o][g]] + 1 + Short(g, o)
      <4>1. bh[p] = bh[t[d][p]] + 0 + Short(p, d) /\ bh[p] = bh[t[o][p]] + 0 + Short(p, o)
        BY <2>1
      <4>2. bh[g] = bh[p] + 1 + Short(g, d) /\ bh[g] = bh[t[o][g]] + 1 + Short(g, o)
        BY <2>1
      <4> QED  BY <2>7, <3>2, <4>1, <4>2
    <3>4. t[o][p] = below
      OBVIOUS
    <3> QED  BY <2>7, <3>2, <3>3, <3>4
  <2>5. ASSUME NEW e \in Sides, NEW n \in A
        PROVE  h[n] = h[u[e][n]] + (IF u.red[n] THEN 0 ELSE 1) + Short(n, e)
    <3>1. n \in N /\ t[e][n] \in N /\ bh[t[e][n]] \in Nat /\ bh[n] \in Nat
      BY <1>2, <1>3, <2>1
    <3>2. CASE n = g
      <4>1. h[u[d][g]] = bh[p]
        <5>1. u[d][g] = below /\ below \in N
          BY <1>2, <1>5, <1>10, <1>12
        <5>2. h[below] = bh[below]
          BY <1>10, <2>2, <5>1
        <5> QED  BY <2>4, <5>1, <5>2
      <4>2. h[u[o][g]] = bh[t[o][g]]
        <5>1. u[o][g] = t[o][g]
          BY <1>4, <1>5, <1>10, <1>12
        <5>2. t[o][g] # p /\ t[o][g] # g /\ t[o][g] \in N
          BY <1>3, <1>4, <1>5
        <5> QED  BY <2>2, <5>1, <5>2
      <4>3. bh[t[o][g]] \in Nat
        BY <1>3, <2>1
      <4> QED  BY <1>4, <1>11, <2>2, <2>4, <2>7, <3>2, <4>1, <4>2, <4>3
    <3>3. CASE n = p
      <4>1. h[u[d][p]] = bh[p]
        <5>1. u[d][p] = t[d][p]
          <6>1. p \in N /\ p # g /\ d # o /\ p # above
            BY <1>4, <1>5, <1>10
          <6> QED  BY <1>12, <6>1
        <5>2. t[d][p] # p /\ t[d][p] # g /\ t[d][p] \in N
          <6>1. t[d][p] # g
            <7> SUFFICES ASSUME t[d][p] = g PROVE FALSE
              OBVIOUS
            <7>1. above = p
              BY <1>3, <1>5
            <7> QED  BY <1>10, <7>1
          <6> QED  BY <1>3, <6>1
        <5> QED  BY <2>2, <2>4, <5>1, <5>2
      <4>2. h[u[o][p]] = bh[p]
        <5>1. p \in N /\ p # g
          BY <1>5
        <5>2. u[o][p] = g
          BY <1>12, <5>1
        <5> QED  BY <2>2, <5>2
      <4> QED  BY <1>4, <1>11, <2>2, <2>4, <2>7, <3>3, <4>1, <4>2
    <3>4. CASE n = above /\ e = s
      <4>1. h[u[e][n]] = bh[t[e][n]] /\ h[n] = bh[n]
        BY <1>10, <1>12, <1>13, <2>2, <3>1, <3>4
      <4> QED  BY <1>10, <1>11, <2>1, <3>1, <3>4, <4>1
    <3>5. CASE n # g /\ n # p /\ ~(n = above /\ e = s)
      <4>1. u[e][n] = t[e][n]
        BY <1>12, <3>1, <3>5
      <4>2. t[e][n] # p
        BY <1>3, <1>5, <3>5
      <4>3. t[e][n] # g
        <5> SUFFICES ASSUME t[e][n] = g PROVE FALSE
          OBVIOUS
        <5>1. n = above
          BY <1>3, <1>5
        <5> QED  BY <1>3, <1>5, <1>13, <3>5, <5>1
      <4> QED  BY <1>11, <2>1, <2>2, <3>1, <3>5, <4>1, <4>2, <4>3
    <3> QED  BY <3>2, <3>3, <3>4, <3>5
  <2> QED  BY <2>2, <2>3, <2>5 DEF Heights, Short
<1> HIDE DEF h
<1> QED  BY <1>10, <1>11, <1>12, <1>15, <1>16 DEF s

(* The top of a tree in which p has taken the place of g. *)
LEMMA RaisedTop ==
  ASSUME NEW t, NEW A, NEW lt, NEW sub, Shaped(t, A, lt, sub),
         NEW g \in A, NEW p \in A,
         NEW u \in Tree,
         \A e \in Sides : \A n \in N : n \notin A =>
           u[e][n] = IF n = t.parent[g] /\ e = Side(t, g) THEN p ELSE t[e][n]
  PROVE  u.left[root] = IF t.left[root] = g THEN p ELSE t.left[root]
<1>1. /\ "left" \in Sides /\ t.left = t["left"] /\ u.left = u["left"]
      /\ root \in N /\ root \notin A /\ nil \notin A
      /\ t[Side(t, g)][t.parent[g]] = g /\ Side(t, g) \in Sides
  BY ShapeFacts, SideFacts, TreeFields
<1>2. t["left"][root] = g => t.parent[g] = root
  BY <1>1, ShapeFacts
<1>3. t["right"][root] = nil
  <2>1. t.right = t["right"]
    BY ShapeFacts, TreeFields
  <2> QED  BY <2>1, ShapeFacts
<1>4. t.parent[g] = root => Side(t, g) = "left"
  BY <1>1, <1>3, SideFacts
<1> QED  BY <1>1, <1>2, <1>4

(* The parent p of a red node x becomes the black parent of its own parent. *)
LEMMA RaiseParentStep ==
  ASSUME NEW t, NEW A, NEW lt, NEW sub, NEW bh,
         Shaped(t, A, lt, sub), NEW x \in A, Colours(t, A, x),
         Heights(t, A, bh, nil, "left"), ~t.red[t.left[root]],
         NEW p \in A, p = t.parent[x], t.red[x], t.red[p],
         NEW g \in A, g = t.parent[p],
         NEW d \in Sides, t[d][p] = x, t[d][g] = p,
         ~t.red[t[Opposite(d)][g]]
  PROVE  LET u == RaiseParent(t, x, d)
         IN  /\ \E f : Shaped(u, A, lt, f)
             /\ Colours(u, A, nil) /\ ~u.red[u.left[root]]
             /\ \E h : Heights(u, A, h, nil, "left")
             /\ ~u.red[p] /\ u.parent[x] = p
<1> DEFINE o == Opposite(d)
           r == Paint(t, p, g)
           u == Rotate(r, o, g)
<1>1. RaiseParent(t, x, d) = u
  BY DEF RaiseParent
<1>2. /\ A \subseteq N /\ nil \notin A /\ root \notin A /\ root \in N /\ nil \in N
      /\ x # p /\ p # g /\ p # nil /\ x # nil
      /\ \A e, k \in Sides : \A n \in A : t[e][n] # nil /\ t[k][n] = t[e][n] => k = e
      /\ t.left[root] \in N
  BY ShapeFacts, SideFacts
<1>3. o \in Sides /\ o # d
  BY SideFacts
<1>4. ~t.red[g] /\ x # t[o][p]
  BY <1>2, <1>3 DEF Colours
<1>5. x # g
  BY <1>4
<1>10. Exchanged(r, t, p, g)
  <2>1. t \in Tree /\ p \in N /\ g \in N
    BY <1>2, ShapeFacts
  <2> QED  BY <1>2, <2>1, Exchange
<1> HIDE DEF o, r, u
<1> DEFINE below == t[o][p]
           above == t.parent[g]
<1> HIDE DEF below, above
<1>6. /\ u \in Tree /\ \E f : Shaped(u, A, lt, f)
      /\ Colours(u, A, x) /\ \E h : Heights(u, A, h, nil, "left")
      /\ ~u.red[p] /\ u.red[g]
      /\ \A n \in N : n # p /\ n # g => (u.red[n] <=> t.red[n])
      /\ \A n \in N : u.parent[n] = IF n = g THEN p
                                 ELSE IF n = p THEN above
                                 ELSE IF n = below /\ below # nil THEN g
                                 ELSE t.parent[n]
      /\ \A e \in Sides : \A n \in N :
           u[e][n] = IF n = g /\ e = d THEN below
                     ELSE IF n = p /\ e = o THEN g
                     ELSE IF n = above /\ e = Side(t, g) THEN p
                     ELSE t[e][n]
  <2>1. ~t.red[t[o][g]] /\ o = Opposite(d)
    BY DEF o
  <2>2. nil # p /\ ~(nil = g /\ "left" = d) /\ p = t[d][g]
    BY <1>2
  <2>3. below = t[o][p] /\ above = t.parent[g]
    BY DEF below, above
  <2>4. u = Rotate(r, o, g)
    BY DEF u
  <2>5. x # p /\ x # t[o][p] /\ ~t.red[g] /\ o \in Sides
    BY <1>2, <1>3, <1>4
  <2>6. /\ Shaped(t, A, lt, sub) /\ Colours(t, A, x) /\ Heights(t, A, bh, nil, "left")
        /\ g \in A /\ d \in Sides /\ o \in Sides /\ o = Opposite(d)
        /\ p \in A /\ p = t[d][g] /\ t.red[p] /\ ~t.red[g] /\ ~t.red[t[o][g]]
        /\ x # p /\ x # t[o][p] /\ nil # p /\ ~(nil = g /\ "left" = d)
        /\ below = t[o][p] /\ above = t.parent[g]
        /\ Exchanged(r, t, p, g) /\ u = Rotate(r, o, g)
    BY <1>10, <2>1, <2>2, <2>3, <2>4, <2>5
  <2> QED  BY <2>6, RaiseRed, SMTT(60)
<1>7. u.parent[x] = p
  BY <1>2, <1>4, <1>5, <1>6 DEF below
<1>8. Colours(u, A, nil)
  BY <1>6, <1>7 DEF Colours
<1>9. ~u.red[u.left[root]]
  <2>1. u.left[root] = IF t.left[root] = g THEN p ELSE t.left[root]
    <3>1. \A e \in Sides : \A n \in N : n \notin A =>
            u[e][n] = IF n = t.parent[g] /\ e = Side(t, g) THEN p ELSE t[e][n]
      BY <1>6 DEF above
    <3>2. u \in Tree
      BY <1>6
    <3> QED  BY <3>1, <3>2, RaisedTop
  <2>2. t.left[root] # p
    BY DEF Colours
  <2> QED  BY <1>2, <1>6, <2>1, <2>2
<1> QED  BY <1>1, <1>6, <1>7, <1>8, <1>9

-----------------------------------------------------------------------------
(* A red node x on the inner side of its red parent p changes places with it. *)
LEMMA TurnOutwards ==
  ASSUME NEW t, NEW A, NEW lt, NEW sub, NEW bh,
         Shaped(t, A, lt, sub), NEW x \in A, Colours(t, A, x),
         Heights(t, A, bh, nil, "left"),
         NEW p \in A, p = t.parent[x], t.red[x], t.red[p],
         NEW g \in A, g = t.parent[p],
         NEW d \in Sides, d = Side(t, p), t[Opposite(d)][p] = x
  PROVE  LET u == Rotate(t, d, p)
         IN  /\ Shaped(u, A, lt, RotatedSub(t, sub, d, p))
             /\ Colours(u, A, p) /\ Heights(u, A, bh, nil, "left")
             /\ u.red = t.red /\ u.left[root] = t.left[root]
             /\ u.parent[p] = x /\ u.parent[x] = g
             /\ u[d][x] = p /\ u[d][g] = x /\ u[Opposite(d)][g] = t[Opposite(d)][g]
<1> DEFINE u == Rotate(t, d, p)
           o == Opposite(d)
           below == t[d][x]
<1>2. /\ t \in Tree /\ t.red \in [N -> BOOLEAN]
      /\ A \subseteq N /\ nil \in N /\ root \in N /\ nil \notin A /\ root \notin A
      /\ nil # root /\ t.left = t["left"]
  BY ShapeFacts
<1>3. /\ \A e \in Sides : \A n \in A \cup {root} :
              /\ t[e][n] \in N
              /\ t[e][n] # nil => t[e][n] \in A /\ t.parent[t[e][n]] = n
              /\ t[e][n] # n
      /\ \A n \in A : /\ t.parent[n] \in A \cup {root} /\ t.parent[n] \in N
                      /\ t[Side(t, n)][t.parent[n]] = n
                      /\ t.parent[n] # n
      /\ \A e, k \in Sides : \A n \in A \cup {root} :
              t[e][n] # nil /\ t[k][n] = t[e][n] => k = e
  BY ShapeFacts
<1>4. /\ o \in Sides /\ o # d /\ Opposite(o) = d /\ \A e \in Sides : e = o \/ e = d
      /\ "left" \in Sides
  BY SideFacts
<1>5. /\ p \in N /\ g \in N /\ x \in N /\ x # nil /\ p # nil /\ g # nil
      /\ root # p /\ root # g /\ p # g /\ t[d][g] = p
  BY <1>2, <1>3
<1> HIDE DEF o, below
<1>6. /\ Shaped(u, A, lt, RotatedSub(t, sub, d, p))
      /\ u \in Tree /\ u.red = t.red
      /\ \A n \in N :
              u.parent[n] = IF n = p THEN x
                            ELSE IF n = x THEN g
                            ELSE IF n = below /\ below # nil THEN p
                            ELSE t.parent[n]
      /\ \A e \in Sides : \A n \in N :
              u[e][n] = IF n = p /\ e = o THEN below
                        ELSE IF n = x /\ e = d THEN p
                        ELSE IF n = g /\ e = d THEN x
                        ELSE t[e][n]
      /\ x # p /\ g # p /\ g # x
      /\ below # p /\ below # x /\ below # g /\ below \in A \cup {nil}
  BY <1>4, <1>5, RotateStep DEF o, below
<1> HIDE DEF u
<1>7. ~t.red[g] /\ ~t.red[below]
  <2>1. ~t.red[g]
    BY <1>6 DEF Colours
  <2>2. below # nil => t.parent[below] = x
    BY <1>3 DEF below
  <2> QED  BY <1>6, <2>1, <2>2 DEF Colours
<1>8. Colours(u, A, p)
  <2>1. ASSUME NEW n \in A, t.red[n], n # p PROVE ~t.red[u.parent[n]]
    <3>1. CASE n = x
      BY <1>5, <1>6, <1>7, <3>1
    <3>2. CASE n # x
      <4>1. n # below /\ n \in N
        BY <1>2, <1>7, <2>1
      <4>2. u.parent[n] = t.parent[n]
        BY <1>6, <2>1, <3>2, <4>1
      <4> QED  BY <2>1, <3>2, <4>2 DEF Colours
    <3> QED  BY <3>1, <3>2
  <2> QED  BY <1>6, <2>1 DEF Colours
<1>9. Heights(u, A, bh, nil, "left")
  <2>1. /\ bh \in [N -> Nat] /\ bh[nil] = 0
        /\ \A e \in Sides : \A n \in A :
             bh[n] = bh[t[e][n]] + (IF t.red[n] THEN 0 ELSE 1)
    BY <1>2, <1>3 DEF Heights
  <2>2. /\ bh[p] = bh[x] /\ bh[x] = bh[below]
    <3>1. bh[x] \in Nat /\ bh[below] \in Nat
      BY <1>2, <1>5, <1>6, <2>1
    <3> QED  BY <1>4, <2>1, <3>1 DEF below, o
  <2>3. ASSUME NEW e \in Sides, NEW n \in A
        PROVE  bh[u[e][n]] = bh[t[e][n]]
    <3>1. n \in N
      BY <1>2
    <3>2. t[o][p] = x /\ t[d][x] = below
      BY DEF o, below
    <3> QED  BY <1>5, <1>6, <2>2, <3>1, <3>2
  <2>4. \A e \in Sides : \A n \in A : bh[u[e][n]] \in Nat
    BY <1>3, <2>1, <2>3
  <2> QED  BY <1>2, <1>6, <2>1, <2>3, <2>4 DEF Heights
<1>10. u.left[root] = t.left[root]
  <2>1. u.left = u["left"]
    BY <1>6, TreeFields
  <2>2. root # x
    BY <1>2
  <2> QED  BY <1>2, <1>4, <1>5, <1>6, <2>1, <2>2
<1>11. /\ u.parent[p] = x /\ u.parent[x] = g
       /\ u[d][x] = p /\ u[d][g] = x /\ u[o][g] = t[o][g]
  BY <1>4, <1>5, <1>6
<1> QED  BY <1>6, <1>8, <1>9, <1>10, <1>11 DEF u, o

(* With a black uncle RBTreeInsert ends the conflict of two red nodes by    *)
(* one rotation or two.                                                     *)
LEMMA BlackUncleStep ==
  ASSUME NEW t, NEW A, NEW lt, NEW sub, NEW bh,
         Shaped(t, A, lt, sub), NEW x \in A, Colours(t, A, x),
         Heights(t, A, bh, nil, "left"), ~t.red[t.left[root]],
         NEW p \in A, p = t.parent[x], t.red[x], t.red[p],
         NEW g \in A, g = t.parent[p],
         ~t.red[t[Opposite(Side(t, p))][g]],
         NEW y, y = IF x = t[Opposite(Side(t, p))][p] THEN p ELSE x
  PROVE  LET u == BlackUncle(t, x)
         IN  /\ \E f : Shaped(u, A, lt, f)
             /\ Colours(u, A, nil) /\ ~u.red[u.left[root]]
             /\ \E h : Heights(u, A, h, nil, "left")
             /\ ~u.red[u.parent[y]]
<1> DEFINE u == BlackUncle(t, x)
           d == Side(t, p)
           o == Opposite(d)
           v == Rotate(t, d, p)
<1>1. /\ d \in Sides /\ t[d][g] = p /\ Side(t, x) \in Sides
      /\ t[Side(t, x)][p] = x /\ o \in Sides
      /\ \A e \in Sides : e = o \/ e = d
      /\ o # d
  BY ShapeFacts, SideFacts
<1>2. CASE x = t[o][p]
  <2>1. u = RaiseParent(v, p, d) /\ y = p
    BY <1>2 DEF BlackUncle
  <2> HIDE DEF u, o, v
  <2>2. /\ Shaped(v, A, lt, RotatedSub(t, sub, d, p))
        /\ Colours(v, A, p) /\ Heights(v, A, bh, nil, "left")
        /\ v.red = t.red /\ v.left[root] = t.left[root]
        /\ v.parent[p] = x /\ v.parent[x] = g
        /\ v[d][x] = p /\ v[d][g] = x /\ v[o][g] = t[o][g]
    <3>1. t[Opposite(d)][p] = x
      BY <1>2 DEF o
    <3> QED  BY <1>1, <3>1, TurnOutwards DEF v, o
  <2> HIDE DEF d
  <2>3. /\ v.red[p] /\ v.red[x] /\ ~v.red[v.left[root]] /\ ~v.red[v[Opposite(d)][g]]
    BY <2>2 DEF o, d
  <2>4. /\ \E f : Shaped(RaiseParent(v, p, d), A, lt, f)
        /\ Colours(RaiseParent(v, p, d), A, nil)
        /\ ~RaiseParent(v, p, d).red[RaiseParent(v, p, d).left[root]]
        /\ \E h : Heights(RaiseParent(v, p, d), A, h, nil, "left")
        /\ ~RaiseParent(v, p, d).red[x] /\ RaiseParent(v, p, d).parent[p] = x
    BY <1>1, <2>2, <2>3, RaiseParentStep
  <2> QED  BY <2>1, <2>4 DEF u
<1>3. CASE x # t[o][p]
  <2>1. u = RaiseParent(t, x, d) /\ y = x
    BY <1>3 DEF BlackUncle
  <2>2. t[d][p] = x
    BY <1>1, <1>3
  <2>3. /\ \E f : Shaped(RaiseParent(t, x, d), A, lt, f)
        /\ Colours(RaiseParent(t, x, d), A, nil)
        /\ ~RaiseParent(t, x, d).red[RaiseParent(t, x, d).left[root]]
        /\ \E h : Heights(RaiseParent(t, x, d), A, h, nil, "left")
        /\ ~RaiseParent(t, x, d).red[p] /\ RaiseParent(t, x, d).parent[x] = p
    BY <1>1, <2>2, RaiseParentStep
  <2> QED  BY <2>1, <2>3
<1> QED  BY <1>2, <1>3

-----------------------------------------------------------------------------
(* A search tree of the nodes A in the order lt that is red and black. *)
Balanced(t, A, lt) ==
  /\ \E sub : Shaped(t, A, lt, sub)
  /\ Colours(t, A, nil)
  /\ \E bh : Heights(t, A, bh, nil, "left")

(* The node at the top is the only child of root.                           *)
LEMMA TopFacts ==
  ASSUME NEW t, NEW A, NEW lt, NEW sub, Shaped(t, A, lt, sub)
  PROVE  /\ t.left[root] \in A \cup {nil} /\ t.left[root] \in N
         /\ \A n \in A : t.parent[n] = root <=> n = t.left[root]
         /\ A # {} => t.left[root] \in A
         /\ \A n \in A : \A e \in Sides : t[e][n] # t.left[root] \/ t[e][n] = nil
<1>1. /\ t.left = t["left"] /\ "left" \in Sides /\ t.right[root] = nil
      /\ t["right"] = t.right /\ root \notin A /\ nil \notin A
      /\ \A e \in Sides : e = "left" \/ e = "right"
  BY ShapeFacts, SideFacts, TreeFields
<1>2. t.left[root] \in A \cup {nil} /\ t.left[root] \in N
  BY <1>1, ShapeFacts
<1>3. ASSUME NEW n \in A PROVE t.parent[n] = root <=> n = t.left[root]
  <2>1. Side(t, n) \in Sides /\ t[Side(t, n)][t.parent[n]] = n
    BY ShapeFacts
  <2>2. t.parent[n] = root => n = t.left[root]
    BY <1>1, <2>1
  <2>3. t[ "left" ][root] # nil => t.parent[t["left"][root]] = root
    BY <1>1, ShapeFacts
  <2> QED  BY <1>1, <2>2, <2>3
<1>4. A # {} => t.left[root] \in A
  BY <1>2 DEF Shaped, Search
<1>5. ASSUME NEW n \in A, NEW e \in Sides, t[e][n] # nil PROVE t[e][n] # t.left[root]
  <2>1. t[e][n] \in A /\ t.parent[t[e][n]] = n
    BY <1>5, ShapeFacts
  <2> QED  BY <1>1, <1>3, <2>1
<1> QED  BY <1>2, <1>3, <1>4, <1>5

(* Subtrees are finite and grow on the way up: what the loops count on to   *)
(* end.                                                                     *)
LEMMA SubGrows ==
  ASSUME NEW t, NEW A, NEW lt, NEW sub, Shaped(t, A, lt, sub)
  PROVE  /\ \A n \in A : /\ n \in sub[n] /\ sub[n] \subseteq A
                         /\ IsFiniteSet(sub[n]) /\ Cardinality(sub[n]) \in Nat
                         /\ Cardinality(sub[n]) <= NODES
         /\ IsFiniteSet(A) /\ Cardinality(A) \in Nat /\ Cardinality(A) <= NODES
         /\ \A n \in A : t.parent[n] \in A =>
              Cardinality(sub[n]) + 1 <= Cardinality(sub[t.parent[n]])
         /\ \A n \in A : t.parent[n] \in A => sub[n] \subseteq sub[t.parent[n]]
<1>1. Links(t, A) /\ Order(lt, A) /\ Search(t, A, lt, sub)
  BY DEF Shaped
<1>2. A \subseteq Nodes /\ IsFiniteSet(Nodes) /\ Cardinality(Nodes) = NODES
  BY <1>1, Names DEF Links
<1>3. IsFiniteSet(A) /\ Cardinality(A) \in Nat /\ Cardinality(A) <= NODES
  BY <1>2, FS_Subset, FS_CardinalityType
<1>4. ASSUME NEW n \in A
      PROVE  /\ n \in sub[n] /\ sub[n] \subseteq A
             /\ IsFiniteSet(sub[n]) /\ Cardinality(sub[n]) \in Nat
             /\ Cardinality(sub[n]) <= NODES
  <2>1. n \in sub[n] /\ sub[n] \subseteq A
    BY <1>1, SideFacts, ChildOn, ShapeFacts DEF Search
  <2> QED  BY <1>2, <1>3, <2>1, FS_Subset, FS_CardinalityType
<1>5. ASSUME NEW n \in A, t.parent[n] \in A
      PROVE  /\ Cardinality(sub[n]) + 1 <= Cardinality(sub[t.parent[n]])
             /\ sub[n] \subseteq sub[t.parent[n]]
  <2> DEFINE p == t.parent[n]
  <2>1. sub[n] \subseteq sub[p] /\ p \notin sub[n] /\ p \in sub[p]
    BY <1>1, <1>4, <1>5, ParentOn, Names DEF Links
  <2>2. Cardinality(sub[n] \cup {p}) = Cardinality(sub[n]) + 1
    BY <1>4, <2>1, FS_AddElement
  <2>3. Cardinality(sub[n] \cup {p}) <= Cardinality(sub[p])
    BY <1>4, <1>5, <2>1, FS_Subset
  <2> QED  BY <2>1, <2>2, <2>3
<1> QED  BY <1>3, <1>4, <1>5

(* The top may be made black at any time. *)
LEMMA BlackenTop ==
  ASSUME NEW t, NEW A, NEW lt, Balanced(t, A, lt)
  PROVE  LET u == [t EXCEPT !.red[t.left[root]] = FALSE]
         IN  Balanced(u, A, lt) /\ ~u.red[u.left[root]]
<1> DEFINE u == [t EXCEPT !.red[t.left[root]] = FALSE]
           top == t.left[root]
<1>1. PICK sub : Shaped(t, A, lt, sub)
  BY DEF Balanced
<1>2. PICK bh : Heights(t, A, bh, nil, "left")
  BY DEF Balanced
<1>3. /\ t \in Tree /\ t.red \in [N -> BOOLEAN] /\ A \subseteq N /\ nil \in N
      /\ nil \notin A
      /\ \A n \in A : t.parent[n] \in N
      /\ \A e \in Sides : \A n \in A : t[e][n] \in N
  BY <1>1, ShapeFacts
<1>4. top \in A \cup {nil} /\ top \in N
      /\ \A n \in A : \A e \in Sides : t[e][n] # top \/ t[e][n] = nil
  BY <1>1, TopFacts
<1> HIDE DEF top
<1>5. /\ u \in Tree /\ u.parent = t.parent /\ \A e \in Sides : u[e] = t[e]
      /\ u.red = [t.red EXCEPT ![top] = FALSE]
  BY <1>3, <1>4 DEF Tree, Sides, u, top
<1> HIDE DEF u
<1>6. Shaped(u, A, lt, sub) /\ u.left = t.left
  BY <1>1, <1>5, Recoloured
<1>7. ~u.red[top] /\ \A n \in N : n # top => (u.red[n] <=> t.red[n])
  BY <1>3, <1>4, <1>5
<1>8. Colours(u, A, nil)
  <2>1. Colours(t, A, nil)
    BY DEF Balanced
  <2>2. \A n \in N : u.red[n] => t.red[n]
    BY <1>7
  <2>3. root \in N
    BY Names
  <2> QED  BY <1>3, <1>5, <2>1, <2>2, <2>3 DEF Colours
<1>9. \E h : Heights(u, A, h, nil, "left")
  <2> DEFINE h == [n \in N |-> bh[n] + (IF n = top /\ n # nil /\ t.red[n] THEN 1 ELSE 0)]
  <2>1. bh \in [N -> Nat] /\ bh[nil] = 0
    BY <1>2 DEF Heights
  <2>2. h \in [N -> Nat] /\ h[nil] = 0
    BY <1>3, <2>1
  <2>3. /\ h[top] = bh[top] + (IF top # nil /\ t.red[top] THEN 1 ELSE 0)
        /\ \A n \in N : n # top => h[n] = bh[n]
    BY <1>4, <2>1
  <2> HIDE DEF h
  <2>4. ASSUME NEW e \in Sides, NEW n \in A
        PROVE  h[n] = h[u[e][n]] + (IF u.red[n] THEN 0 ELSE 1)
    <3>1. /\ bh[n] = bh[t[e][n]] + (IF t.red[n] THEN 0 ELSE 1)
          /\ bh[t[e][n]] \in Nat /\ n # nil /\ n \in N /\ t[e][n] \in N
      BY <1>2, <1>3, <2>1 DEF Heights
    <3>2. h[u[e][n]] = bh[t[e][n]]
      BY <1>3, <1>4, <1>5, <2>1, <2>2, <2>3, <3>1
    <3> QED  BY <1>7, <2>3, <3>1, <3>2
  <2>5. \A e \in Sides : \A n \in A : h[u[e][n]] \in Nat
    BY <1>3, <1>5, <2>2
  <2> QED  BY <1>3, <2>2, <2>4, <2>5 DEF Heights
<1>10. u.left[root] = top
  BY <1>6 DEF top
<1> QED  BY <1>6, <1>7, <1>8, <1>9, <1>10 DEF u, Balanced

-----------------------------------------------------------------------------
(* Before and after the last turn of the loop of RBTreeInsert.              *)
Raising(s, A, lt, sub) ==
  LET t == s[1]
      x == s[2]
  IN  /\ Shaped(t, A, lt, sub) /\ Colours(t, A, x) /\ t.red[x]
      /\ \E bh : Heights(t, A, bh, nil, "left")
      /\ t.red[t.left[root]] => t.left[root] = x

(* The parent of the node the loop is at is black: the loop ends.           *)
Raised(s) == ~s[1].red[s[1].parent[s[2]]]

(* Each turn of the loop of RBTreeInsert keeps the invariant but for the    *)
(* conflict at one node, and ends the conflict or moves it to a larger      *)
(* subtree.                                                                 *)
LEMMA InsertTurnStep ==
  ASSUME NEW A, NEW lt, NEW sub, NEW t \in Tree, NEW x \in A,
         \/ Raising(<<t, x>>, A, lt, sub)
         \/ Balanced(t, A, lt) /\ Raised(<<t, x>>),
         NEW s, s = InsertTurn(<<t, x>>)
  PROVE  /\ s \in Tree \X A
         /\ \/ Raising(s, A, lt, sub)
            \/ Balanced(s[1], A, lt) /\ Raised(s)
         /\ Raised(<<t, x>>) => s = <<t, x>>
         /\ \/ Raised(s)
            \/ Raising(s, A, lt, sub) /\ Raising(<<t, x>>, A, lt, sub)
               /\ Cardinality(sub[s[2]]) >= Cardinality(sub[x]) + 1
<1> DEFINE p == t.parent[x]
           g == t.parent[p]
           w == t[Opposite(Side(t, p))][g]
           y == IF x = t[Opposite(Side(t, p))][p] THEN p ELSE x
<1>1. s = IF ~t.red[p] THEN <<t, x>>
          ELSE IF t.red[w] THEN <<RedUncle(t, x), g>> ELSE <<BlackUncle(t, x), y>>
  BY DEF InsertTurn
<1>2. Raised(<<t, x>>) <=> ~t.red[p]
  BY DEF Raised
<1>3. CASE ~t.red[p]
  BY <1>1, <1>2, <1>3
<1>4. CASE t.red[p]
  <2>1. /\ Shaped(t, A, lt, sub) /\ Colours(t, A, x) /\ t.red[x]
        /\ t.red[t.left[root]] => t.left[root] = x
    BY <1>2, <1>4 DEF Raising
  <2>2. PICK bh : Heights(t, A, bh, nil, "left")
    BY <1>2, <1>4 DEF Raising
  <2>3. /\ p \in A /\ g \in A /\ p # x
        /\ ~t.red[t.left[root]]
    <3>1. p \in A \cup {root} /\ p # x
      BY <2>1, ShapeFacts
    <3>2. p # root
      BY <1>4, <2>1 DEF Colours
    <3>3. p # t.left[root]
      BY <1>4, <2>1, <3>1
    <3>4. x # t.left[root]
      BY <2>1, <3>2, TopFacts
    <3>5. g \in A \cup {root} /\ g # root
      BY <2>1, <3>1, <3>2, <3>3, ShapeFacts, TopFacts
    <3> QED  BY <2>1, <3>1, <3>2, <3>4, <3>5
  <2> HIDE DEF p, g, w, y
  <2>4. p = t.parent[x] /\ g = t.parent[p] /\ w = t[Opposite(Side(t, p))][g]
        /\ y = IF x = t[Opposite(Side(t, p))][p] THEN p ELSE x
    BY DEF p, g, w, y
  <2>5. CASE t.red[w]
    <3> DEFINE u == RedUncle(t, x)
    <3>1. /\ Shaped(u, A, lt, sub) /\ Colours(u, A, g) /\ u.red[g]
          /\ \E h : Heights(u, A, h, nil, "left")
          /\ u.left = t.left
          /\ \A n \in A : u.red[n] => n = g \/ t.red[n]
      BY <1>4, <2>1, <2>2, <2>3, <2>4, <2>5, RedUncleStep
    <3> HIDE DEF u
    <3>2. s = <<u, g>>
      BY <1>1, <1>4, <2>5 DEF u
    <3>3. u \in Tree
      BY <3>1, ShapeFacts
    <3>4. u.red[u.left[root]] => u.left[root] = g
      BY <2>1, <2>3, <3>1, TopFacts
    <3>5. Raising(s, A, lt, sub)
      BY <3>1, <3>2, <3>4 DEF Raising
    <3>6. Cardinality(sub[g]) >= Cardinality(sub[x]) + 1
      <4>1. Cardinality(sub[x]) + 1 <= Cardinality(sub[p])
        BY <2>1, <2>3, <2>4, SubGrows
      <4>2. Cardinality(sub[p]) + 1 <= Cardinality(sub[g])
        BY <2>1, <2>3, <2>4, SubGrows
      <4>3. Cardinality(sub[x]) \in Nat /\ Cardinality(sub[p]) \in Nat
            /\ Cardinality(sub[g]) \in Nat
        BY <2>1, <2>3, SubGrows
      <4> QED  BY <4>1, <4>2, <4>3
    <3>7. Raising(<<t, x>>, A, lt, sub)
      BY <1>2, <1>4
    <3> QED  BY <1>2, <1>4, <2>3, <3>2, <3>3, <3>5, <3>6, <3>7
  <2>6. CASE ~t.red[w]
    <3> DEFINE u == BlackUncle(t, x)
    <3>0. /\ Shaped(t, A, lt, sub) /\ Colours(t, A, x) /\ Heights(t, A, bh, nil, "left")
          /\ ~t.red[t.left[root]]
          /\ p \in A /\ p = t.parent[x] /\ t.red[x] /\ t.red[p]
          /\ g \in A /\ g = t.parent[p]
          /\ ~t.red[t[Opposite(Side(t, p))][g]]
          /\ y = IF x = t[Opposite(Side(t, p))][p] THEN p ELSE x
      BY <1>4, <2>1, <2>2, <2>3, <2>4, <2>6
    <3>1. /\ \E f : Shaped(u, A, lt, f)
          /\ Colours(u, A, nil)
          /\ \E h : Heights(u, A, h, nil, "left")
          /\ ~u.red[u.parent[y]]
      BY <3>0, BlackUncleStep, SMTT(30)
    <3> HIDE DEF u
    <3>2. s = <<u, y>> /\ y \in A
      BY <1>1, <1>4, <2>3, <2>4, <2>6 DEF u
    <3>3. u \in Tree
      BY <3>1, ShapeFacts
    <3>4. Balanced(u, A, lt)
      BY <3>1 DEF Balanced
    <3>5. Raised(s)
      BY <3>1, <3>2 DEF Raised
    <3> QED  BY <1>2, <1>4, <3>2, <3>3, <3>4, <3>5
  <2> QED  BY <2>5, <2>6
<1> QED  BY <1>3, <1>4

(* After the loop and the assignment to the top no conflict is left.        *)
LEMMA InsertFixUpStep ==
  ASSUME NEW A, NEW lt, NEW sub, NEW t \in Tree, NEW x \in A,
         Raising(<<t, x>>, A, lt, sub)
  PROVE  LET u == InsertFixUp(t, x) IN Balanced(u, A, lt) /\ ~u.red[u.left[root]]
<1> DEFINE S == { s \in Tree \X A : \/ Raising(s, A, lt, sub)
                                    \/ Balanced(s[1], A, lt) /\ Raised(s) }
           F == [s \in S |-> InsertTurn(s)]
           turn[i \in Nat] == IF i = 0 THEN <<t, x>> ELSE InsertTurn(turn[i - 1])
           last == turn[NODES]
<1>1. ASSUME NEW s \in S
      PROVE  /\ InsertTurn(s) \in S
             /\ Raised(s) => InsertTurn(s) = s
             /\ \/ Raised(InsertTurn(s))
                \/ /\ Raising(InsertTurn(s), A, lt, sub) /\ Raising(s, A, lt, sub)
                   /\ Cardinality(sub[InsertTurn(s)[2]]) >= Cardinality(sub[s[2]]) + 1
  <2>1. PICK v \in Tree, y \in A : s = <<v, y>>
    OBVIOUS
  <2>2. \/ Raising(<<v, y>>, A, lt, sub)
        \/ Balanced(v, A, lt) /\ Raised(<<v, y>>)
    BY <2>1
  <2>3. s[2] = y
    BY <2>1
  <2> QED  BY <2>1, <2>2, <2>3, InsertTurnStep
<1>2. <<t, x>> \in S
  OBVIOUS
<1>3. F \in [S -> S]
  <2> HIDE DEF S
  <2> QED  BY <1>1
<1> HIDE DEF S, F
<1>4. /\ turn \in [Nat -> S] /\ turn[0] = <<t, x>>
      /\ \A i \in Nat : turn[i + 1] = InsertTurn(turn[i])
  <2>0. PICK f : Iterates(f, S, F, <<t, x>>)
    BY <1>2, <1>3, Iteration, Zenon
  <2>1. f \in [Nat -> S] /\ f[0] = <<t, x>> /\ \A i \in Nat : f[i + 1] = F[f[i]]
    BY <2>0 DEF Iterates
  <2>2. f = [i \in Nat |-> IF i = 0 THEN <<t, x>> ELSE InsertTurn(f[i - 1])]
    <3>1. ASSUME NEW i \in Nat
          PROVE  f[i] = IF i = 0 THEN <<t, x>> ELSE InsertTurn(f[i - 1])
      <4>1. i # 0 => i - 1 \in Nat /\ (i - 1) + 1 = i
        OBVIOUS
      <4>2. i # 0 => f[i - 1] \in S /\ f[i] = F[f[i - 1]]
        BY <2>1, <4>1
      <4> QED  BY <2>1, <4>2 DEF F
    <3>2. f = [i \in Nat |-> f[i]]
      BY <2>1
    <3> QED  BY <3>1, <3>2
  <2>3. turn = CHOOSE g : g = [i \in Nat |-> IF i = 0 THEN <<t, x>> ELSE InsertTurn(g[i - 1])]
    BY DEF turn
  <2>4. turn = [i \in Nat |-> IF i = 0 THEN <<t, x>> ELSE InsertTurn(turn[i - 1])]
    <3> HIDE DEF turn
    <3> QED  BY <2>2, <2>3
  <2> HIDE DEF turn
  <2>5. turn[0] = <<t, x>>
    BY <2>4
  <2>6. \A i \in Nat : turn[i + 1] = InsertTurn(turn[i])
    <3>1. \A i \in Nat : i + 1 \in Nat /\ i + 1 # 0 /\ (i + 1) - 1 = i
      OBVIOUS
    <3> QED  BY <2>4, <3>1
  <2>7. turn \in [Nat -> S]
    <3> DEFINE P == { i \in Nat : turn[i] \in S }
    <3>1. 0 \in P
      BY <1>2, <2>5
    <3>2. \A i \in Nat : i \in P => i + 1 \in P
      BY <1>1, <2>6
    <3>3. Nat \subseteq P
      <4> HIDE DEF P
      <4> QED  BY <3>1, <3>2, AllReached
    <3> QED  BY <2>4, <3>3
  <2> QED  BY <2>5, <2>6, <2>7
<1> HIDE DEF turn
<1>9. \A s \in S : s[2] \in A
  BY DEF S
<1>5. Raised(last)
  <2> DEFINE P == { i \in Nat : \/ Raised(turn[i])
                                \/ /\ Raising(turn[i], A, lt, sub)
                                   /\ Cardinality(sub[turn[i][2]]) >= i + 1 }
  <2>0. Shaped(t, A, lt, sub)
    BY DEF Raising
  <2>1. 0 \in P
    <3>1. Raising(turn[0], A, lt, sub) /\ turn[0][2] = x
      BY <1>4
    <3>2. Cardinality(sub[x]) \in Nat /\ Cardinality(sub[x]) # 0
      <4>1. x \in sub[x] /\ IsFiniteSet(sub[x]) /\ Cardinality(sub[x]) \in Nat
        BY <2>0, SubGrows
      <4> QED  BY <4>1, FS_EmptySet
    <3> QED  BY <3>1, <3>2
  <2>2. ASSUME NEW i \in Nat, i \in P PROVE i + 1 \in P
    <3>1. turn[i] \in S /\ turn[i + 1] = InsertTurn(turn[i]) /\ turn[i][2] \in A
      BY <1>4, <1>9
    <3>2. CASE Raised(turn[i])
      BY <1>1, <3>1, <3>2
    <3>3. CASE /\ Raising(turn[i], A, lt, sub)
               /\ Cardinality(sub[turn[i][2]]) >= i + 1
      <4>1. \/ Raised(turn[i + 1])
            \/ /\ Raising(turn[i + 1], A, lt, sub)
               /\ Cardinality(sub[turn[i + 1][2]]) >= Cardinality(sub[turn[i][2]]) + 1
        BY <1>1, <3>1
      <4>2. Cardinality(sub[turn[i][2]]) \in Nat
        BY <2>0, <3>1, SubGrows
      <4>3. turn[i + 1] \in S /\ turn[i + 1][2] \in A
        BY <1>4, <1>9
      <4>4. Cardinality(sub[turn[i + 1][2]]) \in Nat
        BY <2>0, <4>3, SubGrows
      <4> QED  BY <3>3, <4>1, <4>2, <4>4
    <3> QED  BY <2>2, <3>2, <3>3
  <2>3. Nat \subseteq P
    <3> HIDE DEF P
    <3> QED  BY <2>1, <2>2, AllReached
  <2>4. NODES \in P /\ NODES \in Nat
    BY <2>3, Names
  <2>5. last \in S /\ last[2] \in A
    BY <1>4, <1>9, <2>4
  <2>6. Cardinality(sub[last[2]]) \in Nat /\ Cardinality(sub[last[2]]) <= NODES
    BY <2>0, <2>5, SubGrows
  <2> QED  BY <2>4, <2>6
<1>6. last \in S
  BY <1>4, Names
<1> USE DEF S
<1>7. Balanced(last[1], A, lt)
  <2>1. CASE Raising(last, A, lt, sub)
    <3>1. last[2] \in A /\ Colours(last[1], A, last[2])
      BY <1>6, <2>1 DEF Raising
    <3>2. Colours(last[1], A, nil)
      BY <1>5, <3>1 DEF Colours, Raised
    <3> QED  BY <2>1, <3>2 DEF Raising, Balanced
  <2> QED  BY <1>6, <2>1
<1>8. InsertFixUp(t, x) = [last[1] EXCEPT !.red[last[1].left[root]] = FALSE]
  BY DEF InsertFixUp, turn
<1> HIDE DEF last
<1> QED  BY <1>7, <1>8, BlackenTop

-----------------------------------------------------------------------------
(* The order is one of the keys. *)
KeyOrder(lt, A) ==
  Order(lt, A) /\ \A a, b \in A : <<a, b>> \in lt => Key(a) <= Key(b)

(* The order in which z is behind the nodes of A with its key. *)
Behind(lt, A, z) ==
  { p \in (A \cup {z}) \X (A \cup {z}) :
      \/ p[1] \in A /\ p[2] \in A /\ p \in lt
      \/ p[1] \in A /\ p[2] = z /\ Key(p[1]) <= Key(z)
      \/ p[1] = z /\ p[2] \in A /\ Key(p[2]) > Key(z) }

(* A node that goes behind those with its key leaves their order as it      *)
(* is.                                                                      *)
LEMMA BehindFacts ==
  ASSUME NEW lt, NEW A, A \subseteq Nodes, KeyOrder(lt, A), NEW z \in Nodes, z \notin A
  PROVE  /\ KeyOrder(Behind(lt, A, z), A \cup {z})
         /\ \A e \in Sides : \A a, b \in A :
              On(lt, e, a, b) => On(Behind(lt, A, z), e, a, b)
         /\ \A n \in A : On(Behind(lt, A, z), SideFor(n, z), z, n)
<1> DEFINE new == Behind(lt, A, z)
           B == A \cup {z}
<1>1. \A n \in Nodes : Key(n) \in Nat
  BY RBTreeAssumption DEF Nodes, Key
<1>2. \A a, b \in B : <<a, b>> \in new <=>
        \/ a \in A /\ b \in A /\ <<a, b>> \in lt
        \/ a \in A /\ b = z /\ Key(a) <= Key(z)
        \/ a = z /\ b \in A /\ Key(b) > Key(z)
  BY DEF Behind
<1> HIDE DEF new
<1>3. \A a, b \in B : <<a, b>> \in new => Key(a) <= Key(b)
  BY <1>1, <1>2 DEF KeyOrder
<1>4. \A a \in B : <<a, a>> \notin new
  BY <1>2 DEF KeyOrder, Order
<1>5. \A a, b \in B : a = b \/ <<a, b>> \in new \/ <<b, a>> \in new
  <2>1. \A a, b \in A : a = b \/ <<a, b>> \in new \/ <<b, a>> \in new
    BY <1>2 DEF KeyOrder, Order
  <2>2. \A a \in A : Key(a) <= Key(z) \/ Key(a) > Key(z)
    BY <1>1
  <2>3. \A a \in A : <<a, z>> \in new \/ <<z, a>> \in new
    BY <1>2, <2>2
  <2> QED  BY <2>1, <2>3
<1>6. ASSUME NEW a \in B, NEW b \in B, NEW c \in B, <<a, b>> \in new, <<b, c>> \in new
      PROVE  <<a, c>> \in new
  <2>1. Key(a) \in Nat /\ Key(b) \in Nat /\ Key(c) \in Nat /\ Key(z) \in Nat
    BY <1>1
  <2>2. /\ Key(a) <= Key(b) /\ Key(b) <= Key(c)
        /\ a \in A /\ b = z => Key(a) <= Key(z)
        /\ b = z /\ c \in A => Key(c) > Key(z)
        /\ a = z /\ b \in A => Key(b) > Key(z)
    BY <1>2, <1>3, <1>6
  <2>3. CASE a \in A /\ c \in A
    <3>1. CASE b \in A
      BY <1>2, <1>6, <2>3, <3>1 DEF KeyOrder, Order
    <3>2. CASE b = z
      <4>1. Key(a) < Key(c)
        BY <2>1, <2>2, <2>3, <3>2
      <4>2. a # c /\ <<c, a>> \notin lt
        BY <2>1, <2>3, <4>1 DEF KeyOrder
      <4>3. <<a, c>> \in lt
        BY <2>3, <4>2 DEF KeyOrder, Order
      <4> QED  BY <1>2, <2>3, <4>3
    <3> QED  BY <3>1, <3>2
  <2>4. CASE a \in A /\ c = z
    <3>1. Key(a) <= Key(z)
      BY <2>1, <2>2, <2>4
    <3> QED  BY <1>2, <2>4, <3>1
  <2>5. CASE a = z /\ c \in A
    <3>1. b \in A
      BY <1>4, <1>6, <2>5
    <3>2. Key(c) > Key(z)
      BY <2>1, <2>2, <2>5, <3>1
    <3> QED  BY <1>2, <2>5, <3>2
  <2>6. CASE a = z /\ c = z
    <3>1. b \in A
      BY <1>4, <1>6, <2>6
    <3>2. Key(b) <= Key(z) /\ Key(b) > Key(z)
      BY <2>2, <2>6, <3>1
    <3> QED  BY <2>1, <3>2
  <2> QED  BY <2>3, <2>4, <2>5, <2>6
<1>7. KeyOrder(new, B)
  BY <1>3, <1>4, <1>5, <1>6 DEF KeyOrder, Order
<1>8. \A e \in Sides : \A a, b \in A : On(lt, e, a, b) => On(new, e, a, b)
  BY <1>2 DEF On
<1>9. ASSUME NEW n \in A PROVE On(new, SideFor(n, z), z, n)
  <2>1. CASE Key(n) > Key(z)
    BY <1>2, <2>1 DEF On, SideFor
  <2>2. CASE ~(Key(n) > Key(z))
    <3>1. Key(n) <= Key(z)
      BY <1>1, <2>2
    <3> QED  BY <1>2, <2>2, <3>1 DEF On, SideFor
  <2> QED  BY <2>1, <2>2
<1> QED  BY <1>7, <1>8, <1>9 DEF new

-----------------------------------------------------------------------------
(* Subtrees are nested, and hold the parents of their nodes. *)
LEMMA Nested ==
  ASSUME NEW t, NEW A, NEW lt, NEW sub, Shaped(t, A, lt, sub)
  PROVE  \A k \in A : \A n \in sub[k] :
           /\ n \in A /\ sub[n] \subseteq sub[k]
           /\ n # k => t.parent[n] \in sub[k]
<1> DEFINE Holds(k) == \A n \in sub[k] : /\ sub[n] \subseteq sub[k]
                                         /\ n # k => t.parent[n] \in sub[k]
           P == { i \in Nat : \A k \in A : Cardinality(sub[k]) <= i => Holds(k) }
<1>1. \A k \in A : /\ k \in sub[k] /\ sub[k] \subseteq A /\ IsFiniteSet(sub[k])
                   /\ Cardinality(sub[k]) \in Nat /\ Cardinality(sub[k]) # 0
  <2>1. \A k \in A : /\ k \in sub[k] /\ sub[k] \subseteq A /\ IsFiniteSet(sub[k])
                     /\ Cardinality(sub[k]) \in Nat
    BY SubGrows
  <2> QED  BY <2>1, FS_EmptySet
<1>2. 0 \in P
  BY <1>1
<1>3. ASSUME NEW i \in Nat, i \in P PROVE i + 1 \in P
  <2>1. ASSUME NEW k \in A, Cardinality(sub[k]) <= i + 1, NEW n \in sub[k]
        PROVE  sub[n] \subseteq sub[k] /\ (n # k => t.parent[n] \in sub[k])
    <3>1. CASE n = k
      BY <3>1
    <3>2. CASE n # k
      <4>1. PICK e \in Sides : n \in sub[t[e][k]]
        BY <3>2, SideFacts DEF Shaped, Search
      <4> DEFINE c == t[e][k]
      <4>2. c # nil
        BY <4>1 DEF Shaped, Search
      <4>3. c \in A /\ t.parent[c] = k
        BY <4>2, ShapeFacts
      <4>4. Cardinality(sub[c]) + 1 <= Cardinality(sub[k]) /\ sub[c] \subseteq sub[k]
        BY <4>3, SubGrows
      <4>5. Cardinality(sub[c]) <= i
        BY <1>1, <2>1, <4>3, <4>4
      <4>6. Holds(c)
        BY <1>3, <4>3, <4>5
      <4> HIDE DEF c
      <4>7. n \in sub[c]
        BY <4>1 DEF c
      <4> QED  BY <1>1, <4>3, <4>4, <4>6, <4>7
    <3> QED  BY <3>1, <3>2
  <2> QED  BY <2>1
<1>4. Nat \subseteq P
  <2> HIDE DEF P
  <2> QED  BY <1>2, <1>3, AllReached
<1>5. ASSUME NEW k \in A PROVE Holds(k)
  <2>1. Cardinality(sub[k]) \in P /\ Cardinality(sub[k]) <= Cardinality(sub[k])
    BY <1>1, <1>4
  <2> QED  BY <2>1
<1> HIDE DEF P
<1> QED  BY <1>1, <1>5

-----------------------------------------------------------------------------
(* x is the next node to be compared with z, and y the one before: at every *)
(* node above it the walk has gone to the side of z.                        *)
Seeking(s, t, A, sub, z) ==
  /\ s[1] \in A \cup {nil} /\ s[2] \in A \cup {root}
  /\ s[2] = root => s[1] = t.left[root]
  /\ s[2] \in A =>
       /\ s[1] = t[SideFor(s[2], z)][s[2]]
       /\ \A n \in A : s[2] \in sub[n] /\ n # s[2] => s[2] \in sub[t[SideFor(n, z)][n]]

(* Each turn of the loop of TreeInsertHelp keeps the new node on the        *)
(* right side of all nodes outside the subtree it has come to.              *)
LEMMA DownStep ==
  ASSUME NEW t, NEW A, NEW lt, NEW sub, Shaped(t, A, lt, sub), NEW z,
         NEW x, NEW y, Seeking(<<x, y>>, t, A, sub, z)
  PROVE  /\ Seeking(Down(t, z, <<x, y>>), t, A, sub, z)
         /\ x = nil => Down(t, z, <<x, y>>) = <<x, y>>
         /\ x # nil => LET w == Down(t, z, <<x, y>>)[1]
                       IN  /\ x \in A /\ Down(t, z, <<x, y>>) = <<w, x>>
                           /\ w # nil => w \in A /\ t.parent[w] = x
<1>1. x \in A \cup {nil} /\ y \in A \cup {root} /\ nil \notin A /\ root \notin A
  BY ShapeFacts DEF Seeking
<1>2. CASE x = nil
  BY <1>2 DEF Down
<1>3. CASE x # nil
  <2> DEFINE d == SideFor(x, z)
             w == t[d][x]
  <2>1. Down(t, z, <<x, y>>) = <<w, x>>
    BY <1>3 DEF Down
  <2>2. d \in Sides /\ \A n : SideFor(n, z) \in Sides
    BY DEF SideFor, Sides
  <2>3. x \in A
    BY <1>1, <1>3
  <2>4. w \in A \cup {nil} /\ (w # nil => t.parent[w] = x)
    BY <2>2, <2>3, ShapeFacts
  <2>5. ASSUME NEW n \in A, x \in sub[n], n # x
        PROVE  x \in sub[t[SideFor(n, z)][n]]
    <3> DEFINE c == t[SideFor(n, z)][n]
    <3>1. t.parent[x] = y
      BY <1>1, <1>3, <2>2, <2>3, ShapeFacts, TopFacts DEF Seeking
    <3>2. y \in sub[n]
      BY <2>5, <3>1, Nested
    <3>3. y \in A /\ x \in sub[x]
      BY <2>3, <3>2, Nested, SubGrows
    <3>4. x = t[SideFor(y, z)][y]
      BY <3>3 DEF Seeking
    <3>5. CASE n = y
      BY <3>3, <3>4, <3>5
    <3>6. CASE n # y
      <4>1. y \in sub[c]
        BY <3>2, <3>3, <3>6 DEF Seeking
      <4>2. c \in A
        <5>1. sub[nil] = {}
          BY DEF Shaped, Search
        <5>2. c \in A \cup {nil}
          BY <2>2, ShapeFacts
        <5> QED  BY <4>1, <5>1, <5>2
      <4>3. sub[y] \subseteq sub[c]
        BY <4>1, <4>2, Nested
      <4>4. sub[x] \subseteq sub[y]
        BY <2>3, <3>1, <3>3, SubGrows
      <4> QED  BY <3>3, <4>3, <4>4
    <3> QED  BY <3>5, <3>6
  <2> HIDE DEF d, w
  <2>6. Seeking(<<w, x>>, t, A, sub, z)
    BY <1>1, <2>3, <2>4, <2>5 DEF Seeking, w, d
  <2> QED  BY <1>3, <2>1, <2>3, <2>4, <2>6
<1> QED  BY <1>2, <1>3

(* The loop ends below a node that has no child on that side.               *)
LEMMA PlaceFound ==
  ASSUME NEW t, NEW A, NEW lt, NEW sub, Shaped(t, A, lt, sub), NEW z
  PROVE  Seeking(<<nil, PlaceFor(t, z)>>, t, A, sub, z)
<1> DEFINE S == { s \in (A \cup {nil}) \X (A \cup {root}) : Seeking(s, t, A, sub, z) }
           F == [s \in S |-> Down(t, z, s)]
           first == <<t.left[root], root>>
           walk[i \in Nat] == IF i = 0 THEN <<t.left[root], root>> ELSE Down(t, z, walk[i - 1])
           last == walk[NODES]
<1>1. ASSUME NEW s \in S
      PROVE  /\ Down(t, z, s) \in S
             /\ s[1] = nil => Down(t, z, s)[1] = nil
             /\ s[1] # nil => LET w == Down(t, z, s)[1]
                              IN  s[1] \in A /\ (w # nil => w \in A /\ t.parent[w] = s[1])
  <2>1. PICK x \in A \cup {nil}, y \in A \cup {root} : s = <<x, y>>
    OBVIOUS
  <2>2. Seeking(<<x, y>>, t, A, sub, z)
    BY <2>1
  <2>3. PICK a, b : Down(t, z, <<x, y>>) = <<a, b>>
    BY DEF Down
  <2>4. Seeking(<<a, b>>, t, A, sub, z)
    BY <2>2, <2>3, DownStep
  <2>5. a \in A \cup {nil} /\ b \in A \cup {root}
    BY <2>4 DEF Seeking
  <2>6. Down(t, z, s) \in S
    BY <2>1, <2>3, <2>4, <2>5
  <2> HIDE DEF S
  <2> QED  BY <2>1, <2>2, <2>6, DownStep
<1>2. first \in S
  <2>1. t.left[root] \in A \cup {nil} /\ root \notin A
    BY TopFacts, ShapeFacts
  <2> QED  BY <2>1 DEF Seeking
<1>3. F \in [S -> S]
  <2> HIDE DEF S
  <2> QED  BY <1>1
<1> HIDE DEF S, F, first
<1>4. /\ walk \in [Nat -> S] /\ walk[0] = first
      /\ \A i \in Nat : walk[i + 1] = Down(t, z, walk[i])
  <2>0. PICK f : Iterates(f, S, F, first)
    BY <1>2, <1>3, Iteration, Zenon
  <2>1. f \in [Nat -> S] /\ f[0] = first /\ \A i \in Nat : f[i + 1] = F[f[i]]
    BY <2>0 DEF Iterates
  <2>2. f = [i \in Nat |-> IF i = 0 THEN first ELSE Down(t, z, f[i - 1])]
    <3>1. ASSUME NEW i \in Nat
          PROVE  f[i] = IF i = 0 THEN first ELSE Down(t, z, f[i - 1])
      <4>1. i # 0 => i - 1 \in Nat /\ (i - 1) + 1 = i
        OBVIOUS
      <4>2. i # 0 => f[i - 1] \in S /\ f[i] = F[f[i - 1]]
        BY <2>1, <4>1
      <4> QED  BY <2>1, <4>2 DEF F
    <3>2. f = [i \in Nat |-> f[i]]
      BY <2>1
    <3> QED  BY <3>1, <3>2
  <2>3. walk = CHOOSE g : g = [i \in Nat |-> IF i = 0 THEN first ELSE Down(t, z, g[i - 1])]
    BY DEF walk, first
  <2>4. walk = [i \in Nat |-> IF i = 0 THEN first ELSE Down(t, z, walk[i - 1])]
    <3> HIDE DEF walk
    <3> QED  BY <2>2, <2>3
  <2> HIDE DEF walk
  <2>5. walk[0] = first
    BY <2>4
  <2>6. \A i \in Nat : walk[i + 1] = Down(t, z, walk[i])
    <3>1. \A i \in Nat : i + 1 \in Nat /\ i + 1 # 0 /\ (i + 1) - 1 = i
      OBVIOUS
    <3> QED  BY <2>4, <3>1
  <2>7. walk \in [Nat -> S]
    <3> DEFINE P == { i \in Nat : walk[i] \in S }
    <3>1. 0 \in P
      BY <1>2, <2>5
    <3>2. \A i \in Nat : i \in P => i + 1 \in P
      BY <1>1, <2>6
    <3>3. Nat \subseteq P
      <4> HIDE DEF P
      <4> QED  BY <3>1, <3>2, AllReached
    <3> QED  BY <2>4, <3>3
  <2> QED  BY <2>5, <2>6, <2>7
<1>5. PlaceFor(t, z) = last[2]
  BY DEF PlaceFor, walk
<1> HIDE DEF walk
<1>6. last \in S /\ NODES \in Nat
  BY <1>4, Names
<1>7. last[1] = nil
  <2> DEFINE P == { i \in Nat : \/ walk[i][1] = nil
                                \/ /\ walk[i][1] \in A
                                   /\ Cardinality(sub[walk[i][1]]) + i <= NODES }
  <2>1. \A n \in A : /\ Cardinality(sub[n]) \in Nat /\ Cardinality(sub[n]) <= NODES
                     /\ Cardinality(sub[n]) # 0
    <3>1. \A n \in A : n \in sub[n] /\ IsFiniteSet(sub[n])
      BY SubGrows
    <3> QED  BY <3>1, SubGrows, FS_EmptySet
  <2>2. 0 \in P
    <3>1. walk[0][1] \in A \cup {nil}
      BY <1>4, TopFacts DEF first
    <3> QED  BY <2>1, <3>1
  <2>3. ASSUME NEW i \in Nat, i \in P PROVE i + 1 \in P
    <3> DEFINE x == walk[i][1]
               w == walk[i + 1][1]
    <3>1. /\ x = nil => w = nil
          /\ x # nil => x \in A /\ (w # nil => w \in A /\ t.parent[w] = x)
      BY <1>1, <1>4
    <3>2. x = nil \/ (x \in A /\ Cardinality(sub[x]) + i <= NODES)
      BY <2>3
    <3> HIDE DEF x, w
    <3>3. ASSUME w # nil PROVE w \in A /\ Cardinality(sub[w]) + (i + 1) <= NODES
      <4>1. w \in A /\ x \in A /\ t.parent[w] = x /\ Cardinality(sub[x]) + i <= NODES
        BY <3>1, <3>2, <3>3
      <4>2. Cardinality(sub[w]) + 1 <= Cardinality(sub[x])
        BY <4>1, SubGrows
      <4> QED  BY <1>6, <2>1, <4>1, <4>2
    <3> QED  BY <3>3 DEF w
  <2>4. Nat \subseteq P
    <3> HIDE DEF P
    <3> QED  BY <2>2, <2>3, AllReached
  <2>5. NODES \in P
    BY <1>6, <2>4
  <2> QED  BY <1>6, <2>1, <2>5
<1>8. Seeking(last, t, A, sub, z) /\ last = <<last[1], last[2]>>
  BY <1>6 DEF S
<1> HIDE DEF last
<1> QED  BY <1>5, <1>7, <1>8

-----------------------------------------------------------------------------
(* What each link is after the new node has been hung below y.              *)
LEMMA HangEffect ==
  ASSUME NEW t \in Tree, NEW z \in N, NEW y \in N, z # y, NEW d \in Sides
  PROVE  LET u == Hang(t, z, y, d)
         IN  /\ u \in Tree /\ u.red = t.red
             /\ \A n \in N : u.parent[n] = IF n = z THEN y ELSE t.parent[n]
             /\ \A e \in Sides : \A n \in N :
                  u[e][n] = IF n = z THEN nil ELSE IF n = y /\ e = d THEN z ELSE t[e][n]
<1> DEFINE t1 == [t EXCEPT !.left[z] = nil]
           t2 == [t1 EXCEPT !.right[z] = nil]
           t3 == [t2 EXCEPT !.parent[z] = y]
           t4 == WithChild(t3, d, y, z)
<1>1. Hang(t, z, y, d) = t4
  BY Zenon DEF Hang, WithChild
<1>2. nil \in N
  BY Names
<1>3. /\ t1 \in Tree /\ t1.parent = t.parent /\ t1.red = t.red
      /\ t1["left"] = [t["left"] EXCEPT ![z] = nil] /\ t1["right"] = t["right"]
  BY <1>2 DEF Tree, t1
<1> HIDE DEF t1
<1>4. /\ t2 \in Tree /\ t2.parent = t.parent /\ t2.red = t.red
      /\ t2["left"] = [t["left"] EXCEPT ![z] = nil]
      /\ t2["right"] = [t["right"] EXCEPT ![z] = nil]
  BY <1>2, <1>3 DEF Tree, t2
<1> HIDE DEF t2
<1>5. /\ t3 \in Tree /\ t3.parent = [t.parent EXCEPT ![z] = y] /\ t3.red = t.red
      /\ t3["left"] = [t["left"] EXCEPT ![z] = nil]
      /\ t3["right"] = [t["right"] EXCEPT ![z] = nil]
  BY <1>2, <1>4 DEF Tree, t3
<1> HIDE DEF t3
<1>6. /\ t4 \in Tree /\ t4.parent = t3.parent /\ t4.red = t3.red
      /\ t4[d] = [t3[d] EXCEPT ![y] = z] /\ t4[Opposite(d)] = t3[Opposite(d)]
  <2>1. t3 \in Tree
    BY <1>5
  <2> QED  BY <2>1, ChildSet
<1> HIDE DEF t4
<1>7. \A e \in Sides : t3[e] = [t[e] EXCEPT ![z] = nil]
  BY <1>5, SideFacts
<1>8. ASSUME NEW e \in Sides, NEW n \in N
      PROVE  t4[e][n] = IF n = z THEN nil ELSE IF n = y /\ e = d THEN z ELSE t[e][n]
  <2>1. t[e] \in [N -> N]
    BY TreeFields
  <2>2. t3[e] \in [N -> N] /\ t3[e][n] = IF n = z THEN nil ELSE t[e][n]
    BY <1>2, <1>7, <2>1
  <2>3. CASE e = d
    BY <1>6, <2>2, <2>3
  <2>4. CASE e # d
    BY <1>6, <2>2, <2>4, SideFacts
  <2> QED  BY <2>3, <2>4
<1>9. \A n \in N : t4.parent[n] = IF n = z THEN y ELSE t.parent[n]
  <2>1. t.parent \in [N -> N]
    BY TreeFields
  <2> QED  BY <1>5, <1>6, <2>1
<1> QED  BY <1>1, <1>5, <1>6, <1>8, <1>9

(* A node hung where the walk has ended is in its place in the order. *)
LEMMA HangShaped ==
  ASSUME NEW t, NEW A, NEW lt, NEW sub, Shaped(t, A, lt, sub), KeyOrder(lt, A),
         NEW z \in Nodes, z \notin A,
         NEW y, Seeking(<<nil, y>>, t, A, sub, z),
         NEW d, d = IF y = root THEN "left" ELSE SideFor(y, z)
  PROVE  \E f : /\ Shaped(Hang(t, z, y, d), A \cup {z}, Behind(lt, A, z), f)
                /\ f[z] = {z}
<1> DEFINE u == Hang(t, z, y, d)
           B == A \cup {z}
           new == Behind(lt, A, z)
           f == [n \in N |-> IF n = z THEN {z}
                             ELSE IF n \in A /\ y \in sub[n] THEN sub[n] \cup {z}
                             ELSE sub[n]]
<1>1. /\ t \in Tree /\ A \subseteq N /\ nil \in N /\ root \in N
      /\ nil \notin A /\ root \notin A /\ nil # root /\ A \subseteq Nodes
      /\ z \in N /\ z # nil /\ z # root
      /\ t.left = t["left"] /\ t["right"][root] = nil
      /\ sub \in [N -> SUBSET A] /\ sub[nil] = {} /\ sub[t["left"][root]] = A
  <2>1. t["right"][root] = nil /\ t.left = t["left"] /\ t \in Tree
    BY ShapeFacts, TreeFields
  <2>2. sub \in [N -> SUBSET A] /\ sub[nil] = {} /\ sub[t.left[root]] = A /\ A \subseteq Nodes
    BY DEF Shaped, Search, Links
  <2> QED  BY <2>1, <2>2, Names, ShapeFacts
<1>2. /\ \A e \in Sides : \A n \in A \cup {root} :
           /\ t[e][n] \in N
           /\ t[e][n] # nil => t[e][n] \in A /\ t.parent[t[e][n]] = n
      /\ \A n \in A : /\ t.parent[n] \in A \cup {root}
                      /\ \E e \in Sides : t[e][t.parent[n]] = n
      /\ \A e \in Sides : t[e][nil] = nil
  BY ShapeFacts
<1>3. /\ \A n \in A : SideFor(n, z) \in Sides
      /\ "left" \in Sides /\ "right" \in Sides /\ "left" # "right"
      /\ \A e \in Sides : e = "left" \/ e = "right"
  BY DEF SideFor, Sides
<1>4. /\ y \in A \cup {root} /\ y # z /\ y \in N /\ d \in Sides /\ t[d][y] = nil
      /\ y = root => A = {} /\ d = "left"
      /\ y \in A => d = SideFor(y, z)
  <2>1. y \in A \cup {root}
    BY DEF Seeking
  <2>2. CASE y = root
    <3>1. t.left[root] = nil
      BY <2>2 DEF Seeking
    <3>2. A = {}
      BY <1>1, <3>1, TopFacts
    <3> QED  BY <1>1, <1>3, <2>2, <3>1, <3>2
  <2>3. CASE y \in A
    <3>1. d = SideFor(y, z) /\ t[SideFor(y, z)][y] = nil
      BY <1>1, <2>3 DEF Seeking
    <3> QED  BY <1>1, <1>3, <2>3, <3>1
  <2> QED  BY <2>1, <2>2, <2>3
<1>5. /\ u \in Tree
      /\ \A n \in N : u.parent[n] = IF n = z THEN y ELSE t.parent[n]
      /\ \A e \in Sides : \A n \in N :
           u[e][n] = IF n = z THEN nil ELSE IF n = y /\ e = d THEN z ELSE t[e][n]
      /\ u.left = u["left"] /\ u.right = u["right"]
  <2>1. t \in Tree /\ z \in N /\ y \in N /\ z # y /\ d \in Sides
    BY <1>1, <1>4
  <2>2. /\ u \in Tree
        /\ \A n \in N : u.parent[n] = IF n = z THEN y ELSE t.parent[n]
        /\ \A e \in Sides : \A n \in N :
             u[e][n] = IF n = z THEN nil ELSE IF n = y /\ e = d THEN z ELSE t[e][n]
    BY <2>1, HangEffect, SMTT(30)
  <2> HIDE DEF u
  <2> QED  BY <2>2, TreeFields
<1> HIDE DEF u
<1>6. Links(u, B)
  <2>1. B \subseteq Nodes
    BY <1>1
  <2>2. u.right[root] = nil /\ \A e \in Sides : u[e][nil] = nil
    BY <1>1, <1>2, <1>3, <1>4, <1>5
  <2>3. ASSUME NEW e \in Sides, NEW n \in B \cup {root}, u[e][n] # nil
        PROVE  u[e][n] \in B /\ u.parent[u[e][n]] = n
    <3>1. n \in N /\ n # z
      BY <1>1, <1>5, <2>3
    <3>2. CASE n = y /\ e = d
      BY <1>1, <1>5, <3>1, <3>2
    <3>3. CASE ~(n = y /\ e = d)
      <4>1. u[e][n] = t[e][n]
        BY <1>5, <3>1, <3>3
      <4>2. t[e][n] \in A /\ t.parent[t[e][n]] = n
        BY <1>2, <2>3, <3>1, <4>1
      <4>3. t[e][n] # z /\ t[e][n] \in N
        BY <1>1, <4>2
      <4> QED  BY <1>5, <4>1, <4>2, <4>3
    <3> QED  BY <3>2, <3>3
  <2>4. ASSUME NEW n \in B
        PROVE  u.parent[n] \in B \cup {root} /\ \E e \in Sides : u[e][u.parent[n]] = n
    <3>1. CASE n = z
      BY <1>1, <1>4, <1>5, <3>1
    <3>2. CASE n # z
      <4>1. n \in A /\ n \in N /\ n # nil
        BY <1>1, <3>2
      <4>2. u.parent[n] = t.parent[n] /\ t.parent[n] \in A \cup {root}
        BY <1>2, <1>5, <3>2, <4>1
      <4>3. t.parent[n] \in N /\ t.parent[n] # z
        BY <1>1, <4>2
      <4>4. PICK e \in Sides : t[e][t.parent[n]] = n
        BY <1>2, <4>1
      <4>5. u[e][t.parent[n]] = n
        BY <1>4, <1>5, <4>1, <4>3, <4>4
      <4> QED  BY <4>2, <4>5
    <3> QED  BY <3>1, <3>2
  <2> QED  BY <1>5, <2>1, <2>2, <2>3, <2>4 DEF Links
<1>7. /\ KeyOrder(new, B)
      /\ \A e \in Sides : \A a, b \in A : On(lt, e, a, b) => On(new, e, a, b)
      /\ \A n \in A : On(new, SideFor(n, z), z, n)
  BY <1>1, BehindFacts
<1> HIDE DEF new
<1>8. /\ f \in [N -> SUBSET B] /\ f[z] = {z} /\ f[nil] = {}
      /\ \A n \in A : f[n] = IF y \in sub[n] THEN sub[n] \cup {z} ELSE sub[n]
      /\ \A n \in N : n # z /\ y \notin sub[n] => f[n] = sub[n]
  BY <1>1
<1> HIDE DEF f
<1>9. \A n \in A : \A e \in Sides :
        /\ n \in sub[n] /\ n \notin sub[t[e][n]]
        /\ \A m \in sub[t[e][n]] : m \in A /\ On(lt, e, m, n)
        /\ sub[n] = {n} \cup sub[t[e][n]] \cup sub[t[Opposite(e)][n]]
  BY ChildOn DEF Shaped
<1>10. f[u.left[root]] = B
  <2>1. CASE y = root
    BY <1>1, <1>4, <1>5, <1>8, <2>1
  <2>2. CASE y # root
    <3>1. u["left"][root] = t["left"][root] /\ y \in A
      BY <1>1, <1>3, <1>4, <1>5, <2>2
    <3>2. t["left"][root] \in A
      BY <1>1, <3>1, TopFacts
    <3> QED  BY <1>1, <1>5, <1>8, <3>1, <3>2
  <2> QED  BY <2>1, <2>2
<1>11. ASSUME NEW n \in A, NEW e \in Sides
       PROVE  /\ f[u[e][n]] = IF n = y /\ e = d THEN {z}
                              ELSE IF y \in sub[t[e][n]] THEN sub[t[e][n]] \cup {z}
                              ELSE sub[t[e][n]]
              /\ n = y => y \notin sub[t[e][n]]
  <2>1. n \in N /\ n # z /\ t[e][n] \in A \cup {nil} /\ t[e][n] # z /\ t[e][n] \in N
    BY <1>1, <1>2
  <2>2. n = y => y \notin sub[t[e][n]]
    BY <1>9
  <2>3. CASE n = y /\ e = d
    BY <1>5, <1>8, <2>1, <2>2, <2>3
  <2>4. CASE ~(n = y /\ e = d)
    <3>1. u[e][n] = t[e][n]
      BY <1>5, <2>1, <2>4
    <3>2. y \in sub[t[e][n]] => t[e][n] \in A
      BY <1>1, <2>1
    <3> QED  BY <1>8, <2>1, <2>2, <2>4, <3>1, <3>2
  <2> QED  BY <2>3, <2>4
<1>12. ASSUME NEW n \in B
       PROVE  f[n] = {n} \cup f[u["left"][n]] \cup f[u["right"][n]]
  <2>1. CASE n = z
    BY <1>1, <1>3, <1>5, <1>8, <2>1
  <2>2. CASE n \in A
    <3>1. sub[n] = {n} \cup sub[t["left"][n]] \cup sub[t["right"][n]]
      BY <2>2 DEF Shaped, Search
    <3>2. CASE n = y
      <4>1. f[n] = sub[n] \cup {z}
        <5>1. y \in sub[n]
          BY <1>3, <1>9, <2>2, <3>2
        <5> QED  BY <1>8, <2>2, <5>1
      <4>2. sub[t[d][n]] = {}
        BY <1>1, <1>4, <3>2
      <4>3. d = "left" \/ d = "right"
        BY <1>3, <1>4
      <4> QED  BY <1>3, <1>11, <2>2, <3>1, <3>2, <4>1, <4>2, <4>3
    <3>3. CASE n # y
      <4>1. \A e \in Sides :
              f[u[e][n]] = IF y \in sub[t[e][n]] THEN sub[t[e][n]] \cup {z} ELSE sub[t[e][n]]
        BY <1>11, <2>2, <3>3
      <4>3. /\ f[u["left"][n]] = IF y \in sub[t["left"][n]]
                                THEN sub[t["left"][n]] \cup {z} ELSE sub[t["left"][n]]
            /\ f[u["right"][n]] = IF y \in sub[t["right"][n]]
                                 THEN sub[t["right"][n]] \cup {z} ELSE sub[t["right"][n]]
        BY <1>3, <4>1
      <4>4. f[n] = IF y \in sub[n] THEN sub[n] \cup {z} ELSE sub[n]
        BY <1>8, <2>2
      <4>2. y \in sub[n] <=> y \in sub[t["left"][n]] \/ y \in sub[t["right"][n]]
        BY <3>1, <3>3
      <4> QED  BY <3>1, <4>2, <4>3, <4>4
    <3> QED  BY <3>2, <3>3
  <2> QED  BY <2>1, <2>2
<1>13. ASSUME NEW e \in Sides, NEW n \in B, NEW m \in f[u[e][n]]
       PROVE  On(new, e, m, n)
  <2>1. n # z
    <3> SUFFICES ASSUME n = z PROVE FALSE
      OBVIOUS
    <3>1. u[e][n] = nil
      BY <1>1, <1>5
    <3> QED  BY <1>8, <3>1
  <2>2. n \in A
    BY <2>1
  <2>3. CASE m \in sub[t[e][n]]
    BY <1>7, <1>9, <2>2, <2>3
  <2>4. CASE n = y /\ e = d
    <3>1. f[u[e][n]] = {z}
      BY <1>11, <2>2, <2>4
    <3>2. m = z
      BY <3>1
    <3>3. d = SideFor(n, z)
      BY <1>4, <2>2, <2>4
    <3> QED  BY <1>7, <2>2, <2>4, <3>2, <3>3
  <2>5. CASE ~(n = y /\ e = d) /\ m \notin sub[t[e][n]]
    <3>1. m = z /\ y \in sub[t[e][n]]
      <4>1. f[u[e][n]] = IF y \in sub[t[e][n]] THEN sub[t[e][n]] \cup {z} ELSE sub[t[e][n]]
        BY <1>11, <2>2, <2>5
      <4> QED  BY <2>5, <4>1
    <3>2. y \in A /\ On(lt, e, y, n) /\ y \in sub[n] /\ n # y
      BY <1>9, <2>2, <3>1
    <3>3. y \in sub[t[SideFor(n, z)][n]]
      BY <2>2, <3>2 DEF Seeking
    <3>4. On(lt, SideFor(n, z), y, n)
      BY <1>3, <1>9, <2>2, <3>3
    <3>5. e = SideFor(n, z)
      <4>1. Order(lt, A)
        BY DEF KeyOrder
      <4>2. e # SideFor(n, z) => e = Opposite(SideFor(n, z))
        BY <1>3, <2>2, SideFacts
      <4> QED  BY <1>3, <2>2, <3>2, <3>4, <4>1, <4>2, OnFacts
    <3> QED  BY <1>7, <2>2, <3>1, <3>5
  <2> QED  BY <2>3, <2>4, <2>5
<1>14. Search(u, B, new, f)
  BY <1>8, <1>10, <1>12, <1>13 DEF Search
<1> QED  BY <1>6, <1>7, <1>8, <1>14 DEF Shaped, KeyOrder, u, new

-----------------------------------------------------------------------------
(* What is proved of a tree of the nodes A in the order lt. *)
Good(t, A, lt) == KeyOrder(lt, A) /\ Balanced(t, A, lt) /\ ~t.red[t.left[root]]

(* RBTreeInsert keeps the invariant, with the new node behind those with    *)
(* its key.                                                                 *)
LEMMA InsertGood ==
  ASSUME NEW t, NEW A, NEW lt, Good(t, A, lt), NEW z \in Nodes, z \notin A
  PROVE  Good(RBTreeInsert(t, z), A \cup {z}, Behind(lt, A, z))
<1> DEFINE y == PlaceFor(t, z)
           d == IF y = root THEN "left" ELSE SideFor(y, z)
           h == Hang(t, z, y, d)
           u == [h EXCEPT !.red[z] = TRUE]
           B == A \cup {z}
<1>1. KeyOrder(lt, A) /\ Balanced(t, A, lt)
  BY DEF Good
<1>2. PICK sub : Shaped(t, A, lt, sub)
  BY <1>1 DEF Balanced
<1>3. PICK bh : Heights(t, A, bh, nil, "left")
  BY <1>1 DEF Balanced
<1> DEFINE new == Behind(lt, A, z)
<1>4. Seeking(<<nil, y>>, t, A, sub, z)
  BY <1>2, PlaceFound
<1> HIDE DEF y
<1>5. RBTreeInsert(t, z) = InsertFixUp(u, z)
  BY DEF RBTreeInsert, TreeInsertHelp, y
<1>6. /\ t \in Tree /\ t.red \in [N -> BOOLEAN] /\ A \subseteq N /\ nil \in N /\ root \in N
      /\ nil \notin A /\ root \notin A /\ nil # root /\ z \in N /\ z # nil /\ z # root
      /\ y \in A \cup {root} /\ y # z /\ y \in N /\ d \in Sides
      /\ \A e \in Sides : \A n \in A \cup {root} : t[e][n] \in A \cup {nil}
      /\ \A n \in A : t.parent[n] \in A \cup {root}
  <2>1. y \in A \cup {root}
    BY <1>4 DEF Seeking
  <2>2. d \in Sides
    BY DEF SideFor, Sides
  <2> QED  BY <1>2, <2>1, <2>2, Names, ShapeFacts
<1>7. PICK f : Shaped(h, B, new, f)
  BY <1>1, <1>2, <1>4, HangShaped
<1>8. /\ h \in Tree /\ h.red = t.red
      /\ \A n \in N : h.parent[n] = IF n = z THEN y ELSE t.parent[n]
      /\ \A e \in Sides : \A n \in N :
           h[e][n] = IF n = z THEN nil ELSE IF n = y /\ e = d THEN z ELSE t[e][n]
  <2>1. t \in Tree /\ z \in N /\ y \in N /\ z # y /\ d \in Sides
    BY <1>6
  <2> HIDE DEF d
  <2> QED  BY <2>1, HangEffect DEF h
<1>14. t[d][y] = nil
  BY <1>2, <1>4, <1>6, ShapeFacts DEF Seeking, SideFor
<1>15. t.left[root] # nil => y # root
  BY <1>4 DEF Seeking
<1> HIDE DEF d
<1> HIDE DEF h, new
<1>9. /\ u \in Tree /\ u.parent = h.parent /\ \A e \in Sides : u[e] = h[e]
      /\ u.red = [t.red EXCEPT ![z] = TRUE]
  BY <1>6, <1>8 DEF Tree, Sides, u
<1> HIDE DEF u
<1>10. Shaped(u, B, new, f)
  BY <1>7, <1>9, Recoloured
<1>11. u.red[z] /\ \A n \in N : n # z => (u.red[n] <=> t.red[n])
  BY <1>6, <1>9
<1>12. Colours(u, B, z)
  <2>1. Colours(t, A, nil)
    BY <1>1 DEF Balanced
  <2>2. ASSUME NEW n \in B, u.red[n], n # z PROVE ~u.red[u.parent[n]]
    <3>1. n \in A /\ n # nil /\ t.red[n] /\ u.parent[n] = t.parent[n]
          /\ t.parent[n] \in N /\ t.parent[n] # z
      BY <1>6, <1>8, <1>9, <1>11, <2>2
    <3>2. ~t.red[t.parent[n]]
      BY <2>1, <3>1 DEF Colours
    <3> QED  BY <1>11, <3>1, <3>2
  <2> QED  BY <1>6, <1>11, <2>1, <2>2 DEF Colours
<1>13. \E k : Heights(u, B, k, nil, "left")
  <2> DEFINE k == [n \in N |-> IF n = z THEN 0 ELSE bh[n]]
  <2>1. bh \in [N -> Nat] /\ bh[nil] = 0
    BY <1>3 DEF Heights
  <2>2. k \in [N -> Nat] /\ k[nil] = 0 /\ k[z] = 0 /\ \A n \in N : n # z => k[n] = bh[n]
    BY <1>6, <2>1
  <2> HIDE DEF k
  <2>3. ASSUME NEW e \in Sides, NEW n \in B
        PROVE  k[n] = k[u[e][n]] + (IF u.red[n] THEN 0 ELSE 1) /\ k[u[e][n]] \in Nat
    <3>1. CASE n = z
      BY <1>6, <1>8, <1>9, <1>11, <2>2, <3>1
    <3>2. CASE n \in A
      <4>1. /\ n \in N /\ n # z /\ n # nil /\ t[e][n] \in N /\ t[e][n] # z
        BY <1>6, <3>2
      <4>2. bh[n] = bh[t[e][n]] + (IF t.red[n] THEN 0 ELSE 1) /\ bh[t[e][n]] \in Nat
        BY <1>3, <2>1, <3>2, <4>1 DEF Heights
      <4>3. k[u[e][n]] = bh[t[e][n]]
        BY <1>8, <1>9, <1>14, <2>1, <2>2, <4>1
      <4> QED  BY <1>11, <2>2, <4>1, <4>2, <4>3
    <3> QED  BY <3>1, <3>2
  <2> QED  BY <1>6, <2>2, <2>3 DEF Heights
<1>16. u.red[u.left[root]] => u.left[root] = z
  <2>1. u.left[root] \in B \cup {nil}
    BY <1>10, TopFacts
  <2>2. ASSUME u.left[root] # z, u.red[u.left[root]] PROVE FALSE
    <3>1. /\ t.left = t["left"] /\ u.left = u["left"] /\ "left" \in Sides
      BY <1>6, <1>9, TreeFields, SideFacts
    <3>2. u["left"][root] = t["left"][root]
      BY <1>6, <1>8, <1>9, <2>2, <3>1
    <3>3. u.left[root] \in N
      BY <1>6, <2>1
    <3>4. t.red[t.left[root]]
      BY <1>11, <2>2, <3>1, <3>2, <3>3
    <3> QED  BY <3>4 DEF Good
  <2> QED  BY <2>2
<1>17. Raising(<<u, z>>, B, new, f)
  BY <1>10, <1>11, <1>12, <1>13, <1>16 DEF Raising
<1>18. Balanced(InsertFixUp(u, z), B, new)
       /\ ~InsertFixUp(u, z).red[InsertFixUp(u, z).left[root]]
  BY <1>9, <1>17, InsertFixUpStep
<1>19. KeyOrder(new, B)
  <2>1. A \subseteq Nodes
    BY <1>2 DEF Shaped, Links
  <2> QED  BY <1>1, <2>1, BehindFacts DEF new
<1> QED  BY <1>5, <1>18, <1>19 DEF Good, new

-----------------------------------------------------------------------------
(* A red node has a black parent, unless it or its parent is x. *)
ColoursBut(t, A, x) ==
  /\ ~t.red[nil] /\ ~t.red[root]
  /\ \A n \in A : t.red[n] /\ n # x /\ t.parent[n] # x => ~t.red[t.parent[n]]

(* x, which may be nil, stands where its parent's paths are short of one    *)
(* black node.                                                              *)
ShortAt(t, A, x, p, d) ==
  /\ x \in A \cup {nil} /\ p \in A \cup {root} /\ p = t.parent[x]
  /\ d \in Sides /\ t[d][p] = x /\ (p = root => d = "left")
  /\ \E bh : Heights(t, A, bh, p, d)

(* The subtree of x is short of one black node, and all else is well.       *)
Short(t, A, lt, sub, x) ==
  /\ Shaped(t, A, lt, sub)
  /\ ColoursBut(t, A, x)
  /\ \E d \in Sides : ShortAt(t, A, x, t.parent[x], d)

(* Below the top a black x has a sibling, so that Side finds its side even  *)
(* if it is nil.                                                            *)
LEMMA ShortSide ==
  ASSUME NEW t, NEW A, NEW lt, NEW sub, NEW x, Short(t, A, lt, sub, x),
         ~t.red[x], NEW p \in A, p = t.parent[x],
         NEW d, d = Side(t, x), NEW o, o = Opposite(d), NEW w, w = Sibling(t, x)
  PROVE  /\ d \in Sides /\ o \in Sides /\ o # d /\ d = Opposite(o)
         /\ x \in A \cup {nil} /\ t[d][p] = x /\ t[o][p] = w
         /\ w \in A /\ t.parent[w] = p
         /\ x # p /\ w # p /\ x # w /\ p # t.parent[p]
         /\ Colours(t, A, nil)
         /\ \E bh : Heights(t, A, bh, p, d)
         /\ x = t.left[root] => FALSE
         /\ w # t.left[root] /\ t.left[root] \in A
<1>1. PICK e \in Sides : ShortAt(t, A, x, p, e)
  BY DEF Short
<1>2. PICK bh : Heights(t, A, bh, p, e)
  BY <1>1 DEF ShortAt
<1>3. /\ x \in A \cup {nil} /\ t[e][p] = x /\ Shaped(t, A, lt, sub) /\ ColoursBut(t, A, x)
  BY <1>1 DEF ShortAt, Short
<1> DEFINE k == Opposite(e)
           v == t[k][p]
<1>4. /\ k \in Sides /\ k # e /\ Opposite(k) = e /\ \A i \in Sides : i = e \/ i = k
  BY SideFacts
<1>5. v \in A \cup {nil} /\ v \in N /\ x \in N /\ nil \notin A /\ root \notin A
  BY <1>3, <1>4, ShapeFacts
<1> HIDE DEF k, v
<1>6. v # nil
  <2>1. bh \in [N -> Nat] /\ bh[nil] = 0
    BY <1>2 DEF Heights
  <2>2. bh[x] \in Nat /\ bh[v] \in Nat
    BY <1>5, <2>1
  <2>3. bh[p] = bh[x] + (IF t.red[p] THEN 0 ELSE 1) + 1
    BY <1>2, <1>3 DEF Heights
  <2>4. bh[p] = bh[v] + (IF t.red[p] THEN 0 ELSE 1) + 0
    BY <1>2, <1>4 DEF Heights, v
  <2>5. bh[v] = bh[x] + 1
    BY <2>2, <2>3, <2>4
  <2> QED  BY <2>1, <2>2, <2>5
<1>7. v \in A /\ t.parent[v] = p /\ v # p /\ x # p /\ p # t.parent[p]
  <2>1. v \in A
    BY <1>5, <1>6
  <2> QED  BY <1>3, <1>4, <1>6, <2>1, ShapeFacts DEF v
<1>8. x # v
  <2>1. \A i, j \in Sides : \A n \in A : t[i][n] # nil /\ t[j][n] = t[i][n] => j = i
    BY <1>3, ShapeFacts
  <2> QED  BY <1>3, <1>4, <1>6, <2>1 DEF v
<1>9. d = e
  <2>1. /\ t.left = t["left"] /\ (e = "left" \/ e = "right") /\ (k = "left" \/ k = "right")
    BY <1>3, <1>4, ShapeFacts, SideFacts
  <2>2. d = IF x = t["left"][p] THEN "left" ELSE "right"
    BY <2>1 DEF Side
  <2> QED  BY <1>3, <1>4, <1>8, <2>1, <2>2 DEF v
<1>10. o = k /\ w = v
  BY <1>9 DEF k, v, Sibling
<1>11. Colours(t, A, nil)
  <2>1. ASSUME NEW n \in A, t.red[n] PROVE ~t.red[t.parent[n]]
    BY <1>3, <2>1 DEF ColoursBut
  <2> QED  BY <1>3, <2>1 DEF Colours, ColoursBut
<1>12. t.left[root] \in A /\ w # t.left[root] /\ x # t.left[root]
  <2>1. /\ t.left[root] \in A
        /\ \A n \in A : \A i \in Sides : t[i][n] # t.left[root] \/ t[i][n] = nil
    BY <1>3, TopFacts
  <2> QED  BY <1>3, <1>4, <1>5, <1>6, <1>10, <2>1 DEF v
<1> QED  BY <1>2, <1>3, <1>4, <1>7, <1>8, <1>9, <1>10, <1>11, <1>12 DEF v

(* When x is red, or at the top, it only has to become black. *)
LEMMA FinishShort ==
  ASSUME NEW t, NEW A, NEW lt, NEW sub, NEW x, Short(t, A, lt, sub, x),
         t.red[x] \/ t.parent[x] = root,
         ~t.red[t.left[root]] \/ t.left[root] = x
  PROVE  LET u == [t EXCEPT !.red[x] = FALSE]
         IN  Balanced(u, A, lt) /\ ~u.red[u.left[root]]
<1> DEFINE u == [t EXCEPT !.red[x] = FALSE]
           p == t.parent[x]
<1>1. PICK d \in Sides : ShortAt(t, A, x, p, d)
  BY DEF Short
<1>2. PICK bh : Heights(t, A, bh, p, d)
  BY <1>1 DEF ShortAt
<1>3. /\ x \in A \cup {nil} /\ t[d][p] = x /\ Shaped(t, A, lt, sub) /\ ColoursBut(t, A, x)
      /\ p \in A \cup {root}
  BY <1>1 DEF ShortAt, Short
<1>4. /\ t \in Tree /\ t.red \in [N -> BOOLEAN] /\ A \subseteq N /\ nil \in N /\ root \in N
      /\ nil \notin A /\ root \notin A /\ x \in N /\ nil # root
      /\ \A n \in A : t.parent[n] \in N
      /\ \A e \in Sides : \A n \in A : t[e][n] \in N
      /\ \A e \in Sides : \A n \in A : t[e][n] # nil => t.parent[t[e][n]] = n
      /\ \A e, k \in Sides : \A n \in A \cup {root} :
              t[e][n] # nil /\ t[k][n] = t[e][n] => k = e
  BY <1>3, ShapeFacts
<1> HIDE DEF p
<1>5. /\ u \in Tree /\ u.parent = t.parent /\ \A e \in Sides : u[e] = t[e]
      /\ u.red = [t.red EXCEPT ![x] = FALSE]
  BY <1>4 DEF Tree, Sides, u
<1> HIDE DEF u
<1>6. Shaped(u, A, lt, sub) /\ u.left = t.left
  BY <1>3, <1>5, Recoloured
<1>7. ~u.red[x] /\ \A n \in N : n # x => (u.red[n] <=> t.red[n])
  BY <1>4, <1>5
<1>8. Colours(u, A, nil)
  <2>1. ASSUME NEW n \in A, u.red[n] PROVE ~u.red[u.parent[n]]
    <3>1. n # x /\ t.red[n] /\ u.parent[n] = t.parent[n] /\ t.parent[n] \in N
      BY <1>4, <1>5, <1>7, <2>1
    <3>2. CASE t.parent[n] = x
      BY <1>7, <3>1, <3>2
    <3>3. CASE t.parent[n] # x
      <4>1. ~t.red[t.parent[n]]
        BY <1>3, <3>1, <3>3 DEF ColoursBut
      <4> QED  BY <1>7, <3>1, <3>3, <4>1
    <3> QED  BY <3>2, <3>3
  <2>2. ~u.red[nil] /\ ~u.red[root]
    BY <1>3, <1>4, <1>7 DEF ColoursBut
  <2> QED  BY <2>1, <2>2 DEF Colours
<1>9. \E h : Heights(u, A, h, nil, "left")
  <2> DEFINE h == [n \in N |-> bh[n] + (IF n = x /\ t.red[x] THEN 1 ELSE 0)]
  <2>1. bh \in [N -> Nat] /\ bh[nil] = 0
    BY <1>2 DEF Heights
  <2>2. /\ h \in [N -> Nat] /\ h[x] = bh[x] + (IF t.red[x] THEN 1 ELSE 0)
        /\ \A n \in N : n # x => h[n] = bh[n]
    BY <1>4, <2>1
  <2> HIDE DEF h
  <2>6. t.red[x] => x # nil
    BY <1>3 DEF ColoursBut
  <2>3. h[nil] = 0
    BY <1>4, <2>1, <2>2, <2>6
  <2>4. ASSUME NEW e \in Sides, NEW n \in A
        PROVE  h[n] = h[u[e][n]] + (IF u.red[n] THEN 0 ELSE 1) /\ h[u[e][n]] \in Nat
    <3>1. /\ bh[n] = bh[t[e][n]] + (IF t.red[n] THEN 0 ELSE 1)
                                 + (IF n = p /\ e = d THEN 1 ELSE 0)
          /\ bh[t[e][n]] \in Nat /\ bh[n] \in Nat /\ n \in N /\ t[e][n] \in N
          /\ h[n] \in Nat /\ h[t[e][n]] \in Nat
      BY <1>2, <1>4, <2>1, <2>2 DEF Heights
    <3>2. u[e][n] = t[e][n]
      BY <1>5
    <3>3. h[n] + (IF t.red[n] THEN 0 ELSE 1) = bh[n] + (IF u.red[n] THEN 0 ELSE 1)
      BY <1>7, <2>2, <3>1
    <3>4. n = p /\ e = d => t[e][n] = x /\ t.red[x]
      <4>1. p = root => n # p
        BY <1>4
      <4> QED  BY <1>3, <4>1 DEF p
    <3>5. t[e][n] = x /\ t.red[x] => n = p /\ e = d
      <4> SUFFICES ASSUME t[e][n] = x, t.red[x] PROVE n = p /\ e = d
        OBVIOUS
      <4>1. n = p
        BY <1>4, <2>6 DEF p
      <4> QED  BY <1>3, <1>4, <2>6, <4>1
    <3>6. h[t[e][n]] = bh[t[e][n]] + (IF n = p /\ e = d THEN 1 ELSE 0)
      BY <2>2, <3>1, <3>4, <3>5
    <3> QED  BY <3>1, <3>2, <3>3, <3>6
  <2> QED  BY <1>4, <2>2, <2>3, <2>4 DEF Heights
<1>10. ~u.red[u.left[root]]
  <2>1. t.left[root] \in N
    BY <1>3, TopFacts
  <2> QED  BY <1>6, <1>7, <2>1
<1> QED  BY <1>6, <1>8, <1>9, <1>10 DEF u, Balanced

-----------------------------------------------------------------------------
(* A sibling with black children becomes red, and its parent is short.      *)
LEMMA BlackNephewsStep ==
  ASSUME NEW t, NEW A, NEW lt, NEW sub, NEW x, Short(t, A, lt, sub, x),
         ~t.red[x], NEW p \in A, p = t.parent[x],
         ~t.red[t.left[root]], NEW w, w = Sibling(t, x), ~t.red[w], BlackNephews(t, x),
         NEW u, u = [t EXCEPT !.red[w] = TRUE]
  PROVE  /\ Short(u, A, lt, sub, p) /\ u \in Tree
         /\ u.left = t.left /\ u.parent = t.parent
         /\ \A n \in N : n # w => (u.red[n] <=> t.red[n])
<1> DEFINE d == Side(t, x)
           o == Opposite(d)
           q == t.parent[p]
           k == Side(t, p)
<1>1. /\ d \in Sides /\ o \in Sides /\ o # d /\ d = Opposite(o)
      /\ x \in A \cup {nil} /\ t[d][p] = x /\ t[o][p] = w
      /\ w \in A /\ t.parent[w] = p
      /\ x # p /\ w # p /\ x # w /\ p # q
      /\ Colours(t, A, nil)
      /\ w # t.left[root] /\ t.left[root] \in A
  BY ShortSide
<1>2. PICK bh : Heights(t, A, bh, p, d)
  BY ShortSide
<1>3. Shaped(t, A, lt, sub)
  BY DEF Short
<1>4. ~t.red[t.left[w]] /\ ~t.red[t.right[w]]
  BY DEF BlackNephews
<1>5. /\ t \in Tree /\ t.red \in [N -> BOOLEAN] /\ A \subseteq N /\ nil \in N /\ root \in N
      /\ nil \notin A /\ root \notin A /\ x \in N /\ nil # root
      /\ \A n \in A : t.parent[n] \in N
      /\ \A e \in Sides : \A n \in A : t[e][n] \in N
      /\ \A e \in Sides : \A n \in A : t[e][n] # nil => t.parent[t[e][n]] = n
      /\ \A e, i \in Sides : \A n \in A \cup {root} :
              t[e][n] # nil /\ t[i][n] = t[e][n] => i = e
      /\ q \in A \cup {root} /\ k \in Sides /\ t[k][q] = p
      /\ t.left = t["left"] /\ t.right = t["right"]
  BY <1>1, <1>3, ShapeFacts, TreeFields
<1>6. q = root => k = "left"
  BY <1>3, ParentOn DEF Shaped
<1>13. q # w
  <2>1. p \notin sub[w] /\ p \in sub[p] /\ (q # root => sub[p] \subseteq sub[q])
    <3>1. t.parent[w] \notin sub[w]
      BY <1>1, <1>3, ParentOn DEF Shaped
    <3>2. q # root => sub[p] \subseteq sub[q]
      BY <1>3, ParentOn DEF Shaped
    <3>3. p \in sub[p]
      BY <1>3, SubGrows
    <3> QED  BY <1>1, <3>1, <3>2, <3>3
  <2> QED  BY <1>1, <1>5, <2>1
<1> HIDE DEF d, o, q, k
<1>7. /\ u \in Tree /\ u.parent = t.parent /\ \A e \in Sides : u[e] = t[e]
      /\ u.red = [t.red EXCEPT ![w] = TRUE]
  BY <1>1, <1>5 DEF Tree, Sides
<1>8. Shaped(u, A, lt, sub) /\ u.left = t.left
  BY <1>3, <1>7, Recoloured
<1>9. u.red[w] /\ \A n \in N : n # w => (u.red[n] <=> t.red[n])
  BY <1>1, <1>5, <1>7
<1>10. ColoursBut(u, A, p)
  <2>1. ASSUME NEW n \in A, u.red[n], n # p, t.parent[n] # p
        PROVE  ~u.red[t.parent[n]]
    <3>1. n # w /\ t.red[n] /\ n # nil
      BY <1>1, <1>5, <1>9, <2>1
    <3>2. ~t.red[t.parent[n]]
      BY <1>1, <3>1 DEF Colours
    <3>3. t.parent[n] # w
      <4>1. PICK e \in Sides : t[e][t.parent[n]] = n
        BY <1>3, ShapeFacts
      <4>2. e = "left" \/ e = "right"
        BY SideFacts
      <4> QED  BY <1>4, <1>5, <3>1, <4>1, <4>2
    <3> QED  BY <1>5, <1>9, <3>2, <3>3
  <2>2. ~u.red[nil] /\ ~u.red[root]
    BY <1>1, <1>5, <1>9 DEF Colours
  <2> QED  BY <1>7, <2>1, <2>2 DEF ColoursBut
<1>11. \E h : Heights(u, A, h, q, k)
  <2> DEFINE h == [n \in N |-> IF n = p \/ n = w THEN bh[n] - 1 ELSE bh[n]]
             Col(n) == IF t.red[n] THEN 0 ELSE 1
             Gap(n, e) == IF n = p /\ e = d THEN 1 ELSE 0
  <2>1. /\ bh \in [N -> Nat] /\ bh[nil] = 0
        /\ \A e \in Sides : \A n \in A : bh[n] = bh[t[e][n]] + Col(n) + Gap(n, e)
    BY <1>2 DEF Heights
  <2>2. Col(w) = 1 /\ Gap(p, d) = 1 /\ Gap(w, d) = 0 /\ Gap(p, o) = 0
        /\ (\A n : Col(n) \in {0, 1}) /\ (\A n, e : n # p => Gap(n, e) = 0)
    BY <1>1
  <2>7. \A n : Col(n) = IF t.red[n] THEN 0 ELSE 1
    OBVIOUS
  <2> HIDE DEF Col, Gap
  <2>3. bh[p] \in Nat \ {0} /\ bh[w] \in Nat \ {0}
    <3>1. bh[p] = bh[x] + Col(p) + 1 /\ bh[w] = bh[t[d][w]] + 1 + 0
      BY <1>1, <2>1, <2>2
    <3>2. bh[x] \in Nat /\ bh[t[d][w]] \in Nat /\ Col(p) \in Nat
      BY <1>1, <1>5, <2>1, <2>2
    <3> QED  BY <3>1, <3>2
  <2>4. /\ h \in [N -> Nat] /\ h[p] = bh[p] - 1 /\ h[w] = bh[w] - 1
        /\ \A n \in N : n # p /\ n # w => h[n] = bh[n]
    BY <1>1, <1>5, <2>1, <2>3
  <2> HIDE DEF h
  <2>5. h[nil] = 0
    BY <1>1, <1>5, <2>1, <2>4
  <2>6. ASSUME NEW e \in Sides, NEW n \in A
        PROVE  h[n] = h[u[e][n]] + (IF u.red[n] THEN 0 ELSE 1)
                                 + (IF n = q /\ e = k THEN 1 ELSE 0)
    <3>1. /\ n \in N /\ t[e][n] \in N /\ u[e][n] = t[e][n]
          /\ bh[n] \in Nat /\ bh[t[e][n]] \in Nat /\ Col(n) \in Nat
          /\ bh[n] = bh[t[e][n]] + Col(n) + Gap(n, e)
      <4>1. n \in N /\ t[e][n] \in N /\ u[e][n] = t[e][n]
        BY <1>5, <1>7
      <4>2. bh[n] \in Nat /\ bh[t[e][n]] \in Nat
        BY <2>1, <4>1
      <4>3. Col(n) \in Nat
        BY <2>7
      <4> QED  BY <2>1, <4>1, <4>2, <4>3
    <3>2. n # w => Col(n) = IF u.red[n] THEN 0 ELSE 1
      BY <1>9, <2>7, <3>1
    <3>3. CASE n = p
      <4>1. n # q /\ n # w
        BY <1>1, <3>3
      <4>2. CASE e = d
        <5>1. h[t[e][n]] = bh[x] /\ t[e][n] = x
          BY <1>1, <1>5, <2>4, <3>3, <4>2
        <5> QED  BY <2>2, <2>4, <3>1, <3>2, <3>3, <4>1, <4>2, <5>1
      <4>3. CASE e # d
        <5>1. e = o
          BY <1>1, <4>3, SideFacts DEF o
        <5>2. h[t[e][n]] = bh[w] - 1 /\ t[e][n] = w
          BY <1>1, <2>4, <3>3, <5>1
        <5> QED  BY <2>2, <2>4, <3>1, <3>2, <3>3, <4>1, <5>1, <5>2
      <4> QED  BY <4>2, <4>3
    <3>4. CASE n = w
      <4>1. t[e][n] # w /\ t[e][n] # p
        <5>1. t[e][w] # w
          BY <1>1, <1>3, ShapeFacts
        <5>2. t[e][w] = p => q = w
          BY <1>1, <1>5 DEF q
        <5> QED  BY <1>13, <3>4, <5>1, <5>2
      <4>2. h[t[e][n]] = bh[t[e][n]]
        BY <2>4, <3>1, <4>1
      <4>3. n # q
        BY <1>13, <3>4
      <4>4. Gap(n, e) = 0 /\ Col(n) = 1 /\ u.red[n]
        BY <1>1, <1>9, <2>2, <3>4
      <4> QED  BY <2>4, <3>1, <3>4, <4>2, <4>3, <4>4
    <3>5. CASE n # p /\ n # w
      <4>1. Gap(n, e) = 0 /\ h[n] = bh[n]
        BY <2>2, <2>4, <3>1, <3>5
      <4>2. t[e][n] # w
        BY <1>1, <1>5, <3>5
      <4>3. t[e][n] = p <=> n = q /\ e = k
        <5>1. n = q /\ e = k => t[e][n] = p
          BY <1>5
        <5>2. t[e][n] = p => n = q
          BY <1>5 DEF q
        <5> QED  BY <1>5, <5>1, <5>2
      <4>4. h[t[e][n]] = bh[t[e][n]] - (IF n = q /\ e = k THEN 1 ELSE 0)
        BY <2>1, <2>4, <3>1, <4>2, <4>3
      <4> QED  BY <3>1, <3>2, <3>5, <4>1, <4>4
    <3> QED  BY <3>3, <3>4, <3>5
  <2>8. h \in [N -> Nat]
    BY <2>4
  <2> QED  BY <2>5, <2>6, <2>8 DEF Heights
<1>12. ShortAt(u, A, p, q, k)
  BY <1>5, <1>6, <1>7, <1>11 DEF ShortAt, q
<1>14. Short(u, A, lt, sub, p)
  BY <1>5, <1>7, <1>8, <1>10, <1>12 DEF Short, q
<1> QED  BY <1>7, <1>8, <1>9, <1>14

-----------------------------------------------------------------------------
(* top is what x is set to when the loop is left early: the node at the top *)
(* or the parent of x.                                                      *)
TopOk(t, x, top) ==
  ~t.red[t.left[root]] /\ (top = t.left[root] \/ top = t.parent[x])

(* A red sibling takes the place of the parent, and x has a black sibling. *)
LEMMA RedSiblingStep ==
  ASSUME NEW t, NEW A, NEW lt, NEW sub, NEW x, Short(t, A, lt, sub, x),
         ~t.red[x], NEW p \in A, p = t.parent[x],
         NEW top, top = t.left[root], ~t.red[top],
         NEW w, w = Sibling(t, x), t.red[w],
         NEW u, u = RedSibling(t, x)
  PROVE  /\ \E f : Short(u, A, lt, f, x)
         /\ ~u.red[x] /\ p = u.parent[x] /\ u.red[p]
         /\ ~u.red[Sibling(u, x)] /\ TopOk(u, x, top)
<1> DEFINE d == Side(t, x)
           o == Opposite(d)
           r == Paint(t, w, p)
           below == t[d][w]
           above == t.parent[p]
<1>1. /\ d \in Sides /\ o \in Sides /\ o # d /\ d = Opposite(o)
      /\ x \in A \cup {nil} /\ t[d][p] = x /\ t[o][p] = w
      /\ w \in A /\ t.parent[w] = p
      /\ x # p /\ w # p /\ x # w /\ p # above
      /\ Colours(t, A, nil)
      /\ w # t.left[root] /\ t.left[root] \in A /\ x # t.left[root]
  BY ShortSide
<1>2. PICK bh : Heights(t, A, bh, p, d)
  BY ShortSide
<1>3. Shaped(t, A, lt, sub)
  BY DEF Short
<1>4. /\ t \in Tree /\ A \subseteq N /\ nil \in N /\ root \in N
      /\ nil \notin A /\ root \notin A /\ x \in N /\ nil # root
      /\ p \in N /\ w \in N /\ p # nil /\ p # root
      /\ \A n \in A : \A e \in Sides : t[e][n] \in A \cup {nil}
      /\ \A n \in A : \A e \in Sides : t[e][n] # nil => t.parent[t[e][n]] = n
  BY <1>1, <1>3, ShapeFacts
<1>5. Exchanged(r, t, w, p)
  BY <1>1, <1>4, Exchange
<1>6. u = Rotate(r, d, p)
  BY DEF RedSibling
<1> HIDE DEF d, o, r, below, above
<1>7. ~t.red[p]
  BY <1>1, <1>4 DEF Colours
<1>8. Colours(t, A, root)
  BY <1>1, <1>4 DEF Colours
<1>9. root # w /\ root # t[d][w] /\ p # w /\ ~(p = p /\ d = o) /\ w = t[o][p] /\ ~t.red[t[d][p]]
  BY <1>1, <1>4
<1>10. below = t[d][w] /\ above = t.parent[p]
  BY DEF below, above
<1>11. /\ u \in Tree /\ \E f : Shaped(u, A, lt, f)
       /\ Colours(u, A, root) /\ \E h : Heights(u, A, h, p, d)
       /\ ~u.red[w] /\ u.red[p]
       /\ \A n \in N : n # w /\ n # p => (u.red[n] <=> t.red[n])
       /\ \A n \in N : u.parent[n] = IF n = p THEN w
                                  ELSE IF n = w THEN above
                                  ELSE IF n = below /\ below # nil THEN p
                                  ELSE t.parent[n]
       /\ \A e \in Sides : \A n \in N :
            u[e][n] = IF n = p /\ e = o THEN below
                      ELSE IF n = w /\ e = d THEN p
                      ELSE IF n = above /\ e = Side(t, p) THEN w
                      ELSE t[e][n]
       /\ above # p /\ above # w
       /\ below # p /\ below # w /\ below # above /\ below \in A \cup {nil}
       /\ above \in A \cup {root}
  BY <1>1, <1>2, <1>3, <1>5, <1>6, <1>7, <1>8, <1>9, <1>10, RaiseRed, SMTT(30)
<1>12. ~u.red[x]
  BY <1>1, <1>4, <1>11
<1>13. u.parent[x] = p
  <2>1. x = below /\ below # nil => FALSE
    BY <1>1, <1>4, <1>10, <1>9
  <2> QED  BY <1>1, <1>4, <1>11, <2>1
<1>14. u[d][p] = x
  BY <1>1, <1>4, <1>11
<1>15. \E f : Short(u, A, lt, f, x)
  <2>1. ShortAt(u, A, x, p, d)
    BY <1>1, <1>4, <1>11, <1>13, <1>14 DEF ShortAt
  <2>2. ColoursBut(u, A, x)
    BY <1>4, <1>11 DEF Colours, ColoursBut
  <2> QED  BY <1>1, <1>11, <1>13, <2>1, <2>2 DEF Short
<1>16. ~u.red[Sibling(u, x)]
  <2>1. PICK f : Short(u, A, lt, f, x)
    BY <1>15
  <2>2. /\ Sibling(u, x) \in A /\ u.parent[Sibling(u, x)] = p
        /\ Colours(u, A, nil)
    BY <1>12, <1>13, <2>1, ShortSide
  <2> QED  BY <1>11, <1>4, <2>2 DEF Colours
<1>17. TopOk(u, x, top)
  <2>1. u.left[root] = IF t.left[root] = p THEN w ELSE t.left[root]
    <3>1. \A e \in Sides : \A n \in N : n \notin A =>
            u[e][n] = IF n = t.parent[p] /\ e = Side(t, p) THEN w ELSE t[e][n]
      BY <1>1, <1>10, <1>11
    <3>2. Shaped(t, A, lt, sub) /\ w \in A /\ u \in Tree
      BY <1>1, <1>3, <1>11
    <3> QED  BY <3>1, <3>2, RaisedTop
  <2>2. top \in N /\ top # w /\ top = t.left[root]
    BY <1>1, <1>4
  <2> QED  BY <1>11, <1>13, <2>1, <2>2 DEF TopOk
<1> QED  BY <1>11, <1>12, <1>13, <1>15, <1>16, <1>17

(* A red near nephew takes the place of the sibling, which becomes the red  *)
(* far nephew.                                                              *)
LEMMA NearNephewStep ==
  ASSUME NEW t, NEW A, NEW lt, NEW sub, NEW x, Short(t, A, lt, sub, x),
         ~t.red[x], NEW p \in A, p = t.parent[x],
         NEW top, TopOk(t, x, top),
         NEW w, w = Sibling(t, x), ~t.red[w],
         ~BlackNephews(t, x), ~t.red[t[Opposite(Side(t, x))][w]],
         NEW u, u = NearNephew(t, x)
  PROVE  /\ \E f : Short(u, A, lt, f, x)
         /\ ~u.red[x] /\ p = u.parent[x]
         /\ ~u.red[Sibling(u, x)] /\ TopOk(u, x, top)
         /\ u.red[u[Opposite(Side(u, x))][Sibling(u, x)]]
<1> DEFINE d == Side(t, x)
           o == Opposite(d)
           c == t[d][w]
           r == Paint(t, c, w)
           below == t[o][c]
           above == t.parent[w]
<1>1. /\ d \in Sides /\ o \in Sides /\ o # d /\ d = Opposite(o) /\ o = Opposite(d)
      /\ x \in A \cup {nil} /\ t[d][p] = x /\ t[o][p] = w
      /\ w \in A /\ t.parent[w] = p
      /\ x # p /\ w # p /\ x # w
      /\ Colours(t, A, nil)
      /\ w # t.left[root] /\ t.left[root] \in A /\ x # t.left[root]
  BY ShortSide
<1>2. PICK bh : Heights(t, A, bh, p, d)
  BY ShortSide
<1>3. Shaped(t, A, lt, sub)
  BY DEF Short
<1>4. /\ t \in Tree /\ A \subseteq N /\ nil \in N /\ root \in N
      /\ nil \notin A /\ root \notin A /\ x \in N /\ nil # root
      /\ p \in N /\ w \in N /\ p # nil /\ p # root /\ w # nil
      /\ \A n \in A : \A e \in Sides : t[e][n] \in A \cup {nil}
      /\ \A n \in A : \A e \in Sides : t[e][n] # nil => t.parent[t[e][n]] = n
      /\ t.left = t["left"] /\ t.right = t["right"]
      /\ \A e, i \in Sides : \A n \in A \cup {root} :
              t[e][n] # nil /\ t[i][n] = t[e][n] => i = e
  BY <1>1, <1>3, ShapeFacts, TreeFields
<1>5. t.red[c] /\ c \in A /\ c # nil /\ t.parent[c] = w /\ ~t.red[t[o][w]]
  <2>1. t.red[t["left"][w]] \/ t.red[t["right"][w]]
    BY <1>4 DEF BlackNephews
  <2>2. (d = "left" \/ d = "right") /\ (o = "left" \/ o = "right")
    BY <1>1, SideFacts
  <2>3. t.red[c]
    BY <1>1, <2>1, <2>2
  <2>4. ~t.red[nil]
    BY <1>1 DEF Colours
  <2> QED  BY <1>1, <1>4, <2>3, <2>4
<1>6. c # p /\ c # w /\ c \in N
  <2>1. p \notin sub[w] /\ c \in sub[w] /\ c # w
    <3>1. t.parent[w] \notin sub[w]
      BY <1>1, <1>3, ParentOn DEF Shaped
    <3>2. c \in sub[c] /\ sub[c] \subseteq sub[w] /\ w \notin sub[c]
      BY <1>1, <1>3, <1>5, ChildOn DEF Shaped
    <3> QED  BY <1>1, <3>1, <3>2
  <2> QED  BY <1>4, <1>5, <2>1
<1>7. Exchanged(r, t, c, w)
  BY <1>4, <1>6, Exchange
<1>8. u = Rotate(r, o, w)
  BY DEF NearNephew
<1>9. Side(t, w) = o
  <2>1. t[Side(t, w)][p] = w /\ Side(t, w) \in Sides
    BY <1>1, <1>3, ShapeFacts
  <2> QED  BY <1>1, <1>4, <2>1
<1> HIDE DEF d, o, c, r, below, above
<1>10. Colours(t, A, root)
  BY <1>1, <1>4 DEF Colours
<1>11. /\ root # c /\ root # t[o][c] /\ p # c /\ ~(p = w /\ d = d) /\ c = t[d][w]
  BY <1>1, <1>4, <1>5, <1>6 DEF c
<1>12. below = t[o][c] /\ above = t.parent[w]
  BY DEF below, above
<1>21. above = p
  BY <1>1, <1>12
<1>13. /\ u \in Tree /\ \E f : Shaped(u, A, lt, f)
       /\ Colours(u, A, root) /\ \E h : Heights(u, A, h, p, d)
       /\ ~u.red[c] /\ u.red[w]
       /\ \A n \in N : n # c /\ n # w => (u.red[n] <=> t.red[n])
       /\ \A n \in N : u.parent[n] = IF n = w THEN c
                                  ELSE IF n = c THEN above
                                  ELSE IF n = below /\ below # nil THEN w
                                  ELSE t.parent[n]
       /\ \A e \in Sides : \A n \in N :
            u[e][n] = IF n = w /\ e = d THEN below
                      ELSE IF n = c /\ e = o THEN w
                      ELSE IF n = above /\ e = Side(t, w) THEN c
                      ELSE t[e][n]
       /\ above # w /\ above # c
       /\ below # w /\ below # c /\ below # above /\ below \in A \cup {nil}
       /\ above \in A \cup {root}
  <2>1. d \in Sides /\ o \in Sides /\ o = Opposite(d) /\ w \in A /\ c \in A
    BY <1>1, <1>5
  <2>2. t.red[c] /\ ~t.red[w] /\ ~t.red[t[o][w]]
    BY <1>5
  <2> QED  BY <1>2, <1>3, <1>7, <1>8, <1>10, <1>11, <1>12, <2>1, <2>2, RaiseRed
<1>14. x # c
  BY <1>1, <1>4, <1>5
<1>15. ~u.red[x]
  BY <1>1, <1>4, <1>13, <1>14
<1>16. u.parent[x] = p
  <2>1. x = below /\ below # nil => FALSE
    BY <1>1, <1>4, <1>5, <1>6, <1>12, <1>21, SMTT(30)
  <2> QED  BY <1>1, <1>4, <1>12, <1>21, <1>13, <1>14, <2>1
<1>17. u[d][p] = x /\ u[o][p] = c /\ u[o][c] = w
  BY <1>1, <1>4, <1>6, <1>9, <1>12, <1>21, <1>13
<1>18. \E f : Short(u, A, lt, f, x)
  <2>1. ShortAt(u, A, x, p, d)
    BY <1>1, <1>4, <1>13, <1>16, <1>17 DEF ShortAt
  <2>2. ColoursBut(u, A, x)
    BY <1>4, <1>13 DEF Colours, ColoursBut
  <2> QED  BY <1>1, <1>13, <1>16, <2>1, <2>2 DEF Short
<1>19. Sibling(u, x) = c /\ Opposite(Side(u, x)) = o
  <2>1. PICK f : Short(u, A, lt, f, x)
    BY <1>18
  <2> DEFINE i == Side(u, x)
             j == Opposite(i)
  <2>2. /\ i \in Sides /\ j \in Sides /\ i # j /\ u[i][p] = x /\ u[j][p] = Sibling(u, x)
        /\ Sibling(u, x) # x
    BY <1>15, <1>16, <2>1, ShortSide
  <2> HIDE DEF i, j
  <2>3. i = d
    <3>1. i # d => i = o
      BY <1>1, <2>2, SideFacts
    <3> QED  BY <1>14, <1>17, <2>2, <3>1
  <2>4. j = o
    BY <2>3 DEF j, o
  <2> QED  BY <1>17, <2>2, <2>4 DEF i, j
<1>20. TopOk(u, x, top)
  <2>1. u.left[root] = t.left[root]
    <3>1. \A e \in Sides : \A n \in N : n \notin A =>
            u[e][n] = IF n = t.parent[w] /\ e = Side(t, w) THEN c ELSE t[e][n]
      BY <1>1, <1>5, <1>12, <1>21, <1>13
    <3>2. u \in Tree /\ w \in A /\ c \in A
      BY <1>1, <1>5, <1>13
    <3>3. u.left[root] = IF t.left[root] = w THEN c ELSE t.left[root]
      BY <1>3, <3>1, <3>2, RaisedTop
    <3> QED  BY <1>1, <3>3
  <2>2. ~t.red[t.left[root]] /\ t.left[root] \in N /\ t.left[root] # w
    BY <1>1, <1>4 DEF TopOk
  <2> QED  BY <1>13, <1>16, <2>1, <2>2 DEF TopOk
<1> QED  BY <1>13, <1>15, <1>16, <1>17, <1>18, <1>19, <1>20

-----------------------------------------------------------------------------
(* With a red far nephew the sibling takes the place of the parent, and     *)
(* nothing is short any more.                                               *)
LEMMA FarNephewStep ==
  ASSUME NEW t, NEW A, NEW lt, NEW sub, NEW x, Short(t, A, lt, sub, x),
         ~t.red[x], NEW p \in A, p = t.parent[x],
         NEW top, TopOk(t, x, top),
         NEW w, w = Sibling(t, x), ~t.red[w],
         t.red[t[Opposite(Side(t, x))][w]],
         NEW u, u = FarNephew(t, x)
  PROVE  /\ Balanced(u, A, lt)
         /\ ~u.red[u.left[root]] /\ ~u.red[top] /\ top \in A
<1> DEFINE d == Side(t, x)
           o == Opposite(d)
           f == t[o][w]
           below == t[d][w]
           above == t.parent[p]
           t1 == [t EXCEPT !.red[w] = t.red[p]]
           t2 == [t1 EXCEPT !.red[p] = FALSE]
           t3 == [t2 EXCEPT !.red[f] = FALSE]
<1>0. u = Rotate(t3, d, p)
  BY DEF FarNephew
<1>1. /\ d \in Sides /\ o \in Sides /\ o # d /\ d = Opposite(o) /\ o = Opposite(d)
      /\ x \in A \cup {nil} /\ t[d][p] = x /\ t[o][p] = w
      /\ w \in A /\ t.parent[w] = p
      /\ x # p /\ w # p /\ x # w /\ p # above
      /\ Colours(t, A, nil)
      /\ w # t.left[root] /\ t.left[root] \in A /\ x # t.left[root]
      /\ \A e \in Sides : e = d \/ e = o
  BY ShortSide, SideFacts
<1>2. PICK bh : Heights(t, A, bh, p, d)
  BY ShortSide
<1>3. Shaped(t, A, lt, sub)
  BY DEF Short
<1>4. /\ t \in Tree /\ t.red \in [N -> BOOLEAN] /\ A \subseteq N /\ nil \in N /\ root \in N
      /\ nil \notin A /\ root \notin A /\ x \in N /\ nil # root
      /\ p \in N /\ w \in N /\ p # nil /\ p # root /\ w # nil /\ w # root
      /\ \A n \in A : \A e \in Sides : t[e][n] \in A \cup {nil} /\ t[e][n] \in N
      /\ \A n \in A : \A e \in Sides : t[e][n] # nil => t.parent[t[e][n]] = n
      /\ \A n \in A : t.parent[n] \in N
      /\ \A e, i \in Sides : \A n \in A \cup {root} :
              t[e][n] # nil /\ t[i][n] = t[e][n] => i = e
      /\ t.red[p] \in BOOLEAN /\ FALSE \in BOOLEAN
  BY <1>1, <1>3, ShapeFacts
<1> HIDE DEF d, o
<1>5. t.red[f] /\ f \in A /\ f # nil /\ f # root /\ t.parent[f] = w /\ f \in N /\ f # w
  <2>1. t.red[f]
    BY DEF o, d
  <2>2. ~t.red[nil] /\ t[o][w] # w
    BY <1>1, <1>3, ShapeFacts DEF Colours
  <2> QED  BY <1>1, <1>4, <2>1, <2>2
<1>6. f # p /\ f # x
  <2>1. p \notin sub[w] /\ f \in sub[w]
    <3>1. t.parent[w] \notin sub[w]
      BY <1>1, <1>3, ParentOn DEF Shaped
    <3>2. f \in sub[f] /\ sub[f] \subseteq sub[w]
      BY <1>1, <1>3, <1>5, ChildOn DEF Shaped
    <3> QED  BY <1>1, <3>1, <3>2
  <2>2. f # x
    BY <1>5
  <2> QED  BY <2>1, <2>2
<1> HIDE DEF f
<1>7. /\ t1 \in Tree /\ t1.parent = t.parent /\ \A e \in Sides : t1[e] = t[e]
      /\ t1.red = [t.red EXCEPT ![w] = t.red[p]]
  BY <1>4 DEF Tree, Sides, t1
<1> HIDE DEF t1
<1>8. /\ t2 \in Tree /\ t2.parent = t.parent /\ \A e \in Sides : t2[e] = t[e]
      /\ t2.red = [t1.red EXCEPT ![p] = FALSE]
  BY <1>4, <1>7 DEF Tree, Sides, t2
<1> HIDE DEF t2
<1>9. /\ t3 \in Tree /\ t3.parent = t.parent /\ \A e \in Sides : t3[e] = t[e]
      /\ t3.red = [t2.red EXCEPT ![f] = FALSE]
  BY <1>4, <1>5, <1>8 DEF Tree, Sides, t3
<1> HIDE DEF t3
<1>10. /\ t3.red[w] <=> t.red[p]
       /\ ~t3.red[p] /\ ~t3.red[f]
       /\ \A n \in N : n # w /\ n # p /\ n # f => (t3.red[n] <=> t.red[n])
  <2>1. t1.red[w] = t.red[p] /\ \A n \in N : n # w => t1.red[n] = t.red[n]
    BY <1>4, <1>7
  <2>2. t1.red \in [N -> BOOLEAN]
    BY <1>7, TreeFields
  <2>3. t2.red[p] = FALSE /\ \A n \in N : n # p => t2.red[n] = t1.red[n]
    BY <1>4, <1>8, <2>2
  <2>4. t2.red \in [N -> BOOLEAN]
    BY <1>8, TreeFields
  <2>5. t3.red[f] = FALSE /\ \A n \in N : n # f => t3.red[n] = t2.red[n]
    BY <1>5, <1>9, <2>4
  <2> QED  BY <1>1, <1>4, <1>5, <1>6, <2>1, <2>3, <2>5
<1>11. Shaped(t3, A, lt, sub) /\ Side(t3, p) = Side(t, p)
  BY <1>3, <1>9, Recoloured
<1>12. w = t3[o][p] /\ below = t3[d][w] /\ above = t3.parent[p]
  BY <1>1, <1>9
<1>26. above \in A \cup {root} /\ Side(t, p) \in Sides /\ t[Side(t, p)][above] = p
  BY <1>3, ShapeFacts
<1>27. f = t[o][w] /\ below = t[d][w] /\ above = t.parent[p]
  BY DEF f
<1> HIDE DEF below, above
<1>13. /\ \E g : Shaped(u, A, lt, g)
       /\ u \in Tree /\ u.red = t3.red
       /\ \A n \in N :
            u.parent[n] = IF n = p THEN w
                          ELSE IF n = w THEN above
                          ELSE IF n = below /\ below # nil THEN p
                          ELSE t3.parent[n]
       /\ \A e \in Sides : \A n \in N :
            u[e][n] = IF n = p /\ e = o THEN below
                      ELSE IF n = w /\ e = d THEN p
                      ELSE IF n = above /\ e = Side(t3, p) THEN w
                      ELSE t3[e][n]
       /\ above # p /\ above # w
       /\ below # p /\ below # w /\ below # above /\ below \in A \cup {nil}
  <2>1. d \in Sides /\ o \in Sides /\ o = Opposite(d) /\ w # nil
    BY <1>1, <1>4
  <2>2. Shaped(t3, A, lt, sub)
    BY <1>11
  <2>3. p \in A /\ u = Rotate(t3, d, p)
    BY <1>0, <1>4
  <2> QED  BY <1>12, <2>1, <2>2, <2>3, RotateStep, SMTT(30)
<1>14. /\ \A n \in N :
            u.parent[n] = IF n = p THEN w
                          ELSE IF n = w THEN above
                          ELSE IF n = below /\ below # nil THEN p
                          ELSE t.parent[n]
       /\ \A e \in Sides : \A n \in N :
            u[e][n] = IF n = p /\ e = o THEN below
                      ELSE IF n = w /\ e = d THEN p
                      ELSE IF n = above /\ e = Side(t, p) THEN w
                      ELSE t[e][n]
       /\ u.red[w] <=> t.red[p]
       /\ ~u.red[p] /\ ~u.red[f]
       /\ \A n \in N : n # w /\ n # p /\ n # f => (u.red[n] <=> t.red[n])
  BY <1>9, <1>10, <1>11, <1>13
<1>15. above # f /\ above \in N /\ below # f
  <2>1. above = f => FALSE
    <3>1. p \in sub[p] /\ w \in sub[w] /\ f \in sub[f]
      BY <1>1, <1>3, <1>5, SubGrows
    <3>2. sub[f] \subseteq sub[w] /\ sub[w] \subseteq sub[p]
      BY <1>1, <1>3, <1>5, <1>27, ChildOn DEF Shaped
    <3>3. above \notin sub[p]
      BY <1>3, <1>27, ParentOn DEF Shaped
    <3> QED  BY <3>1, <3>2, <3>3
  <2>2. below # f
    BY <1>1, <1>4, <1>5, <1>27
  <2> QED  BY <1>4, <1>26, <2>1, <2>2
<1>16. Colours(u, A, nil)
  <2>1. ~u.red[nil] /\ ~u.red[root]
    BY <1>1, <1>4, <1>5, <1>14 DEF Colours
  <2>2. ASSUME NEW n \in A, u.red[n] PROVE ~u.red[u.parent[n]]
    <3>1. n \in N /\ n # p /\ n # f /\ n # nil
      BY <1>4, <1>14, <2>2
    <3>2. CASE n = w
      <4>1. t.red[p] /\ u.parent[n] = above
        BY <1>1, <1>14, <2>2, <3>1, <3>2
      <4>2. ~t.red[above]
        BY <1>1, <1>4, <1>27, <4>1 DEF Colours
      <4> QED  BY <1>13, <1>14, <1>15, <4>1, <4>2
    <3>3. CASE n = below
      BY <1>13, <1>14, <3>1, <3>3
    <3>4. CASE n # w /\ n # below
      <4>1. t.red[n] /\ u.parent[n] = t.parent[n] /\ t.parent[n] \in N
        BY <1>4, <1>14, <2>2, <3>1, <3>4
      <4>2. ~t.red[t.parent[n]]
        BY <1>1, <3>1, <4>1 DEF Colours
      <4>3. t.parent[n] # w
        <5>1. t[Side(t, n)][t.parent[n]] = n /\ Side(t, n) \in Sides
          BY <1>3, ShapeFacts
        <5> QED  BY <1>1, <1>27, <3>1, <3>4, <5>1
      <4> QED  BY <1>14, <4>1, <4>2, <4>3
    <3> QED  BY <3>2, <3>3, <3>4
  <2> QED  BY <2>1, <2>2 DEF Colours
<1>17. \E h : Heights(u, A, h, nil, "left")
  <2> DEFINE h == [n \in N |-> IF n = w THEN bh[p] ELSE IF n = p THEN bh[x] + 1
                               ELSE IF n = f THEN bh[x] + 1 ELSE bh[n]]
             Col(n) == IF t.red[n] THEN 0 ELSE 1
             Gap(n, e) == IF n = p /\ e = d THEN 1 ELSE 0
             New(n) == IF u.red[n] THEN 0 ELSE 1
  <2>1. /\ bh \in [N -> Nat] /\ bh[nil] = 0
        /\ \A e \in Sides : \A n \in A : bh[n] = bh[t[e][n]] + Col(n) + Gap(n, e)
    BY <1>2 DEF Heights
  <2>2. /\ Col(w) = 1 /\ Col(f) = 0 /\ New(p) = 1 /\ New(f) = 1 /\ New(w) = Col(p)
        /\ Gap(p, d) = 1 /\ Gap(p, o) = 0
        /\ (\A n \in N : Col(n) \in {0, 1} /\ New(n) \in {0, 1})
        /\ (\A n, e : n # p => Gap(n, e) = 0)
        /\ \A n \in N : n # w /\ n # p /\ n # f => New(n) = Col(n)
    BY <1>1, <1>5, <1>14
  <2>3. \A n : New(n) = IF u.red[n] THEN 0 ELSE 1
    OBVIOUS
  <2> HIDE DEF Col, Gap, New
  <2>4. bh[p] \in Nat /\ bh[w] \in Nat /\ bh[x] \in Nat /\ bh[f] \in Nat
        /\ bh[below] \in Nat /\ bh[t[o][f]] \in Nat /\ bh[t[d][f]] \in Nat
    BY <1>1, <1>4, <1>5, <1>13, <2>1
  <2>5. /\ bh[p] = bh[x] + 1 + Col(p)
        /\ bh[below] = bh[x] /\ bh[t[d][f]] = bh[x] /\ bh[t[o][f]] = bh[x]
    <3>1. bh[p] = bh[x] + Col(p) + 1 /\ bh[p] = bh[w] + Col(p) + 0
      BY <1>1, <2>1, <2>2
    <3>2. bh[w] = bh[below] + 1 + 0 /\ bh[w] = bh[f] + 1 + 0
      <4>1. bh[w] = bh[t[d][w]] + Col(w) + Gap(w, d) /\ bh[w] = bh[t[o][w]] + Col(w) + Gap(w, o)
        BY <1>1, <2>1
      <4>2. Gap(w, d) = 0 /\ Gap(w, o) = 0 /\ Col(w) = 1
        BY <1>1, <2>2
      <4> QED  BY <1>27, <4>1, <4>2
    <3>3. bh[f] = bh[t[d][f]] + 0 + 0 /\ bh[f] = bh[t[o][f]] + 0 + 0
      BY <1>1, <1>5, <1>6, <2>1, <2>2
    <3>4. Col(p) \in Nat
      BY <1>4, <2>2
    <3> QED  BY <2>4, <3>1, <3>2, <3>3, <3>4
  <2>6. /\ h \in [N -> Nat] /\ h[w] = bh[p] /\ h[p] = bh[x] + 1 /\ h[f] = bh[x] + 1
        /\ \A n \in N : n # p /\ n # w /\ n # f => h[n] = bh[n]
    BY <1>1, <1>4, <1>5, <1>6, <2>1, <2>4
  <2> HIDE DEF h
  <2>7. h[nil] = 0
    BY <1>4, <1>5, <2>1, <2>6
  <2>8. ASSUME NEW e \in Sides, NEW n \in A
        PROVE  h[n] = h[u[e][n]] + New(n)
    <3>1. /\ n \in N /\ t[e][n] \in N
      BY <1>4
    <3>8. /\ bh[n] \in Nat /\ bh[t[e][n]] \in Nat /\ Col(n) \in Nat
          /\ bh[n] = bh[t[e][n]] + Col(n) + Gap(n, e)
      BY <2>1, <2>2, <3>1
    <3>2. CASE n = p
      <4>1. CASE e = d
        <5>1. u[e][n] = x
          BY <1>1, <1>4, <1>13, <1>14, <3>2, <4>1
        <5>2. h[x] = bh[x]
          BY <1>1, <1>4, <1>6, <2>6
        <5> QED  BY <2>2, <2>4, <2>6, <3>2, <5>1, <5>2
      <4>2. CASE e = o
        <5>1. u[e][n] = below
          BY <1>14, <3>1, <3>2, <4>2
        <5>2. h[below] = bh[x]
          BY <1>4, <1>13, <1>15, <2>5, <2>6
        <5> QED  BY <2>2, <2>4, <2>6, <3>2, <5>1, <5>2
      <4> QED  BY <1>1, <4>1, <4>2
    <3>3. CASE n = w
      <4>1. CASE e = d
        <5>1. u[e][n] = p
          BY <1>1, <1>14, <3>1, <3>3, <4>1
        <5> QED  BY <2>2, <2>4, <2>5, <2>6, <3>3, <5>1
      <4>2. CASE e = o
        <5>1. u[e][n] = f
          BY <1>1, <1>13, <1>14, <1>27, <3>1, <3>3, <4>2
        <5> QED  BY <2>2, <2>4, <2>5, <2>6, <3>3, <5>1
      <4> QED  BY <1>1, <4>1, <4>2
    <3>4. CASE n = f
      <4>1. u[e][n] = t[e][n]
        BY <1>6, <1>5, <1>14, <1>15, <3>1, <3>4
      <4>2. t[e][n] # w /\ t[e][n] # p /\ t[e][n] # f
        <5>1. t[e][f] # f
          BY <1>3, <1>5, ShapeFacts
        <5>2. t.parent[w] # f /\ t.parent[p] # f
          BY <1>1, <1>6, <1>15, <1>27
        <5> QED  BY <1>4, <3>4, <5>1, <5>2
      <4>3. bh[t[e][n]] = bh[x]
        BY <1>1, <2>5, <3>4
      <4> QED  BY <2>2, <2>4, <2>6, <3>1, <3>4, <4>1, <4>2, <4>3
    <3>5. CASE n = above /\ e = Side(t, p)
      <4>1. u[e][n] = w /\ n # p /\ n # w /\ n # f /\ t[e][n] = p
        BY <1>13, <1>14, <1>15, <1>26, <3>1, <3>5
      <4> QED  BY <2>2, <2>4, <2>6, <3>1, <3>8, <4>1
    <3>6. CASE n # p /\ n # w /\ n # f /\ ~(n = above /\ e = Side(t, p))
      <4>1. u[e][n] = t[e][n]
        BY <1>14, <3>1, <3>6
      <4>2. t[e][n] # w /\ t[e][n] # f
        BY <1>1, <1>4, <1>5, <3>6
      <4>3. t[e][n] # p
        <5>1. t[e][n] = p => n = above
          BY <1>4, <1>27
        <5> QED  BY <1>4, <1>26, <3>6, <5>1
      <4> QED  BY <2>2, <2>6, <3>1, <3>6, <3>8, <4>1, <4>2, <4>3
    <3> QED  BY <3>2, <3>3, <3>4, <3>5, <3>6
  <2>9. \A e \in Sides : \A n \in A :
          h[n] = h[u[e][n]] + (IF u.red[n] THEN 0 ELSE 1)
                            + (IF n = nil /\ e = "left" THEN 1 ELSE 0)
    <3>1. \A e \in Sides : \A n \in A : n # nil /\ h[u[e][n]] \in Nat
      <4>1. \A e \in Sides : \A n \in A : u[e][n] \in N
        BY <1>4, <1>13, TreeFields
      <4> QED  BY <1>4, <2>6, <4>1
    <3> QED  BY <2>3, <2>8, <3>1
  <2> QED  BY <2>6, <2>7, <2>9 DEF Heights
<1>18. u.left[root] = IF t.left[root] = p THEN w ELSE t.left[root]
  <2>1. \A e \in Sides : \A n \in N : n \notin A =>
          u[e][n] = IF n = t.parent[p] /\ e = Side(t, p) THEN w ELSE t[e][n]
    BY <1>1, <1>14, <1>27
  <2>2. Shaped(t, A, lt, sub) /\ w \in A /\ u \in Tree
    BY <1>1, <1>3, <1>13
  <2> QED  BY <2>1, <2>2, RaisedTop
<1>19. ~u.red[u.left[root]]
  <2>1. ~t.red[t.left[root]] /\ t.left[root] \in N
    BY <1>1, <1>4 DEF TopOk
  <2> QED  BY <1>1, <1>5, <1>14, <1>18, <2>1
<1>20. ~u.red[top] /\ top \in A
  <2>1. ~t.red[t.left[root]] /\ (top = t.left[root] \/ top = p) /\ t.left[root] \in N
    BY <1>1, <1>4 DEF TopOk
  <2> QED  BY <1>1, <1>14, <1>5, <2>1
<1> QED  BY <1>13, <1>16, <1>17, <1>19, <1>20 DEF Balanced

-----------------------------------------------------------------------------
(* Before the last turn of the loop of RBDeleteFixUp ... *)
Opening(s, A, lt, sub, top) ==
  LET t == s[1]
      x == s[2]
  IN  Short(t, A, lt, sub, x) /\ t.left[root] = top /\ (~t.red[top] \/ x = top)

(* ... and after it. *)
Stopped(s, top) == s[1].red[s[2]] \/ s[2] = top

(* The loop has stopped at a node that makes the tree a red-black tree      *)
(* again once it is black.                                                  *)
Finished(s, A, lt) ==
  LET u == [s[1] EXCEPT !.red[s[2]] = FALSE]
  IN  Balanced(u, A, lt) /\ ~u.red[u.left[root]]

(* A black node that becomes black. *)
LEMMA BlackenBlack ==
  ASSUME NEW t, NEW A, NEW lt, Balanced(t, A, lt), ~t.red[t.left[root]],
         NEW x \in A, ~t.red[x]
  PROVE  Finished(<<t, x>>, A, lt)
<1> DEFINE u == [t EXCEPT !.red[x] = FALSE]
<1>1. PICK sub : Shaped(t, A, lt, sub)
  BY DEF Balanced
<1>2. PICK bh : Heights(t, A, bh, nil, "left")
  BY DEF Balanced
<1>3. /\ t \in Tree /\ t.red \in [N -> BOOLEAN] /\ A \subseteq N /\ x \in N
      /\ t.left[root] \in N /\ nil \in N /\ root \in N
      /\ \A n \in A : t.parent[n] \in N
  BY <1>1, ShapeFacts, TopFacts
<1>4. /\ u \in Tree /\ u.parent = t.parent /\ \A e \in Sides : u[e] = t[e]
      /\ u.red = [t.red EXCEPT ![x] = FALSE]
  BY <1>3 DEF Tree, Sides, u
<1> HIDE DEF u
<1>5. \A n \in N : u.red[n] <=> t.red[n]
  BY <1>3, <1>4
<1>6. Shaped(u, A, lt, sub) /\ u.left = t.left
  BY <1>1, <1>4, Recoloured
<1>7. Colours(u, A, nil)
  BY <1>3, <1>4, <1>5 DEF Balanced, Colours
<1>8. Heights(u, A, bh, nil, "left")
  BY <1>2, <1>3, <1>4, <1>5 DEF Heights
<1>9. Balanced(u, A, lt) /\ ~u.red[u.left[root]]
  BY <1>3, <1>5, <1>6, <1>7, <1>8 DEF Balanced
<1> QED  BY <1>9 DEF Finished, u

(* Unless the loop stops, the node it is at has a parent in the tree.       *)
LEMMA BelowTop ==
  ASSUME NEW A, NEW lt, NEW sub, NEW t, NEW x, NEW top,
         Opening(<<t, x>>, A, lt, sub, top)
  PROVE  /\ t \in Tree /\ x \in A \cup {nil} /\ Shaped(t, A, lt, sub)
         /\ ~Stopped(<<t, x>>, top) => t.parent[x] \in A
         /\ Stopped(<<t, x>>, top) => Finished(<<t, x>>, A, lt)
<1>1. /\ Short(t, A, lt, sub, x) /\ t.left[root] = top /\ (~t.red[top] \/ x = top)
  BY DEF Opening
<1>2. Shaped(t, A, lt, sub)
  BY <1>1 DEF Short
<1>3. PICK d \in Sides : ShortAt(t, A, x, t.parent[x], d)
  BY <1>1 DEF Short
<1>4. /\ x \in A \cup {nil} /\ t.parent[x] \in A \cup {root} /\ t[d][t.parent[x]] = x
      /\ t.parent[x] = root => d = "left"
  BY <1>3 DEF ShortAt
<1>5. t \in Tree /\ t.left = t["left"]
  BY <1>2, ShapeFacts
<1>6. t.parent[x] = root <=> x = top
  <2>1. t.parent[x] = root => x = top
    BY <1>1, <1>4, <1>5
  <2>2. x = top => t.parent[x] = root
    <3>1. CASE x \in A
      BY <1>1, <1>2, <3>1, TopFacts
    <3>2. CASE x = nil
      <4>1. x = top => A = {}
        BY <1>1, <1>2, <3>2, TopFacts, ShapeFacts
      <4> QED  BY <1>4, <4>1
    <3> QED  BY <1>4, <3>1, <3>2
  <2> QED  BY <2>1, <2>2
<1>7. ASSUME Stopped(<<t, x>>, top) PROVE Finished(<<t, x>>, A, lt)
  <2>1. t.red[x] \/ t.parent[x] = root
    BY <1>6, <1>7 DEF Stopped
  <2>2. ~t.red[t.left[root]] \/ t.left[root] = x
    BY <1>1
  <2> DEFINE u == [t EXCEPT !.red[x] = FALSE]
  <2>3. Balanced(u, A, lt) /\ ~u.red[u.left[root]]
    BY <1>1, <2>1, <2>2, FinishShort
  <2> QED  BY <2>3 DEF Finished
<1>8. ~Stopped(<<t, x>>, top) => t.parent[x] \in A
  BY <1>4, <1>6 DEF Stopped
<1> QED  BY <1>2, <1>4, <1>5, <1>7, <1>8

(* Each turn of the loop of RBDeleteFixUp keeps the invariant but for the   *)
(* missing black node, and ends it or moves it to the parent.               *)
LEMMA DeleteTurnStep ==
  ASSUME NEW A, NEW lt, NEW sub, NEW t \in Tree, NEW x \in A \cup {nil}, NEW top,
         \/ Opening(<<t, x>>, A, lt, sub, top)
         \/ Stopped(<<t, x>>, top) /\ Finished(<<t, x>>, A, lt),
         NEW s, s = DeleteTurn(<<t, x>>, top)
  PROVE  /\ s \in Tree \X (A \cup {nil})
         /\ \/ Opening(s, A, lt, sub, top)
            \/ Stopped(s, top) /\ Finished(s, A, lt)
         /\ Stopped(<<t, x>>, top) => s = <<t, x>>
         /\ \/ Stopped(s, top)
            \/ /\ Opening(s, A, lt, sub, top) /\ Opening(<<t, x>>, A, lt, sub, top)
               /\ s[2] \in A /\ s[2] = t.parent[x]
<1> DEFINE u == IF t.red[Sibling(t, x)] THEN RedSibling(t, x) ELSE t
           w == Sibling(u, x)
           v == [u EXCEPT !.red[w] = TRUE]
<1>1. s = IF t.red[x] \/ x = top THEN <<t, x>>
          ELSE IF BlackNephews(u, x) THEN <<v, u.parent[x]>>
          ELSE IF u.red[u[Opposite(Side(u, x))][w]] THEN <<FarNephew(u, x), top>>
          ELSE <<FarNephew(NearNephew(u, x), x), top>>
  BY DEF DeleteTurn
<1>2. Stopped(<<t, x>>, top) <=> t.red[x] \/ x = top
  BY DEF Stopped
<1>3. CASE Stopped(<<t, x>>, top)
  BY <1>1, <1>2, <1>3
<1>4. CASE ~Stopped(<<t, x>>, top)
  <2>1. /\ Opening(<<t, x>>, A, lt, sub, top) /\ ~t.red[x] /\ x # top
    BY <1>2, <1>4
  <2>2. /\ Short(t, A, lt, sub, x) /\ top = t.left[root] /\ ~t.red[top]
    BY <2>1 DEF Opening
  <2> DEFINE p == t.parent[x]
  <2>3. p \in A
    BY <1>4, <2>1, BelowTop
  <2>5. s = IF BlackNephews(u, x) THEN <<v, u.parent[x]>>
            ELSE IF u.red[u[Opposite(Side(u, x))][w]] THEN <<FarNephew(u, x), top>>
            ELSE <<FarNephew(NearNephew(u, x), x), top>>
    BY <1>1, <2>1
  <2> HIDE DEF p, u, w
  <2>4. /\ \E f : Short(u, A, lt, f, x)
        /\ ~u.red[x] /\ p = u.parent[x] /\ ~u.red[w] /\ TopOk(u, x, top)
        /\ t.red[Sibling(t, x)] => u.red[p]
        /\ ~t.red[Sibling(t, x)] => u = t
    <3>1. CASE t.red[Sibling(t, x)]
      <4>1. u = RedSibling(t, x)
        BY <3>1 DEF u
      <4>2. p = t.parent[x]
        BY DEF p
      <4> QED  BY <2>1, <2>2, <2>3, <3>1, <4>1, <4>2, RedSiblingStep DEF w
    <3>2. CASE ~t.red[Sibling(t, x)]
      <4>1. u = t
        BY <3>2 DEF u
      <4> QED  BY <2>1, <2>2, <3>2, <4>1 DEF w, p, TopOk
    <3> QED  BY <3>1, <3>2
  <2>6. PICK f : Short(u, A, lt, f, x)
    BY <2>4
  <2>7. w = Sibling(u, x)
    BY DEF w
  <2>8. CASE BlackNephews(u, x)
    <3>1. s = <<v, p>>
      BY <2>4, <2>5, <2>8
    <3>2. ~u.red[u.left[root]]
      BY <2>4 DEF TopOk
    <3>3. /\ \A g : Short(u, A, lt, g, x) => Short(v, A, lt, g, p)
          /\ v \in Tree /\ v.left = u.left /\ v.parent = u.parent
          /\ \A n \in N : n # w => (v.red[n] <=> u.red[n])
      <4> HIDE DEF v
      <4>1. v = [u EXCEPT !.red[w] = TRUE]
        BY DEF v
      <4>2. p \in A /\ p = u.parent[x] /\ ~u.red[x] /\ ~u.red[w]
        BY <2>3, <2>4
      <4> QED  BY <2>6, <2>7, <2>8, <3>2, <4>1, <4>2, BlackNephewsStep
    <3> HIDE DEF v
    <3>4. /\ w # u.left[root] /\ w # p /\ p \in N /\ u.left[root] \in N
      <4>1. w # u.left[root] /\ w # p /\ u.left[root] \in A
        BY <2>3, <2>4, <2>6, <2>7, ShortSide
      <4>2. A \subseteq N
        BY <2>6, ShapeFacts DEF Short
      <4> QED  BY <2>3, <4>1, <4>2
    <3>5. ~v.red[v.left[root]]
      BY <3>2, <3>3, <3>4
    <3>6. CASE t.red[Sibling(t, x)]
      <4>1. v.red[p]
        BY <2>4, <3>3, <3>4, <3>6
      <4>2. Short(v, A, lt, f, p)
        BY <2>6, <3>3
      <4> DEFINE z == [v EXCEPT !.red[p] = FALSE]
      <4>3. Balanced(z, A, lt) /\ ~z.red[z.left[root]]
        BY <4>1, <4>2, <3>5, FinishShort
      <4>6. Finished(<<v, p>>, A, lt)
        BY <4>3 DEF Finished
      <4>4. Finished(s, A, lt)
        BY <3>1, <4>6
      <4>5. Stopped(s, top)
        BY <3>1, <4>1 DEF Stopped
      <4> QED  BY <1>4, <2>3, <3>1, <3>3, <4>4, <4>5
    <3>7. CASE ~t.red[Sibling(t, x)]
      <4>1. u = t
        BY <2>4, <3>7
      <4>2. Short(v, A, lt, sub, p)
        BY <2>2, <3>3, <4>1
      <4>3. Opening(s, A, lt, sub, top)
        BY <2>2, <3>1, <3>3, <3>5, <4>1, <4>2 DEF Opening
      <4> QED  BY <1>4, <2>1, <2>3, <3>1, <3>3, <4>3 DEF p
    <3> QED  BY <3>6, <3>7
  <2>9. CASE ~BlackNephews(u, x)
    <3>1. ASSUME NEW z, s = <<z, top>>, Balanced(z, A, lt), ~z.red[z.left[root]],
                 ~z.red[top], top \in A
          PROVE  s \in Tree \X (A \cup {nil}) /\ Stopped(s, top) /\ Finished(s, A, lt)
      <4>1. Finished(s, A, lt)
        BY <3>1, BlackenBlack
      <4>2. z \in Tree
        BY <3>1, ShapeFacts DEF Balanced
      <4> QED  BY <3>1, <4>1, <4>2 DEF Stopped
    <3>2. CASE u.red[u[Opposite(Side(u, x))][w]]
      <4> DEFINE z == FarNephew(u, x)
      <4>1. s = <<z, top>>
        BY <2>5, <2>9, <3>2
      <4> HIDE DEF z
      <4>2. z = FarNephew(u, x)
        BY DEF z
      <4>3. /\ Balanced(z, A, lt)
            /\ ~z.red[z.left[root]] /\ ~z.red[top] /\ top \in A
        BY <2>3, <2>4, <2>6, <2>7, <3>2, <4>2, FarNephewStep
      <4> QED  BY <1>4, <3>1, <4>1, <4>3
    <3>3. CASE ~u.red[u[Opposite(Side(u, x))][w]]
      <4> DEFINE b == NearNephew(u, x)
                 z == FarNephew(b, x)
      <4>1. s = <<z, top>>
        BY <2>5, <2>9, <3>3
      <4> HIDE DEF b, z
      <4>2. b = NearNephew(u, x) /\ z = FarNephew(b, x)
        BY DEF b, z
      <4>3. /\ \E g : Short(b, A, lt, g, x)
            /\ ~b.red[x] /\ p = b.parent[x]
            /\ ~b.red[Sibling(b, x)] /\ TopOk(b, x, top)
            /\ b.red[b[Opposite(Side(b, x))][Sibling(b, x)]]
        BY <2>3, <2>4, <2>6, <2>7, <2>9, <3>3, <4>2, NearNephewStep
      <4>4. PICK g : Short(b, A, lt, g, x)
        BY <4>3
      <4>5. /\ Balanced(z, A, lt)
            /\ ~z.red[z.left[root]] /\ ~z.red[top] /\ top \in A
        BY <2>3, <4>2, <4>3, <4>4, FarNephewStep
      <4> QED  BY <1>4, <3>1, <4>1, <4>5
    <3> QED  BY <3>2, <3>3
  <2> QED  BY <2>8, <2>9
<1> QED  BY <1>3, <1>4

(* After RBDeleteFixUp the black node is made up for.                       *)
LEMMA DeleteFixUpStep ==
  ASSUME NEW A, NEW lt, NEW sub, NEW t, NEW x,
         Opening(<<t, x>>, A, lt, sub, t.left[root])
  PROVE  LET u == DeleteFixUp(t, x) IN Balanced(u, A, lt) /\ ~u.red[u.left[root]]
<1> DEFINE top == t.left[root]
           S == { s \in Tree \X (A \cup {nil}) :
                    \/ Opening(s, A, lt, sub, top)
                    \/ Stopped(s, top) /\ Finished(s, A, lt) }
           F == [s \in S |-> DeleteTurn(s, top)]
           turn[i \in Nat] ==
             IF i = 0 THEN <<t, x>> ELSE DeleteTurn(turn[i - 1], t.left[root])
           last == turn[NODES]
<1>1. ASSUME NEW s \in S
      PROVE  /\ DeleteTurn(s, top) \in S
             /\ Stopped(s, top) => DeleteTurn(s, top) = s
             /\ \/ Stopped(DeleteTurn(s, top), top)
                \/ /\ Opening(DeleteTurn(s, top), A, lt, sub, top)
                   /\ Opening(s, A, lt, sub, top)
                   /\ DeleteTurn(s, top)[2] \in A
                   /\ DeleteTurn(s, top)[2] = s[1].parent[s[2]]
  <2>1. PICK v \in Tree, y \in A \cup {nil} : s = <<v, y>>
    OBVIOUS
  <2>2. \/ Opening(<<v, y>>, A, lt, sub, top)
        \/ Stopped(<<v, y>>, top) /\ Finished(<<v, y>>, A, lt)
    BY <2>1
  <2>3. s[2] = y /\ s[1] = v
    BY <2>1
  <2> HIDE DEF top
  <2> QED  BY <2>1, <2>2, <2>3, DeleteTurnStep
<1>2. <<t, x>> \in S
  BY BelowTop
<1>3. F \in [S -> S]
  <2> HIDE DEF S
  <2> QED  BY <1>1
<1> HIDE DEF S, F
<1>4. /\ turn \in [Nat -> S] /\ turn[0] = <<t, x>>
      /\ \A i \in Nat : turn[i + 1] = DeleteTurn(turn[i], top)
  <2>0. PICK f : Iterates(f, S, F, <<t, x>>)
    BY <1>2, <1>3, Iteration, Zenon
  <2>1. f \in [Nat -> S] /\ f[0] = <<t, x>> /\ \A i \in Nat : f[i + 1] = F[f[i]]
    BY <2>0 DEF Iterates
  <2>2. f = [i \in Nat |-> IF i = 0 THEN <<t, x>> ELSE DeleteTurn(f[i - 1], top)]
    <3>1. ASSUME NEW i \in Nat
          PROVE  f[i] = IF i = 0 THEN <<t, x>> ELSE DeleteTurn(f[i - 1], top)
      <4>1. i # 0 => i - 1 \in Nat /\ (i - 1) + 1 = i
        OBVIOUS
      <4>2. i # 0 => f[i - 1] \in S /\ f[i] = F[f[i - 1]]
        BY <2>1, <4>1
      <4> QED  BY <2>1, <4>2 DEF F
    <3>2. f = [i \in Nat |-> f[i]]
      BY <2>1
    <3> HIDE DEF top
    <3> QED  BY <3>1, <3>2
  <2>3. turn = CHOOSE g : g = [i \in Nat |-> IF i = 0 THEN <<t, x>>
                                             ELSE DeleteTurn(g[i - 1], top)]
    BY DEF turn
  <2>4. turn = [i \in Nat |-> IF i = 0 THEN <<t, x>> ELSE DeleteTurn(turn[i - 1], top)]
    <3> HIDE DEF turn, top
    <3> QED  BY <2>2, <2>3
  <2> HIDE DEF turn, top
  <2>5. turn[0] = <<t, x>>
    BY <2>4
  <2>6. \A i \in Nat : turn[i + 1] = DeleteTurn(turn[i], top)
    <3>1. \A i \in Nat : i + 1 \in Nat /\ i + 1 # 0 /\ (i + 1) - 1 = i
      OBVIOUS
    <3> QED  BY <2>4, <3>1
  <2>7. turn \in [Nat -> S]
    <3> DEFINE P == { i \in Nat : turn[i] \in S }
    <3>1. 0 \in P
      BY <1>2, <2>5
    <3>2. \A i \in Nat : i \in P => i + 1 \in P
      BY <1>1, <2>6
    <3>3. Nat \subseteq P
      <4> HIDE DEF P
      <4> QED  BY <3>1, <3>2, AllReached
    <3> QED  BY <2>4, <3>3
  <2> QED  BY <2>5, <2>6, <2>7
<1>8. DeleteFixUp(t, x) = [last[1] EXCEPT !.red[last[2]] = FALSE]
  BY DEF DeleteFixUp, turn, last
<1> HIDE DEF turn, top
<1>9. Shaped(t, A, lt, sub)
  BY BelowTop
<1>10. \A s \in S : /\ s \in Tree \X (A \cup {nil})
                    /\ \/ Opening(s, A, lt, sub, top)
                       \/ Stopped(s, top) /\ Finished(s, A, lt)
  BY DEF S
<1>11. ASSUME NEW s \in S, Opening(s, A, lt, sub, top)
       PROVE  /\ Shaped(s[1], A, lt, sub)
              /\ ~Stopped(s, top) => s[1].parent[s[2]] \in A
              /\ Stopped(s, top) => Finished(s, A, lt)
  <2>1. PICK v \in Tree, y \in A \cup {nil} : s = <<v, y>>
    BY <1>10
  <2>2. Opening(<<v, y>>, A, lt, sub, top)
    BY <1>11, <2>1
  <2>3. /\ Shaped(v, A, lt, sub)
        /\ ~Stopped(<<v, y>>, top) => v.parent[y] \in A
        /\ Stopped(<<v, y>>, top) => Finished(<<v, y>>, A, lt)
    BY <2>2, BelowTop
  <2> QED  BY <2>1, <2>3
<1>12. \A n \in A : Cardinality(sub[n]) \in Nat \ {0} /\ Cardinality(sub[n]) <= NODES
  <2>1. \A n \in A : n \in sub[n] /\ IsFiniteSet(sub[n]) /\ Cardinality(sub[n]) \in Nat
                     /\ Cardinality(sub[n]) <= NODES
    BY <1>9, SubGrows
  <2> QED  BY <2>1, FS_EmptySet
<1>5. Stopped(last, top)
  <2> DEFINE P == { i \in Nat : \/ Stopped(turn[i], top)
                                \/ /\ Opening(turn[i], A, lt, sub, top)
                                   /\ i # 0 => /\ turn[i][2] \in A
                                               /\ Cardinality(sub[turn[i][2]]) >= i }
  <2>1. 0 \in P
    BY <1>4 DEF top
  <2>2. ASSUME NEW i \in Nat, i \in P PROVE i + 1 \in P
    <3>1. turn[i] \in S /\ turn[i + 1] \in S /\ turn[i + 1] = DeleteTurn(turn[i], top)
      BY <1>4
    <3>2. CASE Stopped(turn[i], top)
      BY <1>1, <3>1, <3>2
    <3>3. CASE Stopped(turn[i + 1], top)
      BY <3>3
    <3>4. CASE ~Stopped(turn[i], top) /\ ~Stopped(turn[i + 1], top)
      <4> DEFINE v == turn[i][1]
                 y == turn[i][2]
                 z == turn[i + 1][2]
      <4>1. /\ Opening(turn[i + 1], A, lt, sub, top) /\ Opening(turn[i], A, lt, sub, top)
            /\ z \in A /\ z = v.parent[y]
        BY <1>1, <3>1, <3>4
      <4>2. Shaped(v, A, lt, sub)
        BY <1>11, <3>1, <4>1
      <4>3. i # 0 => y \in A /\ Cardinality(sub[y]) >= i
        BY <2>2, <3>4
      <4> HIDE DEF v, y, z
      <4>4. Cardinality(sub[z]) >= i + 1
        <5>1. CASE i = 0
          BY <1>12, <4>1, <5>1
        <5>2. CASE i # 0
          <6>1. Cardinality(sub[y]) + 1 <= Cardinality(sub[z])
            BY <4>1, <4>2, <4>3, <5>2, SubGrows
          <6> QED  BY <1>12, <4>1, <4>3, <5>2, <6>1
        <5> QED  BY <5>1, <5>2
      <4> QED  BY <4>1, <4>4 DEF z
    <3> QED  BY <3>2, <3>3, <3>4
  <2>3. Nat \subseteq P
    <3> HIDE DEF P
    <3> QED  BY <2>1, <2>2, AllReached
  <2>4. NODES \in P /\ NODES \in Nat /\ NODES # 0
    BY <2>3, RBTreeAssumption
  <2>5. ASSUME ~Stopped(last, top) PROVE FALSE
    <3> DEFINE v == last[1]
               y == last[2]
    <3>1. /\ Opening(last, A, lt, sub, top) /\ last \in S
          /\ y \in A /\ Cardinality(sub[y]) >= NODES
      BY <1>4, <2>4, <2>5
    <3>2. Shaped(v, A, lt, sub) /\ v.parent[y] \in A
      BY <1>11, <2>5, <3>1
    <3> HIDE DEF v, y
    <3>3. Cardinality(sub[y]) + 1 <= Cardinality(sub[v.parent[y]])
      BY <3>1, <3>2, SubGrows
    <3> QED  BY <1>12, <2>4, <3>1, <3>2, <3>3
  <2> QED  BY <2>5
<1>6. last \in S
  BY <1>4, Names
<1>7. Finished(last, A, lt)
  BY <1>5, <1>6, <1>10, <1>11
<1> HIDE DEF last
<1> QED  BY <1>7, <1>8 DEF Finished
=============================================================================
