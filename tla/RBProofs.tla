------------------------------ MODULE RBProofs ------------------------------
(***************************************************************************)
(* Theorems about the red-black tree, for any number of nodes and of equal *)
(* keys: it stays a search tree, linked and coloured, its walks find the   *)
(* neighbours and its queries what is asked for, and it implements         *)
(* OrderedList.  The lemmas of the first part are about RBDelete, those of *)
(* the second about the list of nodes in an order, those of the third      *)
(* about the walks and the queries, and Kept is the inductive invariant.   *)
(***************************************************************************)
EXTENDS RBFixUpProofs

(* The nodes of a subtree are all on one side of any other node. *)
LEMMA Apart ==
  ASSUME NEW t, NEW A, NEW lt, NEW sub, Shaped(t, A, lt, sub)
  PROVE  \A k \in A : \A m \in A \ sub[k] : \E e \in Sides : \A a \in sub[k] : On(lt, e, a, m)
<1> DEFINE Holds(k) == \A m \in A \ sub[k] : \E e \in Sides : \A a \in sub[k] : On(lt, e, a, m)
           P == { i \in Nat : \A k \in A : Cardinality(sub[k]) + i >= NODES => Holds(k) }
<1>1. ASSUME NEW k \in A, t.parent[k] \in A => Holds(t.parent[k]) PROVE Holds(k)
  <2>1. t.parent[k] \in A \cup {root} /\ root \notin A
    BY ShapeFacts
  <2>2. CASE t.parent[k] = root
    <3>1. k = t.left[root]
      BY <1>1, <2>2, TopFacts
    <3>2. sub[t.left[root]] = A
      BY DEF Shaped, Search
    <3> QED  BY <3>1, <3>2
  <2>3. CASE t.parent[k] \in A
    <3> DEFINE p == t.parent[k]
               e == Side(t, k)
               o == Opposite(e)
    <3>1. e \in Sides /\ o \in Sides /\ t[e][p] = k /\ Opposite(o) = e
      BY SideFacts, ShapeFacts
    <3> HIDE DEF e, o, p
    <3>2. p \in A /\ Holds(p)
      BY <1>1, <2>3 DEF p
    <3>3. /\ sub[k] \subseteq sub[p] /\ sub[p] = {p} \cup sub[k] \cup sub[t[o][p]]
          /\ \A a \in sub[k] : a \in A /\ On(lt, e, a, p)
          /\ \A m \in sub[t[o][p]] : m \in A /\ On(lt, o, m, p)
      BY <3>1, <3>2, ChildOn DEF Shaped, o
    <3>4. ASSUME NEW m \in A \ sub[k]
          PROVE  \E i \in Sides : \A a \in sub[k] : On(lt, i, a, m)
      <4>1. CASE m \notin sub[p]
        BY <3>2, <3>3, <4>1
      <4>2. CASE m = p
        BY <3>1, <3>3, <4>2
      <4>3. CASE m \in sub[t[o][p]]
        <5>1. On(lt, e, p, m)
          BY <3>1, <3>2, <3>3, <4>3, OnFacts DEF Shaped
        <5>2. \A a \in sub[k] : On(lt, e, a, m)
          BY <3>1, <3>2, <3>3, <5>1, OnFacts DEF Shaped
        <5> QED  BY <3>1, <5>2
      <4> QED  BY <3>3, <4>1, <4>2, <4>3
    <3> QED  BY <3>4
  <2> QED  BY <2>1, <2>2, <2>3
<1>2. \A k \in A : /\ Cardinality(sub[k]) \in Nat /\ Cardinality(sub[k]) <= NODES
                   /\ t.parent[k] \in A =>
                        Cardinality(sub[k]) + 1 <= Cardinality(sub[t.parent[k]])
  BY SubGrows
<1> HIDE DEF Holds
<1>3. 0 \in P
  <2>1. ASSUME NEW k \in A, Cardinality(sub[k]) + 0 >= NODES PROVE Holds(k)
    <3>1. t.parent[k] \notin A
      BY <1>2, <2>1, Names
    <3> QED  BY <1>1, <3>1
  <2> QED  BY <2>1
<1>4. ASSUME NEW i \in Nat, i \in P PROVE i + 1 \in P
  <2>1. ASSUME NEW k \in A, Cardinality(sub[k]) + (i + 1) >= NODES PROVE Holds(k)
    <3>1. ASSUME t.parent[k] \in A PROVE Holds(t.parent[k])
      <4>1. Cardinality(sub[t.parent[k]]) + i >= NODES
        BY <1>2, <2>1, <3>1, Names
      <4> QED  BY <1>4, <3>1, <4>1
    <3> QED  BY <1>1, <3>1
  <2> QED  BY <2>1
<1>5. Nat \subseteq P
  <2> HIDE DEF P
  <2> QED  BY <1>3, <1>4, AllReached
<1>6. \A k \in A : Holds(k)
  <2>1. NODES \in P
    BY <1>5, Names
  <2> QED  BY <1>2, <2>1, Names
<1> QED  BY <1>6 DEF Holds

(* y is the last node of the subtree of k in direction d. *)
LastIn(t, A, sub, lt, d, k, y) ==
  /\ y \in A /\ y \in sub[k] /\ t[d][y] = nil
  /\ \A m \in sub[k] : m # y => On(lt, Opposite(d), m, y)

(* The last node of a subtree is that of its subtree on that side, if it    *)
(* has one.                                                                 *)
LEMMA LastStep ==
  ASSUME NEW t, NEW A, NEW lt, NEW sub, Shaped(t, A, lt, sub),
         NEW d \in Sides, NEW k \in A
  PROVE  /\ t[d][k] = nil => LastIn(t, A, sub, lt, d, k, k)
         /\ t[d][k] # nil =>
              /\ t[d][k] \in A /\ Cardinality(sub[t[d][k]]) + 1 <= Cardinality(sub[k])
              /\ \A y : LastIn(t, A, sub, lt, d, t[d][k], y) => LastIn(t, A, sub, lt, d, k, y)
<1> DEFINE c == t[d][k]
           o == Opposite(d)
<1>1. /\ sub[k] = {k} \cup sub[c] \cup sub[t[o][k]] /\ k \in sub[k]
      /\ \A m \in sub[c] : m \in A /\ On(lt, d, m, k)
      /\ \A m \in sub[t[o][k]] : m \in A /\ On(lt, o, m, k)
      /\ o \in Sides /\ Opposite(o) = d
  BY SideFacts, ChildOn DEF Shaped
<1>2. sub[nil] = {}
  BY DEF Shaped, Search
<1>3. CASE c = nil
  BY <1>1, <1>2, <1>3 DEF LastIn
<1>4. CASE c # nil
  <2>1. c \in A /\ t.parent[c] = k
    BY <1>4, ShapeFacts
  <2>2. Cardinality(sub[c]) + 1 <= Cardinality(sub[k])
    BY <2>1, SubGrows
  <2> HIDE DEF c, o
  <2>3. ASSUME NEW y, LastIn(t, A, sub, lt, d, c, y)
        PROVE  LastIn(t, A, sub, lt, d, k, y)
    <3>1. y \in A /\ y \in sub[c] /\ t[d][y] = nil
          /\ \A m \in sub[c] : m # y => On(lt, o, m, y)
      BY <2>3 DEF LastIn, o
    <3>2. On(lt, o, k, y)
      BY <1>1, <3>1, OnFacts DEF Shaped
    <3>3. \A m \in sub[t[o][k]] : On(lt, o, m, y)
      BY <1>1, <3>1, <3>2, OnFacts DEF Shaped
    <3>4. \A m \in sub[k] : m # y => On(lt, o, m, y)
      BY <1>1, <3>1, <3>2, <3>3
    <3> QED  BY <1>1, <3>1, <3>4 DEF LastIn, o
  <2> QED  BY <1>4, <2>1, <2>2, <2>3 DEF c
<1> QED  BY <1>3, <1>4

(* last[i][y] is the node that i turns down from y in direction d lead to.  *)
Descent(t, d, last) ==
  /\ last \in [Nat -> [Nodes \cup {root} -> Nodes \cup {root}]]
  /\ \A y \in Nodes \cup {root} : last[0][y] = y /\ Furthest(t, d, y) = last[NODES][y]
  /\ \A i \in Nat : \A y \in Nodes \cup {root} :
       last[i + 1][y] = IF t[d][y] = nil THEN y ELSE last[i][t[d][y]]

(* The recursive function of Furthest is defined, whatever the links are.   *)
LEMMA DescentExists ==
  ASSUME NEW t \in Tree, NEW d \in Sides
  PROVE  \E last : Descent(t, d, last)
<1> DEFINE Y == Nodes \cup {root}
           S == [Y -> Y]
           Up(f) == [y \in Y |-> IF t[d][y] = nil THEN y ELSE f[t[d][y]]]
           F == [f \in S |-> Up(f)]
           here == [y \in Y |-> y]
           last[i \in Nat] ==
             [y \in Nodes \cup {root} |->
                IF i = 0 \/ t[d][y] = nil THEN y ELSE last[i - 1][t[d][y]]]
<1>1. \A y \in Y : t[d][y] # nil => t[d][y] \in Y
  <2>1. t[d] \in [N -> N]
    BY TreeFields
  <2> QED  BY <2>1 DEF N
<1>2. here \in S /\ F \in [S -> S]
  <2>1. \A f \in S : Up(f) \in S
    BY <1>1
  <2> HIDE DEF Up
  <2> QED  BY <2>1
<1> HIDE DEF S, F, here
<1>3. PICK g : Iterates(g, S, F, here)
  BY <1>2, Iteration, Zenon
<1>4. g = [i \in Nat |-> [y \in Y |-> IF i = 0 \/ t[d][y] = nil THEN y ELSE g[i - 1][t[d][y]]]]
  <2>1. g \in [Nat -> S] /\ g[0] = here /\ \A i \in Nat : g[i + 1] = F[g[i]]
    BY <1>3 DEF Iterates
  <2>2. ASSUME NEW i \in Nat
        PROVE  g[i] = [y \in Y |-> IF i = 0 \/ t[d][y] = nil THEN y ELSE g[i - 1][t[d][y]]]
    <3>1. CASE i = 0
      BY <2>1, <3>1 DEF here
    <3>2. CASE i # 0
      <4>1. i - 1 \in Nat /\ (i - 1) + 1 = i
        BY <3>2
      <4>2. g[i - 1] \in S /\ g[i] = F[g[i - 1]]
        BY <2>1, <4>1
      <4>3. g[i] = Up(g[i - 1])
        BY <4>2 DEF F
      <4> QED  BY <3>2, <4>3
    <3> QED  BY <3>1, <3>2
  <2>3. g = [i \in Nat |-> g[i]]
    BY <2>1
  <2> QED  BY <2>2, <2>3
<1>5. last = CHOOSE f : f = [i \in Nat |->
               [y \in Y |-> IF i = 0 \/ t[d][y] = nil THEN y ELSE f[i - 1][t[d][y]]]]
  BY DEF last
<1>6. \A r : Furthest(t, d, r) = last[NODES][r]
  BY DEF Furthest, last
<1> HIDE DEF last, Up, Y
<1>7. last = [i \in Nat |->
               [y \in Y |-> IF i = 0 \/ t[d][y] = nil THEN y ELSE last[i - 1][t[d][y]]]]
  BY <1>4, <1>5
<1>8. /\ \A y \in Y : last[0][y] = y
      /\ \A i \in Nat : \A y \in Y :
           last[i + 1][y] = IF t[d][y] = nil THEN y ELSE last[i][t[d][y]]
  <2>1. \A y \in Y : last[0][y] = y
    BY <1>7
  <2>2. ASSUME NEW i \in Nat, NEW y \in Y
        PROVE  last[i + 1][y] = IF t[d][y] = nil THEN y ELSE last[i][t[d][y]]
    <3>1. i + 1 \in Nat /\ i + 1 # 0 /\ (i + 1) - 1 = i
      OBVIOUS
    <3> QED  BY <1>7, <3>1
  <2> QED  BY <2>1, <2>2
<1>9. last \in [Nat -> S]
  <2> DEFINE P == { i \in Nat : last[i] \in S }
  <2>1. 0 \in P
    BY <1>2, <1>7 DEF here
  <2>2. ASSUME NEW i \in Nat, i \in P PROVE i + 1 \in P
    <3>1. last[i] \in [Y -> Y]
      BY <2>2 DEF S
    <3>2. last[i + 1] = [y \in Y |-> IF t[d][y] = nil THEN y ELSE last[i][t[d][y]]]
      <4>1. i + 1 \in Nat /\ i + 1 # 0 /\ (i + 1) - 1 = i
        OBVIOUS
      <4> QED  BY <1>7, <4>1
    <3>3. last[i + 1] \in [Y -> Y]
      BY <1>1, <3>1, <3>2
    <3> QED  BY <3>3 DEF S
  <2>3. Nat \subseteq P
    <3> HIDE DEF P
    <3> QED  BY <2>1, <2>2, AllReached
  <2> QED  BY <1>7, <2>3
<1>10. Descent(t, d, last)
  BY <1>6, <1>8, <1>9 DEF Descent, S, Y
<1> QED  BY <1>10

(* The node a walk down in direction d ends at is the last of its subtree. *)
LEMMA FurthestFound ==
  ASSUME NEW t, NEW A, NEW lt, NEW sub, Shaped(t, A, lt, sub),
         NEW d \in Sides, NEW r \in A \cup {root}
  PROVE  /\ r \in A => LastIn(t, A, sub, lt, d, r, Furthest(t, d, r))
         /\ r = root /\ d = "left" /\ A # {} =>
              LastIn(t, A, sub, lt, d, t.left[root], Furthest(t, d, r))
<1> DEFINE Y == Nodes \cup {root}
<1>1. /\ \A y \in Y : t[d][y] # nil => t[d][y] \in Y
      /\ A \subseteq Y /\ root \in Y /\ root \notin A
  <2>1. t[d] \in [N -> N]
    BY ShapeFacts, TreeFields
  <2>2. A \subseteq Nodes
    BY DEF Shaped, Links
  <2> QED  BY <2>1, <2>2, ShapeFacts DEF N
<1>2. PICK last : Descent(t, d, last)
  BY ShapeFacts, DescentExists
<1>3. Furthest(t, d, r) = last[NODES][r]
  BY <1>1, <1>2 DEF Descent
<1>4. /\ \A y \in Y : last[0][y] = y
      /\ \A i \in Nat : \A y \in Y :
           last[i + 1][y] = IF t[d][y] = nil THEN y ELSE last[i][t[d][y]]
  BY <1>2 DEF Descent
<1> HIDE DEF Y
<1>5. \A n \in A : Cardinality(sub[n]) \in Nat /\ Cardinality(sub[n]) # 0
                   /\ Cardinality(sub[n]) <= NODES
  <2>1. \A n \in A : n \in sub[n] /\ IsFiniteSet(sub[n]) /\ Cardinality(sub[n]) \in Nat
                     /\ Cardinality(sub[n]) <= NODES
    BY SubGrows
  <2> QED  BY <2>1, FS_EmptySet
<1> DEFINE P == { i \in Nat : \A k \in A : Cardinality(sub[k]) <= i + 1 =>
                                LastIn(t, A, sub, lt, d, k, last[i][k]) }
<1>6. 0 \in P
  <2>1. ASSUME NEW k \in A, Cardinality(sub[k]) <= 0 + 1
        PROVE  LastIn(t, A, sub, lt, d, k, last[0][k])
    <3>1. t[d][k] = nil
      BY <1>5, <2>1, LastStep
    <3> QED  BY <1>1, <1>4, <3>1, LastStep
  <2> QED  BY <2>1
<1>7. ASSUME NEW i \in Nat, i \in P PROVE i + 1 \in P
  <2>1. ASSUME NEW k \in A, Cardinality(sub[k]) <= (i + 1) + 1
        PROVE  LastIn(t, A, sub, lt, d, k, last[i + 1][k])
    <3>1. CASE t[d][k] = nil
      <4>1. last[i + 1][k] = k
        BY <1>1, <1>4, <3>1
      <4> QED  BY <3>1, <4>1, LastStep
    <3>2. CASE t[d][k] # nil
      <4>1. t[d][k] \in A /\ Cardinality(sub[t[d][k]]) + 1 <= Cardinality(sub[k])
        BY <3>2, LastStep
      <4>2. Cardinality(sub[t[d][k]]) <= i + 1
        BY <1>5, <2>1, <4>1
      <4>3. LastIn(t, A, sub, lt, d, t[d][k], last[i][t[d][k]])
        BY <1>7, <4>1, <4>2
      <4>4. last[i + 1][k] = last[i][t[d][k]]
        BY <1>1, <1>4, <3>2
      <4> QED  BY <3>2, <4>3, <4>4, LastStep
    <3> QED  BY <3>1, <3>2
  <2> QED  BY <2>1
<1>8. Nat \subseteq P
  <2> HIDE DEF P
  <2> QED  BY <1>6, <1>7, AllReached
<1>9. NODES \in Nat /\ NODES # 0 /\ NODES - 1 \in Nat /\ (NODES - 1) + 1 = NODES
  BY RBTreeAssumption
<1>10. CASE r \in A
  <2>1. NODES \in P /\ Cardinality(sub[r]) <= NODES + 1
    BY <1>5, <1>8, <1>9, <1>10
  <2> QED  BY <1>1, <1>3, <1>10, <2>1
<1>11. CASE r = root /\ d = "left" /\ A # {}
  <2>1. t.left = t["left"] /\ t.left[root] \in A /\ t.left[root] # nil
    BY <1>11, TopFacts, ShapeFacts
  <2>2. Furthest(t, d, r) = last[NODES - 1][t.left[root]]
    BY <1>1, <1>3, <1>4, <1>9, <1>11, <2>1
  <2>3. NODES - 1 \in P /\ Cardinality(sub[t.left[root]]) <= (NODES - 1) + 1
    BY <1>5, <1>8, <1>9, <2>1
  <2> QED  BY <1>1, <1>11, <2>1, <2>2, <2>3
<1> QED  BY <1>1, <1>10, <1>11

(* The node unlinked for z has a child of nil, and no node is between the   *)
(* two in the order.                                                        *)
LEMMA UnlinkedFacts ==
  ASSUME NEW t, NEW A, NEW lt, NEW sub, Shaped(t, A, lt, sub), NEW z \in A,
         NEW y, y = Unlinked(t, z)
  PROVE  /\ y \in A /\ (t.left[y] = nil \/ t.right[y] = nil)
         /\ y # z => \A e \in Sides : \A m \in A : m # y /\ m # z =>
                       (On(lt, e, m, z) <=> On(lt, e, m, y))
<1>1. CASE t.left[z] = nil \/ t.right[z] = nil
  BY <1>1 DEF Unlinked
<1>2. CASE ~(t.left[z] = nil \/ t.right[z] = nil)
  <2> DEFINE r == t.right[z]
  <2>1. /\ "left" \in Sides /\ "right" \in Sides /\ Opposite("left") = "right"
        /\ Opposite("right") = "left" /\ t.left = t["left"] /\ t.right = t["right"]
        /\ \A e \in Sides : e = "left" \/ e = "right"
    BY ShapeFacts, TreeFields, SideFacts DEF Opposite
  <2>2. y = Furthest(t, "left", r)
    BY <1>2, <2>1 DEF Unlinked, TreeSuccessor, Neighbour
  <2>3. r \in A
    BY <1>2, <2>1, ShapeFacts
  <2>4. /\ y \in A /\ y \in sub[r] /\ t["left"][y] = nil
        /\ \A m \in sub[r] : m # y => On(lt, "right", m, y)
    BY <2>1, <2>2, <2>3, FurthestFound DEF LastIn
  <2>5. /\ sub[z] = {z} \cup sub[t["left"][z]] \cup sub[r]
        /\ z \in sub[z] /\ y \in sub[z] /\ sub[z] \subseteq A
        /\ \A m \in sub[t["left"][z]] : On(lt, "left", m, z)
        /\ On(lt, "right", y, z) /\ y # z
    BY <2>1, <2>4, ChildOn, SubGrows DEF Shaped
  <2>6. /\ \A e \in Sides : \A a, b \in A :
              /\ On(lt, Opposite(e), a, b) <=> On(lt, e, b, a)
              /\ ~(On(lt, e, a, b) /\ On(lt, e, b, a))
              /\ ~On(lt, e, a, a)
              /\ a = b \/ On(lt, e, a, b) \/ On(lt, e, b, a)
        /\ \A e \in Sides : \A a, b, c \in A :
              On(lt, e, a, b) /\ On(lt, e, b, c) => On(lt, e, a, c)
    BY OnFacts DEF Shaped
  <2> HIDE DEF r
  <2>7. ASSUME NEW m \in A, m # y, m # z, On(lt, "right", m, z), On(lt, "right", y, m)
        PROVE  FALSE
    <3>1. CASE m \in sub[z]
      <4>1. m \notin sub[t["left"][z]]
        BY <2>1, <2>5, <2>6, <2>7
      <4>2. m \in sub[r]
        BY <2>5, <2>7, <3>1, <4>1
      <4>3. On(lt, "right", m, y)
        BY <2>4, <2>7, <4>2
      <4> QED  BY <2>1, <2>4, <2>6, <2>7, <4>3
    <3>2. CASE m \notin sub[z]
      <4>1. PICK e \in Sides : On(lt, e, z, m) /\ On(lt, e, y, m)
        BY <2>5, <3>2, Apart
      <4>2. CASE e = "left"
        BY <2>1, <2>4, <2>6, <2>7, <4>1, <4>2
      <4>3. CASE e = "right"
        BY <2>1, <2>4, <2>6, <2>7, <4>1, <4>3
      <4> QED  BY <2>1, <4>2, <4>3
    <3> QED  BY <3>1, <3>2
  <2>8. ASSUME NEW m \in A, m # y, m # z
        PROVE  On(lt, "right", m, z) <=> On(lt, "right", m, y)
    <3>1. On(lt, "right", m, y) => On(lt, "right", m, z)
      BY <2>1, <2>4, <2>5, <2>6, <2>8
    <3>2. On(lt, "right", m, z) => On(lt, "right", m, y)
      BY <2>1, <2>4, <2>6, <2>7, <2>8
    <3> QED  BY <3>1, <3>2
  <2>9. ASSUME NEW m \in A, m # y, m # z
        PROVE  On(lt, "left", m, z) <=> On(lt, "left", m, y)
    BY <2>1, <2>4, <2>6, <2>8, <2>9
  <2> QED  BY <2>1, <2>4, <2>8, <2>9
<1> QED  BY <1>1, <1>2

-----------------------------------------------------------------------------
(* A part of an order is one. *)
LEMMA SubOrder ==
  ASSUME NEW lt, NEW A, NEW B, B \subseteq A
  PROVE  /\ Order(lt, A) => Order(lt, B)
         /\ KeyOrder(lt, A) => KeyOrder(lt, B)
BY DEF Order, KeyOrder

(* u is t with x on side d of p. *)
Relinked(u, t, x, p, d) ==
  /\ u \in Tree /\ u.red = t.red
  /\ \A n \in N : u.parent[n] = IF n = x THEN p ELSE t.parent[n]
  /\ \A e \in Sides : \A n \in N : u[e][n] = IF n = p /\ e = d THEN x ELSE t[e][n]

(* What each link is after the child of y has taken its place.              *)
LEMMA RelinkedEffect ==
  ASSUME NEW t \in Tree, NEW x \in N, NEW p \in N, NEW d \in Sides,
         NEW u, u = [t EXCEPT !.parent[x] = p, ![d][p] = x]
  PROVE  Relinked(u, t, x, p, d)
<1> DEFINE t1 == [t EXCEPT !.parent[x] = p]
           t2 == WithChild(t1, d, p, x)
<1>1. u = t2
  BY Zenon DEF WithChild
<1>2. /\ t1 \in Tree /\ t1.parent = [t.parent EXCEPT ![x] = p] /\ t1.red = t.red
      /\ \A e \in Sides : t1[e] = t[e]
  BY ParentSet
<1> HIDE DEF t1
<1>3. /\ t2 \in Tree /\ t2.parent = t1.parent /\ t2.red = t1.red
      /\ t2[d] = [t1[d] EXCEPT ![p] = x] /\ t2[Opposite(d)] = t1[Opposite(d)]
  <2>1. t1 \in Tree
    BY <1>2
  <2> QED  BY <2>1, ChildSet
<1> HIDE DEF t2
<1>4. t.parent \in [N -> N] /\ \A e \in Sides : t[e] \in [N -> N]
  BY TreeFields
<1>5. \A n \in N : t2.parent[n] = IF n = x THEN p ELSE t.parent[n]
  BY <1>2, <1>3, <1>4
<1>6. ASSUME NEW e \in Sides, NEW n \in N
      PROVE  t2[e][n] = IF n = p /\ e = d THEN x ELSE t[e][n]
  <2>1. CASE e = d
    BY <1>2, <1>3, <1>4, <2>1
  <2>2. CASE e # d
    <3>1. e = Opposite(d)
      BY <2>2, SideFacts
    <3> QED  BY <1>2, <1>3, <2>2, <3>1
  <2> QED  BY <2>1, <2>2
<1>7. Relinked(t2, t, x, p, d)
  BY <1>2, <1>3, <1>5, <1>6 DEF Relinked
<1> QED  BY <1>1, <1>7, Zenon

(* A node with a child of nil is replaced by its other child. *)
LEMMA SpliceShaped ==
  ASSUME NEW t, NEW A, NEW lt, NEW sub, Shaped(t, A, lt, sub), NEW y \in A,
         NEW o \in Sides, t[o][y] = nil, NEW c \in Sides, c = Opposite(o),
         NEW x, x = t[c][y], NEW p, p = t.parent[y], NEW d, d = Side(t, y),
         NEW u, Relinked(u, t, x, p, d),
         NEW f, f = [n \in N |-> sub[n] \ {y}]
  PROVE  Shaped(u, A \ {y}, lt, f)
<1> DEFINE B == A \ {y}
<1>1. /\ t \in Tree /\ A \subseteq N /\ nil \in N /\ root \in N /\ y \in N
      /\ nil \notin A /\ root \notin A /\ nil # root /\ A \subseteq Nodes
      /\ t.left = t["left"] /\ t["right"][root] = nil
      /\ sub \in [N -> SUBSET A] /\ sub[nil] = {} /\ sub[t["left"][root]] = A
  <2>1. t["right"][root] = nil /\ t.left = t["left"] /\ t \in Tree
    BY ShapeFacts, TreeFields
  <2>2. sub \in [N -> SUBSET A] /\ sub[nil] = {} /\ sub[t.left[root]] = A /\ A \subseteq Nodes
    BY DEF Shaped, Search, Links
  <2> QED  BY <2>1, <2>2, ShapeFacts
<1>2. /\ \A e \in Sides : \A n \in A \cup {root} :
           /\ t[e][n] \in N
           /\ t[e][n] # nil => t[e][n] \in A /\ t.parent[t[e][n]] = n
           /\ t[e][n] # n
      /\ \A n \in A : /\ t.parent[n] \in A \cup {root} /\ t.parent[n] \in N
                      /\ \E e \in Sides : t[e][t.parent[n]] = n
      /\ \A e \in Sides : t[e][nil] = nil
      /\ \A e, i \in Sides : \A n \in A \cup {root} :
           t[e][n] # nil /\ t[i][n] = t[e][n] => i = e
  BY ShapeFacts
<1>3. /\ p \in A \cup {root} /\ p \in N /\ p # y /\ p # nil
      /\ d \in Sides /\ t[d][p] = y
      /\ p = root => d = "left"
  <2>1. p = root => d = "left"
    BY SideIs DEF Shaped
  <2> QED  BY <1>1, <2>1, ShapeFacts
<1>4. x \in N /\ x # y /\ (x # nil => x \in A /\ t.parent[x] = y)
  BY <1>1, <1>2
<1>5. /\ "left" \in Sides /\ "right" \in Sides /\ "left" # "right"
      /\ \A e \in Sides : e = o \/ e = c
  BY SideFacts
<1>6. /\ u \in Tree
      /\ \A n \in N : u.parent[n] = IF n = x THEN p ELSE t.parent[n]
      /\ \A e \in Sides : \A n \in N : u[e][n] = IF n = p /\ e = d THEN x ELSE t[e][n]
      /\ u.left = u["left"] /\ u.right = u["right"]
  BY TreeFields DEF Relinked
<1>7. Links(u, B)
  <2>1. B \subseteq Nodes
    BY <1>1
  <2>2. u.right[root] = nil /\ \A e \in Sides : u[e][nil] = nil
    BY <1>1, <1>2, <1>3, <1>5, <1>6
  <2>3. ASSUME NEW e \in Sides, NEW n \in B \cup {root}, u[e][n] # nil
        PROVE  u[e][n] \in B /\ u.parent[u[e][n]] = n
    <3>1. n \in A \cup {root} /\ n \in N /\ n # y
      BY <1>1, <2>3
    <3>2. CASE n = p /\ e = d
      BY <1>4, <1>6, <2>3, <3>1, <3>2
    <3>3. CASE ~(n = p /\ e = d)
      <4>1. u[e][n] = t[e][n]
        BY <1>6, <3>1, <3>3
      <4>2. t[e][n] \in A /\ t.parent[t[e][n]] = n /\ t[e][n] \in N
        BY <1>2, <2>3, <3>1, <4>1
      <4>3. t[e][n] # y
        BY <1>1, <1>2, <1>3, <3>1, <3>3, <4>2
      <4>4. t[e][n] # x
        BY <1>1, <1>4, <3>1, <4>2
      <4> QED  BY <1>6, <4>1, <4>2, <4>3, <4>4
    <3> QED  BY <3>2, <3>3
  <2>4. ASSUME NEW n \in B
        PROVE  u.parent[n] \in B \cup {root} /\ \E e \in Sides : u[e][u.parent[n]] = n
    <3>1. n \in A /\ n \in N /\ n # y /\ n # nil
      BY <1>1
    <3>2. CASE n = x
      <4>1. u.parent[n] = p /\ u[d][p] = n
        BY <1>3, <1>6, <3>1, <3>2
      <4> QED  BY <1>3, <4>1
    <3>3. CASE n # x
      <4>1. u.parent[n] = t.parent[n]
        BY <1>6, <3>1, <3>3
      <4>2. t.parent[n] \in A \cup {root} /\ t.parent[n] \in N
        BY <1>2, <3>1
      <4>3. PICK e \in Sides : t[e][t.parent[n]] = n
        BY <1>2, <3>1
      <4>4. t.parent[n] # y
        BY <1>5, <3>1, <3>3, <4>3
      <4>5. u[e][t.parent[n]] = n
        BY <1>3, <1>6, <3>1, <4>2, <4>3
      <4> QED  BY <4>1, <4>2, <4>4, <4>5
    <3> QED  BY <3>2, <3>3
  <2> QED  BY <1>6, <2>1, <2>2, <2>3, <2>4 DEF Links
<1>8. Order(lt, B)
  BY SubOrder DEF Shaped
<1>9. Search(u, B, lt, f)
  <2>1. f \in [N -> SUBSET B] /\ f[nil] = {} /\ \A n \in N : f[n] = sub[n] \ {y}
    BY <1>1
  <2>2. /\ sub[y] = {y} \cup sub[x] /\ y \notin sub[x]
    <3>1. sub[y] = {y} \cup sub[x] \cup sub[t[Opposite(c)][y]] /\ y \notin sub[x]
      BY ChildOn DEF Shaped
    <3>2. t[Opposite(c)][y] = nil
      BY SideFacts
    <3> QED  BY <1>1, <3>1, <3>2
  <2>3. \A e \in Sides : \A n \in B \cup {root} : f[u[e][n]] = sub[t[e][n]] \ {y}
    <3> SUFFICES ASSUME NEW e \in Sides, NEW n \in B \cup {root}
                 PROVE  f[u[e][n]] = sub[t[e][n]] \ {y}
      OBVIOUS
    <3>1. n \in A \cup {root} /\ n \in N /\ n # y
      BY <1>1
    <3>2. CASE n = p /\ e = d
      <4>1. u[e][n] = x /\ t[e][n] = y
        BY <1>3, <1>6, <3>1, <3>2
      <4> QED  BY <1>4, <2>1, <2>2, <4>1
    <3>3. CASE ~(n = p /\ e = d)
      <4>1. u[e][n] = t[e][n] /\ t[e][n] \in N
        BY <1>2, <1>6, <3>1, <3>3
      <4> QED  BY <2>1, <4>1
    <3> QED  BY <3>2, <3>3
  <2>4. f[u.left[root]] = B
    <3>1. u.left[root] = u["left"][root] /\ "left" \in Sides /\ root \in B \cup {root}
      BY <1>5, <1>6
    <3>2. f[u["left"][root]] = sub[t["left"][root]] \ {y}
      BY <2>3, <3>1
    <3> QED  BY <1>1, <3>1, <3>2
  <2>5. ASSUME NEW n \in B
        PROVE  f[n] = {n} \cup f[u["left"][n]] \cup f[u["right"][n]]
    <3>1. n \in A /\ n \in N /\ n # y
      BY <1>1
    <3>2. sub[n] = {n} \cup sub[t["left"][n]] \cup sub[t["right"][n]]
      BY <3>1 DEF Shaped, Search
    <3>3. /\ f[u["left"][n]] = sub[t["left"][n]] \ {y}
          /\ f[u["right"][n]] = sub[t["right"][n]] \ {y}
      BY <1>5, <2>3
    <3> QED  BY <2>1, <3>1, <3>2, <3>3
  <2>6. ASSUME NEW e \in Sides, NEW n \in B, NEW m \in f[u[e][n]]
        PROVE  On(lt, e, m, n)
    <3>1. n \in A /\ m \in sub[t[e][n]]
      BY <2>3
    <3> QED  BY <3>1 DEF Shaped, Search
  <2> QED  BY <2>1, <2>4, <2>5, <2>6 DEF Search
<1> QED  BY <1>7, <1>8, <1>9 DEF Shaped

(* Unlinking a node with at most one child, and the fix-up if it was        *)
(* black, keep the invariant for the other nodes.                           *)
LEMMA SpliceOutGood ==
  ASSUME NEW t, NEW A, NEW lt, Balanced(t, A, lt), ~t.red[t.left[root]],
         NEW y \in A, t.left[y] = nil \/ t.right[y] = nil
  PROVE  LET u == SpliceOut(t, y)
         IN  Balanced(u, A \ {y}, lt) /\ ~u.red[u.left[root]]
<1> DEFINE o == IF t.left[y] = nil THEN "left" ELSE "right"
           c == Opposite(o)
           x == IF t.left[y] = nil THEN t.right[y] ELSE t.left[y]
           p == t.parent[y]
           d == Side(t, y)
           u == [t EXCEPT !.parent[x] = p, ![d][p] = x]
           B == A \ {y}
<1>1. PICK sub : Shaped(t, A, lt, sub)
  BY DEF Balanced
<1>2. PICK bh : Heights(t, A, bh, nil, "left")
  BY DEF Balanced
<1>3. Colours(t, A, nil)
  BY DEF Balanced
<1> DEFINE f == [n \in N |-> sub[n] \ {y}]
<1>4. /\ t \in Tree /\ A \subseteq N /\ nil \in N /\ root \in N /\ y \in N
      /\ nil \notin A /\ root \notin A /\ nil # root
      /\ t.left = t["left"] /\ t.right = t["right"]
  BY <1>1, ShapeFacts, TreeFields
<1>5. o \in Sides /\ c \in Sides /\ t[o][y] = nil /\ \A e \in Sides : e = o \/ e = c
  BY <1>4, SideFacts DEF Opposite
<1>6. x = t[c][y]
  BY <1>4 DEF Opposite
<1>7. SpliceOut(t, y) = IF t.red[y] THEN u ELSE DeleteFixUp(u, x)
  BY DEF SpliceOut
<1> HIDE DEF o, x
<1>8. /\ p \in A \cup {root} /\ p \in N /\ p # y /\ p # nil
      /\ d \in Sides /\ t[d][p] = y
      /\ p = root => d = "left"
      /\ p = root <=> y = t.left[root]
  <2>1. p = root => d = "left"
    BY <1>1, SideIs DEF Shaped
  <2>2. p = root <=> y = t.left[root]
    BY <1>1, TopFacts
  <2> QED  BY <1>1, <1>4, <2>1, <2>2, ShapeFacts
<1>9. /\ x \in N /\ x # y /\ x \in B \cup {nil} /\ (x # nil => x \in A /\ t.parent[x] = y)
  BY <1>1, <1>4, <1>5, <1>6, ShapeFacts
<1>10. Relinked(u, t, x, p, d)
  <2> HIDE DEF p, d
  <2> QED  BY <1>4, <1>8, <1>9, RelinkedEffect
<1> HIDE DEF u, p, d
<1>11. Shaped(u, B, lt, f)
  BY <1>1, <1>5, <1>6, <1>10, SpliceShaped DEF c, p, d
<1> HIDE DEF f, c
<1>12. /\ u \in Tree /\ u.red = t.red
       /\ \A n \in N : u.parent[n] = IF n = x THEN p ELSE t.parent[n]
       /\ \A e \in Sides : \A n \in N : u[e][n] = IF n = p /\ e = d THEN x ELSE t[e][n]
       /\ u.left = u["left"] /\ "left" \in Sides /\ "left" # "right"
  BY <1>10, TreeFields, SideFacts DEF Relinked
<1>13. u.left[root] = IF p = root THEN x ELSE t.left[root]
  BY <1>4, <1>8, <1>12
<1>14. /\ bh \in [N -> Nat] /\ bh[nil] = 0
       /\ \A e \in Sides : \A n \in A : bh[n] = bh[t[e][n]] + (IF t.red[n] THEN 0 ELSE 1)
  <2>1. bh \in [N -> Nat] /\ bh[nil] = 0
    BY <1>2 DEF Heights
  <2>2. ASSUME NEW e \in Sides, NEW n \in A
        PROVE  bh[n] = bh[t[e][n]] + (IF t.red[n] THEN 0 ELSE 1)
    <3>1. n # nil /\ t[e][n] \in N
      BY <1>1, <1>4, ShapeFacts
    <3>2. bh[n] = bh[t[e][n]] + (IF t.red[n] THEN 0 ELSE 1)
                              + (IF n = nil /\ e = "left" THEN 1 ELSE 0)
      BY <1>2 DEF Heights
    <3>3. bh[t[e][n]] \in Nat
      BY <2>1, <3>1
    <3> QED  BY <3>1, <3>2, <3>3
  <2> QED  BY <2>1, <2>2
<1>15. t.red \in [N -> BOOLEAN] /\ ~t.red[nil] /\ ~t.red[root]
       /\ \A n \in A : t.red[n] => ~t.red[t.parent[n]]
  BY <1>3, <1>4, TreeFields DEF Colours
<1>16. bh[y] = bh[x] + (IF t.red[y] THEN 0 ELSE 1)
  BY <1>5, <1>14, <1>6
<1>17. CASE t.red[y]
  <2>1. p # root
    BY <1>8, <1>17
  <2>2. ~u.red[u.left[root]]
    BY <1>12, <1>13, <2>1
  <2>3. Colours(u, B, nil)
    <3> SUFFICES ASSUME NEW n \in B, u.red[n] PROVE ~u.red[u.parent[n]]
      BY <1>12, <1>15 DEF Colours
    <3>1. n \in A /\ n \in N /\ n # nil /\ t.red[n]
      BY <1>4, <1>12
    <3>2. n # x
      BY <1>9, <1>15, <1>17, <3>1
    <3> QED  BY <1>12, <1>15, <3>1, <3>2
  <2>4. Heights(u, B, bh, nil, "left")
    <3> SUFFICES ASSUME NEW e \in Sides, NEW n \in B
                 PROVE  bh[n] = bh[u[e][n]] + (IF u.red[n] THEN 0 ELSE 1)
                                            + (IF n = nil /\ "left" = e THEN 1 ELSE 0)
      BY <1>14 DEF Heights
    <3>1. n \in A /\ n \in N /\ n # nil
      BY <1>4
    <3>2. bh[n] = bh[t[e][n]] + (IF t.red[n] THEN 0 ELSE 1) /\ t[e][n] \in N
      BY <1>1, <1>14, <3>1, ShapeFacts
    <3>3. bh[u[e][n]] = bh[t[e][n]] /\ bh[u[e][n]] \in Nat
      BY <1>8, <1>9, <1>12, <1>14, <1>16, <1>17, <3>1, <3>2
    <3> QED  BY <1>12, <3>1, <3>2, <3>3
  <2> QED  BY <1>7, <1>11, <1>17, <2>2, <2>3, <2>4 DEF Balanced
<1>18. CASE ~t.red[y]
  <2>1. ColoursBut(u, B, x)
    <3> SUFFICES ASSUME NEW n \in B, u.red[n], n # x, u.parent[n] # x
                 PROVE  ~u.red[u.parent[n]]
      BY <1>12, <1>15 DEF ColoursBut
    <3>1. n \in A /\ n \in N /\ t.red[n]
      BY <1>4, <1>12
    <3> QED  BY <1>12, <1>15, <3>1
  <2>2. Heights(u, B, bh, p, d)
    <3> SUFFICES ASSUME NEW e \in Sides, NEW n \in B
                 PROVE  bh[n] = bh[u[e][n]] + (IF u.red[n] THEN 0 ELSE 1)
                                            + (IF n = p /\ e = d THEN 1 ELSE 0)
      BY <1>14 DEF Heights
    <3>1. n \in A /\ n \in N /\ n # nil
      BY <1>4
    <3>2. bh[n] = bh[t[e][n]] + (IF t.red[n] THEN 0 ELSE 1) /\ t[e][n] \in N
      BY <1>1, <1>14, <3>1, ShapeFacts
    <3>3. CASE n = p /\ e = d
      <4>1. bh[u[e][n]] + 1 = bh[t[e][n]] /\ bh[u[e][n]] \in Nat
        BY <1>8, <1>9, <1>12, <1>14, <1>16, <1>18, <3>1, <3>3
      <4> QED  BY <1>12, <3>2, <3>3, <4>1
    <3>4. CASE ~(n = p /\ e = d)
      <4>1. bh[u[e][n]] = bh[t[e][n]] /\ bh[u[e][n]] \in Nat
        BY <1>12, <1>14, <3>1, <3>2, <3>4
      <4> QED  BY <1>12, <3>2, <3>4, <4>1
    <3> QED  BY <3>3, <3>4
  <2>3. u.parent[x] = p /\ u[d][p] = x /\ p \in B \cup {root}
    BY <1>8, <1>9, <1>12
  <2>4. ShortAt(u, B, x, u.parent[x], d)
    BY <1>8, <1>9, <2>2, <2>3 DEF ShortAt
  <2>5. Short(u, B, lt, f, x)
    BY <1>8, <1>11, <2>1, <2>4 DEF Short
  <2>6. ~u.red[u.left[root]] \/ x = u.left[root]
    BY <1>12, <1>13
  <2>7. Opening(<<u, x>>, B, lt, f, u.left[root])
    BY <2>5, <2>6 DEF Opening
  <2>8. Balanced(DeleteFixUp(u, x), B, lt)
        /\ ~DeleteFixUp(u, x).red[DeleteFixUp(u, x).left[root]]
    BY <2>7, DeleteFixUpStep
  <2> QED  BY <1>7, <1>18, <2>8
<1> QED  BY <1>17, <1>18

-----------------------------------------------------------------------------
(* w is t with y in the place of z, which is on side s of q. *)
Taken(w, t, y, z, q, s) ==
  /\ w \in Tree
  /\ \A n \in N : w.red[n] <=> IF n = y THEN t.red[z] ELSE t.red[n]
  /\ \A n \in N : w.parent[n] = IF n = t.left[z] \/ n = t.right[z] THEN y
                                ELSE IF n = y THEN q ELSE t.parent[n]
  /\ \A e \in Sides : \A n \in N :
       w[e][n] = IF n = q /\ e = s THEN y ELSE IF n = y THEN t[e][z] ELSE t[e][n]

(* What each link is after y has taken the place of z.                      *)
LEMMA TakenEffect ==
  ASSUME NEW t \in Tree, NEW y \in N, NEW z \in N, NEW q, q = t.parent[z],
         NEW s, s = Side(t, z), s \in Sides
  PROVE  Taken(TakePlace(t, y, z), t, y, z, q, s)
<1> DEFINE l == t.left[z]
           r == t.right[z]
           red == t.red[z]
           t1 == [t EXCEPT !.left[y] = l]
           t2 == [t1 EXCEPT !.right[y] = r]
           t3 == [t2 EXCEPT !.parent[y] = q]
           t4 == [t3 EXCEPT !.red[y] = red]
           t5 == WithChild(t4, s, q, y)
           t6 == [t5 EXCEPT !.parent[l] = y]
           t7 == [t6 EXCEPT !.parent[r] = y]
<1>1. TakePlace(t, y, z) = t7
  BY Zenon DEF TakePlace, WithChild
<1>2. /\ l \in N /\ r \in N /\ q \in N /\ red \in BOOLEAN
      /\ t["left"] \in [N -> N] /\ t["right"] \in [N -> N]
      /\ t.parent \in [N -> N] /\ t.red \in [N -> BOOLEAN]
      /\ t["left"][z] = l /\ t["right"][z] = r
  <2>1. t.left \in [N -> N] /\ t.right \in [N -> N] /\ t.parent \in [N -> N]
        /\ t.red \in [N -> BOOLEAN]
    BY DEF Tree
  <2> QED  BY <2>1, TreeFields
<1>3. t.red[z] <=> red
  OBVIOUS
<1> HIDE DEF l, r, red
<1>4. /\ t1 \in Tree /\ t1.parent = t.parent /\ t1.red = t.red
      /\ t1["left"] = [t["left"] EXCEPT ![y] = l] /\ t1["right"] = t["right"]
  BY <1>2 DEF Tree, t1
<1> HIDE DEF t1
<1>5. /\ t2 \in Tree /\ t2.parent = t.parent /\ t2.red = t.red
      /\ t2["left"] = [t["left"] EXCEPT ![y] = l]
      /\ t2["right"] = [t["right"] EXCEPT ![y] = r]
  BY <1>2, <1>4 DEF Tree, t2
<1> HIDE DEF t2
<1>6. /\ t3 \in Tree /\ t3.parent = [t2.parent EXCEPT ![y] = q] /\ t3.red = t2.red
      /\ \A e \in Sides : t3[e] = t2[e]
  <2>1. t2 \in Tree /\ y \in N /\ q \in N
    BY <1>2, <1>5
  <2> QED  BY <2>1, ParentSet
<1> HIDE DEF t3
<1>7. /\ t4 \in Tree /\ t4.parent = t3.parent /\ t4.red = [t3.red EXCEPT ![y] = red]
      /\ \A e \in Sides : t4[e] = t3[e]
  <2>1. t3 \in Tree /\ y \in N /\ red \in BOOLEAN
    BY <1>2, <1>6
  <2> QED  BY <2>1, ColourSet
<1> HIDE DEF t4
<1>8. /\ t5 \in Tree /\ t5.parent = t4.parent /\ t5.red = t4.red
      /\ t5[s] = [t4[s] EXCEPT ![q] = y] /\ t5[Opposite(s)] = t4[Opposite(s)]
  <2>1. t4 \in Tree /\ s \in Sides /\ q \in N /\ y \in N
    BY <1>2, <1>7
  <2> QED  BY <2>1, ChildSet
<1> HIDE DEF t5
<1>9. /\ t6 \in Tree /\ t6.parent = [t5.parent EXCEPT ![l] = y] /\ t6.red = t5.red
      /\ \A e \in Sides : t6[e] = t5[e]
  <2>1. t5 \in Tree /\ l \in N /\ y \in N
    BY <1>2, <1>8
  <2> QED  BY <2>1, ParentSet
<1> HIDE DEF t6
<1>10. /\ t7 \in Tree /\ t7.parent = [t6.parent EXCEPT ![r] = y] /\ t7.red = t6.red
       /\ \A e \in Sides : t7[e] = t6[e]
  <2>1. t6 \in Tree /\ r \in N /\ y \in N
    BY <1>2, <1>9
  <2> QED  BY <2>1, ParentSet
<1> HIDE DEF t7
<1>11. \A n \in N : t7.red[n] <=> IF n = y THEN red ELSE t.red[n]
  <2>1. t7.red = [t.red EXCEPT ![y] = red]
    BY <1>5, <1>6, <1>7, <1>8, <1>9, <1>10
  <2> HIDE DEF red
  <2> QED  BY <1>2, <2>1
<1>12. \A n \in N : t7.parent[n] = IF n = l \/ n = r THEN y
                                   ELSE IF n = y THEN q ELSE t.parent[n]
  <2>1. t7.parent = [[[t.parent EXCEPT ![y] = q] EXCEPT ![l] = y] EXCEPT ![r] = y]
    BY <1>5, <1>6, <1>7, <1>8, <1>9, <1>10
  <2> QED  BY <1>2, <2>1
<1>13. ASSUME NEW e \in Sides, NEW n \in N
       PROVE  t7[e][n] = IF n = q /\ e = s THEN y ELSE IF n = y THEN t[e][z] ELSE t[e][n]
  <2>1. t7[e] = t5[e] /\ t4[e] = t2[e] /\ t4[e] \in [N -> N]
    BY <1>5, <1>6, <1>7, <1>9, <1>10, TreeFields
  <2>2. t2[e][n] = IF n = y THEN t[e][z] ELSE t[e][n]
    <3>1. CASE e = "left"
      BY <1>2, <1>5, <3>1
    <3>2. CASE e = "right"
      BY <1>2, <1>5, <3>2
    <3> QED  BY <3>1, <3>2, SideFacts
  <2>3. CASE e = s
    BY <1>2, <1>8, <2>1, <2>2, <2>3
  <2>4. CASE e # s
    <3>1. e = Opposite(s)
      BY <2>4, SideFacts
    <3> QED  BY <1>8, <2>1, <2>2, <2>4, <3>1
  <2> QED  BY <2>3, <2>4
<1>14. t7.red[y] \in BOOLEAN
  BY <1>10, TreeFields
<1> QED
  <2> HIDE DEF t7
  <2>1. Taken(t7, t, y, z, q, s)
    BY <1>3, <1>10, <1>11, <1>12, <1>13 DEF Taken, l, r
  <2> QED  BY <1>1, <2>1, Zenon

(* Who takes the place of z in a tree takes it in the order, when nobody is *)
(* between the two.                                                         *)
LEMMA TakenShaped ==
  ASSUME NEW t, NEW B, NEW lt, NEW sub, Shaped(t, B, lt, sub),
         NEW z \in B, NEW y \in Nodes, y \notin B, NEW C, C = (B \ {z}) \cup {y},
         Order(lt, B \cup {y}),
         \A e \in Sides : \A m \in B \ {z} : On(lt, e, m, z) <=> On(lt, e, m, y),
         NEW q, q = t.parent[z], NEW s, s = Side(t, z),
         NEW w, Taken(w, t, y, z, q, s)
  PROVE  \E f : Shaped(w, C, lt, f)
<1> DEFINE R(S) == (S \ {z}) \cup (IF z \in S THEN {y} ELSE {})
           f == [n \in N |-> IF n = y THEN R(sub[z]) ELSE R(sub[n])]
<1>1. /\ t \in Tree /\ B \subseteq N /\ nil \in N /\ root \in N /\ y \in N /\ z \in N
      /\ nil \notin B /\ root \notin B /\ nil # root /\ B \subseteq Nodes
      /\ y # nil /\ y # root /\ y # z /\ z # nil /\ z # root
      /\ t.left = t["left"] /\ t.right = t["right"] /\ t["right"][root] = nil
      /\ sub \in [N -> SUBSET B] /\ sub[nil] = {} /\ sub[t["left"][root]] = B
  <2>1. t["right"][root] = nil /\ t.left = t["left"] /\ t.right = t["right"] /\ t \in Tree
    BY ShapeFacts, TreeFields
  <2>2. sub \in [N -> SUBSET B] /\ sub[nil] = {} /\ sub[t.left[root]] = B /\ B \subseteq Nodes
    BY DEF Shaped, Search, Links
  <2> QED  BY <2>1, <2>2, Names, ShapeFacts
<1>2. /\ \A e \in Sides : \A n \in B \cup {root} :
           /\ t[e][n] \in N
           /\ t[e][n] # nil => t[e][n] \in B /\ t.parent[t[e][n]] = n
           /\ t[e][n] # n
      /\ \A n \in B : /\ t.parent[n] \in B \cup {root} /\ t.parent[n] \in N
                      /\ \E e \in Sides : t[e][t.parent[n]] = n
      /\ \A e \in Sides : t[e][nil] = nil
      /\ \A e, i \in Sides : \A n \in B \cup {root} :
           t[e][n] # nil /\ t[i][n] = t[e][n] => i = e
  BY ShapeFacts
<1>3. /\ q \in B \cup {root} /\ q \in N /\ q # z /\ q # nil /\ q # y
      /\ s \in Sides /\ t[s][q] = z
      /\ q = root => s = "left"
  <2>1. q = root => s = "left"
    BY SideIs DEF Shaped
  <2> QED  BY <1>1, <2>1, ShapeFacts
<1>4. /\ "left" \in Sides /\ "right" \in Sides /\ "left" # "right"
      /\ \A e \in Sides : e = "left" \/ e = "right"
  BY SideFacts
<1>5. /\ w \in Tree
      /\ \A n \in N : w.parent[n] = IF n = t["left"][z] \/ n = t["right"][z] THEN y
                                    ELSE IF n = y THEN q ELSE t.parent[n]
      /\ \A e \in Sides : \A n \in N :
           w[e][n] = IF n = q /\ e = s THEN y ELSE IF n = y THEN t[e][z] ELSE t[e][n]
      /\ w.left = w["left"] /\ w.right = w["right"]
  BY <1>1, TreeFields DEF Taken
<1>6. \A e \in Sides : t[e][z] # y /\ t[e][z] # z /\ t[e][z] \in N
  BY <1>1, <1>2
<1>7. /\ \A e \in Sides : \A n \in (B \ {z}) \cup {root} :
            /\ n \in N /\ n # y /\ n # z
            /\ t[e][n] = z <=> n = q /\ e = s
            /\ w[e][n] = IF t[e][n] = z THEN y ELSE t[e][n]
      /\ \A e \in Sides : w[e][y] = t[e][z]
  <2>1. ASSUME NEW e \in Sides, NEW n \in (B \ {z}) \cup {root}
        PROVE  /\ n \in N /\ n # y /\ n # z
               /\ t[e][n] = z <=> n = q /\ e = s
               /\ w[e][n] = IF t[e][n] = z THEN y ELSE t[e][n]
    <3>1. n \in N /\ n # y /\ n # z /\ n \in B \cup {root}
      BY <1>1
    <3>2. t[e][n] = z => n = q /\ e = s
      BY <1>1, <1>2, <1>3, <3>1
    <3>3. t[e][n] = z <=> n = q /\ e = s
      BY <1>3, <3>2
    <3> QED  BY <1>5, <3>1, <3>3
  <2>2. ASSUME NEW e \in Sides PROVE w[e][y] = t[e][z]
    BY <1>1, <1>3, <1>5
  <2> QED  BY <2>1, <2>2
<1>8. Links(w, C)
  <2>1. C \subseteq Nodes
    BY <1>1
  <2>2. w.right[root] = nil /\ \A e \in Sides : w[e][nil] = nil
    BY <1>1, <1>2, <1>3, <1>4, <1>5
  <2>3. ASSUME NEW e \in Sides, NEW n \in C \cup {root}, w[e][n] # nil
        PROVE  w[e][n] \in C /\ w.parent[w[e][n]] = n
    <3>1. CASE n = y
      <4>1. w[e][n] = t[e][z] /\ t[e][z] \in B /\ t[e][z] # z /\ t[e][z] \in N
        BY <1>2, <1>6, <1>7, <2>3, <3>1
      <4>2. w.parent[t[e][z]] = y
        BY <1>4, <1>5, <4>1
      <4> QED  BY <3>1, <4>1, <4>2
    <3>2. CASE n # y
      <4>1. n \in (B \ {z}) \cup {root} /\ n \in B \cup {root}
        BY <3>2
      <4>2. CASE t[e][n] = z
        <5>1. w[e][n] = y /\ n = q
          BY <1>7, <4>1, <4>2
        <5>2. w.parent[y] = q
          BY <1>1, <1>4, <1>5, <1>6
        <5> QED  BY <5>1, <5>2
      <4>3. CASE t[e][n] # z
        <5>1. w[e][n] = t[e][n]
          BY <1>7, <4>1, <4>3
        <5>2. t[e][n] \in B /\ t.parent[t[e][n]] = n /\ t[e][n] \in N
          BY <1>2, <2>3, <4>1, <5>1
        <5>3. t[e][n] # y /\ t[e][n] # t["left"][z] /\ t[e][n] # t["right"][z]
          BY <1>1, <1>2, <1>4, <4>1, <5>2
        <5> QED  BY <1>5, <4>3, <5>1, <5>2, <5>3
      <4> QED  BY <4>2, <4>3
    <3> QED  BY <3>1, <3>2
  <2>4. ASSUME NEW n \in C
        PROVE  w.parent[n] \in C \cup {root} /\ \E e \in Sides : w[e][w.parent[n]] = n
    <3>1. CASE n = y
      <4>1. w.parent[y] = q
        BY <1>1, <1>4, <1>5, <1>6
      <4>2. w[s][q] = y
        BY <1>3, <1>5
      <4> QED  BY <1>3, <3>1, <4>1, <4>2
    <3>2. CASE n # y
      <4>1. n \in B /\ n # z /\ n # nil /\ n \in N
        BY <1>1, <3>2
      <4>2. CASE n = t["left"][z] \/ n = t["right"][z]
        <5>1. w.parent[n] = y
          BY <1>5, <4>1, <4>2
        <5>2. \E e \in Sides : w[e][y] = n
          BY <1>4, <1>7, <4>2
        <5> QED  BY <5>1, <5>2
      <4>3. CASE ~(n = t["left"][z] \/ n = t["right"][z])
        <5>1. w.parent[n] = t.parent[n]
          BY <1>5, <3>2, <4>1, <4>3
        <5>2. PICK e \in Sides : t[e][t.parent[n]] = n
          BY <1>2, <4>1
        <5>3. t.parent[n] \in B \cup {root} /\ t.parent[n] # z
          BY <1>2, <1>4, <4>1, <4>3, <5>2
        <5>4. w[e][t.parent[n]] = n
          BY <1>7, <4>1, <5>2, <5>3
        <5> QED  BY <5>1, <5>3, <5>4
      <4> QED  BY <4>2, <4>3
    <3> QED  BY <3>1, <3>2
  <2> QED  BY <1>5, <2>1, <2>2, <2>3, <2>4 DEF Links
<1>9. Order(lt, C)
  <2>1. C \subseteq B \cup {y}
    OBVIOUS
  <2> QED  BY <2>1, SubOrder
<1>10. Search(w, C, lt, f)
  <2>1. f \in [N -> SUBSET C] /\ f[nil] = {} /\ f[y] = R(sub[z])
        /\ \A n \in N : n # y => f[n] = R(sub[n])
    BY <1>1
  <2>2. \A e \in Sides : \A n \in (B \ {z}) \cup {root} : f[w[e][n]] = R(sub[t[e][n]])
    <3> SUFFICES ASSUME NEW e \in Sides, NEW n \in (B \ {z}) \cup {root}
                 PROVE  f[w[e][n]] = R(sub[t[e][n]])
      OBVIOUS
    <3> HIDE DEF R, f
    <3>1. t[e][n] \in N /\ t[e][n] # y
      BY <1>1, <1>2
    <3>2. w[e][n] = IF t[e][n] = z THEN y ELSE t[e][n]
      BY <1>7
    <3> QED  BY <2>1, <3>1, <3>2
  <2>3. \A e \in Sides : f[w[e][y]] = R(sub[t[e][z]])
    <3> HIDE DEF R, f
    <3> QED  BY <1>6, <1>7, <2>1
  <2>4. f[w.left[root]] = C
    <3>1. f[w["left"][root]] = R(sub[t["left"][root]])
      <4> HIDE DEF R, f
      <4> QED  BY <1>4, <2>2
    <3>2. R(B) = C
      OBVIOUS
    <3> QED  BY <1>1, <1>5, <3>1, <3>2
  <2>5. \A n \in B : sub[n] = {n} \cup sub[t["left"][n]] \cup sub[t["right"][n]]
    BY DEF Shaped, Search
  <2>6. z \in sub[z] /\ \A e \in Sides : z \notin sub[t[e][z]]
    <3>1. Links(t, B) /\ Order(lt, B) /\ Search(t, B, lt, sub)
      BY DEF Shaped
    <3>2. ASSUME NEW e \in Sides PROVE z \in sub[z] /\ z \notin sub[t[e][z]]
      BY <3>1, ChildOn
    <3> QED  BY <1>4, <3>2
  <2> HIDE DEF f
  <2>7. ASSUME NEW n \in C
        PROVE  f[n] = {n} \cup f[w["left"][n]] \cup f[w["right"][n]]
    <3>1. CASE n = y
      <4>1. /\ f[w["left"][y]] = R(sub[t["left"][z]])
            /\ f[w["right"][y]] = R(sub[t["right"][z]])
        BY <1>4, <2>3
      <4>2. R(sub[z]) = {y} \cup R(sub[t["left"][z]]) \cup R(sub[t["right"][z]])
        BY <1>4, <2>5, <2>6
      <4> QED  BY <2>1, <3>1, <4>1, <4>2
    <3>2. CASE n # y
      <4>1. n \in B /\ n # z /\ n \in N /\ n \in (B \ {z}) \cup {root}
        BY <1>1, <3>2
      <4>2. /\ f[w["left"][n]] = R(sub[t["left"][n]])
            /\ f[w["right"][n]] = R(sub[t["right"][n]])
        BY <1>4, <2>2, <4>1
      <4>3. f[n] = R(sub[n])
        BY <2>1, <3>2, <4>1
      <4>4. R(sub[n]) = {n} \cup R(sub[t["left"][n]]) \cup R(sub[t["right"][n]])
        BY <2>5, <4>1
      <4> QED  BY <4>2, <4>3, <4>4
    <3> QED  BY <3>1, <3>2
  <2>8. ASSUME NEW e \in Sides, NEW n \in C, NEW m \in f[w[e][n]]
        PROVE  On(lt, e, m, n)
    <3>1. \A a \in B : \A b \in sub[t[e][a]] : b \in B /\ On(lt, e, b, a)
      BY <1>1, <1>2 DEF Shaped, Search
    <3>2. CASE n = y
      <4>1. m \in R(sub[t[e][z]])
        BY <2>3, <2>8, <3>2
      <4>2. m \in sub[t[e][z]] /\ m # z
        BY <2>6, <4>1
      <4> QED  BY <3>1, <3>2, <4>2
    <3>3. CASE n # y
      <4>1. n \in B /\ n # z /\ n \in (B \ {z}) \cup {root}
        BY <3>3
      <4>2. m \in R(sub[t[e][n]])
        BY <2>2, <2>8, <4>1
      <4>3. CASE m \in sub[t[e][n]]
        BY <3>1, <4>1, <4>3
      <4>4. CASE m \notin sub[t[e][n]]
        <5>1. m = y /\ z \in sub[t[e][n]]
          BY <4>2, <4>4
        <5>2. On(lt, e, z, n)
          BY <3>1, <4>1, <5>1
        <5>3. On(lt, Opposite(e), n, z) /\ Opposite(e) \in Sides
          BY <4>1, <5>2, OnFacts, SideFacts
        <5>4. On(lt, Opposite(e), n, y)
          BY <4>1, <5>3
        <5> QED  BY <4>1, <5>1, <5>4, OnFacts
      <4> QED  BY <4>3, <4>4
    <3> QED  BY <3>2, <3>3
  <2> QED  BY <2>1, <2>4, <2>7, <2>8 DEF Search
<1> HIDE DEF f
<1> QED  BY <1>8, <1>9, <1>10 DEF Shaped

-----------------------------------------------------------------------------
(* Taking the place of a node keeps a tree red and black. *)
LEMMA TakePlaceGood ==
  ASSUME NEW t, NEW B, NEW lt, Balanced(t, B, lt), ~t.red[t.left[root]],
         NEW z \in B, NEW y \in Nodes, y \notin B, Order(lt, B \cup {y}),
         \A e \in Sides : \A m \in B \ {z} : On(lt, e, m, z) <=> On(lt, e, m, y),
         NEW C, C = (B \ {z}) \cup {y},
         NEW w, w = TakePlace(t, y, z)
  PROVE  Balanced(w, C, lt) /\ ~w.red[w.left[root]]
<1> DEFINE q == t.parent[z]
           s == Side(t, z)
<1>1. PICK sub : Shaped(t, B, lt, sub)
  BY DEF Balanced
<1>2. PICK bh : Heights(t, B, bh, nil, "left")
  BY DEF Balanced
<1>3. Colours(t, B, nil)
  BY DEF Balanced
<1>4. /\ t \in Tree /\ B \subseteq N /\ nil \in N /\ root \in N /\ y \in N /\ z \in N
      /\ nil \notin B /\ root \notin B /\ nil # root
      /\ y # nil /\ y # root /\ y # z /\ z # nil /\ z # root
      /\ t.left = t["left"] /\ t.right = t["right"]
  BY <1>1, Names, ShapeFacts, TreeFields
<1>5. /\ \A e \in Sides : \A n \in B \cup {root} :
           /\ t[e][n] \in N
           /\ t[e][n] # nil => t[e][n] \in B /\ t.parent[t[e][n]] = n
           /\ t[e][n] # n
      /\ \A n \in B : /\ t.parent[n] \in B \cup {root} /\ t.parent[n] \in N
                      /\ \E e \in Sides : t[e][t.parent[n]] = n
      /\ \A e, i \in Sides : \A n \in B \cup {root} :
           t[e][n] # nil /\ t[i][n] = t[e][n] => i = e
  BY <1>1, ShapeFacts
<1>6. /\ q \in B \cup {root} /\ q \in N /\ q # z /\ q # nil /\ q # y
      /\ s \in Sides /\ t[s][q] = z
      /\ q = root => s = "left"
  <2>1. q = root => s = "left"
    BY <1>1, SideIs DEF Shaped
  <2> QED  BY <1>1, <1>4, <2>1, ShapeFacts
<1>7. Taken(w, t, y, z, q, s)
  BY <1>4, <1>6, TakenEffect
<1>8. \E f : Shaped(w, C, lt, f)
  <2> HIDE DEF q, s
  <2>1. q = t.parent[z] /\ s = Side(t, z)
    BY DEF q, s
  <2> QED  BY <1>1, <1>7, <2>1, TakenShaped
<1> HIDE DEF q, s
<1>9. /\ w \in Tree
      /\ \A n \in N : w.red[n] <=> IF n = y THEN t.red[z] ELSE t.red[n]
      /\ \A n \in N : w.parent[n] = IF n = t["left"][z] \/ n = t["right"][z] THEN y
                                    ELSE IF n = y THEN q ELSE t.parent[n]
      /\ \A e \in Sides : \A n \in N :
           w[e][n] = IF n = q /\ e = s THEN y ELSE IF n = y THEN t[e][z] ELSE t[e][n]
      /\ w.left = w["left"] /\ "left" \in Sides /\ "right" \in Sides
      /\ \A e \in Sides : e = "left" \/ e = "right"
  BY <1>4, <1>7, TreeFields, SideFacts DEF Taken
<1>10. /\ t.red \in [N -> BOOLEAN] /\ ~t.red[nil] /\ ~t.red[root]
       /\ \A n \in B : t.red[n] => ~t.red[t.parent[n]]
  BY <1>3, <1>4, TreeFields DEF Colours
<1>11. Colours(w, C, nil)
  <2>1. ~w.red[nil] /\ ~w.red[root]
    BY <1>4, <1>9, <1>10
  <2>2. ASSUME NEW n \in C, w.red[n] PROVE ~w.red[w.parent[n]]
    <3>1. CASE n = y
      <4>1. w.parent[y] = q
        BY <1>4, <1>5, <1>9
      <4>2. ~t.red[q]
        BY <1>4, <1>9, <1>10, <2>2, <3>1 DEF q
      <4> QED  BY <1>6, <1>9, <3>1, <4>1, <4>2
    <3>2. CASE n # y
      <4>1. n \in B /\ n # z /\ n \in N /\ n # nil /\ t.red[n]
        BY <1>4, <1>9, <2>2, <3>2
      <4>2. ~t.red[t.parent[n]] /\ t.parent[n] \in B \cup {root} /\ t.parent[n] \in N
        BY <1>5, <1>10, <4>1
      <4>3. CASE n = t["left"][z] \/ n = t["right"][z]
        <5>1. w.parent[n] = y
          BY <1>9, <4>1, <4>3
        <5>2. t.parent[n] = z
          BY <1>5, <1>9, <4>1, <4>3
        <5> QED  BY <1>4, <1>9, <4>2, <5>1, <5>2
      <4>4. CASE ~(n = t["left"][z] \/ n = t["right"][z])
        <5>1. w.parent[n] = t.parent[n] /\ t.parent[n] # y
          BY <1>4, <1>9, <3>2, <4>1, <4>2, <4>4
        <5> QED  BY <1>9, <4>2, <5>1
      <4> QED  BY <4>3, <4>4
    <3> QED  BY <3>1, <3>2
  <2> QED  BY <2>1, <2>2 DEF Colours
<1>12. /\ bh \in [N -> Nat] /\ bh[nil] = 0
       /\ \A e \in Sides : \A n \in B : /\ n # nil /\ t[e][n] \in N
                                        /\ bh[n] = bh[t[e][n]] + (IF t.red[n] THEN 0 ELSE 1)
  <2>1. bh \in [N -> Nat] /\ bh[nil] = 0
    BY <1>2 DEF Heights
  <2>2. ASSUME NEW e \in Sides, NEW n \in B
        PROVE  n # nil /\ t[e][n] \in N /\ bh[n] = bh[t[e][n]] + (IF t.red[n] THEN 0 ELSE 1)
    <3>1. n # nil /\ t[e][n] \in N
      BY <1>4, <1>5
    <3>2. bh[n] = bh[t[e][n]] + (IF t.red[n] THEN 0 ELSE 1)
                              + (IF n = nil /\ e = "left" THEN 1 ELSE 0)
      BY <1>2 DEF Heights
    <3>3. bh[t[e][n]] \in Nat
      BY <2>1, <3>1
    <3> QED  BY <3>1, <3>2, <3>3
  <2> QED  BY <2>1, <2>2
<1>13. \E h : Heights(w, C, h, nil, "left")
  <2> DEFINE h == [n \in N |-> IF n = y THEN bh[z] ELSE bh[n]]
  <2>1. h \in [N -> Nat] /\ h[nil] = 0 /\ h[y] = bh[z] /\ \A n \in N : n # y => h[n] = bh[n]
    BY <1>4, <1>12
  <2> HIDE DEF h
  <2>2. ASSUME NEW e \in Sides, NEW n \in C
        PROVE  h[n] = h[w[e][n]] + (IF w.red[n] THEN 0 ELSE 1)
                                 + (IF n = nil /\ "left" = e THEN 1 ELSE 0)
    <3>1. CASE n = y
      <4>1. w[e][y] = t[e][z] /\ t[e][z] # y /\ t[e][z] \in N
        BY <1>4, <1>5, <1>6, <1>9
      <4>2. bh[z] = bh[t[e][z]] + (IF t.red[z] THEN 0 ELSE 1) /\ bh[t[e][z]] \in Nat
        BY <1>12
      <4>3. h[w[e][y]] = bh[t[e][z]]
        BY <2>1, <4>1
      <4> QED  BY <1>4, <1>9, <2>1, <3>1, <4>2, <4>3
    <3>2. CASE n # y
      <4>1. n \in B /\ n # z /\ n \in N /\ n # nil
        BY <1>4, <3>2
      <4>2. bh[n] = bh[t[e][n]] + (IF t.red[n] THEN 0 ELSE 1) /\ bh[t[e][n]] \in Nat
            /\ t[e][n] \in N /\ t[e][n] # y
        BY <1>4, <1>5, <1>12, <4>1
      <4>3. h[w[e][n]] = bh[t[e][n]]
        <5>1. CASE n = q /\ e = s
          BY <1>6, <1>9, <2>1, <4>1, <5>1
        <5>2. CASE ~(n = q /\ e = s)
          BY <1>9, <2>1, <3>2, <4>1, <4>2, <5>2
        <5> QED  BY <5>1, <5>2
      <4> QED  BY <1>9, <2>1, <3>2, <4>1, <4>2, <4>3
    <3> QED  BY <3>1, <3>2
  <2> QED  BY <2>1, <2>2 DEF Heights
<1>14. ~w.red[w.left[root]]
  <2>1. t["left"][root] \in N /\ t["left"][root] # y
    BY <1>4, <1>5, <1>9
  <2>2. CASE q = root
    <3>1. w["left"][root] = y /\ t["left"][root] = z
      BY <1>4, <1>6, <1>9, <2>2
    <3> QED  BY <1>4, <1>9, <3>1
  <2>3. CASE q # root
    <3>1. w["left"][root] = t["left"][root]
      BY <1>4, <1>9, <2>3
    <3> QED  BY <1>4, <1>9, <2>1, <3>1
  <2> QED  BY <2>2, <2>3
<1> QED  BY <1>8, <1>11, <1>13, <1>14 DEF Balanced

-----------------------------------------------------------------------------
(* Freeing a node changes its own fields only.                              *)
LEMMA FreeEffect ==
  ASSUME NEW t \in Tree, NEW z \in N
  PROVE  LET u == Free(t, z)
         IN  /\ u \in Tree
             /\ \A n \in N : n # z => /\ u.parent[n] = t.parent[n]
                                      /\ u.red[n] = t.red[n]
                                      /\ \A e \in Sides : u[e][n] = t[e][n]
<1> DEFINE t1 == [t EXCEPT !.left[z] = nil]
           t2 == [t1 EXCEPT !.right[z] = nil]
           t3 == [t2 EXCEPT !.parent[z] = nil]
           t4 == [t3 EXCEPT !.red[z] = FALSE]
<1>1. Free(t, z) = t4
  BY Zenon DEF Free
<1>2. nil \in N
  BY Names
<1>3. /\ t1 \in Tree /\ t1.parent = t.parent /\ t1.red = t.red
      /\ t1["left"] = [t["left"] EXCEPT ![z] = nil] /\ t1["right"] = t["right"]
  BY <1>2 DEF Tree, t1
<1> HIDE DEF t1
<1>4. /\ t2 \in Tree /\ t2.parent = t.parent /\ t2.red = t.red
      /\ t2["left"] = [t["left"] EXCEPT ![z] = nil]
      /\ t2["right"] = [t["right"] EXCEPT ![z] = nil]
  BY <1>2, <1>3 DEF Tree, t2
<1> HIDE DEF t2
<1>5. /\ t3 \in Tree /\ t3.parent = [t2.parent EXCEPT ![z] = nil] /\ t3.red = t2.red
      /\ \A e \in Sides : t3[e] = t2[e]
  <2>1. t2 \in Tree
    BY <1>4
  <2> QED  BY <1>2, <2>1, ParentSet
<1> HIDE DEF t3
<1>6. /\ t4 \in Tree /\ t4.parent = t3.parent /\ t4.red = [t3.red EXCEPT ![z] = FALSE]
      /\ \A e \in Sides : t4[e] = t3[e]
  <2>1. t3 \in Tree
    BY <1>5
  <2> QED  BY <2>1, ColourSet
<1> HIDE DEF t4
<1>7. t.parent \in [N -> N] /\ t.red \in [N -> BOOLEAN] /\ \A e \in Sides : t[e] \in [N -> N]
  BY TreeFields
<1>8. ASSUME NEW n \in N, n # z
      PROVE  /\ t4.parent[n] = t.parent[n] /\ t4.red[n] = t.red[n]
             /\ \A e \in Sides : t4[e][n] = t[e][n]
  <2>1. t4.parent[n] = t.parent[n]
    BY <1>4, <1>5, <1>6, <1>7, <1>8
  <2>2. t4.red[n] = t.red[n]
    BY <1>4, <1>5, <1>6, <1>7, <1>8
  <2>3. t4["left"][n] = t["left"][n] /\ t4["right"][n] = t["right"][n]
    BY <1>4, <1>5, <1>6, <1>7, <1>8, SideFacts
  <2> QED  BY <2>1, <2>2, <2>3, SideFacts
<1> QED  BY <1>1, <1>6, <1>8

(* The fields of a node that is not in the tree do not matter to it. *)
LEMMA FreeGood ==
  ASSUME NEW t, NEW A, NEW lt, Balanced(t, A, lt), ~t.red[t.left[root]],
         NEW z \in Nodes, z \notin A,
         NEW u, u = Free(t, z)
  PROVE  Balanced(u, A, lt) /\ ~u.red[u.left[root]]
<1>1. PICK sub : Shaped(t, A, lt, sub)
  BY DEF Balanced
<1>2. PICK bh : Heights(t, A, bh, nil, "left")
  BY DEF Balanced
<1>3. Colours(t, A, nil)
  BY DEF Balanced
<1>4. /\ t \in Tree /\ A \subseteq N /\ A \subseteq Nodes /\ nil \in N /\ root \in N /\ z \in N
      /\ z # nil /\ z # root /\ \A n \in A : n # z
      /\ t.left = t["left"] /\ t.right = t["right"]
  <2>1. A \subseteq Nodes
    BY <1>1 DEF Shaped, Links
  <2> QED  BY <1>1, <2>1, Names, ShapeFacts, TreeFields
<1>5. /\ u \in Tree
      /\ \A n \in N : n # z => /\ u.parent[n] = t.parent[n]
                               /\ u.red[n] = t.red[n]
                               /\ \A e \in Sides : u[e][n] = t[e][n]
      /\ u.left = u["left"] /\ u.right = u["right"]
      /\ "left" \in Sides /\ "right" \in Sides
  <2>1. /\ u \in Tree
        /\ \A n \in N : n # z => /\ u.parent[n] = t.parent[n]
                                 /\ u.red[n] = t.red[n]
                                 /\ \A e \in Sides : u[e][n] = t[e][n]
    <3>1. t \in Tree /\ z \in N
      BY <1>4
    <3> QED  BY <3>1, FreeEffect
  <2> QED  BY <2>1, TreeFields, SideFacts
<1>6. /\ \A e \in Sides : \A n \in A \cup {root} :
           /\ n \in N /\ n # z /\ t[e][n] \in N /\ t[e][n] # z
           /\ t[e][n] # nil => t[e][n] \in A /\ t.parent[t[e][n]] = n
           /\ u[e][n] = t[e][n]
      /\ \A n \in A : /\ n \in N /\ n # nil /\ n # z
                      /\ t.parent[n] \in A \cup {root} /\ t.parent[n] # z
                      /\ u.parent[n] = t.parent[n] /\ (u.red[n] <=> t.red[n])
                      /\ (u.red[t.parent[n]] <=> t.red[t.parent[n]])
                      /\ \E e \in Sides : t[e][t.parent[n]] = n
      /\ \A e \in Sides : u[e][nil] = nil
      /\ t["right"][root] = nil
  <2>1. t["right"][root] = nil /\ nil \notin A /\ root \notin A
    BY <1>1, <1>4, ShapeFacts
  <2>2. ASSUME NEW e \in Sides, NEW n \in A \cup {root}
        PROVE  /\ n \in N /\ n # z /\ t[e][n] \in N /\ t[e][n] # z
               /\ t[e][n] # nil => t[e][n] \in A /\ t.parent[t[e][n]] = n
               /\ u[e][n] = t[e][n]
    BY <1>1, <1>4, <1>5, ShapeFacts
  <2>3. ASSUME NEW n \in A
        PROVE  /\ n \in N /\ n # nil /\ n # z
               /\ t.parent[n] \in A \cup {root} /\ t.parent[n] # z
               /\ u.parent[n] = t.parent[n] /\ (u.red[n] <=> t.red[n])
               /\ (u.red[t.parent[n]] <=> t.red[t.parent[n]])
               /\ \E e \in Sides : t[e][t.parent[n]] = n
    <3>1. /\ n \in N /\ n # nil /\ n # z /\ t.parent[n] \in A \cup {root}
          /\ t.parent[n] \in N /\ \E e \in Sides : t[e][t.parent[n]] = n
      BY <1>1, <1>4, <2>1, ShapeFacts
    <3> QED  BY <1>4, <1>5, <3>1
  <2>4. \A e \in Sides : u[e][nil] = nil
    BY <1>1, <1>4, <1>5, ShapeFacts
  <2> QED  BY <2>1, <2>2, <2>3, <2>4
<1>7. Shaped(u, A, lt, sub)
  <2>1. Links(u, A)
    <3>1. u.right[root] = nil
      BY <1>4, <1>5, <1>6
    <3>2. ASSUME NEW e \in Sides, NEW n \in A \cup {root}, u[e][n] # nil
          PROVE  u[e][n] \in A /\ u.parent[u[e][n]] = n
      BY <1>6, <3>2
    <3>3. ASSUME NEW n \in A
          PROVE  u.parent[n] \in A \cup {root} /\ \E e \in Sides : u[e][u.parent[n]] = n
      BY <1>6
    <3> QED  BY <1>4, <1>5, <1>6, <3>1, <3>2, <3>3 DEF Links
  <2>2. Order(lt, A) /\ Search(t, A, lt, sub)
    BY <1>1 DEF Shaped
  <2>3. Search(u, A, lt, sub)
    <3>1. u.left[root] = t.left[root]
      BY <1>4, <1>5, <1>6
    <3>2. \A n \in A : u["left"][n] = t["left"][n] /\ u["right"][n] = t["right"][n]
      BY <1>5, <1>6
    <3>3. \A e \in Sides : \A n \in A : \A m \in sub[u[e][n]] : On(lt, e, m, n)
      BY <1>6, <2>2 DEF Search
    <3> QED  BY <2>2, <3>1, <3>2, <3>3 DEF Search
  <2> QED  BY <2>1, <2>2, <2>3 DEF Shaped
<1>8. Colours(u, A, nil)
  <2>1. ~u.red[nil] /\ ~u.red[root]
    BY <1>3, <1>4, <1>5 DEF Colours
  <2>2. ASSUME NEW n \in A, u.red[n] PROVE ~u.red[u.parent[n]]
    <3>1. t.red[n] /\ n # nil
      BY <1>6, <2>2
    <3>2. ~t.red[t.parent[n]]
      BY <1>3, <3>1 DEF Colours
    <3> QED  BY <1>6, <3>2
  <2> QED  BY <2>1, <2>2 DEF Colours
<1>9. Heights(u, A, bh, nil, "left")
  <2>1. bh \in [N -> Nat] /\ bh[nil] = 0
    BY <1>2 DEF Heights
  <2>2. ASSUME NEW e \in Sides, NEW n \in A
        PROVE  bh[n] = bh[u[e][n]] + (IF u.red[n] THEN 0 ELSE 1)
                                   + (IF n = nil /\ e = "left" THEN 1 ELSE 0)
    <3>1. bh[n] = bh[t[e][n]] + (IF t.red[n] THEN 0 ELSE 1)
                              + (IF n = nil /\ e = "left" THEN 1 ELSE 0)
      BY <1>2 DEF Heights
    <3>2. u[e][n] = t[e][n] /\ (u.red[n] <=> t.red[n])
      BY <1>6
    <3> QED  BY <3>1, <3>2
  <2> QED  BY <2>1, <2>2 DEF Heights
<1>10. ~u.red[u.left[root]]
  BY <1>4, <1>5, <1>6
<1> QED  BY <1>7, <1>8, <1>9, <1>10 DEF Balanced

(* RBDelete keeps the invariant and the order of the other nodes.           *)
LEMMA DeleteGood ==
  ASSUME NEW t, NEW A, NEW lt, Good(t, A, lt), NEW z \in A
  PROVE  Good(RBDelete(t, z), A \ {z}, lt)
<1> DEFINE y == Unlinked(t, z)
           v == SpliceOut(t, y)
           B == A \ {y}
           C == A \ {z}
           w == TakePlace(v, y, z)
<1>1. KeyOrder(lt, A) /\ Balanced(t, A, lt)
  BY DEF Good
<1>2. PICK sub : Shaped(t, A, lt, sub)
  BY <1>1 DEF Balanced
<1>3. A \subseteq Nodes /\ Order(lt, A)
  BY <1>2 DEF Shaped, Links
<1>4. /\ y \in A /\ (t.left[y] = nil \/ t.right[y] = nil)
      /\ y # z => \A e \in Sides : \A m \in A : m # y /\ m # z =>
                    (On(lt, e, m, z) <=> On(lt, e, m, y))
  BY <1>2, UnlinkedFacts
<1>5. RBDelete(t, z) = Free(IF y = z THEN v ELSE w, z)
  BY DEF RBDelete
<1>6. KeyOrder(lt, C)
  BY <1>1, SubOrder
<1> HIDE DEF y
<1>7. Balanced(v, B, lt) /\ ~v.red[v.left[root]]
  BY <1>1, <1>4, SpliceOutGood DEF Good
<1> HIDE DEF v
<1>8. CASE y = z
  <2>1. Balanced(v, C, lt) /\ z \in Nodes /\ z \notin C
    BY <1>3, <1>7, <1>8
  <2>2. Balanced(Free(v, z), C, lt) /\ ~Free(v, z).red[Free(v, z).left[root]]
    BY <1>7, <2>1, FreeGood
  <2> QED  BY <1>5, <1>6, <1>8, <2>2 DEF Good
<1>9. CASE y # z
  <2>1. /\ z \in B /\ y \in Nodes /\ y \notin B /\ Order(lt, B \cup {y})
        /\ \A e \in Sides : \A m \in B \ {z} : On(lt, e, m, z) <=> On(lt, e, m, y)
        /\ C = (B \ {z}) \cup {y}
    <3>1. B \cup {y} = A /\ C = (B \ {z}) \cup {y} /\ z \in B /\ y \notin B /\ y \in Nodes
      BY <1>3, <1>4, <1>9
    <3>2. Order(lt, B \cup {y})
      BY <1>3, <3>1
    <3> QED  BY <1>4, <1>9, <3>1, <3>2
  <2> HIDE DEF B, C
  <2>2. Balanced(w, C, lt) /\ ~w.red[w.left[root]]
    BY <1>7, <2>1, TakePlaceGood
  <2> HIDE DEF w
  <2>3. z \in Nodes /\ z \notin C
    BY <1>3 DEF C
  <2>4. Balanced(Free(w, z), C, lt) /\ ~Free(w, z).red[Free(w, z).left[root]]
    BY <2>2, <2>3, FreeGood
  <2>5. Good(Free(w, z), C, lt)
    BY <1>6, <2>4 DEF Good
  <2> QED  BY <1>5, <1>9, <2>5 DEF C
<1> QED  BY <1>8, <1>9

-----------------------------------------------------------------------------
(* l are the nodes A in the order lt. *)
Ranked(l, A, lt) ==
  /\ l \in Seq(A)
  /\ \A i, j \in 1 .. Len(l) : i < j => <<l[i], l[j]>> \in lt
  /\ \A a \in A : \E i \in 1 .. Len(l) : l[i] = a

(* The list of nodes in an order has each of them once.                     *)
LEMMA RankedFacts ==
  ASSUME NEW l, NEW A, NEW lt, Order(lt, A), Ranked(l, A, lt)
  PROVE  /\ Len(l) \in Nat /\ DOMAIN l = 1 .. Len(l)
         /\ \A i \in 1 .. Len(l) : l[i] \in A
         /\ \A i, j \in 1 .. Len(l) :
              /\ i < j <=> <<l[i], l[j]>> \in lt
              /\ l[i] = l[j] => i = j
<1>1. /\ l \in Seq(A) /\ Len(l) \in Nat /\ DOMAIN l = 1 .. Len(l)
      /\ \A i \in 1 .. Len(l) : l[i] \in A
  BY DEF Ranked
<1>2. ASSUME NEW i \in 1 .. Len(l), NEW j \in 1 .. Len(l)
      PROVE  (i < j <=> <<l[i], l[j]>> \in lt) /\ (l[i] = l[j] => i = j)
  <2>1. l[i] \in A /\ l[j] \in A /\ i \in Int /\ j \in Int
    BY <1>1
  <2>2. (i < j => <<l[i], l[j]>> \in lt) /\ (j < i => <<l[j], l[i]>> \in lt)
    BY DEF Ranked
  <2>3. <<l[i], l[i]>> \notin lt /\ ~(<<l[i], l[j]>> \in lt /\ <<l[j], l[i]>> \in lt)
    BY <2>1 DEF Order
  <2>4. CASE i < j
    BY <2>2, <2>3, <2>4
  <2>5. CASE j < i
    <3>1. <<l[j], l[i]>> \in lt /\ <<l[j], l[j]>> \notin lt
      BY <2>1, <2>2, <2>5 DEF Order
    <3> QED  BY <2>1, <2>3, <2>5, <3>1
  <2>6. CASE i = j
    BY <2>1, <2>3, <2>6
  <2> QED  BY <2>1, <2>4, <2>5, <2>6
<1> QED  BY <1>1, <1>2

(* There is one such list only. *)
LEMMA RankedUnique ==
  ASSUME NEW l, NEW m, NEW A, NEW lt, Order(lt, A), Ranked(l, A, lt), Ranked(m, A, lt)
  PROVE  l = m
<1>1. ASSUME NEW a, NEW b, Ranked(a, A, lt), Ranked(b, A, lt)
      PROVE  \A i \in 1 .. Len(a) : i \in 1 .. Len(b) /\ a[i] = b[i]
  <2>1. /\ Len(a) \in Nat /\ Len(b) \in Nat
        /\ \A i \in 1 .. Len(a) : a[i] \in A
        /\ \A i \in 1 .. Len(b) : b[i] \in A
        /\ \A i, j \in 1 .. Len(a) : (i < j <=> <<a[i], a[j]>> \in lt) /\ (a[i] = a[j] => i = j)
        /\ \A i, j \in 1 .. Len(b) : (i < j <=> <<b[i], b[j]>> \in lt) /\ (b[i] = b[j] => i = j)
    BY <1>1, RankedFacts
  <2>2. /\ \A x \in A : \E i \in 1 .. Len(a) : a[i] = x
        /\ \A x \in A : \E i \in 1 .. Len(b) : b[i] = x
    BY <1>1 DEF Ranked
  <2>7. \A x, y \in A : ~(<<x, y>> \in lt /\ <<y, x>> \in lt)
    BY DEF Order
  <2> DEFINE Same(i) == i \in 1 .. Len(a) => i \in 1 .. Len(b) /\ a[i] = b[i]
             P == { k \in Nat : \A i \in 1 .. k : Same(i) }
  <2>3. 0 \in P
    OBVIOUS
  <2>4. ASSUME NEW k \in Nat, k \in P PROVE k + 1 \in P
    <3> DEFINE n == k + 1
    <3>1. \A i \in 1 .. k : Same(i)
      BY <2>4
    <3>2. ASSUME n \in 1 .. Len(a) PROVE n \in 1 .. Len(b) /\ a[n] = b[n]
      <4>1. \A i \in 1 .. k : i \in 1 .. Len(a) /\ i \in 1 .. Len(b) /\ a[i] = b[i] /\ i # n
        BY <2>1, <3>1, <3>2
      <4>2. PICK j \in 1 .. Len(b) : b[j] = a[n]
        BY <2>1, <2>2, <3>2
      <4>3. j >= n
        <5>1. j \notin 1 .. k
          BY <2>1, <3>2, <4>1, <4>2
        <5> QED  BY <5>1
      <4>4. n \in 1 .. Len(b)
        BY <2>1, <4>3
      <4>5. PICK i \in 1 .. Len(a) : a[i] = b[n]
        BY <2>1, <2>2, <4>4
      <4>6. i >= n
        <5>1. i \notin 1 .. k
          BY <2>1, <4>1, <4>4, <4>5
        <5> QED  BY <5>1
      <4>7. n < j => n < i
        <5>1. i = n => b[j] = b[n]
          BY <4>2, <4>5
        <5>2. i = n => j = n
          BY <2>1, <4>2, <4>4, <5>1
        <5>3. i \in Int /\ j \in Int
          OBVIOUS
        <5> QED  BY <4>6, <5>2, <5>3
      <4>8. n < j => <<b[n], b[j]>> \in lt /\ <<a[n], a[i]>> \in lt
        BY <2>1, <3>2, <4>4, <4>7
      <4>9. ~(<<a[n], b[n]>> \in lt /\ <<b[n], a[n]>> \in lt)
        <5>1. a[n] \in A /\ b[n] \in A
          BY <2>1, <3>2, <4>4
        <5> QED  BY <2>7, <5>1
      <4>10. ~(n < j)
        BY <4>2, <4>5, <4>8, <4>9
      <4> QED  BY <4>2, <4>3, <4>4, <4>10
    <3>3. \A i \in 1 .. k + 1 : i \in 1 .. k \/ i = n
      OBVIOUS
    <3>4. \A i \in 1 .. k + 1 : Same(i)
      BY <3>1, <3>2, <3>3
    <3> QED  BY <3>4
  <2>5. Nat \subseteq P
    <3> HIDE DEF P
    <3> QED  BY <2>3, <2>4, AllReached
  <2>6. Len(a) \in P
    BY <2>1, <2>5
  <2> QED  BY <2>6
<1>2. l \in Seq(A) /\ m \in Seq(A) /\ Len(l) \in Nat /\ Len(m) \in Nat
  BY DEF Ranked
<1>3. /\ \A i \in 1 .. Len(l) : i \in 1 .. Len(m) /\ l[i] = m[i]
      /\ \A i \in 1 .. Len(m) : i \in 1 .. Len(l)
  BY <1>1
<1>4. Len(l) = Len(m)
  <2>1. ~(Len(l) < Len(m))
    <3>1. Len(l) < Len(m) => Len(m) \in 1 .. Len(m)
      BY <1>2
    <3> QED  BY <1>2, <1>3, <3>1
  <2>2. ~(Len(m) < Len(l))
    <3>1. Len(m) < Len(l) => Len(l) \in 1 .. Len(l)
      BY <1>2
    <3> QED  BY <1>2, <1>3, <3>1
  <2> QED  BY <1>2, <2>1, <2>2
<1> QED  BY <1>2, <1>3, <1>4, SeqEqual

(* The two sides of a node in the order make one list. *)
LEMMA RankedJoin ==
  ASSUME NEW A, NEW lt, Order(lt, A), NEW X, NEW Y, X \subseteq A, Y \subseteq A, NEW n \in A,
         NEW l, Ranked(l, X, lt), NEW r, Ranked(r, Y, lt),
         \A x \in X : <<x, n>> \in lt, \A y \in Y : <<n, y>> \in lt
  PROVE  Ranked(l \o <<n>> \o r, X \cup {n} \cup Y, lt)
<1> DEFINE s == l \o <<n>> \o r
           Z == X \cup {n} \cup Y
           p == Len(l)
           q == Len(r)
<1>1. /\ l \in Seq(X) /\ r \in Seq(Y) /\ p \in Nat /\ q \in Nat
      /\ \A i \in 1 .. p : l[i] \in X
      /\ \A i \in 1 .. q : r[i] \in Y
  BY DEF Ranked
<1>2. l \in Seq(Z) /\ r \in Seq(Z) /\ <<n>> \in Seq(Z)
  BY <1>1
<1>3. /\ s \in Seq(Z) /\ Len(s) = p + 1 + q
      /\ \A i \in 1 .. Len(s) : s[i] = IF i <= p THEN l[i] ELSE IF i = p + 1 THEN n ELSE r[i - (p + 1)]
  BY <1>2
<1> HIDE DEF s, p, q
<1>4. ASSUME NEW i \in 1 .. Len(s), NEW j \in 1 .. Len(s), i < j PROVE <<s[i], s[j]>> \in lt
  <2>1. i \in Int /\ j \in Int /\ Len(s) \in Int
    BY <1>1, <1>3
  <2>2. CASE j <= p
    <3>1. i \in 1 .. p /\ j \in 1 .. p /\ s[i] = l[i] /\ s[j] = l[j]
      BY <1>1, <1>3, <1>4, <2>2
    <3> QED  BY <1>4, <3>1 DEF Ranked, p
  <2>3. CASE i > p + 1
    <3>1. /\ i - (p + 1) \in 1 .. q /\ j - (p + 1) \in 1 .. q /\ i - (p + 1) < j - (p + 1)
          /\ s[i] = r[i - (p + 1)] /\ s[j] = r[j - (p + 1)]
      BY <1>1, <1>3, <1>4, <2>3
    <3> QED  BY <3>1 DEF Ranked, q
  <2>4. CASE i <= p + 1 /\ j > p
    <3>1. i <= p => s[i] \in X
      <4>1. i <= p => i \in 1 .. p
        BY <1>1
      <4> QED  BY <1>1, <1>3, <4>1
    <3>2. j > p + 1 => s[j] \in Y
      <4>1. j > p + 1 => j - (p + 1) \in 1 .. q
        BY <1>1, <1>3
      <4> QED  BY <1>1, <1>3, <4>1
    <3>3. (i = p + 1 => s[i] = n) /\ (j = p + 1 => s[j] = n)
      <4>1. ~(p + 1 <= p)
        BY <1>1
      <4> QED  BY <1>3, <4>1
    <3>4. CASE i <= p /\ j > p + 1
      <4>1. <<s[i], n>> \in lt /\ <<n, s[j]>> \in lt /\ s[i] \in A /\ s[j] \in A
        BY <3>1, <3>2, <3>4
      <4> QED  BY <4>1 DEF Order
    <3>5. CASE i <= p /\ j = p + 1
      BY <3>1, <3>3, <3>5
    <3>6. CASE i = p + 1
      <4>1. j > p + 1
        BY <1>1, <1>4, <3>6
      <4> QED  BY <3>2, <3>3, <3>6, <4>1
    <3> QED  BY <1>1, <2>1, <2>4, <3>4, <3>5, <3>6
  <2> QED  BY <1>1, <1>4, <2>1, <2>2, <2>3, <2>4
<1>5. ASSUME NEW a \in Z PROVE \E i \in 1 .. Len(s) : s[i] = a
  <2>1. CASE a \in X
    <3>1. PICK i \in 1 .. p : l[i] = a
      BY <2>1 DEF Ranked, p
    <3>2. i \in 1 .. Len(s) /\ s[i] = a
      BY <1>1, <1>3, <3>1
    <3> QED  BY <3>2
  <2>2. CASE a = n
    <3>1. p + 1 \in 1 .. Len(s) /\ s[p + 1] = n
      BY <1>1, <1>3
    <3> QED  BY <2>2, <3>1
  <2>3. CASE a \in Y
    <3>1. PICK i \in 1 .. q : r[i] = a
      BY <2>3 DEF Ranked, q
    <3>2. /\ i + (p + 1) \in 1 .. Len(s) /\ ~(i + (p + 1) <= p) /\ i + (p + 1) # p + 1
          /\ (i + (p + 1)) - (p + 1) = i
      BY <1>1, <1>3
    <3>3. s[i + (p + 1)] = r[(i + (p + 1)) - (p + 1)]
      BY <1>3, <3>2
    <3> QED  BY <3>1, <3>2, <3>3
  <2> QED  BY <2>1, <2>2, <2>3
<1>6. Ranked(s, Z, lt)
  BY <1>3, <1>4, <1>5 DEF Ranked
<1> QED  BY <1>6 DEF s

-----------------------------------------------------------------------------
(* A part of the list is the list of its nodes.                             *)
LEMMA RankedPart ==
  ASSUME NEW l, NEW A, NEW lt, NEW new, Ranked(l, A, lt),
         \A a, b \in A : <<a, b>> \in lt => <<a, b>> \in new,
         NEW i \in Nat, NEW j \in Nat, i >= 1, i <= j + 1, j <= Len(l)
  PROVE  Ranked(SubSeq(l, i, j), { l[k] : k \in i .. j }, new)
<1> DEFINE s == SubSeq(l, i, j)
           B == { l[k] : k \in i .. j }
<1>1. /\ l \in Seq(A) /\ Len(l) \in Nat
      /\ \A k \in 1 .. Len(l) : l[k] \in A
      /\ \A m, k \in 1 .. Len(l) : m < k => <<l[m], l[k]>> \in lt
  BY DEF Ranked
<1>2. /\ Len(s) = j + 1 - i /\ s \in Seq(A)
      /\ \A k \in 1 .. Len(s) : s[k] = l[i + k - 1]
  BY <1>1
<1> HIDE DEF s
<1>3. \A k \in 1 .. Len(s) : i + k - 1 \in i .. j /\ i + k - 1 \in 1 .. Len(l)
  BY <1>1, <1>2
<1>4. s \in Seq(B)
  <2>1. \A k \in 1 .. Len(s) : s[k] \in B
    BY <1>2, <1>3
  <2> QED  BY <1>2, <2>1
<1>5. ASSUME NEW m \in 1 .. Len(s), NEW k \in 1 .. Len(s), m < k
      PROVE  <<s[m], s[k]>> \in new
  <2>1. i + m - 1 < i + k - 1
    BY <1>2, <1>5
  <2>2. <<l[i + m - 1], l[i + k - 1]>> \in lt
    BY <1>1, <1>3, <2>1
  <2> QED  BY <1>1, <1>2, <1>3, <2>2
<1>6. ASSUME NEW a \in B PROVE \E k \in 1 .. Len(s) : s[k] = a
  <2>1. PICK n \in i .. j : a = l[n]
    OBVIOUS
  <2>2. n - i + 1 \in 1 .. Len(s) /\ i + (n - i + 1) - 1 = n
    BY <1>1, <1>2
  <2> QED  BY <1>2, <2>1, <2>2
<1>7. Ranked(s, B, new)
  BY <1>4, <1>5, <1>6 DEF Ranked
<1> QED  BY <1>7 DEF s

(* The indices that hold of all smaller ones too are those up to a number.  *)
LEMMA Initial ==
  ASSUME NEW n \in Nat, NEW U, U \subseteq 1 .. n,
         \A i \in U : \A j \in 1 .. n : j < i => j \in U
  PROVE  Cardinality(U) \in 0 .. n /\ U = 1 .. Cardinality(U)
<1> DEFINE Up(k) == k <= n => \E c \in 0 .. k : U \cap (1 .. k) = 1 .. c
           P == { k \in Nat : Up(k) }
<1>1. 0 \in P
  <2>1. U \cap (1 .. 0) = 1 .. 0
    OBVIOUS
  <2> QED  BY <2>1
<1>2. ASSUME NEW k \in Nat, k \in P PROVE k + 1 \in P
  <2>1. ASSUME k + 1 <= n PROVE \E c \in 0 .. k + 1 : U \cap (1 .. k + 1) = 1 .. c
    <3>1. PICK c \in 0 .. k : U \cap (1 .. k) = 1 .. c
      BY <1>2, <2>1
    <3>2. 1 .. k + 1 = (1 .. k) \cup {k + 1}
      OBVIOUS
    <3>3. CASE k + 1 \in U
      <4>1. \A j \in 1 .. k : j \in U
        BY <2>1, <3>3
      <4>2. U \cap (1 .. k + 1) = 1 .. k + 1
        BY <3>2, <3>3, <4>1
      <4> QED  BY <4>2
    <3>4. CASE k + 1 \notin U
      <4>1. U \cap (1 .. k + 1) = 1 .. c
        BY <3>1, <3>2, <3>4
      <4> QED  BY <4>1
    <3> QED  BY <3>3, <3>4
  <2> QED  BY <2>1
<1>3. Nat \subseteq P
  <2> HIDE DEF P
  <2> QED  BY <1>1, <1>2, AllReached
<1>4. PICK c \in 0 .. n : U \cap (1 .. n) = 1 .. c
  BY <1>3
<1>5. U = 1 .. c
  BY <1>4
<1>6. Cardinality(1 .. c) = c
  BY FS_Interval
<1> QED  BY <1>5, <1>6

(* The list has all the nodes and no others, each once.                     *)
LEMMA RankedRange ==
  ASSUME NEW l, NEW A, NEW lt, Order(lt, A), Ranked(l, A, lt)
  PROVE  Range(l) = A /\ Len(l) = Cardinality(A)
<1>1. /\ Len(l) \in Nat /\ DOMAIN l = 1 .. Len(l)
      /\ \A i \in 1 .. Len(l) : l[i] \in A
      /\ \A i, j \in 1 .. Len(l) : l[i] = l[j] => i = j
      /\ \A a \in A : \E i \in 1 .. Len(l) : l[i] = a
  BY RankedFacts DEF Ranked
<1>2. Range(l) = A
  BY <1>1 DEF Range
<1>3. l \in Bijection(1 .. Len(l), A)
  <2>1. l \in [1 .. Len(l) -> A]
    BY DEF Ranked
  <2> QED  BY <1>1, <2>1 DEF Bijection, Injection, Surjection, IsInjective
<1>4. Cardinality(1 .. Len(l)) = Len(l) /\ IsFiniteSet(1 .. Len(l))
  BY <1>1, FS_Interval
<1>5. ExistsBijection(1 .. Len(l), A)
  BY <1>3 DEF ExistsBijection
<1>6. Cardinality(A) = Len(l)
  BY <1>4, <1>5, FS_Bijection
<1> QED  BY <1>2, <1>6

-----------------------------------------------------------------------------
(* A node that goes behind those with its key. *)
LEMMA RankedInsert ==
  ASSUME NEW l, NEW A, NEW lt, A \subseteq Nodes, KeyOrder(lt, A), Ranked(l, A, lt),
         NEW z \in Nodes, z \notin A
  PROVE  Ranked(Promise!Inserted(l, z), A \cup {z}, Behind(lt, A, z))
<1> DEFINE new == Behind(lt, A, z)
           n == Len(l)
           U == { i \in DOMAIN l : Key(l[i]) <= Key(z) }
           c == Cardinality(U)
           X == { l[k] : k \in 1 .. c }
           Y == { l[k] : k \in c + 1 .. n }
           before == SubSeq(l, 1, c)
           after == SubSeq(l, c + 1, n)
<1>1. Order(lt, A) /\ \A a, b \in A : <<a, b>> \in lt => Key(a) <= Key(b)
  BY DEF KeyOrder
<1>2. /\ l \in Seq(A) /\ n \in Nat /\ DOMAIN l = 1 .. n
      /\ \A k \in 1 .. n : l[k] \in A
      /\ \A i, k \in 1 .. n : i < k => <<l[i], l[k]>> \in lt
      /\ \A a \in A : \E k \in 1 .. n : l[k] = a
  BY DEF Ranked
<1>3. \A m \in Nodes : Key(m) \in Int
  BY RBTreeAssumption DEF Key, Nodes
<1>4. c \in 0 .. n /\ U = 1 .. c
  <2>1. U \subseteq 1 .. n
    BY <1>2
  <2>2. ASSUME NEW i \in U, NEW j \in 1 .. n, j < i PROVE j \in U
    <3>1. l[i] \in A /\ l[j] \in A /\ Key(l[i]) <= Key(z) /\ Key(l[j]) <= Key(l[i])
      BY <1>1, <1>2, <2>1, <2>2
    <3> QED  BY <1>2, <1>3, <3>1
  <2> HIDE DEF U, n
  <2> QED  BY <1>2, <2>1, <2>2, Initial
<1>5. Promise!Inserted(l, z) = before \o <<z>> \o after
  <2>1. Promise!Inserted(l, z) = InsertAt(l, c + 1, z)
    BY DEF Promise!Inserted, Promise!InsertAt, InsertAt, Promise!Cardinality, Cardinality
  <2>2. (c + 1) - 1 = c
    BY <1>4
  <2> HIDE DEF c, n
  <2>3. InsertAt(l, c + 1, z) = SubSeq(l, 1, (c + 1) - 1) \o <<z>> \o SubSeq(l, c + 1, Len(l))
    BY DEF InsertAt
  <2> QED  BY <2>1, <2>2, <2>3 DEF n
<1>6. /\ Order(new, A \cup {z})
      /\ \A a, b \in A : <<a, b>> \in lt => <<a, b>> \in new
      /\ \A m \in A : On(new, SideFor(m, z), z, m)
  <2>1. /\ KeyOrder(new, A \cup {z})
        /\ \A e \in Sides : \A a, b \in A : On(lt, e, a, b) => On(new, e, a, b)
        /\ \A m \in A : On(new, SideFor(m, z), z, m)
    BY BehindFacts
  <2> QED  BY <2>1, SideFacts DEF On, KeyOrder
<1>7. \A k \in 1 .. n : k <= c <=> Key(l[k]) <= Key(z)
  BY <1>2, <1>4
<1> HIDE DEF new, c, U
<1>8. Ranked(before, X, new)
  <2>1. c \in Nat /\ 1 \in Nat /\ 1 >= 1 /\ 1 <= c + 1 /\ c <= Len(l)
    BY <1>2, <1>4
  <2> QED  BY <1>6, <2>1, RankedPart
<1>9. Ranked(after, Y, new)
  <2>1. c + 1 \in Nat /\ n \in Nat /\ c + 1 >= 1 /\ c + 1 <= n + 1 /\ n <= Len(l)
    BY <1>2, <1>4
  <2> QED  BY <1>6, <2>1, RankedPart
<1>10. \A x \in X : x \in A /\ <<x, z>> \in new
  <2> SUFFICES ASSUME NEW k \in 1 .. c PROVE l[k] \in A /\ <<l[k], z>> \in new
    OBVIOUS
  <2>1. k \in 1 .. n /\ l[k] \in A /\ Key(l[k]) <= Key(z)
    BY <1>2, <1>4, <1>7
  <2>2. SideFor(l[k], z) = "right"
    BY <1>2, <1>3, <2>1 DEF SideFor
  <2> QED  BY <1>6, <2>1, <2>2 DEF On
<1>11. \A y \in Y : y \in A /\ <<z, y>> \in new
  <2> SUFFICES ASSUME NEW k \in c + 1 .. n PROVE l[k] \in A /\ <<z, l[k]>> \in new
    OBVIOUS
  <2>1. k \in 1 .. n /\ ~(k <= c)
    BY <1>2, <1>4
  <2>2. l[k] \in A /\ Key(l[k]) > Key(z)
    BY <1>2, <1>3, <1>7, <2>1
  <2>3. SideFor(l[k], z) = "left"
    BY <2>2 DEF SideFor
  <2> QED  BY <1>6, <2>2, <2>3 DEF On
<1>12. X \cup {z} \cup Y = A \cup {z}
  <2>1. ASSUME NEW a \in A PROVE a \in X \cup Y
    <3>1. PICK k \in 1 .. n : l[k] = a
      BY <1>2
    <3>2. k \in 1 .. c \/ k \in c + 1 .. n
      BY <1>2, <1>4
    <3> QED  BY <3>1, <3>2
  <2> QED  BY <1>10, <1>11, <2>1
<1> HIDE DEF X, Y, before, after
<1>13. Ranked(before \o <<z>> \o after, X \cup {z} \cup Y, new)
  <2>1. X \subseteq A \cup {z} /\ Y \subseteq A \cup {z} /\ z \in A \cup {z}
    BY <1>10, <1>11
  <2> QED  BY <1>6, <1>8, <1>9, <1>10, <1>11, <2>1, RankedJoin
<1> QED  BY <1>5, <1>12, <1>13 DEF new

(* A node that is taken out. *)
LEMMA RankedRemove ==
  ASSUME NEW l, NEW A, NEW lt, Order(lt, A), Ranked(l, A, lt), NEW i \in 1 .. Len(l)
  PROVE  Ranked(RemoveAt(l, i), A \ {l[i]}, lt)
<1> DEFINE s == RemoveAt(l, i)
           n == Len(l)
           B == A \ {l[i]}
           Old(k) == IF k < i THEN k ELSE k + 1
<1>1. /\ l \in Seq(A) /\ n \in Nat
      /\ \A k \in 1 .. n : l[k] \in A
      /\ \A k, m \in 1 .. n : k < m => <<l[k], l[m]>> \in lt
      /\ \A k, m \in 1 .. n : l[k] = l[m] => k = m
      /\ \A a \in A : \E k \in 1 .. n : l[k] = a
  BY RankedFacts DEF Ranked
<1>2. /\ s \in Seq(A) /\ Len(s) = n - 1
      /\ \A k \in 1 .. Len(s) : s[k] = l[Old(k)]
  <2> DEFINE a == SubSeq(l, 1, i - 1)
             b == SubSeq(l, i + 1, n)
  <2>1. a \in Seq(A) /\ Len(a) = i - 1 /\ \A k \in 1 .. i - 1 : a[k] = l[k]
    BY <1>1
  <2>2. b \in Seq(A) /\ Len(b) = n - i /\ \A k \in 1 .. n - i : b[k] = l[i + k]
    BY <1>1
  <2>3. s = a \o b
    BY DEF RemoveAt
  <2> HIDE DEF a, b, s
  <2>4. s \in Seq(A) /\ Len(s) = n - 1
    <3>1. s \in Seq(A) /\ Len(s) = Len(a) + Len(b)
      BY <2>1, <2>2, <2>3, ConcatProperties
    <3>2. (i - 1) + (n - i) = n - 1
      BY <1>1
    <3> QED  BY <2>1, <2>2, <3>1, <3>2
  <2>5. \A k \in 1 .. Len(a) + Len(b) :
          s[k] = IF k <= Len(a) THEN a[k] ELSE b[k - Len(a)]
    BY <2>1, <2>2, <2>3, ConcatProperties
  <2>6. ASSUME NEW k \in 1 .. Len(s) PROVE s[k] = l[Old(k)]
    <3>0. k \in 1 .. Len(a) + Len(b) /\ Len(a) = i - 1 /\ k \in 1 .. n - 1
      BY <1>1, <2>1, <2>2, <2>4
    <3>1. CASE k < i
      <4>1. k <= Len(a) /\ k \in 1 .. i - 1 /\ Old(k) = k
        BY <3>0, <3>1
      <4> HIDE DEF Old
      <4>2. s[k] = a[k]
        BY <2>5, <3>0, <4>1
      <4> QED  BY <2>1, <4>1, <4>2
    <3>2. CASE ~(k < i)
      <4>1. /\ ~(k <= Len(a)) /\ k - Len(a) = k - (i - 1) /\ k - (i - 1) \in 1 .. n - i
            /\ i + (k - (i - 1)) = k + 1 /\ Old(k) = k + 1
        BY <1>1, <3>0, <3>2
      <4> HIDE DEF Old
      <4>2. s[k] = b[k - (i - 1)]
        BY <2>5, <3>0, <4>1
      <4>3. b[k - (i - 1)] = l[i + (k - (i - 1))]
        BY <2>2, <4>1
      <4> QED  BY <4>1, <4>2, <4>3
    <3> QED  BY <3>1, <3>2
  <2> HIDE DEF Old
  <2> QED  BY <2>4, <2>6
<1> HIDE DEF s
<1>9. n \in Nat /\ Len(s) = n - 1 /\ i \in 1 .. n
  BY <1>1, <1>2
<1> HIDE DEF n
<1>3. \A k \in 1 .. Len(s) : Old(k) \in 1 .. n /\ Old(k) # i
  BY <1>9
<1>4. \A k, m \in 1 .. Len(s) : k < m => Old(k) < Old(m)
  BY <1>9
<1>5. s \in Seq(B)
  <2>1. \A k \in 1 .. Len(s) : s[k] \in B
    <3> SUFFICES ASSUME NEW k \in 1 .. Len(s) PROVE s[k] \in B
      OBVIOUS
    <3> HIDE DEF Old
    <3>1. s[k] = l[Old(k)] /\ Old(k) \in 1 .. n /\ Old(k) # i
      BY <1>2, <1>3
    <3>2. l[Old(k)] \in A /\ l[Old(k)] # l[i]
      BY <1>1, <1>9, <3>1
    <3> QED  BY <3>1, <3>2
  <2>2. s \in Seq(A)
    BY <1>2
  <2> HIDE DEF B
  <2> QED  BY <2>1, <2>2
<1>6. \A k, m \in 1 .. Len(s) : k < m => <<s[k], s[m]>> \in lt
  <2> SUFFICES ASSUME NEW k \in 1 .. Len(s), NEW m \in 1 .. Len(s), k < m
               PROVE  <<s[k], s[m]>> \in lt
    OBVIOUS
  <2> HIDE DEF Old
  <2>1. /\ s[k] = l[Old(k)] /\ s[m] = l[Old(m)]
        /\ Old(k) \in 1 .. n /\ Old(m) \in 1 .. n /\ Old(k) < Old(m)
    BY <1>2, <1>3, <1>4
  <2>2. <<l[Old(k)], l[Old(m)]>> \in lt
    BY <1>1, <2>1
  <2> QED  BY <2>1, <2>2
<1>7. ASSUME NEW a \in B PROVE \E k \in 1 .. Len(s) : s[k] = a
  <2>1. PICK m \in 1 .. n : l[m] = a
    BY <1>1
  <2>2. m # i
    BY <2>1
  <2>3. CASE m < i
    <3>1. m \in 1 .. Len(s) /\ Old(m) = m
      BY <1>9, <2>3
    <3> HIDE DEF Old
    <3> QED  BY <1>2, <2>1, <3>1
  <2>4. CASE m > i
    <3>1. m - 1 \in 1 .. Len(s) /\ Old(m - 1) = m
      BY <1>9, <2>4
    <3> HIDE DEF Old
    <3> QED  BY <1>2, <2>1, <3>1
  <2>5. m < i \/ m > i
    BY <1>9, <2>2
  <2> QED  BY <2>3, <2>4, <2>5
<1>10. Ranked(s, B, lt)
  BY <1>5, <1>6, <1>7 DEF Ranked
<1> QED  BY <1>10 DEF s

-----------------------------------------------------------------------------
(* InOrder lists the nodes of the tree in the order. *)
LEMMA InOrderRanked ==
  ASSUME NEW t, NEW A, NEW lt, NEW sub, Shaped(t, A, lt, sub)
  PROVE  Ranked(InOrder(t, A), A, lt)
<1> DEFINE D == A \cup {nil}
           Has(x, l) == Ranked(l, sub[x], lt)
           below[x \in A \cup {nil}] ==
             IF x = nil THEN <<>> ELSE below[t.left[x]] \o <<x>> \o below[t.right[x]]
<1>1. /\ nil \notin A /\ sub[nil] = {} /\ sub[t.left[root]] = A
      /\ t.left[root] \in D /\ Order(lt, A)
      /\ t.left = t["left"] /\ t.right = t["right"] /\ "left" \in Sides /\ "right" \in Sides
      /\ Opposite("left") = "right"
  <2>1. t.left[root] \in D
    BY TopFacts
  <2> QED  BY <2>1, ShapeFacts, TreeFields, SideFacts DEF Shaped, Search, Opposite
<1>2. \A x \in A : /\ Cardinality(sub[x]) \in Nat /\ Cardinality(sub[x]) # 0
                   /\ Cardinality(sub[x]) <= NODES /\ sub[x] \subseteq A
  <2>1. \A x \in A : /\ x \in sub[x] /\ IsFiniteSet(sub[x]) /\ Cardinality(sub[x]) \in Nat
                     /\ Cardinality(sub[x]) <= NODES /\ sub[x] \subseteq A
    BY SubGrows
  <2> QED  BY <2>1, FS_EmptySet
<1>3. Cardinality(sub[nil]) = 0
  BY <1>1, FS_EmptySet
<1>4. \A x \in A : \A e \in Sides : t[e][x] \in D /\ Cardinality(sub[t[e][x]]) \in Nat
                     /\ Cardinality(sub[t[e][x]]) + 1 <= Cardinality(sub[x])
  <2> SUFFICES ASSUME NEW x \in A, NEW e \in Sides
               PROVE  t[e][x] \in D /\ Cardinality(sub[t[e][x]]) \in Nat
                      /\ Cardinality(sub[t[e][x]]) + 1 <= Cardinality(sub[x])
    OBVIOUS
  <2>1. CASE t[e][x] = nil
    BY <1>2, <1>3, <2>1
  <2>2. CASE t[e][x] # nil
    <3>1. t[e][x] \in A /\ t.parent[t[e][x]] = x
      BY <2>2, ShapeFacts
    <3> QED  BY <1>2, <3>1, SubGrows
  <2> QED  BY <2>1, <2>2
<1>5. ASSUME NEW x \in A, NEW l, NEW r, Has(t.left[x], l), Has(t.right[x], r)
      PROVE  Has(x, l \o <<x>> \o r)
  <2> DEFINE X == sub[t.left[x]]
             Y == sub[t.right[x]]
  <2>1. /\ sub[x] = X \cup {x} \cup Y
        /\ \A m \in X : m \in A /\ On(lt, "left", m, x)
        /\ \A m \in Y : m \in A /\ On(lt, "right", m, x)
    <3>1. /\ sub[x] = {x} \cup sub[t["left"][x]] \cup sub[t["right"][x]]
          /\ \A m \in sub[t["left"][x]] : m \in A /\ On(lt, "left", m, x)
      BY <1>1, ChildOn DEF Shaped
    <3>2. \A m \in sub[t["right"][x]] : m \in A /\ On(lt, "right", m, x)
      BY <1>1, ChildOn DEF Shaped
    <3> QED  BY <1>1, <3>1, <3>2
  <2>2. (\A m \in X : <<m, x>> \in lt) /\ (\A m \in Y : <<x, m>> \in lt)
    BY <2>1 DEF On
  <2>3. X \subseteq A /\ Y \subseteq A /\ Ranked(l, X, lt) /\ Ranked(r, Y, lt)
    BY <1>5, <2>1
  <2> HIDE DEF X, Y
  <2>4. Ranked(l \o <<x>> \o r, X \cup {x} \cup Y, lt)
    BY <1>1, <2>2, <2>3, RankedJoin
  <2> QED  BY <2>1, <2>4
<1>6. Has(nil, <<>>)
  BY <1>1 DEF Ranked
<1> HIDE DEF Has, D
<1>7. \A x \in D : x = nil \/ x \in A
  BY DEF D
<1>8. ASSUME NEW P, 0 \in P, \A i \in Nat : i \in P => i + 1 \in P
      PROVE  NODES \in P
  BY <1>8, AllReached, Names
<1>9. \A x \in D : \E l : Has(x, l)
  <2> DEFINE P == { i \in Nat : \A x \in D : Cardinality(sub[x]) <= i => \E l : Has(x, l) }
  <2>1. 0 \in P
    BY <1>2, <1>6, <1>7
  <2>2. ASSUME NEW i \in Nat, i \in P PROVE i + 1 \in P
    <3>1. ASSUME NEW x \in A, Cardinality(sub[x]) <= i + 1 PROVE \E l : Has(x, l)
      <4>1. /\ t.left[x] \in D /\ Cardinality(sub[t.left[x]]) <= i
            /\ t.right[x] \in D /\ Cardinality(sub[t.right[x]]) <= i
        BY <1>1, <1>2, <1>4, <3>1
      <4>2. PICK l : Has(t.left[x], l)
        BY <2>2, <4>1
      <4>3. PICK r : Has(t.right[x], r)
        BY <2>2, <4>1
      <4> QED  BY <1>5, <4>2, <4>3
    <3> QED  BY <1>6, <1>7, <3>1
  <2> HIDE DEF P
  <2>3. NODES \in P
    BY <1>8, <2>1, <2>2
  <2> QED  BY <1>2, <1>6, <1>7, <2>3 DEF P
<1>10. ASSUME NEW x \in D, NEW l, NEW m, Has(x, l), Has(x, m) PROVE l = m
  <2>1. Order(lt, sub[x])
    BY <1>1, <1>2, <1>7, SubOrder
  <2> QED  BY <1>10, <2>1, RankedUnique DEF Has
<1> DEFINE g == [x \in D |-> CHOOSE l : Has(x, l)]
<1>11. \A x \in D : Has(x, g[x])
  BY <1>9
<1> HIDE DEF g
<1>12. g = [x \in D |-> IF x = nil THEN <<>> ELSE g[t.left[x]] \o <<x>> \o g[t.right[x]]]
  <2>1. ASSUME NEW x \in A PROVE g[x] = g[t.left[x]] \o <<x>> \o g[t.right[x]]
    <3>1. x \in D /\ t.left[x] \in D /\ t.right[x] \in D
      BY <1>1, <1>4 DEF D
    <3>2. Has(x, g[t.left[x]] \o <<x>> \o g[t.right[x]])
      BY <1>5, <1>11, <3>1
    <3> QED  BY <1>10, <1>11, <3>1, <3>2
  <2>2. g[nil] = <<>>
    BY <1>6, <1>10, <1>11 DEF D
  <2>3. \A x \in D : g[x] = IF x = nil THEN <<>> ELSE g[t.left[x]] \o <<x>> \o g[t.right[x]]
    BY <1>7, <2>1, <2>2
  <2>4. g = [x \in D |-> g[x]]
    BY DEF g
  <2> QED  BY <2>3, <2>4
<1>13. below = CHOOSE f : f = [x \in D |->
                 IF x = nil THEN <<>> ELSE f[t.left[x]] \o <<x>> \o f[t.right[x]]]
  BY DEF below, D
<1>14. InOrder(t, A) = below[t.left[root]]
  BY DEF InOrder, below
<1> HIDE DEF below
<1>15. below = [x \in D |-> IF x = nil THEN <<>> ELSE below[t.left[x]] \o <<x>> \o below[t.right[x]]]
  BY <1>12, <1>13
<1>16. \A x \in D : Has(x, below[x])
  <2> DEFINE P == { i \in Nat : \A x \in D : Cardinality(sub[x]) <= i => Has(x, below[x]) }
  <2>0. nil \in D /\ below[nil] = <<>>
        /\ \A x \in A : below[x] = below[t.left[x]] \o <<x>> \o below[t.right[x]]
    BY <1>1, <1>15 DEF D
  <2>1. 0 \in P
    BY <1>2, <1>6, <1>7, <2>0
  <2>2. ASSUME NEW i \in Nat, i \in P PROVE i + 1 \in P
    <3>1. ASSUME NEW x \in A, Cardinality(sub[x]) <= i + 1 PROVE Has(x, below[x])
      <4>1. /\ t.left[x] \in D /\ Cardinality(sub[t.left[x]]) <= i
            /\ t.right[x] \in D /\ Cardinality(sub[t.right[x]]) <= i
        BY <1>1, <1>2, <1>4, <3>1
      <4>2. Has(t.left[x], below[t.left[x]]) /\ Has(t.right[x], below[t.right[x]])
        BY <2>2, <4>1
      <4> QED  BY <1>5, <2>0, <4>2
    <3> QED  BY <1>6, <1>7, <2>0, <3>1
  <2> HIDE DEF P
  <2>3. NODES \in P
    BY <1>8, <2>1, <2>2
  <2> QED  BY <1>2, <1>6, <1>7, <2>0, <2>3 DEF P
<1>17. Has(t.left[root], below[t.left[root]])
  BY <1>1, <1>16
<1> QED  BY <1>1, <1>14, <1>17 DEF Has

-----------------------------------------------------------------------------
(* BlackHeights finds the one number of black nodes that all paths have. *)
LEMMA OneBlackHeight ==
  ASSUME NEW t, NEW A, NEW lt, NEW sub, NEW bh, Shaped(t, A, lt, sub),
         Heights(t, A, bh, nil, "left")
  PROVE  BlackHeights(t, A) = {bh[t.left[root]]}
<1> DEFINE D == A \cup {nil}
           One(x) == IF t.red[x] THEN 0 ELSE 1
           below[x \in A \cup {nil}] ==
             IF x = nil THEN {0}
             ELSE { h + (IF t.red[x] THEN 0 ELSE 1) : h \in below[t.left[x]] \cup below[t.right[x]] }
           g == [x \in D |-> {bh[x]}]
<1>1. /\ nil \notin A /\ sub[nil] = {} /\ t.left[root] \in D
      /\ t.left = t["left"] /\ t.right = t["right"] /\ "left" \in Sides /\ "right" \in Sides
  <2>1. t.left[root] \in D
    BY TopFacts
  <2> QED  BY <2>1, ShapeFacts, TreeFields, SideFacts DEF Shaped, Search
<1>2. /\ bh[nil] = 0 /\ \A x \in A : bh[x] = bh[t.left[x]] + One(x)
      /\ \A x \in A : bh[x] = bh[t.right[x]] + One(x)
  <2>1. bh[nil] = 0
    BY DEF Heights
  <2>2. ASSUME NEW x \in A, NEW e \in Sides PROVE bh[x] = bh[t[e][x]] + One(x)
    <3>1. /\ bh[x] = bh[t[e][x]] + (IF t.red[x] THEN 0 ELSE 1)
                       + (IF x = nil /\ e = "left" THEN 1 ELSE 0)
          /\ x # nil
      BY <1>1 DEF Heights
    <3>2. bh[t[e][x]] \in Nat
      <4>1. t[e][x] \in N /\ bh \in [N -> Nat]
        BY ShapeFacts DEF Heights
      <4> QED  BY <4>1
    <3> QED  BY <3>1, <3>2
  <2> QED  BY <1>1, <2>1, <2>2
<1>3. \A x \in D : x = nil \/ x \in A
  OBVIOUS
<1>4. \A x \in A : t.left[x] \in D /\ t.right[x] \in D
  <2>1. \A x \in A : \A e \in Sides : t[e][x] \in D
    BY ShapeFacts
  <2> QED  BY <1>1, <2>1
<1>5. g = [x \in D |-> IF x = nil THEN {0}
                       ELSE { h + (IF t.red[x] THEN 0 ELSE 1) : h \in g[t.left[x]] \cup g[t.right[x]] }]
  <2>1. ASSUME NEW x \in A
        PROVE  g[x] = { h + (IF t.red[x] THEN 0 ELSE 1) : h \in g[t.left[x]] \cup g[t.right[x]] }
    <3>1. /\ g[x] = {bh[x]} /\ g[t.left[x]] = {bh[t.left[x]]}
          /\ g[t.right[x]] = {bh[t.right[x]]}
      BY <1>4
    <3>2. bh[x] = bh[t.left[x]] + One(x) /\ bh[x] = bh[t.right[x]] + One(x)
      BY <1>2
    <3> HIDE DEF g
    <3> QED  BY <3>1, <3>2
  <2>2. g[nil] = {0}
    BY <1>2
  <2>3. \A x \in D : g[x] = IF x = nil THEN {0}
                       ELSE { h + (IF t.red[x] THEN 0 ELSE 1) : h \in g[t.left[x]] \cup g[t.right[x]] }
    <3> HIDE DEF g, D
    <3> QED  BY <1>3, <2>1, <2>2
  <2>4. g = [x \in D |-> g[x]]
    BY DEF g
  <2> HIDE DEF g, D
  <2> QED  BY <2>3, <2>4
<1> HIDE DEF g
<1>6. below = CHOOSE f : f = [x \in D |->
                 IF x = nil THEN {0}
                 ELSE { h + (IF t.red[x] THEN 0 ELSE 1) : h \in f[t.left[x]] \cup f[t.right[x]] }]
  BY DEF below, D
<1>7. BlackHeights(t, A) = below[t.left[root]]
  BY DEF BlackHeights, below
<1> HIDE DEF below
<1>8. below = [x \in D |->
                 IF x = nil THEN {0}
                 ELSE { h + (IF t.red[x] THEN 0 ELSE 1) : h \in below[t.left[x]] \cup below[t.right[x]] }]
  BY <1>5, <1>6
<1>9. /\ below[nil] = {0}
      /\ \A x \in A : below[x] =
           { h + (IF t.red[x] THEN 0 ELSE 1) : h \in below[t.left[x]] \cup below[t.right[x]] }
  BY <1>1, <1>8
<1>10. ASSUME NEW x \in A, below[t.left[x]] = {bh[t.left[x]]}, below[t.right[x]] = {bh[t.right[x]]}
       PROVE  below[x] = {bh[x]}
  BY <1>2, <1>9, <1>10
<1>11. \A x \in A : /\ Cardinality(sub[x]) \in Nat /\ Cardinality(sub[x]) # 0
                    /\ Cardinality(sub[x]) <= NODES
  <2>1. \A x \in A : /\ x \in sub[x] /\ IsFiniteSet(sub[x]) /\ Cardinality(sub[x]) \in Nat
                     /\ Cardinality(sub[x]) <= NODES
    BY SubGrows
  <2> QED  BY <2>1, FS_EmptySet
<1>12. Cardinality(sub[nil]) = 0
  BY <1>1, FS_EmptySet
<1>13. \A x \in A : /\ Cardinality(sub[t.left[x]]) \in Nat
                    /\ Cardinality(sub[t.left[x]]) + 1 <= Cardinality(sub[x])
                    /\ Cardinality(sub[t.right[x]]) \in Nat
                    /\ Cardinality(sub[t.right[x]]) + 1 <= Cardinality(sub[x])
  <2>1. ASSUME NEW x \in A, NEW e \in Sides
        PROVE  Cardinality(sub[t[e][x]]) \in Nat
               /\ Cardinality(sub[t[e][x]]) + 1 <= Cardinality(sub[x])
    <3>1. CASE t[e][x] = nil
      BY <1>11, <1>12, <3>1
    <3>2. CASE t[e][x] # nil
      <4>1. t[e][x] \in A /\ t.parent[t[e][x]] = x
        BY <3>2, ShapeFacts
      <4> QED  BY <1>11, <4>1, SubGrows
    <3> QED  BY <3>1, <3>2
  <2> QED  BY <1>1, <2>1
<1>14. \A x \in D : below[x] = {bh[x]}
  <2> DEFINE P == { i \in Nat : \A x \in D : Cardinality(sub[x]) <= i => below[x] = {bh[x]} }
  <2>0. below[nil] = {bh[nil]}
    BY <1>2, <1>9
  <2> HIDE DEF D
  <2>1. 0 \in P
    BY <1>3, <1>11, <2>0
  <2>2. ASSUME NEW i \in Nat, i \in P PROVE i + 1 \in P
    <3>1. ASSUME NEW x \in A, Cardinality(sub[x]) <= i + 1 PROVE below[x] = {bh[x]}
      <4>1. /\ t.left[x] \in D /\ Cardinality(sub[t.left[x]]) <= i
            /\ t.right[x] \in D /\ Cardinality(sub[t.right[x]]) <= i
        BY <1>4, <1>11, <1>13, <3>1
      <4>2. below[t.left[x]] = {bh[t.left[x]]} /\ below[t.right[x]] = {bh[t.right[x]]}
        BY <2>2, <4>1
      <4> QED  BY <1>10, <4>2
    <3> QED  BY <1>3, <2>0, <3>1
  <2> HIDE DEF P
  <2>3. NODES \in P
    BY <2>1, <2>2, AllReached, Names
  <2> QED  BY <1>3, <1>11, <2>0, <2>3 DEF P
<1> QED  BY <1>1, <1>7, <1>14

-----------------------------------------------------------------------------
(* The empty tree of RBTreeCreate satisfies the invariant.                  *)
LEMMA GoodInit == RBInit => Good(tree, allocated, {})
<1> SUFFICES ASSUME RBInit PROVE Good(tree, allocated, {})
  OBVIOUS
<1> DEFINE t == tree
           sub == [n \in N |-> {}]
           bh == [n \in N |-> 0]
<1>1. allocated = {} /\ t = RBTreeCreate
  BY DEF RBInit
<1>2. /\ t \in Tree
      /\ \A n \in N : /\ t.left[n] = nil /\ t.right[n] = nil
                      /\ t.parent[n] = nil /\ ~t.red[n]
      /\ \A e \in Sides : \A n \in N : t[e][n] = nil
  BY <1>1, Names DEF RBTreeCreate, Tree, N, Sides
<1> HIDE DEF t
<1>3. Links(t, {})
  BY <1>2, Names DEF Links
<1>4. Order({}, {}) /\ KeyOrder({}, {})
  BY DEF Order, KeyOrder
<1>5. Search(t, {}, {}, sub)
  BY <1>2, Names DEF Search
<1>6. Colours(t, {}, nil)
  BY <1>2, Names DEF Colours
<1>7. Heights(t, {}, bh, nil, "left")
  BY Names DEF Heights
<1>8. ~t.red[t.left[root]]
  BY <1>2, Names
<1> QED  BY <1>1, <1>3, <1>4, <1>5, <1>6, <1>7, <1>8 DEF Good, Balanced, Shaped, t

(* What Linked and RedBlack say follows from the invariant. *)
LEMMA GoodLinked ==
  ASSUME NEW lt, Good(tree, allocated, lt)
  PROVE  Linked
<1>1. PICK sub : Shaped(tree, allocated, lt, sub)
  BY DEF Good, Balanced
<1>2. Order(lt, allocated)
  BY <1>1 DEF Shaped
<1>3. Ranked(list, allocated, lt)
  BY <1>1, InOrderRanked DEF list
<1>4. Range(list) = allocated /\ Len(list) = Cardinality(allocated)
  BY <1>2, <1>3, RankedRange
<1>5. /\ tree.right[root] = nil
      /\ \A e \in Sides : tree[e][nil] = nil
      /\ tree.left = tree["left"] /\ tree.right = tree["right"]
      /\ \A n \in allocated \cup {root} : \A d \in Sides :
           tree[d][n] # nil => tree.parent[tree[d][n]] = n
  BY <1>1, ShapeFacts, TreeFields
<1> QED  BY <1>4, <1>5 DEF Linked, Sides

(* So does what RedBlack says.                                              *)
LEMMA GoodRedBlack ==
  ASSUME NEW lt, Good(tree, allocated, lt)
  PROVE  RedBlack
<1>1. PICK sub : Shaped(tree, allocated, lt, sub)
  BY DEF Good, Balanced
<1>2. PICK bh : Heights(tree, allocated, bh, nil, "left")
  BY DEF Good, Balanced
<1>3. /\ ~tree.red[nil] /\ ~tree.red[root] /\ ~tree.red[tree.left[root]]
      /\ \A n \in allocated : tree.red[n] => ~tree.red[tree.parent[n]]
  BY <1>1, ShapeFacts DEF Good, Balanced, Colours
<1>4. Cardinality(BlackHeights(tree, allocated)) = 1
  <2>1. BlackHeights(tree, allocated) = {bh[tree.left[root]]}
    BY <1>1, <1>2, OneBlackHeight
  <2>2. \A x : Cardinality({x}) = 1
    BY FS_Singleton
  <2> QED  BY <2>1, <2>2
<1> QED  BY <1>3, <1>4 DEF RedBlack

-----------------------------------------------------------------------------
(* z is the first node above x that x is not on side d of, or root: among   *)
(* the nodes outside the subtree of x, the next on side d of x.             *)
Ancestor(A, sub, lt, d, x, z) ==
  \/ z = root /\ \A m \in A \ sub[x] : ~On(lt, d, m, x)
  \/ /\ z \in A \ sub[x] /\ On(lt, d, z, x)
     /\ \A m \in A \ sub[x] : On(lt, d, m, x) => m = z \/ On(lt, d, m, z)

(* What is the next ancestor on side d for the parent is so for a child     *)
(* on side d; for one on the other side it is the parent.                   *)
LEMMA ClimbStep ==
  ASSUME NEW t, NEW A, NEW lt, NEW sub, Shaped(t, A, lt, sub),
         NEW d \in Sides, NEW x \in A, NEW p, p = t.parent[x]
  PROVE  /\ p = root => Ancestor(A, sub, lt, d, x, p)
         /\ p # root /\ x # t[d][p] => Ancestor(A, sub, lt, d, x, p)
         /\ p # root /\ x = t[d][p] =>
              \A z : Ancestor(A, sub, lt, d, p, z) => Ancestor(A, sub, lt, d, x, z)
<1> DEFINE o == Opposite(d)
<1>1. /\ o \in Sides /\ Opposite(o) = d /\ \A e \in Sides : e # d => e = o
      /\ root \notin A /\ nil \notin A /\ Order(lt, A) /\ p \in A \cup {root}
      /\ x \in sub[x] /\ sub[x] \subseteq A
  BY SideFacts, ShapeFacts, SubGrows DEF Shaped
<1> HIDE DEF o
<1>2. \A a, b \in A : /\ On(lt, d, a, b) <=> On(lt, o, b, a)
                      /\ ~(On(lt, d, a, b) /\ On(lt, o, a, b))
                      /\ ~On(lt, d, a, a)
  BY <1>1, OnFacts DEF o
<1>3. \A a, b, c \in A : On(lt, d, a, b) /\ On(lt, d, b, c) => On(lt, d, a, c)
  BY <1>1, OnFacts
<1>4. ASSUME NEW k \in A, NEW m \in A \ sub[k], NEW a \in sub[k], On(lt, d, m, a)
      PROVE  \A b \in sub[k] : b \in A /\ On(lt, d, m, b)
  <2>1. PICK e \in Sides : \A b \in sub[k] : On(lt, e, b, m)
    BY Apart
  <2>2. sub[k] \subseteq A
    BY SubGrows
  <2>3. e # d
    BY <1>2, <1>4, <2>1, <2>2
  <2>4. e = o
    BY <1>1, <2>3
  <2> QED  BY <1>2, <2>1, <2>2, <2>4
<1>5. CASE p = root
  <2>1. sub[x] = A
    <3>1. x = t.left[root]
      BY <1>5, TopFacts
    <3> QED  BY <3>1 DEF Shaped, Search
  <2> QED  BY <1>5, <2>1 DEF Ancestor
<1>6. CASE p # root /\ x # t[d][p]
  <2>1. p \in A /\ x = t[o][p]
    <3>1. Side(t, x) \in Sides /\ t[Side(t, x)][p] = x
      BY ShapeFacts
    <3> QED  BY <1>1, <1>6, <3>1
  <2>2. /\ sub[p] = {p} \cup sub[x] \cup sub[t[d][p]] /\ p \in sub[p] /\ p \notin sub[x]
        /\ On(lt, o, x, p) /\ sub[x] \subseteq sub[p]
        /\ \A m \in sub[t[d][p]] : m \in A /\ On(lt, d, m, p)
    <3>1. /\ sub[p] = {p} \cup sub[t[o][p]] \cup sub[t[Opposite(o)][p]] /\ p \in sub[p]
          /\ p \notin sub[t[o][p]] /\ sub[t[o][p]] \subseteq sub[p]
          /\ \A m \in sub[t[o][p]] : On(lt, o, m, p)
      <4>1. Links(t, A) /\ Search(t, A, lt, sub)
        BY DEF Shaped
      <4>2. p \in A /\ o \in Sides
        BY <1>1, <2>1
      <4> QED  BY <1>1, <4>1, <4>2, ChildOn
    <3>2. \A m \in sub[t[d][p]] : m \in A /\ On(lt, d, m, p)
      BY <2>1, ChildOn DEF Shaped
    <3> QED  BY <1>1, <2>1, <3>1, <3>2
  <2>3. On(lt, d, p, x)
    BY <1>2, <2>1, <2>2
  <2>4. ASSUME NEW m \in A \ sub[x], On(lt, d, m, x) PROVE m = p \/ On(lt, d, m, p)
    <3>1. CASE m \in sub[p]
      BY <2>2, <3>1
    <3>2. CASE m \notin sub[p]
      BY <1>1, <1>4, <2>1, <2>2, <2>4, <3>2
    <3> QED  BY <3>1, <3>2
  <2> QED  BY <1>6, <2>1, <2>2, <2>3, <2>4 DEF Ancestor
<1>7. CASE p # root /\ x = t[d][p]
  <2>1. p \in A
    BY <1>1, <1>7
  <2>2. /\ sub[p] = {p} \cup sub[x] \cup sub[t[o][p]] /\ p \in sub[p]
        /\ On(lt, d, x, p) /\ sub[x] \subseteq sub[p]
        /\ \A m \in sub[t[o][p]] : m \in A /\ On(lt, o, m, p)
    <3>1. /\ sub[p] = {p} \cup sub[t[d][p]] \cup sub[t[o][p]] /\ p \in sub[p]
          /\ sub[t[d][p]] \subseteq sub[p]
          /\ \A m \in sub[t[d][p]] : On(lt, d, m, p)
      BY <1>1, <2>1, ChildOn DEF Shaped, o
    <3>2. \A m \in sub[t[o][p]] : m \in A /\ On(lt, o, m, p)
      BY <1>1, <2>1, ChildOn DEF Shaped
    <3> QED  BY <1>1, <1>7, <3>1, <3>2
  <2>3. ASSUME NEW m \in A \ sub[x], On(lt, d, m, x)
        PROVE  m \in A \ sub[p] /\ On(lt, d, m, p)
    <3>1. On(lt, d, m, p)
      BY <1>3, <2>1, <2>2, <2>3
    <3>2. m # p /\ m \notin sub[t[o][p]]
      BY <1>2, <2>1, <2>2, <3>1
    <3> QED  BY <2>2, <3>1, <3>2
  <2>4. ASSUME NEW z, Ancestor(A, sub, lt, d, p, z)
        PROVE  Ancestor(A, sub, lt, d, x, z)
    <3>1. CASE z = root /\ \A m \in A \ sub[p] : ~On(lt, d, m, p)
      BY <2>3, <3>1 DEF Ancestor
    <3>2. CASE /\ z \in A \ sub[p] /\ On(lt, d, z, p)
               /\ \A m \in A \ sub[p] : On(lt, d, m, p) => m = z \/ On(lt, d, m, z)
      <4>1. On(lt, d, z, x)
        BY <1>1, <1>4, <2>1, <2>2, <3>2
      <4> QED  BY <2>2, <2>3, <3>2, <4>1 DEF Ancestor
    <3> QED  BY <2>4, <3>1, <3>2 DEF Ancestor
  <2> QED  BY <1>7, <2>4
<1> QED  BY <1>5, <1>6, <1>7

(* above[i][y] is the node that i turns up from the parent of y lead to.    *)
Ascent(t, d, above) ==
  /\ above \in [Nat -> [N -> N]]
  /\ \A y \in N : above[0][y] = t.parent[y] /\ Climb(t, d, y) = above[NODES][y]
  /\ \A i \in Nat : \A y \in N :
       above[i + 1][y] = IF t.parent[y] = root \/ y # t[d][t.parent[y]] THEN t.parent[y]
                         ELSE above[i][t.parent[y]]

(* The recursive function of Climb is defined, whatever the links are.      *)
LEMMA AscentExists ==
  ASSUME NEW t \in Tree, NEW d \in Sides
  PROVE  \E above : Ascent(t, d, above)
<1> DEFINE S == [N -> N]
           Stop(y) == t.parent[y] = root \/ y # t[d][t.parent[y]]
           Up(f) == [y \in N |-> IF Stop(y) THEN t.parent[y] ELSE f[t.parent[y]]]
           F == [f \in S |-> Up(f)]
           above[i \in Nat] ==
             [y \in Nodes \cup {nil, root} |->
                LET p == t.parent[y]
                IN  IF i = 0 \/ p = root \/ y # t[d][p] THEN p ELSE above[i - 1][p]]
<1>1. t.parent \in S
  BY TreeFields
<1>2. F \in [S -> S]
  <2>1. \A f \in S : Up(f) \in S
    BY <1>1
  <2> HIDE DEF Up
  <2> QED  BY <2>1
<1> HIDE DEF S, F, Stop
<1>3. PICK g : Iterates(g, S, F, t.parent)
  BY <1>1, <1>2, Iteration, Zenon
<1>4. g = [i \in Nat |-> [y \in N |->
             IF i = 0 \/ Stop(y) THEN t.parent[y] ELSE g[i - 1][t.parent[y]]]]
  <2>1. g \in [Nat -> S] /\ g[0] = t.parent /\ \A i \in Nat : g[i + 1] = F[g[i]]
    BY <1>3 DEF Iterates
  <2>2. ASSUME NEW i \in Nat
        PROVE  g[i] = [y \in N |-> IF i = 0 \/ Stop(y) THEN t.parent[y] ELSE g[i - 1][t.parent[y]]]
    <3>1. CASE i = 0
      <4>1. t.parent = [y \in N |-> t.parent[y]]
        BY <1>1 DEF S
      <4> QED  BY <2>1, <3>1, <4>1
    <3>2. CASE i # 0
      <4>1. i - 1 \in Nat /\ (i - 1) + 1 = i
        BY <3>2
      <4>2. g[i - 1] \in S /\ g[i] = F[g[i - 1]]
        BY <2>1, <4>1
      <4>3. g[i] = Up(g[i - 1])
        BY <4>2 DEF F
      <4> QED  BY <3>2, <4>3
    <3> QED  BY <3>1, <3>2
  <2>3. g = [i \in Nat |-> g[i]]
    BY <2>1
  <2> QED  BY <2>2, <2>3
<1>5. above = CHOOSE f : f = [i \in Nat |-> [y \in N |->
                LET p == t.parent[y]
                IN  IF i = 0 \/ p = root \/ y # t[d][p] THEN p ELSE f[i - 1][p]]]
  BY DEF above, N
<1>6. \A x : Climb(t, d, x) = above[NODES][x]
  BY DEF Climb, above
<1> HIDE DEF above, Up
<1>7. above = [i \in Nat |-> [y \in N |->
                LET p == t.parent[y]
                IN  IF i = 0 \/ p = root \/ y # t[d][p] THEN p ELSE above[i - 1][p]]]
  <2> DEFINE G(f) == [i \in Nat |-> [y \in N |->
                LET p == t.parent[y]
                IN  IF i = 0 \/ p = root \/ y # t[d][p] THEN p ELSE f[i - 1][p]]]
  <2>1. G(g) = [i \in Nat |-> [y \in N |->
             IF i = 0 \/ Stop(y) THEN t.parent[y] ELSE g[i - 1][t.parent[y]]]]
    BY DEF Stop
  <2>2. g = G(g)
    BY <1>4, <2>1
  <2>3. above = CHOOSE f : f = G(f)
    BY <1>5
  <2> HIDE DEF G
  <2>4. above = G(above)
    BY <2>2, <2>3
  <2> QED  BY <2>4 DEF G
<1>8. /\ \A y \in N : above[0][y] = t.parent[y]
      /\ \A i \in Nat : \A y \in N :
           above[i + 1][y] = IF Stop(y) THEN t.parent[y] ELSE above[i][t.parent[y]]
  <2>1. \A y \in N : above[0][y] = t.parent[y]
    BY <1>7
  <2>2. ASSUME NEW i \in Nat, NEW y \in N
        PROVE  above[i + 1][y] = IF Stop(y) THEN t.parent[y] ELSE above[i][t.parent[y]]
    <3>1. i + 1 \in Nat /\ i + 1 # 0 /\ (i + 1) - 1 = i
      OBVIOUS
    <3> QED  BY <1>7, <3>1 DEF Stop
  <2> QED  BY <2>1, <2>2
<1>9. above \in [Nat -> S]
  <2> DEFINE P == { i \in Nat : above[i] \in S }
  <2>1. 0 \in P
    <3>1. above[0] = [y \in N |-> t.parent[y]]
      BY <1>7
    <3> QED  BY <1>1, <3>1 DEF S
  <2>2. ASSUME NEW i \in Nat, i \in P PROVE i + 1 \in P
    <3>1. above[i] \in [N -> N] /\ t.parent \in [N -> N]
      BY <1>1, <2>2 DEF S
    <3>2. above[i + 1] = [y \in N |-> IF Stop(y) THEN t.parent[y] ELSE above[i][t.parent[y]]]
      <4>1. i + 1 \in Nat /\ i + 1 # 0 /\ (i + 1) - 1 = i
        OBVIOUS
      <4> QED  BY <1>7, <4>1 DEF Stop
    <3>3. above[i + 1] \in [N -> N]
      BY <3>1, <3>2
    <3> QED  BY <3>3 DEF S
  <2>3. Nat \subseteq P
    <3> HIDE DEF P
    <3> QED  BY <2>1, <2>2, AllReached
  <2> QED  BY <1>7, <2>3
<1>10. Ascent(t, d, above)
  BY <1>6, <1>8, <1>9 DEF Ascent, S, Stop
<1> QED  BY <1>10

(* Climb finds that node. *)
LEMMA ClimbFound ==
  ASSUME NEW t, NEW A, NEW lt, NEW sub, Shaped(t, A, lt, sub),
         NEW d \in Sides, NEW x \in A
  PROVE  Ancestor(A, sub, lt, d, x, Climb(t, d, x))
<1> DEFINE Stop(y) == t.parent[y] = root \/ y # t[d][t.parent[y]]
<1>1. A \subseteq N /\ NODES \in Nat
  BY ShapeFacts, Names
<1>2. PICK above : Ascent(t, d, above)
  BY ShapeFacts, AscentExists
<1>3. Climb(t, d, x) = above[NODES][x]
  BY <1>1, <1>2 DEF Ascent
<1>4. /\ \A y \in N : above[0][y] = t.parent[y]
      /\ \A i \in Nat : \A y \in N :
           above[i + 1][y] = IF Stop(y) THEN t.parent[y] ELSE above[i][t.parent[y]]
  BY <1>2 DEF Ascent
<1> HIDE DEF Stop
<1>5. \A n \in A : Cardinality(sub[n]) \in Nat /\ Cardinality(sub[n]) <= NODES
  BY SubGrows
<1>6. \A n \in A : t.parent[n] \in A \/ t.parent[n] = root
  BY ShapeFacts
<1>7. \A n \in A : t.parent[n] \in A =>
                      Cardinality(sub[n]) + 1 <= Cardinality(sub[t.parent[n]])
  BY SubGrows
<1> DEFINE P == { i \in Nat : \A y \in A : Cardinality(sub[y]) + i >= NODES =>
                                Ancestor(A, sub, lt, d, y, above[i][y]) }
<1>8. 0 \in P
  <2>1. ASSUME NEW y \in A, Cardinality(sub[y]) + 0 >= NODES
        PROVE  Ancestor(A, sub, lt, d, y, above[0][y])
    <3>1. t.parent[y] \notin A
      BY <1>1, <1>5, <1>7, <2>1
    <3>2. above[0][y] = t.parent[y] /\ t.parent[y] = root
      BY <1>1, <1>4, <1>6, <3>1
    <3> QED  BY <3>2, ClimbStep
  <2> QED  BY <2>1
<1>9. ASSUME NEW i \in Nat, i \in P PROVE i + 1 \in P
  <2>1. ASSUME NEW y \in A, Cardinality(sub[y]) + (i + 1) >= NODES
        PROVE  Ancestor(A, sub, lt, d, y, above[i + 1][y])
    <3>1. CASE Stop(y)
      <4>1. above[i + 1][y] = t.parent[y]
        BY <1>1, <1>4, <3>1
      <4> QED  BY <3>1, <4>1, ClimbStep DEF Stop
    <3>2. CASE ~Stop(y)
      <4>1. t.parent[y] # root /\ y = t[d][t.parent[y]] /\ t.parent[y] \in A
        BY <1>6, <3>2 DEF Stop
      <4>2. above[i + 1][y] = above[i][t.parent[y]]
        BY <1>1, <1>4, <3>2
      <4>3. Cardinality(sub[t.parent[y]]) + i >= NODES
        BY <1>1, <1>5, <1>7, <2>1, <4>1
      <4>4. Ancestor(A, sub, lt, d, t.parent[y], above[i][t.parent[y]])
        BY <1>9, <4>1, <4>3
      <4> QED  BY <4>1, <4>2, <4>4, ClimbStep
    <3> QED  BY <3>1, <3>2
  <2> QED  BY <2>1
<1> HIDE DEF P
<1>10. NODES \in P
  BY <1>1, <1>8, <1>9, AllReached
<1>11. Cardinality(sub[x]) + NODES >= NODES
  BY <1>1, <1>5
<1> QED  BY <1>3, <1>10, <1>11 DEF P

-----------------------------------------------------------------------------
(* y is the next node of A on side d of x. *)
NextOn(A, lt, d, x, y) ==
  /\ y \in A /\ On(lt, d, y, x)
  /\ \A m \in A : On(lt, d, m, x) => m = y \/ On(lt, d, m, y)

(* TreeSuccessor and TreePredecessor find the next node in the order, or    *)
(* nil if there is none.                                                    *)
LEMMA NeighbourFound ==
  ASSUME NEW t, NEW A, NEW lt, NEW sub, Shaped(t, A, lt, sub),
         NEW d \in Sides, NEW x \in A
  PROVE  \/ Neighbour(t, d, x) = nil /\ \A m \in A : ~On(lt, d, m, x)
         \/ NextOn(A, lt, d, x, Neighbour(t, d, x))
<1> DEFINE o == Opposite(d)
           c == t[d][x]
<1>1. /\ o \in Sides /\ Opposite(o) = d /\ \A e \in Sides : e # d => e = o
      /\ root \notin A /\ nil \notin A /\ Order(lt, A) /\ root # nil /\ sub[nil] = {}
      /\ sub[x] \subseteq A
  <2>1. o \in Sides /\ Opposite(o) = d /\ \A e \in Sides : e # d => e = o
    BY SideFacts
  <2>2. /\ root \notin A /\ nil \notin A /\ Order(lt, A) /\ root # nil /\ sub[nil] = {}
        /\ sub[x] \subseteq A
    <3>1. root \notin A /\ nil \notin A /\ root # nil
      BY ShapeFacts
    <3>2. sub[x] \subseteq A
      BY SubGrows
    <3>3. Order(lt, A) /\ sub[nil] = {}
      BY DEF Shaped, Search
    <3> QED  BY <3>1, <3>2, <3>3
  <2> QED  BY <2>1, <2>2
<1>2. /\ sub[x] = {x} \cup sub[c] \cup sub[t[o][x]] /\ x \in sub[x]
      /\ \A m \in sub[c] : m \in A /\ On(lt, d, m, x)
      /\ \A m \in sub[t[o][x]] : m \in A /\ On(lt, o, m, x)
      /\ c # nil => c \in A
  BY <1>1, ChildOn DEF Shaped
<1>3. Neighbour(t, d, x) = IF c # nil THEN Furthest(t, o, c)
                           ELSE IF Climb(t, d, x) = root THEN nil ELSE Climb(t, d, x)
  BY DEF Neighbour
<1> HIDE DEF o, c
<1>4. \A a, b \in A : /\ On(lt, d, a, b) <=> On(lt, o, b, a)
                      /\ ~(On(lt, d, a, b) /\ On(lt, o, a, b))
                      /\ ~On(lt, d, a, a)
  BY <1>1, OnFacts DEF o
<1>5. CASE c # nil
  <2> DEFINE y == Furthest(t, o, c)
  <2>1. LastIn(t, A, sub, lt, o, c, y)
    BY <1>1, <1>2, <1>5, FurthestFound
  <2> HIDE DEF y
  <2>2. y \in A /\ y \in sub[c] /\ \A m \in sub[c] : m # y => On(lt, d, m, y)
    BY <1>1, <2>1 DEF LastIn
  <2>3. ASSUME NEW m \in A, On(lt, d, m, x) PROVE m = y \/ On(lt, d, m, y)
    <3>1. CASE m \in sub[x]
      <4>1. m # x /\ m \notin sub[t[o][x]]
        BY <1>2, <1>4, <2>3
      <4> QED  BY <1>2, <2>2, <3>1, <4>1
    <3>2. CASE m \notin sub[x]
      <4>1. PICK e \in Sides : \A b \in sub[x] : On(lt, e, b, m)
        BY <3>2, Apart
      <4>2. e # d
        BY <1>2, <1>4, <2>3, <4>1
      <4>3. e = o
        BY <1>1, <4>2
      <4> QED  BY <1>2, <1>4, <2>2, <4>1, <4>3
    <3> QED  BY <3>1, <3>2
  <2> QED  BY <1>2, <1>3, <1>5, <2>2, <2>3 DEF NextOn, y
<1>6. CASE c = nil
  <2>1. Ancestor(A, sub, lt, d, x, Climb(t, d, x))
    BY ClimbFound
  <2>2. ASSUME NEW m \in A, On(lt, d, m, x) PROVE m \in A \ sub[x]
    BY <1>1, <1>2, <1>4, <1>6, <2>2
  <2> DEFINE z == Climb(t, d, x)
  <2> HIDE DEF z
  <2>3. CASE z = root /\ \A m \in A \ sub[x] : ~On(lt, d, m, x)
    BY <1>3, <1>6, <2>2, <2>3 DEF z
  <2>4. CASE /\ z \in A \ sub[x] /\ On(lt, d, z, x)
             /\ \A m \in A \ sub[x] : On(lt, d, m, x) => m = z \/ On(lt, d, m, z)
    <3>1. NextOn(A, lt, d, x, z)
      BY <2>2, <2>4 DEF NextOn
    <3>2. Neighbour(t, d, x) = z
      BY <1>1, <1>3, <1>6, <2>4 DEF z
    <3> QED  BY <3>1, <3>2
  <2> QED  BY <2>1, <2>3, <2>4 DEF Ancestor, z
<1> QED  BY <1>5, <1>6

-----------------------------------------------------------------------------
(* The next node in the order is the next one in the list.                  *)
LEMMA NextInList ==
  ASSUME NEW l, NEW A, NEW lt, Order(lt, A), Ranked(l, A, lt), NEW i \in 1 .. Len(l), NEW y
  PROVE  /\ (\A m \in A : ~On(lt, "right", m, l[i])) => i = Len(l)
         /\ NextOn(A, lt, "right", l[i], y) => i # Len(l) /\ y = l[i + 1]
         /\ (\A m \in A : ~On(lt, "left", m, l[i])) => i = 1
         /\ NextOn(A, lt, "left", l[i], y) => i # 1 /\ y = l[i - 1]
<1> DEFINE n == Len(l)
<1>1. /\ n \in Nat /\ \A k \in 1 .. n : l[k] \in A
      /\ \A j, k \in 1 .. n : j < k <=> <<l[j], l[k]>> \in lt
      /\ \A a \in A : \E k \in 1 .. n : l[k] = a
  BY RankedFacts DEF Ranked
<1>2. /\ \A a, b : On(lt, "right", a, b) <=> <<b, a>> \in lt
      /\ \A a, b : On(lt, "left", a, b) <=> <<a, b>> \in lt
  BY DEF On
<1>3. /\ i \in Nat /\ i >= 1 /\ i <= n
      /\ i # n => i + 1 \in 1 .. n /\ i < i + 1
      /\ i # 1 => i - 1 \in 1 .. n /\ i - 1 < i
  BY <1>1
<1> HIDE DEF n
<1>4. /\ i # n => l[i + 1] \in A /\ <<l[i], l[i + 1]>> \in lt
      /\ i # 1 => l[i - 1] \in A /\ <<l[i - 1], l[i]>> \in lt
  BY <1>1, <1>3
<1>5. ASSUME NextOn(A, lt, "right", l[i], y) PROVE i # n /\ y = l[i + 1]
  <2>1. /\ y \in A /\ <<l[i], y>> \in lt
        /\ \A m \in A : <<l[i], m>> \in lt => m = y \/ <<y, m>> \in lt
    BY <1>2, <1>5 DEF NextOn
  <2>2. PICK k \in 1 .. n : l[k] = y
    BY <1>1, <2>1
  <2>3. i < k
    BY <1>1, <1>3, <2>1, <2>2
  <2>4. i # n
    BY <1>1, <1>3, <2>3
  <2>5. l[i + 1] = y \/ k < i + 1
    BY <1>1, <1>3, <1>4, <2>1, <2>2, <2>4
  <2> QED  BY <1>3, <2>2, <2>3, <2>4, <2>5
<1>6. ASSUME NextOn(A, lt, "left", l[i], y) PROVE i # 1 /\ y = l[i - 1]
  <2>1. /\ y \in A /\ <<y, l[i]>> \in lt
        /\ \A m \in A : <<m, l[i]>> \in lt => m = y \/ <<m, y>> \in lt
    BY <1>2, <1>6 DEF NextOn
  <2>2. PICK k \in 1 .. n : l[k] = y
    BY <1>1, <2>1
  <2>3. k < i
    BY <1>1, <1>3, <2>1, <2>2
  <2>4. i # 1
    BY <1>1, <1>3, <2>3
  <2>5. l[i - 1] = y \/ i - 1 < k
    BY <1>1, <1>3, <1>4, <2>1, <2>2, <2>4
  <2> QED  BY <1>3, <2>2, <2>3, <2>4, <2>5
<1>7. ASSUME \A m \in A : ~On(lt, "right", m, l[i]) PROVE i = n
  BY <1>2, <1>4, <1>7
<1>8. ASSUME \A m \in A : ~On(lt, "left", m, l[i]) PROVE i = 1
  BY <1>2, <1>4, <1>8
<1> QED  BY <1>5, <1>6, <1>7, <1>8 DEF n

(* What NeighboursFound says follows from the invariant.                    *)
LEMMA GoodNeighbours ==
  ASSUME NEW lt, Good(tree, allocated, lt)
  PROVE  NeighboursFound
<1> DEFINE A == allocated
           t == tree
           n == Len(list)
<1>1. PICK sub : Shaped(t, A, lt, sub)
  BY DEF Good, Balanced
<1>2. Order(lt, A)
  BY <1>1 DEF Shaped
<1>3. Ranked(list, A, lt)
  BY <1>1, InOrderRanked DEF list
<1>4. /\ n \in Nat /\ DOMAIN list = 1 .. n /\ \A k \in 1 .. n : list[k] \in A
      /\ \A j, k \in 1 .. n : j < k <=> <<list[j], list[k]>> \in lt
      /\ \A a \in A : \E k \in 1 .. n : list[k] = a
      /\ list \in Seq(A)
  <2> HIDE DEF n, A
  <2>1. /\ Len(list) \in Nat /\ DOMAIN list = 1 .. Len(list)
        /\ \A k \in 1 .. Len(list) : list[k] \in A
        /\ \A j, k \in 1 .. Len(list) : j < k <=> <<list[j], list[k]>> \in lt
    BY <1>2, <1>3, RankedFacts, Zenon
  <2>2. /\ \A a \in A : \E k \in 1 .. Len(list) : list[k] = a
        /\ list \in Seq(A)
    BY <1>3 DEF Ranked
  <2> QED  BY <2>1, <2>2 DEF n
<1>5. "left" \in Sides /\ "right" \in Sides /\ Opposite("left") = "right" /\ nil \notin A
  BY <1>1, SideFacts, ShapeFacts DEF Opposite
<1> HIDE DEF t, A
<1>6. ASSUME list # <<>> PROVE Leftmost(t) = Head(list)
  <2> DEFINE y == Furthest(t, "left", root)
  <2>1. 1 \in 1 .. n /\ Head(list) = list[1]
    BY <1>4, <1>6
  <2>2. list[1] \in A /\ A # {}
    BY <1>4, <2>1
  <2>3. sub[t.left[root]] = A
    BY <1>1 DEF Shaped, Search
  <2>4. LastIn(t, A, sub, lt, "left", t.left[root], y)
    BY <1>1, <1>5, <2>2, FurthestFound
  <2> HIDE DEF y
  <2>5. y \in A /\ \A m \in A : m # y => <<y, m>> \in lt
    BY <1>5, <2>3, <2>4 DEF LastIn, On
  <2>6. PICK k \in 1 .. n : list[k] = y
    BY <1>4, <2>5
  <2>7. list[1] = y \/ k < 1
    <3> HIDE DEF n
    <3> QED  BY <1>4, <2>1, <2>2, <2>5, <2>6
  <2>8. ~(k < 1)
    BY <1>4, <2>6
  <2> QED  BY <2>1, <2>7, <2>8 DEF Leftmost, y
<1>7. ASSUME NEW i \in 1 .. n
      PROVE  /\ TreeSuccessor(t, list[i]) = IF i = n THEN nil ELSE list[i + 1]
             /\ TreePredecessor(t, list[i]) = IF i = 1 THEN nil ELSE list[i - 1]
  <2>1. list[i] \in A
    BY <1>4
  <2>2. \/ TreeSuccessor(t, list[i]) = nil /\ \A m \in A : ~On(lt, "right", m, list[i])
        \/ NextOn(A, lt, "right", list[i], TreeSuccessor(t, list[i]))
    BY <1>1, <1>5, <2>1, NeighbourFound DEF TreeSuccessor
  <2>3. \/ TreePredecessor(t, list[i]) = nil /\ \A m \in A : ~On(lt, "left", m, list[i])
        \/ NextOn(A, lt, "left", list[i], TreePredecessor(t, list[i]))
    BY <1>1, <1>5, <2>1, NeighbourFound DEF TreePredecessor
  <2>4. \A y :
          /\ (\A m \in A : ~On(lt, "right", m, list[i])) => i = n
          /\ NextOn(A, lt, "right", list[i], y) => i # n /\ y = list[i + 1]
          /\ (\A m \in A : ~On(lt, "left", m, list[i])) => i = 1
          /\ NextOn(A, lt, "left", list[i], y) => i # 1 /\ y = list[i - 1]
    BY <1>2, <1>3, NextInList
  <2> QED  BY <2>2, <2>3, <2>4
<1> QED  BY <1>4, <1>6, <1>7 DEF NeighboursFound, A, t

-----------------------------------------------------------------------------
(* The subtrees of x, with their keys: those on the left are at most that   *)
(* of x, those on the right at least.                                       *)
Parted(t, A, lt, sub, x) ==
  /\ sub[x] = {x} \cup sub[t.left[x]] \cup sub[t.right[x]] /\ sub[x] \subseteq A
  /\ \A n \in A : Key(n) \in Int
  /\ \A n \in sub[t.left[x]] : <<n, x>> \in lt /\ Key(n) <= Key(x)
  /\ \A n \in sub[t.right[x]] : <<x, n>> \in lt /\ Key(x) <= Key(n)
  /\ t.left[x] \in A \cup {nil} /\ (t.left[x] # nil => t.parent[t.left[x]] = x)
  /\ t.right[x] \in A \cup {nil} /\ (t.right[x] # nil => t.parent[t.right[x]] = x)

(* A search tree by key parts its nodes so.                                 *)
LEMMA PartedByKey ==
  ASSUME NEW t, NEW A, NEW lt, NEW sub, Shaped(t, A, lt, sub), KeyOrder(lt, A), NEW x \in A
  PROVE  Parted(t, A, lt, sub, x)
<1>1. /\ "left" \in Sides /\ "right" \in Sides /\ "right" # "left"
      /\ t.left = t["left"] /\ t.right = t["right"]
  BY SideFacts, TreeFields, ShapeFacts
<1>2. \A e \in Sides :
        /\ \A n \in sub[t[e][x]] : n \in A /\ On(lt, e, n, x)
        /\ t[e][x] \in A \cup {nil} /\ (t[e][x] # nil => t.parent[t[e][x]] = x)
  BY ChildOn DEF Shaped
<1>3. sub[x] = {x} \cup sub[t.left[x]] \cup sub[t.right[x]] /\ sub[x] \subseteq A
  <2>1. sub[x] = {x} \cup sub[t["left"][x]] \cup sub[t["right"][x]]
    BY DEF Shaped, Search
  <2>2. sub[x] \subseteq A
    BY SubGrows
  <2> QED  BY <1>1, <2>1, <2>2
<1>4. \A n \in A : Key(n) \in Int
  BY RBTreeAssumption DEF Key, Nodes, Shaped, Links
<1>5. \A n \in sub[t.left[x]] : <<n, x>> \in lt /\ Key(n) <= Key(x)
  BY <1>1, <1>2 DEF On, KeyOrder
<1>6. \A n \in sub[t.right[x]] : <<x, n>> \in lt /\ Key(x) <= Key(n)
  BY <1>1, <1>2 DEF On, KeyOrder
<1> QED  BY <1>1, <1>2, <1>3, <1>4, <1>5, <1>6 DEF Parted

(* The search for q has come to x: all nodes with key q are below it.       *)
Searching(A, sub, q, x) == x \in A \cup {nil} /\ \A n \in A : Key(n) = q => n \in sub[x]

(* Each turn of the loop of RBExactQuery leaves nodes with other keys only. *)
LEMMA SearchStep ==
  ASSUME NEW t, NEW A, NEW lt, NEW sub, Shaped(t, A, lt, sub), KeyOrder(lt, A),
         NEW q \in Int, NEW x, Searching(A, sub, q, x)
  PROVE  LET w == SearchDown(t, q, x)
         IN  /\ Searching(A, sub, q, w)
             /\ x = nil \/ Key(x) = q => w = x
             /\ ~(x = nil \/ Key(x) = q) => x \in A /\ (w # nil => w \in A /\ t.parent[w] = x)
<1>1. CASE x = nil \/ Key(x) = q
  BY <1>1 DEF SearchDown
<1>2. CASE ~(x = nil \/ Key(x) = q)
  <2>1. x \in A /\ \A n \in A : Key(n) = q => n \in sub[x]
    BY <1>2 DEF Searching
  <2>2. Parted(t, A, lt, sub, x)
    BY <2>1, PartedByKey
  <2>3. CASE Key(x) > q
    <3>1. SearchDown(t, q, x) = t.left[x]
      BY <1>2, <2>3 DEF SearchDown
    <3>2. ASSUME NEW n \in A, Key(n) = q PROVE n \in sub[t.left[x]]
      <4>1. n \in sub[x] /\ n # x /\ Key(n) \in Int /\ Key(x) \in Int
        BY <1>2, <2>1, <2>2, <3>2 DEF Parted
      <4>2. n \notin sub[t.right[x]]
        <5>1. n \in sub[t.right[x]] => Key(x) <= Key(n)
          BY <2>2 DEF Parted
        <5> QED  BY <1>2, <2>3, <3>2, <4>1, <5>1
      <4>3. sub[x] = {x} \cup sub[t.left[x]] \cup sub[t.right[x]]
        BY <2>2 DEF Parted
      <4> QED  BY <4>1, <4>2, <4>3
    <3> QED  BY <1>2, <2>1, <2>2, <3>1, <3>2 DEF Searching, Parted
  <2>4. CASE ~(Key(x) > q)
    <3>1. SearchDown(t, q, x) = t.right[x]
      BY <1>2, <2>4 DEF SearchDown
    <3>2. ASSUME NEW n \in A, Key(n) = q PROVE n \in sub[t.right[x]]
      <4>1. n \in sub[x] /\ n # x /\ Key(n) \in Int /\ Key(x) \in Int
        BY <1>2, <2>1, <2>2, <3>2 DEF Parted
      <4>2. n \notin sub[t.left[x]]
        <5>1. n \in sub[t.left[x]] => Key(n) <= Key(x)
          BY <2>2 DEF Parted
        <5> QED  BY <1>2, <2>4, <3>2, <4>1, <5>1
      <4>3. sub[x] = {x} \cup sub[t.left[x]] \cup sub[t.right[x]]
        BY <2>2 DEF Parted
      <4> QED  BY <4>1, <4>2, <4>3
    <3> QED  BY <1>2, <2>1, <2>2, <3>1, <3>2 DEF Searching, Parted
  <2> QED  BY <2>3, <2>4
<1> QED  BY <1>1, <1>2

(* The loop ends at nil, if there is no node with key q, or at one that has *)
(* all others below it.                                                     *)
LEMMA SearchFound ==
  ASSUME NEW t, NEW A, NEW lt, NEW sub, Shaped(t, A, lt, sub), KeyOrder(lt, A), NEW q \in Int
  PROVE  \E x : /\ Searching(A, sub, q, x) /\ (x = nil \/ Key(x) = q)
                /\ RBExactQuery(t, q) = IF x = nil THEN NULL ELSE x
<1> DEFINE S == { x \in A \cup {nil} : Searching(A, sub, q, x) }
           F == [x \in S |-> SearchDown(t, q, x)]
           first == t.left[root]
           walk[i \in 0 .. NODES] == IF i = 0 THEN t.left[root] ELSE SearchDown(t, q, walk[i - 1])
           Done(x) == x = nil \/ Key(x) = q
<1>1. ASSUME NEW x \in S
      PROVE  /\ SearchDown(t, q, x) \in S
             /\ Done(x) => SearchDown(t, q, x) = x
             /\ ~Done(x) => LET w == SearchDown(t, q, x)
                            IN  x \in A /\ (w # nil => w \in A /\ t.parent[w] = x)
  <2>1. Searching(A, sub, q, SearchDown(t, q, x))
    BY SearchStep
  <2>2. SearchDown(t, q, x) \in A \cup {nil}
    BY <2>1 DEF Searching
  <2> QED  BY <2>1, <2>2, SearchStep
<1>2. first \in S
  <2>1. t.left[root] \in A \cup {nil}
    BY TopFacts
  <2>2. sub[t.left[root]] = A
    BY DEF Shaped, Search
  <2> QED  BY <2>1, <2>2 DEF Searching
<1>3. F \in [S -> S]
  <2> HIDE DEF S
  <2> QED  BY <1>1
<1> HIDE DEF S, F, first
<1>4. \E f : /\ f \in [Nat -> S] /\ f[0] = first
             /\ \A i \in Nat : f[i + 1] = SearchDown(t, q, f[i])
             /\ f[NODES] = walk[NODES]
  <2>0. PICK f : Iterates(f, S, F, first)
    BY <1>2, <1>3, Iteration, Zenon
  <2>1. f \in [Nat -> S] /\ f[0] = first /\ \A i \in Nat : f[i + 1] = F[f[i]]
    BY <2>0 DEF Iterates
  <2>2. \A i \in Nat : f[i + 1] = SearchDown(t, q, f[i])
    BY <2>1 DEF F
  <2> DEFINE g == [i \in 0 .. NODES |-> f[i]]
  <2>3. g = [i \in 0 .. NODES |-> IF i = 0 THEN first ELSE SearchDown(t, q, g[i - 1])]
    <3>1. ASSUME NEW i \in 0 .. NODES
          PROVE  f[i] = IF i = 0 THEN first ELSE SearchDown(t, q, g[i - 1])
      <4>1. NODES \in Nat /\ i \in Nat
        BY Names
      <4>2. i # 0 => i - 1 \in Nat /\ (i - 1) + 1 = i /\ i - 1 \in 0 .. NODES
        BY <4>1
      <4>3. i # 0 => g[i - 1] = f[i - 1] /\ f[i] = SearchDown(t, q, f[i - 1])
        BY <2>2, <4>2
      <4> QED  BY <2>1, <4>3
    <3> QED  BY <3>1
  <2>4. walk = CHOOSE h : h = [i \in 0 .. NODES |-> IF i = 0 THEN first ELSE SearchDown(t, q, h[i - 1])]
    BY DEF walk, first
  <2>5. walk = [i \in 0 .. NODES |-> IF i = 0 THEN first ELSE SearchDown(t, q, walk[i - 1])]
    <3> HIDE DEF walk, g
    <3> QED  BY <2>3, <2>4
  <2> HIDE DEF walk
  <2> DEFINE P == { i \in Nat : i <= NODES => walk[i] = f[i] }
  <2>6. 0 \in P
    BY <2>1, <2>5
  <2>7. ASSUME NEW i \in Nat, i \in P PROVE i + 1 \in P
    <3>1. NODES \in Nat
      BY Names
    <3>2. ASSUME i + 1 <= NODES PROVE walk[i + 1] = f[i + 1]
      <4>1. i <= NODES /\ i + 1 \in 0 .. NODES /\ i + 1 # 0 /\ (i + 1) - 1 = i
        BY <3>1, <3>2
      <4>2. walk[i + 1] = SearchDown(t, q, walk[i])
        BY <2>5, <4>1
      <4> QED  BY <2>2, <2>7, <4>1, <4>2
    <3> QED  BY <3>2
  <2>8. NODES \in P
    <3>1. NODES \in Nat
      BY Names
    <3> HIDE DEF P
    <3> QED  BY <2>6, <2>7, <3>1, AllReached
  <2>9. f[NODES] = walk[NODES]
    BY <2>8
  <2> QED  BY <2>1, <2>2, <2>9
<1>5. RBExactQuery(t, q) = IF walk[NODES] = nil THEN NULL ELSE walk[NODES]
  BY DEF RBExactQuery, walk
<1> HIDE DEF walk
<1>6. PICK f : /\ f \in [Nat -> S] /\ f[0] = first
               /\ \A i \in Nat : f[i + 1] = SearchDown(t, q, f[i])
               /\ f[NODES] = walk[NODES]
  BY <1>4
<1>7. f[NODES] \in S /\ NODES \in Nat
  BY <1>6, Names
<1>8. Done(f[NODES])
  <2> DEFINE P == { i \in Nat : \/ Done(f[i])
                                \/ f[i] \in A /\ Cardinality(sub[f[i]]) + i <= NODES }
  <2>1. \A n \in A : /\ Cardinality(sub[n]) \in Nat /\ Cardinality(sub[n]) <= NODES
                     /\ Cardinality(sub[n]) # 0
    <3>1. \A n \in A : n \in sub[n] /\ IsFiniteSet(sub[n])
      BY SubGrows
    <3> QED  BY <3>1, SubGrows, FS_EmptySet
  <2>2. 0 \in P
    <3>1. f[0] \in A \cup {nil}
      BY <1>6, TopFacts DEF first
    <3> QED  BY <2>1, <3>1
  <2>3. ASSUME NEW i \in Nat, i \in P PROVE i + 1 \in P
    <3> DEFINE x == f[i]
               w == f[i + 1]
    <3>1. /\ Done(x) => w = x
          /\ ~Done(x) => x \in A /\ (w # nil => w \in A /\ t.parent[w] = x)
      BY <1>1, <1>6
    <3>2. Done(x) \/ (x \in A /\ Cardinality(sub[x]) + i <= NODES)
      BY <2>3
    <3> HIDE DEF x, w
    <3>3. ASSUME ~Done(w) PROVE w \in A /\ Cardinality(sub[w]) + (i + 1) <= NODES
      <4>1. w \in A /\ x \in A /\ t.parent[w] = x /\ Cardinality(sub[x]) + i <= NODES
        BY <3>1, <3>2, <3>3
      <4>2. Cardinality(sub[w]) + 1 <= Cardinality(sub[x])
        BY <4>1, SubGrows
      <4> QED  BY <1>7, <2>1, <4>1, <4>2
    <3> HIDE DEF Done
    <3> QED  BY <3>3 DEF w
  <2>4. Nat \subseteq P
    <3> HIDE DEF P
    <3> QED  BY <2>2, <2>3, AllReached
  <2>5. NODES \in P
    BY <1>7, <2>4
  <2> QED  BY <1>7, <2>1, <2>5
<1>9. Searching(A, sub, q, f[NODES])
  BY <1>7 DEF S
<1> QED  BY <1>5, <1>6, <1>8, <1>9

-----------------------------------------------------------------------------
(* The walk has come to x, and b is the last node on the way with a key of  *)
(* at most high: it is before the nodes below x, and after all others with  *)
(* such a key.                                                              *)
Bounding(s, A, lt, sub, high) ==
  /\ s[1] \in A \cup {nil} /\ s[2] \in A \cup {nil}
  /\ s[2] \in A => Key(s[2]) <= high /\ \A m \in sub[s[1]] : <<s[2], m>> \in lt
  /\ \A n \in A : Key(n) <= high =>
       n \in sub[s[1]] \/ (s[2] \in A /\ (n = s[2] \/ <<n, s[2]>> \in lt))

(* Each turn of the first loop of RBEnumerate keeps it so.                  *)
LEMMA UpToStep ==
  ASSUME NEW t, NEW A, NEW lt, NEW sub, Shaped(t, A, lt, sub), KeyOrder(lt, A),
         NEW high \in Int, NEW x, NEW b, Bounding(<<x, b>>, A, lt, sub, high)
  PROVE  /\ Bounding(UpToDown(t, high, <<x, b>>), A, lt, sub, high)
         /\ x = nil => UpToDown(t, high, <<x, b>>) = <<x, b>>
         /\ x # nil => LET w == UpToDown(t, high, <<x, b>>)[1]
                       IN  x \in A /\ (w # nil => w \in A /\ t.parent[w] = x)
<1>1. /\ x \in A \cup {nil} /\ b \in A \cup {nil} /\ Order(lt, A) /\ nil \notin A
      /\ b \in A => Key(b) <= high /\ \A m \in sub[x] : <<b, m>> \in lt
      /\ \A n \in A : Key(n) <= high =>
           n \in sub[x] \/ (b \in A /\ (n = b \/ <<n, b>> \in lt))
  BY ShapeFacts DEF Bounding, Shaped
<1>2. CASE x = nil
  BY <1>2 DEF UpToDown
<1>3. CASE x # nil
  <2>1. x \in A /\ x \in sub[x]
    BY <1>1, <1>3, SubGrows
  <2>2. Parted(t, A, lt, sub, x)
    BY <2>1, PartedByKey
  <2>3. /\ sub[x] = {x} \cup sub[t.left[x]] \cup sub[t.right[x]]
        /\ \A n \in A : Key(n) \in Int
        /\ sub[t.left[x]] \subseteq A /\ sub[t.right[x]] \subseteq A
        /\ sub[t.left[x]] \subseteq sub[x] /\ sub[t.right[x]] \subseteq sub[x]
    BY <2>2 DEF Parted
  <2>4. CASE Key(x) > high
    <3>1. UpToDown(t, high, <<x, b>>) = <<t.left[x], b>>
      BY <1>3, <2>4 DEF UpToDown
    <3>2. ASSUME NEW n \in sub[x], Key(n) <= high PROVE n \in sub[t.left[x]]
      <4>1. n \in A /\ n # x /\ Key(n) \in Int /\ Key(x) \in Int
        BY <2>1, <2>3, <2>4, <3>2
      <4>2. n \notin sub[t.right[x]]
        <5>1. n \in sub[t.right[x]] => Key(x) <= Key(n)
          BY <2>2 DEF Parted
        <5> QED  BY <2>4, <3>2, <4>1, <5>1
      <4> QED  BY <2>3, <4>1, <4>2
    <3>3. t.left[x] \in A \cup {nil} /\ (t.left[x] # nil => t.parent[t.left[x]] = x)
      BY <2>2 DEF Parted
    <3>4. Bounding(<<t.left[x], b>>, A, lt, sub, high)
      BY <1>1, <2>3, <3>2, <3>3 DEF Bounding
    <3> QED  BY <1>3, <2>1, <3>1, <3>3, <3>4
  <2>5. CASE ~(Key(x) > high)
    <3>1. UpToDown(t, high, <<x, b>>) = <<t.right[x], x>>
      BY <1>3, <2>5 DEF UpToDown
    <3>2. Key(x) <= high
      BY <2>1, <2>3, <2>5
    <3>3. \A m \in sub[t.right[x]] : <<x, m>> \in lt
      BY <2>2 DEF Parted
    <3>4. ASSUME NEW n \in A, Key(n) <= high
          PROVE  n \in sub[t.right[x]] \/ n = x \/ <<n, x>> \in lt
      <4>1. CASE n \in sub[x]
        <5>1. n \in sub[t.left[x]] => <<n, x>> \in lt
          BY <2>2 DEF Parted
        <5> QED  BY <2>3, <4>1, <5>1
      <4>2. CASE b \in A /\ (n = b \/ <<n, b>> \in lt)
        <5>1. <<b, x>> \in lt
          BY <1>1, <2>1, <4>2
        <5> QED  BY <1>1, <2>1, <4>2, <5>1 DEF Order
      <4> QED  BY <1>1, <3>4, <4>1, <4>2
    <3>5. t.right[x] \in A \cup {nil} /\ (t.right[x] # nil => t.parent[t.right[x]] = x)
      BY <2>2 DEF Parted
    <3>6. Bounding(<<t.right[x], x>>, A, lt, sub, high)
      BY <2>1, <3>2, <3>3, <3>4, <3>5 DEF Bounding
    <3> QED  BY <1>3, <2>1, <3>1, <3>5, <3>6
  <2> QED  BY <2>4, <2>5
<1> QED  BY <1>2, <1>3

(* The loop ends with the last node whose key is at most high.              *)
LEMMA LastUpToFound ==
  ASSUME NEW t, NEW A, NEW lt, NEW sub, Shaped(t, A, lt, sub), KeyOrder(lt, A),
         NEW high \in Int
  PROVE  Bounding(<<nil, LastUpTo(t, high)>>, A, lt, sub, high)
<1> DEFINE S == { s \in (A \cup {nil}) \X (A \cup {nil}) : Bounding(s, A, lt, sub, high) }
           F == [s \in S |-> UpToDown(t, high, s)]
           first == <<t.left[root], nil>>
           walk[i \in 0 .. NODES] ==
             IF i = 0 THEN <<t.left[root], nil>> ELSE UpToDown(t, high, walk[i - 1])
           last == walk[NODES]
<1>1. ASSUME NEW s \in S
      PROVE  /\ UpToDown(t, high, s) \in S
             /\ s[1] = nil => UpToDown(t, high, s)[1] = nil
             /\ s[1] # nil => LET w == UpToDown(t, high, s)[1]
                              IN  s[1] \in A /\ (w # nil => w \in A /\ t.parent[w] = s[1])
  <2>1. PICK x \in A \cup {nil}, b \in A \cup {nil} : s = <<x, b>>
    OBVIOUS
  <2>2. Bounding(<<x, b>>, A, lt, sub, high)
    BY <2>1
  <2>3. PICK w, c : UpToDown(t, high, <<x, b>>) = <<w, c>>
    BY DEF UpToDown
  <2>4. Bounding(<<w, c>>, A, lt, sub, high)
    BY <2>2, <2>3, UpToStep
  <2>5. w \in A \cup {nil} /\ c \in A \cup {nil}
    BY <2>4 DEF Bounding
  <2>6. UpToDown(t, high, s) \in S
    BY <2>1, <2>3, <2>4, <2>5
  <2> HIDE DEF S
  <2> QED  BY <2>1, <2>2, <2>6, UpToStep
<1>2. first \in S
  <2>1. t.left[root] \in A \cup {nil} /\ nil \notin A
    BY TopFacts, ShapeFacts
  <2>2. sub[t.left[root]] = A
    BY DEF Shaped, Search
  <2> QED  BY <2>1, <2>2 DEF Bounding
<1>3. F \in [S -> S]
  <2> HIDE DEF S
  <2> QED  BY <1>1
<1> HIDE DEF S, F, first
<1>4. \E f : /\ f \in [Nat -> S] /\ f[0] = first
             /\ \A i \in Nat : f[i + 1] = UpToDown(t, high, f[i])
             /\ f[NODES] = walk[NODES]
  <2>0. PICK f : Iterates(f, S, F, first)
    BY <1>2, <1>3, Iteration, Zenon
  <2>1. f \in [Nat -> S] /\ f[0] = first /\ \A i \in Nat : f[i + 1] = F[f[i]]
    BY <2>0 DEF Iterates
  <2>2. \A i \in Nat : f[i + 1] = UpToDown(t, high, f[i])
    BY <2>1 DEF F
  <2> DEFINE g == [i \in 0 .. NODES |-> f[i]]
  <2>3. g = [i \in 0 .. NODES |-> IF i = 0 THEN first ELSE UpToDown(t, high, g[i - 1])]
    <3>1. ASSUME NEW i \in 0 .. NODES
          PROVE  f[i] = IF i = 0 THEN first ELSE UpToDown(t, high, g[i - 1])
      <4>1. NODES \in Nat /\ i \in Nat
        BY Names
      <4>2. i # 0 => i - 1 \in Nat /\ (i - 1) + 1 = i /\ i - 1 \in 0 .. NODES
        BY <4>1
      <4>3. i # 0 => g[i - 1] = f[i - 1] /\ f[i] = UpToDown(t, high, f[i - 1])
        BY <2>2, <4>2
      <4> QED  BY <2>1, <4>3
    <3> QED  BY <3>1
  <2>4. walk = CHOOSE h : h = [i \in 0 .. NODES |-> IF i = 0 THEN first ELSE UpToDown(t, high, h[i - 1])]
    BY DEF walk, first
  <2>5. walk = [i \in 0 .. NODES |-> IF i = 0 THEN first ELSE UpToDown(t, high, walk[i - 1])]
    <3> HIDE DEF walk, g
    <3> QED  BY <2>3, <2>4
  <2> HIDE DEF walk
  <2> DEFINE P == { i \in Nat : i <= NODES => walk[i] = f[i] }
  <2>6. 0 \in P
    BY <2>1, <2>5
  <2>7. ASSUME NEW i \in Nat, i \in P PROVE i + 1 \in P
    <3>1. NODES \in Nat
      BY Names
    <3>2. ASSUME i + 1 <= NODES PROVE walk[i + 1] = f[i + 1]
      <4>1. i <= NODES /\ i + 1 \in 0 .. NODES /\ i + 1 # 0 /\ (i + 1) - 1 = i
        BY <3>1, <3>2
      <4>2. walk[i + 1] = UpToDown(t, high, walk[i])
        BY <2>5, <4>1
      <4> QED  BY <2>2, <2>7, <4>1, <4>2
    <3> QED  BY <3>2
  <2>8. NODES \in P
    <3>1. NODES \in Nat
      BY Names
    <3> HIDE DEF P
    <3> QED  BY <2>6, <2>7, <3>1, AllReached
  <2>9. f[NODES] = walk[NODES]
    BY <2>8
  <2> QED  BY <2>1, <2>2, <2>9
<1>5. LastUpTo(t, high) = last[2]
  BY DEF LastUpTo, walk
<1> HIDE DEF walk
<1>6. PICK f : /\ f \in [Nat -> S] /\ f[0] = first
               /\ \A i \in Nat : f[i + 1] = UpToDown(t, high, f[i])
               /\ f[NODES] = walk[NODES]
  BY <1>4
<1>7. last \in S /\ NODES \in Nat
  BY <1>6, Names
<1>8. last[1] = nil
  <2> DEFINE P == { i \in Nat : \/ f[i][1] = nil
                                \/ /\ f[i][1] \in A
                                   /\ Cardinality(sub[f[i][1]]) + i <= NODES }
  <2>1. \A n \in A : /\ Cardinality(sub[n]) \in Nat /\ Cardinality(sub[n]) <= NODES
                     /\ Cardinality(sub[n]) # 0
    <3>1. \A n \in A : n \in sub[n] /\ IsFiniteSet(sub[n])
      BY SubGrows
    <3> QED  BY <3>1, SubGrows, FS_EmptySet
  <2>2. 0 \in P
    <3>1. f[0][1] \in A \cup {nil}
      BY <1>6, TopFacts DEF first
    <3> QED  BY <2>1, <3>1
  <2>3. ASSUME NEW i \in Nat, i \in P PROVE i + 1 \in P
    <3> DEFINE x == f[i][1]
               w == f[i + 1][1]
    <3>1. /\ x = nil => w = nil
          /\ x # nil => x \in A /\ (w # nil => w \in A /\ t.parent[w] = x)
      BY <1>1, <1>6
    <3>2. x = nil \/ (x \in A /\ Cardinality(sub[x]) + i <= NODES)
      BY <2>3
    <3> HIDE DEF x, w
    <3>3. ASSUME w # nil PROVE w \in A /\ Cardinality(sub[w]) + (i + 1) <= NODES
      <4>1. w \in A /\ x \in A /\ t.parent[w] = x /\ Cardinality(sub[x]) + i <= NODES
        BY <3>1, <3>2, <3>3
      <4>2. Cardinality(sub[w]) + 1 <= Cardinality(sub[x])
        BY <4>1, SubGrows
      <4> QED  BY <1>7, <2>1, <4>1, <4>2
    <3> QED  BY <3>3 DEF w
  <2>4. Nat \subseteq P
    <3> HIDE DEF P
    <3> QED  BY <2>2, <2>3, AllReached
  <2>5. NODES \in P
    BY <1>7, <2>4
  <2> QED  BY <1>6, <1>7, <2>1, <2>5
<1>9. Bounding(last, A, lt, sub, high) /\ last = <<last[1], last[2]>>
  BY <1>7 DEF S
<1> HIDE DEF last
<1> QED  BY <1>5, <1>8, <1>9

-----------------------------------------------------------------------------
(* stack[i][x] is what i turns from x push, with the last on top.           *)
Stacked(t, low, stack) ==
  /\ \A x \in N : stack[0][x] = <<>> /\ Pushed(t, low, x) = stack[NODES][x]
  /\ \A i \in Nat : \A x \in N :
       stack[i + 1][x] = IF x = nil \/ low > Key(x) THEN <<>>
                         ELSE stack[i][TreePredecessor(t, x)] \o <<x>>

(* The walk to a neighbour ends at a node or a sentinel.                    *)
LEMMA NeighbourIn ==
  ASSUME NEW t \in Tree, NEW d \in Sides, NEW x \in N
  PROVE  Neighbour(t, d, x) \in N
<1>1. Opposite(d) \in Sides /\ t[d][x] \in N /\ nil \in N
  BY SideFacts, TreeFields, Names
<1>2. PICK last : Descent(t, Opposite(d), last)
  BY <1>1, DescentExists
<1>3. PICK above : Ascent(t, d, above)
  BY AscentExists
<1>4. t[d][x] # nil => Furthest(t, Opposite(d), t[d][x]) \in N
  <2>1. t[d][x] # nil => t[d][x] \in Nodes \cup {root}
    BY <1>1 DEF N
  <2>2. NODES \in Nat
    BY Names
  <2> QED  BY <1>2, <2>1, <2>2 DEF Descent, N
<1>5. Climb(t, d, x) \in N
  <2>1. NODES \in Nat
    BY Names
  <2> QED  BY <1>3, <2>1 DEF Ascent
<1> QED  BY <1>1, <1>4, <1>5 DEF Neighbour

(* The recursive function of Pushed is defined.                             *)
LEMMA StackedExists ==
  ASSUME NEW t \in Tree, NEW low
  PROVE  \E stack : Stacked(t, low, stack)
<1> DEFINE S == [N -> Seq(N)]
           Stop(x) == x = nil \/ low > Key(x)
           Up(f) == [x \in N |-> IF Stop(x) THEN <<>> ELSE f[TreePredecessor(t, x)] \o <<x>>]
           F == [f \in S |-> Up(f)]
           none == [x \in N |-> <<>>]
           stack[i \in Nat] ==
             [x \in Nodes \cup {nil, root} |->
               IF i = 0 \/ x = nil \/ low > Key(x) THEN <<>>
               ELSE stack[i - 1][TreePredecessor(t, x)] \o <<x>>]
<1>1. \A x \in N : TreePredecessor(t, x) \in N
  BY SideFacts, NeighbourIn DEF TreePredecessor
<1>2. none \in S /\ F \in [S -> S]
  <2>1. ASSUME NEW f \in S PROVE Up(f) \in S
    <3> HIDE DEF Stop
    <3>1. \A x \in N : f[TreePredecessor(t, x)] \in Seq(N) /\ <<x>> \in Seq(N)
      BY <1>1
    <3>2. \A x \in N : f[TreePredecessor(t, x)] \o <<x>> \in Seq(N)
      BY <3>1
    <3>3. <<>> \in Seq(N)
      OBVIOUS
    <3> QED  BY <3>2, <3>3
  <2>2. none \in S
    OBVIOUS
  <2> HIDE DEF Up, S
  <2> QED  BY <2>1, <2>2
<1> HIDE DEF S, F, none, Stop
<1>3. PICK g : Iterates(g, S, F, none)
  BY <1>2, Iteration, Zenon
<1>4. g = [i \in Nat |-> [x \in N |->
             IF i = 0 \/ Stop(x) THEN <<>> ELSE g[i - 1][TreePredecessor(t, x)] \o <<x>>]]
  <2>1. g \in [Nat -> S] /\ g[0] = none /\ \A i \in Nat : g[i + 1] = F[g[i]]
    BY <1>3 DEF Iterates
  <2>2. ASSUME NEW i \in Nat
        PROVE  g[i] = [x \in N |-> IF i = 0 \/ Stop(x) THEN <<>>
                                   ELSE g[i - 1][TreePredecessor(t, x)] \o <<x>>]
    <3>1. CASE i = 0
      BY <2>1, <3>1 DEF none
    <3>2. CASE i # 0
      <4>1. i - 1 \in Nat /\ (i - 1) + 1 = i
        BY <3>2
      <4>2. g[i - 1] \in S /\ g[i] = F[g[i - 1]]
        BY <2>1, <4>1
      <4>3. g[i] = Up(g[i - 1])
        BY <4>2 DEF F
      <4> QED  BY <3>2, <4>3
    <3> QED  BY <3>1, <3>2
  <2>3. g = [i \in Nat |-> g[i]]
    BY <2>1
  <2> QED  BY <2>2, <2>3
<1>5. stack = CHOOSE f : f = [i \in Nat |-> [x \in N |->
                IF i = 0 \/ x = nil \/ low > Key(x) THEN <<>>
                ELSE f[i - 1][TreePredecessor(t, x)] \o <<x>>]]
  BY DEF stack, N
<1>6. \A x : Pushed(t, low, x) = stack[NODES][x]
  BY DEF Pushed, stack
<1> HIDE DEF stack, Up
<1>7. stack = [i \in Nat |-> [x \in N |->
                IF i = 0 \/ x = nil \/ low > Key(x) THEN <<>>
                ELSE stack[i - 1][TreePredecessor(t, x)] \o <<x>>]]
  <2> DEFINE G(f) == [i \in Nat |-> [x \in N |->
                IF i = 0 \/ x = nil \/ low > Key(x) THEN <<>>
                ELSE f[i - 1][TreePredecessor(t, x)] \o <<x>>]]
  <2>1. G(g) = [i \in Nat |-> [x \in N |->
             IF i = 0 \/ Stop(x) THEN <<>> ELSE g[i - 1][TreePredecessor(t, x)] \o <<x>>]]
    BY DEF Stop
  <2>2. g = G(g)
    BY <1>4, <2>1
  <2>3. stack = CHOOSE f : f = G(f)
    BY <1>5
  <2> HIDE DEF G
  <2>4. stack = G(stack)
    BY <2>2, <2>3
  <2> QED  BY <2>4 DEF G
<1>8. /\ \A x \in N : stack[0][x] = <<>>
      /\ \A i \in Nat : \A x \in N :
           stack[i + 1][x] = IF x = nil \/ low > Key(x) THEN <<>>
                             ELSE stack[i][TreePredecessor(t, x)] \o <<x>>
  <2> DEFINE Value(k, x) == IF k = 0 \/ x = nil \/ low > Key(x) THEN <<>>
                            ELSE stack[k - 1][TreePredecessor(t, x)] \o <<x>>
  <2>0. \A k \in Nat : \A x \in N : stack[k][x] = Value(k, x)
    <3>1. stack = [k \in Nat |-> [x \in N |-> Value(k, x)]]
      BY <1>7
    <3> HIDE DEF Value
    <3> QED  BY <3>1
  <2>1. \A x \in N : stack[0][x] = <<>>
    BY <2>0
  <2>2. ASSUME NEW i \in Nat, NEW x \in N
        PROVE  stack[i + 1][x] = IF x = nil \/ low > Key(x) THEN <<>>
                                 ELSE stack[i][TreePredecessor(t, x)] \o <<x>>
    <3>1. i + 1 \in Nat /\ i + 1 # 0 /\ (i + 1) - 1 = i
      OBVIOUS
    <3>2. stack[i + 1][x] = Value(i + 1, x)
      <4> HIDE DEF Value
      <4> QED  BY <2>0, <3>1
    <3> QED  BY <3>1, <3>2
  <2> QED  BY <2>1, <2>2
<1> QED  BY <1>6, <1>8 DEF Stacked

(* A piece of a list with the next element is the piece that ends with it.  *)
LEMMA PieceGrows ==
  ASSUME NEW A, NEW l \in Seq(A), NEW b \in Nat, NEW c \in Nat, b < c, c <= Len(l)
  PROVE  SubSeq(l, b + 1, c - 1) \o <<l[c]>> = SubSeq(l, b + 1, c)
<1> DEFINE u == SubSeq(l, b + 1, c - 1)
           v == SubSeq(l, b + 1, c)
<1>1. /\ u \in Seq(A) /\ Len(u) = c - 1 - b
      /\ \A i \in 1 .. c - 1 - b : u[i] = l[b + i]
  OBVIOUS
<1>2. /\ v \in Seq(A) /\ Len(v) = c - b
      /\ \A i \in 1 .. c - b : v[i] = l[b + i]
  OBVIOUS
<1> HIDE DEF u, v
<1>3. l[c] \in A
  OBVIOUS
<1>4. u \o <<l[c]>> \in Seq(A) /\ Len(u \o <<l[c]>>) = c - b
  BY <1>1, <1>3
<1>5. ASSUME NEW i \in 1 .. c - b PROVE (u \o <<l[c]>>)[i] = v[i]
  <2>1. CASE i = c - b
    BY <1>1, <1>2, <1>3, <2>1
  <2>2. CASE i # c - b
    BY <1>1, <1>2, <1>3, <2>2
  <2> QED  BY <2>1, <2>2
<1>6. u \o <<l[c]>> = v
  BY <1>2, <1>4, <1>5
<1> QED  BY <1>6 DEF u, v

-----------------------------------------------------------------------------
(* RBEnumerate finds the nodes from low to high in the tree that the        *)
(* invariant describes.                                                     *)
LEMMA GoodRange ==
  ASSUME NEW lt, Good(tree, allocated, lt), NEW low \in Int, NEW high \in Int, low <= high
  PROVE  RangeEnumerated(list, low, high)
<1> DEFINE A == allocated
           t == tree
           n == Len(list)
           b == Before(list, low)
           c == UpTo(list, high)
           at(k) == IF k = 0 THEN nil ELSE list[k]
<1>1. PICK sub : Shaped(t, A, lt, sub)
  BY DEF Good, Balanced
<1>2. Order(lt, A) /\ KeyOrder(lt, A)
  BY DEF Good, KeyOrder
<1>3. Ranked(list, A, lt)
  BY <1>1, InOrderRanked DEF list
<1>4. /\ n \in Nat /\ DOMAIN list = 1 .. n /\ \A k \in 1 .. n : list[k] \in A
      /\ \A j, k \in 1 .. n : j < k <=> <<list[j], list[k]>> \in lt
      /\ \A a \in A : \E k \in 1 .. n : list[k] = a
      /\ list \in Seq(A)
  <2> HIDE DEF n, A
  <2>1. /\ Len(list) \in Nat /\ DOMAIN list = 1 .. Len(list)
        /\ \A k \in 1 .. Len(list) : list[k] \in A
        /\ \A j, k \in 1 .. Len(list) : j < k <=> <<list[j], list[k]>> \in lt
    BY <1>2, <1>3, RankedFacts, Zenon
  <2>2. /\ \A a \in A : \E k \in 1 .. Len(list) : list[k] = a
        /\ list \in Seq(A)
    BY <1>3 DEF Ranked
  <2> QED  BY <2>1, <2>2 DEF n
<1>5. n <= NODES /\ NODES \in Nat
  <2>1. n = Cardinality(A)
    BY <1>2, <1>3, RankedRange
  <2> QED  BY <1>1, <2>1, SubGrows, Names
<1>6. nil \notin A /\ A \subseteq N /\ nil \in N /\ t \in Tree
  BY <1>1, ShapeFacts
<1>7. \A k \in 1 .. n : TreePredecessor(t, list[k]) = at(k - 1)
  <2>1. NeighboursFound
    BY GoodNeighbours
  <2> SUFFICES ASSUME NEW k \in 1 .. n PROVE TreePredecessor(t, list[k]) = at(k - 1)
    OBVIOUS
  <2>2. k \in DOMAIN list /\ k \in Int /\ (k - 1 = 0 <=> k = 1)
    BY <1>4
  <2>3. TreePredecessor(t, list[k]) = IF k = 1 THEN nil ELSE list[k - 1]
    BY <2>1, <2>2 DEF NeighboursFound
  <2> HIDE DEF t, n
  <2> QED  BY <2>2, <2>3
<1>8. \A a \in A : Key(a) \in Int
  <2>1. A \subseteq Nodes
    BY <1>1 DEF Shaped, Links
  <2> QED  BY <2>1, RBTreeAssumption DEF Key, Nodes
<1> HIDE DEF t, A, n
<1>9. \A j, k \in 1 .. n : j < k => Key(list[j]) <= Key(list[k])
  BY <1>2, <1>4 DEF KeyOrder
<1>10. b \in 0 .. n /\ \A k \in 1 .. n : k <= b <=> Key(list[k]) < low
  <2> DEFINE U == { k \in DOMAIN list : Key(list[k]) < low }
  <2>1. U \subseteq 1 .. n
    BY <1>4
  <2>2. ASSUME NEW k \in U, NEW j \in 1 .. n, j < k PROVE j \in U
    <3>1. Key(list[j]) <= Key(list[k]) /\ Key(list[k]) < low
      BY <1>9, <2>1, <2>2
    <3> QED  BY <1>4, <1>8, <2>1, <3>1
  <2>3. \A k \in 1 .. n : k \in U <=> Key(list[k]) < low
    BY <1>4
  <2>4. b = Cardinality(U)
    BY DEF Before
  <2> HIDE DEF U, b
  <2>5. b \in 0 .. n /\ U = 1 .. b
    BY <1>4, <2>1, <2>2, <2>4, Initial
  <2> QED  BY <2>3, <2>5
<1>11. c \in 0 .. n /\ \A k \in 1 .. n : k <= c <=> Key(list[k]) <= high
  <2> DEFINE U == { k \in DOMAIN list : Key(list[k]) <= high }
  <2>1. U \subseteq 1 .. n
    BY <1>4
  <2>2. ASSUME NEW k \in U, NEW j \in 1 .. n, j < k PROVE j \in U
    <3>1. Key(list[j]) <= Key(list[k]) /\ Key(list[k]) <= high
      BY <1>9, <2>1, <2>2
    <3> QED  BY <1>4, <1>8, <2>1, <3>1
  <2>3. \A k \in 1 .. n : k \in U <=> Key(list[k]) <= high
    BY <1>4
  <2>4. c = Cardinality(U)
    BY DEF UpTo
  <2> HIDE DEF U, c
  <2>5. c \in 0 .. n /\ U = 1 .. c
    BY <1>4, <2>1, <2>2, <2>4, Initial
  <2> QED  BY <2>3, <2>5
<1> HIDE DEF b, c
<1>12. b <= c
  <2> SUFFICES ASSUME b > c PROVE FALSE
    BY <1>10, <1>11
  <2>1. b \in 1 .. n /\ ~(b <= c)
    BY <1>4, <1>10, <1>11
  <2>2. Key(list[b]) < low /\ ~(Key(list[b]) <= high)
    BY <1>10, <1>11, <2>1
  <2> QED  BY <1>4, <1>8, <2>1, <2>2
<1>13. LastUpTo(t, high) = at(c)
  <2> DEFINE y == LastUpTo(t, high)
  <2>1. Bounding(<<nil, y>>, A, lt, sub, high)
    BY <1>1, <1>2, LastUpToFound
  <2>2. sub[nil] = {}
    BY <1>1 DEF Shaped, Search
  <2> HIDE DEF y
  <2>3. /\ y \in A \cup {nil} /\ (y \in A => Key(y) <= high)
        /\ \A a \in A : Key(a) <= high => y \in A /\ (a = y \/ <<a, y>> \in lt)
    BY <2>1, <2>2 DEF Bounding
  <2>4. CASE c = 0
    <3>1. y \notin A
      BY <1>4, <1>11, <2>3, <2>4
    <3> QED  BY <2>3, <2>4, <3>1 DEF y
  <2>5. CASE c # 0
    <3>1. c \in 1 .. n /\ Key(list[c]) <= high /\ list[c] \in A
      BY <1>4, <1>11, <2>5
    <3>2. y \in A /\ (list[c] = y \/ <<list[c], y>> \in lt)
      BY <2>3, <3>1
    <3>3. PICK k \in 1 .. n : list[k] = y
      BY <1>4, <3>2
    <3>4. k <= c /\ ~(c < k)
      BY <1>4, <1>11, <2>3, <3>2, <3>3
    <3>5. list[c] = y
      BY <1>4, <3>1, <3>2, <3>3, <3>4
    <3> QED  BY <2>5, <3>5 DEF y
  <2> QED  BY <2>4, <2>5
<1>14. PICK stack : Stacked(t, low, stack)
  BY <1>6, StackedExists
<1> DEFINE P == { i \in Nat : \A k \in b .. n : k - b <= i =>
                                stack[i][at(k)] = SubSeq(list, b + 1, k) }
<1>15. \A k \in 0 .. n : at(k) \in N /\ (k # 0 => k \in 1 .. n /\ at(k) = list[k] /\ at(k) \in A)
  BY <1>4, <1>6
<1>16. SubSeq(list, b + 1, b) = <<>>
  BY <1>4, <1>10
<1>17. 0 \in P
  <2>1. ASSUME NEW k \in b .. n, k - b <= 0
        PROVE  stack[0][at(k)] = SubSeq(list, b + 1, k)
    <3>1. k = b /\ k \in 0 .. n
      BY <1>4, <1>10, <2>1
    <3>2. stack[0][at(k)] = <<>>
      BY <1>14, <1>15, <3>1 DEF Stacked
    <3> QED  BY <1>16, <3>1, <3>2
  <2> QED  BY <2>1
<1>18. ASSUME NEW i \in Nat, i \in P PROVE i + 1 \in P
  <2>1. ASSUME NEW k \in b .. n, k - b <= i + 1
        PROVE  stack[i + 1][at(k)] = SubSeq(list, b + 1, k)
    <3>1. k \in 0 .. n /\ at(k) \in N
      BY <1>4, <1>10, <1>15
    <3>2. stack[i + 1][at(k)] = IF at(k) = nil \/ low > Key(at(k)) THEN <<>>
                                ELSE stack[i][TreePredecessor(t, at(k))] \o <<at(k)>>
      BY <1>14, <3>1 DEF Stacked
    <3>3. CASE k = b
      <4>1. at(k) = nil \/ low > Key(at(k))
        <5>1. CASE k = 0
          BY <5>1
        <5>2. CASE k # 0
          <6>1. k \in 1 .. n /\ k <= b /\ at(k) = list[k] /\ at(k) \in A
            BY <1>10, <1>15, <3>1, <3>3, <5>2
          <6>2. Key(at(k)) < low
            BY <1>10, <6>1
          <6> HIDE DEF at
          <6> QED  BY <1>8, <6>1, <6>2
        <5> QED  BY <5>1, <5>2
      <4> HIDE DEF at
      <4> QED  BY <1>16, <3>2, <3>3, <4>1
    <3>4. CASE k # b
      <4>1. k \in 1 .. n /\ ~(k <= b) /\ at(k) = list[k] /\ at(k) \in A /\ at(k) # nil
        BY <1>6, <1>10, <1>15, <3>1, <3>4
      <4>2. ~(low > Key(at(k)))
        <5>1. ~(Key(at(k)) < low)
          BY <1>10, <4>1
        <5> HIDE DEF at
        <5> QED  BY <1>8, <4>1, <5>1
      <4>3. TreePredecessor(t, at(k)) = at(k - 1)
        BY <1>7, <4>1
      <4>4. k - 1 \in b .. n /\ (k - 1) - b <= i
        BY <1>4, <1>10, <2>1, <3>4
      <4>5. stack[i][at(k - 1)] = SubSeq(list, b + 1, k - 1)
        BY <1>18, <4>4
      <4>6. SubSeq(list, b + 1, k - 1) \o <<list[k]>> = SubSeq(list, b + 1, k)
        <5>1. k \in Nat /\ b \in Nat /\ b < k /\ k <= Len(list)
          BY <1>4, <1>10, <4>1 DEF n
        <5> QED  BY <1>4, <5>1, PieceGrows
      <4> HIDE DEF at
      <4> QED  BY <3>2, <4>1, <4>2, <4>3, <4>5, <4>6
    <3> QED  BY <3>3, <3>4
  <2> QED  BY <2>1
<1>19. stack[NODES][at(c)] = SubSeq(list, b + 1, c)
  <2>1. NODES \in P
    <3> HIDE DEF P
    <3> QED  BY <1>5, <1>17, <1>18, AllReached
  <2>2. c \in b .. n /\ c - b <= NODES
    BY <1>4, <1>5, <1>10, <1>11, <1>12
  <2> QED  BY <2>1, <2>2
<1>20. Pushed(t, low, at(c)) = stack[NODES][at(c)]
  BY <1>11, <1>14, <1>15 DEF Stacked
<1> HIDE DEF at
<1> QED  BY <1>13, <1>19, <1>20 DEF RangeEnumerated, RBEnumerate, b, c, t

-----------------------------------------------------------------------------
(* No two nodes are in the subtrees of each other.                          *)
LEMMA NotBoth ==
  ASSUME NEW t, NEW A, NEW lt, NEW sub, Shaped(t, A, lt, sub),
         NEW x \in A, NEW n \in sub[x], n # x
  PROVE  x \notin sub[n]
<1>1. PICK e \in Sides : n \in sub[t[e][x]]
  BY SideFacts DEF Shaped, Search
<1>2. t[e][x] \in A /\ x \notin sub[t[e][x]]
  <2>1. x \notin sub[t[e][x]]
    BY ChildOn DEF Shaped
  <2>2. t[e][x] # nil
    BY <1>1 DEF Shaped, Search
  <2> QED  BY <2>1, <2>2, ShapeFacts
<1>3. sub[n] \subseteq sub[t[e][x]]
  BY <1>1, <1>2, Nested
<1> QED  BY <1>2, <1>3

(* The nodes from n up to the top.                                          *)
Upwards(A, sub, n) == { m \in A : n \in sub[m] }

(* The depth of a node is the number of the nodes from it up to the top.    *)
LEMMA UpwardsGrows ==
  ASSUME NEW t, NEW A, NEW lt, NEW sub, Shaped(t, A, lt, sub)
  PROVE  /\ Cardinality(Upwards(A, sub, root)) = 0
         /\ \A n \in A : /\ Cardinality(Upwards(A, sub, n)) \in Nat
                         /\ Cardinality(Upwards(A, sub, n)) =
                              1 + Cardinality(Upwards(A, sub, t.parent[n]))
         /\ \A x \in A : \A n \in sub[x] : n # x =>
              Cardinality(Upwards(A, sub, x)) < Cardinality(Upwards(A, sub, n))
<1>1. /\ \A k \in A : k \in sub[k] /\ sub[k] \subseteq A
      /\ \A k \in A : \A n \in sub[k] :
           n \in A /\ sub[n] \subseteq sub[k] /\ (n # k => t.parent[n] \in sub[k])
      /\ root \notin A /\ \A n \in A : t.parent[n] \in A \cup {root}
  <2>1. \A k \in A : k \in sub[k] /\ sub[k] \subseteq A
    BY SubGrows
  <2>2. root \notin A /\ \A n \in A : t.parent[n] \in A \cup {root}
    BY ShapeFacts
  <2>3. \A k \in A : \A n \in sub[k] :
          n \in A /\ sub[n] \subseteq sub[k] /\ (n # k => t.parent[n] \in sub[k])
    BY Nested
  <2> QED  BY <2>1, <2>2, <2>3
<1>2. \A n : IsFiniteSet(Upwards(A, sub, n)) /\ Cardinality(Upwards(A, sub, n)) \in Nat
  <2>1. IsFiniteSet(A) /\ \A n : Upwards(A, sub, n) \subseteq A
    BY SubGrows DEF Upwards
  <2> QED  BY <2>1, FS_Subset, FS_CardinalityType
<1>3. Upwards(A, sub, root) = {}
  BY <1>1 DEF Upwards
<1>4. ASSUME NEW n \in A
      PROVE  Cardinality(Upwards(A, sub, n)) = 1 + Cardinality(Upwards(A, sub, t.parent[n]))
  <2> DEFINE p == t.parent[n]
  <2>1. p \in A => sub[n] \subseteq sub[p]
    BY SubGrows
  <2>2. p \in A => p # n
    BY ShapeFacts
  <2>3. p \notin sub[n]
    <3>1. CASE p \in A
      <4>1. n \in sub[p] /\ n # p
        BY <1>1, <2>1, <2>2, <3>1
      <4> QED  BY <3>1, <4>1, NotBoth
    <3>2. CASE p \notin A
      BY <1>1, <3>2
    <3> QED  BY <3>1, <3>2
  <2>4. ASSUME NEW m \in A PROVE n \in sub[m] <=> m = n \/ p \in sub[m]
    <3>1. n \in sub[m] => m = n \/ p \in sub[m]
      BY <1>1
    <3>2. p \in sub[m] => n \in sub[m]
      <4> SUFFICES ASSUME p \in sub[m] PROVE n \in sub[m]
        OBVIOUS
      <4>1. p \in A /\ sub[p] \subseteq sub[m]
        BY <1>1
      <4> QED  BY <1>1, <2>1, <4>1
    <3> QED  BY <1>1, <3>1, <3>2
  <2> HIDE DEF p
  <2>5. Upwards(A, sub, n) = Upwards(A, sub, p) \cup {n} /\ n \notin Upwards(A, sub, p)
    BY <2>3, <2>4 DEF Upwards
  <2>6. Cardinality(Upwards(A, sub, p) \cup {n}) = Cardinality(Upwards(A, sub, p)) + 1
    BY <1>2, <2>5, FS_AddElement
  <2> QED  BY <1>2, <2>5, <2>6 DEF p
<1>5. ASSUME NEW x \in A, NEW n \in sub[x], n # x
      PROVE  Cardinality(Upwards(A, sub, x)) < Cardinality(Upwards(A, sub, n))
  <2>1. x \notin sub[n]
    BY <1>5, NotBoth
  <2>2. n \in A /\ n \in sub[n] /\ \A m \in A : x \in sub[m] => n \in sub[m]
    BY <1>1
  <2>3. Upwards(A, sub, x) \cup {n} \subseteq Upwards(A, sub, n) /\ n \notin Upwards(A, sub, x)
    BY <2>1, <2>2 DEF Upwards
  <2>4. Cardinality(Upwards(A, sub, x) \cup {n}) = Cardinality(Upwards(A, sub, x)) + 1
    BY <1>2, <2>3, FS_AddElement
  <2>5. Cardinality(Upwards(A, sub, x) \cup {n}) <= Cardinality(Upwards(A, sub, n))
    BY <1>2, <2>3, FS_Subset
  <2> QED  BY <1>2, <2>4, <2>5
<1> QED  BY <1>2, <1>3, <1>4, <1>5, FS_EmptySet

(* RBExactQuery finds the highest of the nodes with the key.                *)
LEMMA GoodExact ==
  ASSUME NEW lt, Good(tree, allocated, lt), NEW q \in Int
  PROVE  HighestFound(q)
<1> DEFINE A == allocated
           t == tree
           hits == { n \in allocated : Key(n) = q }
           depth[n \in allocated \cup {root}] ==
             IF n = root THEN 0 ELSE 1 + depth[tree.parent[n]]
<1>1. PICK sub : Shaped(t, A, lt, sub)
  BY DEF Good, Balanced
<1>2. KeyOrder(lt, A)
  BY DEF Good
<1>3. PICK x : /\ Searching(A, sub, q, x) /\ (x = nil \/ Key(x) = q)
               /\ RBExactQuery(t, q) = IF x = nil THEN NULL ELSE x
  BY <1>1, <1>2, SearchFound
<1>4. /\ root \notin A /\ nil \notin A /\ sub[nil] = {}
      /\ \A n \in A : t.parent[n] \in A \cup {root}
  <2>1. root \notin A /\ nil \notin A /\ \A n \in A : t.parent[n] \in A \cup {root}
    BY <1>1, ShapeFacts
  <2>2. sub[nil] = {}
    BY <1>1 DEF Shaped, Search
  <2> QED  BY <2>1, <2>2
<1> DEFINE up(n) == Cardinality(Upwards(A, sub, n))
<1>5. /\ up(root) = 0
      /\ \A n \in A : up(n) \in Nat /\ up(n) = 1 + up(t.parent[n])
      /\ \A k \in A : \A n \in sub[k] : n # k => up(k) < up(n)
  BY <1>1, UpwardsGrows
<1>6. depth = CHOOSE f : f = [n \in A \cup {root} |->
                IF n = root THEN 0 ELSE 1 + f[t.parent[n]]]
  BY DEF depth
<1>7. HighestFound(q) <=> IF hits = {} THEN RBExactQuery(t, q) = NULL
                          ELSE /\ RBExactQuery(t, q) \in hits
                               /\ \A n \in hits \ {RBExactQuery(t, q)} :
                                    depth[RBExactQuery(t, q)] < depth[n]
  BY DEF HighestFound, depth
<1> HIDE DEF depth, t, up
<1>8. depth = [n \in A \cup {root} |-> IF n = root THEN 0 ELSE 1 + depth[t.parent[n]]]
  <2> DEFINE g == [n \in A \cup {root} |-> up(n)]
  <2>1. g = [n \in A \cup {root} |-> IF n = root THEN 0 ELSE 1 + g[t.parent[n]]]
    <3> HIDE DEF A
    <3> QED  BY <1>4, <1>5
  <2> HIDE DEF g
  <2> QED  BY <1>6, <2>1
<1>9. \A n \in A : depth[n] = up(n)
  <2> DEFINE P == { i \in Nat : \A n \in A : up(n) <= i => depth[n] = up(n) }
  <2> HIDE DEF A
  <2>1. 0 \in P
    <3>1. ASSUME NEW n \in A, up(n) <= 0 PROVE depth[n] = up(n)
      <4>1. up(n) = 1 + up(t.parent[n]) /\ up(t.parent[n]) \in Nat
        BY <1>4, <1>5
      <4> QED  BY <3>1, <4>1
    <3> QED  BY <3>1
  <2>2. ASSUME NEW i \in Nat, i \in P PROVE i + 1 \in P
    <3>1. ASSUME NEW n \in A, up(n) <= i + 1 PROVE depth[n] = up(n)
      <4>1. /\ up(n) = 1 + up(t.parent[n]) /\ up(t.parent[n]) \in Nat
            /\ n # root /\ t.parent[n] \in A \cup {root}
        BY <1>4, <1>5
      <4>2. depth[n] = 1 + depth[t.parent[n]]
        BY <1>8, <4>1
      <4>3. depth[t.parent[n]] = up(t.parent[n])
        <5>1. CASE t.parent[n] = root
          BY <1>5, <1>8, <5>1
        <5>2. CASE t.parent[n] \in A
          BY <2>2, <3>1, <4>1, <5>2
        <5> QED  BY <4>1, <5>1, <5>2
      <4> QED  BY <4>1, <4>2, <4>3
    <3> QED  BY <3>1
  <2>3. Nat \subseteq P
    <3> HIDE DEF P
    <3> QED  BY <2>1, <2>2, AllReached
  <2>4. ASSUME NEW n \in A PROVE depth[n] = up(n)
    <3>1. up(n) \in P /\ up(n) <= up(n)
      BY <1>5, <2>3
    <3> QED  BY <3>1
  <2> QED  BY <2>4
<1>10. CASE hits = {}
  <2>1. x = nil
    BY <1>3, <1>10 DEF Searching
  <2> QED  BY <1>3, <1>7, <1>10, <2>1
<1>11. CASE hits # {}
  <2>1. hits \subseteq A /\ hits \subseteq sub[x]
    BY <1>3 DEF Searching
  <2>2. x # nil /\ x \in hits
    BY <1>3, <1>4, <1>11, <2>1 DEF Searching
  <2>3. RBExactQuery(t, q) = x
    BY <1>3, <2>2
  <2>4. ASSUME NEW n \in hits, n # x PROVE depth[x] < depth[n]
    <3>1. x \in A /\ n \in A /\ n \in sub[x]
      BY <2>1, <2>2
    <3>2. up(x) < up(n)
      BY <1>5, <2>4, <3>1
    <3> QED  BY <1>9, <3>1, <3>2
  <2> QED  BY <1>7, <1>11, <2>2, <2>3, <2>4
<1> QED  BY <1>10, <1>11

(* What QueriesAnswered says follows from the invariant.                    *)
LEMMA GoodQueries ==
  ASSUME NEW lt, Good(tree, allocated, lt)
  PROVE  QueriesAnswered
<1>1. Queries \subseteq Int
  BY RBTreeAssumption
<1>2. \A q \in Queries : HighestFound(q)
  BY <1>1, GoodExact
<1>3. \A q, low \in Queries : low <= q => RangeEnumerated(list, low, q)
  BY <1>1, GoodRange
<1> QED  BY <1>2, <1>3 DEF QueriesAnswered

-----------------------------------------------------------------------------
(* The inductive invariant: for some order of the allocated nodes, by       *)
(* key, the tree is a search tree for it with the colours and the black     *)
(* heights of a red-black tree.  The order is what tells nodes with equal   *)
(* keys apart.                                                              *)
Kept == \E lt : Good(tree, allocated, lt)

(* The nodes of the tree from left to right are those of the order.         *)
LEMMA ListRanked ==
  ASSUME NEW t, NEW A, NEW lt, Good(t, A, lt)
  PROVE  Order(lt, A) /\ Ranked(InOrder(t, A), A, lt)
<1>1. PICK sub : Shaped(t, A, lt, sub)
  BY DEF Good, Balanced
<1> QED  BY <1>1, InOrderRanked DEF Shaped

(* RBTreeInsert puts its node into the list behind those with its key.      *)
LEMMA InsertListed ==
  ASSUME NEW t, NEW A, NEW lt, A \subseteq Nodes, Good(t, A, lt), NEW z \in Nodes, z \notin A
  PROVE  InOrder(RBTreeInsert(t, z), A \cup {z}) \in Promise!Insertions(InOrder(t, A))
<1> DEFINE l == InOrder(t, A)
           m == InOrder(RBTreeInsert(t, z), A \cup {z})
           new == Behind(lt, A, z)
<1>1. Order(new, A \cup {z}) /\ Ranked(m, A \cup {z}, new)
  BY InsertGood, ListRanked
<1>2. Order(lt, A) /\ Ranked(l, A, lt) /\ KeyOrder(lt, A)
  BY ListRanked DEF Good
<1> HIDE DEF l, m, new
<1>3. Ranked(Promise!Inserted(l, z), A \cup {z}, new)
  BY <1>2, RankedInsert DEF new
<1>4. m = Promise!Inserted(l, z)
  BY <1>1, <1>3, RankedUnique
<1>5. z \in Nodes \ Range(l)
  BY <1>2, RankedRange
<1>6. Promise!Range(l) = Range(l)
  BY DEF Promise!Range, Range
<1> QED  BY <1>4, <1>5, <1>6 DEF Promise!Insertions, l, m

(* RBDelete takes its node out of the list.                                 *)
LEMMA DeleteListed ==
  ASSUME NEW t, NEW A, NEW lt, Good(t, A, lt), NEW z \in A
  PROVE  InOrder(RBDelete(t, z), A \ {z}) \in Promise!Deletions(InOrder(t, A))
<1> DEFINE l == InOrder(t, A)
           m == InOrder(RBDelete(t, z), A \ {z})
<1>1. Order(lt, A \ {z}) /\ Ranked(m, A \ {z}, lt)
  BY DeleteGood, ListRanked
<1>2. Order(lt, A) /\ Ranked(l, A, lt)
  BY ListRanked
<1> HIDE DEF l, m
<1>3. PICK i \in 1 .. Len(l) : l[i] = z
  BY <1>2 DEF Ranked
<1>4. Ranked(RemoveAt(l, i), A \ {z}, lt)
  BY <1>2, <1>3, RankedRemove
<1>5. m = RemoveAt(l, i)
  BY <1>1, <1>4, RankedUnique
<1>6. Promise!RemoveAt(l, i) = RemoveAt(l, i) /\ i \in DOMAIN l
  BY <1>2, <1>3, RankedFacts DEF Promise!RemoveAt, RemoveAt
<1> QED  BY <1>5, <1>6 DEF Promise!Deletions, l, m

(* Only nodes are allocated.                                                *)
LEMMA GoodNodes ==
  ASSUME NEW t, NEW A, NEW lt, Good(t, A, lt)
  PROVE  A \subseteq Nodes
BY DEF Good, Balanced, Shaped, Links

(* The invariant holds at first.                                            *)
LEMMA KeptInit == RBInit => Kept
BY GoodInit DEF Kept

(* Every insertion and every deletion keeps it, and is one of the list.     *)
LEMMA KeptNext == Kept /\ [RBNext]_rbVars => Kept' /\ [Promise!Next]_list
<1> SUFFICES ASSUME Kept, [RBNext]_rbVars PROVE Kept' /\ [Promise!Next]_list
  OBVIOUS
<1>1. PICK lt : Good(tree, allocated, lt)
  BY DEF Kept
<1>2. ASSUME NEW n \in Nodes, Insert(n) PROVE Kept' /\ [Promise!Next]_list
  <2>1. /\ n \notin allocated /\ tree' = RBTreeInsert(tree, n)
        /\ allocated' = allocated \cup {n}
    BY <1>2 DEF Insert
  <2>2. allocated \subseteq Nodes
    BY <1>1, GoodNodes
  <2>3. Good(tree', allocated', Behind(lt, allocated, n))
    <3>1. Good(RBTreeInsert(tree, n), allocated \cup {n}, Behind(lt, allocated, n))
      BY <1>1, <2>1, InsertGood
    <3> QED  BY <2>1, <3>1
  <2>4. InOrder(tree', allocated') \in Promise!Insertions(InOrder(tree, allocated))
    <3>1. InOrder(RBTreeInsert(tree, n), allocated \cup {n})
             \in Promise!Insertions(InOrder(tree, allocated))
      BY <1>1, <2>1, <2>2, InsertListed
    <3> QED  BY <2>1, <3>1
  <2> QED  BY <2>3, <2>4 DEF Kept, Promise!Next, Promise!Insert, list
<1>3. ASSUME NEW n \in Nodes, Delete(n) PROVE Kept' /\ [Promise!Next]_list
  <2>1. /\ n \in allocated /\ tree' = RBDelete(tree, n)
        /\ allocated' = allocated \ {n}
    BY <1>3 DEF Delete
  <2>2. Good(tree', allocated', lt)
    <3>1. Good(RBDelete(tree, n), allocated \ {n}, lt)
      BY <1>1, <2>1, DeleteGood
    <3> QED  BY <2>1, <3>1
  <2>3. InOrder(tree', allocated') \in Promise!Deletions(InOrder(tree, allocated))
    <3>1. InOrder(RBDelete(tree, n), allocated \ {n})
             \in Promise!Deletions(InOrder(tree, allocated))
      BY <1>1, <2>1, DeleteListed
    <3> QED  BY <2>1, <3>1
  <2> QED  BY <2>2, <2>3 DEF Kept, Promise!Next, Promise!Delete, list
<1>4. CASE UNCHANGED rbVars
  <2>1. tree' = tree /\ allocated' = allocated
    BY <1>4 DEF rbVars
  <2> QED  BY <1>1, <2>1 DEF Kept, list
<1> QED  BY <1>2, <1>3, <1>4 DEF RBNext

(* The tree is a red-black tree and a search tree after every sequence of   *)
(* insertions and deletions, for any number of nodes and of equal keys.     *)
THEOREM RBInvariant == RBSpec => []Kept
<1>1. Kept /\ [RBNext]_rbVars => Kept'
  BY KeptNext
<1> QED  BY KeptInit, <1>1, PTL DEF RBSpec

(* The links are those of a tree of exactly the nodes RBTreeInsert has      *)
(* returned and RBDelete has not freed: none is lost, none is reached       *)
(* twice, and no link leads to a freed node.                                *)
THEOREM LinkedAlways == RBSpec => []Linked
<1>1. Kept => Linked
  BY GoodLinked DEF Kept
<1> QED  BY RBInvariant, <1>1, PTL

(* No red node is below a red one, all paths have equally many black        *)
(* nodes, and the sentinels and the top are black.                          *)
THEOREM RedBlackAlways == RBSpec => []RedBlack
<1>1. Kept => RedBlack
  BY GoodRedBlack DEF Kept
<1> QED  BY RBInvariant, <1>1, PTL

(* TreeSuccessor, TreePredecessor and leftmost find the next, the           *)
(* previous and the first process in the order of the keys, and nil at      *)
(* the ends.                                                                *)
THEOREM NeighboursFoundAlways == RBSpec => []NeighboursFound
<1>1. Kept => NeighboursFound
  BY GoodNeighbours DEF Kept
<1> QED  BY RBInvariant, <1>1, PTL

(* However rotations have shaped the tree, RBExactQuery finds the highest   *)
(* node with the key it is given or tells that there is none, and           *)
(* RBEnumerate all nodes in a range of keys, in order.                      *)
THEOREM QueriesAnsweredAlways == RBSpec => []QueriesAnswered
<1>1. Kept => QueriesAnswered
  BY GoodQueries DEF Kept
<1> QED  BY RBInvariant, <1>1, PTL

(* The red-black tree implements the sorted list the scheduler takes it     *)
(* for: an insertion goes behind the nodes with its key, and a deletion     *)
(* takes out the node it is given although it may move another in its       *)
(* place.                                                                   *)
THEOREM TreeImplementsList == RBSpec => ImplementsOrderedList
<1>1. RBInit => Promise!Init
  <2> SUFFICES ASSUME RBInit PROVE list = <<>>
    BY DEF Promise!Init
  <2>1. Good(tree, allocated, {}) /\ allocated = {}
    BY GoodInit DEF RBInit
  <2>2. Order({}, {}) /\ Ranked(list, {}, {})
    BY <2>1, ListRanked DEF list
  <2>3. Ranked(<<>>, {}, {})
    BY DEF Ranked
  <2> QED  BY <2>2, <2>3, RankedUnique
<1>2. Kept /\ [RBNext]_rbVars => Kept' /\ [Promise!Next]_list
  BY KeptNext
<1> QED  BY KeptInit, <1>1, <1>2, PTL DEF RBSpec, ImplementsOrderedList, Promise!Spec
=============================================================================
