----------------------------- MODULE PageProofs -----------------------------
(***************************************************************************)
(* Theorems about paging, for every number of pages and frames, every set   *)
(* of contents and every bound.                                             *)
(***************************************************************************)
EXTENDS PageMem, FiniteSetTheorems, TLAPS

-----------------------------------------------------------------------------
(***************************************************************************)
(* The choices of touch_page: there is what get_removal_page and page_in    *)
(* look for whenever they look for it.                                      *)
(***************************************************************************)

(* A set of natural numbers has a least element. *)
LEMMA LeastNatural ==
  ASSUME NEW S \in SUBSET Nat, S # {}
  PROVE  \E x \in S : \A y \in S : x <= y
<1> DEFINE R == OpToRel(<, Nat)
<1>1. PICK x \in S : \A y \in S : <<y, x>> \notin R
  BY NatLessThanWellFounded, WFMin, Zenon
<1>2. \A y \in S : ~(y < x)
  BY <1>1 DEF OpToRel
<1> QED  BY <1>2

(* page_in takes a free frame. *)
LEMMA FirstFreeFound ==
  ASSUME free_frames \subseteq Frames, free_frames # {}
  PROVE  FirstFree \in free_frames
<1>1. \E f \in free_frames : \A g \in free_frames : f <= g
  BY LeastNatural, PageMemAssumption DEF Frames
<1> QED  BY <1>1 DEF FirstFree

(* get_removal_page finds a page when there is one to find. *)
LEMMA RemovalPageFound ==
  ASSUME Removable # {},
         pg_period \in [Pages -> [last_access : 0 .. MaxOps, period : 0 .. MaxOps]]
  PROVE  RemovalPage \in Removable
<1> DEFINE Left(a) == MaxOps - pg_period[a].period
           Lefts == { Left(a) : a \in Removable }
<1>1. Removable \subseteq Pages /\ Pages \subseteq Nat /\ MaxOps \in Nat
  BY PageMemAssumption DEF Removable, Pages
<1>2. \A a \in Removable : Left(a) \in Nat /\ pg_period[a].period \in Nat
  BY <1>1
<1>3. PICK a \in Removable : \A b \in Removable : Left(a) <= Left(b)
  <2>1. Lefts \in SUBSET Nat /\ Lefts # {}
    BY <1>2
  <2>2. PICK x \in Lefts : \A y \in Lefts : x <= y
    BY <2>1, LeastNatural
  <2> QED  BY <2>2
<1> DEFINE Ties == { b \in Removable : pg_period[b].period = pg_period[a].period }
<1>4. PICK c \in Ties : \A b \in Ties : c <= b
  <2>1. Ties \in SUBSET Nat /\ Ties # {}
    BY <1>1
  <2> QED  BY <2>1, LeastNatural
<1>5. \A b \in Removable : \/ pg_period[c].period > pg_period[b].period
                           \/ pg_period[c].period = pg_period[b].period /\ c <= b
  BY <1>1, <1>2, <1>3, <1>4
<1>6. \E d \in Removable : \A b \in Removable :
         \/ pg_period[d].period > pg_period[b].period
         \/ pg_period[d].period = pg_period[b].period /\ d <= b
  BY <1>4, <1>5
<1> QED  BY <1>6 DEF RemovalPage

-----------------------------------------------------------------------------
(***************************************************************************)
(* The number of references to a page, as references are added and removed. *)
(***************************************************************************)
RefsTo(s, a) == { i \in 1 .. Len(s) : s[i].page = a }

(* The references to a page are finitely many: they can be counted. *)
LEMMA RefsToFinite ==
  ASSUME NEW T, NEW s \in Seq(T), NEW a
  PROVE  IsFiniteSet(RefsTo(s, a)) /\ Cardinality(RefsTo(s, a)) \in Nat
<1>1. IsFiniteSet(1 .. Len(s))
  BY FS_Interval
<1>2. RefsTo(s, a) \in SUBSET (1 .. Len(s))
  BY DEF RefsTo
<1>3. IsFiniteSet(RefsTo(s, a))
  BY <1>1, <1>2, FS_Subset
<1> QED  BY <1>3, FS_CardinalityType

(* get_wordref adds one reference to its page and none to others. *)
LEMMA RefsToAppend ==
  ASSUME NEW T, NEW s \in Seq(T), NEW e \in T, NEW a
  PROVE  Cardinality(RefsTo(Append(s, e), a)) =
           IF e.page = a THEN Cardinality(RefsTo(s, a)) + 1
                         ELSE Cardinality(RefsTo(s, a))
<1> DEFINE n == Len(s) + 1
<1>1. /\ Len(s) \in Nat /\ Len(Append(s, e)) = n
      /\ \A i \in 1 .. Len(s) : Append(s, e)[i] = s[i]
      /\ Append(s, e)[n] = e
  OBVIOUS
<1>2. RefsTo(Append(s, e), a) =
        IF e.page = a THEN RefsTo(s, a) \cup {n} ELSE RefsTo(s, a)
  BY <1>1 DEF RefsTo
<1>3. n \notin RefsTo(s, a)
  BY <1>1 DEF RefsTo
<1> QED  BY <1>2, <1>3, RefsToFinite, FS_AddElement

(* What RemoveAt makes of a sequence. *)
LEMMA RemoveAtEffect ==
  ASSUME NEW T, NEW s \in Seq(T), NEW i \in 1 .. Len(s)
  PROVE  /\ RemoveAt(s, i) \in Seq(T)
         /\ Len(RemoveAt(s, i)) = Len(s) - 1
         /\ \A j \in 1 .. Len(s) - 1 :
              /\ j < i => RemoveAt(s, i)[j] = s[j]
              /\ j >= i => RemoveAt(s, i)[j] = s[j + 1]
<1>1. PICK u : u = SubSeq(s, 1, i - 1)
  OBVIOUS
<1>2. PICK v : v = SubSeq(s, i + 1, Len(s))
  OBVIOUS
<1>3. u \in Seq(T) /\ Len(u) = i - 1 /\ \A j \in 1 .. i - 1 : u[j] = s[j]
  BY <1>1
<1>4. v \in Seq(T) /\ Len(v) = Len(s) - i /\ \A j \in 1 .. Len(s) - i : v[j] = s[i + j]
  BY <1>2
<1>5. /\ u \o v \in Seq(T) /\ Len(u \o v) = Len(u) + Len(v)
      /\ \A j \in 1 .. Len(u) : (u \o v)[j] = u[j]
      /\ \A j \in 1 .. Len(v) : (u \o v)[Len(u) + j] = v[j]
  <2>1. u \in Seq(T) /\ v \in Seq(T)
    BY <1>3, <1>4
  <2> QED  BY <2>1
<1>6. ASSUME NEW j \in 1 .. Len(s) - 1
      PROVE  /\ j < i => (u \o v)[j] = s[j]
             /\ j >= i => (u \o v)[j] = s[j + 1]
  <2>1. CASE j < i
    BY <1>3, <1>5, <2>1
  <2>2. CASE j >= i
    <3> DEFINE k == j - Len(u)
    <3>1. k \in 1 .. Len(v) /\ k \in 1 .. Len(s) - i
      BY <1>3, <1>4, <2>2
    <3>2. Len(u) + k = j /\ i + k = j + 1
      BY <1>3, <1>4, <2>2
    <3> HIDE DEF k
    <3>3. (u \o v)[Len(u) + k] = v[k]
      BY <1>5, <3>1
    <3>4. v[k] = s[i + k]
      BY <1>4, <3>1
    <3>5. (u \o v)[j] = s[j + 1]
      BY <3>2, <3>3, <3>4
    <3> QED  BY <2>2, <3>5
  <2> QED  BY <2>1, <2>2
<1>7. RemoveAt(s, i) = u \o v
  BY <1>1, <1>2 DEF RemoveAt
<1>8. u \o v \in Seq(T) /\ Len(u \o v) = Len(s) - 1
  BY <1>3, <1>4, <1>5
<1> QED  BY <1>6, <1>7, <1>8

(* release_wordref takes one reference of its page away and none of others. *)
LEMMA RefsToRemoveAt ==
  ASSUME NEW T, NEW s \in Seq(T), NEW i \in 1 .. Len(s), NEW a
  PROVE  Cardinality(RefsTo(RemoveAt(s, i), a)) =
           IF s[i].page = a THEN Cardinality(RefsTo(s, a)) - 1
                            ELSE Cardinality(RefsTo(s, a))
<1> DEFINE S == RefsTo(RemoveAt(s, i), a)
           U == RefsTo(s, a) \ {i}
           old(j) == IF j < i THEN j ELSE j + 1
           f == [j \in S |-> old(j)]
<1>1. /\ RemoveAt(s, i) \in Seq(T) /\ Len(RemoveAt(s, i)) = Len(s) - 1
      /\ \A j \in 1 .. Len(s) - 1 : RemoveAt(s, i)[j] = s[old(j)]
  <2>1. \A j \in 1 .. Len(s) - 1 : RemoveAt(s, i)[j] = s[old(j)]
    BY RemoveAtEffect
  <2> QED  BY <2>1, RemoveAtEffect
<1>2. S = { j \in 1 .. Len(s) - 1 : s[old(j)].page = a }
  BY <1>1 DEF RefsTo
<1>3. f \in Bijection(S, U)
  <2>1. f \in [S -> U]
    BY <1>2 DEF RefsTo
  <2>2. \A j, k \in S : f[j] = f[k] => j = k
    BY <1>2
  <2>3. ASSUME NEW k \in U
        PROVE  \E j \in S : f[j] = k
    <3> DEFINE j == IF k < i THEN k ELSE k - 1
    <3>1. k \in 1 .. Len(s) /\ k # i /\ s[k].page = a
      BY DEF RefsTo
    <3>2. j \in 1 .. Len(s) - 1 /\ old(j) = k
      BY <3>1
    <3> QED  BY <1>2, <3>1, <3>2
  <2> QED  BY <2>1, <2>2, <2>3, Zenon DEF Bijection, Injection, Surjection, IsInjective
<1>4. IsFiniteSet(S) /\ IsFiniteSet(RefsTo(s, a))
  BY <1>1, RefsToFinite
<1>5. Cardinality(U) = Cardinality(S)
  <2> HIDE DEF S, U, f
  <2>1. ExistsBijection(S, U)
    BY <1>3, Zenon DEF ExistsBijection
  <2> QED  BY <1>4, <2>1, FS_Bijection, Zenon
<1>6. i \in RefsTo(s, a) <=> s[i].page = a
  BY DEF RefsTo
<1> QED  BY <1>4, <1>5, <1>6, FS_RemoveElement

-----------------------------------------------------------------------------
(***************************************************************************)
(* The inductive invariant, for programs that execute EX too.  A page that  *)
(* is tossed has a count of 0; that no reference to it is held takes that   *)
(* counts are never smaller than the numbers of references (they are        *)
(* greater for the pages EX leaves pinned).  That get_removal_page and      *)
(* page_in find what they look for takes the types, and those of the        *)
(* periods that no access lies in the future.                               *)
(***************************************************************************)
PeriodsPast == \A a \in Pages : pg_period[a].last_access <= ops

RefsCounted ==
  \A a \in Pages : Cardinality(RefsTo(refs, a)) <= pg_table[a].refcount

PageInv ==
  /\ PageTypeOK
  /\ PeriodsPast
  /\ FramesExclusive
  /\ RefsStayValid
  /\ RefsCounted

Ref == [page : Pages, frame : Frames]

(* pagemem_init. *)
LEMMA PageInitInv == PageInit => PageInv /\ CountsMatchRefs
<1> SUFFICES ASSUME PageInit PROVE PageInv /\ CountsMatchRefs
  OBVIOUS
<1> USE DEF PageInit
<1>1. PageTypeOK /\ PeriodsPast
  BY PageMemAssumption DEF PageTypeOK, PeriodsPast, Frames
<1>2. FramesExclusive /\ RefsStayValid
  BY DEF FramesExclusive, RefsStayValid, Resident
<1>3. \A a \in Pages : RefsTo(refs, a) = {}
  BY DEF RefsTo
<1>4. CountsMatchRefs
  BY <1>3, FS_EmptySet DEF CountsMatchRefs, RefsTo
<1>5. \A a \in Pages : Cardinality(RefsTo(refs, a)) = 0 /\ pg_table[a].refcount = 0
  BY <1>3, FS_EmptySet
<1>6. RefsCounted
  BY <1>5 DEF RefsCounted
<1> QED  BY <1>1, <1>2, <1>4, <1>6 DEF PageInv

(* Steps that leave the page table and the references alone. *)
LEMMA TableKept ==
  ASSUME PageInv, UNCHANGED <<pg_table, free_frames, refs>>,
         PageTypeOK', PeriodsPast'
  PROVE  PageInv'
BY DEF PageInv, FramesExclusive, RefsStayValid, RefsCounted, Resident, RefsTo

(* A page without a count is referred to by nobody. *)
LEMMA Unreferenced ==
  ASSUME PageInv, NEW a \in Pages, pg_table[a].refcount = 0
  PROVE  \A i \in 1 .. Len(refs) : refs[i].page # a
<1>1. refs \in Seq(Ref)
  BY DEF PageInv, PageTypeOK, Ref
<1>2. IsFiniteSet(RefsTo(refs, a)) /\ Cardinality(RefsTo(refs, a)) = 0
  <2>1. IsFiniteSet(RefsTo(refs, a)) /\ Cardinality(RefsTo(refs, a)) \in Nat
    BY <1>1, RefsToFinite
  <2>2. Cardinality(RefsTo(refs, a)) <= 0
    BY DEF PageInv, RefsCounted
  <2> QED  BY <2>1, <2>2
<1>3. RefsTo(refs, a) = {}
  BY <1>2, FS_EmptySet
<1> QED  BY <1>3 DEF RefsTo

(* update_page_info keeps the frequency table in its bounds. *)
LEMMA UpdatePageInfoType ==
  ASSUME PageInv, NEW a \in Pages, UpdatePageInfo(a), ops' = ops
  PROVE  /\ pg_period' \in [Pages -> [last_access : 0 .. MaxOps, period : 0 .. MaxOps]]
         /\ PeriodsPast'
<1> DEFINE e == pg_period[a]
<1>1. /\ e.last_access \in 0 .. MaxOps /\ e.period \in 0 .. MaxOps
      /\ ops \in 0 .. MaxOps /\ e.last_access <= ops /\ MaxOps \in Nat
  BY PageMemAssumption DEF PageInv, PageTypeOK, PeriodsPast
<1>2. e.period \div 2 + (ops - e.last_access) \div 2 \in 0 .. MaxOps
  <2> HIDE DEF e
  <2> QED  BY <1>1
<1>3. Aged(e) \in [last_access : 0 .. MaxOps, period : 0 .. MaxOps]
  BY <1>1, <1>2 DEF Aged
<1>4. Aged(e).last_access = ops
  BY DEF Aged
<1>5. /\ pg_period \in [Pages -> [last_access : 0 .. MaxOps, period : 0 .. MaxOps]]
      /\ pg_period' = [pg_period EXCEPT ![a] = Aged(e)]
  BY DEF PageInv, PageTypeOK, UpdatePageInfo
<1>6. \A b \in Pages : pg_period'[b].last_access <= ops
  BY <1>1, <1>4, <1>5 DEF PageInv, PeriodsPast
<1> QED  BY <1>3, <1>5, <1>6 DEF PeriodsPast

(* What get_wordref adds. *)
LEMMA HoldEffect ==
  ASSUME refs \in Seq(Ref), NEW a \in Pages, NEW f \in Frames, Hold(a, f)
  PROVE  /\ refs' \in Seq(Ref)
         /\ \A i \in 1 .. Len(refs') :
              \/ refs'[i] = [page |-> a, frame |-> f]
              \/ i \in 1 .. Len(refs) /\ refs'[i] = refs[i]
         /\ \A b : Cardinality(RefsTo(refs', b)) =
                     IF b = a THEN Cardinality(RefsTo(refs, b)) + 1
                              ELSE Cardinality(RefsTo(refs, b))
<1> DEFINE e == [page |-> a, frame |-> f]
<1>1. e \in Ref /\ e.page = a /\ refs' = Append(refs, e)
  BY DEF Ref, Hold
<1>2. /\ refs' \in Seq(Ref)
      /\ \A i \in 1 .. Len(refs') : refs'[i] = e \/ (i \in 1 .. Len(refs) /\ refs'[i] = refs[i])
  <2> HIDE DEF e
  <2>1. /\ Append(refs, e) \in Seq(Ref) /\ Len(Append(refs, e)) = Len(refs) + 1
        /\ \A i \in 1 .. Len(refs) : Append(refs, e)[i] = refs[i]
        /\ Append(refs, e)[Len(refs) + 1] = e
    BY <1>1
  <2>2. Len(refs) \in Nat
    OBVIOUS
  <2>3. refs' \in Seq(Ref) /\ Len(refs') = Len(refs) + 1
    BY <1>1, <2>1
  <2>4. ASSUME NEW i \in 1 .. Len(refs')
        PROVE  refs'[i] = e \/ (i \in 1 .. Len(refs) /\ refs'[i] = refs[i])
    <3>1. i \in 1 .. Len(refs) \/ i = Len(refs) + 1
      BY <2>2, <2>3
    <3>2. CASE i \in 1 .. Len(refs)
      BY <1>1, <2>1, <3>2
    <3>3. CASE i = Len(refs) + 1
      BY <1>1, <2>1, <3>3
    <3> QED  BY <3>1, <3>2, <3>3
  <2> QED  BY <2>3, <2>4
<1>3. \A b : Cardinality(RefsTo(Append(refs, e), b)) =
               IF e.page = b THEN Cardinality(RefsTo(refs, b)) + 1
                             ELSE Cardinality(RefsTo(refs, b))
  <2> SUFFICES ASSUME NEW b
               PROVE  Cardinality(RefsTo(Append(refs, e), b)) =
                        IF e.page = b THEN Cardinality(RefsTo(refs, b)) + 1
                                      ELSE Cardinality(RefsTo(refs, b))
    OBVIOUS
  <2> HIDE DEF e
  <2> QED  BY <1>1, RefsToAppend
<1> QED  BY <1>1, <1>2, <1>3

(* A step that adds a reference to a and counts it. *)
LEMMA HeldCounted ==
  ASSUME PageInv, NEW a \in Pages, NEW f \in Frames, Hold(a, f),
         \A b \in Pages : pg_table'[b].refcount =
                            pg_table[b].refcount + (IF b = a THEN 1 ELSE 0)
  PROVE  RefsCounted' /\ (CountsMatchRefs => CountsMatchRefs')
<1>1. refs \in Seq(Ref) /\ \A b \in Pages : pg_table[b].refcount \in Nat
  BY DEF PageInv, PageTypeOK, Ref
<1>2. \A b \in Pages : Cardinality(RefsTo(refs, b)) \in Nat
  BY <1>1, RefsToFinite
<1>3. \A b \in Pages : Cardinality(RefsTo(refs', b)) =
                         Cardinality(RefsTo(refs, b)) + (IF b = a THEN 1 ELSE 0)
  <2>1. \A b : Cardinality(RefsTo(refs', b)) =
                IF b = a THEN Cardinality(RefsTo(refs, b)) + 1
                         ELSE Cardinality(RefsTo(refs, b))
    BY <1>1, HoldEffect
  <2> QED  BY <1>2, <2>1
<1>4. RefsCounted'
  <2> SUFFICES ASSUME NEW b \in Pages
               PROVE  Cardinality(RefsTo(refs', b)) <= pg_table'[b].refcount
    BY DEF RefsCounted
  <2>1. Cardinality(RefsTo(refs, b)) <= pg_table[b].refcount
    BY DEF PageInv, RefsCounted
  <2> QED  BY <1>1, <1>2, <1>3, <2>1
<1>5. CountsMatchRefs => CountsMatchRefs'
  <2> SUFFICES ASSUME CountsMatchRefs, NEW b \in Pages
               PROVE  pg_table'[b].refcount = Cardinality(RefsTo(refs', b))
    BY DEF CountsMatchRefs, RefsTo
  <2>1. pg_table[b].refcount = Cardinality(RefsTo(refs, b))
    BY DEF CountsMatchRefs, RefsTo
  <2> QED  BY <1>3, <2>1
<1> QED  BY <1>4, <1>5

(* A step that adds a reference to a and keeps the other pages in place. *)
LEMMA HeldValid ==
  ASSUME PageInv, NEW a \in Pages, NEW f \in Frames, Hold(a, f),
         pg_table'[a].valid, pg_table'[a].frame = f,
         \A b \in Pages \ {a} :
           (\E i \in 1 .. Len(refs) : refs[i].page = b) =>
             pg_table'[b].valid = pg_table[b].valid /\ pg_table'[b].frame = pg_table[b].frame,
         (\E i \in 1 .. Len(refs) : refs[i].page = a) => pg_table[a].frame = f
  PROVE  RefsStayValid'
<1>1. refs \in Seq(Ref)
  BY DEF PageInv, PageTypeOK, Ref
<1> SUFFICES ASSUME NEW i \in 1 .. Len(refs')
             PROVE  /\ pg_table'[refs'[i].page].valid
                    /\ pg_table'[refs'[i].page].frame = refs'[i].frame
  BY DEF RefsStayValid
<1>2. CASE refs'[i] = [page |-> a, frame |-> f]
  BY <1>2
<1>3. CASE i \in 1 .. Len(refs) /\ refs'[i] = refs[i]
  <2>1. refs[i].page \in Pages
    <3>1. refs[i] \in Ref
      BY <1>1, <1>3
    <3> QED  BY <3>1 DEF Ref
  <2>2. pg_table[refs[i].page].valid /\ pg_table[refs[i].page].frame = refs[i].frame
    BY <1>3 DEF PageInv, RefsStayValid
  <2>3. CASE refs[i].page = a
    BY <1>3, <2>2, <2>3
  <2>4. CASE refs[i].page # a
    BY <1>3, <2>1, <2>2, <2>4
  <2> QED  BY <2>3, <2>4
<1> QED  BY <1>1, <1>2, <1>3, HoldEffect

(* touch_page of a page that is in a frame. *)
LEMMA TouchResidentInv ==
  ASSUME PageInv, NEW a \in Pages, TouchResident(a)
  PROVE  PageInv' /\ (CountsMatchRefs => CountsMatchRefs')
<1> DEFINE f == pg_table[a].frame
<1>1. /\ pg_table \in [Pages -> [valid : BOOLEAN, frame : Frames, refcount : Nat]]
      /\ refs \in Seq(Ref) /\ pg_table[a].valid /\ f \in Frames
  BY DEF PageInv, PageTypeOK, Ref, TouchResident
<1>2. /\ pg_table' = [pg_table EXCEPT ![a].refcount = @ + 1]
      /\ pg_table' \in [Pages -> [valid : BOOLEAN, frame : Frames, refcount : Nat]]
  BY <1>1 DEF TouchResident
<1>3. \A b \in Pages :
        /\ pg_table'[b].valid = pg_table[b].valid
        /\ pg_table'[b].frame = pg_table[b].frame
        /\ pg_table'[b].refcount = pg_table[b].refcount + (IF b = a THEN 1 ELSE 0)
  BY <1>1, <1>2
<1>4. Hold(a, f) /\ UpdatePageInfo(a) /\ UNCHANGED <<page_mem, mem, free_frames, ops, access, mode>>
  BY DEF TouchResident, CanTouch
<1>5. RefsCounted' /\ (CountsMatchRefs => CountsMatchRefs')
  BY <1>1, <1>3, <1>4, HeldCounted
<1>6. RefsStayValid'
  BY <1>1, <1>3, <1>4, HeldValid
<1>7. FramesExclusive'
  <2>1. Resident' = Resident
    BY <1>3 DEF Resident
  <2> QED  BY <1>3, <1>4, <2>1 DEF PageInv, FramesExclusive, Resident
<1>8. PageTypeOK' /\ PeriodsPast'
  BY <1>1, <1>2, <1>4, UpdatePageInfoType, HoldEffect DEF PageInv, PageTypeOK, Ref
<1> QED  BY <1>5, <1>6, <1>7, <1>8 DEF PageInv

(* What page_in does to the page table, wherever the frame comes from. *)
LEMMA PagedInEffect ==
  ASSUME NEW t \in [Pages -> [valid : BOOLEAN, frame : Frames, refcount : Nat]],
         NEW a \in Pages, NEW f \in Frames
  PROVE  /\ PagedIn(t, a, f) \in [Pages -> [valid : BOOLEAN, frame : Frames, refcount : Nat]]
         /\ PagedIn(t, a, f)[a].valid /\ PagedIn(t, a, f)[a].frame = f
         /\ PagedIn(t, a, f)[a].refcount = t[a].refcount + 1
         /\ \A b \in Pages \ {a} : PagedIn(t, a, f)[b] = t[b]
BY DEF PagedIn

(* touch_page of a page that page_in puts into a free frame. *)
LEMMA TouchFaultInv ==
  ASSUME PageInv, NEW a \in Pages, TouchFault(a)
  PROVE  PageInv' /\ (CountsMatchRefs => CountsMatchRefs')
<1> DEFINE f == FirstFree
<1>1. /\ pg_table \in [Pages -> [valid : BOOLEAN, frame : Frames, refcount : Nat]]
      /\ refs \in Seq(Ref) /\ ~pg_table[a].valid /\ free_frames # {}
      /\ free_frames \subseteq Frames
      /\ page_mem \in [Pages -> Vals] /\ mem \in [Frames -> Vals]
  BY DEF PageInv, PageTypeOK, Ref, TouchFault
<1>2. f \in free_frames /\ f \in Frames
  BY <1>1, FirstFreeFound
<1>3. /\ pg_table' = PagedIn(pg_table, a, f) /\ Hold(a, f) /\ UpdatePageInfo(a)
      /\ mem' = [mem EXCEPT ![f] = page_mem[a]] /\ free_frames' = free_frames \ {f}
      /\ UNCHANGED <<page_mem, ops, access, mode>>
  BY DEF TouchFault, CanTouch
<1> HIDE DEF f
<1>4. /\ pg_table' \in [Pages -> [valid : BOOLEAN, frame : Frames, refcount : Nat]]
      /\ pg_table'[a].valid /\ pg_table'[a].frame = f
      /\ pg_table'[a].refcount = pg_table[a].refcount + 1
      /\ \A b \in Pages \ {a} : pg_table'[b] = pg_table[b]
  <2> DEFINE t == PagedIn(pg_table, a, f)
  <2>1. /\ t \in [Pages -> [valid : BOOLEAN, frame : Frames, refcount : Nat]]
        /\ t[a].valid /\ t[a].frame = f
        /\ t[a].refcount = pg_table[a].refcount + 1
        /\ \A b \in Pages \ {a} : t[b] = pg_table[b]
    <3>1. pg_table \in [Pages -> [valid : BOOLEAN, frame : Frames, refcount : Nat]]
      BY <1>1
    <3>2. f \in Frames
      BY <1>2
    <3> QED  BY <3>1, <3>2, PagedInEffect
  <2>2. pg_table' = t
    BY <1>3
  <2> HIDE DEF t
  <2> QED  BY <2>1, <2>2
<1>5. RefsCounted' /\ (CountsMatchRefs => CountsMatchRefs')
  <2>1. \A b \in Pages : pg_table'[b].refcount =
                           pg_table[b].refcount + (IF b = a THEN 1 ELSE 0)
    BY <1>1, <1>4
  <2> QED  BY <1>2, <1>3, <2>1, HeldCounted
<1>6. RefsStayValid'
  <2>1. \A i \in 1 .. Len(refs) : refs[i].page # a
    BY <1>1 DEF PageInv, RefsStayValid
  <2> QED  BY <1>2, <1>3, <1>4, <2>1, HeldValid
<1>7. FramesExclusive'
  <2>1. Resident' = Resident \cup {a} /\ a \notin Resident
    BY <1>1, <1>4 DEF Resident
  <2>2. \A b \in Resident : pg_table'[b].frame = pg_table[b].frame /\ pg_table[b].frame # f
    BY <1>2, <1>4, <2>1 DEF PageInv, FramesExclusive, Resident
  <2>3. \A b, c \in Resident' : b # c => pg_table'[b].frame # pg_table'[c].frame
    BY <1>4, <2>1, <2>2 DEF PageInv, FramesExclusive
  <2>4. { pg_table'[b].frame : b \in Resident' } = { pg_table[b].frame : b \in Resident } \cup {f}
    BY <1>4, <2>1, <2>2
  <2>5. free_frames' = Frames \ { pg_table'[b].frame : b \in Resident' }
    BY <1>3, <2>4 DEF PageInv, FramesExclusive
  <2> QED  BY <2>3, <2>5 DEF FramesExclusive
<1>8. PageTypeOK' /\ PeriodsPast'
  <2>1. mem' \in [Frames -> Vals]
    BY <1>1, <1>3
  <2> QED  BY <1>1, <1>2, <1>3, <1>4, <2>1, UpdatePageInfoType, HoldEffect
           DEF PageInv, PageTypeOK, Ref
<1> QED  BY <1>5, <1>6, <1>7, <1>8 DEF PageInv

(* touch_page of a page for which toss_page evicts another one. *)
LEMMA TouchTossInv ==
  ASSUME PageInv, NEW a \in Pages, TouchToss(a)
  PROVE  PageInv' /\ (CountsMatchRefs => CountsMatchRefs')
<1> DEFINE r == RemovalPage
           f == pg_table[r].frame
           t == [pg_table EXCEPT ![r].valid = FALSE]
<1>1. /\ pg_table \in [Pages -> [valid : BOOLEAN, frame : Frames, refcount : Nat]]
      /\ refs \in Seq(Ref) /\ ~pg_table[a].valid /\ free_frames = {}
      /\ page_mem \in [Pages -> Vals] /\ mem \in [Frames -> Vals]
  BY DEF PageInv, PageTypeOK, Ref, TouchToss
<1>2. r \in Pages /\ pg_table[r].valid /\ pg_table[r].refcount = 0
  BY RemovalPageFound DEF PageInv, PageTypeOK, TouchToss, Removable
<1>3. f \in Frames /\ r # a
  BY <1>1, <1>2
<1>4. /\ pg_table' = PagedIn(t, a, f) /\ Hold(a, f) /\ UpdatePageInfo(a)
      /\ mem' = [mem EXCEPT ![f] = page_mem[a]]
      /\ page_mem' = [page_mem EXCEPT ![r] = mem[f]]
      /\ UNCHANGED <<free_frames, ops, access, mode>>
  BY DEF TouchToss, CanTouch
<1> HIDE DEF r
<1>5. /\ t \in [Pages -> [valid : BOOLEAN, frame : Frames, refcount : Nat]]
      /\ ~t[r].valid /\ t[r].refcount = pg_table[r].refcount
      /\ \A b \in Pages \ {r} : t[b] = pg_table[b]
  BY <1>1, <1>2
<1> HIDE DEF t, f
<1>6. /\ pg_table' \in [Pages -> [valid : BOOLEAN, frame : Frames, refcount : Nat]]
      /\ pg_table'[a].valid /\ pg_table'[a].frame = f
      /\ pg_table'[a].refcount = pg_table[a].refcount + 1
      /\ ~pg_table'[r].valid /\ pg_table'[r].refcount = pg_table[r].refcount
      /\ \A b \in Pages \ {a, r} : pg_table'[b] = pg_table[b]
  <2>1. /\ PagedIn(t, a, f) \in [Pages -> [valid : BOOLEAN, frame : Frames, refcount : Nat]]
        /\ PagedIn(t, a, f)[a].valid /\ PagedIn(t, a, f)[a].frame = f
        /\ PagedIn(t, a, f)[a].refcount = t[a].refcount + 1
        /\ \A b \in Pages \ {a} : PagedIn(t, a, f)[b] = t[b]
    BY <1>3, <1>5, PagedInEffect
  <2> QED  BY <1>2, <1>3, <1>4, <1>5, <2>1
<1>7. RefsCounted' /\ (CountsMatchRefs => CountsMatchRefs')
  <2>1. \A b \in Pages : pg_table'[b].refcount =
                           pg_table[b].refcount + (IF b = a THEN 1 ELSE 0)
    BY <1>1, <1>2, <1>3, <1>6
  <2> QED  BY <1>3, <1>4, <2>1, HeldCounted
<1>8. RefsStayValid'
  <2>1. \A i \in 1 .. Len(refs) : refs[i].page # a
    BY <1>1 DEF PageInv, RefsStayValid
  <2>2. \A i \in 1 .. Len(refs) : refs[i].page # r
    BY <1>2, Unreferenced
  <2> QED  BY <1>3, <1>4, <1>6, <2>1, <2>2, HeldValid
<1>9. FramesExclusive'
  <2>1. Resident' = (Resident \ {r}) \cup {a} /\ a \notin Resident /\ r \in Resident
    BY <1>1, <1>2, <1>3, <1>6 DEF Resident
  <2>2. \A b \in Resident \ {r} : /\ pg_table'[b].frame = pg_table[b].frame
                                  /\ pg_table[b].frame # f
    BY <1>6, <2>1 DEF PageInv, FramesExclusive, Resident, f
  <2>3. \A b, c \in Resident' : b # c => pg_table'[b].frame # pg_table'[c].frame
    BY <1>6, <2>1, <2>2 DEF PageInv, FramesExclusive
  <2>4. { pg_table'[b].frame : b \in Resident' } = { pg_table[b].frame : b \in Resident }
    BY <1>6, <2>1, <2>2 DEF f
  <2>5. free_frames' = Frames \ { pg_table'[b].frame : b \in Resident' }
    BY <1>4, <2>4 DEF PageInv, FramesExclusive
  <2> QED  BY <2>3, <2>5 DEF FramesExclusive
<1>10. PageTypeOK' /\ PeriodsPast'
  <2>1. mem' \in [Frames -> Vals] /\ page_mem' \in [Pages -> Vals]
    BY <1>1, <1>3, <1>4
  <2> QED  BY <1>1, <1>3, <1>4, <1>6, <2>1, UpdatePageInfoType, HoldEffect
           DEF PageInv, PageTypeOK, Ref
<1> QED  BY <1>7, <1>8, <1>9, <1>10 DEF PageInv

(* page_release_ref keeps pages where they are. *)
LEMMA PageReleaseRefEffect ==
  ASSUME PageInv, NEW a \in Pages, PageReleaseRef(a)
  PROVE  /\ pg_table' \in [Pages -> [valid : BOOLEAN, frame : Frames, refcount : Nat]]
         /\ \A b \in Pages : /\ pg_table'[b].valid = pg_table[b].valid
                             /\ pg_table'[b].frame = pg_table[b].frame
         /\ \A b \in Pages : pg_table'[b].refcount =
                               IF b = a /\ pg_table[a].refcount > 0
                                 THEN pg_table[b].refcount - 1 ELSE pg_table[b].refcount
         /\ UNCHANGED free_frames => FramesExclusive'
<1> DEFINE n == IF pg_table[a].refcount = 0 THEN 0 ELSE pg_table[a].refcount - 1
<1>1. pg_table \in [Pages -> [valid : BOOLEAN, frame : Frames, refcount : Nat]]
  BY DEF PageInv, PageTypeOK
<1>2. n \in Nat /\ pg_table' = [pg_table EXCEPT ![a].refcount = n]
  BY <1>1 DEF PageReleaseRef
<1>3. pg_table' \in [Pages -> [valid : BOOLEAN, frame : Frames, refcount : Nat]]
  BY <1>1, <1>2
<1>4. \A b \in Pages : /\ pg_table'[b].valid = pg_table[b].valid
                       /\ pg_table'[b].frame = pg_table[b].frame
                       /\ pg_table'[b].refcount = IF b = a THEN n ELSE pg_table[b].refcount
  <2> HIDE DEF n
  <2> QED  BY <1>1, <1>2
<1>5. Resident' = Resident
  BY <1>4 DEF Resident
<1>6. UNCHANGED free_frames => FramesExclusive'
  BY <1>4, <1>5 DEF PageInv, FramesExclusive, Resident
<1> QED  BY <1>1, <1>3, <1>4, <1>6

(* An instruction releases a reference it holds. *)
LEMMA ReleaseRefInv ==
  ASSUME PageInv, NEW i \in 1 .. Len(refs), ReleaseRef(i)
  PROVE  PageInv' /\ (CountsMatchRefs => CountsMatchRefs')
<1> DEFINE a == refs[i].page
<1>1. /\ refs \in Seq(Ref) /\ Len(refs) \in Nat /\ PageReleaseRef(a)
      /\ refs' = RemoveAt(refs, i)
      /\ UNCHANGED <<page_mem, mem, free_frames, pg_period, ops, access, mode>>
  BY DEF PageInv, PageTypeOK, Ref, ReleaseRef
<1>2. a \in Pages
  <2>1. refs[i] \in Ref
    BY <1>1
  <2> QED  BY <2>1 DEF Ref
<1>3. /\ pg_table' \in [Pages -> [valid : BOOLEAN, frame : Frames, refcount : Nat]]
      /\ \A b \in Pages : /\ pg_table'[b].valid = pg_table[b].valid
                          /\ pg_table'[b].frame = pg_table[b].frame
      /\ \A b \in Pages : pg_table'[b].refcount =
                            IF b = a /\ pg_table[a].refcount > 0
                              THEN pg_table[b].refcount - 1 ELSE pg_table[b].refcount
      /\ FramesExclusive'
  BY <1>1, <1>2, PageReleaseRefEffect
<1>4. \A b : Cardinality(RefsTo(refs', b)) =
               IF a = b THEN Cardinality(RefsTo(refs, b)) - 1
                        ELSE Cardinality(RefsTo(refs, b))
  BY <1>1, RefsToRemoveAt
<1>5. \A b \in Pages : /\ Cardinality(RefsTo(refs, b)) \in Nat
                       /\ Cardinality(RefsTo(refs', b)) \in Nat
                       /\ Cardinality(RefsTo(refs, b)) <= pg_table[b].refcount
                       /\ pg_table[b].refcount \in Nat
  <2>1. refs' \in Seq(Ref)
    BY <1>1, RemoveAtEffect
  <2>2. \A b \in Pages : /\ Cardinality(RefsTo(refs, b)) \in Nat
                         /\ Cardinality(RefsTo(refs', b)) \in Nat
    BY <1>1, <2>1, RefsToFinite
  <2> QED  BY <2>2 DEF PageInv, PageTypeOK, RefsCounted
<1>6. RefsCounted'
  <2> SUFFICES ASSUME NEW b \in Pages
               PROVE  Cardinality(RefsTo(refs', b)) <= pg_table'[b].refcount
    BY DEF RefsCounted
  <2> HIDE DEF a
  <2> QED  BY <1>2, <1>3, <1>4, <1>5
<1>7. CountsMatchRefs => CountsMatchRefs'
  <2> SUFFICES ASSUME CountsMatchRefs, NEW b \in Pages
               PROVE  pg_table'[b].refcount = Cardinality(RefsTo(refs', b))
    BY DEF CountsMatchRefs, RefsTo
  <2>1. pg_table[b].refcount = Cardinality(RefsTo(refs, b))
    BY DEF CountsMatchRefs, RefsTo
  <2> HIDE DEF a
  <2> QED  BY <1>2, <1>3, <1>4, <1>5, <2>1
<1>8. RefsStayValid'
  <2> SUFFICES ASSUME NEW j \in 1 .. Len(refs')
               PROVE  /\ pg_table'[refs'[j].page].valid
                      /\ pg_table'[refs'[j].page].frame = refs'[j].frame
    BY DEF RefsStayValid
  <2>1. PICK k \in 1 .. Len(refs) : refs'[j] = refs[k]
    <3>1. /\ Len(refs') = Len(refs) - 1
          /\ j < i => refs'[j] = refs[j]
          /\ j >= i => refs'[j] = refs[j + 1]
      BY <1>1, RemoveAtEffect
    <3>2. j \in 1 .. Len(refs) /\ j + 1 \in 1 .. Len(refs)
      BY <1>1, <3>1
    <3> QED  BY <3>1, <3>2
  <2>2. refs[k] \in Ref
    BY <1>1
  <2>3. pg_table[refs[k].page].valid /\ pg_table[refs[k].page].frame = refs[k].frame
    BY DEF PageInv, RefsStayValid
  <2> QED  BY <1>3, <2>1, <2>2, <2>3 DEF Ref
<1>9. PageTypeOK' /\ PeriodsPast'
  <2>1. refs' \in Seq(Ref)
    BY <1>1, RemoveAtEffect
  <2> QED  BY <1>1, <1>3, <2>1 DEF PageInv, PageTypeOK, PeriodsPast, Ref
<1> QED  BY <1>3, <1>6, <1>7, <1>8, <1>9 DEF PageInv

(* tick releases the word of an EX instruction at another page. *)
LEMMA ExecReleaseInv ==
  ASSUME PageInv, NEW b \in Pages, ExecRelease(b)
  PROVE  PageInv'
<1>1. /\ PageReleaseRef(b) /\ refs' = <<>> /\ ops' = ops + 1 /\ ops < MaxOps
      /\ UNCHANGED <<page_mem, mem, free_frames, pg_period, access, mode>>
  BY DEF ExecRelease
<1>2. /\ pg_table' \in [Pages -> [valid : BOOLEAN, frame : Frames, refcount : Nat]]
      /\ FramesExclusive'
  BY <1>1, PageReleaseRefEffect
<1>3. RefsStayValid'
  BY <1>1 DEF RefsStayValid
<1>4. RefsCounted'
  <2>1. \A a \in Pages : RefsTo(refs', a) = {} /\ pg_table'[a].refcount \in Nat
    BY <1>1, <1>2 DEF RefsTo
  <2> QED  BY <2>1, FS_EmptySet DEF RefsCounted
<1>5. PageTypeOK' /\ PeriodsPast'
  <2>1. refs' \in Seq(Ref)
    BY <1>1
  <2>2. ops' \in 0 .. MaxOps /\ ops \in 0 .. MaxOps
    BY <1>1, PageMemAssumption DEF PageInv, PageTypeOK
  <2>3. \A a \in Pages : pg_period[a].last_access \in 0 .. MaxOps
    BY DEF PageInv, PageTypeOK
  <2>4. PeriodsPast'
    BY <1>1, <2>2, <2>3 DEF PageInv, PeriodsPast
  <2> QED  BY <1>1, <1>2, <2>1, <2>2, <2>4 DEF PageInv, PageTypeOK, Ref
<1> QED  BY <1>2, <1>3, <1>4, <1>5 DEF PageInv

(* The steps that leave the page table, the frames' flags and the           *)
(* references alone.                                                        *)
LEMMA OtherStepsInv ==
  ASSUME PageInv,
         \/ \E a \in Pages, v \in Vals : LoadWord(a, v) \/ ExecLoadWord(a, v)
         \/ \E a \in Pages : TouchFails(a)
         \/ \E i \in 1 .. Len(refs) : ReadRef(i) \/ \E v \in Vals : WriteRef(i, v)
         \/ StartRunning
         \/ EndOfTick
  PROVE  PageInv' /\ (CountsMatchRefs => CountsMatchRefs')
<1>1. UNCHANGED <<pg_table, free_frames, refs, pg_period>>
  BY DEF LoadWord, ExecLoadWord, TouchFails, ReadRef, WriteRef, StartRunning, EndOfTick
<1>2. /\ page_mem \in [Pages -> Vals] /\ mem \in [Frames -> Vals]
      /\ ops \in 0 .. MaxOps /\ MaxOps \in Nat /\ mode \in {"load", "run", "failed"}
  BY PageMemAssumption DEF PageInv, PageTypeOK
<1>3. page_mem' \in [Pages -> Vals]
  BY <1>2 DEF LoadWord, ExecLoadWord, PageStore, TouchFails, ReadRef, WriteRef,
              StartRunning, EndOfTick
<1>4. mem' \in [Frames -> Vals]
  BY <1>2 DEF LoadWord, ExecLoadWord, TouchFails, ReadRef, WriteRef, StartRunning,
              EndOfTick
<1>5. ops' \in 0 .. MaxOps /\ ops <= ops'
  BY <1>2 DEF LoadWord, ExecLoadWord, TouchFails, ReadRef, WriteRef, StartRunning,
              EndOfTick
<1>6. mode' \in {"load", "run", "failed"}
  BY <1>2 DEF LoadWord, ExecLoadWord, TouchFails, ReadRef, WriteRef, StartRunning,
              EndOfTick
<1>7. PeriodsPast'
  <2>1. \A a \in Pages : pg_period[a].last_access \in 0 .. MaxOps /\ pg_period[a].last_access <= ops
    BY DEF PageInv, PageTypeOK, PeriodsPast
  <2> QED  BY <1>1, <1>2, <1>5, <2>1 DEF PeriodsPast
<1>8. PageTypeOK'
  BY <1>1, <1>3, <1>4, <1>5, <1>6 DEF PageInv, PageTypeOK
<1> QED  BY <1>1, <1>7, <1>8, TableKept DEF CountsMatchRefs

(* Every step of programs that do not execute EX. *)
LEMMA PageNextInv ==
  ASSUME PageInv, PageNext
  PROVE  PageInv' /\ (CountsMatchRefs => CountsMatchRefs')
<1>1. ASSUME NEW a \in Pages, NEW v \in Vals, LoadWord(a, v)
      PROVE  PageInv' /\ (CountsMatchRefs => CountsMatchRefs')
  BY <1>1, OtherStepsInv
<1>2. ASSUME NEW a \in Pages, TouchFails(a)
      PROVE  PageInv' /\ (CountsMatchRefs => CountsMatchRefs')
  BY <1>2, OtherStepsInv
<1>3. ASSUME NEW i \in 1 .. Len(refs), ReadRef(i) \/ \E v \in Vals : WriteRef(i, v)
      PROVE  PageInv' /\ (CountsMatchRefs => CountsMatchRefs')
  BY <1>3, OtherStepsInv
<1>4. CASE StartRunning \/ EndOfTick
  BY <1>4, OtherStepsInv
<1> QED  BY <1>1, <1>2, <1>3, <1>4, TouchResidentInv, TouchFaultInv, TouchTossInv,
            ReleaseRefInv DEF PageNext

(* Every step of programs that may execute EX. *)
LEMMA PageExecNextInv ==
  ASSUME PageInv, [PageExecNext]_pageVars
  PROVE  PageInv'
<1>1. CASE PageNext
  BY <1>1, PageNextInv
<1>2. ASSUME NEW a \in Pages, ExecRelease(a)
      PROVE  PageInv'
  BY <1>2, ExecReleaseInv
<1>3. ASSUME NEW a \in Pages, NEW v \in Vals, ExecLoadWord(a, v)
      PROVE  PageInv'
  BY <1>3, OtherStepsInv
<1>4. CASE UNCHANGED pageVars
  BY <1>4 DEF pageVars, PageInv, PageTypeOK, PeriodsPast, FramesExclusive, RefsStayValid,
              RefsCounted, Resident, RefsTo
<1> QED  BY <1>1, <1>2, <1>3, <1>4 DEF PageExecNext

-----------------------------------------------------------------------------
(* The inductive invariant, for programs that may execute EX. *)
THEOREM PageInvariant == PageExecSpec => []PageInv
<1>1. PageInit => PageInv
  BY PageInitInv
<1>2. PageInv /\ [PageExecNext]_pageVars => PageInv'
  BY PageExecNextInv
<1> QED  BY <1>1, <1>2, PTL DEF PageExecSpec

(* No two pages are ever in one frame, and free frames are those no page is *)
(* in.                                                                      *)
THEOREM FramesExclusiveAlways == PageExecSpec => []FramesExclusive
BY PageInvariant, PTL DEF PageInv

(* A pointer into a frame stays good as long as an instruction holds it.    *)
THEOREM RefsStayValidAlways == PageExecSpec => []RefsStayValid
BY PageInvariant, PTL DEF PageInv

(* The paging state stays in its types, with EX too: no frame is outside of  *)
(* the memory, and counts are not negative.                                 *)
THEOREM PageTypeCorrect == PageExecSpec => []PageTypeOK
BY PageInvariant, PTL DEF PageInv

(* An execution without EX is one of those with it. *)
THEOREM ExecIsMore == PageSpec => PageExecSpec
<1>1. [PageNext]_pageVars => [PageExecNext]_pageVars
  BY DEF PageExecNext
<1> QED  BY <1>1, PTL DEF PageSpec, PageExecSpec

-----------------------------------------------------------------------------
(***************************************************************************)
(* Programs that do not execute EX: counts are exact, loading is over when  *)
(* the first page comes in, and nothing happens after a failure.            *)
(***************************************************************************)
LoadedFirst == mode = "load" => Resident = {}

PageSpecInv ==
  /\ PageInv
  /\ CountsMatchRefs
  /\ LoadedFirst
  /\ FailsOnlyIfAllInUse

(* When no page can be tossed the pages in frames are those the instruction *)
(* refers to, one in each frame.                                            *)
LEMMA AllInUse ==
  ASSUME PageInv, CountsMatchRefs, free_frames = {}, Removable = {}
  PROVE  Cardinality({ refs[i].page : i \in 1 .. Len(refs) }) = FRAME_COUNT
<1> DEFINE used == { refs[i].page : i \in 1 .. Len(refs) }
           f == [a \in used |-> pg_table[a].frame]
<1>1. /\ refs \in Seq(Ref)
      /\ pg_table \in [Pages -> [valid : BOOLEAN, frame : Frames, refcount : Nat]]
  BY DEF PageInv, PageTypeOK, Ref
<1>2. used = Resident
  <2>1. ASSUME NEW a \in used PROVE a \in Resident
    <3>1. PICK i \in 1 .. Len(refs) : a = refs[i].page
      BY <2>1
    <3>2. refs[i] \in Ref
      BY <1>1
    <3> QED  BY <3>1, <3>2 DEF PageInv, RefsStayValid, Resident, Ref
  <2>2. ASSUME NEW a \in Resident PROVE a \in used
    <3>1. a \in Pages /\ pg_table[a].refcount # 0
      BY DEF Resident, Removable
    <3>2. Cardinality(RefsTo(refs, a)) # 0
      BY <3>1 DEF CountsMatchRefs, RefsTo
    <3>3. RefsTo(refs, a) # {}
      BY <3>2, FS_EmptySet
    <3> QED  BY <3>3 DEF RefsTo
  <2> QED  BY <2>1, <2>2
<1> HIDE DEF used
<1>3. f \in Bijection(used, Frames)
  <2>1. f \in [used -> Frames]
    BY <1>1, <1>2 DEF Resident
  <2>2. \A a, b \in used : f[a] = f[b] => a = b
    BY <1>2 DEF PageInv, FramesExclusive
  <2>3. \A x \in Frames : \E a \in used : f[a] = x
    BY <1>2 DEF PageInv, FramesExclusive
  <2> QED  BY <2>1, <2>2, <2>3, Zenon DEF Bijection, Injection, Surjection, IsInjective
<1>4. IsFiniteSet(Pages) /\ IsFiniteSet(Frames) /\ Cardinality(Frames) = FRAME_COUNT
  BY FS_Interval, PageMemAssumption DEF Pages, Frames
<1>5. IsFiniteSet(used)
  BY <1>2, <1>4, FS_Subset DEF Resident
<1>6. Cardinality(Frames) = Cardinality(used)
  BY <1>3, <1>5, FS_Bijection, Zenon DEF ExistsBijection
<1> QED  BY <1>4, <1>6 DEF used

(* What holds only without EX holds at the start. *)
LEMMA PageSpecInitInv == PageInit => PageSpecInv
BY PageInitInv DEF PageInit, PageSpecInv, LoadedFirst, Resident, FailsOnlyIfAllInUse

(* Only a page fault that finds no frame makes the mode "failed".           *)
LEMMA ModeEffect ==
  ASSUME PageNext
  PROVE  \/ mode' = mode /\ mode # "failed"
         \/ mode = "load" /\ mode' = "run"
         \/ /\ mode' = "failed" /\ free_frames = {} /\ Removable = {}
            /\ UNCHANGED refs
BY DEF PageNext, LoadWord, TouchResident, TouchFault, TouchToss, TouchFails, CanTouch,
       ReadRef, WriteRef, ReleaseRef, StartRunning, EndOfTick

(* While the loader stores words no page is in a frame. *)
LEMMA LoadingEffect ==
  ASSUME PageNext, mode' = "load"
  PROVE  mode = "load" /\ UNCHANGED pg_table
BY DEF PageNext, LoadWord, TouchResident, TouchFault, TouchToss, TouchFails, CanTouch,
       ReadRef, WriteRef, ReleaseRef, StartRunning, EndOfTick

(* What holds only without EX is kept by every step without EX. *)
LEMMA PageSpecNextInv ==
  ASSUME PageSpecInv, [PageNext]_pageVars
  PROVE  PageSpecInv'
<1>1. CASE PageNext
  <2>1. PageInv' /\ CountsMatchRefs'
    BY <1>1, PageNextInv DEF PageSpecInv
  <2>2. LoadedFirst'
    BY <1>1, LoadingEffect DEF PageSpecInv, LoadedFirst, Resident
  <2>3. FailsOnlyIfAllInUse'
    BY <1>1, ModeEffect, AllInUse DEF PageSpecInv, FailsOnlyIfAllInUse
  <2> QED  BY <2>1, <2>2, <2>3 DEF PageSpecInv
<1>2. CASE UNCHANGED pageVars
  BY <1>2 DEF pageVars, PageSpecInv, PageInv, PageTypeOK, PeriodsPast, FramesExclusive,
              RefsStayValid, RefsCounted, Resident, RefsTo, CountsMatchRefs, LoadedFirst,
              FailsOnlyIfAllInUse
<1> QED  BY <1>1, <1>2

(* The inductive invariant of programs that do not execute EX.              *)
THEOREM PageSpecInvariant == PageSpec => []PageSpecInv
<1>1. PageInit => PageSpecInv
  BY PageSpecInitInv
<1>2. PageSpecInv /\ [PageNext]_pageVars => PageSpecInv'
  BY PageSpecNextInv
<1> QED  BY <1>1, <1>2, PTL DEF PageSpec

(* Without EX no page stays pinned by an instruction that has ended.        *)
THEOREM CountsMatchRefsAlways == PageSpec => []CountsMatchRefs
BY PageSpecInvariant, PTL DEF PageSpecInv

(* Without EX the program fails for want of a frame only when the running   *)
(* instruction refers to as many pages as there are frames.                 *)
THEOREM FailsOnlyIfAllInUseAlways == PageSpec => []FailsOnlyIfAllInUse
BY PageSpecInvariant, PTL DEF PageSpecInv

-----------------------------------------------------------------------------
(***************************************************************************)
(* Paging implements flat memory.                                           *)
(***************************************************************************)
Contents == [a \in Pages |-> Content(a)]

(* Steps that move no page and change no word. *)
LEMMA ContentsKept ==
  ASSUME \A a \in Pages : /\ pg_table'[a].valid = pg_table[a].valid
                          /\ pg_table'[a].frame = pg_table[a].frame,
         UNCHANGED <<mem, page_mem>>
  PROVE  Contents' = Contents
BY DEF Contents, Content

(* The loader writes a word of the flat memory. *)
LEMMA LoadWordRefines ==
  ASSUME PageSpecInv, NEW a \in Pages, NEW v \in Vals, LoadWord(a, v)
  PROVE  FM!Write(a, v)
<1>1. \A b \in Pages : ~pg_table[b].valid /\ pg_table' = pg_table
  BY DEF PageSpecInv, LoadedFirst, Resident, LoadWord
<1>2. page_mem' = [page_mem EXCEPT ![a] = v] /\ page_mem \in [Pages -> Vals]
  BY DEF LoadWord, PageStore, PageSpecInv, PageInv, PageTypeOK
<1>3. Contents' = [Contents EXCEPT ![a] = v]
  BY <1>1, <1>2 DEF Contents, Content
<1> QED  BY <1>3 DEF LoadWord, PageStore, FM!Write, Contents

(* touch_page of a resident page changes no content. *)
LEMMA TouchResidentRefines ==
  ASSUME PageSpecInv, NEW a \in Pages, TouchResident(a)
  PROVE  Contents' = Contents /\ UNCHANGED access
<1>1. pg_table \in [Pages -> [valid : BOOLEAN, frame : Frames, refcount : Nat]]
  BY DEF PageSpecInv, PageInv, PageTypeOK
<1>2. \A b \in Pages : /\ pg_table'[b].valid = pg_table[b].valid
                       /\ pg_table'[b].frame = pg_table[b].frame
  BY <1>1 DEF TouchResident
<1> QED  BY <1>2, ContentsKept DEF TouchResident, CanTouch

(* The page that comes in has in its frame what it had in secondary         *)
(* storage, and the frame was nobody else's.                                *)
LEMMA TouchFaultRefines ==
  ASSUME PageSpecInv, NEW a \in Pages, TouchFault(a)
  PROVE  Contents' = Contents /\ UNCHANGED access
<1> DEFINE f == FirstFree
<1>1. /\ pg_table \in [Pages -> [valid : BOOLEAN, frame : Frames, refcount : Nat]]
      /\ mem \in [Frames -> Vals]
  BY DEF PageSpecInv, PageInv, PageTypeOK
<1>2. f \in free_frames /\ f \in Frames
  BY FirstFreeFound DEF PageSpecInv, PageInv, PageTypeOK, TouchFault
<1>3. /\ pg_table' = PagedIn(pg_table, a, f) /\ ~pg_table[a].valid
      /\ mem' = [mem EXCEPT ![f] = page_mem[a]] /\ UNCHANGED <<page_mem, access>>
  BY DEF TouchFault, CanTouch
<1> HIDE DEF f
<1>4. /\ pg_table'[a].valid /\ pg_table'[a].frame = f
      /\ \A b \in Pages \ {a} : pg_table'[b] = pg_table[b]
  BY <1>1, <1>2, <1>3 DEF PagedIn
<1>5. \A b \in Pages : pg_table[b].valid => pg_table[b].frame \in Frames \ {f}
  BY <1>1, <1>2 DEF PageSpecInv, PageInv, FramesExclusive, Resident
<1>6. \A b \in Pages : Content(b)' = Content(b)
  BY <1>1, <1>2, <1>3, <1>4, <1>5 DEF Content
<1> QED  BY <1>3, <1>6 DEF Contents

(* The page that is tossed goes to secondary storage as it was.             *)
LEMMA TouchTossRefines ==
  ASSUME PageSpecInv, NEW a \in Pages, TouchToss(a)
  PROVE  Contents' = Contents /\ UNCHANGED access
<1> DEFINE r == RemovalPage
           f == pg_table[r].frame
<1>1. /\ pg_table \in [Pages -> [valid : BOOLEAN, frame : Frames, refcount : Nat]]
      /\ mem \in [Frames -> Vals] /\ page_mem \in [Pages -> Vals]
  BY DEF PageSpecInv, PageInv, PageTypeOK
<1>2. r \in Pages /\ pg_table[r].valid
  BY RemovalPageFound DEF PageSpecInv, PageInv, PageTypeOK, TouchToss, Removable
<1>3. /\ pg_table' = PagedIn([pg_table EXCEPT ![r].valid = FALSE], a, f)
      /\ ~pg_table[a].valid
      /\ mem' = [mem EXCEPT ![f] = page_mem[a]]
      /\ page_mem' = [page_mem EXCEPT ![r] = mem[f]] /\ UNCHANGED access
  BY DEF TouchToss, CanTouch
<1>4. f \in Frames /\ r # a
  BY <1>1, <1>2, <1>3
<1> HIDE DEF r
<1>5. /\ pg_table'[a].valid /\ pg_table'[a].frame = f /\ ~pg_table'[r].valid
      /\ \A b \in Pages \ {a, r} : pg_table'[b] = pg_table[b]
  <2> HIDE DEF f
  <2> QED  BY <1>1, <1>2, <1>3, <1>4 DEF PagedIn
<1>6. \A b \in Pages \ {r} : pg_table[b].valid => pg_table[b].frame \in Frames \ {f}
  BY <1>1, <1>2 DEF PageSpecInv, PageInv, FramesExclusive, Resident
<1>7. ASSUME NEW b \in Pages, b = r
      PROVE  Content(b)' = Content(b)
  <2>1. Content(b) = mem[f]
    BY <1>2, <1>7 DEF Content
  <2> HIDE DEF f
  <2> QED  BY <1>1, <1>3, <1>5, <1>7, <2>1 DEF Content
<1> HIDE DEF f
<1>8. \A b \in Pages \ {r} : Content(b)' = Content(b)
  BY <1>1, <1>2, <1>3, <1>4, <1>5, <1>6 DEF Content
<1> QED  BY <1>3, <1>7, <1>8 DEF Contents

(* A reference to a page reads that page of the flat memory. *)
LEMMA ReadRefRefines ==
  ASSUME PageSpecInv, NEW i \in 1 .. Len(refs), ReadRef(i)
  PROVE  \E a \in Pages : FM!Read(a)
<1>1. refs[i] \in Ref
  <2>1. refs \in Seq(Ref)
    BY DEF PageSpecInv, PageInv, PageTypeOK, Ref
  <2> QED  BY <2>1
<1>2. Content(refs[i].page) = mem[refs[i].frame]
  BY DEF PageSpecInv, PageInv, RefsStayValid, Content
<1>3. Contents' = Contents
  BY ContentsKept DEF ReadRef
<1>4. FM!Read(refs[i].page)
  BY <1>1, <1>2, <1>3 DEF ReadRef, FM!Read, Contents, Ref
<1> QED  BY <1>1, <1>4 DEF Ref

(* A reference to a page writes that page of the flat memory, and no other. *)
LEMMA WriteRefRefines ==
  ASSUME PageSpecInv, NEW i \in 1 .. Len(refs), NEW v \in Vals, WriteRef(i, v)
  PROVE  \E a \in Pages : FM!Write(a, v)
<1> DEFINE a == refs[i].page
           f == refs[i].frame
<1>1. refs[i] \in Ref
  <2>1. refs \in Seq(Ref)
    BY DEF PageSpecInv, PageInv, PageTypeOK, Ref
  <2> QED  BY <2>1
<1>2. a \in Pages /\ f \in Frames /\ pg_table[a].valid /\ pg_table[a].frame = f
  BY <1>1 DEF PageSpecInv, PageInv, RefsStayValid, Ref
<1>3. /\ mem' = [mem EXCEPT ![f] = v] /\ mem \in [Frames -> Vals]
      /\ access' = [kind |-> "write", page |-> a, val |-> v]
      /\ UNCHANGED <<page_mem, pg_table>>
  BY DEF WriteRef, PageSpecInv, PageInv, PageTypeOK
<1>4. \A b \in Pages \ {a} : pg_table[b].valid =>
        pg_table[b].frame # f /\ pg_table[b].frame \in Frames
  BY <1>2 DEF PageSpecInv, PageInv, PageTypeOK, FramesExclusive, Resident
<1> HIDE DEF a, f
<1>5. \A b \in Pages : Content(b)' = IF b = a THEN v ELSE Content(b)
  BY <1>2, <1>3, <1>4 DEF Content
<1>6. Contents' = [Contents EXCEPT ![a] = v]
  BY <1>2, <1>5 DEF Contents
<1>7. FM!Write(a, v)
  BY <1>3, <1>6 DEF FM!Write, Contents
<1> QED  BY <1>2, <1>7

(* Releasing a reference changes no content. *)
LEMMA ReleaseRefRefines ==
  ASSUME PageSpecInv, NEW i \in 1 .. Len(refs), ReleaseRef(i)
  PROVE  Contents' = Contents /\ UNCHANGED access
<1>1. PageReleaseRef(refs[i].page) /\ UNCHANGED <<mem, page_mem, access>>
  BY DEF ReleaseRef
<1>2. refs[i].page \in Pages
  <2>1. refs \in Seq(Ref)
    BY DEF PageSpecInv, PageInv, PageTypeOK, Ref
  <2>2. refs[i] \in Ref
    BY <2>1
  <2> QED  BY <2>2 DEF Ref
<1>3. \A b \in Pages : /\ pg_table'[b].valid = pg_table[b].valid
                       /\ pg_table'[b].frame = pg_table[b].frame
  BY <1>1, <1>2, PageReleaseRefEffect DEF PageSpecInv
<1> QED  BY <1>1, <1>3, ContentsKept

(* Every step without EX is a step of the flat memory, or a stutter. *)
LEMMA StepRefines ==
  ASSUME PageSpecInv, [PageNext]_pageVars
  PROVE  [FM!Next]_<<Contents, access>>
<1>1. CASE \E a \in Pages, v \in Vals : LoadWord(a, v)
  BY <1>1, LoadWordRefines DEF FM!Next
<1>2. CASE \E a \in Pages : TouchResident(a) \/ TouchFault(a) \/ TouchToss(a)
  BY <1>2, TouchResidentRefines, TouchFaultRefines, TouchTossRefines
<1>3. CASE \E i \in 1 .. Len(refs) : ReadRef(i) \/ \E v \in Vals : WriteRef(i, v)
  BY <1>3, ReadRefRefines, WriteRefRefines DEF FM!Next
<1>4. CASE \E i \in 1 .. Len(refs) : ReleaseRef(i)
  BY <1>4, ReleaseRefRefines
<1>5. CASE \/ \E a \in Pages : TouchFails(a)
           \/ StartRunning
           \/ EndOfTick
           \/ UNCHANGED pageVars
  <2>1. UNCHANGED <<pg_table, mem, page_mem, access>>
    BY <1>5 DEF TouchFails, StartRunning, EndOfTick, pageVars
  <2> QED  BY <2>1, ContentsKept
<1> QED  BY <1>1, <1>2, <1>3, <1>4, <1>5 DEF PageNext

(* Whatever page faults and tosses happen in between, instructions read     *)
(* what was last written to that address (programs that do not execute EX). *)
THEOREM PagingImplementsFlatMem == PageSpec => ImplementsFlatMem
<1>1. PageInit => FM!Init
  BY DEF PageInit, FM!Init, Content
<1>2. PageSpecInv /\ [PageNext]_pageVars => [FM!Next]_<<Contents, access>>
  BY StepRefines
<1> QED  BY <1>1, <1>2, PageSpecInvariant, PTL
         DEF PageSpec, ImplementsFlatMem, FM!Spec, Contents
=============================================================================
