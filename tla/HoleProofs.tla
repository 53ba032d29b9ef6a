----------------------------- MODULE HoleProofs -----------------------------
(***************************************************************************)
(* Theorems about the allocation of the address space, for programs of one  *)
(* size that leave room for one more of them than there are processes: for  *)
(* any number of processes, size of the programs and of the address space.  *)
(* The holes_full run shows what happens without that room.                 *)
(***************************************************************************)
EXTENDS HoleList, SequenceTheorems, FiniteSetTheorems, WellFoundedInduction, TLAPS

(* All programs are of K words, one program more than there are process     *)
(* slots fits (EX allocates before it frees), and a word can hold every     *)
(* address.                                                                 *)
RoomFor(K) ==
  /\ Sizes = {K}
  /\ (PROCS + 1) * K <= VADDR_SIZE
  /\ VADDR_SIZE <= WORD_RANGE

-----------------------------------------------------------------------------
(***************************************************************************)
(* hole_list.c on any list.                                                 *)
(***************************************************************************)
HoleRecord == [addr : Nat, size : Nat]

(* The walk over the list ends at the first of the places it looks for.     *)
LEMMA FirstIsLeast ==
  ASSUME NEW I \in SUBSET Nat, I # {}
  PROVE  /\ First(I) \in I
         /\ \A j \in I : First(I) <= j
<1>1. \E i \in I : \A j \in I : ~(<<j, i>> \in OpToRel(<, Nat))
  BY NatLessThanWellFounded, WFMin
<1>2. PICK i \in I : \A j \in I : ~(<<j, i>> \in OpToRel(<, Nat))
  BY <1>1
<1>3. ASSUME NEW j \in I, j < i
      PROVE  FALSE
  <2>1. <<j, i>> \in Nat \X Nat /\ <<j, i>>[1] < <<j, i>>[2]
    BY <1>3
  <2>2. <<j, i>> \in OpToRel(<, Nat)
    BY <2>1 DEF OpToRel
  <2> QED  BY <1>2, <2>2
<1>4. \A j \in I : i <= j
  BY <1>3
<1> QED  BY <1>2, <1>4 DEF First

(* add_hole puts the new hole before the first one that is not below it.    *)
LEMMA AddHoleEffect ==
  ASSUME NEW hs \in Seq(HoleRecord), NEW loc \in Nat, NEW m \in Nat
  PROVE  /\ AddHole(hs, loc, m) \in Seq(HoleRecord)
         /\ Len(AddHole(hs, loc, m)) = Len(hs) + 1
         /\ \E k \in 1 .. Len(hs) + 1 :
              /\ k <= Len(hs) => hs[k].addr >= loc
              /\ \A j \in 1 .. k - 1 : hs[j].addr < loc
              /\ \A j \in 1 .. Len(hs) + 1 :
                   AddHole(hs, loc, m)[j] =
                     IF j < k THEN hs[j]
                     ELSE IF j = k THEN Hole(loc, m) ELSE hs[j - 1]
<1> DEFINE n == Len(hs)
           h == Hole(loc, m)
           above == { i \in 1 .. n : hs[i].addr >= loc }
           k == First(above \cup {n + 1})
           r == AddHole(hs, loc, m)
           front == SubSeq(hs, 1, k - 1)
           back == SubSeq(hs, k, n)
           upto == front \o <<h>>
<1>1. /\ n \in Nat /\ hs \in [1 .. n -> HoleRecord]
      /\ h \in HoleRecord
      /\ \A j \in 1 .. n : hs[j].addr \in Nat
  <2>1. \A j \in 1 .. n : hs[j] \in HoleRecord
    BY ElementOfSeq
  <2> QED  BY <2>1, LenProperties DEF Hole, HoleRecord
<1>2. /\ k \in above \cup {n + 1}
      /\ \A j \in above \cup {n + 1} : k <= j
  <2>1. above \cup {n + 1} \in SUBSET Nat
    BY <1>1
  <2> HIDE DEF above
  <2> QED  BY <2>1, FirstIsLeast
<1>3. r = InsertAt(hs, k, h)
  BY DEF AddHole
<1> HIDE DEF k, r, h
<1>4. /\ k \in 1 .. n + 1 /\ k <= n + 1
      /\ k <= n => hs[k].addr >= loc
      /\ \A j \in 1 .. k - 1 : hs[j].addr < loc
  BY <1>1, <1>2
<1>5. /\ front \in Seq(HoleRecord) /\ Len(front) = k - 1
      /\ \A j \in 1 .. k - 1 : front[j] = hs[j]
  BY <1>1, <1>4, SubSeqProperties
<1>6. /\ back \in Seq(HoleRecord) /\ Len(back) = n + 1 - k
      /\ \A j \in 1 .. n + 1 - k : back[j] = hs[k + j - 1]
  BY <1>1, <1>4, SubSeqProperties
<1>7. r = upto \o back
  BY <1>3 DEF InsertAt
<1> HIDE DEF front, back
<1>8. /\ upto \in Seq(HoleRecord) /\ Len(upto) = k
      /\ \A j \in 1 .. k : upto[j] = IF j < k THEN hs[j] ELSE h
  <2>1. <<h>> \in Seq(HoleRecord) /\ Len(<<h>>) = 1 /\ <<h>>[1] = h
    BY <1>1
  <2>2. /\ upto \in Seq(HoleRecord)
        /\ Len(upto) = Len(front) + 1
        /\ \A j \in 1 .. Len(front) + 1 :
             upto[j] = IF j <= Len(front) THEN front[j] ELSE <<h>>[j - Len(front)]
    BY <1>5, <2>1, ConcatProperties
  <2> QED  BY <1>4, <1>5, <2>1, <2>2
<1> HIDE DEF upto
<1>9. /\ r \in Seq(HoleRecord) /\ Len(r) = Len(upto) + Len(back)
      /\ \A j \in 1 .. Len(upto) + Len(back) :
           r[j] = IF j <= Len(upto) THEN upto[j] ELSE back[j - Len(upto)]
  BY <1>6, <1>7, <1>8, ConcatProperties
<1>10. Len(upto) + Len(back) = n + 1
  BY <1>1, <1>4, <1>6, <1>8
<1>11. ASSUME NEW j \in 1 .. n + 1
       PROVE  r[j] = IF j < k THEN hs[j] ELSE IF j = k THEN h ELSE hs[j - 1]
  <2>1. CASE j <= k
    BY <1>4, <1>8, <1>9, <1>10, <2>1
  <2>2. CASE j > k
    <3>1. j - k \in 1 .. n + 1 - k /\ k + (j - k) - 1 = j - 1
      BY <1>1, <1>4, <2>2
    <3> QED  BY <1>4, <1>6, <1>8, <1>9, <1>10, <2>2, <3>1
  <2> QED  BY <1>4, <2>1, <2>2
<1> QED  BY <1>4, <1>9, <1>10, <1>11 DEF r, h

(* The first hole of an empty list is its only one.                         *)
LEMMA AddHoleToEmpty ==
  ASSUME NEW hs \in Seq(HoleRecord), NEW loc \in Nat, NEW m \in Nat
  PROVE  Len(hs) = 0 =>
           /\ AddHole(hs, loc, m) \in Seq(HoleRecord)
           /\ Len(AddHole(hs, loc, m)) = 1
           /\ AddHole(hs, loc, m)[1] = Hole(loc, m)
<1> DEFINE r == AddHole(hs, loc, m)
           n == Len(hs)
<1>1. /\ r \in Seq(HoleRecord)
      /\ Len(r) = n + 1
      /\ \E k \in 1 .. n + 1 :
           /\ k <= n => hs[k].addr >= loc
           /\ \A j \in 1 .. k - 1 : hs[j].addr < loc
           /\ \A j \in 1 .. n + 1 :
                r[j] = IF j < k THEN hs[j]
                       ELSE IF j = k THEN Hole(loc, m) ELSE hs[j - 1]
  BY AddHoleEffect
<1> HIDE DEF r
<1> QED  BY <1>1 DEF r

(* get_first_hole, when every hole is large enough: a first hole of the     *)
(* very size is unlinked, a larger one moves up.                            *)
LEMMA FirstFitEffect ==
  ASSUME NEW hs \in Seq(HoleRecord), NEW m \in Nat, Len(hs) > 0,
         \A i \in 1 .. Len(hs) : hs[i].size >= m
  PROVE  /\ FirstFit(hs, m) = hs[1].addr
         /\ WithoutFirstFit(hs, m) \in Seq(HoleRecord)
         /\ hs[1].size = m =>
              /\ Len(WithoutFirstFit(hs, m)) = Len(hs) - 1
              /\ \A j \in 1 .. Len(hs) - 1 : WithoutFirstFit(hs, m)[j] = hs[j + 1]
         /\ hs[1].size # m =>
              /\ Len(WithoutFirstFit(hs, m)) = Len(hs)
              /\ WithoutFirstFit(hs, m)[1] = Hole(hs[1].addr + m, hs[1].size)
              /\ \A j \in 2 .. Len(hs) : WithoutFirstFit(hs, m)[j] = hs[j]
<1> DEFINE n == Len(hs)
           r == WithoutFirstFit(hs, m)
<1>1. /\ n \in Nat /\ n >= 1 /\ hs \in [1 .. n -> HoleRecord] /\ 1 \in 1 .. n
      /\ hs[1] \in HoleRecord
  BY LenProperties, ElementOfSeq
<1>2. First(Fits(hs, m)) = 1
  <2>1. Fits(hs, m) = 1 .. n
    BY DEF Fits
  <2>2. 1 .. n \in SUBSET Nat /\ 1 .. n # {}
    BY <1>1
  <2>3. First(1 .. n) \in 1 .. n /\ First(1 .. n) <= 1
    BY <1>1, <2>2, FirstIsLeast
  <2> QED  BY <1>1, <2>1, <2>3
<1>3. FirstFit(hs, m) = hs[1].addr
  BY <1>2 DEF FirstFit
<1>4. CASE hs[1].size = m
  <2> DEFINE front == SubSeq(hs, 1, 0)
             back == SubSeq(hs, 2, n)
  <2>1. r = front \o back
    BY <1>2, <1>4 DEF WithoutFirstFit, RemoveAt
  <2>2. front \in Seq(HoleRecord) /\ Len(front) = 0
    BY <1>1, SubSeqProperties
  <2>3. /\ back \in Seq(HoleRecord) /\ Len(back) = n - 1
        /\ \A j \in 1 .. n - 1 : back[j] = hs[j + 1]
    BY <1>1, SubSeqProperties
  <2> HIDE DEF front, back, r
  <2>4. /\ r \in Seq(HoleRecord) /\ Len(r) = 0 + (n - 1)
        /\ \A j \in 1 .. Len(front) + Len(back) :
             r[j] = IF j <= Len(front) THEN front[j] ELSE back[j - Len(front)]
    BY <2>1, <2>2, <2>3, ConcatProperties
  <2>5. \A j \in 1 .. n - 1 : r[j] = back[j]
    BY <1>1, <2>2, <2>3, <2>4
  <2> QED  BY <1>1, <1>3, <1>4, <2>3, <2>4, <2>5 DEF r
<1>5. CASE hs[1].size # m
  <2>1. r = [hs EXCEPT ![1].addr = @ + m]
    BY <1>2, <1>5 DEF WithoutFirstFit
  <2> DEFINE h == [hs[1] EXCEPT !.addr = @ + m]
  <2>2. h = Hole(hs[1].addr + m, hs[1].size) /\ h \in HoleRecord
    BY <1>1 DEF HoleRecord, Hole
  <2>3. /\ r \in [1 .. n -> HoleRecord]
        /\ r[1] = h /\ \A j \in 2 .. n : r[j] = hs[j]
    BY <1>1, <2>1, <2>2
  <2> HIDE DEF r, h
  <2>4. r \in Seq(HoleRecord)
    BY <1>1, <2>3, SeqDef
  <2>5. Len(r) = n
    BY <1>1, <2>3, <2>4, LenProperties
  <2> QED  BY <1>3, <1>5, <2>2, <2>3, <2>4, <2>5 DEF r
<1> QED  BY <1>4, <1>5

-----------------------------------------------------------------------------
(***************************************************************************)
(* The heap: a list of holes hs next to the addresses B of the blocks that  *)
(* are in use.  All blocks, free or in use, have K words and lie below the  *)
(* last hole, which is what has never been allocated; it is moved up only   *)
(* when there is no other hole, that is, when all blocks are in use.        *)
(***************************************************************************)
Top(hs) == hs[Len(hs)].addr

Apart(K, a, b) == a + K <= b \/ b + K <= a

ListShape(K, hs) ==
  /\ hs \in Seq(HoleRecord)
  /\ Len(hs) >= 1
  /\ \A i \in 1 .. Len(hs) - 1 : hs[i].size = K
  /\ hs[Len(hs)].size = VADDR_SIZE
  /\ \A i, j \in 1 .. Len(hs) : i < j => hs[i].addr + K <= hs[j].addr

BlocksShape(K, hs, B) ==
  /\ B \subseteq Nat
  /\ IsFiniteSet(B)
  /\ \A a \in B : a + K <= Top(hs)
  /\ \A a, b \in B : a # b => Apart(K, a, b)
  /\ \A i \in 1 .. Len(hs) - 1 : \A a \in B : Apart(K, hs[i].addr, a)

BlocksCounted(K, hs, B) ==
  /\ Top(hs) = K * (Cardinality(B) + Len(hs) - 1)
  /\ Top(hs) <= (PROCS + 1) * K

BlocksCover(K, hs, B) ==
  \A x \in Nat : x < Top(hs) =>
    \/ \E i \in 1 .. Len(hs) - 1 : hs[i].addr <= x /\ x < hs[i].addr + K
    \/ \E a \in B : a <= x /\ x < a + K

Heap(K, hs, B) ==
  /\ ListShape(K, hs)
  /\ BlocksShape(K, hs, B)
  /\ BlocksCounted(K, hs, B)
  /\ BlocksCover(K, hs, B)

(* The numbers of a list and what a hole of it is.                          *)
LEMMA HoleFacts ==
  ASSUME NEW hs \in Seq(HoleRecord)
  PROVE  /\ Len(hs) \in Nat
         /\ \A i \in 1 .. Len(hs) : hs[i].addr \in Nat /\ hs[i].size \in Nat
<1>1. \A i \in 1 .. Len(hs) : hs[i] \in HoleRecord
  BY ElementOfSeq
<1> QED  BY <1>1, LenProperties DEF HoleRecord

(* The last hole is larger than a program, so that it never leaves the list.*)
LEMMA RoomFacts ==
  ASSUME NEW K \in Nat \ {0}, RoomFor(K)
  PROVE  /\ K < VADDR_SIZE /\ VADDR_SIZE \in Nat /\ PROCS \in Nat
         /\ WORD_RANGE \in Nat /\ VADDR_SIZE <= WORD_RANGE
         /\ (PROCS + 1) * K \in Nat /\ (PROCS + 1) * K <= VADDR_SIZE
<1>1. /\ PROCS \in Nat \ {0} /\ VADDR_SIZE \in Nat /\ WORD_RANGE \in Nat
      /\ (PROCS + 1) * K <= VADDR_SIZE /\ VADDR_SIZE <= WORD_RANGE
  BY HoleListAssumption DEF RoomFor
<1>2. (PROCS + 1) * K = PROCS * K + K /\ PROCS * K \in Nat
  BY <1>1
<1>3. PROCS * K >= 1
  BY <1>1
<1> QED  BY <1>1, <1>2, <1>3

(* get_first_hole, with at most PROCS blocks in use: a block that was free, *)
(* or the next one above all of them, is in use now.                        *)
LEMMA AllocateBlock ==
  ASSUME NEW K \in Nat \ {0}, RoomFor(K), NEW hs, NEW B,
         Heap(K, hs, B), Cardinality(B) <= PROCS
  PROVE  /\ Fits(hs, K) # {}
         /\ FirstFit(hs, K) \in Nat \ B
         /\ FirstFit(hs, K) + K <= VADDR_SIZE
         /\ Heap(K, WithoutFirstFit(hs, K), B \cup {FirstFit(hs, K)})
<1> DEFINE n == Len(hs)
           r == WithoutFirstFit(hs, K)
           new == FirstFit(hs, K)
           C == B \cup {new}
           c == Cardinality(B)
<1>1. /\ hs \in Seq(HoleRecord) /\ n \in Nat /\ n >= 1
      /\ \A i \in 1 .. n : hs[i].addr \in Nat /\ hs[i].size \in Nat
      /\ \A i \in 1 .. n - 1 : hs[i].size = K
      /\ hs[n].size = VADDR_SIZE
      /\ \A i, j \in 1 .. n : i < j => hs[i].addr + K <= hs[j].addr
  BY HoleFacts DEF Heap, ListShape
<1>2. /\ K < VADDR_SIZE /\ VADDR_SIZE \in Nat /\ PROCS \in Nat
      /\ (PROCS + 1) * K \in Nat /\ (PROCS + 1) * K <= VADDR_SIZE
  BY RoomFacts
<1>3. \A i \in 1 .. n : hs[i].size >= K
  <2> SUFFICES ASSUME NEW i \in 1 .. n PROVE hs[i].size >= K
    OBVIOUS
  <2>1. CASE i = n
    <3>1. hs[i].size = VADDR_SIZE
      BY <1>1, <2>1
    <3> QED  BY <1>2, <3>1
  <2>2. CASE i # n
    <3>1. i \in 1 .. n - 1
      BY <1>1, <2>2
    <3>2. hs[i].size = K
      BY <1>1, <3>1
    <3> QED  BY <3>2
  <2> QED  BY <2>1, <2>2
<1>4. Fits(hs, K) # {}
  BY <1>1, <1>3 DEF Fits
<1>5. /\ new = hs[1].addr /\ new \in Nat /\ r \in Seq(HoleRecord)
      /\ n > 1 =>
           /\ Len(r) = n - 1
           /\ \A j \in 1 .. n - 1 : r[j] = hs[j + 1]
      /\ n = 1 =>
           /\ Len(r) = n
           /\ r[1] = Hole(new + K, VADDR_SIZE)
  <2>1. /\ new = hs[1].addr /\ r \in Seq(HoleRecord)
        /\ hs[1].size = K =>
             /\ Len(r) = n - 1
             /\ \A j \in 1 .. n - 1 : r[j] = hs[j + 1]
        /\ hs[1].size # K =>
             /\ Len(r) = n
             /\ r[1] = Hole(hs[1].addr + K, hs[1].size)
    BY <1>1, <1>3, FirstFitEffect
  <2>2. (n > 1 => hs[1].size = K) /\ (n = 1 => hs[1].size = VADDR_SIZE)
    BY <1>1
  <2> QED  BY <1>1, <1>2, <2>1, <2>2
<1>6. /\ B \subseteq Nat /\ IsFiniteSet(B) /\ c \in Nat /\ c <= PROCS
      /\ \A a \in B : a + K <= hs[n].addr
      /\ \A a, b \in B : a # b => Apart(K, a, b)
      /\ \A i \in 1 .. n - 1 : \A a \in B : Apart(K, hs[i].addr, a)
      /\ hs[n].addr = K * (c + n - 1)
      /\ hs[n].addr <= (PROCS + 1) * K
      /\ \A x \in Nat : x < hs[n].addr =>
           \/ \E i \in 1 .. n - 1 : hs[i].addr <= x /\ x < hs[i].addr + K
           \/ \E a \in B : a <= x /\ x < a + K
  BY FS_CardinalityType DEF Heap, BlocksShape, BlocksCounted, BlocksCover, Top
<1> HIDE DEF n, r, new, c
<1>7. CASE n > 1
  <2>1. /\ 1 \in 1 .. n - 1 /\ Len(r) = n - 1
        /\ r[n - 1] = hs[n] /\ Top(r) = hs[n].addr
    BY <1>1, <1>5, <1>7 DEF Top
  <2>2. new + K <= hs[n].addr
    BY <1>1, <1>5, <1>7, <2>1
  <2>3. \A a \in B : Apart(K, new, a) /\ a # new
    BY <1>5, <1>6, <2>1 DEF Apart
  <2>4. ListShape(K, r)
    <3>1. ASSUME NEW i \in 1 .. n - 1 - 1
          PROVE  r[i].size = K
      <4>1. i \in 1 .. n - 1 /\ i + 1 \in 1 .. n - 1
        BY <1>1
      <4> QED  BY <1>1, <1>5, <1>7, <4>1
    <3>2. ASSUME NEW i \in 1 .. n - 1, NEW j \in 1 .. n - 1, i < j
          PROVE  r[i].addr + K <= r[j].addr
      <4>1. i + 1 \in 1 .. n /\ j + 1 \in 1 .. n /\ i + 1 < j + 1
        BY <1>1, <3>2
      <4> QED  BY <1>1, <1>5, <1>7, <4>1
    <3> QED  BY <1>1, <1>5, <1>7, <2>1, <3>1, <3>2 DEF ListShape
  <2>5. IsFiniteSet(C) /\ Cardinality(C) = c + 1
    BY <1>6, <2>3, FS_AddElement DEF c
  <2>6. BlocksShape(K, r, C)
    <3>1. \A a, b \in C : a # b => Apart(K, a, b)
      BY <1>6, <2>3 DEF Apart
    <3>2. ASSUME NEW i \in 1 .. n - 1 - 1, NEW a \in C
          PROVE  Apart(K, r[i].addr, a)
      <4>1. i + 1 \in 1 .. n - 1 /\ 1 < i + 1 /\ 1 \in 1 .. n /\ i + 1 \in 1 .. n
            /\ i \in 1 .. n - 1
        BY <1>1, <3>2
      <4>2. r[i] = hs[i + 1]
        BY <1>5, <1>7, <4>1
      <4>3. Apart(K, hs[i + 1].addr, new)
        BY <1>1, <1>5, <4>1 DEF Apart
      <4> QED  BY <1>6, <4>1, <4>2, <4>3
    <3> QED  BY <1>5, <1>6, <2>1, <2>2, <2>5, <3>1, <3>2 DEF BlocksShape
  <2>7. BlocksCounted(K, r, C)
    <3>1. (c + 1) + (n - 1) - 1 = c + n - 1
      BY <1>1, <1>6
    <3> QED  BY <1>6, <2>1, <2>5, <3>1 DEF BlocksCounted
  <2>8. BlocksCover(K, r, C)
    <3> SUFFICES ASSUME NEW x \in Nat, x < hs[n].addr
                 PROVE  \/ \E i \in 1 .. n - 1 - 1 :
                             r[i].addr <= x /\ x < r[i].addr + K
                        \/ \E a \in C : a <= x /\ x < a + K
      BY <2>1 DEF BlocksCover
    <3>1. CASE \E a \in B : a <= x /\ x < a + K
      BY <3>1
    <3>2. ASSUME NEW i \in 1 .. n - 1, hs[i].addr <= x /\ x < hs[i].addr + K
          PROVE  \/ \E m \in 1 .. n - 1 - 1 :
                      r[m].addr <= x /\ x < r[m].addr + K
                 \/ \E a \in C : a <= x /\ x < a + K
      <4>1. CASE i = 1
        BY <1>5, <3>2, <4>1
      <4>2. CASE i # 1
        <5>1. i - 1 \in 1 .. n - 1 - 1 /\ i - 1 \in 1 .. n - 1 /\ (i - 1) + 1 = i
          BY <1>1, <4>2
        <5>2. r[i - 1] = hs[i]
          BY <1>5, <1>7, <5>1
        <5> QED  BY <3>2, <5>1, <5>2
      <4> QED  BY <4>1, <4>2
    <3> QED  BY <1>6, <3>1, <3>2
  <2>9. new + K <= VADDR_SIZE
    <3>1. n \in 1 .. n /\ hs[n].addr \in Nat
      BY <1>1
    <3>2. hs[n].addr <= VADDR_SIZE
      BY <1>2, <1>6, <3>1
    <3> QED  BY <1>2, <1>5, <2>2, <3>1, <3>2
  <2> QED  BY <1>4, <1>5, <2>3, <2>4, <2>6, <2>7, <2>8, <2>9
           DEF Heap, new, r
<1>8. CASE n = 1
  <2>1. /\ Len(r) = 1 /\ r[1] = Hole(new + K, VADDR_SIZE)
        /\ Top(r) = new + K /\ hs[1].addr = new
    <3>1. Len(r) = 1 /\ r[1] = Hole(new + K, VADDR_SIZE) /\ hs[1].addr = new
      BY <1>5, <1>8
    <3>2. r[1].addr = new + K
      BY <3>1 DEF Hole
    <3> QED  BY <3>1, <3>2 DEF Top
  <2>2. \A a \in B : a + K <= new /\ a # new
    BY <1>5, <1>6, <1>8
  <2>3. ListShape(K, r)
    BY <1>5, <2>1 DEF ListShape, Hole
  <2>4. IsFiniteSet(C) /\ Cardinality(C) = c + 1
    BY <1>6, <2>2, FS_AddElement DEF c
  <2>5. BlocksShape(K, r, C)
    <3>1. \A a \in C : a \in Nat /\ a + K <= new + K
      BY <1>5, <1>6, <2>2
    <3>2. \A a, b \in C : a # b => Apart(K, a, b)
      BY <1>6, <2>2 DEF Apart
    <3> QED  BY <2>1, <2>4, <3>1, <3>2 DEF BlocksShape
  <2>6. BlocksCounted(K, r, C)
    <3>1. new = K * c
      <4>1. c + n - 1 = c
        BY <1>6, <1>8
      <4> QED  BY <1>6, <1>8, <2>1, <4>1
    <3>2. new + K = K * (c + 1)
      BY <1>6, <3>1
    <3>3. c + 1 = (c + 1) + 1 - 1
      BY <1>6
    <3>4. K * (c + 1) <= (PROCS + 1) * K
      <4>1. (PROCS + 1) * K = K * (c + 1) + K * (PROCS - c)
        BY <1>2, <1>6
      <4>2. PROCS - c \in Nat
        BY <1>2, <1>6
      <4>3. K * (PROCS - c) \in Nat /\ K * (c + 1) \in Nat
        BY <1>6, <4>2
      <4> QED  BY <4>1, <4>3
    <3> QED  BY <2>1, <2>4, <3>2, <3>3, <3>4 DEF BlocksCounted
  <2>7. BlocksCover(K, r, C)
    <3> SUFFICES ASSUME NEW x \in Nat, x < new + K
                 PROVE  \E a \in C : a <= x /\ x < a + K
      BY <2>1 DEF BlocksCover
    <3>1. CASE x < new
      <4>1. x < hs[n].addr /\ \A i \in 1 .. n - 1 : FALSE
        BY <1>8, <2>1, <3>1
      <4> QED  BY <1>6, <4>1
    <3>2. CASE ~(x < new)
      BY <1>5, <3>2
    <3> QED  BY <3>1, <3>2
  <2>8. new + K <= VADDR_SIZE
    <3>1. new + K <= (PROCS + 1) * K
      BY <2>1, <2>6 DEF BlocksCounted
    <3> QED  BY <1>2, <1>5, <3>1
  <2> QED  BY <1>4, <1>5, <2>2, <2>3, <2>5, <2>6, <2>7, <2>8
           DEF Heap, new, r
<1> QED  BY <1>1, <1>7, <1>8

(* add_hole of a block in use: the block is the first hole whose address is *)
(* not below its own, so that the list stays in order.                      *)
LEMMA FreeBlock ==
  ASSUME NEW K \in Nat \ {0}, RoomFor(K), NEW hs, NEW B,
         Heap(K, hs, B), NEW a \in B
  PROVE  Heap(K, AddHole(hs, a, K), B \ {a})
<1> DEFINE n == Len(hs)
           r == AddHole(hs, a, K)
           C == B \ {a}
           c == Cardinality(B)
<1>1. /\ hs \in Seq(HoleRecord) /\ n \in Nat /\ n >= 1
      /\ \A i \in 1 .. n : hs[i].addr \in Nat /\ hs[i].size \in Nat
      /\ \A i \in 1 .. n - 1 : hs[i].size = K
      /\ hs[n].size = VADDR_SIZE
      /\ \A i, j \in 1 .. n : i < j => hs[i].addr + K <= hs[j].addr
  BY HoleFacts DEF Heap, ListShape
<1>2. /\ B \subseteq Nat /\ IsFiniteSet(B) /\ c \in Nat
      /\ \A b \in B : b + K <= hs[n].addr
      /\ \A b, d \in B : b # d => Apart(K, b, d)
      /\ \A i \in 1 .. n - 1 : \A b \in B : Apart(K, hs[i].addr, b)
      /\ hs[n].addr = K * (c + n - 1)
      /\ hs[n].addr <= (PROCS + 1) * K
      /\ \A x \in Nat : x < hs[n].addr =>
           \/ \E i \in 1 .. n - 1 : hs[i].addr <= x /\ x < hs[i].addr + K
           \/ \E b \in B : b <= x /\ x < b + K
  BY FS_CardinalityType DEF Heap, BlocksShape, BlocksCounted, BlocksCover, Top
<1>3. a \in Nat /\ K \in Nat /\ n \in 1 .. n /\ hs[n].addr \in Nat
  BY <1>1, <1>2
<1>4. /\ r \in Seq(HoleRecord)
      /\ Len(r) = n + 1
      /\ \E k \in 1 .. n + 1 :
           /\ k <= n => hs[k].addr >= a
           /\ \A j \in 1 .. k - 1 : hs[j].addr < a
           /\ \A j \in 1 .. n + 1 :
                r[j] = IF j < k THEN hs[j]
                       ELSE IF j = k THEN Hole(a, K) ELSE hs[j - 1]
  <2>1. hs \in Seq(HoleRecord) /\ a \in Nat /\ K \in Nat
    BY <1>1, <1>3
  <2> QED  BY <2>1, AddHoleEffect
<1> HIDE DEF n, r, c
<1>5. PICK k \in 1 .. n + 1 :
        /\ k <= n => hs[k].addr >= a
        /\ \A j \in 1 .. k - 1 : hs[j].addr < a
        /\ \A j \in 1 .. n + 1 :
             r[j] = IF j < k THEN hs[j]
                    ELSE IF j = k THEN Hole(a, K) ELSE hs[j - 1]
  BY <1>4
<1>6. k <= n
  <2>1. a < hs[n].addr
    BY <1>2, <1>3
  <2>2. ASSUME k = n + 1
        PROVE  FALSE
    <3>1. n \in 1 .. k - 1
      BY <1>1, <2>2
    <3>2. hs[n].addr < a
      BY <1>5, <3>1
    <3> QED  BY <1>3, <2>1, <3>2
  <2>3. k \in Nat /\ k <= n + 1
    BY <1>1
  <2> QED  BY <1>1, <2>2, <2>3
<1>7. /\ r[n + 1] = hs[n] /\ Top(r) = hs[n].addr
      /\ r[k] = Hole(a, K) /\ r[k].addr = a /\ r[k].size = K
  <2>1. /\ n + 1 \in 1 .. n + 1 /\ ~(n + 1 < k) /\ n + 1 # k /\ (n + 1) - 1 = n
        /\ k \in 1 .. n + 1
    BY <1>1, <1>6
  <2>2. r[n + 1] = hs[n] /\ r[k] = Hole(a, K)
    BY <1>5, <2>1
  <2> QED  BY <1>4, <2>2 DEF Top, Hole
<1> DEFINE from(j) == IF j < k THEN j ELSE j - 1
<1>8. ASSUME NEW j \in 1 .. n + 1, j # k
      PROVE  /\ from(j) \in 1 .. n /\ r[j] = hs[from(j)]
             /\ j # n + 1 => from(j) \in 1 .. n - 1
  BY <1>1, <1>5, <1>6, <1>8
<1>9. \A i \in 1 .. n : /\ i < k => hs[i].addr + K <= a
                        /\ i >= k => a + K <= hs[i].addr
  <2> SUFFICES ASSUME NEW i \in 1 .. n
               PROVE  /\ i < k => hs[i].addr + K <= a
                      /\ i >= k => a + K <= hs[i].addr
    OBVIOUS
  <2>1. CASE i = n
    BY <1>2, <1>6, <2>1
  <2>2. CASE i # n
    <3>1. i \in 1 .. n - 1 /\ hs[i].addr \in Nat
      BY <1>1, <2>2
    <3>2. hs[i].addr + K <= a \/ a + K <= hs[i].addr
      BY <1>2, <3>1 DEF Apart
    <3>3. i < k => hs[i].addr < a
      BY <1>5, <3>1
    <3>4. i >= k => hs[i].addr >= a
      <4>1. CASE i = k
        BY <1>5, <1>6, <4>1
      <4>2. CASE i > k
        <5>1. k \in 1 .. n /\ hs[k].addr \in Nat
          BY <1>1, <1>6
        <5>2. hs[k].addr + K <= hs[i].addr
          BY <1>1, <4>2, <5>1
        <5> QED  BY <1>3, <1>5, <1>6, <3>1, <5>1, <5>2
      <4> QED  BY <1>1, <4>1, <4>2
    <3> QED  BY <1>3, <3>1, <3>2, <3>3, <3>4
  <2> QED  BY <2>1, <2>2
<1>10. ListShape(K, r)
  <2>1. ASSUME NEW i \in 1 .. n
        PROVE  r[i].size = K
    <3>1. CASE i = k
      BY <1>7, <3>1
    <3>2. CASE i # k
      <4>1. i \in 1 .. n + 1 /\ i # n + 1
        BY <1>1
      <4> QED  BY <1>1, <1>8, <3>2, <4>1
    <3> QED  BY <3>1, <3>2
  <2>2. ASSUME NEW i \in 1 .. n + 1, NEW j \in 1 .. n + 1, i < j
        PROVE  r[i].addr + K <= r[j].addr
    <3>1. CASE i = k
      <4>1. j # k /\ from(j) \in 1 .. n /\ r[j] = hs[from(j)] /\ from(j) >= k
        BY <1>1, <1>8, <2>2, <3>1
      <4> QED  BY <1>7, <1>9, <3>1, <4>1
    <3>2. CASE j = k
      <4>1. i # k /\ from(i) \in 1 .. n /\ r[i] = hs[from(i)] /\ from(i) < k
        BY <1>1, <1>8, <2>2, <3>2
      <4> QED  BY <1>7, <1>9, <3>2, <4>1
    <3>3. CASE i # k /\ j # k
      <4>1. /\ from(i) \in 1 .. n /\ r[i] = hs[from(i)]
            /\ from(j) \in 1 .. n /\ r[j] = hs[from(j)]
        BY <1>8, <3>3
      <4>2. from(i) < from(j)
        BY <1>1, <2>2, <3>3
      <4> HIDE DEF from
      <4> QED  BY <1>1, <4>1, <4>2
    <3> QED  BY <3>1, <3>2, <3>3
  <2>3. Len(r) - 1 = n /\ Len(r) >= 1 /\ r[Len(r)].size = VADDR_SIZE
    BY <1>1, <1>4, <1>7
  <2> QED  BY <1>4, <2>1, <2>2, <2>3 DEF ListShape
<1>11. IsFiniteSet(C) /\ Cardinality(C) = c - 1
  BY <1>2, FS_RemoveElement DEF c
<1>12. Len(r) - 1 = n
  BY <1>1, <1>4
<1>13. BlocksShape(K, r, C)
  <2>1. ASSUME NEW i \in 1 .. n, NEW b \in C
        PROVE  Apart(K, r[i].addr, b)
    <3>1. CASE i = k
      BY <1>2, <1>7, <3>1
    <3>2. CASE i # k
      <4>1. i \in 1 .. n + 1 /\ i # n + 1
        BY <1>1
      <4> QED  BY <1>2, <1>8, <3>2, <4>1
    <3> QED  BY <3>1, <3>2
  <2> QED  BY <1>2, <1>7, <1>11, <1>12, <2>1 DEF BlocksShape
<1>14. BlocksCounted(K, r, C)
  <2>1. (c - 1) + (n + 1) - 1 = c + n - 1
    BY <1>1, <1>2
  <2> QED  BY <1>2, <1>4, <1>7, <1>11, <2>1 DEF BlocksCounted
<1>15. BlocksCover(K, r, C)
  <2> SUFFICES ASSUME NEW x \in Nat, x < hs[n].addr
               PROVE  \/ \E i \in 1 .. n : r[i].addr <= x /\ x < r[i].addr + K
                      \/ \E b \in C : b <= x /\ x < b + K
    BY <1>7, <1>12 DEF BlocksCover
  <2>1. ASSUME NEW b \in B, b <= x /\ x < b + K
        PROVE  \/ \E i \in 1 .. n : r[i].addr <= x /\ x < r[i].addr + K
               \/ \E d \in C : d <= x /\ x < d + K
    <3>1. CASE b = a
      <4>1. k \in 1 .. n
        BY <1>6
      <4> QED  BY <1>7, <2>1, <3>1, <4>1
    <3>2. CASE b # a
      BY <2>1, <3>2
    <3> QED  BY <3>1, <3>2
  <2>2. ASSUME NEW i \in 1 .. n - 1, hs[i].addr <= x /\ x < hs[i].addr + K
        PROVE  \E j \in 1 .. n : r[j].addr <= x /\ x < r[j].addr + K
    <3>1. PICK j \in 1 .. n : r[j] = hs[i]
      <4>1. CASE i < k
        <5>1. i \in 1 .. n /\ i \in 1 .. n + 1
          BY <1>1
        <5> QED  BY <1>5, <4>1, <5>1
      <4>2. CASE i >= k
        <5>1. i + 1 \in 1 .. n /\ i + 1 \in 1 .. n + 1 /\ ~(i + 1 < k)
              /\ i + 1 # k /\ (i + 1) - 1 = i
          BY <1>1, <4>2
        <5> QED  BY <1>5, <5>1
      <4> QED  BY <4>1, <4>2
    <3> QED  BY <2>2, <3>1
  <2> QED  BY <1>2, <2>1, <2>2
<1> QED  BY <1>10, <1>13, <1>14, <1>15 DEF Heap, r

-----------------------------------------------------------------------------
(***************************************************************************)
(* The registers of the processes and the heap.                             *)
(***************************************************************************)
Blocks == { regs[p].br : p \in live }

(* The base registers name the blocks in use, one for each process.         *)
HoleInv(K) ==
  /\ HoleTypeOK
  /\ \A p \in live : regs[p].lr = K - 1
  /\ \A p, q \in live : p # q => regs[p].br # regs[q].br
  /\ Heap(K, holes, Blocks)

(* No more blocks are in use than there are processes.                      *)
LEMMA FewBlocks ==
  ASSUME HoleTypeOK
  PROVE  IsFiniteSet(live) /\ Cardinality(Blocks) <= next_pid /\ next_pid <= PROCS
<1>1. next_pid \in Nat /\ next_pid <= PROCS /\ PROCS \in Nat
  BY HoleListAssumption DEF HoleTypeOK
<1>2. /\ IsFiniteSet(0 .. next_pid - 1)
      /\ Cardinality(0 .. next_pid - 1) = next_pid
  BY <1>1, FS_Interval
<1>3. IsFiniteSet(live) /\ Cardinality(live) <= next_pid
  <2>1. live \in SUBSET (0 .. next_pid - 1)
    BY DEF HoleTypeOK
  <2> QED  BY <1>2, <2>1, FS_Subset
<1>4. IsFiniteSet(Blocks) /\ Cardinality(Blocks) <= Cardinality(live)
  <2> DEFINE base == [p \in live |-> regs[p].br]
  <2>1. base \in Surjection(live, Blocks)
    BY DEF Blocks, Surjection
  <2> QED  BY <1>3, <2>1, FS_Surjection
<1>5. Cardinality(Blocks) \in Nat /\ Cardinality(live) \in Nat
  BY <1>3, <1>4, FS_CardinalityType
<1> QED  BY <1>1, <1>3, <1>4, <1>5

(* int2word of an address in the address space, and of the highest offset,  *)
(* is the number itself.                                                    *)
LEMMA RegistersExact ==
  ASSUME NEW K \in Nat \ {0}, RoomFor(K), NEW a \in Nat, a + K <= VADDR_SIZE
  PROVE  /\ Registers(a, K) = [br |-> a, lr |-> K - 1]
         /\ Registers(a, K) \in [br : Words, lr : Words]
<1>1. /\ VADDR_SIZE \in Nat /\ WORD_RANGE \in Nat /\ VADDR_SIZE <= WORD_RANGE
  BY RoomFacts
<1>2. a \in 0 .. WORD_RANGE - 1 /\ K - 1 \in 0 .. WORD_RANGE - 1
  BY <1>1
<1>3. a % WORD_RANGE = a /\ (K - 1) % WORD_RANGE = K - 1
  BY <1>1, <1>2
<1> QED  BY <1>2, <1>3 DEF Registers, Words

(* A list of the shape of the heap is a list of holes with numbers.         *)
LEMMA HeapType ==
  ASSUME NEW K, NEW hs, NEW B, Heap(K, hs, B)
  PROVE  \A i \in 1 .. Len(hs) : hs[i].addr \in Nat /\ hs[i].size \in Nat
BY HoleFacts DEF Heap, ListShape

(* After pagemem_init the address space is one hole.                        *)
LEMMA HoleInitInv ==
  ASSUME NEW K \in Nat \ {0}, RoomFor(K), HoleInit
  PROVE  HoleInv(K)
<1>1. /\ VADDR_SIZE \in Nat /\ PROCS \in Nat /\ WORD_RANGE \in Nat \ {0}
      /\ (PROCS + 1) * K \in Nat
  BY RoomFacts, HoleListAssumption
<1>2. /\ holes \in Seq(HoleRecord) /\ Len(holes) = 1
      /\ holes[1] = Hole(0, VADDR_SIZE)
  <2>1. <<>> \in Seq(HoleRecord) /\ Len(<<>>) = 0 /\ 0 \in Nat
    BY EmptySeq
  <2>2. /\ AddHole(<<>>, 0, VADDR_SIZE) \in Seq(HoleRecord)
        /\ Len(AddHole(<<>>, 0, VADDR_SIZE)) = 1
        /\ AddHole(<<>>, 0, VADDR_SIZE)[1] = Hole(0, VADDR_SIZE)
    <3>1. VADDR_SIZE \in Nat
      BY <1>1
    <3> QED  BY <2>1, <3>1, AddHoleToEmpty
  <2>3. holes = AddHole(<<>>, 0, VADDR_SIZE)
    BY DEF HoleInit
  <2> QED  BY <2>2, <2>3
<1>3. holes[1].addr = 0 /\ holes[1].size = VADDR_SIZE
  BY <1>2 DEF Hole
<1>4. live = {} /\ Blocks = {}
  BY DEF HoleInit, Blocks
<1>5. IsFiniteSet({}) /\ Cardinality({}) = 0
  BY FS_EmptySet
<1>6. ListShape(K, holes)
  BY <1>2, <1>3 DEF ListShape
<1>7. BlocksShape(K, holes, {}) /\ BlocksCover(K, holes, {})
  BY <1>2, <1>3, <1>5 DEF BlocksShape, BlocksCover, Top
<1>8. BlocksCounted(K, holes, {})
  <2>1. K * (0 + 1 - 1) = 0
    OBVIOUS
  <2> QED  BY <1>1, <1>2, <1>3, <1>5, <2>1 DEF BlocksCounted, Top
<1>9. HoleTypeOK
  BY <1>1, <1>2, <1>3, <1>4 DEF HoleInit, HoleTypeOK, Words
<1> QED  BY <1>4, <1>6, <1>7, <1>8, <1>9 DEF HoleInv, Heap

(* What an allocation for p finds and what the registers become.            *)
LEMMA AllocateRegisters ==
  ASSUME NEW K \in Nat \ {0}, RoomFor(K), HoleInv(K), NEW p \in Pids,
         regs' = [regs EXCEPT ![p] = Registers(FirstFit(holes, K), K)]
  PROVE  /\ Heap(K, WithoutFirstFit(holes, K), Blocks \cup {FirstFit(holes, K)})
         /\ FirstFit(holes, K) \notin Blocks
         /\ regs' \in [Pids -> [br : Words, lr : Words]]
         /\ regs'[p] = [br |-> FirstFit(holes, K), lr |-> K - 1]
         /\ \A q \in Pids \ {p} : regs'[q] = regs[q]
<1>1. Cardinality(Blocks) <= PROCS
  <2>1. Cardinality(Blocks) <= next_pid /\ next_pid <= PROCS /\ IsFiniteSet(Blocks)
    BY FewBlocks DEF HoleInv, Heap, BlocksShape
  <2>2. Cardinality(Blocks) \in Nat /\ next_pid \in Nat /\ PROCS \in Nat
    BY <2>1, FS_CardinalityType, HoleListAssumption DEF HoleInv, HoleTypeOK
  <2> QED  BY <2>1, <2>2
<1>2. /\ FirstFit(holes, K) \in Nat \ Blocks
      /\ FirstFit(holes, K) + K <= VADDR_SIZE
      /\ Heap(K, WithoutFirstFit(holes, K), Blocks \cup {FirstFit(holes, K)})
  BY <1>1, AllocateBlock DEF HoleInv
<1>3. /\ Registers(FirstFit(holes, K), K) = [br |-> FirstFit(holes, K), lr |-> K - 1]
      /\ Registers(FirstFit(holes, K), K) \in [br : Words, lr : Words]
  BY <1>2, RegistersExact
<1>4. regs \in [Pids -> [br : Words, lr : Words]]
  BY DEF HoleInv, HoleTypeOK
<1> QED  BY <1>2, <1>3, <1>4

(* procalloc gives the new process a block that nobody has.                 *)
LEMMA ProcAllocInv ==
  ASSUME NEW K \in Nat \ {0}, RoomFor(K), HoleInv(K), ProcAlloc(K)
  PROVE  HoleInv(K)'
<1>1. /\ next_pid \in 0 .. PROCS - 1 /\ next_pid \in Pids
      /\ next_pid' = next_pid + 1 /\ next_pid' \in 0 .. PROCS
      /\ live \subseteq 0 .. next_pid - 1 /\ next_pid \notin live
      /\ live \subseteq Pids
      /\ live' = live \cup {next_pid} /\ live' \subseteq 0 .. next_pid' - 1
  BY HoleListAssumption DEF HoleInv, HoleTypeOK, ProcAlloc, Pids
<1> DEFINE new == FirstFit(holes, K)
<1>2. /\ Heap(K, holes', Blocks \cup {new})
      /\ new \notin Blocks
      /\ regs' \in [Pids -> [br : Words, lr : Words]]
      /\ regs'[next_pid] = [br |-> new, lr |-> K - 1]
      /\ \A q \in Pids \ {next_pid} : regs'[q] = regs[q]
  BY <1>1, AllocateRegisters DEF ProcAlloc
<1> HIDE DEF new
<1>3. \A q \in live : q \in Pids \ {next_pid} /\ regs'[q] = regs[q]
  BY <1>1, <1>2
<1>4. Blocks' = Blocks \cup {new}
  BY <1>1, <1>2, <1>3 DEF Blocks
<1>5. HoleTypeOK'
  BY <1>1, <1>2, HeapType DEF HoleTypeOK
<1>6. /\ \A p \in live' : regs'[p].lr = K - 1
      /\ \A p, q \in live' : p # q => regs'[p].br # regs'[q].br
  <2>1. \A q \in live : regs[q].br \in Blocks
    BY DEF Blocks
  <2> QED  BY <1>1, <1>2, <1>3, <2>1 DEF HoleInv
<1> QED  BY <1>2, <1>4, <1>5, <1>6 DEF HoleInv

(* HA gives the block of the process back.                                  *)
LEMMA HaltInv ==
  ASSUME NEW K \in Nat \ {0}, RoomFor(K), HoleInv(K), NEW p \in Pids, Halt(p)
  PROVE  HoleInv(K)'
<1>1. /\ p \in live /\ live' = live \ {p} /\ regs' = regs /\ next_pid' = next_pid
      /\ regs[p].lr = K - 1 /\ regs[p].lr + 1 = K /\ regs[p].br \in Blocks
      /\ holes' = AddHole(holes, regs[p].br, K)
  BY DEF Halt, HoleInv, Blocks
<1>2. Heap(K, holes', Blocks \ {regs[p].br})
  BY <1>1, FreeBlock DEF HoleInv
<1>3. Blocks' = Blocks \ {regs[p].br}
  BY <1>1 DEF Blocks, HoleInv
<1>4. HoleTypeOK'
  BY <1>1, <1>2, HeapType DEF HoleInv, HoleTypeOK
<1> QED  BY <1>1, <1>2, <1>3, <1>4 DEF HoleInv

(* EX moves the process to a block that nobody has, which for a moment is   *)
(* in use together with the old one.                                        *)
LEMMA ResizeInv ==
  ASSUME NEW K \in Nat \ {0}, RoomFor(K), HoleInv(K),
         NEW p \in Pids, ResizeProc(p, K)
  PROVE  HoleInv(K)'
<1> DEFINE new == FirstFit(holes, K)
           old == regs[p].br
           hs == WithoutFirstFit(holes, K)
<1>1. /\ p \in live /\ live' = live /\ next_pid' = next_pid
      /\ regs[p].lr + 1 = K /\ old \in Blocks
      /\ holes' = AddHole(hs, old, K)
      /\ live \subseteq Pids
  BY HoleListAssumption DEF ResizeProc, HoleInv, HoleTypeOK, Blocks, Pids
<1>2. /\ Heap(K, hs, Blocks \cup {new})
      /\ new \notin Blocks
      /\ regs' \in [Pids -> [br : Words, lr : Words]]
      /\ regs'[p] = [br |-> new, lr |-> K - 1]
      /\ \A q \in Pids \ {p} : regs'[q] = regs[q]
  BY AllocateRegisters DEF ResizeProc
<1> HIDE DEF new, hs
<1>3. Heap(K, holes', (Blocks \cup {new}) \ {old})
  BY <1>1, <1>2, FreeBlock
<1>4. \A q \in live : q # p => regs'[q] = regs[q] /\ regs[q].br # old
  BY <1>1, <1>2 DEF HoleInv
<1>5. Blocks' = (Blocks \cup {new}) \ {old}
  <2>1. new # old
    BY <1>1, <1>2
  <2>2. Blocks' \subseteq (Blocks \cup {new}) \ {old}
    BY <1>1, <1>2, <1>4, <2>1 DEF Blocks
  <2>3. (Blocks \cup {new}) \ {old} \subseteq Blocks'
    BY <1>1, <1>2, <1>4 DEF Blocks
  <2> QED  BY <2>2, <2>3
<1>6. HoleTypeOK'
  BY <1>1, <1>2, <1>3, HeapType DEF HoleInv, HoleTypeOK
<1>7. /\ \A q \in live' : regs'[q].lr = K - 1
      /\ \A q, r \in live' : q # r => regs'[q].br # regs'[r].br
  <2>1. \A q \in live : regs[q].br \in Blocks
    BY DEF Blocks
  <2> QED  BY <1>1, <1>2, <1>4, <2>1 DEF HoleInv
<1> QED  BY <1>3, <1>5, <1>6, <1>7 DEF HoleInv

(* Every step preserves the invariant.                                      *)
LEMMA HoleNextInv ==
  ASSUME NEW K \in Nat \ {0}, RoomFor(K), HoleInv(K), [HoleNext]_holeVars
  PROVE  HoleInv(K)'
<1>1. CASE UNCHANGED holeVars
  BY <1>1 DEF holeVars, HoleInv, HoleTypeOK, Blocks
<1>2. ASSUME NEW n \in Sizes, ProcAlloc(n)
      PROVE  HoleInv(K)'
  BY <1>2, ProcAllocInv DEF RoomFor
<1>3. ASSUME NEW n \in Sizes, NEW p \in Pids, ResizeProc(p, n)
      PROVE  HoleInv(K)'
  BY <1>3, ResizeInv DEF RoomFor
<1>4. ASSUME NEW p \in Pids, Halt(p)
      PROVE  HoleInv(K)'
  BY <1>4, HaltInv
<1> QED  BY <1>1, <1>2, <1>3, <1>4 DEF HoleNext

(* The blocks in use and the holes tile the part of the address space that  *)
(* has been allocated once, through any loading, forking, halting and EX.   *)
THEOREM HoleInvariant ==
  ASSUME NEW K \in Nat \ {0}, RoomFor(K)
  PROVE  HoleSpec => []HoleInv(K)
<1>1. HoleInit => HoleInv(K)
  BY HoleInitInv
<1>2. HoleInv(K) /\ [HoleNext]_holeVars => HoleInv(K)'
  BY HoleNextInv
<1> QED  BY <1>1, <1>2, PTL DEF HoleSpec

(* What the invariant says about one process.                               *)
LEMMA RegionFacts ==
  ASSUME NEW K \in Nat \ {0}, RoomFor(K), HoleInv(K), NEW p \in live
  PROVE  /\ regs[p].br \in Blocks /\ regs[p].br \in Nat
         /\ regs[p].br + K <= Top(holes)
         /\ Region(p) = regs[p].br .. regs[p].br + K - 1
         /\ Top(holes) \in Nat /\ Top(holes) <= VADDR_SIZE
<1>1. regs[p].br \in Blocks /\ regs[p].lr + 1 = K
  BY DEF HoleInv, Blocks
<1>2. /\ regs[p].br \in Nat /\ regs[p].br + K <= Top(holes)
  BY <1>1 DEF HoleInv, Heap, BlocksShape
<1>3. Region(p) = regs[p].br .. regs[p].br + K - 1
  BY <1>1 DEF Region, Extent
<1>4. Top(holes) \in Nat
  <2>1. /\ holes \in Seq(HoleRecord) /\ Len(holes) >= 1
    BY DEF HoleInv, Heap, ListShape
  <2>2. Len(holes) \in 1 .. Len(holes)
    BY <2>1, HoleFacts
  <2> QED  BY <2>1, <2>2, HoleFacts DEF Top
<1>5. Top(holes) <= VADDR_SIZE
  <2>1. /\ Top(holes) <= (PROCS + 1) * K
    BY DEF HoleInv, Heap, BlocksCounted
  <2> QED  BY <1>4, <2>1, RoomFacts
<1> QED  BY <1>1, <1>2, <1>3, <1>4, <1>5

(* No word belongs to two processes.                                        *)
THEOREM NoOverlapAlways ==
  ASSUME NEW K \in Nat \ {0}, RoomFor(K)
  PROVE  HoleSpec => []NoOverlap
<1>1. HoleInv(K) => NoOverlap
  <2> SUFFICES ASSUME HoleInv(K), NEW p \in live, NEW q \in live, p # q
               PROVE  Region(p) \cap Region(q) = {}
    BY DEF NoOverlap
  <2>1. Apart(K, regs[p].br, regs[q].br)
    BY RegionFacts DEF HoleInv, Heap, BlocksShape
  <2>2. /\ regs[p].br \in Nat /\ regs[q].br \in Nat
        /\ Region(p) = regs[p].br .. regs[p].br + K - 1
        /\ Region(q) = regs[q].br .. regs[q].br + K - 1
    BY RegionFacts
  <2>3. ASSUME NEW a \in Nat, NEW b \in Nat, Apart(K, a, b),
               NEW x \in (a .. a + K - 1) \cap (b .. b + K - 1)
        PROVE  FALSE
    BY <2>3 DEF Apart
  <2> QED  BY <2>1, <2>2, <2>3
<1> QED  BY <1>1, HoleInvariant, PTL

(* Every process has words of the address space only.                       *)
THEOREM InBoundsAlways ==
  ASSUME NEW K \in Nat \ {0}, RoomFor(K)
  PROVE  HoleSpec => []InBounds
<1>1. HoleInv(K) => InBounds
  <2> SUFFICES ASSUME HoleInv(K), NEW p \in live
               PROVE  Region(p) \subseteq Extent(0, VADDR_SIZE)
    BY DEF InBounds
  <2>1. VADDR_SIZE \in Nat
    BY RoomFacts
  <2> QED  BY <2>1, RegionFacts DEF Extent
<1> QED  BY <1>1, HoleInvariant, PTL

(* The list is in order, and no word is free twice or free and in use.      *)
THEOREM HolesDisjointAlways ==
  ASSUME NEW K \in Nat \ {0}, RoomFor(K)
  PROVE  HoleSpec => []HolesDisjoint
<1>1. HoleInv(K) => HolesDisjoint
  <2> SUFFICES ASSUME HoleInv(K) PROVE HolesDisjoint
    OBVIOUS
  <2> DEFINE n == Len(holes)
  <2>1. /\ holes \in Seq(HoleRecord) /\ n >= 1
        /\ \A i \in 1 .. n - 1 : holes[i].size = K
        /\ \A i, j \in 1 .. n : i < j => holes[i].addr + K <= holes[j].addr
        /\ \A i \in 1 .. n - 1 : \A a \in Blocks : Apart(K, holes[i].addr, a)
    BY DEF HoleInv, Heap, ListShape, BlocksShape
  <2>2. /\ n \in Nat
        /\ \A i \in 1 .. n : holes[i].addr \in Nat /\ holes[i].size \in Nat
    BY <2>1, HoleFacts
  <2>3. ASSUME NEW i \in 1 .. n, NEW j \in 1 .. n, i < j
        PROVE  holes[i].addr + holes[i].size <= holes[j].addr
    <3>1. i \in 1 .. n - 1
      BY <2>2, <2>3
    <3> QED  BY <2>1, <2>3, <3>1
  <2>4. ASSUME NEW i \in 1 .. n, NEW p \in live
        PROVE  Free(i) \cap Region(p) = {}
    <3>1. /\ regs[p].br \in Nat /\ regs[p].br \in Blocks
          /\ regs[p].br + K <= holes[n].addr
          /\ Region(p) = regs[p].br .. regs[p].br + K - 1
      BY RegionFacts DEF Top
    <3>2. Free(i) = holes[i].addr .. holes[i].addr + holes[i].size - 1
      BY DEF Free, Extent
    <3>3. CASE i = n
      BY <2>2, <3>1, <3>2, <3>3
    <3>4. CASE i # n
      <4>1. i \in 1 .. n - 1
        BY <2>2, <3>4
      <4>2. holes[i].size = K /\ holes[i].addr \in Nat
        BY <2>1, <2>2, <4>1
      <4>3. Apart(K, holes[i].addr, regs[p].br)
        BY <2>1, <3>1, <4>1
      <4>4. Free(i) = holes[i].addr .. holes[i].addr + K - 1
        BY <3>2, <4>2
      <4> QED  BY <3>1, <4>2, <4>3, <4>4 DEF Apart
    <3> QED  BY <3>3, <3>4
  <2> QED  BY <2>3, <2>4 DEF HolesDisjoint
<1> QED  BY <1>1, HoleInvariant, PTL

(* Freed memory is never lost.                                              *)
THEOREM NothingLostAlways ==
  ASSUME NEW K \in Nat \ {0}, RoomFor(K)
  PROVE  HoleSpec => []NothingLost
<1>1. HoleInv(K) => NothingLost
  <2> SUFFICES ASSUME HoleInv(K), NEW x \in Extent(0, VADDR_SIZE)
               PROVE  \/ \E i \in 1 .. Len(holes) : x \in Free(i)
                      \/ \E p \in live : x \in Region(p)
    BY DEF NothingLost
  <2> DEFINE n == Len(holes)
  <2>1. /\ holes \in Seq(HoleRecord) /\ n >= 1
        /\ \A i \in 1 .. n - 1 : holes[i].size = K
        /\ holes[n].size = VADDR_SIZE
    BY DEF HoleInv, Heap, ListShape
  <2>2. /\ n \in Nat /\ n \in 1 .. n
        /\ \A i \in 1 .. n : holes[i].addr \in Nat
    BY <2>1, HoleFacts
  <2>3. x \in Nat /\ x < VADDR_SIZE /\ VADDR_SIZE \in Nat
    BY RoomFacts DEF Extent
  <2>4. \A i \in 1 .. n : Free(i) = holes[i].addr .. holes[i].addr + holes[i].size - 1
    BY DEF Free, Extent
  <2>5. CASE x < holes[n].addr
    <3>1. \/ \E i \in 1 .. n - 1 : holes[i].addr <= x /\ x < holes[i].addr + K
          \/ \E a \in Blocks : a <= x /\ x < a + K
      BY <2>3, <2>5 DEF HoleInv, Heap, BlocksCover, Top
    <3>2. ASSUME NEW i \in 1 .. n - 1, holes[i].addr <= x /\ x < holes[i].addr + K
          PROVE  i \in 1 .. n /\ x \in Free(i)
      <4>1. i \in 1 .. n
        BY <2>2
      <4>2. Free(i) = holes[i].addr .. holes[i].addr + K - 1 /\ holes[i].addr \in Nat
        BY <2>1, <2>2, <2>4, <4>1
      <4> QED  BY <2>3, <3>2, <4>1, <4>2
    <3>3. ASSUME NEW p \in live, regs[p].br <= x /\ x < regs[p].br + K
          PROVE  x \in Region(p)
      BY <2>3, <3>3, RegionFacts
    <3> QED  BY <3>1, <3>2, <3>3 DEF Blocks
  <2>6. CASE ~(x < holes[n].addr)
    <3>1. x \in Free(n)
      BY <2>1, <2>2, <2>3, <2>4, <2>6
    <3> QED  BY <2>2, <3>1
  <2> QED  BY <2>5, <2>6
<1> QED  BY <1>1, HoleInvariant, PTL

(* Addresses and sizes stay numbers, and registers words.                   *)
THEOREM HoleTypeCorrect ==
  ASSUME NEW K \in Nat \ {0}, RoomFor(K)
  PROVE  HoleSpec => []HoleTypeOK
<1>1. HoleInv(K) => HoleTypeOK
  BY DEF HoleInv
<1> QED  BY <1>1, HoleInvariant, PTL
=============================================================================
