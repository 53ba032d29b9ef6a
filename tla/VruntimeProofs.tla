--------------------------- MODULE VruntimeProofs ---------------------------
(***************************************************************************)
(* Theorems about the virtual runtimes of the scheduler, as long as no     *)
(* process has executed more operations than an int can count: then the    *)
(* differences key_comp computes are the differences, and, as long as only *)
(* sleepers are resumed, the tree stays sorted and nobody is ahead by more *)
(* than a slice.  For any number of processes, length of the slices and    *)
(* latency.                                                                *)
(***************************************************************************)
EXTENDS SchedProofs

(* The counters do not wrap: virtual runtimes stay below 2^31.              *)
NoWrap == MaxVruntime < INT_RANGE

(* Nobody has been charged more than the bound of the model.               *)
Bounded(s) ==
  /\ s.min_vruntime <= MaxVruntime
  /\ \A p \in Pids : s.vruntime[p] <= MaxVruntime

(* The tree is in the order of the virtual runtimes themselves.             *)
InOrder(s) ==
  \A i, j \in 1 .. Len(s.tree) :
    i < j => s.vruntime[s.tree[i]] <= s.vruntime[s.tree[j]]

(* Nobody in the tree is behind the running process: so when a slice begins. *)
CurrentLeast(s) ==
  \A q \in Range(s.tree) : s.vruntime[s.current] <= s.vruntime[q]

(* Nobody who can run is behind min_vruntime by more than the latency.      *)
NearMin(s) ==
  \A q \in Runnable(s) : s.vruntime[q] + SCHED_LATENCY >= s.min_vruntime

(* Below 2^31 the conversion of a difference to int is the difference.      *)
LEMMA ExactDifference ==
  ASSUME NoWrap, NEW a \in 0 .. MaxVruntime, NEW b \in 0 .. MaxVruntime
  PROVE  AsInt(USub(a, b)) = a - b
BY SchedAssumption DEF NoWrap, AsInt, USub, UINT_RANGE

(* key_comp compares virtual runtimes, whatever min_vruntime is.            *)
LEMMA AheadIsGreater ==
  ASSUME NoWrap, NEW s \in SchedState, Bounded(s),
         NEW p \in Pids, NEW q \in Pids
  PROVE  /\ Ahead(s, p, q) <=> s.vruntime[p] > s.vruntime[q]
         /\ AsInt(USub(s.vruntime[q], s.min_vruntime))
              = s.vruntime[q] - s.min_vruntime
<1>1. /\ s.vruntime[p] \in 0 .. MaxVruntime
      /\ s.vruntime[q] \in 0 .. MaxVruntime
      /\ s.min_vruntime \in 0 .. MaxVruntime
  BY SchedAssumption DEF SchedState, Bounded, UInt, UINT_RANGE
<1>2. /\ AsInt(USub(s.vruntime[p], s.min_vruntime))
           = s.vruntime[p] - s.min_vruntime
      /\ AsInt(USub(s.vruntime[q], s.min_vruntime))
           = s.vruntime[q] - s.min_vruntime
  BY <1>1, ExactDifference
<1> QED  BY <1>1, <1>2 DEF Ahead, KeyGT

(* The virtual runtime of a process is an integer.                          *)
LEMMA VruntimeInt ==
  ASSUME NEW s \in SchedState
  PROVE  /\ s.vruntime \in [Pids -> UInt]
         /\ \A p \in Pids : s.vruntime[p] \in Nat
         /\ s.min_vruntime \in Nat
         /\ s.tree \in Seq(Pids)
         /\ \A i \in 1 .. Len(s.tree) :
              s.tree[i] \in Pids /\ s.tree[i] \in Range(s.tree)
         /\ \A q \in Range(s.tree) :
              q \in Pids /\ \E i \in 1 .. Len(s.tree) : q = s.tree[i]
         /\ Len(s.tree) \in Nat
         /\ s.current \in Pids
<1>1. /\ s.vruntime \in [Pids -> UInt] /\ s.min_vruntime \in UInt
      /\ s.tree \in Seq(Pids) /\ s.current \in Pids
  BY DEF SchedState
<1>2. UInt \subseteq Nat
  BY SchedAssumption DEF UInt, UINT_RANGE
<1>3. DOMAIN s.tree = 1 .. Len(s.tree) /\ Len(s.tree) \in Nat
  BY <1>1, LenProperties
<1>4. \A i \in 1 .. Len(s.tree) : s.tree[i] \in Pids
  BY <1>1, ElementOfSeq
<1> QED  BY <1>1, <1>2, <1>3, <1>4 DEF Range

(* Changing the account of a process that is not in the tree keeps the      *)
(* order of the tree: this is why keys may be pointers to the accounts.     *)
LEMMA AccountOrder ==
  ASSUME NEW s \in SchedState, InOrder(s),
         NEW p \in Pids \ Range(s.tree), NEW x \in UInt
  PROVE  LET t == [s EXCEPT !.vruntime[p] = x]
         IN  /\ InOrder(t)
             /\ t.tree = s.tree
             /\ t.min_vruntime = s.min_vruntime
             /\ t.vruntime[p] = x
             /\ \A q \in Pids \ {p} : t.vruntime[q] = s.vruntime[q]
<1> DEFINE t == [s EXCEPT !.vruntime[p] = x]
<1>1. /\ t.tree = s.tree /\ t.min_vruntime = s.min_vruntime
      /\ t.vruntime[p] = x
      /\ \A q \in Pids \ {p} : t.vruntime[q] = s.vruntime[q]
  BY DEF SchedState
<1> HIDE DEF t
<1>2. \A i \in 1 .. Len(s.tree) : t.vruntime[s.tree[i]] = s.vruntime[s.tree[i]]
  BY <1>1, VruntimeInt
<1>3. InOrder(t)
  BY <1>1, <1>2 DEF InOrder
<1> QED  BY <1>1, <1>3 DEF t

(* Where the processes are after RBTreeInsert has put p into place i.       *)
LEMMA InsertedValues ==
  ASSUME NEW S, NEW q \in Seq(S), NEW p \in S, NEW i \in 1 .. Len(q) + 1
  PROVE  /\ Len(InsertAt(q, i, p)) = Len(q) + 1
         /\ \A k \in 1 .. Len(q) + 1 :
              InsertAt(q, i, p)[k] =
                IF k < i THEN q[k] ELSE IF k = i THEN p ELSE q[k - 1]
BY InsertFresh

(* RBTreeInsert puts a process behind the keys that are less or equal and   *)
(* before the greater ones.                                                 *)
LEMMA InsertOrder ==
  ASSUME NoWrap, NEW s \in SchedState, Bounded(s), InOrder(s),
         NEW p \in Pids, NEW t \in TreeInsert(s, p)
  PROVE  InOrder(t)
<1> DEFINE v == s.vruntime
           n == Len(s.tree)
<1>1. PICK k \in Slots(s, p) : t = [s EXCEPT !.tree = InsertAt(s.tree, k + 1, p)]
  BY DEF TreeInsert
<1>2. /\ n \in Nat /\ k \in 0 .. n
      /\ k > 0 => ~Ahead(s, s.tree[k], p)
      /\ k < n => Ahead(s, s.tree[k + 1], p)
  BY <1>1, VruntimeInt DEF Slots
<1>3. /\ v[p] \in Nat
      /\ \A i \in 1 .. n : s.tree[i] \in Pids /\ v[s.tree[i]] \in Nat
  BY VruntimeInt
<1>4. /\ k > 0 => v[s.tree[k]] <= v[p]
      /\ k < n => v[p] < v[s.tree[k + 1]]
  <2>1. k > 0 => k \in 1 .. n
    BY <1>2
  <2>2. k < n => k + 1 \in 1 .. n
    BY <1>2
  <2> QED  BY <1>2, <1>3, <2>1, <2>2, AheadIsGreater
<1>5. \A i \in 1 .. n : IF i <= k THEN v[s.tree[i]] <= v[p]
                                  ELSE v[p] <= v[s.tree[i]]
  <2> SUFFICES ASSUME NEW i \in 1 .. n
               PROVE  IF i <= k THEN v[s.tree[i]] <= v[p]
                                ELSE v[p] <= v[s.tree[i]]
    OBVIOUS
  <2>1. CASE i <= k
    <3>1. k \in 1 .. n /\ k > 0
      BY <1>2, <2>1
    <3>2. v[s.tree[i]] <= v[s.tree[k]]
      <4>1. CASE i = k
        BY <1>3, <4>1
      <4>2. CASE i # k
        <5>1. i < k
          BY <2>1, <3>1, <4>2
        <5> QED  BY <3>1, <5>1 DEF InOrder
      <4> QED  BY <4>1, <4>2
    <3> QED  BY <1>3, <1>4, <2>1, <3>1, <3>2
  <2>2. CASE ~(i <= k)
    <3>1. k + 1 \in 1 .. n /\ k < n /\ k + 1 <= i
      BY <1>2, <2>2
    <3>2. v[s.tree[k + 1]] <= v[s.tree[i]]
      <4>1. CASE i = k + 1
        BY <1>3, <4>1
      <4>2. CASE i # k + 1
        <5>1. k + 1 < i
          BY <1>2, <3>1, <4>2
        <5> QED  BY <3>1, <5>1 DEF InOrder
      <4> QED  BY <4>1, <4>2
    <3> QED  BY <1>3, <1>4, <2>2, <3>1, <3>2
  <2> QED  BY <2>1, <2>2
<1>6. /\ t.tree = InsertAt(s.tree, k + 1, p) /\ t.vruntime = v
      /\ s.tree \in Seq(Pids)
  BY <1>1 DEF SchedState
<1>7. /\ Len(t.tree) = n + 1
      /\ \A i \in 1 .. n + 1 :
           t.tree[i] = IF i < k + 1 THEN s.tree[i]
                       ELSE IF i = k + 1 THEN p ELSE s.tree[i - 1]
  <2>1. k + 1 \in 1 .. Len(s.tree) + 1
    BY <1>2
  <2>2. /\ Len(InsertAt(s.tree, k + 1, p)) = Len(s.tree) + 1
        /\ \A i \in 1 .. Len(s.tree) + 1 :
             InsertAt(s.tree, k + 1, p)[i] =
               IF i < k + 1 THEN s.tree[i]
               ELSE IF i = k + 1 THEN p ELSE s.tree[i - 1]
    BY <1>6, <2>1, InsertedValues
  <2> QED  BY <1>6, <2>2
<1> HIDE DEF v, n
<1>8. SUFFICES ASSUME NEW i \in 1 .. n + 1, NEW j \in 1 .. n + 1, i < j
               PROVE  v[t.tree[i]] <= v[t.tree[j]]
  BY <1>6, <1>7 DEF InOrder
<1>9. \A a, b \in 1 .. n : a < b => v[s.tree[a]] <= v[s.tree[b]]
  BY DEF InOrder, v, n
<1>10. CASE j < k + 1
  BY <1>2, <1>7, <1>8, <1>9, <1>10
<1>11. CASE j = k + 1
  <2>1. t.tree[j] = p /\ t.tree[i] = s.tree[i] /\ i \in 1 .. n /\ i <= k
    BY <1>2, <1>7, <1>8, <1>11
  <2> QED  BY <1>5, <2>1
<1>12. CASE j > k + 1
  <2>1. t.tree[j] = s.tree[j - 1] /\ j - 1 \in 1 .. n /\ ~(j - 1 <= k)
    BY <1>2, <1>7, <1>12
  <2>2. CASE i < k + 1
    <3>1. t.tree[i] = s.tree[i] /\ i \in 1 .. n /\ i < j - 1
      BY <1>2, <1>7, <1>12, <2>2
    <3> QED  BY <1>9, <2>1, <3>1
  <2>3. CASE i = k + 1
    <3>1. t.tree[i] = p
      BY <1>7, <2>3
    <3> QED  BY <1>5, <2>1, <3>1
  <2>4. CASE i > k + 1
    <3>1. t.tree[i] = s.tree[i - 1] /\ i - 1 \in 1 .. n /\ i - 1 < j - 1
      BY <1>2, <1>7, <1>8, <1>12, <2>4
    <3> QED  BY <1>9, <2>1, <3>1
  <2> QED  BY <1>2, <2>2, <2>3, <2>4
<1> QED  BY <1>2, <1>10, <1>11, <1>12

(* The leftmost process of a tree in order is the most unfairly treated     *)
(* one, and ctxt_switch gives the processor to it.                          *)
LEMMA SwitchOrder ==
  ASSUME NEW s \in SchedState, InOrder(s), s.tree # <<>>
  PROVE  /\ Leftmost(s) \in Pids
         /\ \A q \in Range(s.tree) : s.vruntime[Leftmost(s)] <= s.vruntime[q]
         /\ InOrder(CtxtSwitch(s))
         /\ CurrentLeast(CtxtSwitch(s))
<1> DEFINE t == CtxtSwitch(s)
           v == s.vruntime
           n == Len(s.tree)
<1>1. /\ s.tree \in Seq(Pids) /\ n \in Nat /\ n # 0
      /\ \A i \in 1 .. n : s.tree[i] \in Pids /\ v[s.tree[i]] \in Nat
      /\ \A q \in Range(s.tree) : \E i \in 1 .. n : q = s.tree[i]
  BY VruntimeInt, EmptySeq
<1>2. /\ Leftmost(s) = s.tree[1]
      /\ t.current = s.tree[1] /\ t.tree = Tail(s.tree) /\ t.vruntime = v
      /\ Len(t.tree) = n - 1
      /\ \A i \in 1 .. n - 1 : t.tree[i] = s.tree[i + 1]
      /\ DOMAIN t.tree = 1 .. n - 1
  BY <1>1, HeadTailProperties, LenProperties
     DEF CtxtSwitch, Leftmost, SchedState
<1> HIDE DEF t
<1>3. \A i, j \in 1 .. n : i < j => v[s.tree[i]] <= v[s.tree[j]]
  BY DEF InOrder
<1>4. \A i \in 1 .. n : v[s.tree[1]] <= v[s.tree[i]]
  <2> SUFFICES ASSUME NEW i \in 1 .. n PROVE v[s.tree[1]] <= v[s.tree[i]]
    OBVIOUS
  <2>1. 1 \in 1 .. n /\ (i = 1 \/ 1 < i)
    BY <1>1
  <2> QED  BY <1>1, <1>3, <2>1
<1>5. \A q \in Range(s.tree) : v[s.tree[1]] <= v[q]
  BY <1>1, <1>4
<1> HIDE DEF v, n
<1>6. InOrder(t)
  <2> SUFFICES ASSUME NEW i \in 1 .. n - 1, NEW j \in 1 .. n - 1, i < j
               PROVE  v[t.tree[i]] <= v[t.tree[j]]
    BY <1>2 DEF InOrder
  <2>1. i + 1 \in 1 .. n /\ j + 1 \in 1 .. n /\ i + 1 < j + 1
    BY <1>1
  <2> QED  BY <1>2, <1>3, <2>1
<1>7. CurrentLeast(t)
  <2> SUFFICES ASSUME NEW i \in 1 .. n - 1
               PROVE  v[s.tree[1]] <= v[t.tree[i]]
    BY <1>2 DEF CurrentLeast, Range
  <2>1. i + 1 \in 1 .. n
    BY <1>1
  <2> QED  BY <1>2, <1>4, <2>1
<1>8. Leftmost(s) \in Pids
  BY <1>1, <1>2 DEF n
<1> QED  BY <1>2, <1>5, <1>6, <1>7, <1>8 DEF t, v

(* After rq.current went back into the tree, too, the least process runs.   *)
LEMMA PreemptOrder ==
  ASSUME NoWrap, NEW s \in SchedState, Bounded(s), InOrder(s),
         NEW t \in Preempt(s)
  PROVE  InOrder(t) /\ CurrentLeast(t)
<1>1. s.current \in Pids /\ Len(s.tree) \in Nat
  BY VruntimeInt
<1>2. PICK u \in TreeInsert(s, s.current) : t = CtxtSwitch(u)
  BY DEF Preempt
<1>3. u \in SchedState /\ Len(u.tree) = Len(s.tree) + 1
  BY <1>1, TreeInsertEffect
<1>4. u.tree # <<>>
  BY <1>1, <1>3
<1>5. InOrder(u)
  BY <1>1, InsertOrder
<1> QED  BY <1>2, <1>3, <1>4, <1>5, SwitchOrder

(* sched_suspend of the running process charges nobody, and in a tree in    *)
(* order it lets the least process take over.                               *)
LEMMA SuspendOrder ==
  ASSUME NEW s \in SchedState, Counted(s), s.nr_running > 0
  PROVE  LET t == SchedSuspend(s, s.current)
         IN  /\ t.vruntime = s.vruntime
             /\ t.min_vruntime = s.min_vruntime
             /\ InOrder(s) => InOrder(t) /\ CurrentLeast(t)
<1> DEFINE t == SchedSuspend(s, s.current)
           u == IF s.nr_running > 1 THEN CtxtSwitch(s) ELSE s
<1>1. /\ s.nr_running \in Nat /\ Len(s.tree) + 1 = s.nr_running
      /\ Len(s.tree) \in Nat /\ s.tree \in Seq(Pids)
  BY VruntimeInt DEF SchedState, Counted
<1>2. /\ u \in SchedState
      /\ u.vruntime = s.vruntime /\ u.min_vruntime = s.min_vruntime
      /\ InOrder(s) => InOrder(u) /\ CurrentLeast(u)
  <2>1. CASE s.nr_running > 1
    <3>1. s.tree # <<>>
      BY <1>1, <2>1
    <3>2. CtxtSwitch(s) \in SchedState /\ SameAccounts(s, CtxtSwitch(s))
      BY <1>1, <3>1, CtxtSwitchEffect
    <3> QED  BY <2>1, <3>1, <3>2, SwitchOrder DEF SameAccounts
  <2>2. CASE ~(s.nr_running > 1)
    <3>1. Len(s.tree) = 0
      BY <1>1, <2>2
    <3>2. s.tree = <<>>
      BY <1>1, <3>1, EmptySeq
    <3>3. \A q \in Range(s.tree) : FALSE
      BY <3>2 DEF Range
    <3> QED  BY <2>2, <3>3 DEF CurrentLeast
  <2> QED  BY <2>1, <2>2
<1>3. t = [u EXCEPT !.nr_running = @ - 1]
  BY DEF SchedSuspend
<1> HIDE DEF u
<1>4. /\ t.tree = u.tree /\ t.current = u.current /\ t.vruntime = u.vruntime
      /\ t.min_vruntime = u.min_vruntime
  BY <1>2, <1>3 DEF SchedState
<1> HIDE DEF t
<1>5. InOrder(s) => InOrder(t) /\ CurrentLeast(t)
  BY <1>2, <1>4 DEF InOrder, CurrentLeast
<1> QED  BY <1>2, <1>4, <1>5 DEF t

(* sched_resume brings a process to no less than it had been charged and    *)
(* than the floor.  One that was not runnable is put into the order, and    *)
(* the least process runs afterwards.                                       *)
LEMMA ResumeOrder ==
  ASSUME NoWrap, NEW s \in SchedState, Counted(s), Bounded(s),
         NEW p \in Pids, NEW t \in SchedResume(s, p)
  PROVE  /\ Bounded(t)
         /\ t.vruntime[p] >= s.vruntime[p]
         /\ \A q \in Pids \ {p} : t.vruntime[q] = s.vruntime[q]
         /\ NearMin(s) => NearMin(t)
         /\ InOrder(s) /\ p \notin Runnable(s) => InOrder(t) /\ CurrentLeast(t)
<1> DEFINE x == WakeupVruntime(s, p)
           w == [s EXCEPT !.vruntime[p] = x]
           n == s.nr_running
<1>1. /\ x \in UInt /\ x \in Nat /\ x <= MaxVruntime
      /\ x >= s.vruntime[p] /\ x + SCHED_LATENCY >= s.min_vruntime
  <2>1. x \in UInt
    BY WakeupVruntimeType
  <2>2. s.vruntime[p] \in Nat /\ s.min_vruntime \in Nat
    BY VruntimeInt
  <2>3. x \in Nat /\ x <= MaxVruntime /\ x >= s.vruntime[p]
        /\ x + SCHED_LATENCY >= s.min_vruntime
    BY <2>2, SchedAssumption DEF Bounded, WakeupVruntime, WakeupFloor, MaxOf
  <2> QED  BY <2>1, <2>3
<1> HIDE DEF x
<1>2. /\ n \in Nat /\ Len(s.tree) \in Nat /\ s.current \in Pids
      /\ p \notin Runnable(s) => p \notin Range(s.tree)
  <2>1. n = 0 => s.tree = <<>>
    BY DEF Counted
  <2>2. s.tree = <<>> => \A q \in Range(s.tree) : FALSE
    BY DEF Range
  <2> QED  BY <2>1, <2>2, VruntimeInt DEF Runnable, SchedState
<1>3. /\ w \in SchedState /\ w.tree = s.tree /\ w.current = s.current
      /\ w.nr_running = n /\ w.min_vruntime = s.min_vruntime
      /\ w.vruntime[p] = x
      /\ \A q \in Pids \ {p} : w.vruntime[q] = s.vruntime[q]
  BY <1>1 DEF SchedState
<1>4. InOrder(s) /\ p \notin Runnable(s) => InOrder(w)
  BY <1>1, <1>2, AccountOrder
<1>5. /\ Bounded(w)
      /\ NearMin(s) => \A q \in Runnable(s) \cup {p} :
                         w.vruntime[q] + SCHED_LATENCY >= s.min_vruntime
  <2>1. Bounded(w)
    BY <1>1, <1>3 DEF Bounded
  <2>2. Runnable(s) \subseteq Pids
    BY ElectedIsRunnable
  <2> QED  BY <1>1, <1>3, <2>1, <2>2 DEF NearMin
<1>6. Runnable(t) = Runnable(s) \cup {p}
  BY ResumeEffect
<1>7. CASE n = 0
  <2>1. t = [w EXCEPT !.min_vruntime = w.vruntime[p],
                      !.current = p, !.nr_running = 1]
    BY <1>7 DEF SchedResume, x
  <2> HIDE DEF w
  <2>2. /\ t.vruntime = w.vruntime /\ t.current = p /\ t.nr_running = 1
        /\ t.min_vruntime = x /\ t.tree = <<>>
    BY <1>3, <1>7, <2>1 DEF SchedState, Counted
  <2>3. \A q \in Range(t.tree) : FALSE
    BY <2>2 DEF Range
  <2>4. Runnable(t) = {p}
    BY <2>2, <2>3 DEF Runnable
  <2>5. InOrder(t) /\ CurrentLeast(t)
    BY <2>2, <2>3 DEF InOrder, CurrentLeast
  <2>6. Bounded(t) /\ NearMin(t)
    BY <1>1, <1>3, <1>5, <2>2, <2>4, SchedAssumption DEF Bounded, NearMin
  <2> QED  BY <1>1, <1>3, <2>2, <2>5, <2>6
<1>8. CASE n > 0 /\ p = s.current
  <2>1. t = w
    BY <1>8 DEF SchedResume, x
  <2>2. p \in Runnable(s)
    BY <1>8 DEF Runnable
  <2> HIDE DEF w
  <2>3. NearMin(s) => NearMin(t)
    BY <1>3, <1>5, <1>6, <2>1 DEF NearMin
  <2> QED  BY <1>1, <1>3, <1>5, <2>1, <2>2, <2>3
<1>9. CASE n > 0 /\ p # s.current
  <2>1. Len(s.tree) + 1 = n
    BY <1>9 DEF Counted
  <2>2. PICK u \in TreeInsert(w, p) :
          \E v \in IF Ahead(u, u.current, Leftmost(u)) THEN Preempt(u) ELSE {u} :
            t = [v EXCEPT !.nr_running = @ + 1]
    BY <1>9 DEF SchedResume, x
  <2> HIDE DEF w
  <2>3. /\ u \in SchedState /\ Len(u.tree) = n /\ u.current = s.current
        /\ SameAccounts(w, u)
        /\ InOrder(s) /\ p \notin Runnable(s) => InOrder(u)
    <3>1. /\ u \in SchedState
          /\ Len(u.tree) = Len(w.tree) + 1
          /\ u.current = w.current
          /\ SameAccounts(w, u)
      BY <1>3, TreeInsertEffect
    <3>2. InOrder(w) => InOrder(u)
      BY <1>3, <1>5, InsertOrder
    <3> QED  BY <1>3, <1>4, <2>1, <3>1, <3>2
  <2>4. Bounded(u) /\ u.tree # <<>>
    BY <1>5, <1>9, <2>3 DEF SameAccounts, Bounded
  <2>5. PICK v : /\ v \in IF Ahead(u, u.current, Leftmost(u))
                            THEN Preempt(u) ELSE {u}
                 /\ t = [v EXCEPT !.nr_running = @ + 1]
    BY <2>2
  <2>6. /\ v \in SchedState /\ SameAccounts(w, v)
        /\ InOrder(u) => InOrder(v) /\ CurrentLeast(v)
    <3>1. CASE Ahead(u, u.current, Leftmost(u))
      <4>1. v \in Preempt(u)
        BY <2>5, <3>1
      <4>2. v \in SchedState /\ SameAccounts(u, v)
        BY <2>3, <4>1, PreemptEffect
      <4>3. InOrder(u) => InOrder(v) /\ CurrentLeast(v)
        BY <2>3, <2>4, <4>1, PreemptOrder
      <4> QED  BY <2>3, <4>2, <4>3 DEF SameAccounts
    <3>2. CASE ~Ahead(u, u.current, Leftmost(u))
      <4>1. v = u
        BY <2>5, <3>2
      <4>2. ASSUME InOrder(u)
            PROVE  CurrentLeast(u)
        <5>1. /\ Leftmost(u) \in Pids
              /\ \A q \in Range(u.tree) :
                   u.vruntime[Leftmost(u)] <= u.vruntime[q]
          BY <2>3, <2>4, <4>2, SwitchOrder
        <5>2. ~(u.vruntime[u.current] > u.vruntime[Leftmost(u)])
          BY <1>2, <2>3, <2>4, <3>2, <5>1, AheadIsGreater
        <5>3. /\ u.vruntime[u.current] \in Nat
              /\ u.vruntime[Leftmost(u)] \in Nat
              /\ \A q \in Range(u.tree) : u.vruntime[q] \in Nat
          BY <2>3, <5>1, VruntimeInt
        <5> QED  BY <5>1, <5>2, <5>3 DEF CurrentLeast
      <4> QED  BY <2>3, <4>1, <4>2
    <3> QED  BY <3>1, <3>2
  <2>7. /\ t.tree = v.tree /\ t.current = v.current
        /\ t.vruntime = w.vruntime /\ t.min_vruntime = s.min_vruntime
        /\ v.vruntime = w.vruntime
    BY <1>3, <2>5, <2>6 DEF SchedState, SameAccounts
  <2>8. InOrder(s) /\ p \notin Runnable(s) => InOrder(t) /\ CurrentLeast(t)
    BY <2>3, <2>6, <2>7 DEF InOrder, CurrentLeast
  <2>9. Bounded(t)
    BY <1>3, <1>5, <2>7 DEF Bounded
  <2>10. NearMin(s) => NearMin(t)
    BY <1>5, <1>6, <2>7 DEF NearMin
  <2> QED  BY <1>1, <1>3, <2>7, <2>8, <2>9, <2>10
<1> QED  BY <1>2, <1>7, <1>8, <1>9

-----------------------------------------------------------------------------
(***************************************************************************)
(* The inductive invariant about virtual runtimes.  The second conjunct is  *)
(* needed because FK resets the account of the process it starts.  What     *)
(* depends on the order of the tree is said up to the first resume of a     *)
(* process that is not asleep.                                              *)
(***************************************************************************)
InSlice ==
  phase # "done" =>
    \A q \in Range(sched.tree) :
      sched.vruntime[sched.current] <= sched.vruntime[q] + slice

Orderly ==
  /\ InOrder(sched)
  /\ NearMin(sched)
  /\ InSlice

VruntimeInv ==
  /\ Bounded(sched)
  /\ \A p \in Pids : p >= next_pid => sched.vruntime[p] = 0
  /\ ~stray => Orderly

(* What a step does to the accounts.                                        *)
AccountsEffect ==
  /\ Bounded(sched')
  /\ next_pid' >= next_pid
  /\ \A p \in Pids :
       /\ p >= next_pid' => sched'.vruntime[p] = sched.vruntime[p]
       /\ p \notin halted' => sched'.vruntime[p] >= sched.vruntime[p]
  /\ ~stray' => Orderly'

(* What the invariant says about the numbers and the sets of a state.       *)
LEMMA StateFacts ==
  ASSUME SchedInv
  PROVE  /\ sched \in SchedState /\ Counted(sched)
         /\ slice \in Nat /\ next_pid \in Nat /\ Pids \subseteq Nat
         /\ sched.nr_running \in Nat /\ sched.current \in Pids
         /\ Runnable(sched) \subseteq Pids
         /\ \A p \in Runnable(sched) : p < next_pid
         /\ \A p \in Pids : sched.vruntime[p] \in Nat
         /\ sched.nr_running > 0 =>
              /\ sched.current \in Runnable(sched)
              /\ ~stray => sched.current \notin Range(sched.tree)
         /\ Range(sched.tree) \subseteq Runnable(sched)
<1>1. /\ sched \in SchedState /\ Counted(sched)
      /\ ~stray => NobodyTwice(sched)
      /\ Runnable(sched) \subseteq Allocated
  BY DEF SchedInv, SchedTypeOK, RunQueueOK
<1>2. slice \in Nat /\ next_pid \in Nat /\ Pids \subseteq Nat
  BY SchedAssumption DEF SchedInv, SchedTypeOK, Pids
<1>3. sched.nr_running \in Nat /\ sched.current \in Pids
  BY <1>1 DEF SchedState
<1>4. \A p \in Pids : sched.vruntime[p] \in Nat
  BY <1>1, VruntimeInt
<1>5. Range(sched.tree) \subseteq Runnable(sched)
  <2>1. sched.nr_running = 0 => \A q \in Range(sched.tree) : FALSE
    BY <1>1 DEF Counted, Range
  <2> QED  BY <2>1 DEF Runnable
<1>6. sched.nr_running > 0 =>
        /\ sched.current \in Runnable(sched)
        /\ ~stray => sched.current \notin Range(sched.tree)
  BY <1>1, <1>3 DEF NobodyTwice, Runnable
<1> QED  BY <1>1, <1>2, <1>3, <1>4, <1>5, <1>6 DEF Allocated

(* The charge of sched_run adds one to the account of the running process,  *)
(* which is in no node of the tree as long as only sleepers are resumed.    *)
LEMMA ChargedOrder ==
  ASSUME NoWrap, SchedInv, VruntimeInv, CanTick
  PROVE  /\ Charged \in SchedState /\ Counted(Charged)
         /\ Charged.current = sched.current
         /\ Charged.tree = sched.tree
         /\ Charged.nr_running = sched.nr_running
         /\ Runnable(Charged) = Runnable(sched)
         /\ Bounded(Charged)
         /\ Charged.vruntime[sched.current] = sched.vruntime[sched.current] + 1
         /\ \A q \in Pids \ {sched.current} :
              Charged.vruntime[q] = sched.vruntime[q]
         /\ ~stray => /\ NobodyTwice(Charged)
                      /\ InOrder(Charged) /\ NearMin(Charged)
<1> DEFINE a == sched.vruntime[sched.current]
           t == [sched EXCEPT !.vruntime[sched.current] = a + 1]
<1>1. /\ sched.nr_running > 0 /\ a < MaxVruntime /\ a \in Nat
      /\ sched.current \in Pids /\ sched \in SchedState
      /\ ~stray => sched.current \notin Range(sched.tree)
  BY StateFacts DEF CanTick
<1>2. UInc(a) = a + 1 /\ a + 1 \in UInt /\ a + 1 <= MaxVruntime
  BY <1>1, SchedAssumption DEF NoWrap, UInc, UInt, UINT_RANGE
<1>3. Charged = t
  BY <1>2 DEF Charged
<1> HIDE DEF a
<1>4. /\ t.tree = sched.tree
      /\ t.min_vruntime = sched.min_vruntime
      /\ t.vruntime[sched.current] = a + 1
      /\ \A q \in Pids \ {sched.current} : t.vruntime[q] = sched.vruntime[q]
  BY <1>1, <1>2 DEF SchedState
<1>5. ~stray => InOrder(t)
  BY <1>1, <1>2, AccountOrder DEF VruntimeInv, Orderly
<1>6. /\ t \in SchedState /\ Counted(t) /\ t.current = sched.current
      /\ t.nr_running = sched.nr_running /\ Runnable(t) = Runnable(sched)
      /\ ~stray => NobodyTwice(t)
  BY <1>3, ChargedEffect DEF SchedInv
<1> HIDE DEF t
<1>7. Bounded(t)
  BY <1>1, <1>2, <1>4 DEF Bounded, VruntimeInv
<1>8. ~stray => NearMin(t)
  <2> SUFFICES ASSUME ~stray, NEW q \in Runnable(sched)
               PROVE  t.vruntime[q] + SCHED_LATENCY >= sched.min_vruntime
    BY <1>4, <1>6 DEF NearMin
  <2>1. /\ q \in Pids /\ sched.vruntime[q] \in Nat
        /\ sched.vruntime[q] + SCHED_LATENCY >= sched.min_vruntime
    BY StateFacts DEF VruntimeInv, Orderly, NearMin
  <2>2. sched.min_vruntime \in Nat /\ SCHED_LATENCY \in Nat
    BY <1>1, VruntimeInt, SchedAssumption
  <2>3. t.vruntime[q] = sched.vruntime[q] \/ t.vruntime[q] = sched.vruntime[q] + 1
    BY <1>4, <2>1 DEF a
  <2> QED  BY <2>1, <2>2, <2>3
<1> QED  BY <1>3, <1>4, <1>5, <1>6, <1>7, <1>8 DEF a

(* Where the least process runs, it is not ahead of anybody by more than    *)
(* the operations of the slice.                                             *)
LEMMA LeastInSlice ==
  ASSUME sched' \in SchedState, slice' \in Nat, CurrentLeast(sched')
  PROVE  InSlice'
<1>1. /\ \A p \in Pids : sched'.vruntime[p] \in Nat
      /\ sched'.current \in Pids
      /\ \A q \in Range(sched'.tree) : q \in Pids
  BY VruntimeInt
<1> QED  BY <1>1 DEF InSlice, CurrentLeast

(* So after an operation that has left the least process running.           *)
LEMMA LeastIsOrderly ==
  ASSUME SchedInv', InOrder(sched'), CurrentLeast(sched'), NearMin(sched')
  PROVE  Orderly'
<1>1. sched' \in SchedState /\ slice' \in Nat
  BY SchedAssumption DEF SchedInv, SchedTypeOK
<1>2. InSlice'
  BY <1>1, LeastInSlice
<1> QED  BY <1>2 DEF Orderly

(* load_file and FK: the new process begins at the floor.                   *)
LEMMA StartAccounts ==
  ASSUME NoWrap, SchedInv, VruntimeInv, SchedInv', LoadProcess \/ OpFork
  PROVE  AccountsEffect
<1>1. PICK s \in SchedState :
        /\ Counted(s) /\ Runnable(s) = Runnable(sched)
        /\ Bounded(s) /\ StartProcess(s)
        /\ s.tree = sched.tree
        /\ \A p \in Pids : s.vruntime[p] >= sched.vruntime[p]
        /\ \A p \in Pids : p >= next_pid => s.vruntime[p] = 0
        /\ ~stray => InOrder(s) /\ NearMin(s)
  <2>1. CASE LoadProcess
    BY <2>1, StateFacts DEF LoadProcess, VruntimeInv, Orderly
  <2>2. CASE OpFork
    <3>1. CanTick /\ StartProcess(Charged) /\ sched.nr_running > 0
      BY <2>2 DEF OpFork, TickNext, CanTick
    <3>2. sched.current < next_pid /\ sched.current \in Pids
      BY <3>1, StateFacts
    <3>3. \A p \in Pids : Charged.vruntime[p] >= sched.vruntime[p]
      BY <3>1, StateFacts, ChargedOrder
    <3>4. \A p \in Pids : p >= next_pid => Charged.vruntime[p] = 0
      <4>1. \A p \in Pids : p >= next_pid => p # sched.current
        BY <3>2, StateFacts
      <4> QED  BY <3>1, <4>1, ChargedOrder DEF VruntimeInv
    <3> QED  BY <3>1, <3>3, <3>4, ChargedOrder
  <2> QED  BY <2>1, <2>2
<1> DEFINE r == [s EXCEPT !.vruntime[next_pid] = 0]
<1>2. /\ next_pid \in Pids /\ next_pid' = next_pid + 1
      /\ next_pid \notin Runnable(s) /\ halted' = halted /\ stray' = stray
      /\ sched' \in SchedResume(r, next_pid)
  BY <1>1, StateFacts, SchedAssumption DEF StartProcess, SchedReset, Pids
<1>3. next_pid \notin Range(s.tree)
  BY <1>1, <1>2, StateFacts
<1>4. /\ r \in SchedState /\ Counted(r) /\ Runnable(r) = Runnable(s)
      /\ r.min_vruntime = s.min_vruntime
      /\ \A p \in Pids : r.vruntime[p] = s.vruntime[p]
      /\ ~stray => InOrder(r)
  <2>1. 0 \in UInt
    BY UIntClosed
  <2>2. r \in SchedState /\ Counted(r) /\ Runnable(r) = Runnable(s)
    BY <1>1, <2>1, AccountUpdate
  <2>3. /\ r.min_vruntime = s.min_vruntime
        /\ r.vruntime[next_pid] = 0
        /\ \A p \in Pids \ {next_pid} : r.vruntime[p] = s.vruntime[p]
    BY <1>2 DEF SchedState
  <2>4. ~stray => InOrder(r)
    BY <1>1, <1>2, <1>3, <2>1, AccountOrder
  <2>5. s.vruntime[next_pid] = 0
    BY <1>1, <1>2, StateFacts
  <2> HIDE DEF r
  <2> QED  BY <2>2, <2>3, <2>4, <2>5
<1> HIDE DEF r
<1>5. Bounded(r) /\ (~stray => NearMin(r))
  <2>1. \A p \in Runnable(s) : p \in Pids
    BY <1>1, StateFacts
  <2> QED  BY <1>1, <1>4, <2>1 DEF Bounded, NearMin
<1>6. /\ Bounded(sched')
      /\ sched'.vruntime[next_pid] >= r.vruntime[next_pid]
      /\ \A q \in Pids \ {next_pid} : sched'.vruntime[q] = r.vruntime[q]
      /\ ~stray => /\ InOrder(sched') /\ CurrentLeast(sched')
                   /\ NearMin(sched')
  BY <1>2, <1>4, <1>5, ResumeOrder
<1>7. ~stray' => Orderly'
  BY <1>2, <1>6, LeastIsOrderly
<1>8. \A p \in Pids : /\ sched'.vruntime[p] >= s.vruntime[p]
                      /\ p # next_pid => sched'.vruntime[p] = s.vruntime[p]
  BY <1>4, <1>6, <1>1, VruntimeInt
<1>9. \A p \in Pids : p >= next_pid + 1 => p # next_pid /\ p >= next_pid
  BY StateFacts
<1>10. ASSUME NEW p \in Pids
       PROVE  /\ p >= next_pid' => sched'.vruntime[p] = sched.vruntime[p]
              /\ sched'.vruntime[p] >= sched.vruntime[p]
  <2>1. p >= next_pid' => sched'.vruntime[p] = sched.vruntime[p]
    BY <1>1, <1>2, <1>8, <1>9 DEF VruntimeInv
  <2>2. /\ sched'.vruntime[p] \in Nat /\ s.vruntime[p] \in Nat
        /\ sched.vruntime[p] \in Nat
    BY <1>1, VruntimeInt, StateFacts DEF SchedInv, SchedTypeOK
  <2>3. sched'.vruntime[p] >= s.vruntime[p] /\ s.vruntime[p] >= sched.vruntime[p]
    BY <1>1, <1>8
  <2> QED  BY <2>1, <2>2, <2>3
<1>11. next_pid' >= next_pid
  BY <1>2, StateFacts
<1> QED  BY <1>6, <1>7, <1>10, <1>11 DEF AccountsEffect

(* When an operation changes the accounts of a charged state only for the   *)
(* processes in P, and none of those decreases but one that halts, nobody's *)
(* charge is taken back.                                                    *)
LEMMA OperationAccounts ==
  ASSUME NoWrap, SchedInv, VruntimeInv, SchedInv', CanTick,
         NEW P \in SUBSET Pids,
         \A p \in P : p < next_pid,
         \A p \in P : p \in halted' \/ sched'.vruntime[p] >= Charged.vruntime[p],
         \A p \in Pids \ P : sched'.vruntime[p] = Charged.vruntime[p],
         Bounded(sched'), next_pid' = next_pid,
         ~stray' => Orderly'
  PROVE  AccountsEffect
<1>1. sched.current \in Pids /\ sched.current < next_pid /\ next_pid \in Nat
      /\ Pids \subseteq Nat
  BY StateFacts DEF CanTick
<1>2. ASSUME NEW p \in Pids
      PROVE  /\ p >= next_pid' => sched'.vruntime[p] = sched.vruntime[p]
             /\ p \notin halted' => sched'.vruntime[p] >= sched.vruntime[p]
  <2>1. /\ Charged.vruntime[sched.current] = sched.vruntime[sched.current] + 1
        /\ p # sched.current => Charged.vruntime[p] = sched.vruntime[p]
    BY ChargedOrder
  <2>2. /\ sched'.vruntime[p] \in Nat /\ sched.vruntime[p] \in Nat
    BY VruntimeInt, StateFacts DEF SchedInv, SchedTypeOK
  <2>3. Charged.vruntime[p] \in Nat /\ Charged.vruntime[p] >= sched.vruntime[p]
    BY <2>1, <2>2
  <2>4. p \notin halted' => sched'.vruntime[p] >= Charged.vruntime[p]
    BY <2>3
  <2>5. p >= next_pid => p # sched.current /\ p \notin P
    BY <1>1
  <2> QED  BY <2>1, <2>2, <2>3, <2>4, <2>5
<1> QED  BY <1>1, <1>2 DEF AccountsEffect

(* An instruction that does not call the scheduler, or fails: the running   *)
(* process is ahead by one more, and the slice has got one operation less.  *)
LEMMA PlainAccounts ==
  ASSUME NoWrap, SchedInv, VruntimeInv, SchedInv', OpPlain \/ OpError
  PROVE  AccountsEffect
<1>1. CanTick /\ sched' = Charged /\ next_pid' = next_pid /\ stray' = stray
  BY DEF OpPlain, OpError, TickNext
<1>2. ASSUME ~stray
      PROVE  InSlice'
  <2>1. CASE OpError
    BY <2>1 DEF OpError, InSlice
  <2>2. CASE OpPlain
    <3>1. slice' = slice + 1 /\ phase = "run"
      BY <2>2 DEF OpPlain, TickNext, CanTick
    <3>2. /\ sched'.tree = sched.tree /\ sched'.current = sched.current
          /\ sched'.vruntime[sched.current] = sched.vruntime[sched.current] + 1
          /\ \A q \in Pids \ {sched.current} :
               sched'.vruntime[q] = sched.vruntime[q]
      BY <1>1, ChargedOrder
    <3>3. \A q \in Range(sched.tree) :
            sched.vruntime[sched.current] <= sched.vruntime[q] + slice
      BY <1>2, <3>1 DEF VruntimeInv, Orderly, InSlice
    <3>4. SUFFICES ASSUME NEW q \in Range(sched.tree)
                   PROVE  sched'.vruntime[sched.current]
                            <= sched'.vruntime[q] + slice'
      BY <3>2 DEF InSlice
    <3>5. /\ q \in Pids /\ q # sched.current /\ slice \in Nat
          /\ sched.vruntime[q] \in Nat /\ sched.vruntime[sched.current] \in Nat
      BY <1>1, <1>2, StateFacts DEF CanTick
    <3>6. sched.vruntime[sched.current] <= sched.vruntime[q] + slice
      BY <3>3
    <3> QED  BY <3>1, <3>2, <3>5, <3>6
  <2> QED  BY <2>1, <2>2
<1>3. Bounded(sched') /\ (~stray => InOrder(sched') /\ NearMin(sched'))
  BY <1>1, ChargedOrder
<1>4. ~stray' => Orderly'
  BY <1>1, <1>2, <1>3 DEF Orderly
<1> QED  BY <1>1, <1>3, <1>4, OperationAccounts, {} \in SUBSET Pids

(* RC, PE and HA: the least process takes over.                             *)
LEMMA BlockAccounts ==
  ASSUME NoWrap, SchedInv, VruntimeInv, SchedInv', OpBlock \/ OpHalt
  PROVE  AccountsEffect
<1> DEFINE x == sched.current
<1>1. /\ CanTick /\ next_pid' = next_pid /\ sched.nr_running > 0
      /\ x \in Pids /\ x < next_pid /\ stray' = stray
      /\ ~stray => x \notin Range(sched.tree)
  BY StateFacts DEF OpBlock, OpHalt, TickNext, CanTick
<1>2. PICK s \in SchedState :
        /\ Counted(s) /\ s.nr_running > 0 /\ s.current = x
        /\ Runnable(s) = Runnable(sched)
        /\ s.min_vruntime = Charged.min_vruntime
        /\ \A p \in Pids \ {x} : s.vruntime[p] = Charged.vruntime[p]
        /\ x \in halted' \/ s.vruntime[x] = Charged.vruntime[x]
        /\ s.vruntime[x] <= Charged.vruntime[x]
        /\ sched' = SchedSuspend(s, s.current)
        /\ ~stray => NobodyTwice(s) /\ InOrder(s)
  <2>1. /\ Charged \in SchedState /\ Counted(Charged)
        /\ Charged.nr_running > 0 /\ Charged.current = x
        /\ Runnable(Charged) = Runnable(sched) /\ Charged.tree = sched.tree
        /\ ~stray => NobodyTwice(Charged) /\ InOrder(Charged)
    BY <1>1, ChargedOrder
  <2>2. Charged.vruntime[x] \in Nat
    BY <1>1, <2>1, VruntimeInt
  <2>3. CASE OpBlock
    BY <2>1, <2>2, <2>3 DEF OpBlock
  <2>4. CASE OpHalt
    <3> DEFINE s == SchedReset(Charged, x)
    <3>1. 0 \in UInt
      BY UIntClosed
    <3>2. /\ s \in SchedState /\ Counted(s) /\ Runnable(s) = Runnable(sched)
          /\ s.nr_running = Charged.nr_running /\ s.current = x
          /\ ~stray => NobodyTwice(s)
      BY <2>1, ResetEffect
    <3>3. /\ s.min_vruntime = Charged.min_vruntime
          /\ s.vruntime[x] = 0
          /\ \A p \in Pids \ {x} : s.vruntime[p] = Charged.vruntime[p]
      BY <1>1, <2>1 DEF SchedReset, SchedState
    <3>4. ~stray => InOrder(s)
      BY <1>1, <2>1, <3>1, AccountOrder DEF SchedReset
    <3>5. sched' = SchedSuspend(s, x) /\ x \in halted'
      BY <2>4 DEF OpHalt
    <3> HIDE DEF s
    <3> QED  BY <2>1, <2>2, <3>2, <3>3, <3>4, <3>5
  <2> QED  BY <2>3, <2>4
<1>3. /\ sched'.vruntime = s.vruntime
      /\ sched'.min_vruntime = s.min_vruntime
      /\ ~stray => /\ InOrder(sched') /\ CurrentLeast(sched')
                   /\ Runnable(sched') = Runnable(sched) \ {x}
  BY <1>2, SuspendOrder, SuspendEffect
<1>4. /\ Bounded(Charged) /\ Charged \in SchedState
      /\ Runnable(Charged) = Runnable(sched)
      /\ ~stray => NearMin(Charged)
  BY <1>1, ChargedOrder
<1>5. Bounded(sched')
  <2>1. /\ sched'.min_vruntime = Charged.min_vruntime
        /\ \A p \in Pids \ {x} : sched'.vruntime[p] = Charged.vruntime[p]
        /\ sched'.vruntime[x] <= Charged.vruntime[x]
    BY <1>2, <1>3
  <2>2. \A p \in Pids : sched'.vruntime[p] \in Nat /\ Charged.vruntime[p] \in Nat
    BY <1>4, VruntimeInt DEF SchedInv, SchedTypeOK
  <2>3. \A p \in Pids : sched'.vruntime[p] <= Charged.vruntime[p]
    BY <2>1, <2>2
  <2>4. /\ MaxVruntime \in Nat
        /\ Charged.min_vruntime <= MaxVruntime
        /\ \A p \in Pids : Charged.vruntime[p] <= MaxVruntime
    BY <1>4, SchedAssumption DEF Bounded
  <2> QED  BY <2>1, <2>2, <2>3, <2>4 DEF Bounded
<1>6. ~stray => NearMin(sched')
  <2>1. \A q \in Runnable(sched) \ {x} : q \in Pids \ {x}
    BY StateFacts
  <2>2. /\ sched'.min_vruntime = Charged.min_vruntime
        /\ \A p \in Pids \ {x} : sched'.vruntime[p] = Charged.vruntime[p]
    BY <1>2, <1>3
  <2> QED  BY <1>3, <1>4, <2>1, <2>2 DEF NearMin
<1>7. ~stray' => Orderly'
  BY <1>1, <1>3, <1>6, LeastIsOrderly
<1>8. sched'.vruntime[x] \in Nat /\ Charged.vruntime[x] \in Nat
  BY <1>1, <1>4, VruntimeInt DEF SchedInv, SchedTypeOK
<1>9. x \in halted' \/ sched'.vruntime[x] >= Charged.vruntime[x]
  BY <1>2, <1>3, <1>8
<1>10. \A p \in Pids \ {x} : sched'.vruntime[p] = Charged.vruntime[p]
  BY <1>2, <1>3
<1> HIDE DEF x
<1>11. {x} \in SUBSET Pids /\ \A p \in {x} : p < next_pid
  BY <1>1
<1>12. \A p \in {x} : p \in halted' \/ sched'.vruntime[p] >= Charged.vruntime[p]
  BY <1>9
<1> QED
  BY <1>1, <1>5, <1>7, <1>10, <1>11, <1>12, OperationAccounts

(* VE, RC and SD: the process that is resumed begins at the floor or where  *)
(* it was; if it slept, the least process runs afterwards.                  *)
LEMMA WakeAccounts ==
  ASSUME NoWrap, SchedInv, VruntimeInv, SchedInv',
         NEW q \in Pids, OpWake(q) \/ OpBlockAndWake(q)
  PROVE  AccountsEffect
<1>1. /\ CanTick /\ next_pid' = next_pid /\ sched.nr_running > 0
      /\ q < next_pid
      /\ ~stray' => ~stray /\ q \notin Runnable(sched)
  BY DEF OpWake, OpBlockAndWake, TickNext, CanTick, Resumed, Asleep, Allocated
<1>2. /\ Charged \in SchedState /\ Counted(Charged) /\ Bounded(Charged)
      /\ Charged.nr_running > 0 /\ Charged.current = sched.current
      /\ Runnable(Charged) = Runnable(sched)
      /\ ~stray => InOrder(Charged) /\ NearMin(Charged)
  BY <1>1, ChargedOrder
<1>3. PICK s \in SchedState :
        /\ Counted(s) /\ Bounded(s)
        /\ Runnable(s) \subseteq Runnable(sched)
        /\ s.vruntime = Charged.vruntime
        /\ sched' \in SchedResume(s, q)
        /\ ~stray => InOrder(s) /\ NearMin(s)
  <2>1. CASE OpWake(q)
    BY <1>1, <1>2, <2>1 DEF OpWake
  <2>2. CASE OpBlockAndWake(q)
    <3> DEFINE b == SchedSuspend(Charged, Charged.current)
    <3>1. /\ b \in SchedState /\ Counted(b)
          /\ Runnable(b) \in {Runnable(Charged), Runnable(Charged) \ {Charged.current}}
      BY <1>2, SuspendEffect
    <3>2. /\ b.vruntime = Charged.vruntime
          /\ b.min_vruntime = Charged.min_vruntime
          /\ ~stray => InOrder(b)
      BY <1>2, SuspendOrder
    <3>3. sched' \in SchedResume(b, q)
      BY <1>2, <2>2 DEF OpBlockAndWake
    <3> HIDE DEF b
    <3>4. Bounded(b) /\ Runnable(b) \subseteq Runnable(sched)
      BY <1>2, <3>1, <3>2 DEF Bounded
    <3>5. ~stray => NearMin(b)
      BY <1>2, <3>2, <3>4 DEF NearMin
    <3> QED  BY <3>1, <3>2, <3>3, <3>4, <3>5
  <2> QED  BY <2>1, <2>2
<1>4. /\ Bounded(sched')
      /\ sched'.vruntime[q] >= Charged.vruntime[q]
      /\ \A p \in Pids \ {q} : sched'.vruntime[p] = Charged.vruntime[p]
      /\ ~stray' => /\ InOrder(sched') /\ CurrentLeast(sched')
                    /\ NearMin(sched')
  <2>1. ~stray' => q \notin Runnable(s) /\ InOrder(s) /\ NearMin(s)
    BY <1>1, <1>3
  <2>2. /\ Bounded(sched')
        /\ sched'.vruntime[q] >= s.vruntime[q]
        /\ \A p \in Pids \ {q} : sched'.vruntime[p] = s.vruntime[p]
        /\ NearMin(s) => NearMin(sched')
        /\ InOrder(s) /\ q \notin Runnable(s) =>
             InOrder(sched') /\ CurrentLeast(sched')
    BY <1>3, ResumeOrder
  <2> QED  BY <1>3, <2>1, <2>2
<1>5. ~stray' => Orderly'
  BY <1>4, LeastIsOrderly
<1>6. {q} \in SUBSET Pids /\ \A p \in {q} : p < next_pid
  BY <1>1
<1>7. \A p \in {q} : p \in halted' \/ sched'.vruntime[p] >= Charged.vruntime[p]
  BY <1>4
<1> QED  BY <1>1, <1>4, <1>5, <1>6, <1>7, OperationAccounts

(* A step that charges nobody and changes no pid keeps the accounts.        *)
LEMMA SameAccountsEffect ==
  ASSUME SchedInv, VruntimeInv, sched'.vruntime = sched.vruntime,
         next_pid' = next_pid, Bounded(sched'), ~stray' => Orderly'
  PROVE  AccountsEffect
<1>1. next_pid \in Nat /\ \A p \in Pids : sched'.vruntime[p] >= sched.vruntime[p]
  BY StateFacts
<1> QED  BY <1>1 DEF AccountsEffect

(* A new slice begins only with the least process running.                  *)
LEMMA NextSliceAccounts ==
  ASSUME NoWrap, SchedInv, VruntimeInv, NextSlice
  PROVE  AccountsEffect
<1>1. /\ sched' = sched /\ next_pid' = next_pid /\ slice' = 0
      /\ sched.nr_running > 0 /\ ~MustRotate(sched) /\ stray' = stray
  BY DEF NextSlice
<1>2. /\ sched \in SchedState /\ next_pid \in Nat /\ sched.nr_running \in Nat
      /\ \A p \in Pids : sched.vruntime[p] \in Nat
      /\ sched.current \in Pids
  BY StateFacts
<1>3. ASSUME ~stray
      PROVE  CurrentLeast(sched)
  <2>1. SUFFICES ASSUME NEW q \in Range(sched.tree)
                 PROVE  sched.vruntime[sched.current] <= sched.vruntime[q]
    BY DEF CurrentLeast
  <2>2. sched.tree # <<>> /\ Len(sched.tree) # 0
    <3>1. \E i \in 1 .. Len(sched.tree) : q = sched.tree[i]
      BY <1>2, VruntimeInt
    <3>2. Len(sched.tree) # 0
      BY <3>1
    <3> QED  BY <3>2, EmptySeq
  <2>3. /\ Leftmost(sched) \in Pids
        /\ sched.vruntime[Leftmost(sched)] <= sched.vruntime[q]
    BY <1>2, <1>3, <2>2, SwitchOrder DEF VruntimeInv, Orderly
  <2>4. Len(sched.tree) \in Nat /\ Len(sched.tree) + 1 = sched.nr_running
    BY <1>1, <1>2, StateFacts, VruntimeInt DEF Counted
  <2>5. ~Ahead(sched, sched.current, Leftmost(sched))
    BY <1>1, <1>2, <2>2, <2>4 DEF MustRotate
  <2>6. ~(sched.vruntime[sched.current] > sched.vruntime[Leftmost(sched)])
    BY <1>2, <2>3, <2>5, AheadIsGreater DEF VruntimeInv
  <2>7. q \in Pids
    BY <1>2, VruntimeInt
  <2> QED  BY <1>2, <2>3, <2>6, <2>7
<1>4. ~stray => InSlice'
  BY <1>1, <1>2, <1>3, LeastInSlice
<1>5. ~stray' => Orderly'
  BY <1>1, <1>4 DEF VruntimeInv, Orderly, InOrder, NearMin
<1>6. Bounded(sched')
  BY <1>1 DEF VruntimeInv
<1> QED  BY <1>1, <1>5, <1>6, SameAccountsEffect

(* At a rotation min_vruntime moves to the key of the leftmost process,     *)
(* and that process takes over.  In a tree in order it is the least of all. *)
LEMMA RotateAccounts ==
  ASSUME NoWrap, SchedInv, VruntimeInv, SchedInv', Rotate
  PROVE  AccountsEffect
<1> DEFINE m == sched.vruntime[Leftmost(sched)]
           s == [sched EXCEPT !.min_vruntime = m]
<1>1. /\ sched.nr_running >= 2 /\ sched.nr_running > 0
      /\ Ahead(sched, sched.current, Leftmost(sched))
      /\ sched' \in Preempt(s) /\ slice' = 0 /\ next_pid' = next_pid
      /\ stray' = stray
  BY DEF Rotate, MustRotate
<1>2. /\ sched \in SchedState /\ next_pid \in Nat /\ sched.nr_running \in Nat
      /\ sched.current \in Pids /\ sched.tree \in Seq(Pids)
      /\ Len(sched.tree) + 1 = sched.nr_running /\ Len(sched.tree) \in Nat
      /\ Runnable(sched) \subseteq Pids
      /\ Runnable(sched) = {sched.current} \cup Range(sched.tree)
  BY <1>1, StateFacts, VruntimeInt DEF Counted, Runnable
<1>3. sched.tree # <<>>
  BY <1>1, <1>2
<1>4. Leftmost(sched) \in Pids
  BY <1>2, <1>3, HeadTailProperties DEF Leftmost
<1>5. ~stray => \A q \in Range(sched.tree) : m <= sched.vruntime[q]
  BY <1>2, <1>3, SwitchOrder DEF VruntimeInv, Orderly
<1>6. sched.vruntime[sched.current] > m
  BY <1>1, <1>2, <1>4, AheadIsGreater DEF VruntimeInv
<1>7. m \in UInt /\ m \in Nat /\ m <= MaxVruntime
  BY <1>2, <1>4, VruntimeInt DEF VruntimeInv, Bounded
<1> HIDE DEF m
<1>8. /\ s \in SchedState /\ s.tree = sched.tree /\ s.vruntime = sched.vruntime
      /\ s.current = sched.current /\ s.min_vruntime = m
  BY <1>2, <1>7 DEF SchedState
<1> HIDE DEF s
<1>9. Bounded(s) /\ (~stray => InOrder(s))
  BY <1>7, <1>8 DEF VruntimeInv, Bounded, Orderly, InOrder
<1>10. ~stray => InOrder(sched') /\ CurrentLeast(sched')
  BY <1>1, <1>8, <1>9, PreemptOrder
<1>11. /\ sched'.vruntime = sched.vruntime /\ sched'.min_vruntime = m
       /\ Runnable(sched') = Runnable(sched)
  <2>1. SameAccounts(s, sched')
    BY <1>1, <1>8, PreemptEffect
  <2>2. Runnable(sched') = Runnable(sched)
    BY RotateEffect DEF StepEffect
  <2> QED  BY <1>8, <2>1, <2>2 DEF SameAccounts
<1>12. ~stray => NearMin(sched')
  <2>1. ~stray => \A q \in Runnable(sched) : /\ sched.vruntime[q] \in Nat
                                             /\ m <= sched.vruntime[q]
    BY <1>2, <1>5, <1>6, <1>7, VruntimeInt
  <2> QED  BY <1>7, <1>11, <2>1, SchedAssumption DEF NearMin
<1>13. Bounded(sched')
  BY <1>7, <1>11 DEF VruntimeInv, Bounded
<1>14. ~stray' => Orderly'
  BY <1>1, <1>10, <1>12, LeastIsOrderly
<1> QED  BY <1>1, <1>11, <1>13, <1>14, SameAccountsEffect

(* The remaining steps leave the run queue and the slice alone.             *)
LEMMA OtherAccounts ==
  ASSUME SchedInv, VruntimeInv,
         StartRunning \/ AllAsleep \/ UNCHANGED schedVars
  PROVE  AccountsEffect
<1>1. sched' = sched /\ slice' = slice /\ next_pid' = next_pid /\ stray' = stray
  BY DEF StartRunning, AllAsleep, schedVars
<1>2. phase' # "done" => phase # "done"
  BY DEF StartRunning, AllAsleep, schedVars
<1>3. ~stray' => Orderly'
  BY <1>1, <1>2 DEF VruntimeInv, Orderly, InSlice, InOrder, NearMin
<1>4. Bounded(sched')
  BY <1>1 DEF VruntimeInv
<1> QED  BY <1>1, <1>3, <1>4, SameAccountsEffect

(* What every step does to the accounts.                                    *)
LEMMA SchedStepAccounts ==
  ASSUME NoWrap, SchedInv, VruntimeInv, SchedInv', [SchedNext]_schedVars
  PROVE  AccountsEffect
<1>1. ASSUME NEW q \in Pids, OpWake(q) \/ OpBlockAndWake(q)
      PROVE  AccountsEffect
  BY <1>1, WakeAccounts
<1>2. CASE LoadProcess \/ OpFork
  BY <1>2, StartAccounts
<1>3. CASE OpPlain \/ OpError
  BY <1>3, PlainAccounts
<1>4. CASE OpBlock \/ OpHalt
  BY <1>4, BlockAccounts
<1>5. CASE NextSlice
  BY <1>5, NextSliceAccounts
<1>6. CASE Rotate
  BY <1>6, RotateAccounts
<1>7. CASE StartRunning \/ AllAsleep \/ UNCHANGED schedVars
  BY <1>7, OtherAccounts
<1> QED  BY <1>1, <1>2, <1>3, <1>4, <1>5, <1>6, <1>7 DEF SchedNext

(* After sched_init every account is 0 and the tree is empty.               *)
LEMMA VruntimeInitInv == SchedInit => VruntimeInv
<1> SUFFICES ASSUME SchedInit PROVE VruntimeInv
  OBVIOUS
<1>1. /\ sched.tree = <<>> /\ sched.min_vruntime = 0 /\ sched.nr_running = 0
      /\ \A p \in Pids : sched.vruntime[p] = 0
  BY DEF SchedInit
<1>2. /\ \A q \in Range(sched.tree) : FALSE
      /\ \A q \in Runnable(sched) : FALSE
      /\ Len(sched.tree) = 0
  BY <1>1 DEF Range, Runnable
<1> QED
  BY <1>1, <1>2, SchedAssumption
     DEF VruntimeInv, Orderly, Bounded, InOrder, NearMin, InSlice

(* Every step preserves the invariant about virtual runtimes.               *)
LEMMA VruntimeNextInv ==
  ASSUME NoWrap, SchedInv, VruntimeInv, SchedInv', [SchedNext]_schedVars
  PROVE  VruntimeInv'
<1>1. AccountsEffect
  BY SchedStepAccounts
<1>2. /\ next_pid \in Nat /\ next_pid' \in Nat /\ next_pid' >= next_pid
      /\ Pids \subseteq Nat
  BY <1>1, StateFacts, SchedAssumption DEF AccountsEffect, SchedInv, SchedTypeOK
<1>3. ASSUME NEW p \in Pids, p >= next_pid'
      PROVE  sched'.vruntime[p] = 0
  BY <1>1, <1>2, <1>3 DEF AccountsEffect, VruntimeInv
<1> QED  BY <1>1, <1>3 DEF AccountsEffect, VruntimeInv

(* While no virtual runtime has reached 2^31 the accounts are bounded,      *)
(* whichever processes instructions resume; and the tree is in order, the   *)
(* running process within its slice and everybody near min_vruntime, until  *)
(* a process is resumed that is not asleep.                                 *)
THEOREM VruntimeInvariant ==
  ASSUME NoWrap
  PROVE  SchedSpec => []VruntimeInv
<1>1. SchedInv /\ SchedInv' /\ VruntimeInv /\ [SchedNext]_schedVars => VruntimeInv'
  BY VruntimeNextInv
<1> QED  BY <1>1, VruntimeInitInv, SchedInvariant, PTL DEF SchedSpec

(* As long as only sleepers are resumed, the tree stays sorted although its *)
(* keys are pointers to accounts and are compared relative to min_vruntime, *)
(* which changes: every search in it finds what it is looking for.          *)
THEOREM TreeSortedAlways ==
  ASSUME NoWrap
  PROVE  SchedSpec => []TreeSorted
<1>1. SchedInv /\ VruntimeInv => TreeSorted
  <2> SUFFICES ASSUME SchedInv, VruntimeInv, ~stray,
                      NEW i \in 1 .. Len(sched.tree),
                      NEW j \in 1 .. Len(sched.tree), i < j
               PROVE  ~Ahead(sched, sched.tree[i], sched.tree[j])
    BY DEF TreeSorted
  <2>1. /\ sched \in SchedState /\ Bounded(sched)
        /\ sched.vruntime[sched.tree[i]] <= sched.vruntime[sched.tree[j]]
    BY DEF SchedInv, SchedTypeOK, VruntimeInv, Orderly, InOrder
  <2>2. /\ sched.tree[i] \in Pids /\ sched.tree[j] \in Pids
        /\ sched.vruntime[sched.tree[i]] \in Nat
        /\ sched.vruntime[sched.tree[j]] \in Nat
    BY <2>1, VruntimeInt
  <2> QED  BY <2>1, <2>2, AheadIsGreater
<1> QED  BY <1>1, SchedInvariant, VruntimeInvariant, PTL

(* The running process is never ahead of a waiting one by more operations   *)
(* than its slice has had, whatever instructions block, fork, halt or wake  *)
(* a sleeper, as long as none resumes a process that is not asleep.         *)
THEOREM OverrunBoundAlways ==
  ASSUME NoWrap
  PROVE  SchedSpec => []OverrunBound
<1>1. VruntimeInv => OverrunBound
  BY DEF VruntimeInv, Orderly, InSlice, OverrunBound
<1> QED  BY <1>1, VruntimeInvariant, PTL

(* As long as only sleepers are resumed, no runnable process lags behind    *)
(* min_vruntime by more than its head start, so that the distances key_comp *)
(* compares stay far from INT_MIN.                                          *)
THEOREM MinVruntimeLagAlways ==
  ASSUME NoWrap
  PROVE  SchedSpec => []MinVruntimeLag
<1>1. SchedInv /\ VruntimeInv => MinVruntimeLag
  <2> SUFFICES ASSUME SchedInv, VruntimeInv, ~stray, NEW q \in Runnable(sched)
               PROVE  AsInt(USub(sched.vruntime[q], sched.min_vruntime))
                        >= -SCHED_LATENCY
    BY DEF MinVruntimeLag
  <2>1. /\ sched \in SchedState /\ q \in Pids /\ sched.vruntime[q] \in Nat
        /\ Bounded(sched) /\ sched.min_vruntime \in Nat
        /\ sched.vruntime[q] + SCHED_LATENCY >= sched.min_vruntime
    BY StateFacts, VruntimeInt DEF VruntimeInv, Orderly, NearMin
  <2>2. AsInt(USub(sched.vruntime[q], sched.min_vruntime))
          = sched.vruntime[q] - sched.min_vruntime
    BY <2>1, AheadIsGreater
  <2> QED  BY <2>1, <2>2, SchedAssumption
<1> QED  BY <1>1, SchedInvariant, VruntimeInvariant, PTL

(* Only the end of a process takes back what it has been charged: sleeping, *)
(* being resumed, asleep or not, and being switched never do, and no pid is *)
(* used twice.                                                              *)
THEOREM ChargesKeptAlways ==
  ASSUME NoWrap
  PROVE  SchedSpec => ChargesKept
<1>1. SchedInv /\ SchedInv' /\ VruntimeInv /\ [SchedNext]_schedVars
        => [ \A p \in Pids \ halted' :
               sched'.vruntime[p] >= sched.vruntime[p] ]_schedVars
  BY SchedStepAccounts DEF AccountsEffect
<1> QED
  BY <1>1, SchedInvariant, VruntimeInvariant, PTL DEF SchedSpec, ChargesKept
=============================================================================
