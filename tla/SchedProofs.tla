---------------------------- MODULE SchedProofs ----------------------------
(***************************************************************************)
(* Theorems about the scheduler, for every number of processes, slice,      *)
(* latency and width of the integers.  An instruction may resume any        *)
(* process that has been allocated; what needs that it is asleep is proved  *)
(* of the states in which stray is FALSE.                                   *)
(***************************************************************************)
EXTENDS Sched, SequenceTheorems, TLAPS

-----------------------------------------------------------------------------
(***************************************************************************)
(* Insertion into and removal from the sequence that stands for the tree.   *)
(***************************************************************************)

(* RBTreeInsert adds one node for p and keeps every other node; if p had    *)
(* none and nobody had two, nobody has two then.                            *)
LEMMA InsertFresh ==
  ASSUME NEW S, NEW q \in Seq(S), NEW p \in S, NEW i \in 1 .. Len(q) + 1
  PROVE  /\ InsertAt(q, i, p) \in Seq(S)
         /\ Len(InsertAt(q, i, p)) = Len(q) + 1
         /\ IsInjective(q) /\ p \notin Range(q) => IsInjective(InsertAt(q, i, p))
         /\ Range(InsertAt(q, i, p)) = Range(q) \cup {p}
         /\ \A k \in 1 .. Len(q) + 1 :
              InsertAt(q, i, p)[k] =
                IF k < i THEN q[k] ELSE IF k = i THEN p ELSE q[k - 1]
<1> DEFINE r == InsertAt(q, i, p)
           front == SubSeq(q, 1, i - 1)
           back == SubSeq(q, i, Len(q))
           upto == front \o <<p>>
<1>1. i \in Nat \ {0} /\ Len(q) \in Nat /\ i <= Len(q) + 1
  BY LenProperties
<1>2. /\ front \in Seq(S) /\ Len(front) = i - 1
      /\ \A k \in 1 .. i - 1 : front[k] = q[k]
  BY <1>1, SubSeqProperties
<1>3. /\ back \in Seq(S) /\ Len(back) = Len(q) + 1 - i
      /\ \A k \in 1 .. Len(q) + 1 - i : back[k] = q[i + k - 1]
  BY <1>1, SubSeqProperties
<1>4. r = upto \o back
  BY DEF InsertAt
<1> HIDE DEF front, back, r
<1>5. /\ upto \in Seq(S)
      /\ Len(upto) = i
      /\ \A k \in 1 .. i : upto[k] = IF k < i THEN front[k] ELSE p
  <2>1. <<p>> \in Seq(S) /\ Len(<<p>>) = 1 /\ <<p>>[1] = p
    OBVIOUS
  <2>2. /\ upto \in Seq(S)
        /\ Len(upto) = Len(front) + 1
        /\ \A k \in 1 .. Len(front) + 1 :
             upto[k] = IF k <= Len(front) THEN front[k] ELSE <<p>>[k - Len(front)]
    BY <1>2, <2>1, ConcatProperties
  <2> QED  BY <1>1, <1>2, <2>1, <2>2
<1> HIDE DEF upto
<1>6. /\ r \in Seq(S)
      /\ Len(r) = Len(q) + 1
      /\ \A k \in 1 .. Len(q) + 1 :
           r[k] = IF k <= i THEN upto[k] ELSE back[k - i]
  <2>1. /\ r \in Seq(S)
        /\ Len(r) = Len(upto) + Len(back)
        /\ \A k \in 1 .. Len(upto) + Len(back) :
             r[k] = IF k <= Len(upto) THEN upto[k] ELSE back[k - Len(upto)]
    BY <1>3, <1>4, <1>5, ConcatProperties
  <2>2. Len(upto) = i /\ Len(upto) + Len(back) = Len(q) + 1
    BY <1>1, <1>3, <1>5
  <2> QED  BY <2>1, <2>2
<1>7. ASSUME NEW k \in 1 .. Len(q) + 1
      PROVE  r[k] = IF k < i THEN q[k] ELSE IF k = i THEN p ELSE q[k - 1]
  <2>1. CASE k < i
    BY <1>1, <1>2, <1>5, <1>6, <2>1
  <2>2. CASE k = i
    BY <1>1, <1>5, <1>6, <2>2
  <2>3. CASE k > i
    <3>1. k - i \in 1 .. Len(q) + 1 - i /\ i + (k - i) - 1 = k - 1
      BY <1>1, <2>3
    <3>2. back[k - i] = q[k - 1]
      BY <1>3, <3>1
    <3>3. ~(k <= i)
      BY <1>1, <2>3
    <3>4. r[k] = back[k - i]
      BY <1>6, <3>3
    <3> QED  BY <1>1, <2>3, <3>2, <3>4
  <2> QED  BY <1>1, <2>1, <2>2, <2>3
<1>8. DOMAIN r = 1 .. Len(q) + 1 /\ DOMAIN q = 1 .. Len(q)
  BY <1>6
<1>9. ASSUME IsInjective(q), p \notin Range(q)
      PROVE  IsInjective(r)
  <2> SUFFICES ASSUME NEW a \in 1 .. Len(q) + 1, NEW b \in 1 .. Len(q) + 1,
                      r[a] = r[b], a < b
               PROVE  FALSE
    BY <1>1, <1>8 DEF IsInjective
  <2> DEFINE from(k) == IF k < i THEN k ELSE k - 1
  <2>1. ASSUME NEW k \in 1 .. Len(q) + 1, k # i
        PROVE  from(k) \in DOMAIN q /\ r[k] = q[from(k)]
    BY <1>1, <1>7, <1>8, <2>1
  <2>2. CASE a # i /\ b # i
    <3>1. from(a) = from(b)
      BY <1>9, <2>1, <2>2 DEF IsInjective
    <3> QED  BY <1>1, <2>2, <3>1
  <2>3. CASE a = i \/ b = i
    BY <1>1, <1>7, <1>9, <2>1, <2>3 DEF Range
  <2> QED  BY <2>2, <2>3
<1>10. Range(r) = Range(q) \cup {p}
  <2>1. ASSUME NEW k \in 1 .. Len(q) + 1
        PROVE  r[k] \in Range(q) \cup {p}
    <3>1. k # i => \E m \in DOMAIN q : r[k] = q[m]
      <4>1. CASE k < i
        BY <1>1, <1>7, <1>8, <4>1
      <4>2. CASE k > i
        <5>1. k - 1 \in DOMAIN q /\ r[k] = q[k - 1]
          BY <1>1, <1>7, <1>8, <4>2
        <5> QED  BY <5>1
      <4> QED  BY <1>1, <4>1, <4>2
    <3>2. k = i => r[k] = p
      BY <1>1, <1>7
    <3> QED  BY <3>1, <3>2 DEF Range
  <2>2. p = r[i]
    BY <1>1, <1>7
  <2>3. ASSUME NEW k \in 1 .. Len(q)
        PROVE  \E m \in 1 .. Len(q) + 1 : q[k] = r[m]
    <3>1. CASE k < i
      BY <1>1, <1>7, <3>1
    <3>2. CASE ~(k < i)
      <4>1. k + 1 \in 1 .. Len(q) + 1 /\ r[k + 1] = q[k]
        BY <1>1, <1>7, <3>2
      <4> QED  BY <4>1
    <3> QED  BY <3>1, <3>2
  <2> QED  BY <1>1, <1>8, <2>1, <2>2, <2>3 DEF Range
<1> QED  BY <1>6, <1>7, <1>9, <1>10 DEF r

(* RBDelete of the leftmost node removes this node and no other.            *)
LEMMA TailFresh ==
  ASSUME NEW S, NEW q \in Seq(S), q # <<>>
  PROVE  /\ Head(q) \in S
         /\ Tail(q) \in Seq(S)
         /\ Len(Tail(q)) = Len(q) - 1
         /\ IsInjective(q) => IsInjective(Tail(q)) /\ Head(q) \notin Range(Tail(q))
         /\ Range(q) = Range(Tail(q)) \cup {Head(q)}
<1>1. /\ Len(q) \in Nat \ {0}
      /\ Head(q) = q[1]
      /\ Head(q) \in S
      /\ Tail(q) \in Seq(S)
      /\ Len(Tail(q)) = Len(q) - 1
      /\ \A k \in 1 .. Len(Tail(q)) : Tail(q)[k] = q[k + 1]
  BY HeadTailProperties, EmptySeq, LenProperties
<1>2. DOMAIN q = 1 .. Len(q) /\ DOMAIN Tail(q) = 1 .. Len(q) - 1
  BY <1>1
<1>3. IsInjective(q) => IsInjective(Tail(q))
  BY <1>1, <1>2 DEF IsInjective
<1>4. IsInjective(q) => Head(q) \notin Range(Tail(q))
  BY <1>1, <1>2 DEF IsInjective, Range
<1>5. Range(q) = Range(Tail(q)) \cup {Head(q)}
  <2>1. Range(Tail(q)) \cup {Head(q)} \subseteq Range(q)
    BY <1>1, <1>2 DEF Range
  <2>2. ASSUME NEW k \in 1 .. Len(q)
        PROVE  q[k] \in Range(Tail(q)) \cup {Head(q)}
    <3>1. CASE k = 1
      BY <1>1, <3>1
    <3>2. CASE k # 1
      <4>1. k - 1 \in DOMAIN Tail(q) /\ Tail(q)[k - 1] = q[k]
        BY <1>1, <1>2, <3>2
      <4> QED  BY <4>1 DEF Range
    <3> QED  BY <3>1, <3>2
  <2> QED  BY <1>2, <2>1, <2>2 DEF Range
<1> QED  BY <1>1, <1>3, <1>4, <1>5

-----------------------------------------------------------------------------
(***************************************************************************)
(* What the functions of sched.c do to the set of runnable processes.       *)
(***************************************************************************)

(* The fields of s other than tree and current are those of t. *)
SameAccounts(s, t) ==
  /\ t.vruntime = s.vruntime
  /\ t.nr_running = s.nr_running
  /\ t.min_vruntime = s.min_vruntime

(* Counting an operation stays within an unsigned int, also when it wraps.  *)
LEMMA UIntClosed ==
  /\ 0 \in UInt
  /\ \A a \in UInt : UInc(a) \in UInt
  /\ UINT_RANGE \in Nat
BY SchedAssumption DEF UInt, UInc, UINT_RANGE

(* nr_running can change alone.                                             *)
LEMMA CountUpdate ==
  ASSUME NEW s \in SchedState, NEW n \in Nat
  PROVE  LET t == [s EXCEPT !.nr_running = n]
         IN  /\ t \in SchedState
             /\ t.nr_running = n
             /\ t.tree = s.tree
             /\ t.current = s.current
             /\ t.vruntime = s.vruntime
BY DEF SchedState

(* ctxt_switch with somebody in the tree: the leftmost process leaves its   *)
(* node to become current, and the accounts stay.                           *)
LEMMA CtxtSwitchEffect ==
  ASSUME NEW s \in SchedState, s.tree # <<>>
  PROVE  LET t == CtxtSwitch(s)
         IN  /\ t \in SchedState
             /\ Len(t.tree) = Len(s.tree) - 1
             /\ {t.current} \cup Range(t.tree) = Range(s.tree)
             /\ SameAccounts(s, t)
             /\ IsInjective(s.tree) =>
                  IsInjective(t.tree) /\ t.current \notin Range(t.tree)
<1> DEFINE t == CtxtSwitch(s)
<1>1. /\ s.tree \in Seq(Pids)
      /\ t = [s EXCEPT !.current = Head(s.tree), !.tree = Tail(s.tree)]
  BY DEF SchedState, CtxtSwitch, Leftmost
<1>2. /\ Head(s.tree) \in Pids
      /\ Tail(s.tree) \in Seq(Pids)
      /\ Len(Tail(s.tree)) = Len(s.tree) - 1
      /\ IsInjective(s.tree) =>
           IsInjective(Tail(s.tree)) /\ Head(s.tree) \notin Range(Tail(s.tree))
      /\ Range(s.tree) = Range(Tail(s.tree)) \cup {Head(s.tree)}
  BY <1>1, TailFresh
<1>3. t.current = Head(s.tree) /\ t.tree = Tail(s.tree)
  BY <1>1 DEF SchedState
<1>4. t \in SchedState /\ SameAccounts(s, t)
  BY <1>1, <1>2 DEF SchedState, SameAccounts
<1> QED  BY <1>2, <1>3, <1>4

(* RBTreeInsert of a process adds a node for it, wherever the comparisons   *)
(* of key_comp lead.                                                        *)
LEMMA TreeInsertEffect ==
  ASSUME NEW s \in SchedState, NEW p \in Pids, NEW t \in TreeInsert(s, p)
  PROVE  /\ t \in SchedState
         /\ Len(t.tree) = Len(s.tree) + 1
         /\ Range(t.tree) = Range(s.tree) \cup {p}
         /\ t.current = s.current
         /\ SameAccounts(s, t)
         /\ IsInjective(s.tree) /\ p \notin Range(s.tree) => IsInjective(t.tree)
<1>1. PICK i \in Slots(s, p) : t = [s EXCEPT !.tree = InsertAt(s.tree, i + 1, p)]
  BY DEF TreeInsert
<1>2. s.tree \in Seq(Pids) /\ i + 1 \in 1 .. Len(s.tree) + 1
  BY <1>1 DEF SchedState, Slots
<1>3. /\ InsertAt(s.tree, i + 1, p) \in Seq(Pids)
      /\ Len(InsertAt(s.tree, i + 1, p)) = Len(s.tree) + 1
      /\ IsInjective(s.tree) /\ p \notin Range(s.tree) =>
           IsInjective(InsertAt(s.tree, i + 1, p))
      /\ Range(InsertAt(s.tree, i + 1, p)) = Range(s.tree) \cup {p}
  BY <1>2, InsertFresh
<1>4. t.tree = InsertAt(s.tree, i + 1, p) /\ t.current = s.current
  BY <1>1 DEF SchedState
<1>5. t \in SchedState /\ SameAccounts(s, t)
  BY <1>1, <1>3 DEF SchedState, SameAccounts
<1> QED  BY <1>3, <1>4, <1>5

(* Putting the current process back and switching keeps who is runnable:    *)
(* the tree and the new current process are the old ones.                   *)
LEMMA PreemptEffect ==
  ASSUME NEW s \in SchedState, NEW t \in Preempt(s)
  PROVE  /\ t \in SchedState
         /\ Len(t.tree) = Len(s.tree)
         /\ {t.current} \cup Range(t.tree) = {s.current} \cup Range(s.tree)
         /\ SameAccounts(s, t)
         /\ IsInjective(s.tree) /\ s.current \notin Range(s.tree) =>
              IsInjective(t.tree) /\ t.current \notin Range(t.tree)
<1>1. s.current \in Pids /\ Len(s.tree) \in Nat
  BY DEF SchedState
<1>2. PICK u \in TreeInsert(s, s.current) : t = CtxtSwitch(u)
  BY DEF Preempt
<1>3. /\ u \in SchedState
      /\ IsInjective(s.tree) /\ s.current \notin Range(s.tree) => IsInjective(u.tree)
      /\ Len(u.tree) = Len(s.tree) + 1
      /\ Range(u.tree) = Range(s.tree) \cup {s.current}
      /\ SameAccounts(s, u)
  BY <1>1, TreeInsertEffect
<1>4. u.tree # <<>>
  BY <1>1, <1>3
<1>5. /\ t \in SchedState
      /\ Len(t.tree) = Len(u.tree) - 1
      /\ {t.current} \cup Range(t.tree) = Range(u.tree)
      /\ SameAccounts(u, t)
      /\ IsInjective(u.tree) =>
           IsInjective(t.tree) /\ t.current \notin Range(t.tree)
  BY <1>2, <1>3, <1>4, CtxtSwitchEffect
<1> QED  BY <1>1, <1>3, <1>5 DEF SameAccounts

(* sched_suspend of the running process, the only way the code calls it,    *)
(* takes exactly this process out of the runnable ones, unless it is in the *)
(* tree as well.                                                            *)
LEMMA SuspendEffect ==
  ASSUME NEW s \in SchedState, Counted(s), s.nr_running > 0
  PROVE  LET t == SchedSuspend(s, s.current)
         IN  /\ t \in SchedState
             /\ Counted(t)
             /\ Runnable(t) \in {Runnable(s), Runnable(s) \ {s.current}}
             /\ NobodyTwice(s) => /\ NobodyTwice(t)
                                  /\ Runnable(t) = Runnable(s) \ {s.current}
<1> DEFINE t == SchedSuspend(s, s.current)
           n == s.nr_running
<1>1. /\ n \in Nat \ {0} /\ Len(s.tree) \in Nat /\ s.current \in Pids
      /\ Len(s.tree) + 1 = n
      /\ NobodyTwice(s) => IsInjective(s.tree) /\ s.current \notin Range(s.tree)
      /\ Runnable(s) = {s.current} \cup Range(s.tree)
  BY DEF SchedState, Counted, NobodyTwice, Runnable
<1>2. CASE n > 1
  <2> DEFINE u == CtxtSwitch(s)
  <2>1. t = [u EXCEPT !.nr_running = @ - 1]
    BY <1>2 DEF SchedSuspend
  <2>2. s.tree # <<>>
    BY <1>1, <1>2
  <2>3. /\ u \in SchedState
        /\ Len(u.tree) = Len(s.tree) - 1
        /\ {u.current} \cup Range(u.tree) = Range(s.tree)
        /\ u.nr_running = n
        /\ IsInjective(s.tree) =>
             IsInjective(u.tree) /\ u.current \notin Range(u.tree)
    BY <2>2, CtxtSwitchEffect DEF SameAccounts
  <2> HIDE DEF u
  <2>4. /\ t \in SchedState /\ t.nr_running = n - 1
        /\ t.tree = u.tree /\ t.current = u.current
    <3>1. n - 1 \in Nat /\ t = [u EXCEPT !.nr_running = n - 1]
      BY <1>1, <2>1, <2>3
    <3> QED  BY <2>3, <3>1, CountUpdate
  <2> HIDE DEF t
  <2>5. n - 1 > 0 /\ n - 1 # 0
    BY <1>1, <1>2
  <2>6. Counted(t)
    BY <1>1, <2>3, <2>4, <2>5 DEF Counted
  <2>7. Runnable(t) = Range(s.tree)
    BY <2>3, <2>4, <2>5 DEF Runnable
  <2>8. Range(s.tree) \in {Runnable(s), Runnable(s) \ {s.current}}
    BY <1>1
  <2>9. NobodyTwice(s) => /\ NobodyTwice(t)
                          /\ Range(s.tree) = Runnable(s) \ {s.current}
    BY <1>1, <2>3, <2>4 DEF NobodyTwice
  <2> QED  BY <2>4, <2>6, <2>7, <2>8, <2>9 DEF t
<1>3. CASE n = 1
  <2>1. t = [s EXCEPT !.nr_running = @ - 1]
    BY <1>3 DEF SchedSuspend
  <2>2. t \in SchedState /\ t.nr_running = 0 /\ t.tree = s.tree
    BY <1>3, <2>1 DEF SchedState
  <2>3. s.tree = <<>> /\ Range(s.tree) = {}
    BY <1>1, <1>3, EmptySeq DEF SchedState, Range
  <2> HIDE DEF t
  <2>4. Runnable(t) = {} /\ Runnable(s) \ {s.current} = {}
    BY <1>1, <2>2, <2>3 DEF Runnable
  <2> QED  BY <2>2, <2>3, <2>4 DEF Counted, NobodyTwice, t
<1> QED  BY <1>1, <1>2, <1>3

(* What sched_resume makes of the virtual runtime is an unsigned int: the   *)
(* latency is only subtracted from a min_vruntime it fits in.               *)
LEMMA WakeupVruntimeType ==
  ASSUME NEW s \in SchedState, NEW p \in Pids
  PROVE  WakeupVruntime(s, p) \in UInt
BY SchedAssumption
   DEF WakeupVruntime, WakeupFloor, MaxOf, SchedState, UInt, UINT_RANGE

(* sched_resume of a process makes it runnable and changes nothing else     *)
(* about who is; a process that was not runnable is then there once.        *)
LEMMA ResumeEffect ==
  ASSUME NEW s \in SchedState, Counted(s),
         NEW p \in Pids, NEW t \in SchedResume(s, p)
  PROVE  /\ t \in SchedState
         /\ Counted(t)
         /\ t.nr_running > 0
         /\ Runnable(t) = Runnable(s) \cup {p}
         /\ NobodyTwice(s) /\ p \notin Runnable(s) => NobodyTwice(t)
<1> DEFINE w == [s EXCEPT !.vruntime[p] = WakeupVruntime(s, p)]
           n == s.nr_running
<1>1. /\ w \in SchedState /\ w.tree = s.tree /\ w.current = s.current
      /\ w.nr_running = n /\ w.vruntime[p] \in UInt
  BY WakeupVruntimeType DEF SchedState
<1>2. n \in Nat /\ Len(s.tree) \in Nat /\ s.current \in Pids
  BY DEF SchedState
<1>3. CASE n = 0
  <2>1. t = [w EXCEPT !.min_vruntime = w.vruntime[p],
                      !.current = p, !.nr_running = 1]
    BY <1>3 DEF SchedResume
  <2> HIDE DEF w
  <2>2. /\ t \in SchedState /\ t.nr_running = 1 /\ t.current = p
        /\ t.tree = <<>>
    BY <1>1, <1>3, <2>1 DEF SchedState, Counted
  <2>3. Range(t.tree) = {} /\ IsInjective(t.tree) /\ Len(t.tree) = 0
    BY <2>2, EmptySeq DEF Range, IsInjective
  <2> QED  BY <1>3, <2>2, <2>3 DEF Counted, NobodyTwice, Runnable
<1>4. CASE n > 0 /\ p = s.current
  <2>1. t = w
    BY <1>4 DEF SchedResume
  <2> HIDE DEF w
  <2>2. Runnable(t) = Runnable(s) /\ p \in Runnable(s)
    BY <1>1, <1>4, <2>1 DEF Runnable
  <2> QED  BY <1>1, <1>4, <2>1, <2>2 DEF Counted
<1>5. CASE n > 0 /\ p # s.current
  <2>1. /\ Len(s.tree) + 1 = n
        /\ Runnable(s) = {s.current} \cup Range(s.tree)
        /\ NobodyTwice(s) =>
             IsInjective(s.tree) /\ s.current \notin Range(s.tree)
    BY <1>5 DEF Runnable, Counted, NobodyTwice
  <2>2. PICK u \in TreeInsert(w, p) :
          \E v \in IF Ahead(u, u.current, Leftmost(u)) THEN Preempt(u) ELSE {u} :
            t = [v EXCEPT !.nr_running = @ + 1]
    BY <1>5 DEF SchedResume
  <2> HIDE DEF w
  <2>3. /\ u \in SchedState
        /\ Len(u.tree) = n
        /\ Range(u.tree) = Range(s.tree) \cup {p}
        /\ u.current = s.current
        /\ u.nr_running = n
        /\ IsInjective(s.tree) /\ p \notin Range(s.tree) => IsInjective(u.tree)
    <3>1. /\ u \in SchedState
          /\ Len(u.tree) = Len(w.tree) + 1
          /\ Range(u.tree) = Range(w.tree) \cup {p}
          /\ u.current = w.current
          /\ u.nr_running = w.nr_running
          /\ IsInjective(w.tree) /\ p \notin Range(w.tree) => IsInjective(u.tree)
      BY <1>1, TreeInsertEffect DEF SameAccounts
    <3> QED  BY <1>1, <2>1, <3>1
  <2>4. PICK v : /\ v = u \/ v \in Preempt(u)
                 /\ t = [v EXCEPT !.nr_running = @ + 1]
    BY <2>2
  <2>5. /\ v \in SchedState
        /\ Len(v.tree) = n
        /\ {v.current} \cup Range(v.tree) = Runnable(s) \cup {p}
        /\ v.nr_running = n
        /\ IsInjective(u.tree) /\ u.current \notin Range(u.tree) =>
             IsInjective(v.tree) /\ v.current \notin Range(v.tree)
    <3>1. CASE v = u
      BY <2>1, <2>3, <3>1
    <3>2. CASE v \in Preempt(u)
      <4>1. /\ v \in SchedState
            /\ Len(v.tree) = Len(u.tree)
            /\ {v.current} \cup Range(v.tree) = {u.current} \cup Range(u.tree)
            /\ v.nr_running = u.nr_running
            /\ IsInjective(u.tree) /\ u.current \notin Range(u.tree) =>
                 IsInjective(v.tree) /\ v.current \notin Range(v.tree)
        BY <2>3, <3>2, PreemptEffect DEF SameAccounts
      <4> QED  BY <2>1, <2>3, <4>1
    <3> QED  BY <2>4, <3>1, <3>2
  <2>6. /\ t \in SchedState /\ t.nr_running = n + 1
        /\ t.tree = v.tree /\ t.current = v.current
    <3>1. n + 1 \in Nat /\ t = [v EXCEPT !.nr_running = n + 1]
      BY <1>2, <2>4, <2>5
    <3> QED  BY <2>5, <3>1, CountUpdate
  <2>7. Counted(t) /\ t.nr_running > 0
    BY <1>2, <1>5, <2>5, <2>6 DEF Counted
  <2>8. Runnable(t) = Runnable(s) \cup {p}
    BY <1>2, <2>5, <2>6 DEF Runnable
  <2>9. NobodyTwice(s) /\ p \notin Runnable(s) => NobodyTwice(t)
    BY <1>5, <2>1, <2>3, <2>5, <2>6 DEF NobodyTwice
  <2> QED  BY <2>6, <2>7, <2>8, <2>9
<1> QED  BY <1>2, <1>3, <1>4, <1>5

-----------------------------------------------------------------------------
(***************************************************************************)
(* The inductive invariant: the types and the shape of the run queue, and   *)
(* who can be in it.  The last conjunct is needed because OpFork          *)
(* resumes next_pid, which therefore must not be runnable already.          *)
(***************************************************************************)
SchedInv ==
  /\ SchedTypeOK
  /\ RunQueueOK
  /\ Runnable(sched) \subseteq Allocated

(* After sched_init nobody is runnable and every account is 0.              *)
LEMMA SchedInitInv == SchedInit => SchedInv
<1> SUFFICES ASSUME SchedInit PROVE SchedInv
  OBVIOUS
<1>1. SchedTypeOK
  <2>1. sched \in SchedState
    BY SchedAssumption, UIntClosed, EmptySeq DEF SchedInit, SchedState, Pids
  <2>2. slice \in 0 .. SCHED_GRANULARITY /\ next_pid \in 0 .. PROCS
    BY SchedAssumption DEF SchedInit
  <2> QED  BY <2>1, <2>2 DEF SchedInit, SchedTypeOK
<1> QED
  BY <1>1 DEF SchedInit, SchedInv, RunQueueOK, Counted, NobodyTwice, Runnable

(* The charge at the start of a round, and sched_reset, change no more than *)
(* a virtual runtime.                                                       *)
LEMMA AccountUpdate ==
  ASSUME NEW s \in SchedState, NEW p, NEW x \in UInt
  PROVE  LET t == [s EXCEPT !.vruntime[p] = x]
         IN  /\ t \in SchedState
             /\ Counted(s) => Counted(t)
             /\ NobodyTwice(s) => NobodyTwice(t)
             /\ Runnable(t) = Runnable(s)
             /\ t.nr_running = s.nr_running
             /\ t.current = s.current
<1> DEFINE t == [s EXCEPT !.vruntime[p] = x]
<1>1. /\ t \in SchedState /\ t.nr_running = s.nr_running
      /\ t.current = s.current /\ t.tree = s.tree
  BY DEF SchedState
<1> QED  BY <1>1 DEF Counted, NobodyTwice, Runnable

(* sched_reset changes no more than the account it closes.                  *)
LEMMA ResetEffect ==
  ASSUME NEW s \in SchedState, NEW p
  PROVE  LET t == SchedReset(s, p)
         IN  /\ t \in SchedState
             /\ Counted(s) => Counted(t)
             /\ NobodyTwice(s) => NobodyTwice(t)
             /\ Runnable(t) = Runnable(s)
             /\ t.nr_running = s.nr_running
             /\ t.current = s.current
<1> DEFINE u == [s EXCEPT !.vruntime[p] = 0]
<1>1. 0 \in UInt
  BY UIntClosed
<1>2. /\ u \in SchedState
      /\ Counted(s) => Counted(u)
      /\ NobodyTwice(s) => NobodyTwice(u)
      /\ Runnable(u) = Runnable(s)
      /\ u.nr_running = s.nr_running /\ u.current = s.current
  BY <1>1, AccountUpdate
<1>3. SchedReset(s, p) = u
  BY DEF SchedReset
<1> HIDE DEF u
<1> QED  BY <1>2, <1>3

(* The charge of sched_run changes no more than one account.                *)
LEMMA ChargedEffect ==
  ASSUME SchedTypeOK, RunQueueOK
  PROVE  /\ Charged \in SchedState
         /\ Counted(Charged)
         /\ ~stray => NobodyTwice(Charged)
         /\ Runnable(Charged) = Runnable(sched)
         /\ Charged.nr_running = sched.nr_running
         /\ Charged.current = sched.current
<1> DEFINE x == UInc(sched.vruntime[sched.current])
<1>1. x \in UInt
  BY UIntClosed DEF SchedTypeOK, SchedState
<1>2. Charged = [sched EXCEPT !.vruntime[sched.current] = x]
  BY DEF Charged
<1> HIDE DEF x
<1>3. sched \in SchedState
  BY DEF SchedTypeOK
<1> DEFINE u == [sched EXCEPT !.vruntime[sched.current] = x]
<1>4. /\ u \in SchedState
      /\ Counted(sched) => Counted(u)
      /\ NobodyTwice(sched) => NobodyTwice(u)
      /\ Runnable(u) = Runnable(sched)
      /\ u.nr_running = sched.nr_running /\ u.current = sched.current
  BY <1>1, <1>3, AccountUpdate
<1> HIDE DEF u
<1>5. Charged = u
  BY <1>2 DEF u
<1> QED  BY <1>4, <1>5 DEF RunQueueOK

(* procalloc's new process was not runnable and is now; nobody else's place *)
(* changes.                                                                 *)
LEMMA StartProcessEffect ==
  ASSUME SchedInv, NEW s \in SchedState, Counted(s),
         Runnable(s) = Runnable(sched), StartProcess(s)
  PROVE  /\ sched' \in SchedState
         /\ Counted(sched')
         /\ sched'.nr_running > 0
         /\ next_pid \in Pids \ Runnable(sched)
         /\ Runnable(sched') = Runnable(sched) \cup {next_pid}
         /\ next_pid' = next_pid + 1 /\ next_pid' \in 0 .. PROCS
         /\ NobodyTwice(s) => NobodyTwice(sched')
<1> DEFINE r == SchedReset(s, next_pid)
<1>1. next_pid \in Pids \ Runnable(s) /\ next_pid + 1 \in 0 .. PROCS
  BY SchedAssumption
     DEF SchedInv, SchedTypeOK, StartProcess, Pids, Allocated
<1>2. /\ r \in SchedState /\ Counted(r) /\ Runnable(r) = Runnable(s)
      /\ NobodyTwice(s) => NobodyTwice(r)
  BY ResetEffect
<1>3. sched' \in SchedResume(r, next_pid) /\ next_pid' = next_pid + 1
  BY DEF StartProcess
<1> HIDE DEF r
<1> QED  BY <1>1, <1>2, <1>3, ResumeEffect

(***************************************************************************)
(* What each action does to the run queue.  In general a process that       *)
(* blocks may stay runnable and one that is woken may have been so; as long *)
(* as only sleepers are resumed the effect is exact.                        *)
(***************************************************************************)
ExactEffect(blocked, woken) ==
  /\ NobodyTwice(sched')
  /\ Runnable(sched') = (Runnable(sched) \ blocked) \cup woken
  /\ woken \cap Runnable(sched) = {}

StepEffect(blocked, woken) ==
  /\ sched' \in SchedState
  /\ Counted(sched')
  /\ \E left \in {{}, blocked} :
       Runnable(sched') = (Runnable(sched) \ left) \cup woken
  /\ woken \subseteq Allocated'
  /\ blocked \subseteq {sched.current}
  /\ blocked # {} => sched.nr_running > 0
  /\ next_pid' \in 0 .. PROCS /\ next_pid' >= next_pid
  /\ ~stray' => ~stray /\ ExactEffect(blocked, woken)

(* load_file and FK add the next pid to the runnable processes.             *)
LEMMA StartEffect ==
  ASSUME SchedInv, LoadProcess \/ OpFork
  PROVE  StepEffect({}, {next_pid})
<1>1. PICK s \in SchedState : /\ Counted(s)
                              /\ ~stray => NobodyTwice(s)
                              /\ Runnable(s) = Runnable(sched)
                              /\ StartProcess(s)
  BY ChargedEffect DEF SchedInv, SchedTypeOK, RunQueueOK, LoadProcess, OpFork
<1>2. /\ sched' \in SchedState
      /\ Counted(sched')
      /\ next_pid \in Pids \ Runnable(sched)
      /\ Runnable(sched') = Runnable(sched) \cup {next_pid}
      /\ next_pid' = next_pid + 1 /\ next_pid' \in 0 .. PROCS
      /\ NobodyTwice(s) => NobodyTwice(sched')
  BY <1>1, StartProcessEffect
<1>3. stray' = stray
  BY <1>1 DEF StartProcess
<1>4. {next_pid} \subseteq Allocated' /\ next_pid' >= next_pid
  BY <1>2 DEF Allocated, Pids
<1> QED  BY <1>1, <1>2, <1>3, <1>4 DEF StepEffect, ExactEffect

(* RC, PE and HA take the running process out of the runnable ones.         *)
LEMMA BlockEffect ==
  ASSUME SchedInv, OpBlock \/ OpHalt
  PROVE  StepEffect({sched.current}, {})
<1> DEFINE x == sched.current
<1>1. PICK s \in SchedState : /\ Counted(s)
                              /\ ~stray => NobodyTwice(s)
                              /\ Runnable(s) = Runnable(sched)
                              /\ s.nr_running = sched.nr_running
                              /\ s.current = x
                              /\ sched' = SchedSuspend(s, s.current)
  <2>1. /\ Charged \in SchedState /\ Counted(Charged)
        /\ ~stray => NobodyTwice(Charged)
        /\ Runnable(Charged) = Runnable(sched)
        /\ Charged.nr_running = sched.nr_running
        /\ Charged.current = x
    BY ChargedEffect DEF SchedInv
  <2>2. CASE OpBlock
    BY <2>1, <2>2 DEF OpBlock
  <2>3. CASE OpHalt
    <3> DEFINE s == SchedReset(Charged, x)
    <3>1. /\ s \in SchedState /\ Counted(s)
          /\ ~stray => NobodyTwice(s)
          /\ Runnable(s) = Runnable(sched)
          /\ s.nr_running = sched.nr_running
          /\ s.current = x
      BY <2>1, ResetEffect
    <3>2. sched' = SchedSuspend(s, x)
      BY <2>3 DEF OpHalt
    <3> QED  BY <3>1, <3>2
  <2> QED  BY <2>2, <2>3
<1>2. sched.nr_running > 0 /\ stray' = stray /\ next_pid' = next_pid
  BY DEF OpBlock, OpHalt, TickNext, CanTick
<1>3. /\ sched' \in SchedState /\ Counted(sched')
      /\ Runnable(sched') \in {Runnable(s), Runnable(s) \ {x}}
      /\ NobodyTwice(s) => /\ NobodyTwice(sched')
                           /\ Runnable(sched') = Runnable(s) \ {x}
  BY <1>1, <1>2, SuspendEffect
<1>4. next_pid \in 0 .. PROCS /\ next_pid >= next_pid
  BY DEF SchedInv, SchedTypeOK
<1> QED  BY <1>1, <1>2, <1>3, <1>4 DEF StepEffect, ExactEffect

(* VE and RC add the process they wake up.                                  *)
LEMMA WakeEffect ==
  ASSUME SchedInv, NEW q \in Pids, OpWake(q)
  PROVE  StepEffect({}, {q})
<1>1. /\ Charged \in SchedState /\ Counted(Charged)
      /\ ~stray => NobodyTwice(Charged)
      /\ Runnable(Charged) = Runnable(sched)
  BY ChargedEffect DEF SchedInv
<1>2. /\ sched' \in SchedState /\ Counted(sched')
      /\ Runnable(sched') = Runnable(sched) \cup {q}
      /\ NobodyTwice(Charged) /\ q \notin Runnable(sched) => NobodyTwice(sched')
  BY <1>1, ResumeEffect DEF OpWake
<1>3. /\ q \in Allocated /\ next_pid' = next_pid
      /\ ~stray' => ~stray /\ q \notin Runnable(sched)
  BY DEF OpWake, Resumed, Asleep
<1>4. next_pid \in 0 .. PROCS /\ next_pid >= next_pid /\ q \in Allocated'
  BY <1>3 DEF SchedInv, SchedTypeOK, Allocated
<1> QED  BY <1>1, <1>2, <1>3, <1>4 DEF StepEffect, ExactEffect

(* SD takes the sender out and adds its receiver, in one operation.         *)
LEMMA BlockAndWakeEffect ==
  ASSUME SchedInv, NEW q \in Pids, OpBlockAndWake(q)
  PROVE  StepEffect({sched.current}, {q})
<1> DEFINE b == SchedSuspend(Charged, sched.current)
           x == sched.current
<1>1. /\ Charged \in SchedState /\ Counted(Charged)
      /\ ~stray => NobodyTwice(Charged)
      /\ Runnable(Charged) = Runnable(sched)
      /\ Charged.nr_running > 0 /\ sched.nr_running > 0
      /\ Charged.current = x
  BY ChargedEffect DEF SchedInv, OpBlockAndWake, TickNext, CanTick
<1>2. /\ b \in SchedState /\ Counted(b)
      /\ Runnable(b) \in {Runnable(sched), Runnable(sched) \ {x}}
      /\ ~stray => NobodyTwice(b) /\ Runnable(b) = Runnable(sched) \ {x}
  BY <1>1, SuspendEffect
<1>3. sched' \in SchedResume(b, q)
  BY DEF OpBlockAndWake
<1> HIDE DEF b
<1>4. /\ sched' \in SchedState /\ Counted(sched')
      /\ Runnable(sched') = Runnable(b) \cup {q}
      /\ NobodyTwice(b) /\ q \notin Runnable(b) => NobodyTwice(sched')
  BY <1>2, <1>3, ResumeEffect
<1>5. /\ q \in Allocated /\ next_pid' = next_pid
      /\ ~stray' => ~stray /\ q \notin Runnable(sched)
  BY DEF OpBlockAndWake, Resumed, Asleep
<1>6. next_pid \in 0 .. PROCS /\ next_pid >= next_pid /\ q \in Allocated'
  BY <1>5 DEF SchedInv, SchedTypeOK, Allocated
<1>7. \E left \in {{}, {x}} : Runnable(sched') = (Runnable(sched) \ left) \cup {q}
  BY <1>2, <1>4
<1>8. ~stray' => ~stray /\ ExactEffect({x}, {q})
  BY <1>2, <1>4, <1>5 DEF ExactEffect
<1> QED  BY <1>1, <1>4, <1>5, <1>6, <1>7, <1>8 DEF StepEffect

(* The end of a slice changes who runs and not who is runnable.             *)
LEMMA RotateEffect ==
  ASSUME SchedInv, Rotate
  PROVE  StepEffect({}, {})
<1> DEFINE s == [sched EXCEPT !.min_vruntime = sched.vruntime[Leftmost(sched)]]
<1>1. /\ sched \in SchedState /\ Counted(sched) /\ sched.nr_running \in Nat
      /\ ~stray => NobodyTwice(sched)
      /\ sched.nr_running >= 2 /\ sched.tree \in Seq(Pids)
  BY DEF SchedInv, SchedTypeOK, SchedState, RunQueueOK, Rotate, MustRotate
<1>2. Leftmost(sched) \in Pids
  <2>1. sched.tree # <<>>
    BY <1>1, EmptySeq DEF Counted
  <2> QED  BY <1>1, <2>1, HeadTailProperties DEF Leftmost
<1>3. /\ s \in SchedState /\ s.tree = sched.tree
      /\ s.current = sched.current /\ s.nr_running = sched.nr_running
  BY <1>1, <1>2 DEF SchedState
<1>4. sched' \in Preempt(s)
  BY DEF Rotate
<1>5. /\ Len(sched.tree) + 1 = sched.nr_running
      /\ ~stray => /\ sched.current \notin Range(sched.tree)
                   /\ IsInjective(sched.tree)
  BY <1>1 DEF Counted, NobodyTwice
<1> HIDE DEF s
<1>6. /\ sched' \in SchedState
      /\ Len(sched'.tree) = Len(sched.tree)
      /\ {sched'.current} \cup Range(sched'.tree)
           = {sched.current} \cup Range(sched.tree)
      /\ sched'.nr_running = sched.nr_running
      /\ ~stray => /\ sched'.current \notin Range(sched'.tree)
                   /\ IsInjective(sched'.tree)
  <2>1. /\ sched' \in SchedState
        /\ Len(sched'.tree) = Len(s.tree)
        /\ {sched'.current} \cup Range(sched'.tree)
             = {s.current} \cup Range(s.tree)
        /\ sched'.nr_running = s.nr_running
        /\ IsInjective(s.tree) /\ s.current \notin Range(s.tree) =>
             /\ sched'.current \notin Range(sched'.tree)
             /\ IsInjective(sched'.tree)
    BY <1>3, <1>4, PreemptEffect DEF SameAccounts
  <2> QED  BY <1>3, <1>5, <2>1
<1>7. /\ Counted(sched') /\ Runnable(sched') = Runnable(sched)
      /\ ~stray => NobodyTwice(sched')
  <2>1. sched'.nr_running > 0 /\ sched'.nr_running # 0 /\ sched.nr_running # 0
    BY <1>1, <1>6
  <2>2. Len(sched'.tree) + 1 = sched'.nr_running
    BY <1>5, <1>6
  <2> QED  BY <1>6, <2>1, <2>2 DEF Counted, NobodyTwice, Runnable
<1>8. stray' = stray /\ next_pid' = next_pid /\ next_pid \in 0 .. PROCS
  BY DEF Rotate, SchedInv, SchedTypeOK
<1> QED  BY <1>6, <1>7, <1>8 DEF StepEffect, ExactEffect

(* The other steps leave the run queue alone.                               *)
LEMMA QuietEffect ==
  ASSUME SchedInv,
         \/ StartRunning \/ OpPlain \/ OpError \/ AllAsleep \/ NextSlice
         \/ UNCHANGED schedVars
  PROVE  StepEffect({}, {})
<1>1. sched' = sched \/ sched' = Charged
  BY DEF StartRunning, OpPlain, OpError, AllAsleep, NextSlice, schedVars
<1>2. stray' = stray /\ next_pid' = next_pid /\ next_pid \in 0 .. PROCS
  BY DEF StartRunning, OpPlain, OpError, AllAsleep, NextSlice, schedVars,
         SchedInv, SchedTypeOK
<1>3. /\ sched' \in SchedState /\ Counted(sched')
      /\ ~stray => NobodyTwice(sched')
      /\ Runnable(sched') = Runnable(sched)
  BY <1>1, ChargedEffect DEF SchedInv, SchedTypeOK, RunQueueOK
<1> QED  BY <1>2, <1>3 DEF StepEffect, ExactEffect

-----------------------------------------------------------------------------
(***************************************************************************)
(* The invariant is inductive.                                              *)
(***************************************************************************)
(* Every step takes at most the running process out of the runnable ones    *)
(* and adds at most one allocated process.                                  *)
LEMMA SchedStepEffect ==
  ASSUME SchedInv, [SchedNext]_schedVars
  PROVE  \E blocked, woken \in SUBSET Pids :
           /\ StepEffect(blocked, woken)
           /\ \A p, q \in woken : p = q
<1>1. sched.current \in Pids
  BY DEF SchedInv, SchedTypeOK, SchedState
<1>2. CASE LoadProcess \/ OpFork
  <2>1. StepEffect({}, {next_pid}) /\ {next_pid} \subseteq Pids
    BY <1>2, StartEffect DEF StepEffect, Allocated
  <2> QED  BY <2>1
<1>3. CASE OpBlock \/ OpHalt
  <2>1. StepEffect({sched.current}, {})
    BY <1>3, BlockEffect
  <2> QED  BY <1>1, <2>1
<1>4. ASSUME NEW q \in Pids, OpWake(q) \/ OpBlockAndWake(q)
      PROVE  \E blocked \in SUBSET Pids : StepEffect(blocked, {q})
  <2>1. OpWake(q) => StepEffect({}, {q})
    BY WakeEffect
  <2>2. OpBlockAndWake(q) => StepEffect({sched.current}, {q})
    BY BlockAndWakeEffect
  <2> QED  BY <1>1, <1>4, <2>1, <2>2
<1>5. CASE \E q \in Pids : OpWake(q) \/ OpBlockAndWake(q)
  <2>1. PICK q \in Pids : \E blocked \in SUBSET Pids : StepEffect(blocked, {q})
    BY <1>4, <1>5
  <2> QED  BY <2>1
<1>6. CASE \/ Rotate
           \/ StartRunning \/ OpPlain \/ OpError \/ AllAsleep \/ NextSlice
           \/ UNCHANGED schedVars
  <2>1. StepEffect({}, {})
    BY <1>6, RotateEffect, QuietEffect
  <2> QED  BY <2>1
<1> QED  BY <1>2, <1>3, <1>5, <1>6 DEF SchedNext

(* Every step preserves the invariant.                                      *)
LEMMA SchedNextInv ==
  ASSUME SchedInv, [SchedNext]_schedVars
  PROVE  SchedInv'
<1>1. PICK blocked, woken \in SUBSET Pids : StepEffect(blocked, woken)
  BY SchedStepEffect
<1>2. slice' \in 0 .. SCHED_GRANULARITY
  BY SchedAssumption
     DEF SchedInv, SchedTypeOK, SchedNext, schedVars, LoadProcess, StartRunning,
         OpPlain, OpBlock, OpWake, OpBlockAndWake, OpFork, OpHalt, OpError,
         AllAsleep, NextSlice, Rotate, TickNext, CanTick
<1>3. phase' \in {"load", "run", "done"}
  BY DEF SchedInv, SchedTypeOK, SchedNext, schedVars, LoadProcess, StartRunning,
         OpPlain, OpBlock, OpWake, OpBlockAndWake, OpFork, OpHalt, OpError,
         AllAsleep, NextSlice, Rotate, TickNext
<1>4. halted' \in SUBSET Pids
  BY DEF SchedInv, SchedTypeOK, SchedState, SchedNext, schedVars, LoadProcess,
         StartRunning, StartProcess, OpPlain, OpBlock, OpWake, OpBlockAndWake,
         OpFork, OpHalt, OpError, AllAsleep, NextSlice, Rotate
<1>5. stray' \in BOOLEAN
  BY DEF SchedInv, SchedTypeOK, SchedNext, schedVars, LoadProcess,
         StartRunning, StartProcess, OpPlain, OpBlock, OpWake, OpBlockAndWake,
         OpFork, OpHalt, OpError, AllAsleep, NextSlice, Rotate, Resumed
<1>6. SchedTypeOK' /\ RunQueueOK'
  BY <1>1, <1>2, <1>3, <1>4, <1>5
     DEF SchedTypeOK, RunQueueOK, StepEffect, ExactEffect
<1>7. (Runnable(sched) \subseteq Allocated)'
  <2>1. next_pid \in Int /\ next_pid' \in Int /\ Pids \subseteq Int
    BY <1>1 DEF SchedInv, SchedTypeOK, Pids, StepEffect
  <2>2. Allocated \subseteq Allocated'
    <3>1. next_pid' >= next_pid
      BY <1>1 DEF StepEffect
    <3>2. \A p \in Pids : p < next_pid => p < next_pid'
      BY <2>1, <3>1
    <3> QED  BY <3>2 DEF Allocated
  <2>3. Runnable(sched') \subseteq Allocated \cup woken
    BY <1>1 DEF StepEffect, SchedInv
  <2>4. woken \subseteq Allocated'
    BY <1>1 DEF StepEffect
  <2>5. Runnable(sched') \subseteq Allocated'
    BY <2>2, <2>3, <2>4
  <2> QED  BY <2>5
<1> QED  BY <1>6, <1>7 DEF SchedInv

(* Type correctness and the shape of the run queue: the counter, the tree   *)
(* and rq.current agree after every instruction, whichever processes the    *)
(* instructions resume, and nobody is queued twice before a process has     *)
(* been resumed that was not asleep.                                        *)
THEOREM SchedInvariant == SchedSpec => []SchedInv
BY SchedInitInv, SchedNextInv, PTL DEF SchedSpec

(* Every field of rq and task_table, the position in the slice and the      *)
(* number of processes stay in their types, vruntimes that wrap included.   *)
THEOREM SchedTypeCorrect == SchedSpec => []SchedTypeOK
BY SchedInvariant, PTL DEF SchedInv

(* nr_running counts the running process and the nodes of the tree, so that *)
(* the leftmost of ctxt_switch always finds a node, whatever instructions   *)
(* resume; as long as they resume sleepers only, no process is in the tree  *)
(* twice, nor in it while it runs.                                          *)
THEOREM RunQueueCorrect == SchedSpec => []RunQueueOK
BY SchedInvariant, PTL DEF SchedInv

-----------------------------------------------------------------------------
(***************************************************************************)
(* The scheduler implements the abstract one.                               *)
(***************************************************************************)
(* The elected process is a runnable one.                                   *)
LEMMA ElectedIsRunnable ==
  ASSUME NEW s, s \in SchedState
  PROVE  /\ s.nr_running = 0 <=> Runnable(s) = {}
         /\ s.nr_running # 0 => s.current \in Runnable(s)
         /\ s.nr_running > 0 => s.nr_running # 0
         /\ Runnable(s) \subseteq Pids
BY RangeOfSeq DEF Runnable, SchedState

(* After every step sched_run runs a runnable process if there is one.      *)
LEMMA Elected ==
  ASSUME SchedInv'
  PROVE  RS!Elect
<1>1. sched' \in SchedState
  BY DEF SchedInv, SchedTypeOK
<1>2. /\ sched'.nr_running = 0 <=> Runnable(sched') = {}
      /\ sched'.nr_running # 0 => sched'.current \in Runnable(sched')
  BY <1>1, ElectedIsRunnable
<1> QED  BY <1>2 DEF RS!Elect

(* A step that changes nothing about who is runnable, or one in which the   *)
(* running process leaves, is a step of the abstract scheduler.             *)
LEMMA LeaveOrStay ==
  ASSUME SchedInv, SchedInv',
         \/ Runnable(sched') = Runnable(sched)
         \/ /\ sched.nr_running > 0
            /\ Runnable(sched') = Runnable(sched) \ {sched.current}
  PROVE  [RS!Next]_(RS!runSetVars)
<1>1. /\ sched \in SchedState /\ sched' \in SchedState
      /\ sched.nr_running = 0 <=> Runnable(sched) = {}
      /\ sched'.nr_running = 0 <=> Runnable(sched') = {}
      /\ sched.nr_running > 0 => sched.nr_running # 0
  BY ElectedIsRunnable DEF SchedInv, SchedTypeOK
<1>2. RS!Elect
  BY Elected
<1>3. CASE Runnable(sched) = {}
  <2>1. Runnable(sched') = {} /\ sched.nr_running = 0 /\ sched'.nr_running = 0
    BY <1>1, <1>3
  <2> QED  BY <1>3, <2>1 DEF RS!runSetVars
<1>4. CASE Runnable(sched) # {} /\ Runnable(sched') = Runnable(sched)
  BY <1>2, <1>4 DEF RS!Next, RS!Switch, RS!Reschedule, RS!Idle
<1>5. CASE /\ Runnable(sched) # {} /\ sched.nr_running > 0
           /\ Runnable(sched') = Runnable(sched) \ {sched.current}
  <2>1. RS!Block
    BY <1>1, <1>2, <1>5 DEF RS!Block, RS!Reschedule, RS!Idle
  <2> QED  BY <2>1 DEF RS!Next
<1> QED  BY <1>3, <1>4, <1>5

(* What a step does to the runnable processes and to the current one is a   *)
(* step of the abstract scheduler or a stutter, also when a process that    *)
(* blocks stays in the tree or one that is resumed had been there.          *)
LEMMA SchedStepRefines ==
  ASSUME SchedInv, SchedInv', [SchedNext]_schedVars
  PROVE  [RS!Next]_(RS!runSetVars)
<1> DEFINE R == Runnable(sched)
           x == sched.current
<1>1. PICK blocked, woken \in SUBSET Pids :
        /\ StepEffect(blocked, woken)
        /\ \A p, q \in woken : p = q
  BY SchedStepEffect
<1>2. PICK left \in {{}, blocked} : Runnable(sched') = (R \ left) \cup woken
  BY <1>1 DEF StepEffect
<1>3. /\ left = {} \/ left = {x}
      /\ left # {} => sched.nr_running > 0
  BY <1>1, <1>2 DEF StepEffect
<1>4. RS!Elect
  BY Elected
<1>5. CASE woken \subseteq R
  <2>1. \/ Runnable(sched') = R
        \/ sched.nr_running > 0 /\ Runnable(sched') = R \ {x}
    BY <1>1, <1>2, <1>3, <1>5
  <2> QED  BY <2>1, LeaveOrStay
<1>6. CASE ~(woken \subseteq R)
  <2>1. PICK q \in Pids : woken = {q} /\ q \notin R
    BY <1>1, <1>6
  <2>2. CASE left = {}
    <3>1. RS!Wake(q)
      BY <1>2, <1>4, <2>1, <2>2 DEF RS!Wake, RS!Reschedule
    <3> QED  BY <3>1 DEF RS!Next
  <2>3. CASE left = {x} /\ sched.nr_running > 0
    <3>1. sched.nr_running # 0 /\ R # {}
      BY <2>3, ElectedIsRunnable DEF SchedInv, SchedTypeOK
    <3>2. RS!BlockAndWake(q)
      BY <1>2, <1>4, <2>1, <2>3, <3>1
         DEF RS!BlockAndWake, RS!Reschedule, RS!Idle
    <3> QED  BY <3>2 DEF RS!Next
  <2> QED  BY <1>3, <2>2, <2>3
<1> QED  BY <1>5, <1>6

(* As long as only sleepers are resumed, every operation does to the set of *)
(* runnable processes what it is called for.                                *)
LEMMA OperationsExact ==
  ASSUME SchedInv, SchedInv', ~stray'
  PROVE  DoneAsAsked
<1> DEFINE R == Runnable(sched)
           x == sched.current
<1>1. RS!Elect
  BY Elected
<1>2. /\ sched.nr_running = 0 <=> R = {}
      /\ sched.nr_running > 0 => sched.nr_running # 0
  BY ElectedIsRunnable DEF SchedInv, SchedTypeOK
<1>3. ASSUME OpBlock \/ OpHalt
      PROVE  RS!Block
  <2>1. Runnable(sched') = R \ {x} /\ sched.nr_running > 0
    BY <1>3, BlockEffect DEF StepEffect, ExactEffect
  <2> QED  BY <1>1, <1>2, <2>1 DEF RS!Block, RS!Reschedule, RS!Idle
<1>4. ASSUME LoadProcess \/ OpFork
      PROVE  RS!Wake(next_pid)
  <2>1. Runnable(sched') = R \cup {next_pid} /\ next_pid \notin R
    BY <1>4, StartEffect DEF StepEffect, ExactEffect
  <2> QED  BY <1>1, <2>1 DEF RS!Wake, RS!Reschedule
<1>5. ASSUME NEW q \in Pids, OpWake(q)
      PROVE  RS!Wake(q)
  <2>1. Runnable(sched') = R \cup {q} /\ q \notin R
    BY <1>5, WakeEffect DEF StepEffect, ExactEffect
  <2> QED  BY <1>1, <2>1 DEF RS!Wake, RS!Reschedule
<1>6. ASSUME NEW q \in Pids, OpBlockAndWake(q)
      PROVE  RS!BlockAndWake(q)
  <2>1. /\ Runnable(sched') = (R \ {x}) \cup {q} /\ q \notin R
        /\ sched.nr_running > 0
    BY <1>6, BlockAndWakeEffect DEF StepEffect, ExactEffect
  <2> QED  BY <1>1, <1>2, <2>1 DEF RS!BlockAndWake, RS!Reschedule, RS!Idle
<1> QED  BY <1>3, <1>4, <1>5, <1>6 DEF DoneAsAsked

(* Every behaviour of sched.c is one of the abstract scheduler: operations  *)
(* go to one runnable process, and only a wake-up or the running process    *)
(* itself changes who is runnable.  As long as only sleepers are resumed a  *)
(* process that blocks is out, and one that is woken is in, after the       *)
(* operation that says so.                                                  *)
THEOREM SchedImplementsRunSet == SchedSpec => ImplementsRunSet
<1>1. SchedInit => RS!Init
  BY DEF SchedInit, RS!Init, Runnable
<1>2. SchedInv /\ SchedInv' /\ [SchedNext]_schedVars => [RS!Next]_(RS!runSetVars)
  BY SchedStepRefines
<1>3. SchedInv /\ SchedInv' /\ [SchedNext]_schedVars
        => [~stray' => DoneAsAsked]_schedVars
  BY OperationsExact
<1> QED
  BY <1>1, <1>2, <1>3, SchedInvariant, PTL
     DEF SchedSpec, ImplementsRunSet, RS!Spec
=============================================================================
