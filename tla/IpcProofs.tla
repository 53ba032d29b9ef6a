----------------------------- MODULE IpcProofs -----------------------------
(***************************************************************************)
(* Theorems about programs that use semaphores and messages, for every     *)
(* finite set of processes.  First come the facts both share: what the     *)
(* instructions of a process do to the sets of processes that run and      *)
(* sleep, and what the functions of wait_queue.c do to lists in which      *)
(* every process occurs at most once, which all lists are that the         *)
(* instructions keep.  Then each half of the invariant is shown to be kept *)
(* by its own instructions, and last by those of the other half, which     *)
(* touch no process that waits in its queues.                              *)
(***************************************************************************)
EXTENDS Ipc, SequenceTheorems, FiniteSetTheorems, TLAPS

-----------------------------------------------------------------------------
(***************************************************************************)
(* Who runs and who sleeps.                                                 *)
(***************************************************************************)
(* Whoever runs has been allocated and has not executed HA. *)
OnlyLiveRun == runnable \subseteq allocated /\ runnable \cap halted = {}

ProcsOK == ProcTypeOK /\ pending \in [Pids -> Waits] /\ OnlyLiveRun

(* The instructions that are retried are told apart. *)
LEMMA WaitsDistinct ==
  /\ \A s, t : PE(s) = PE(t) => s = t
  /\ \A a, b : RC(a) = RC(b) => a = b
  /\ \A s, a : PE(s) # RC(a)
  /\ \A s \in Sems : PE(s) \in Waits /\ PE(s) # None
  /\ \A a \in Froms : RC(a) \in Waits /\ RC(a) # None
  /\ None \in Waits
<1>1. /\ \A s, t : PE(s) = PE(t) => s = t
      /\ \A a, b : RC(a) = RC(b) => a = b
  BY DEF PE, RC
<1>2. \A s, a : PE(s) # RC(a)
  BY DEF PE, RC
<1>3. /\ \A s \in Sems : PE(s) \in Waits /\ PE(s) # None
      /\ \A a \in Froms : RC(a) \in Waits /\ RC(a) # None
      /\ None \in Waits
  BY SemAssumption, MsgAssumption DEF Waits, Froms
<1> QED  BY <1>1, <1>2, <1>3

(* The processes load_file has loaded are runnable. *)
LEMMA ProcInitEffect ==
  ASSUME ProcInit
  PROVE  ProcsOK /\ Asleep = {}
<1>1. ProcTypeOK /\ pending \in [Pids -> Waits]
  BY WaitsDistinct DEF ProcInit, ProcTypeOK
<1>2. OnlyLiveRun /\ Asleep = {}
  BY DEF ProcInit, OnlyLiveRun, Asleep
<1> QED  BY <1>1, <1>2 DEF ProcsOK

(* A change of who runs leaves running one of the processes or nobody. *)
LEMMA RescheduleType ==
  ASSUME runnable \subseteq Pids,
         NEW blocked, NEW woken \in SUBSET Pids, Reschedule(blocked, woken)
  PROVE  /\ runnable' = (runnable \ blocked) \cup woken
         /\ runnable' \subseteq Pids
         /\ running' \in Pids \cup {NoPid}
BY DEF Reschedule, Elect

(* An instruction puts its own process to sleep or nobody, and resumes only *)
(* processes that can run: sleepers change exactly so.                      *)
LEMMA RescheduleEffect ==
  ASSUME ProcTypeOK, OnlyLiveRun,
         NEW blocked \in SUBSET runnable,
         NEW woken \in SUBSET (allocated \ halted),
         Reschedule(blocked, woken), DOMAIN pending' = Pids,
         UNCHANGED <<allocated, halted, ended>>
  PROVE  /\ ProcTypeOK' /\ OnlyLiveRun'
         /\ runnable' = (runnable \ blocked) \cup woken
         /\ Asleep' = (Asleep \cup blocked) \ woken
<1>1. /\ runnable \subseteq Pids /\ allocated \subseteq Pids
      /\ halted \subseteq allocated /\ ended \in BOOLEAN
      /\ runnable \subseteq allocated /\ runnable \cap halted = {}
  BY DEF ProcTypeOK, OnlyLiveRun
<1>2. /\ runnable' = (runnable \ blocked) \cup woken
      /\ runnable' \subseteq Pids /\ running' \in Pids \cup {NoPid}
  BY <1>1, RescheduleType
<1>3. ProcTypeOK' /\ OnlyLiveRun'
  BY <1>1, <1>2 DEF ProcTypeOK, OnlyLiveRun
<1>4. Asleep' = (Asleep \cup blocked) \ woken
  BY <1>1, <1>2 DEF Asleep
<1> QED  BY <1>2, <1>3, <1>4

(* The instructions that concern neither semaphores nor messages put nobody *)
(* to sleep: HA takes its process out of the living instead.                *)
LEMMA ProcNextEffect ==
  ASSUME ProcTypeOK, OnlyLiveRun, ProcNext
  PROVE  /\ ProcTypeOK' /\ OnlyLiveRun'
         /\ Asleep' = Asleep
         /\ pending' = pending
<1>1. /\ runnable \subseteq Pids /\ allocated \subseteq Pids
      /\ halted \subseteq allocated /\ DOMAIN pending = Pids
      /\ runnable \subseteq allocated /\ runnable \cap halted = {}
      /\ ended \in BOOLEAN /\ running \in Pids \cup {NoPid}
  BY DEF ProcTypeOK, OnlyLiveRun
<1>2. CASE OpPlain
  <2>1. runnable' = runnable /\ running' \in Pids \cup {NoPid}
    BY <1>1, <1>2, RescheduleType DEF OpPlain
  <2>2. UNCHANGED <<allocated, pending, halted, ended>>
    BY <1>2 DEF OpPlain, Executes
  <2> QED  BY <1>1, <2>1, <2>2 DEF ProcTypeOK, OnlyLiveRun, Asleep
<1>3. CASE OpHalt
  <2>1. /\ runnable' = runnable \ {running}
        /\ runnable' \subseteq Pids /\ running' \in Pids \cup {NoPid}
    BY <1>1, <1>3, RescheduleType DEF OpHalt
  <2>2. /\ halted' = halted \cup {running} /\ running \in runnable
        /\ UNCHANGED <<allocated, pending, ended>>
    BY <1>3 DEF OpHalt, Executes
  <2>3. Asleep' = Asleep
    BY <1>1, <2>1, <2>2 DEF Asleep
  <2> QED  BY <1>1, <2>1, <2>2, <2>3 DEF ProcTypeOK, OnlyLiveRun
<1>4. CASE OpError
  BY <1>1, <1>4 DEF OpError, ProcTypeOK, OnlyLiveRun, Asleep
<1>5. ASSUME NEW q \in Pids, OpFork(q)
      PROVE  /\ ProcTypeOK' /\ OnlyLiveRun'
             /\ Asleep' = Asleep /\ pending' = pending
  <2>1. /\ runnable' = runnable \cup {q}
        /\ runnable' \subseteq Pids /\ running' \in Pids \cup {NoPid}
    BY <1>1, <1>5, RescheduleType DEF OpFork
  <2>2. /\ allocated' = allocated \cup {q} /\ q \notin allocated
        /\ UNCHANGED <<halted, pending, ended>>
    BY <1>5 DEF OpFork, Executes
  <2>3. Asleep' = Asleep
    BY <1>1, <2>1, <2>2 DEF Asleep
  <2> QED  BY <1>1, <2>1, <2>2, <2>3 DEF ProcTypeOK, OnlyLiveRun
<1> QED  BY <1>2, <1>3, <1>4, <1>5 DEF ProcNext

-----------------------------------------------------------------------------
(***************************************************************************)
(* wait_queue.c.                                                            *)
(***************************************************************************)
(* A process that is not in the list joins it behind all the others. *)
LEMMA InsertProcEffect ==
  ASSUME NEW S, NEW q \in Seq(S), NEW p \in S,
         IsInjective(q), p \notin Queued(q)
  PROVE  /\ InsertProc(q, p) \in Seq(S)
         /\ IsInjective(InsertProc(q, p))
         /\ Queued(InsertProc(q, p)) = Queued(q) \cup {p}
<1> DEFINE r == InsertProc(q, p)
<1>1. /\ r \in Seq(S) /\ Len(r) = Len(q) + 1 /\ Len(q) \in Nat
      /\ \A i \in 1 .. Len(q) : r[i] = q[i]
      /\ r[Len(q) + 1] = p
  BY AppendProperties, LenProperties DEF InsertProc
<1> HIDE DEF r
<1>2. DOMAIN q = 1 .. Len(q) /\ DOMAIN r = 1 .. Len(q) + 1
  BY <1>1
<1>3. \A i \in 1 .. Len(q) : q[i] # p
  BY <1>2 DEF Queued, Range
<1>4. IsInjective(r)
  BY <1>1, <1>2, <1>3 DEF IsInjective
<1>5. Queued(r) = Queued(q) \cup {p}
  <2>1. Queued(r) \subseteq Queued(q) \cup {p}
    BY <1>1, <1>2 DEF Queued, Range
  <2>2. Queued(q) \cup {p} \subseteq Queued(r)
    <3>1. p \in Queued(r)
      BY <1>1, <1>2 DEF Queued, Range
    <3>2. \A i \in 1 .. Len(q) : q[i] \in Queued(r)
      BY <1>1, <1>2 DEF Queued, Range
    <3> QED  BY <1>2, <3>1, <3>2 DEF Queued, Range
  <2> QED  BY <2>1, <2>2
<1> QED  BY <1>1, <1>4, <1>5 DEF r

(* The search of remove_proc stops at the node of p. *)
LEMMA RemoveProcAt ==
  ASSUME NEW S, NEW q \in Seq(S), IsInjective(q), NEW k \in 1 .. Len(q)
  PROVE  RemoveProc(q, q[k]) = RemoveAt(q, k)
<1> DEFINE I == { i \in 1 .. Len(q) : q[i] = q[k] }
<1>1. DOMAIN q = 1 .. Len(q) /\ Len(q) \in Nat
  BY LenProperties
<1>2. I = {k}
  BY <1>1 DEF IsInjective
<1>3. SelectInSeq(q, LAMBDA v : v = q[k]) = k
  <2>1. Min({k}) = k
    BY DEF Min
  <2> QED  BY <1>2, <2>1 DEF SelectInSeq
<1> QED  BY <1>3 DEF RemoveProc, RemoveFirst

(* remove_proc takes p out of the list and keeps the others. *)
LEMMA RemoveProcEffect ==
  ASSUME NEW S, NEW q \in Seq(S), IsInjective(q), NEW p \in Queued(q)
  PROVE  /\ RemoveProc(q, p) \in Seq(S)
         /\ IsInjective(RemoveProc(q, p))
         /\ Queued(RemoveProc(q, p)) = Queued(q) \ {p}
<1> DEFINE n == Len(q)
<1>1. PICK k \in 1 .. n : q[k] = p
  BY LenProperties DEF Queued, Range
<1> DEFINE front == SubSeq(q, 1, k - 1)
           back == SubSeq(q, k + 1, n)
           r == front \o back
<1>2. RemoveProc(q, p) = r
  BY <1>1, RemoveProcAt DEF RemoveAt
<1>3. n \in Nat /\ k \in Nat \ {0} /\ k <= n
  BY LenProperties
<1>4. DOMAIN q = 1 .. n
  BY LenProperties
<1>5. /\ front \in Seq(S) /\ Len(front) = k - 1
      /\ \A i \in 1 .. k - 1 : front[i] = q[i]
  BY <1>3, SubSeqProperties
<1>6. /\ back \in Seq(S) /\ Len(back) = n - k
      /\ \A i \in 1 .. n - k : back[i] = q[k + i]
  <2>1. /\ back \in Seq(S)
        /\ Len(back) = IF k + 1 <= n THEN n - (k + 1) + 1 ELSE 0
        /\ \A i \in 1 .. n - (k + 1) + 1 : back[i] = q[(k + 1) + i - 1]
    BY <1>3, SubSeqProperties
  <2> HIDE DEF back, n
  <2>2. n - (k + 1) + 1 = n - k /\ (~(k + 1 <= n) => n - k = 0)
    BY <1>3
  <2>3. Len(back) = n - k
    BY <2>1, <2>2
  <2>4. \A i \in 1 .. n - k : (k + 1) + i - 1 = k + i
    BY <1>3
  <2>5. \A i \in 1 .. n - k : back[i] = q[k + i]
    BY <2>1, <2>2, <2>4
  <2> QED  BY <2>1, <2>3, <2>5
<1> HIDE DEF front, back, n
<1>7. /\ r \in Seq(S) /\ Len(r) = n - 1
      /\ \A i \in 1 .. n - 1 : r[i] = IF i < k THEN q[i] ELSE q[i + 1]
  <2>1. /\ r \in Seq(S) /\ Len(r) = Len(front) + Len(back)
        /\ \A i \in 1 .. Len(front) + Len(back) :
             r[i] = IF i <= Len(front) THEN front[i] ELSE back[i - Len(front)]
    BY <1>5, <1>6, ConcatProperties
  <2> HIDE DEF r
  <2>2. (k - 1) + (n - k) = n - 1
    BY <1>3
  <2>3. /\ Len(r) = n - 1
        /\ \A i \in 1 .. n - 1 :
             r[i] = IF i <= k - 1 THEN front[i] ELSE back[i - (k - 1)]
    BY <1>5, <1>6, <2>1, <2>2
  <2>4. ASSUME NEW i \in 1 .. n - 1, i < k
        PROVE  r[i] = q[i]
    <3>1. i \in 1 .. k - 1 /\ i <= k - 1
      BY <1>3, <2>4
    <3> QED  BY <1>5, <2>3, <3>1
  <2>5. ASSUME NEW i \in 1 .. n - 1, ~(i < k)
        PROVE  r[i] = q[i + 1]
    <3>1. /\ ~(i <= k - 1) /\ i - (k - 1) \in 1 .. n - k
          /\ k + (i - (k - 1)) = i + 1
      BY <1>3, <2>5
    <3>2. r[i] = back[i - (k - 1)]
      BY <2>3, <3>1
    <3> QED  BY <1>6, <3>1, <3>2
  <2> QED  BY <2>1, <2>3, <2>4, <2>5
<1> HIDE DEF r
<1>8. DOMAIN r = 1 .. n - 1
  BY <1>7
<1>9. \A i \in 1 .. n - 1 : /\ i < k => i \in 1 .. n
                            /\ ~(i < k) => i + 1 \in 1 .. n
  BY <1>3
<1>10. IsInjective(r)
  <2> SUFFICES ASSUME NEW i \in 1 .. n - 1, NEW j \in 1 .. n - 1,
                      r[i] = r[j]
               PROVE  i = j
    BY <1>8 DEF IsInjective
  <2> DEFINE at(x) == IF x < k THEN x ELSE x + 1
  <2>1. /\ at(i) \in DOMAIN q /\ r[i] = q[at(i)]
        /\ at(j) \in DOMAIN q /\ r[j] = q[at(j)]
    BY <1>4, <1>7, <1>9
  <2>2. at(i) = at(j)
    BY <2>1 DEF IsInjective
  <2> QED  BY <1>3, <2>2
<1>11. Queued(r) = Queued(q) \ {p}
  <2>1. ASSUME NEW i \in 1 .. n - 1
        PROVE  r[i] \in Queued(q) /\ r[i] # p
    <3>1. CASE i < k
      <4>1. i \in 1 .. n /\ r[i] = q[i] /\ i # k
        BY <1>3, <1>7, <1>9, <3>1
      <4> QED  BY <1>1, <1>4, <4>1 DEF Queued, Range, IsInjective
    <3>2. CASE ~(i < k)
      <4>1. i + 1 \in 1 .. n /\ r[i] = q[i + 1] /\ i + 1 # k
        BY <1>3, <1>7, <1>9, <3>2
      <4> QED  BY <1>1, <1>4, <4>1 DEF Queued, Range, IsInjective
    <3> QED  BY <3>1, <3>2
  <2>2. ASSUME NEW j \in 1 .. n, q[j] # p
        PROVE  q[j] \in Queued(r)
    <3>1. CASE j < k
      <4>1. j \in 1 .. n - 1
        BY <1>3, <3>1
      <4> QED  BY <1>7, <1>8, <3>1, <4>1 DEF Queued, Range
    <3>2. CASE j > k
      <4>1. j - 1 \in 1 .. n - 1 /\ ~(j - 1 < k) /\ (j - 1) + 1 = j
        BY <1>3, <3>2
      <4> QED  BY <1>7, <1>8, <4>1 DEF Queued, Range
    <3> QED  BY <1>1, <1>3, <2>2, <3>1, <3>2
  <2> QED  BY <1>4, <1>8, <2>1, <2>2 DEF Queued, Range
<1> QED  BY <1>2, <1>7, <1>10, <1>11

(* A list without p is left alone. *)
LEMMA RemoveProcAbsent ==
  ASSUME NEW S, NEW q \in Seq(S), NEW p, p \notin Queued(q)
  PROVE  RemoveProc(q, p) = q
<1>1. \A i \in 1 .. Len(q) : q[i] # p
  BY LenProperties DEF Queued, Range
<1> QED  BY <1>1 DEF RemoveProc, RemoveFirst

-----------------------------------------------------------------------------
(***************************************************************************)
(* Semaphores, for every set of them.                                      *)
(***************************************************************************)
(***************************************************************************)
(* The inductive invariant.  That sleepers and queues are the same depends  *)
(* on the running process being no sleeper: it is allocated and has not     *)
(* halted, so it becomes a sleeper when PE suspends it.                     *)
(***************************************************************************)
SemInv == ProcsOK /\ SemTypeOK /\ SleepersQueued

(* The processes loaded before sched_run are runnable, and nobody waits. *)
LEMMA SemInitInv == ProcInit /\ SemTableInit => SemInv
<1> SUFFICES ASSUME ProcInit, SemTableInit PROVE SemInv
  OBVIOUS
<1> USE DEF SemTableInit
<1>1. ProcsOK /\ Asleep = {}
  BY ProcInitEffect
<1>2. SemTypeOK
  <2>1. sem_table \in [Sems -> 0 .. MaxSem]
    BY SemAssumption
  <2>2. sem_wq \in [Sems -> Seq(Pids)]
    BY EmptySeq
  <2> QED  BY <2>1, <2>2 DEF SemTypeOK
<1>3. SleepersQueued
  <2>1. \A s \in Sems : Waiters(s) = {} /\ IsInjective(sem_wq[s])
    BY DEF Waiters, Queued, Range, IsInjective
  <2> QED  BY <1>1, <2>1 DEF SleepersQueued
<1> QED  BY <1>1, <1>2, <1>3 DEF SemInv

(* Steps that neither put anybody to sleep nor wake anybody up, and leave   *)
(* the queues and what sleepers wait for alone.                             *)
LEMMA SleepersKept ==
  ASSUME SleepersQueued, sem_wq' = sem_wq, Asleep' = Asleep,
         \A p \in Asleep : pending'[p] = pending[p]
  PROVE  SleepersQueued'
BY DEF SleepersQueued, Waiters

(* The instructions that do not concern semaphores. *)
LEMMA ProcNextInv ==
  ASSUME SemInv, ProcNext, UNCHANGED semVars
  PROVE  SemInv'
<1>1. /\ ProcTypeOK' /\ OnlyLiveRun'
      /\ Asleep' = Asleep /\ pending' = pending
  BY ProcNextEffect DEF SemInv, ProcsOK
<1>2. ProcsOK' /\ SemTypeOK'
  BY <1>1 DEF SemInv, ProcsOK, SemTypeOK, semVars
<1>3. SleepersQueued'
  BY <1>1, SleepersKept DEF SemInv, semVars
<1> QED  BY <1>1, <1>2, <1>3 DEF SemInv

(* PE of a semaphore that is free. *)
LEMMA TakeSemInv ==
  ASSUME SemInv, NEW s \in Sems, Executes(PE(s)), TakeSem(s),
         UNCHANGED <<allocated, halted>>
  PROVE  SemInv'
<1>1. /\ runnable \subseteq Pids /\ running \in runnable
      /\ pending \in [Pids -> Waits]
      /\ sem_table \in [Sems -> 0 .. MaxSem] /\ MaxSem \in Nat
  BY SemAssumption DEF SemInv, ProcsOK, SemTypeOK, ProcTypeOK, Executes
<1>2. runnable' = runnable /\ running' \in Pids \cup {NoPid}
  BY <1>1, RescheduleType DEF TakeSem
<1>3. /\ pending' = [pending EXCEPT ![running] = None]
      /\ pending' \in [Pids -> Waits]
  BY <1>1, WaitsDistinct DEF TakeSem, Proceed
<1>4. sem_table' \in [Sems -> 0 .. MaxSem]
  BY <1>1 DEF TakeSem
<1>5. SleepersQueued'
  <2>1. Asleep' = Asleep
    BY <1>2 DEF Asleep
  <2>2. \A p \in Asleep : p # running /\ p \in Pids
    BY <1>1 DEF Asleep, SemInv, ProcsOK, ProcTypeOK
  <2> QED  BY <1>1, <1>3, <2>1, <2>2, SleepersKept DEF SemInv, TakeSem
<1> QED  BY <1>1, <1>2, <1>3, <1>4, <1>5
         DEF SemInv, ProcsOK, SemTypeOK, ProcTypeOK, OnlyLiveRun, TakeSem, Executes

(* PE of a semaphore that is not: the process joins the queue. *)
LEMMA WaitForSemInv ==
  ASSUME SemInv, NEW s \in Sems, Executes(PE(s)), WaitForSem(s),
         UNCHANGED <<allocated, halted>>
  PROVE  SemInv'
<1> DEFINE p == running
<1>1. /\ runnable \subseteq Pids /\ p \in runnable /\ p \in Pids
      /\ pending \in [Pids -> Waits]
      /\ sem_wq \in [Sems -> Seq(Pids)]
      /\ p \in allocated /\ p \notin halted
  BY DEF SemInv, ProcsOK, SemTypeOK, ProcTypeOK, OnlyLiveRun, Executes
<1>2. runnable' = runnable \ {p} /\ running' \in Pids \cup {NoPid}
  BY <1>1, RescheduleType DEF WaitForSem
<1>3. /\ pending' = [pending EXCEPT ![p] = PE(s)]
      /\ pending' \in [Pids -> Waits]
  BY <1>1, WaitsDistinct DEF WaitForSem, RetryOp
<1>4. /\ p \notin Asleep /\ Asleep' = Asleep \cup {p}
  BY <1>1, <1>2 DEF Asleep
<1>5. IsInjective(sem_wq[s]) /\ p \notin Queued(sem_wq[s])
  BY <1>4 DEF SemInv, SleepersQueued, Waiters
<1>6. /\ sem_wq' = [sem_wq EXCEPT ![s] = InsertProc(sem_wq[s], p)]
      /\ InsertProc(sem_wq[s], p) \in Seq(Pids)
      /\ IsInjective(InsertProc(sem_wq[s], p))
      /\ Queued(InsertProc(sem_wq[s], p)) = Waiters(s) \cup {p}
  BY <1>1, <1>5, InsertProcEffect DEF WaitForSem, Waiters
<1>7. SemTypeOK' /\ ProcTypeOK' /\ pending' \in [Pids -> Waits]
  BY <1>1, <1>2, <1>3, <1>6
     DEF SemInv, ProcsOK, SemTypeOK, ProcTypeOK, WaitForSem, Executes
<1>8. SleepersQueued'
  <2>1. ASSUME NEW t \in Sems
        PROVE  /\ IsInjective(sem_wq'[t])
               /\ Queued(sem_wq'[t]) = { r \in Asleep' : pending'[r] = PE(t) }
    <3>1. \A r \in Asleep : r \in Pids /\ pending'[r] = pending[r]
      BY <1>1, <1>3, <1>4 DEF Asleep, SemInv, ProcsOK, ProcTypeOK
    <3>2. pending'[p] = PE(s)
      BY <1>1, <1>3
    <3>3. Waiters(t) = { r \in Asleep : pending[r] = PE(t) } /\ IsInjective(sem_wq[t])
      BY DEF SemInv, SleepersQueued
    <3>4. CASE t = s
      <4>1. sem_wq'[t] = InsertProc(sem_wq[s], p)
        BY <1>1, <1>6, <3>4
      <4> QED  BY <1>4, <1>6, <3>1, <3>2, <3>3, <3>4, <4>1
    <3>5. CASE t # s
      <4>1. sem_wq'[t] = sem_wq[t]
        BY <1>1, <1>6, <3>5
      <4>2. PE(s) # PE(t)
        BY <3>5 DEF PE
      <4> QED  BY <1>4, <3>1, <3>2, <3>3, <4>1, <4>2 DEF Waiters
    <3> QED  BY <3>4, <3>5
  <2> QED  BY <2>1 DEF SleepersQueued, Waiters
<1>9. OnlyLiveRun'
  BY <1>2 DEF SemInv, ProcsOK, OnlyLiveRun, WaitForSem
<1> QED  BY <1>7, <1>8, <1>9 DEF SemInv, ProcsOK

(* VE resumes the first process of the queue, which sleeps, and the queue   *)
(* forgets it.                                                              *)
LEMMA SemUpWakes ==
  ASSUME SemInv, NEW s \in Sems, SemUp(s), sem_wq[s] # <<>>
  PROVE  LET w == Head(sem_wq[s])
         IN  /\ w \in Asleep /\ pending[w] = PE(s) /\ w \notin runnable
             /\ runnable' = runnable \cup {w}
             /\ Asleep' = Asleep \ {w}
             /\ sem_wq' = [sem_wq EXCEPT ![s] = RemoveProc(@, w)]
             /\ RemoveProc(sem_wq[s], w) \in Seq(Pids)
             /\ IsInjective(RemoveProc(sem_wq[s], w))
             /\ Queued(RemoveProc(sem_wq[s], w)) = Waiters(s) \ {w}
<1> DEFINE w == Head(sem_wq[s])
<1>1. sem_wq[s] \in Seq(Pids) /\ IsInjective(sem_wq[s])
  BY DEF SemInv, SemTypeOK, SleepersQueued
<1>2. w \in Queued(sem_wq[s])
  <2>1. Len(sem_wq[s]) \in Nat \ {0} /\ w = sem_wq[s][1]
    BY <1>1, EmptySeq
  <2>2. DOMAIN sem_wq[s] = 1 .. Len(sem_wq[s])
    BY <1>1
  <2> QED  BY <2>1, <2>2 DEF Queued, Range
<1>3. w \in Asleep /\ pending[w] = PE(s)
  BY <1>2 DEF SemInv, SleepersQueued, Waiters
<1>4. w \in Pids /\ w \notin runnable /\ runnable \subseteq Pids
  BY <1>3 DEF Asleep, SemInv, ProcsOK, ProcTypeOK
<1>5. /\ RemoveProc(sem_wq[s], w) \in Seq(Pids)
      /\ IsInjective(RemoveProc(sem_wq[s], w))
      /\ Queued(RemoveProc(sem_wq[s], w)) = Waiters(s) \ {w}
  BY <1>1, <1>2, RemoveProcEffect DEF Waiters
<1>6. sem_wq' = [sem_wq EXCEPT ![s] = RemoveProc(@, w)]
  BY DEF SemUp, WakeFirst
<1>7. runnable' = runnable \cup {w}
  <2>1. FirstWaiter(s) = {w}
    BY DEF FirstWaiter
  <2> QED  BY <1>4, <2>1, RescheduleType DEF SemUp, WakeFirst
<1>8. Asleep' = Asleep \ {w}
  BY <1>7 DEF SemUp, Asleep
<1> QED  BY <1>3, <1>4, <1>5, <1>6, <1>7, <1>8

(* VE. *)
LEMMA SemUpInv ==
  ASSUME SemInv, NEW s \in Sems, SemUp(s)
  PROVE  SemInv'
<1>1. /\ runnable \subseteq Pids
      /\ sem_table \in [Sems -> 0 .. MaxSem] /\ MaxSem \in Nat
      /\ sem_wq \in [Sems -> Seq(Pids)]
  BY SemAssumption DEF SemInv, ProcsOK, SemTypeOK, ProcTypeOK
<1>2. /\ UNCHANGED <<allocated, pending, halted, ended>>
      /\ sem_table' \in [Sems -> 0 .. MaxSem]
  BY <1>1 DEF SemUp, Executes
<1>3. CASE sem_wq[s] = <<>>
  <2>1. FirstWaiter(s) = {}
    BY <1>3 DEF FirstWaiter
  <2>2. runnable' = runnable /\ running' \in Pids \cup {NoPid}
    <3>1. Reschedule({}, {})
      BY <2>1 DEF SemUp, WakeFirst
    <3>2. runnable' = (runnable \ {}) \cup {} /\ running' \in Pids \cup {NoPid}
      BY <1>1, <3>1 DEF Reschedule, Elect
    <3> QED  BY <3>2
  <2>3. sem_wq' = sem_wq
    BY <1>1, <1>3 DEF SemUp, WakeFirst
  <2>4. SleepersQueued'
    BY <1>2, <2>2, <2>3, SleepersKept DEF SemInv, Asleep
  <2> QED  BY <1>1, <1>2, <2>2, <2>3, <2>4
           DEF SemInv, ProcsOK, SemTypeOK, ProcTypeOK, OnlyLiveRun
<1>4. CASE sem_wq[s] # <<>>
  <2> DEFINE w == Head(sem_wq[s])
  <2>1. /\ w \in Asleep /\ pending[w] = PE(s)
        /\ runnable' = runnable \cup {w}
        /\ Asleep' = Asleep \ {w}
        /\ sem_wq' = [sem_wq EXCEPT ![s] = RemoveProc(@, w)]
        /\ RemoveProc(sem_wq[s], w) \in Seq(Pids)
        /\ IsInjective(RemoveProc(sem_wq[s], w))
        /\ Queued(RemoveProc(sem_wq[s], w)) = Waiters(s) \ {w}
    BY <1>4, SemUpWakes
  <2> HIDE DEF w
  <2>2. w \in Pids /\ w \in allocated /\ w \notin halted
    BY <2>1 DEF Asleep, SemInv, ProcsOK, ProcTypeOK
  <2>3. running' \in Pids \cup {NoPid}
    BY <1>1, <2>1, <2>2 DEF SemUp, WakeFirst, Reschedule, Elect
  <2>4. SemTypeOK' /\ ProcsOK'
    BY <1>1, <1>2, <2>1, <2>2, <2>3
       DEF SemInv, ProcsOK, SemTypeOK, ProcTypeOK, OnlyLiveRun
  <2>5. ASSUME NEW t \in Sems
        PROVE  /\ IsInjective(sem_wq'[t])
               /\ Queued(sem_wq'[t]) = { r \in Asleep' : pending'[r] = PE(t) }
    <3>1. Waiters(t) = { r \in Asleep : pending[r] = PE(t) } /\ IsInjective(sem_wq[t])
      BY DEF SemInv, SleepersQueued
    <3>2. CASE t = s
      <4>1. sem_wq'[t] = RemoveProc(sem_wq[s], w)
        BY <1>1, <2>1, <3>2
      <4> QED  BY <1>2, <2>1, <3>1, <3>2, <4>1
    <3>3. CASE t # s
      <4>1. sem_wq'[t] = sem_wq[t]
        BY <1>1, <2>1, <3>3
      <4>2. PE(s) # PE(t)
        BY <3>3 DEF PE
      <4> QED  BY <1>2, <2>1, <3>1, <4>1, <4>2 DEF Waiters
    <3> QED  BY <3>2, <3>3
  <2>6. SleepersQueued'
    BY <1>2, <2>1, <2>5 DEF SemInv, SleepersQueued, Waiters
  <2> QED  BY <2>4, <2>6 DEF SemInv
<1> QED  BY <1>3, <1>4

(* SI. *)
LEMMA SetSemInv ==
  ASSUME SemInv, NEW s \in Sems, NEW v \in SetVals, SetSem(s, v)
  PROVE  SemInv'
<1>1. /\ runnable \subseteq Pids
      /\ sem_table' \in [Sems -> 0 .. MaxSem]
  BY SemAssumption DEF SemInv, ProcsOK, SemTypeOK, ProcTypeOK, SetSem
<1>2. runnable' = runnable /\ running' \in Pids \cup {NoPid}
  BY <1>1, RescheduleType DEF SetSem
<1>3. UNCHANGED <<allocated, pending, halted, ended, sem_wq>>
  BY DEF SetSem, Executes
<1>4. SleepersQueued'
  BY <1>2, <1>3, SleepersKept DEF SemInv, Asleep
<1> QED  BY <1>1, <1>2, <1>3, <1>4
         DEF SemInv, ProcsOK, SemTypeOK, ProcTypeOK, OnlyLiveRun

(* The semaphore instructions keep their half of the invariant. *)
LEMMA SemNextInv ==
  ASSUME SemInv, SemNext
  PROVE  SemInv'
<1>1. ASSUME NEW s \in Sems, SemDown(s) PROVE SemInv'
  BY <1>1, TakeSemInv, WaitForSemInv DEF SemDown
<1>2. ASSUME NEW s \in Sems, SemUp(s) PROVE SemInv'
  BY <1>2, SemUpInv
<1>3. ASSUME NEW s \in Sems, NEW v \in SetVals, SetSem(s, v) PROVE SemInv'
  BY <1>3, SetSemInv
<1> QED  BY <1>1, <1>2, <1>3 DEF SemNext

-----------------------------------------------------------------------------
(***************************************************************************)
(* No wake-up is lost, for programs whose SI only sets a semaphore to 0.    *)
(***************************************************************************)

LEMMA RetryingFinite ==
  ASSUME runnable \subseteq Pids, NEW s \in Sems
  PROVE  IsFiniteSet(Retrying(s)) /\ Cardinality(Retrying(s)) \in Nat
<1>1. Retrying(s) \subseteq Pids
  BY DEF Retrying
<1> QED  BY <1>1, ProcAssumption, FS_Subset, FS_CardinalityType

(* Nothing is lost for a semaphore whose value does not grow, whose queue   *)
(* stays, and whose woken processes keep on retrying.                       *)
LEMMA MatchKept ==
  ASSUME NEW s \in Sems, runnable' \subseteq Pids,
         sem_table[s] \in Nat, sem_table'[s] \in Nat,
         sem_table'[s] <= sem_table[s],
         Retrying(s) \subseteq Retrying(s)',
         sem_table[s] <= Cardinality(Retrying(s))
  PROVE  sem_table'[s] <= Cardinality(Retrying(s)')
<1>1. IsFiniteSet(Retrying(s)') /\ Cardinality(Retrying(s)') \in Nat
  <2>1. Retrying(s)' \subseteq Pids
    BY DEF Retrying
  <2> QED  BY <2>1, ProcAssumption, FS_Subset, FS_CardinalityType
<1>2. /\ Cardinality(Retrying(s)) \in Nat
      /\ Cardinality(Retrying(s)) <= Cardinality(Retrying(s)')
  BY <1>1, FS_Subset, FS_CardinalityType
<1> QED  BY <1>1, <1>2

(* The same for all semaphores, whose queues stay as they are. *)
LEMMA AllKept ==
  ASSUME SemInv, SemInv', NoLostWakeup, sem_wq' = sem_wq,
         \A s \in Sems : sem_table'[s] <= sem_table[s],
         \A s \in Sems : Retrying(s) \subseteq Retrying(s)'
  PROVE  NoLostWakeup'
<1>1. runnable' \subseteq Pids
  BY DEF SemInv, ProcsOK, SemTypeOK, ProcTypeOK
<1>2. \A s \in Sems : sem_table[s] \in Nat /\ sem_table'[s] \in Nat
  BY SemAssumption DEF SemInv, SemTypeOK
<1>3. ASSUME NEW s \in Sems, sem_wq'[s] # <<>>
      PROVE  sem_table'[s] <= Cardinality(Retrying(s)')
  <2>1. sem_table[s] <= Cardinality(Retrying(s))
    BY <1>3 DEF NoLostWakeup
  <2> QED  BY <1>1, <1>2, <2>1, MatchKept
<1> QED  BY <1>3 DEF NoLostWakeup

(* HA is executed by a process that retries nothing. *)
LEMMA ProcNextMatch ==
  ASSUME SemInv, SemInv', NoLostWakeup, ProcNext, UNCHANGED semVars
  PROVE  NoLostWakeup'
<1>1. \A s \in Sems : sem_table'[s] <= sem_table[s]
  BY SemAssumption DEF SemInv, SemTypeOK, semVars
<1>2. pending' = pending
  BY DEF ProcNext, OpPlain, OpHalt, OpError, OpFork
<1>3. ASSUME NEW s \in Sems PROVE Retrying(s) \subseteq Retrying(s)'
  <2>1. CASE OpPlain \/ OpError \/ \E q \in Pids : OpFork(q)
    <3>1. runnable \subseteq runnable'
      BY <2>1 DEF OpPlain, OpError, OpFork, Reschedule
    <3> QED  BY <1>2, <3>1 DEF Retrying
  <2>2. CASE OpHalt
    <3>1. runnable' = runnable \ {running} /\ pending[running] = None
      BY <2>2 DEF OpHalt, Executes, Reschedule
    <3>2. running \notin Retrying(s)
      BY <3>1, SemAssumption DEF Retrying
    <3> QED  BY <1>2, <3>1, <3>2 DEF Retrying
  <2> QED  BY <2>1, <2>2 DEF ProcNext
<1> QED  BY <1>1, <1>3, AllKept DEF semVars

(* Whoever takes a unit was woken up for it, or takes it from those who     *)
(* were, who then wait again.                                               *)
LEMMA TakeSemMatch ==
  ASSUME SemInv, SemInv', NoLostWakeup, NEW s \in Sems,
         Executes(PE(s)), TakeSem(s)
  PROVE  NoLostWakeup'
<1>1. /\ runnable \subseteq Pids /\ running \in runnable
      /\ pending \in [Pids -> Waits]
      /\ pending[running] \in {None, PE(s)}
      /\ sem_table \in [Sems -> 0 .. MaxSem] /\ MaxSem \in Nat
  BY SemAssumption DEF SemInv, ProcsOK, SemTypeOK, ProcTypeOK, Executes
<1>2. /\ runnable' = runnable /\ sem_wq' = sem_wq
      /\ pending' = [pending EXCEPT ![running] = None]
      /\ sem_table[s] > 0
      /\ sem_table' = [sem_table EXCEPT ![s] = @ - 1]
  BY <1>1, RescheduleType DEF TakeSem, Proceed
<1>3. ASSUME NEW t \in Sems
      PROVE  Retrying(t)' = Retrying(t) \ {running}
  BY <1>1, <1>2, SemAssumption DEF Retrying
<1>4. \A t \in Sems : sem_table[t] \in Nat /\ sem_table'[t] \in Nat
  BY <1>1, <1>2
<1>5. ASSUME NEW t \in Sems, sem_wq'[t] # <<>>
      PROVE  sem_table'[t] <= Cardinality(Retrying(t)')
  <2>1. sem_table[t] <= Cardinality(Retrying(t))
    BY <1>2, <1>5 DEF NoLostWakeup
  <2>2. IsFiniteSet(Retrying(t)) /\ Cardinality(Retrying(t)) \in Nat
    BY <1>1, RetryingFinite
  <2>3. CASE t = s
    <3>1. sem_table'[t] = sem_table[t] - 1
      BY <1>1, <1>2, <2>3
    <3>2. Cardinality(Retrying(t)') \in
            {Cardinality(Retrying(t)), Cardinality(Retrying(t)) - 1}
      BY <1>3, <2>2, FS_RemoveElement
    <3> QED  BY <1>4, <2>1, <2>2, <3>1, <3>2
  <2>4. CASE t # s
    <3>1. sem_table'[t] = sem_table[t]
      BY <1>1, <1>2, <2>4
    <3>2. running \notin Retrying(t)
      <4>1. PE(s) # PE(t)
        BY <2>4 DEF PE
      <4> QED  BY <1>1, <4>1, SemAssumption DEF Retrying
    <3>3. Retrying(t)' = Retrying(t)
      BY <1>3, <3>2
    <3> QED  BY <2>1, <3>1, <3>3
  <2> QED  BY <2>3, <2>4
<1> QED  BY <1>5 DEF NoLostWakeup

(* A process waits only for a semaphore of which there is none. *)
LEMMA WaitForSemMatch ==
  ASSUME SemInv, SemInv', NoLostWakeup, NEW s \in Sems,
         Executes(PE(s)), WaitForSem(s)
  PROVE  NoLostWakeup'
<1>1. /\ running \in runnable /\ runnable \subseteq Pids
      /\ pending \in [Pids -> Waits]
      /\ pending[running] \in {None, PE(s)}
      /\ sem_wq \in [Sems -> Seq(Pids)]
  BY DEF SemInv, ProcsOK, SemTypeOK, ProcTypeOK, Executes
<1>2. /\ runnable' = runnable \ {running}
      /\ pending' = [pending EXCEPT ![running] = PE(s)]
      /\ sem_table[s] = 0 /\ sem_table' = sem_table
      /\ sem_wq' = [sem_wq EXCEPT ![s] = InsertProc(@, running)]
  BY DEF WaitForSem, RetryOp, Reschedule
<1>3. runnable' \subseteq Pids
  BY <1>1, <1>2
<1>4. ASSUME NEW t \in Sems, sem_wq'[t] # <<>>
      PROVE  sem_table'[t] <= Cardinality(Retrying(t)')
  <2>1. CASE t = s
    <3>1. Cardinality(Retrying(t)') \in Nat
      <4>1. Retrying(t)' \subseteq Pids
        BY <1>3 DEF Retrying
      <4> QED  BY <4>1, ProcAssumption, FS_Subset, FS_CardinalityType
    <3> QED  BY <1>2, <2>1, <3>1
  <2>2. CASE t # s
    <3>1. sem_wq'[t] = sem_wq[t]
      BY <1>1, <1>2, <2>2
    <3>2. running \notin Retrying(t)
      <4>1. PE(s) # PE(t)
        BY <2>2 DEF PE
      <4> QED  BY <1>1, <4>1, SemAssumption DEF Retrying
    <3>3. Retrying(t) \subseteq Retrying(t)'
      BY <1>1, <1>2, <3>2 DEF Retrying
    <3>4. /\ sem_table[t] \in Nat /\ sem_table'[t] \in Nat
          /\ sem_table'[t] <= sem_table[t]
      BY <1>2, SemAssumption DEF SemInv, SemTypeOK
    <3>5. sem_table[t] <= Cardinality(Retrying(t))
      BY <1>4, <3>1 DEF NoLostWakeup
    <3> QED  BY <1>3, <3>3, <3>4, <3>5, MatchKept
  <2> QED  BY <2>1, <2>2
<1> QED  BY <1>4 DEF NoLostWakeup

(* The unit VE adds comes with a process that is woken up for it. *)
LEMMA SemUpMatch ==
  ASSUME SemInv, SemInv', NoLostWakeup, NEW s \in Sems, SemUp(s)
  PROVE  NoLostWakeup'
<1>1. /\ runnable \subseteq Pids /\ runnable' \subseteq Pids
      /\ sem_table \in [Sems -> 0 .. MaxSem] /\ MaxSem \in Nat
      /\ sem_wq \in [Sems -> Seq(Pids)]
  BY SemAssumption DEF SemInv, ProcsOK, SemTypeOK, ProcTypeOK
<1>2. /\ pending' = pending
      /\ sem_table' = [sem_table EXCEPT ![s] = @ + 1]
      /\ runnable \subseteq runnable'
      /\ sem_wq' = [sem_wq EXCEPT ![s] =
                      IF @ = <<>> THEN @ ELSE RemoveProc(@, Head(@))]
  BY DEF SemUp, WakeFirst, Reschedule
<1>3. \A t \in Sems : Retrying(t) \subseteq Retrying(t)'
  BY <1>2 DEF Retrying
<1>4. ASSUME NEW t \in Sems, t # s, sem_wq'[t] # <<>>
      PROVE  sem_table'[t] <= Cardinality(Retrying(t)')
  <2>1. sem_wq'[t] = sem_wq[t] /\ sem_table'[t] = sem_table[t]
    BY <1>1, <1>2, <1>4
  <2>2. sem_table[t] <= Cardinality(Retrying(t))
    BY <1>4, <2>1 DEF NoLostWakeup
  <2>3. sem_table[t] \in Nat /\ sem_table'[t] <= sem_table[t]
    BY <1>1, <2>1
  <2> QED  BY <1>1, <1>3, <2>1, <2>2, <2>3, MatchKept
<1>5. ASSUME sem_wq'[s] # <<>>
      PROVE  sem_table'[s] <= Cardinality(Retrying(s)')
  <2> DEFINE w == Head(sem_wq[s])
  <2>1. sem_wq[s] # <<>>
    BY <1>1, <1>2, <1>5
  <2>2. /\ w \in Asleep /\ pending[w] = PE(s) /\ w \notin runnable
        /\ runnable' = runnable \cup {w}
    BY <2>1, SemUpWakes
  <2> HIDE DEF w
  <2>3. w \notin Retrying(s) /\ Retrying(s)' = Retrying(s) \cup {w}
    BY <1>2, <2>2 DEF Retrying
  <2>4. IsFiniteSet(Retrying(s)) /\ Cardinality(Retrying(s)) \in Nat
    BY <1>1, RetryingFinite
  <2>5. Cardinality(Retrying(s)') = Cardinality(Retrying(s)) + 1
    BY <2>3, <2>4, FS_AddElement
  <2>6. sem_table'[s] = sem_table[s] + 1 /\ sem_table[s] \in Nat
    BY <1>1, <1>2
  <2>7. sem_table[s] <= Cardinality(Retrying(s))
    BY <2>1 DEF NoLostWakeup
  <2> QED  BY <2>4, <2>5, <2>6, <2>7
<1> QED  BY <1>4, <1>5 DEF NoLostWakeup

(* An SI that takes all units away loses nothing. *)
LEMMA SetSemMatch ==
  ASSUME SemInv, SemInv', NoLostWakeup, NEW s \in Sems, SetSem(s, 0)
  PROVE  NoLostWakeup'
<1>1. /\ pending' = pending /\ runnable \subseteq runnable'
      /\ sem_wq' = sem_wq /\ sem_table' = [sem_table EXCEPT ![s] = 0]
  BY DEF SetSem, Reschedule
<1>2. \A t \in Sems : sem_table'[t] <= sem_table[t]
  BY <1>1, SemAssumption DEF SemInv, SemTypeOK
<1>3. \A t \in Sems : Retrying(t) \subseteq Retrying(t)'
  BY <1>1 DEF Retrying
<1> QED  BY <1>1, <1>2, <1>3, AllKept

(* The semaphore instructions keep it. *)
LEMMA SemNextMatch ==
  ASSUME SetVals \subseteq {0}, SemInv, SemInv', NoLostWakeup, SemNext
  PROVE  NoLostWakeup'
<1>1. ASSUME NEW s \in Sems, SemDown(s) PROVE NoLostWakeup'
  BY <1>1, TakeSemMatch, WaitForSemMatch DEF SemDown
<1>2. ASSUME NEW s \in Sems, SemUp(s) PROVE NoLostWakeup'
  BY <1>2, SemUpMatch
<1>3. ASSUME NEW s \in Sems, NEW v \in SetVals, SetSem(s, v)
      PROVE  NoLostWakeup'
  <2>1. v = 0
    OBVIOUS
  <2> QED  BY <1>3, <2>1, SetSemMatch
<1> QED  BY <1>1, <1>2, <1>3 DEF SemNext

(* Only VE resumes anybody: the head of the queue, which sleeps in its PE.  *)
LEMMA SemNextWakes ==
  ASSUME SemInv, SemNext, NEW p \in runnable', p \notin runnable
  PROVE  \E s \in Sems : /\ SemUp(s) /\ sem_wq[s] # <<>>
                        /\ p = Head(sem_wq[s]) /\ p \in Asleep /\ pending[p] = PE(s)
<1>1. \A s \in Sems : ~SemDown(s)
  BY DEF SemDown, TakeSem, WaitForSem, Reschedule
<1>2. \A s \in Sems : \A v \in SetVals : ~SetSem(s, v)
  BY DEF SetSem, Reschedule
<1>3. PICK s \in Sems : SemUp(s)
  BY <1>1, <1>2 DEF SemNext
<1>4. runnable' = runnable \cup FirstWaiter(s)
  BY <1>3 DEF SemUp, WakeFirst, Reschedule
<1>5. sem_wq[s] # <<>> /\ p = Head(sem_wq[s])
  BY <1>4 DEF FirstWaiter
<1>6. p \in Asleep /\ pending[p] = PE(s)
  BY <1>3, <1>5, SemUpWakes
<1> QED  BY <1>3, <1>5, <1>6

-----------------------------------------------------------------------------
(***************************************************************************)
(* Messages, for programs whose RC always names the sender.  With RC ** the *)
(* invariant is lost: see msg_any.cfg.                                      *)
(***************************************************************************)
(***************************************************************************)
(* The inductive invariant.  Nobody is in the queue of RC **, so that the   *)
(* queue in which SD finds its receiver is the one it removes it from; and  *)
(* then sleepers, what they wait for and the queues determine each other.   *)
(***************************************************************************)
OnceInQueue ==
  /\ \A q \in Pids : IsInjective(send_wq[q])
  /\ \A r \in Froms : IsInjective(recv_wq[r])

SendersSleep ==
  \A q \in Pids : Senders(q) \subseteq { p \in Asleep : pending[p] = None }

OneReceiver ==
  \A p \in Asleep : pending[p] = None => \E q \in Pids : Sending(p) = {q}

ReceiversQueued ==
  \A r \in Froms : Queued(recv_wq[r]) = { q \in Asleep : pending[q] = RC(r) }

SenderNamed == \A p \in Pids : pending[p] # RC(AnyPid)

MsgInv ==
  /\ ProcsOK
  /\ MsgTypeOK
  /\ OnceInQueue
  /\ SendersSleep
  /\ OneReceiver
  /\ ReceiversQueued
  /\ SenderNamed
  /\ NoMissedRendezvous

LEMMA SleepersArePids ==
  ASSUME MsgInv
  PROVE  /\ Asleep \subseteq Pids
         /\ \A p \in runnable : p \in Pids /\ p \notin Asleep
         /\ Asleep \subseteq allocated \ halted
BY DEF MsgInv, ProcsOK, ProcTypeOK, Asleep

(* A process that runs neither sends nor waits for a message. *)
LEMMA RunnersUnqueued ==
  ASSUME MsgInv, NEW p \in runnable
  PROVE  /\ Sending(p) = {}
         /\ \A q \in Pids : p \notin Senders(q)
         /\ \A r \in Froms : p \notin Queued(recv_wq[r])
<1>1. p \notin Asleep
  BY SleepersArePids
<1> QED  BY <1>1 DEF MsgInv, SendersSleep, ReceiversQueued, Sending

(* The processes loaded before sched_run are runnable, and nobody waits. *)
LEMMA MsgInitInv == ProcInit /\ MsgQueuesInit => MsgInv
<1> SUFFICES ASSUME ProcInit, MsgQueuesInit PROVE MsgInv
  OBVIOUS
<1>1. ProcsOK /\ Asleep = {}
  BY ProcInitEffect
<1>2. /\ recv_wq = [p \in Pids \cup {AnyPid} |-> <<>>]
      /\ send_wq = [p \in Pids |-> <<>>]
  BY DEF MsgQueuesInit
<1>3. pending = [p \in Pids |-> None]
  BY DEF ProcInit
<1>4. MsgTypeOK
  BY <1>2, EmptySeq DEF MsgTypeOK
<1>5. \A q \in Pids : Senders(q) = {} /\ IsInjective(send_wq[q])
  BY <1>2 DEF Senders, Queued, Range, IsInjective
<1>6. \A r \in Froms : Queued(recv_wq[r]) = {} /\ IsInjective(recv_wq[r])
  BY <1>2 DEF Froms, Queued, Range, IsInjective
<1>7. SenderNamed
  BY <1>3, MsgAssumption DEF SenderNamed
<1>8. OnceInQueue /\ SendersSleep
  BY <1>5, <1>6 DEF OnceInQueue, SendersSleep
<1>9. OneReceiver /\ ReceiversQueued /\ NoMissedRendezvous
  BY <1>1, <1>6 DEF OneReceiver, ReceiversQueued, NoMissedRendezvous
<1> QED  BY <1>1, <1>4, <1>7, <1>8, <1>9 DEF MsgInv

(* The instructions that do not concern messages. *)
LEMMA ProcNextMsgInv ==
  ASSUME MsgInv, ProcNext, UNCHANGED msgVars
  PROVE  MsgInv'
<1>1. /\ ProcTypeOK' /\ OnlyLiveRun'
      /\ Asleep' = Asleep /\ pending' = pending
  BY ProcNextEffect DEF MsgInv, ProcsOK
<1>2. send_wq' = send_wq /\ recv_wq' = recv_wq
  BY DEF msgVars
<1>3. ProcsOK' /\ MsgTypeOK'
  BY <1>1, <1>2 DEF MsgInv, ProcsOK, MsgTypeOK
<1>4. OnceInQueue' /\ SendersSleep' /\ OneReceiver'
  BY <1>1, <1>2
     DEF MsgInv, OnceInQueue, SendersSleep, OneReceiver, Sending, Senders
<1>5. ReceiversQueued' /\ SenderNamed' /\ NoMissedRendezvous'
  BY <1>1, <1>2
     DEF MsgInv, ReceiversQueued, SenderNamed, NoMissedRendezvous, Senders,
         WaitsFor
<1> QED  BY <1>1, <1>3, <1>4, <1>5 DEF MsgInv

-----------------------------------------------------------------------------
(* RC that finds a message: its sender runs again, and no queue has it.     *)
LEMMA TakeMessageEffect ==
  ASSUME MsgInv, NEW from \in Froms, Executes(RC(from)), TakeMessage(from)
  PROVE  \E sender \in Senders(running) :
           /\ runnable' = runnable \cup {sender}
           /\ send_wq' = [send_wq EXCEPT
                            ![running] = RemoveProc(@, sender)]
           /\ RemoveProc(send_wq[running], sender) \in Seq(Pids)
           /\ IsInjective(RemoveProc(send_wq[running], sender))
           /\ Queued(RemoveProc(send_wq[running], sender))
                = Senders(running) \ {sender}
           /\ Reschedule({}, {sender})
<1>1. /\ running \in Pids /\ send_wq[running] \in Seq(Pids)
      /\ IsInjective(send_wq[running])
  BY SleepersArePids DEF MsgInv, MsgTypeOK, OnceInQueue, Executes
<1>2. PICK i \in Accepted(from) :
        /\ send_wq' = [send_wq EXCEPT
                         ![running] = RemoveProc(@, send_wq[running][i])]
        /\ Reschedule({}, {send_wq[running][i]})
  BY DEF TakeMessage
<1> DEFINE sender == send_wq[running][i]
<1>3. i \in 1 .. Len(send_wq[running])
  BY <1>2 DEF Accepted, Acceptable
<1>4. sender \in Senders(running)
  BY <1>1, <1>3, LenProperties DEF Senders, Queued, Range
<1>5. /\ RemoveProc(send_wq[running], sender) \in Seq(Pids)
      /\ IsInjective(RemoveProc(send_wq[running], sender))
      /\ Queued(RemoveProc(send_wq[running], sender))
           = Senders(running) \ {sender}
  BY <1>1, <1>4, RemoveProcEffect DEF Senders
<1>6. runnable' = runnable \cup {sender}
  BY <1>2 DEF Reschedule
<1> HIDE DEF sender
<1> QED  BY <1>2, <1>4, <1>5, <1>6 DEF sender

LEMMA TakeMessageInv ==
  ASSUME MsgInv, NEW from \in Froms, Executes(RC(from)), TakeMessage(from),
         UNCHANGED <<allocated, halted>>
  PROVE  MsgInv'
<1>0. PICK p \in Pids : p = running
  BY SleepersArePids DEF Executes
<1>1. /\ p \in runnable /\ p \in Pids /\ p \notin Asleep
      /\ pending \in [Pids -> Waits]
      /\ send_wq \in [Pids -> Seq(Pids)]
      /\ recv_wq' = recv_wq /\ ended' = ended
      /\ pending' = [pending EXCEPT ![p] = None]
  BY <1>0, SleepersArePids
     DEF MsgInv, ProcsOK, MsgTypeOK, Froms, Executes, TakeMessage, Proceed
<1>2. PICK w \in Senders(p) :
        /\ runnable' = runnable \cup {w}
        /\ send_wq' = [send_wq EXCEPT ![p] = RemoveProc(@, w)]
        /\ RemoveProc(send_wq[p], w) \in Seq(Pids)
        /\ IsInjective(RemoveProc(send_wq[p], w))
        /\ Queued(RemoveProc(send_wq[p], w)) = Senders(p) \ {w}
        /\ Reschedule({}, {w})
  BY <1>0, TakeMessageEffect
<1>3. w \in Asleep /\ pending[w] = None /\ w \in Pids
  BY <1>1, SleepersArePids DEF MsgInv, SendersSleep
<1>4. /\ ProcsOK'
      /\ Asleep' = Asleep \ {w}
  <2>1. w \in allocated \ halted
    BY <1>3, SleepersArePids
  <2>2. pending' \in [Pids -> Waits] /\ DOMAIN pending' = Pids
    BY <1>1, WaitsDistinct
  <2>3. ProcTypeOK /\ OnlyLiveRun
    BY DEF MsgInv, ProcsOK
  <2>4. {} \in SUBSET runnable /\ {w} \in SUBSET (allocated \ halted)
    BY <2>1
  <2>5. ProcTypeOK' /\ OnlyLiveRun' /\ Asleep' = (Asleep \cup {}) \ {w}
    BY <1>1, <1>2, <2>2, <2>3, <2>4, RescheduleEffect
  <2> QED  BY <2>2, <2>5 DEF ProcsOK
<1>5. /\ Senders(p)' = Senders(p) \ {w}
      /\ \A q \in Pids : q # p => Senders(q)' = Senders(q)
  BY <1>1, <1>2 DEF Senders
<1>6. \A x \in Asleep : x \in Pids /\ pending'[x] = pending[x]
  BY <1>1, SleepersArePids
<1>7. MsgTypeOK'
  <2>1. send_wq' \in [Pids -> Seq(Pids)]
    BY <1>1, <1>2
  <2> QED  BY <1>1, <2>1 DEF MsgInv, MsgTypeOK
<1>8. OnceInQueue'
  BY <1>1, <1>2 DEF MsgInv, OnceInQueue
<1>9. Sending(w) = {p}
  <2>1. \E q \in Pids : Sending(w) = {q}
    BY <1>3 DEF MsgInv, OneReceiver
  <2>2. p \in Sending(w)
    BY <1>1, <1>2 DEF Sending
  <2> QED  BY <2>1, <2>2
<1>10. SendersSleep'
  <2> SUFFICES ASSUME NEW q \in Pids, NEW x \in Senders(q)'
               PROVE  x \in Asleep' /\ pending'[x] = None
    BY DEF SendersSleep
  <2>1. x \in Senders(q)
    BY <1>5
  <2>2. x \in Asleep /\ pending[x] = None
    BY <2>1 DEF MsgInv, SendersSleep
  <2>3. x # w
    <3>1. CASE q = p
      BY <1>5, <3>1
    <3>2. CASE q # p
      <4>1. q \notin Sending(w)
        BY <1>9, <3>2
      <4> QED  BY <2>1, <4>1 DEF Sending
    <3> QED  BY <3>1, <3>2
  <2> QED  BY <1>4, <1>6, <2>2, <2>3
<1>11. OneReceiver'
  <2> SUFFICES ASSUME NEW x \in Asleep', pending'[x] = None
               PROVE  \E q \in Pids : Sending(x)' = {q}
    BY DEF OneReceiver
  <2>1. x \in Asleep /\ x # w /\ pending[x] = None
    BY <1>4, <1>6
  <2>2. \A q \in Pids : x \in Senders(q)' <=> x \in Senders(q)
    BY <1>5, <2>1
  <2>3. Sending(x)' = Sending(x)
    BY <2>2 DEF Sending
  <2> QED  BY <2>1, <2>3 DEF MsgInv, OneReceiver
<1>12. ReceiversQueued'
  <2> SUFFICES ASSUME NEW r \in Froms
               PROVE  Queued(recv_wq[r]) =
                        { q \in Asleep' : pending'[q] = RC(r) }
    BY <1>1 DEF ReceiversQueued
  <2>1. Queued(recv_wq[r]) = { q \in Asleep : pending[q] = RC(r) }
    BY DEF MsgInv, ReceiversQueued
  <2>2. pending[w] # RC(r)
    BY <1>3, MsgAssumption DEF Froms
  <2> QED  BY <1>4, <1>6, <2>1, <2>2
<1>13. SenderNamed'
  BY <1>1, MsgAssumption DEF MsgInv, SenderNamed
<1>14. NoMissedRendezvous'
  <2> SUFFICES ASSUME NEW q \in Asleep', NEW x \in Senders(q)'
               PROVE  ~WaitsFor(q, x)'
    BY DEF NoMissedRendezvous
  <2>1. q \in Asleep /\ q \in Pids /\ q # p /\ pending'[q] = pending[q]
    BY <1>1, <1>4, <1>6
  <2>2. x \in Senders(q)
    BY <1>5, <2>1
  <2> QED  BY <2>1, <2>2 DEF MsgInv, NoMissedRendezvous, WaitsFor
<1> QED  BY <1>4, <1>7, <1>8, <1>10, <1>11, <1>12, <1>13, <1>14 DEF MsgInv

(* RC that finds none: the process joins the queue of the sender it names,  *)
(* who is not in its own queue.                                             *)
LEMMA WaitForMessageInv ==
  ASSUME MsgInv, NEW from \in Pids, Executes(RC(from)), WaitForMessage(from),
         UNCHANGED <<allocated, halted>>
  PROVE  MsgInv'
<1>0. PICK p \in Pids : p = running
  BY SleepersArePids DEF Executes
<1>1. /\ p \in runnable /\ p \in Pids /\ p \notin Asleep /\ from \in Froms
      /\ pending \in [Pids -> Waits]
      /\ recv_wq \in [Froms -> Seq(Pids)] /\ send_wq \in [Pids -> Seq(Pids)]
      /\ send_wq' = send_wq /\ ended' = ended
      /\ pending' = [pending EXCEPT ![p] = RC(from)]
      /\ recv_wq' = [recv_wq EXCEPT ![from] = InsertProc(@, p)]
  BY <1>0, SleepersArePids
     DEF MsgInv, ProcsOK, MsgTypeOK, Froms, Executes, WaitForMessage, RetryOp
<1>2. /\ InsertProc(recv_wq[from], p) \in Seq(Pids)
      /\ IsInjective(InsertProc(recv_wq[from], p))
      /\ Queued(InsertProc(recv_wq[from], p)) = Queued(recv_wq[from]) \cup {p}
  <2>1. p \notin Queued(recv_wq[from]) /\ IsInjective(recv_wq[from])
    BY <1>1, RunnersUnqueued DEF MsgInv, OnceInQueue
  <2> QED  BY <1>1, <2>1, InsertProcEffect
<1>3. /\ ProcsOK'
      /\ Asleep' = Asleep \cup {p}
  <2>1. pending' \in [Pids -> Waits] /\ DOMAIN pending' = Pids
    BY <1>1, WaitsDistinct
  <2>2. ProcTypeOK /\ OnlyLiveRun /\ Reschedule({p}, {})
    BY <1>0 DEF MsgInv, ProcsOK, WaitForMessage
  <2>3. {p} \in SUBSET runnable /\ {} \in SUBSET (allocated \ halted)
    BY <1>1
  <2>4. ProcTypeOK' /\ OnlyLiveRun' /\ Asleep' = (Asleep \cup {p}) \ {}
    BY <1>1, <2>1, <2>2, <2>3, RescheduleEffect
  <2> QED  BY <2>1, <2>4 DEF ProcsOK
<1>4. \A q \in Pids : Senders(q)' = Senders(q)
  BY <1>1 DEF Senders
<1>5. /\ \A x \in Asleep : x \in Pids /\ x # p /\ pending'[x] = pending[x]
      /\ pending'[p] = RC(from)
  BY <1>1, SleepersArePids
<1>6. RC(from) # None
  BY <1>1, MsgAssumption DEF Froms
<1>7. MsgTypeOK'
  <2>1. recv_wq' \in [Pids \cup {AnyPid} -> Seq(Pids)]
    BY <1>1, <1>2 DEF Froms
  <2> QED  BY <1>1, <2>1 DEF MsgTypeOK
<1>8. OnceInQueue'
  BY <1>1, <1>2 DEF MsgInv, OnceInQueue
<1>9. SendersSleep'
  BY <1>3, <1>4, <1>5 DEF MsgInv, SendersSleep
<1>10. OneReceiver'
  <2> SUFFICES ASSUME NEW x \in Asleep', pending'[x] = None
               PROVE  \E q \in Pids : Sending(x)' = {q}
    BY DEF OneReceiver
  <2>1. x \in Asleep /\ pending[x] = None
    BY <1>3, <1>5, <1>6
  <2>2. Sending(x)' = Sending(x)
    BY <1>4 DEF Sending
  <2> QED  BY <2>1, <2>2 DEF MsgInv, OneReceiver
<1>11. ReceiversQueued'
  <2> SUFFICES ASSUME NEW r \in Froms
               PROVE  Queued(recv_wq'[r]) =
                        { q \in Asleep' : pending'[q] = RC(r) }
    BY DEF ReceiversQueued
  <2>1. Queued(recv_wq[r]) = { q \in Asleep : pending[q] = RC(r) }
    BY DEF MsgInv, ReceiversQueued
  <2>2. CASE r = from
    BY <1>1, <1>2, <1>3, <1>5, <2>1, <2>2
  <2>3. CASE r # from
    <3>1. RC(from) # RC(r)
      BY <2>3, WaitsDistinct
    <3>2. recv_wq'[r] = recv_wq[r]
      BY <1>1, <2>3
    <3> QED  BY <1>3, <1>5, <2>1, <3>1, <3>2
  <2> QED  BY <2>2, <2>3
<1>12. SenderNamed'
  <2>1. RC(from) # RC(AnyPid)
    BY MsgAssumption, WaitsDistinct
  <2> QED  BY <1>1, <2>1 DEF MsgInv, SenderNamed
<1>13. NoMissedRendezvous'
  <2> SUFFICES ASSUME NEW q \in Asleep', NEW x \in Senders(q)'
               PROVE  ~WaitsFor(q, x)'
    BY DEF NoMissedRendezvous
  <2>1. CASE q = p
    <3>1. x \in Senders(p)
      BY <1>1, <1>4, <2>1
    <3>2. x # from
      <4>1. send_wq[p] \in Seq(Pids)
        BY <1>1
      <4>2. PICK i \in 1 .. Len(send_wq[p]) : x = send_wq[p][i]
        BY <3>1, <4>1, LenProperties DEF Senders, Queued, Range
      <4> QED  BY <1>0, <4>2 DEF WaitForMessage, Acceptable
    <3>3. RC(from) # RC(x) /\ RC(from) # RC(AnyPid)
      BY <3>2, MsgAssumption, WaitsDistinct
    <3> QED  BY <1>5, <2>1, <3>3 DEF WaitsFor
  <2>2. CASE q # p
    <3>1. q \in Asleep /\ q \in Pids /\ pending'[q] = pending[q]
      BY <1>3, <1>5, <2>2
    <3>2. x \in Senders(q)
      BY <1>4, <3>1
    <3> QED  BY <3>1, <3>2 DEF MsgInv, NoMissedRendezvous, WaitsFor
  <2> QED  BY <2>1, <2>2
<1> QED  BY <1>3, <1>7, <1>8, <1>9, <1>10, <1>11, <1>12, <1>13 DEF MsgInv
-----------------------------------------------------------------------------
(* SD that finds its receiver waiting: it resumes the receiver, which is in *)
(* the queue of this sender since nobody is in the one of RC **.            *)
LEMMA SendToWaiterEffect ==
  ASSUME MsgInv, NEW q \in Pids, Send(q), WaitsForThis(q) \/ WaitsForAny(q)
  PROVE  /\ q \in Asleep /\ pending[q] = RC(running)
         /\ Reschedule({running}, {q})
         /\ recv_wq' = [recv_wq EXCEPT ![running] = RemoveProc(@, q)]
         /\ RemoveProc(recv_wq[running], q) \in Seq(Pids)
         /\ IsInjective(RemoveProc(recv_wq[running], q))
         /\ Queued(RemoveProc(recv_wq[running], q))
              = Queued(recv_wq[running]) \ {q}
<1>1. running \in Froms /\ AnyPid \in Froms
  BY SleepersArePids DEF Send, Executes, Froms
<1>2. q \notin Queued(recv_wq[AnyPid])
  BY <1>1 DEF MsgInv, ReceiversQueued, SenderNamed
<1>3. q \in Queued(recv_wq[running])
  BY <1>2 DEF WaitsForThis, WaitsForAny
<1>4. q \in Asleep /\ pending[q] = RC(running)
  BY <1>1, <1>3 DEF MsgInv, ReceiversQueued
<1>5. /\ Reschedule({running}, {q})
      /\ recv_wq' = [recv_wq EXCEPT ![running] = RemoveProc(@, q)]
  BY DEF Send, WakeReceiver, ForgetReceiver
<1>6. /\ RemoveProc(recv_wq[running], q) \in Seq(Pids)
      /\ IsInjective(RemoveProc(recv_wq[running], q))
      /\ Queued(RemoveProc(recv_wq[running], q))
           = Queued(recv_wq[running]) \ {q}
  <2>1. recv_wq[running] \in Seq(Pids) /\ IsInjective(recv_wq[running])
    BY <1>1 DEF MsgInv, MsgTypeOK, OnceInQueue, Froms
  <2> QED  BY <1>3, <2>1, RemoveProcEffect
<1> QED  BY <1>4, <1>5, <1>6

(* What SD does in any case: its process joins the queue of the receiver.   *)
LEMMA SendJoins ==
  ASSUME MsgInv, NEW q \in Pids, Send(q), NEW p \in Pids, p = running
  PROVE  /\ p \in runnable /\ p \notin Asleep /\ pending[p] = None
         /\ UNCHANGED <<allocated, pending, halted, ended>>
         /\ send_wq' \in [Pids -> Seq(Pids)]
         /\ \A r \in Pids : IsInjective(send_wq'[r])
         /\ Senders(q)' = Senders(q) \cup {p}
         /\ \A r \in Pids : r # q => Senders(r)' = Senders(r)
         /\ Sending(p)' = {q}
         /\ \A x \in Pids : x # p => Sending(x)' = Sending(x)
<1>1. /\ p \in runnable /\ p \notin Asleep /\ pending[p] = None
      /\ UNCHANGED <<allocated, pending, halted, ended>>
      /\ send_wq \in [Pids -> Seq(Pids)]
      /\ send_wq' = [send_wq EXCEPT ![q] = InsertProc(@, p)]
  BY SleepersArePids DEF MsgInv, MsgTypeOK, Send, Executes
<1>2. p \notin Queued(send_wq[q]) /\ IsInjective(send_wq[q])
  BY <1>1, RunnersUnqueued DEF MsgInv, OnceInQueue, Senders
<1>3. /\ InsertProc(send_wq[q], p) \in Seq(Pids)
      /\ IsInjective(InsertProc(send_wq[q], p))
      /\ Queued(InsertProc(send_wq[q], p)) = Queued(send_wq[q]) \cup {p}
  BY <1>1, <1>2, InsertProcEffect
<1>4. /\ send_wq' \in [Pids -> Seq(Pids)]
      /\ \A r \in Pids : IsInjective(send_wq'[r])
  BY <1>1, <1>3 DEF MsgInv, OnceInQueue
<1>5. /\ Senders(q)' = Senders(q) \cup {p}
      /\ \A r \in Pids : r # q => Senders(r)' = Senders(r)
  BY <1>1, <1>3 DEF Senders
<1>6. \A r \in Pids : p \notin Senders(r)
  BY <1>1, RunnersUnqueued
<1>7. Sending(p)' = {q}
  BY <1>5, <1>6 DEF Sending
<1>8. \A x \in Pids : x # p => Sending(x)' = Sending(x)
  BY <1>5 DEF Sending
<1> QED  BY <1>1, <1>4, <1>5, <1>7, <1>8

(* SD to a process that waits for a message of this one. *)
LEMMA SendToWaiterInv ==
  ASSUME MsgInv, NEW q \in Pids, Send(q), WaitsForThis(q) \/ WaitsForAny(q)
  PROVE  MsgInv'
<1>0. PICK p \in Pids : p = running
  BY SleepersArePids DEF Send, Executes
<1>1. /\ p \in runnable /\ p \notin Asleep /\ pending[p] = None
      /\ UNCHANGED <<allocated, pending, halted, ended>>
      /\ send_wq' \in [Pids -> Seq(Pids)]
      /\ \A r \in Pids : IsInjective(send_wq'[r])
      /\ Senders(q)' = Senders(q) \cup {p}
      /\ \A r \in Pids : r # q => Senders(r)' = Senders(r)
      /\ Sending(p)' = {q}
      /\ \A x \in Pids : x # p => Sending(x)' = Sending(x)
  BY <1>0, SendJoins
<1>2. /\ q \in Asleep /\ pending[q] = RC(p) /\ p # q
      /\ Reschedule({p}, {q})
      /\ recv_wq' = [recv_wq EXCEPT ![p] = RemoveProc(@, q)]
      /\ RemoveProc(recv_wq[p], q) \in Seq(Pids)
      /\ IsInjective(RemoveProc(recv_wq[p], q))
      /\ Queued(RemoveProc(recv_wq[p], q)) = Queued(recv_wq[p]) \ {q}
  BY <1>0, <1>1, SendToWaiterEffect
<1>3. recv_wq \in [Froms -> Seq(Pids)] /\ p \in Froms
  BY DEF MsgInv, MsgTypeOK, Froms
<1>4. /\ ProcsOK'
      /\ Asleep' = (Asleep \cup {p}) \ {q}
  <2>1. /\ ProcTypeOK /\ OnlyLiveRun /\ DOMAIN pending' = Pids
        /\ pending' \in [Pids -> Waits]
    BY <1>1 DEF MsgInv, ProcsOK, ProcTypeOK
  <2>2. {p} \in SUBSET runnable /\ {q} \in SUBSET (allocated \ halted)
    BY <1>1, <1>2, SleepersArePids
  <2>3. ProcTypeOK' /\ OnlyLiveRun' /\ Asleep' = (Asleep \cup {p}) \ {q}
    BY <1>1, <1>2, <2>1, <2>2, RescheduleEffect
  <2> QED  BY <2>1, <2>3 DEF ProcsOK
<1>5. RC(p) # None
  BY MsgAssumption
<1>6. MsgTypeOK'
  <2>1. recv_wq' \in [Pids \cup {AnyPid} -> Seq(Pids)]
    BY <1>2, <1>3 DEF Froms
  <2> QED  BY <1>1, <1>4, <2>1 DEF MsgInv, MsgTypeOK
<1>7. OnceInQueue'
  BY <1>1, <1>2, <1>3 DEF MsgInv, OnceInQueue
<1>8. SendersSleep'
  <2> SUFFICES ASSUME NEW r \in Pids, NEW x \in Senders(r)'
               PROVE  x \in Asleep' /\ pending'[x] = None
    BY DEF SendersSleep
  <2>1. x = p \/ x \in Senders(r)
    BY <1>1
  <2>2. x \in Senders(r) => x \in Asleep /\ pending[x] = None
    BY DEF MsgInv, SendersSleep
  <2> QED  BY <1>1, <1>2, <1>4, <1>5, <2>1, <2>2
<1>9. OneReceiver'
  <2> SUFFICES ASSUME NEW x \in Asleep', pending'[x] = None
               PROVE  \E r \in Pids : Sending(x)' = {r}
    BY DEF OneReceiver
  <2>1. x = p \/ (x \in Asleep /\ x \in Pids /\ x # p /\ pending[x] = None)
    BY <1>1, <1>4, SleepersArePids
  <2> QED  BY <1>1, <2>1 DEF MsgInv, OneReceiver
<1>10. ReceiversQueued'
  <2> SUFFICES ASSUME NEW r \in Froms
               PROVE  Queued(recv_wq'[r]) =
                        { x \in Asleep' : pending'[x] = RC(r) }
    BY DEF ReceiversQueued
  <2>1. Queued(recv_wq[r]) = { x \in Asleep : pending[x] = RC(r) }
    BY DEF MsgInv, ReceiversQueued
  <2>2. pending[p] # RC(r)
    BY <1>1, MsgAssumption DEF Froms
  <2>3. CASE r = p
    BY <1>1, <1>2, <1>3, <1>4, <2>1, <2>2, <2>3
  <2>4. CASE r # p
    <3>1. pending[q] # RC(r)
      BY <1>2, <2>4, WaitsDistinct
    <3>2. recv_wq'[r] = recv_wq[r]
      BY <1>2, <1>3, <2>4
    <3> QED  BY <1>1, <1>4, <2>1, <2>2, <3>1, <3>2
  <2> QED  BY <2>3, <2>4
<1>11. SenderNamed'
  BY <1>1 DEF MsgInv, SenderNamed
<1>12. NoMissedRendezvous'
  <2> SUFFICES ASSUME NEW r \in Asleep', NEW x \in Senders(r)'
               PROVE  ~WaitsFor(r, x)'
    BY DEF NoMissedRendezvous
  <2>1. r \in Pids /\ r # q /\ (r = p \/ r \in Asleep)
    BY <1>4, SleepersArePids
  <2>2. CASE r = p
    <3>1. RC(x) # None /\ RC(AnyPid) # None
      <4>1. x \in Pids
        BY <1>1, <1>2, <2>1, <2>2, SleepersArePids DEF MsgInv, SendersSleep
      <4> QED  BY <4>1, MsgAssumption
    <3> QED  BY <1>1, <2>2, <3>1 DEF WaitsFor
  <2>3. CASE r \in Asleep
    <3>1. x \in Senders(r)
      BY <1>1, <2>1
    <3> QED  BY <1>1, <2>3, <3>1 DEF MsgInv, NoMissedRendezvous, WaitsFor
  <2> QED  BY <2>1, <2>2, <2>3
<1> QED  BY <1>4, <1>6, <1>7, <1>8, <1>9, <1>10, <1>11, <1>12 DEF MsgInv

(* SD to a process that does not wait for it. *)
LEMMA SendAndSleepInv ==
  ASSUME MsgInv, NEW q \in Pids, Send(q), ~WaitsForThis(q), ~WaitsForAny(q)
  PROVE  MsgInv'
<1>0. PICK p \in Pids : p = running
  BY SleepersArePids DEF Send, Executes
<1>1. /\ p \in runnable /\ p \notin Asleep /\ pending[p] = None
      /\ UNCHANGED <<allocated, pending, halted, ended>>
      /\ send_wq' \in [Pids -> Seq(Pids)]
      /\ \A r \in Pids : IsInjective(send_wq'[r])
      /\ Senders(q)' = Senders(q) \cup {p}
      /\ \A r \in Pids : r # q => Senders(r)' = Senders(r)
      /\ Sending(p)' = {q}
      /\ \A x \in Pids : x # p => Sending(x)' = Sending(x)
  BY <1>0, SendJoins
<1>2. recv_wq' = recv_wq /\ Reschedule({p}, {})
  BY <1>0 DEF Send, WakeReceiver
<1>3. q \notin Queued(recv_wq[p]) /\ q \notin Queued(recv_wq[AnyPid])
  BY <1>0 DEF WaitsForThis, WaitsForAny
<1>4. /\ ProcsOK'
      /\ Asleep' = Asleep \cup {p}
  <2>1. /\ ProcTypeOK /\ OnlyLiveRun /\ DOMAIN pending' = Pids
        /\ pending' \in [Pids -> Waits]
    BY <1>1 DEF MsgInv, ProcsOK, ProcTypeOK
  <2>2. {p} \in SUBSET runnable /\ {} \in SUBSET (allocated \ halted)
    BY <1>1
  <2>3. ProcTypeOK' /\ OnlyLiveRun' /\ Asleep' = (Asleep \cup {p}) \ {}
    BY <1>1, <1>2, <2>1, <2>2, RescheduleEffect
  <2> QED  BY <2>1, <2>3 DEF ProcsOK
<1>5. MsgTypeOK'
  BY <1>1, <1>2, <1>4 DEF MsgInv, MsgTypeOK
<1>6. OnceInQueue'
  BY <1>1, <1>2 DEF MsgInv, OnceInQueue
<1>7. SendersSleep'
  BY <1>1, <1>4 DEF MsgInv, SendersSleep
<1>8. OneReceiver'
  <2> SUFFICES ASSUME NEW x \in Asleep', pending'[x] = None
               PROVE  \E r \in Pids : Sending(x)' = {r}
    BY DEF OneReceiver
  <2>1. x = p \/ (x \in Asleep /\ x \in Pids /\ x # p /\ pending[x] = None)
    BY <1>1, <1>4, SleepersArePids
  <2> QED  BY <1>1, <2>1 DEF MsgInv, OneReceiver
<1>9. ReceiversQueued'
  <2> SUFFICES ASSUME NEW r \in Froms
               PROVE  Queued(recv_wq[r]) =
                        { x \in Asleep' : pending'[x] = RC(r) }
    BY <1>2 DEF ReceiversQueued
  <2>1. Queued(recv_wq[r]) = { x \in Asleep : pending[x] = RC(r) }
    BY DEF MsgInv, ReceiversQueued
  <2>2. pending[p] # RC(r)
    BY <1>1, MsgAssumption DEF Froms
  <2> QED  BY <1>1, <1>4, <2>1, <2>2
<1>10. SenderNamed'
  BY <1>1 DEF MsgInv, SenderNamed
<1>11. NoMissedRendezvous'
  <2> SUFFICES ASSUME NEW r \in Asleep', NEW x \in Senders(r)'
               PROVE  ~WaitsFor(r, x)'
    BY DEF NoMissedRendezvous
  <2>1. r \in Pids /\ (r = p \/ r \in Asleep)
    BY <1>4, SleepersArePids
  <2>2. x \in Senders(r) \/ (x = p /\ r = q)
    BY <1>1, <2>1
  <2>3. x \in Pids
    BY <2>1, <2>2, SleepersArePids DEF MsgInv, SendersSleep
  <2>4. CASE r = p
    <3>1. RC(x) # None /\ RC(AnyPid) # None
      BY <2>3, MsgAssumption
    <3> QED  BY <1>1, <2>4, <3>1 DEF WaitsFor
  <2>5. CASE r \in Asleep /\ x \in Senders(r)
    BY <1>1, <2>5 DEF MsgInv, NoMissedRendezvous, WaitsFor
  <2>6. CASE r \in Asleep /\ x = p /\ r = q
    <3>1. pending[q] # RC(p) /\ pending[q] # RC(AnyPid)
      BY <1>3, <2>6 DEF MsgInv, ReceiversQueued, Froms
    <3> QED  BY <1>1, <2>6, <3>1 DEF WaitsFor
  <2> QED  BY <2>1, <2>2, <2>4, <2>5, <2>6
<1> QED  BY <1>4, <1>5, <1>6, <1>7, <1>8, <1>9, <1>10, <1>11 DEF MsgInv

(* The message instructions keep their half of the invariant. *)
LEMMA MsgNextInv ==
  ASSUME RecvFrom \subseteq Pids, MsgInv, MsgNext
  PROVE  MsgInv'
<1>1. ASSUME NEW q \in Pids, Send(q) PROVE MsgInv'
  BY <1>1, SendToWaiterInv, SendAndSleepInv
<1>2. ASSUME NEW from \in RecvFrom, Recv(from) PROVE MsgInv'
  <2>1. from \in Pids /\ from \in Froms
    BY DEF Froms
  <2> QED  BY <1>2, <2>1, TakeMessageInv, WaitForMessageInv DEF Recv
<1> QED  BY <1>1, <1>2 DEF MsgNext

-----------------------------------------------------------------------------
(***************************************************************************)
(* Both together.                                                           *)
(***************************************************************************)
IpcInv == SemInv /\ MsgInv

(* The message instructions leave a process alone that waits for a          *)
(* semaphore, or is on its way to take it: the running process retries no   *)
(* PE, and the one that is resumed sleeps in SD or RC.                      *)
LEMMA MsgNextSpares ==
  ASSUME RecvFrom \subseteq Pids, MsgInv, MsgNext,
         NEW p \in Pids, NEW s \in Sems,
         pending[p] = PE(s) \/ pending'[p] = PE(s)
  PROVE  /\ p \in runnable' <=> p \in runnable
         /\ pending'[p] = pending[p]
         /\ UNCHANGED <<allocated, halted>>
<1>1. /\ running \in Pids /\ running \in runnable
      /\ pending \in [Pids -> Waits] /\ UNCHANGED <<allocated, halted>>
  BY SleepersArePids DEF MsgNext, Send, Recv, Executes, MsgInv, ProcsOK
<1>2. ASSUME NEW q \in Pids, Send(q)
      PROVE  (p \in runnable' <=> p \in runnable) /\ pending'[p] = pending[p]
  <2>1. pending[running] = None /\ pending' = pending
    BY <1>2 DEF Send, Executes
  <2>2. p # running
    BY <2>1, WaitsDistinct
  <2>3. CASE WaitsForThis(q) \/ WaitsForAny(q)
    <3>1. pending[q] = RC(running) /\ Reschedule({running}, {q})
      BY <1>2, <2>3, SendToWaiterEffect
    <3>2. p # q
      BY <2>1, <3>1, WaitsDistinct
    <3> QED  BY <2>1, <2>2, <3>1, <3>2 DEF Reschedule
  <2>4. CASE ~WaitsForThis(q) /\ ~WaitsForAny(q)
    BY <1>2, <2>1, <2>2, <2>4 DEF Send, WakeReceiver, Reschedule
  <2> QED  BY <2>3, <2>4
<1>3. ASSUME NEW from \in RecvFrom, Recv(from)
      PROVE  (p \in runnable' <=> p \in runnable) /\ pending'[p] = pending[p]
  <2>1. from \in Froms /\ Executes(RC(from)) /\ pending[running] \in {None, RC(from)}
    BY <1>3 DEF Recv, Executes, Froms
  <2>2. /\ pending' = [pending EXCEPT ![running] = None]
           \/ pending' = [pending EXCEPT ![running] = RC(from)]
        /\ pending'[running] \in {None, RC(from)}
    BY <1>1, <1>3 DEF Recv, TakeMessage, WaitForMessage, Proceed, RetryOp
  <2>3. p # running
    BY <2>1, <2>2, WaitsDistinct
  <2>4. pending'[p] = pending[p]
    BY <1>1, <2>2, <2>3
  <2>5. CASE TakeMessage(from)
    <3>1. PICK w \in Senders(running) : runnable' = runnable \cup {w}
      BY <2>1, <2>5, TakeMessageEffect
    <3>2. pending[w] = None
      BY <1>1 DEF MsgInv, SendersSleep
    <3>3. p # w
      BY <2>4, <3>2, WaitsDistinct
    <3> QED  BY <2>4, <3>1, <3>3
  <2>6. CASE WaitForMessage(from)
    BY <2>3, <2>4, <2>6 DEF WaitForMessage, Reschedule
  <2> QED  BY <1>3, <2>5, <2>6 DEF Recv
<1> QED  BY <1>1, <1>2, <1>3 DEF MsgNext

(* So they keep the half of the semaphores. *)
LEMMA MsgNextSemInv ==
  ASSUME RecvFrom \subseteq Pids, IpcInv, MsgNext, UNCHANGED semVars
  PROVE  SemInv'
<1>1. ProcsOK' /\ SemTypeOK'
  BY MsgNextInv DEF IpcInv, SemInv, MsgInv, SemTypeOK, semVars
<1>2. Asleep \subseteq Pids /\ Asleep' \subseteq Pids
  BY <1>1 DEF IpcInv, SemInv, ProcsOK, ProcTypeOK, Asleep
<1>3. ASSUME NEW s \in Sems
      PROVE  { p \in Asleep' : pending'[p] = PE(s) }
               = { p \in Asleep : pending[p] = PE(s) }
  <2>1. ASSUME NEW p \in Pids
        PROVE  (p \in Asleep' /\ pending'[p] = PE(s))
                 <=> (p \in Asleep /\ pending[p] = PE(s))
    <3>1. CASE pending[p] = PE(s) \/ pending'[p] = PE(s)
      <4>1. /\ p \in runnable' <=> p \in runnable
            /\ pending'[p] = pending[p]
            /\ UNCHANGED <<allocated, halted>>
        BY <3>1, MsgNextSpares DEF IpcInv
      <4> QED  BY <4>1 DEF Asleep
    <3> QED  BY <3>1
  <2> QED  BY <1>2, <2>1
<1>4. SleepersQueued'
  BY <1>3 DEF IpcInv, SemInv, SleepersQueued, Waiters, semVars
<1> QED  BY <1>1, <1>4 DEF SemInv

(* The semaphore instructions leave a process alone that sleeps in SD or    *)
(* RC, and put nobody to sleep there.                                       *)
MsgSleepers == { p \in Asleep : \A s \in Sems : pending[p] # PE(s) }

LEMMA SemNextSpares ==
  ASSUME IpcInv, SemNext
  PROVE  /\ MsgSleepers' = MsgSleepers
         /\ \A p \in MsgSleepers : pending'[p] = pending[p]
         /\ SenderNamed'
<1>1. /\ running \in Pids /\ running \in runnable /\ running \notin Asleep
      /\ pending \in [Pids -> Waits] /\ Asleep \subseteq Pids
      /\ UNCHANGED <<allocated, halted>>
  BY DEF SemNext, SemDown, SemUp, SetSem, Executes, IpcInv, SemInv, ProcsOK,
         ProcTypeOK, Asleep
<1>2. SenderNamed
  BY DEF IpcInv, MsgInv
<1>3. ASSUME NEW s \in Sems, TakeSem(s)
      PROVE  /\ MsgSleepers' = MsgSleepers
             /\ \A p \in MsgSleepers : pending'[p] = pending[p]
             /\ SenderNamed'
  <2>1. /\ pending' = [pending EXCEPT ![running] = None]
        /\ runnable' = runnable
    BY <1>3 DEF TakeSem, Proceed, Reschedule
  <2>2. Asleep' = Asleep
    BY <1>1, <2>1 DEF Asleep
  <2>3. \A p \in Asleep : pending'[p] = pending[p]
    BY <1>1, <2>1
  <2>4. SenderNamed'
    BY <1>1, <1>2, <2>1, WaitsDistinct DEF SenderNamed, Froms
  <2> QED  BY <2>2, <2>3, <2>4 DEF MsgSleepers
<1>4. ASSUME NEW s \in Sems, WaitForSem(s)
      PROVE  /\ MsgSleepers' = MsgSleepers
             /\ \A p \in MsgSleepers : pending'[p] = pending[p]
             /\ SenderNamed'
  <2>1. /\ pending' = [pending EXCEPT ![running] = PE(s)]
        /\ runnable' = runnable \ {running}
    BY <1>4 DEF WaitForSem, RetryOp, Reschedule
  <2>2. Asleep' \ {running} = Asleep
    BY <1>1, <2>1 DEF Asleep
  <2>3. \A p \in Asleep : pending'[p] = pending[p]
    BY <1>1, <2>1
  <2>4. running \notin MsgSleepers'
    BY <1>1, <2>1 DEF MsgSleepers
  <2>5. SenderNamed'
    BY <1>1, <1>2, <2>1, WaitsDistinct DEF SenderNamed
  <2> QED  BY <1>1, <2>2, <2>3, <2>4, <2>5 DEF MsgSleepers
<1>5. ASSUME NEW s \in Sems, SemUp(s)
      PROVE  /\ MsgSleepers' = MsgSleepers
             /\ \A p \in MsgSleepers : pending'[p] = pending[p]
             /\ SenderNamed'
  <2>1. pending' = pending
    BY <1>5 DEF SemUp
  <2>2. CASE sem_wq[s] = <<>>
    <3>1. runnable' = runnable
      BY <1>5, <2>2 DEF SemUp, WakeFirst, FirstWaiter, Reschedule
    <3> QED  BY <1>1, <1>2, <2>1, <3>1 DEF MsgSleepers, Asleep, SenderNamed
  <2>3. CASE sem_wq[s] # <<>>
    <3>1. PICK w : w = Head(sem_wq[s])
      OBVIOUS
    <3>2. pending[w] = PE(s) /\ Asleep' = Asleep \ {w}
      BY <1>5, <2>3, <3>1, SemUpWakes DEF IpcInv
    <3> QED  BY <1>2, <2>1, <3>2 DEF MsgSleepers, SenderNamed
  <2> QED  BY <2>2, <2>3
<1>6. ASSUME NEW s \in Sems, NEW v \in SetVals, SetSem(s, v)
      PROVE  /\ MsgSleepers' = MsgSleepers
             /\ \A p \in MsgSleepers : pending'[p] = pending[p]
             /\ SenderNamed'
  <2>1. pending' = pending /\ runnable' = runnable
    BY <1>6 DEF SetSem, Reschedule
  <2> QED  BY <1>1, <1>2, <2>1 DEF MsgSleepers, Asleep, SenderNamed
<1> QED  BY <1>3, <1>4, <1>5, <1>6 DEF SemNext, SemDown

(* So they keep the half of the messages. *)
LEMMA SemNextMsgInv ==
  ASSUME IpcInv, SemNext, UNCHANGED msgVars
  PROVE  MsgInv'
<1>1. ProcsOK'
  BY SemNextInv DEF IpcInv, SemInv
<1>2. /\ MsgSleepers' = MsgSleepers
      /\ \A p \in MsgSleepers : pending'[p] = pending[p]
      /\ SenderNamed'
  BY SemNextSpares
<1>3. send_wq' = send_wq /\ recv_wq' = recv_wq
  BY DEF msgVars
<1>4. MsgTypeOK' /\ OnceInQueue'
  BY <1>3 DEF IpcInv, MsgInv, MsgTypeOK, OnceInQueue
<1>5. ASSUME NEW w \in {None} \cup { RC(from) : from \in Froms }
      PROVE  \A p : (p \in Asleep' /\ pending'[p] = w)
                      <=> (p \in Asleep /\ pending[p] = w)
  <2>1. \A s \in Sems : w # PE(s)
    BY WaitsDistinct
  <2>2. \A p : (p \in Asleep /\ pending[p] = w) <=> (p \in MsgSleepers /\ pending[p] = w)
    BY <2>1 DEF MsgSleepers
  <2>3. \A p : (p \in Asleep' /\ pending'[p] = w) <=> (p \in MsgSleepers' /\ pending'[p] = w)
    BY <2>1 DEF MsgSleepers
  <2> QED  BY <1>2, <2>2, <2>3
<1>6. \A p : (p \in Asleep' /\ pending'[p] = None) <=> (p \in Asleep /\ pending[p] = None)
  BY <1>5
<1>7. \A from \in Froms : \A p :
        (p \in Asleep' /\ pending'[p] = RC(from)) <=> (p \in Asleep /\ pending[p] = RC(from))
  BY <1>5
<1>8. SendersSleep'
  BY <1>3, <1>6 DEF IpcInv, MsgInv, SendersSleep, Senders
<1>9. OneReceiver'
  BY <1>3, <1>6 DEF IpcInv, MsgInv, OneReceiver, Sending, Senders
<1>10. ReceiversQueued'
  <2> SUFFICES ASSUME NEW r \in Froms
               PROVE  Queued(recv_wq'[r]) = { q \in Asleep' : pending'[q] = RC(r) }
    BY DEF ReceiversQueued
  <2>1. Queued(recv_wq[r]) = { q \in Asleep : pending[q] = RC(r) }
    BY DEF IpcInv, MsgInv, ReceiversQueued
  <2> QED  BY <1>3, <1>7, <2>1
<1>11. NoMissedRendezvous'
  <2> SUFFICES ASSUME NEW q \in Asleep', NEW p \in Senders(q)'
               PROVE  ~WaitsFor(q, p)'
    BY DEF NoMissedRendezvous
  <2> SUFFICES ASSUME pending'[q] \in {RC(p), RC(AnyPid)} PROVE FALSE
    BY DEF WaitsFor
  <2>1. q \in Pids
    BY <1>1 DEF ProcsOK, ProcTypeOK, Asleep
  <2>2. p \in Senders(q)
    BY <1>3 DEF Senders
  <2>3. p \in Pids
    BY <2>1, <2>2, SleepersArePids DEF IpcInv, MsgInv, SendersSleep
  <2>4. PICK from \in Froms : from \in {p, AnyPid} /\ pending'[q] = RC(from)
    BY <2>3 DEF Froms
  <2>5. q \in Asleep /\ pending[q] = RC(from)
    BY <1>7, <2>4
  <2> QED  BY <2>2, <2>4, <2>5 DEF IpcInv, MsgInv, NoMissedRendezvous, WaitsFor
<1> QED  BY <1>1, <1>2, <1>4, <1>8, <1>9, <1>10, <1>11 DEF MsgInv

(* Every step keeps both halves. *)
LEMMA IpcNextInv ==
  ASSUME RecvFrom \subseteq Pids, IpcInv, [IpcNext]_ipcVars
  PROVE  IpcInv'
<1>1. CASE ProcNext /\ UNCHANGED <<semVars, msgVars>>
  BY <1>1, ProcNextInv, ProcNextMsgInv DEF IpcInv
<1>2. CASE SemNext /\ UNCHANGED msgVars
  BY <1>2, SemNextInv, SemNextMsgInv DEF IpcInv
<1>3. CASE MsgNext /\ UNCHANGED semVars
  BY <1>3, MsgNextInv, MsgNextSemInv DEF IpcInv
<1>4. CASE UNCHANGED ipcVars
  <2>1. /\ UNCHANGED <<runnable, running, allocated, pending, halted, ended>>
        /\ UNCHANGED <<sem_table, sem_wq, recv_wq, send_wq>>
    BY <1>4 DEF ipcVars, procVars, semVars, msgVars
  <2>2. Asleep' = Asleep /\ ProcsOK'
    BY <2>1 DEF IpcInv, SemInv, ProcsOK, ProcTypeOK, OnlyLiveRun, Asleep
  <2>3. SemInv'
    BY <2>1, <2>2 DEF IpcInv, SemInv, SemTypeOK, SleepersQueued, Waiters
  <2>4. MsgTypeOK' /\ OnceInQueue' /\ SendersSleep' /\ OneReceiver'
    BY <2>1, <2>2
       DEF IpcInv, MsgInv, MsgTypeOK, OnceInQueue, SendersSleep, OneReceiver,
           Sending, Senders
  <2>5. ReceiversQueued' /\ SenderNamed' /\ NoMissedRendezvous'
    BY <2>1, <2>2
       DEF IpcInv, MsgInv, ReceiversQueued, SenderNamed, NoMissedRendezvous,
           Senders, WaitsFor
  <2> QED  BY <2>2, <2>3, <2>4, <2>5 DEF IpcInv, MsgInv
<1> QED  BY <1>1, <1>2, <1>3, <1>4 DEF IpcNext

-----------------------------------------------------------------------------
(* While every RC names its sender, sleepers, what they wait for and the    *)
(* queues of vm/sem.c and vm/msg.c determine each other.                    *)
THEOREM IpcInvariant ==
  ASSUME RecvFrom \subseteq Pids
  PROVE  IpcSpec => []IpcInv
<1>1. IpcInit => IpcInv
  BY SemInitInv, MsgInitInv DEF IpcInit, IpcInv
<1> QED  BY <1>1, IpcNextInv, PTL DEF IpcSpec

(* Semaphores are never taken below 0, queues hold processes, and only PE   *)
(* and RC are retried.                                                      *)
THEOREM IpcTypeCorrect ==
  ASSUME RecvFrom \subseteq Pids
  PROVE  IpcSpec => []IpcTypeOK
<1>1. IpcInv => IpcTypeOK
  BY DEF IpcInv, SemInv, MsgInv, ProcsOK, IpcTypeOK
<1> QED  BY <1>1, IpcInvariant, PTL

(* Whoever sleeps in a PE is in the queue of its semaphore, once, and       *)
(* nobody else is, so that no sleeper is out of reach of a VE.              *)
THEOREM SleepersQueuedAlways ==
  ASSUME RecvFrom \subseteq Pids
  PROVE  IpcSpec => []SleepersQueued
<1>1. IpcInv => SleepersQueued
  BY DEF IpcInv, SemInv
<1> QED  BY <1>1, IpcInvariant, PTL

(* A sender and a receiver that wait for each other are never both asleep.  *)
THEOREM NoMissedRendezvousAlways ==
  ASSUME RecvFrom \subseteq Pids
  PROVE  IpcSpec => []NoMissedRendezvous
<1>1. IpcInv => NoMissedRendezvous
  BY DEF IpcInv, MsgInv
<1> QED  BY <1>1, IpcInvariant, PTL

(* The instructions a process waits in are those of the queues it is in. *)
LEMMA WaitsInEffect ==
  ASSUME IpcInv, NEW p \in Pids
  PROVE  /\ WaitsIn(p) # {} => p \in Asleep
         /\ p \in Asleep /\ pending[p] = None =>
              \E q \in Pids : WaitsIn(p) = {SD(q)}
         /\ p \in Asleep /\ pending[p] # None => WaitsIn(p) = {pending[p]}
<1> DEFINE sems == { s \in Sems : p \in Waiters(s) }
           froms == { from \in Froms : p \in Queued(recv_wq[from]) }
<1>1. WaitsIn(p) = { PE(s) : s \in sems } \cup { RC(from) : from \in froms }
                     \cup { SD(q) : q \in Sending(p) }
  BY DEF WaitsIn
<1>2. \A s \in Sems : s \in sems <=> p \in Asleep /\ pending[p] = PE(s)
  BY DEF IpcInv, SemInv, SleepersQueued
<1>3. \A from \in Froms : from \in froms <=> p \in Asleep /\ pending[p] = RC(from)
  BY DEF IpcInv, MsgInv, ReceiversQueued
<1>4. \A q \in Sending(p) : p \in Asleep /\ pending[p] = None
  BY DEF IpcInv, MsgInv, SendersSleep, Sending
<1>5. sems \subseteq Sems /\ froms \subseteq Froms
  OBVIOUS
<1> HIDE DEF sems, froms
<1>6. WaitsIn(p) # {} => p \in Asleep
  BY <1>1, <1>2, <1>3, <1>4, <1>5
<1>7. ASSUME p \in Asleep, pending[p] = None
      PROVE  \E q \in Pids : WaitsIn(p) = {SD(q)}
  <2>1. sems = {} /\ froms = {}
    BY <1>2, <1>3, <1>5, <1>7, WaitsDistinct
  <2>2. PICK q \in Pids : Sending(p) = {q}
    BY <1>7 DEF IpcInv, MsgInv, OneReceiver
  <2> QED  BY <1>1, <2>1, <2>2
<1>8. ASSUME p \in Asleep, pending[p] # None
      PROVE  WaitsIn(p) = {pending[p]}
  <2>1. Sending(p) = {}
    BY <1>4, <1>8
  <2>2. pending[p] \in Waits
    BY DEF IpcInv, SemInv, ProcsOK
  <2>3. ASSUME NEW s \in Sems, pending[p] = PE(s)
        PROVE  WaitsIn(p) = {pending[p]}
    <3>1. sems = {s} /\ froms = {}
      BY <1>2, <1>3, <1>5, <1>8, <2>3, WaitsDistinct
    <3> QED  BY <1>1, <2>1, <2>3, <3>1
  <2>4. ASSUME NEW from \in Froms, pending[p] = RC(from)
        PROVE  WaitsIn(p) = {pending[p]}
    <3>1. sems = {} /\ froms = {from}
      BY <1>2, <1>3, <1>5, <1>8, <2>4, WaitsDistinct
    <3> QED  BY <1>1, <2>1, <2>4, <3>1
  <2> QED  BY <1>8, <2>2, <2>3, <2>4 DEF Waits
<1> QED  BY <1>6, <1>7, <1>8

(* Whoever sleeps is in one queue, once: a sender in that of its receiver,  *)
(* others in that of the instruction they retry.                            *)
THEOREM OneQueueEachAlways ==
  ASSUME RecvFrom \subseteq Pids
  PROVE  IpcSpec => []OneQueueEach
<1>1. ASSUME IpcInv PROVE OneQueueEach
  <2>1. /\ \A q \in Pids : IsInjective(send_wq[q])
        /\ \A from \in Froms : IsInjective(recv_wq[from])
    BY <1>1 DEF IpcInv, MsgInv, OnceInQueue
  <2>2. ASSUME NEW p \in Asleep
        PROVE  IF pending[p] = None
                 THEN \E q \in Pids : WaitsIn(p) = {SD(q)}
                 ELSE WaitsIn(p) = {pending[p]}
    <3>1. p \in Pids
      BY <1>1, SleepersArePids DEF IpcInv
    <3> QED  BY <1>1, <3>1, WaitsInEffect
  <2> QED  BY <2>1, <2>2 DEF OneQueueEach
<1> QED  BY <1>1, IpcInvariant, PTL

(* VE, SD and RC only resume processes that sleep, which are not in the     *)
(* scheduler's tree.                                                        *)
THEOREM OnlySleepersResumedAlways ==
  ASSUME RecvFrom \subseteq Pids
  PROVE  IpcSpec => []OnlySleepersResumed
<1>1. IpcInv => OnlySleepersResumed
  BY WaitsInEffect DEF OnlySleepersResumed
<1> QED  BY <1>1, IpcInvariant, PTL

(* A VE wakes up a process that takes the unit, however many other          *)
(* processes execute PE in between: while processes wait there are never    *)
(* more units than woken processes.  SI must not raise the value.           *)
THEOREM NoLostWakeupAlways ==
  ASSUME RecvFrom \subseteq Pids, SetVals \subseteq {0}
  PROVE  IpcSpec => []NoLostWakeup
<1>1. IpcInit => NoLostWakeup
  BY DEF IpcInit, SemTableInit, NoLostWakeup
<1>2. ASSUME IpcInv, IpcInv', NoLostWakeup, [IpcNext]_ipcVars
      PROVE  NoLostWakeup'
  <2>1. CASE ProcNext /\ UNCHANGED <<semVars, msgVars>>
    BY <1>2, <2>1, ProcNextMatch DEF IpcInv
  <2>2. CASE SemNext /\ UNCHANGED msgVars
    BY <1>2, <2>2, SemNextMatch DEF IpcInv
  <2>3. CASE MsgNext /\ UNCHANGED semVars
    <3>1. \A s \in Sems : sem_table'[s] <= sem_table[s]
      BY <1>2, <2>3, SemAssumption DEF IpcInv, SemInv, SemTypeOK, semVars
    <3>2. ASSUME NEW s \in Sems, NEW p \in Retrying(s)
          PROVE  p \in Retrying(s)'
      <4>1. p \in Pids /\ p \in runnable /\ pending[p] = PE(s)
        BY <1>2, SleepersArePids DEF IpcInv, Retrying
      <4>2. p \in runnable' /\ pending'[p] = pending[p]
        BY <1>2, <2>3, <4>1, MsgNextSpares DEF IpcInv
      <4> QED  BY <4>1, <4>2 DEF Retrying
    <3> QED  BY <1>2, <2>3, <3>1, <3>2, AllKept DEF IpcInv, semVars
  <2>4. CASE UNCHANGED ipcVars
    BY <1>2, <2>4 DEF ipcVars, procVars, semVars, NoLostWakeup, Retrying
  <2> QED  BY <1>2, <2>1, <2>2, <2>3, <2>4 DEF IpcNext
<1> QED  BY <1>1, <1>2, IpcInvariant, PTL DEF IpcSpec

(* Among the processes that wait for a semaphore, those woken up in a step  *)
(* are ahead of those left behind: VE resumes the head of the queue, and    *)
(* nothing else resumes a process that waits for a semaphore.               *)
THEOREM FirstComeFirstWokenAlways ==
  ASSUME RecvFrom \subseteq Pids
  PROVE  IpcSpec => FirstComeFirstWoken
<1> DEFINE InOrder ==
      \A s \in Sems : \A i, j \in 1 .. Len(sem_wq[s]) :
        i < j /\ sem_wq[s][j] \in runnable' => sem_wq[s][i] \in runnable'
<1>1. ASSUME IpcInv, [IpcNext]_ipcVars
      PROVE  InOrder
  <2> SUFFICES ASSUME NEW s \in Sems,
                      NEW i \in 1 .. Len(sem_wq[s]), NEW j \in 1 .. Len(sem_wq[s]),
                      i < j, sem_wq[s][j] \in runnable'
               PROVE  sem_wq[s][i] \in runnable'
    OBVIOUS
  <2> DEFINE w == sem_wq[s][j]
  <2>1. /\ sem_wq[s] \in Seq(Pids) /\ IsInjective(sem_wq[s])
        /\ DOMAIN sem_wq[s] = 1 .. Len(sem_wq[s]) /\ Len(sem_wq[s]) \in Nat
    BY <1>1, LenProperties DEF IpcInv, SemInv, SemTypeOK, SleepersQueued
  <2>2. w \in Asleep /\ pending[w] = PE(s) /\ w \in Pids
    BY <1>1, <2>1 DEF IpcInv, SemInv, SleepersQueued, Waiters, Queued, Range
  <2>3. w \in allocated /\ w \notin runnable /\ w \in runnable'
    BY <2>2 DEF Asleep
  <2>4. ~ProcNext
    BY <2>3 DEF ProcNext, OpPlain, OpHalt, OpError, OpFork, Reschedule
  <2>5. ~MsgNext
    BY <1>1, <2>2, <2>3, MsgNextSpares DEF IpcInv
  <2>6. ~UNCHANGED ipcVars
    BY <2>3 DEF ipcVars, procVars
  <2>7. SemNext
    BY <1>1, <2>4, <2>5, <2>6 DEF IpcNext
  <2>8. PICK t \in Sems : w = Head(sem_wq[t]) /\ sem_wq[t] # <<>> /\ pending[w] = PE(t)
    BY <1>1, <2>3, <2>7, SemNextWakes DEF IpcInv
  <2>9. t = s
    BY <2>2, <2>8, WaitsDistinct
  <2>10. w = sem_wq[s][1]
    BY <2>1, <2>8, <2>9
  <2>11. j = 1
    BY <2>1, <2>10 DEF IsInjective
  <2> QED  BY <2>11
<1>2. ASSUME IpcInv, [IpcNext]_ipcVars
      PROVE  [InOrder]_<<procVars, semVars>>
  BY <1>1, <1>2
<1> QED  BY <1>2, IpcInvariant, PTL DEF IpcSpec, FirstComeFirstWoken

(* A sender goes on only when its receiver takes the message: the other     *)
(* steps that resume anybody are VE and SD, and no sender is in a queue of  *)
(* theirs.                                                                  *)
THEOREM BlockedUntilReceivedAlways ==
  ASSUME RecvFrom \subseteq Pids
  PROVE  IpcSpec => BlockedUntilReceived
<1> DEFINE Synchronous ==
      \A p, q \in Pids :
        p \in Senders(q) /\ p \in runnable' =>
          running = q /\ p \notin Queued(send_wq'[q])
<1>1. ASSUME IpcInv, [IpcNext]_ipcVars
      PROVE  Synchronous
  <2> SUFFICES ASSUME NEW p \in Pids, NEW q \in Pids,
                      p \in Senders(q), p \in runnable'
               PROVE  running = q /\ p \notin Queued(send_wq'[q])
    OBVIOUS
  <2>0. MsgInv
    BY <1>1 DEF IpcInv
  <2>1. /\ p \in Asleep /\ pending[p] = None
        /\ p \in allocated /\ p \notin runnable
    BY <2>0 DEF MsgInv, SendersSleep, Asleep
  <2>2. ~ProcNext
    BY <2>1 DEF ProcNext, OpPlain, OpHalt, OpError, OpFork, Reschedule
  <2>3. ~SemNext
    BY <1>1, <2>1, SemNextWakes, WaitsDistinct DEF IpcInv
  <2>4. ASSUME NEW r \in Pids PROVE ~Send(r)
    <3> SUFFICES ASSUME Send(r) PROVE FALSE
      OBVIOUS
    <3>1. CASE WaitsForThis(r) \/ WaitsForAny(r)
      <4>1. /\ pending[r] = RC(running) /\ Reschedule({running}, {r})
            /\ running \in Froms
        BY <2>0, <3>1, SendToWaiterEffect, SleepersArePids DEF Send, Executes, Froms
      <4>2. p = r
        BY <2>1, <4>1 DEF Reschedule
      <4> QED  BY <2>1, <4>1, <4>2, WaitsDistinct
    <3>2. CASE ~WaitsForThis(r) /\ ~WaitsForAny(r)
      BY <2>1, <3>2 DEF Send, WakeReceiver, Reschedule
    <3> QED  BY <3>1, <3>2
  <2>5. ~UNCHANGED ipcVars
    BY <2>1 DEF ipcVars, procVars
  <2>6. PICK from \in RecvFrom : Recv(from)
    BY <1>1, <2>2, <2>3, <2>4, <2>5 DEF IpcNext, MsgNext
  <2>7. ~WaitForMessage(from)
    BY <2>1 DEF WaitForMessage, Reschedule
  <2>8. from \in Froms /\ Executes(RC(from)) /\ TakeMessage(from)
    BY <2>6, <2>7 DEF Recv, Froms
  <2>9. PICK w \in Senders(running) :
          /\ runnable' = runnable \cup {w}
          /\ send_wq' = [send_wq EXCEPT ![running] = RemoveProc(@, w)]
          /\ Queued(RemoveProc(send_wq[running], w)) = Senders(running) \ {w}
    BY <2>0, <2>8, TakeMessageEffect
  <2>10. p = w /\ running \in Pids
    BY <2>0, <2>1, <2>8, <2>9, SleepersArePids DEF Executes
  <2>11. q = running
    <3>1. PICK r \in Pids : Sending(p) = {r}
      BY <2>0, <2>1 DEF MsgInv, OneReceiver
    <3> QED  BY <2>9, <2>10, <3>1 DEF Sending
  <2>12. send_wq'[q] = RemoveProc(send_wq[running], w)
    BY <2>0, <2>9, <2>10, <2>11 DEF MsgInv, MsgTypeOK
  <2> QED  BY <2>9, <2>10, <2>11, <2>12
<1>2. ASSUME IpcInv, [IpcNext]_ipcVars
      PROVE  [Synchronous]_<<procVars, msgVars>>
  BY <1>1, <1>2
<1> QED  BY <1>2, IpcInvariant, PTL DEF IpcSpec, BlockedUntilReceived
=============================================================================
