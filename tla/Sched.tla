------------------------------- MODULE Sched -------------------------------
(***************************************************************************)
(* The process scheduler, sched.c: a fair scheduler in the style of CFS.    *)
(* Every process has a virtual runtime, increased by one for each operation *)
(* it executes; the process with the smallest one should run.  The process  *)
(* that is executing is rq.current, the other runnable ones are in the      *)
(* red-black tree rq.t, keyed by their virtual runtimes.                    *)
(*                                                                          *)
(* The operators SchedSuspend, SchedResume and SchedReset are the functions *)
(* the instructions of the machine call; the actions below are the loop of  *)
(* sched_run, with every pattern in which the instructions call them.       *)
(*                                                                          *)
(* An instruction may resume any process that has been allocated.  VE, and  *)
(* SD and RC between partners that name each other, resume a process that   *)
(* sleeps, which sched_resume expects; but an entry that RC ** leaves in    *)
(* its queue (msg.c:133) makes a later SD resume a process that is runnable *)
(* or has halted.  The history variable stray tells the two apart: most of  *)
(* what the scheduler guarantees holds as long as stray is FALSE.           *)
(***************************************************************************)
EXTENDS Integers, Sequences, SequencesExt

CONSTANTS
  PROCS,              (* number of process slots, 100 in mem.h               *)
  SCHED_GRANULARITY,  (* operations in a slice, 20                           *)
  SCHED_LATENCY,      (* head start of a process that wakes up, 2            *)
  INT_RANGE,          (* 2^31: one more than the largest int                 *)
  MaxVruntime,        (* bound: a process that has reached it stops ticking  *)
  MaxRunning          (* bound: nobody is resumed by VE or RC once nr_running *)
                      (* has reached it                                      *)

ASSUME SchedAssumption ==
  /\ PROCS \in Nat \ {0}
  /\ SCHED_GRANULARITY \in Nat \ {0}
  /\ SCHED_LATENCY \in Nat
  /\ INT_RANGE \in Nat \ {0}
  /\ SCHED_LATENCY < INT_RANGE
  /\ MaxVruntime \in Nat
  /\ MaxRunning \in Nat

Pids == 0 .. PROCS - 1

(***************************************************************************)
(* The unsigned int arithmetic of vruntime and min_vruntime, and its        *)
(* conversion to int.                                                       *)
(***************************************************************************)
UINT_RANGE == 2 * INT_RANGE
UInt == 0 .. UINT_RANGE - 1

UInc(a) == IF a = UINT_RANGE - 1 THEN 0 ELSE a + 1
USub(a, b) == IF a >= b THEN a - b ELSE a + UINT_RANGE - b
AsInt(a) == IF a < INT_RANGE THEN a ELSE a - UINT_RANGE

MaxOf(a, b) == IF a > b THEN a ELSE b

-----------------------------------------------------------------------------
(***************************************************************************)
(* The state of sched.c is one record, so that an instruction can call the  *)
(* scheduler more than once: s.tree is the in-order sequence of the pids in *)
(* rq.t (its colours and shape decide nothing but the cost of the walks),   *)
(* the other fields are those of rq and of task_table.                      *)
(***************************************************************************)
SchedState ==
  [ tree         : Seq(Pids),
    min_vruntime : UInt,
    current      : Pids,
    nr_running   : Nat,
    vruntime     : [Pids -> UInt] ]

(* key_comp orders keys by their distance from min_vruntime, as ints. *)
KeyGT(s, k1, k2) ==
  AsInt(USub(k1, s.min_vruntime)) > AsInt(USub(k2, s.min_vruntime))

(* p's key is greater than q's: the keys are pointers into task_table. *)
Ahead(s, p, q) == KeyGT(s, s.vruntime[p], s.vruntime[q])

(* Where TreeInsertHelp can put p: to the right of keys that are not        *)
(* greater than p's, to the left of a greater one.  In a sorted tree there  *)
(* is one such place, after the last key that is equal or less.             *)
SlotsToTheRight(s, p) ==
  { i \in 0 .. Len(s.tree) : i > 0 => ~Ahead(s, s.tree[i], p) }
Slots(s, p) ==
  { i \in 0 .. Len(s.tree) :
      /\ i > 0 => ~Ahead(s, s.tree[i], p)
      /\ i < Len(s.tree) => Ahead(s, s.tree[i + 1], p) }

(* RBTreeInsert(rq.t, &vruntime of p, p). *)
TreeInsert(s, p) ==
  { [s EXCEPT !.tree = InsertAt(@, i + 1, p)] : i \in Slots(s, p) }

Leftmost(s) == Head(s.tree)

(* ctxt_switch: the leftmost process leaves the tree and becomes current. *)
CtxtSwitchNoDelete(s) == [s EXCEPT !.current = Leftmost(s)]
CtxtSwitch(s) ==
  [s EXCEPT !.current = Leftmost(s), !.tree = Tail(@)]

(* rq.current goes back into the tree and the leftmost process takes over. *)
Preempt(s) == { CtxtSwitch(t) : t \in TreeInsert(s, s.current) }

-----------------------------------------------------------------------------
(***************************************************************************)
(* The functions of sched.h.  SchedResume is a set because the place of a   *)
(* node in an unsorted tree is not determined by the order of the keys.     *)
(***************************************************************************)
SchedSuspendNoSwitch(s, p) == [s EXCEPT !.nr_running = @ - 1]
SchedSuspend(s, p) ==
  LET t == IF s.current # p
             THEN [s EXCEPT !.tree = SelectSeq(@, LAMBDA q : q # p)]
             ELSE IF s.nr_running > 1 THEN CtxtSwitch(s) ELSE s
  IN  [t EXCEPT !.nr_running = @ - 1]

WakeupFloor(s) ==
  IF s.min_vruntime < SCHED_LATENCY
    THEN s.min_vruntime
    ELSE s.min_vruntime - SCHED_LATENCY

(* The virtual runtime a process is given when it is resumed. *)
WakeupVruntimeFloor(s, p) == WakeupFloor(s)
WakeupVruntimeKept(s, p) == s.vruntime[p]
WakeupVruntime(s, p) == MaxOf(s.vruntime[p], WakeupFloor(s))

SchedResumeNoPreempt(s, p) ==
  LET w == [s EXCEPT !.vruntime[p] = WakeupVruntime(s, p)]
  IN  IF s.nr_running = 0
        THEN { [w EXCEPT !.min_vruntime = w.vruntime[p],
                         !.current = p, !.nr_running = 1] }
      ELSE IF p = s.current
        THEN {w}
        ELSE { [u EXCEPT !.nr_running = @ + 1] : u \in TreeInsert(w, p) }

SchedResume(s, p) ==
  LET w == [s EXCEPT !.vruntime[p] = WakeupVruntime(s, p)]
  IN  IF s.nr_running = 0
        THEN { [w EXCEPT !.min_vruntime = w.vruntime[p],
                         !.current = p, !.nr_running = 1] }
      ELSE IF p = s.current
        THEN {w}
        ELSE LET queued == TreeInsert(w, p)
                 settled == UNION { IF Ahead(u, u.current, Leftmost(u))
                                      THEN Preempt(u) ELSE {u} : u \in queued }
             IN  { [u EXCEPT !.nr_running = @ + 1] : u \in settled }

SchedReset(s, p) == [s EXCEPT !.vruntime[p] = 0]

(* The processes sched_run may still give operations to. *)
Runnable(s) ==
  IF s.nr_running = 0 THEN {} ELSE {s.current} \cup Range(s.tree)

-----------------------------------------------------------------------------
VARIABLES
  sched,     (* the state of sched.c                                       *)
  slice,     (* i of sched_run: operations executed in this slice          *)
  phase,     (* "load": in load_file, "run": in sched_run, "done": returned *)
  next_pid,  (* vm.c: the number of processes allocated so far             *)
  halted,    (* processes that have executed HA                            *)
  stray      (* history: has a process been resumed that was not asleep?   *)

schedVars == <<sched, slice, phase, next_pid, halted, stray>>

SchedTypeOK ==
  /\ sched \in SchedState
  /\ slice \in 0 .. SCHED_GRANULARITY
  /\ phase \in {"load", "run", "done"}
  /\ next_pid \in 0 .. PROCS
  /\ halted \in SUBSET Pids
  /\ stray \in BOOLEAN

SchedInit ==
  /\ sched = [ tree |-> <<>>, min_vruntime |-> 0, current |-> 0,
               nr_running |-> 0, vruntime |-> [p \in Pids |-> 0] ]
  /\ slice = 0
  /\ phase = "load"
  /\ next_pid = 0
  /\ halted = {}
  /\ stray = FALSE

Allocated == { p \in Pids : p < next_pid }

(* Allocated processes that wait for another process to resume them. *)
Asleep == Allocated \ (Runnable(sched) \cup halted)

(* A new process gets the next pid; its account is opened and it may run. *)
StartProcess(s) ==
  /\ next_pid < PROCS
  /\ sched' \in SchedResume(SchedReset(s, next_pid), next_pid)
  /\ next_pid' = next_pid + 1
  /\ UNCHANGED <<halted, stray>>

(* load_file: one more program of the input has been loaded. *)
LoadProcess ==
  /\ phase = "load"
  /\ StartProcess(sched)
  /\ UNCHANGED <<slice, phase>>

(* main calls sched_run once the whole input has been read. *)
StartRunning ==
  /\ phase = "load"
  /\ next_pid > 0
  /\ phase' = "run"
  /\ UNCHANGED <<sched, slice, next_pid, halted, stray>>

-----------------------------------------------------------------------------
(***************************************************************************)
(* One round of the inner loop of sched_run: the running process is charged *)
(* and then executes one instruction, which tick dispatches.                *)
(***************************************************************************)
CanTickOneMore ==
  /\ phase = "run"
  /\ slice <= SCHED_GRANULARITY
  /\ sched.nr_running > 0
  /\ sched.vruntime[sched.current] < MaxVruntime
CanTick ==
  /\ phase = "run"
  /\ slice < SCHED_GRANULARITY
  /\ sched.nr_running > 0
  /\ sched.vruntime[sched.current] < MaxVruntime

Charged == [sched EXCEPT !.vruntime[sched.current] = UInc(@)]

TickNext == /\ CanTick
            /\ slice' = slice + 1
            /\ UNCHANGED phase

(* An instruction that does not call the scheduler. *)
OpPlain ==
  /\ TickNext
  /\ sched' = Charged
  /\ UNCHANGED <<next_pid, halted, stray>>

(* An instruction that has to wait (RC, PE). *)
OpBlock ==
  /\ TickNext
  /\ sched' = SchedSuspend(Charged, sched.current)
  /\ UNCHANGED <<next_pid, halted, stray>>

(* The queue entry of q says that q waits; whether it does is not checked. *)
Resumed(q) ==
  /\ q \in Allocated
  /\ stray' = (stray \/ q \notin Asleep)

(* An instruction that lets q, which it found in a queue, go on (VE, RC).   *)
OpWake(q) ==
  /\ TickNext
  /\ Resumed(q)
  /\ sched.nr_running < MaxRunning
  /\ sched' \in SchedResume(Charged, q)
  /\ UNCHANGED <<next_pid, halted>>

(* SD to a process that is in one of the two queues it looks in. *)
OpBlockAndWake(q) ==
  /\ TickNext
  /\ Resumed(q)
  /\ sched' \in SchedResume(SchedSuspend(Charged, sched.current), q)
  /\ UNCHANGED <<next_pid, halted>>

(* FK. *)
OpFork ==
  /\ TickNext
  /\ StartProcess(Charged)

(* HA: sched_reset and then sched_suspend of the process itself. *)
OpHalt ==
  /\ TickNext
  /\ sched' = SchedSuspend(SchedReset(Charged, sched.current), sched.current)
  /\ halted' = halted \cup {sched.current}
  /\ UNCHANGED <<next_pid, stray>>

(* tick returns an error code: sched_run returns -1 and the program ends. *)
OpError ==
  /\ CanTick
  /\ sched' = Charged
  /\ phase' = "done"
  /\ UNCHANGED <<slice, next_pid, halted, stray>>

-----------------------------------------------------------------------------
(***************************************************************************)
(* After the inner loop: the end of a slice.                                *)
(***************************************************************************)
SliceOver ==
  /\ phase = "run"
  /\ slice = SCHED_GRANULARITY \/ sched.nr_running = 0

(* nr_running is 0: sched_run returns. *)
AllAsleep ==
  /\ SliceOver
  /\ sched.nr_running = 0
  /\ phase' = "done"
  /\ UNCHANGED <<sched, slice, next_pid, halted, stray>>

MustRotateNever(s) == FALSE
MustRotate(s) ==
  /\ s.nr_running >= 2
  /\ Ahead(s, s.current, Leftmost(s))

(* The running process keeps the processor for another slice. *)
NextSlice ==
  /\ SliceOver
  /\ sched.nr_running > 0
  /\ ~MustRotate(sched)
  /\ slice' = 0
  /\ UNCHANGED <<sched, phase, next_pid, halted, stray>>

(* Another process is treated more unfairly: it becomes the running one.    *)
(* min_vruntime is assigned before the comparisons of the insertion.        *)
Rotate ==
  /\ SliceOver
  /\ sched.nr_running > 0
  /\ MustRotate(sched)
  /\ sched' \in Preempt([sched EXCEPT
                  !.min_vruntime = sched.vruntime[Leftmost(sched)]])
  /\ slice' = 0
  /\ UNCHANGED <<phase, next_pid, halted, stray>>

SchedNext ==
  \/ LoadProcess
  \/ StartRunning
  \/ OpPlain
  \/ OpBlock
  \/ \E q \in Pids : OpWake(q) \/ OpBlockAndWake(q)
  \/ OpFork
  \/ OpHalt
  \/ OpError
  \/ AllAsleep
  \/ NextSlice
  \/ Rotate

SchedSpec == SchedInit /\ [][SchedNext]_schedVars

(***************************************************************************)
(* main and sched_run are one sequential program: as long as it can take a   *)
(* step it does.  Nothing is assumed about the instructions processes       *)
(* execute, nor about who wakes whom.                                       *)
(***************************************************************************)
SchedFairSpec == SchedSpec /\ WF_schedVars(SchedNext)

-----------------------------------------------------------------------------
(***************************************************************************)
(* Properties.                                                              *)
(***************************************************************************)

(* nr_running counts rq.current and the nodes of the tree.                  *)
Counted(s) ==
  /\ s.nr_running = 0 => s.tree = <<>>
  /\ s.nr_running > 0 => Len(s.tree) + 1 = s.nr_running

(* No process is in the tree twice, or both in the tree and running.        *)
NobodyTwice(s) ==
  s.nr_running > 0 =>
    /\ s.current \notin Range(s.tree)
    /\ IsInjective(s.tree)

Consistent(s) == Counted(s) /\ NobodyTwice(s)

(* The counter and the tree agree, whatever the instructions resume: when   *)
(* ctxt_switch is called there is a node (leftmost of an empty tree is its  *)
(* root sentinel, whose info is NULL).  A process is queued once, and not   *)
(* while it runs, as long as only sleepers have been resumed.               *)
RunQueueOK ==
  /\ Counted(sched)
  /\ ~stray => NobodyTwice(sched)

(* The keys of the nodes stay in order although they are pointers to the    *)
(* vruntime fields and although key_comp depends on min_vruntime: as long   *)
(* as only sleepers are resumed the running process, whose vruntime         *)
(* sched_run increments, has no node.                                       *)
TreeSorted ==
  ~stray =>
    \A i, j \in 1 .. Len(sched.tree) :
      i < j => ~Ahead(sched, sched.tree[i], sched.tree[j])

(* As long as only sleepers are resumed, a process never gets ahead of one  *)
(* that waits in the tree by more than the operations of the slice it is    *)
(* in: each of block, wake-up, fork, halt and rotation leaves the most      *)
(* unfairly treated process running.                                        *)
OverrunBound ==
  ~stray /\ phase # "done" /\ sched.nr_running > 0 =>
    \A q \in Range(sched.tree) :
      sched.vruntime[sched.current] <= sched.vruntime[q] + slice

(* As long as only sleepers are resumed, no runnable process is behind      *)
(* min_vruntime by more than the head start SCHED_LATENCY (the clamp of     *)
(* sched_resume), on the scale key_comp uses.                               *)
MinVruntimeLag ==
  ~stray =>
    \A q \in Runnable(sched) :
      AsInt(USub(sched.vruntime[q], sched.min_vruntime)) >= -SCHED_LATENCY

(* Sleeping, being resumed and being switched never take back the time a    *)
(* process has been charged; only its end (sched_reset) does.  That is so   *)
(* for every process an instruction may resume, asleep or not.              *)
ChargesKept ==
  [][ \A p \in Pids \ halted' :
        sched'.vruntime[p] >= sched.vruntime[p] ]_schedVars

(* Operations go to one runnable process whenever there is one, and only    *)
(* wake-ups and the running process itself change who is runnable.  As long *)
(* as only sleepers are resumed, an instruction that blocks takes its       *)
(* process out of the runnable ones and one that wakes q adds q, at once;   *)
(* the semaphores and the messages are modelled on top of that.  (Else a    *)
(* process that blocks may go on, from its second node.)                    *)
RS == INSTANCE RunSet
        WITH NoPid <- -1,
             runnable <- Runnable(sched),
             running <- IF sched.nr_running = 0 THEN -1 ELSE sched.current
DoneAsAsked ==
  /\ OpBlock \/ OpHalt => RS!Block
  /\ LoadProcess \/ OpFork => RS!Wake(next_pid)
  /\ \A q \in Pids : /\ OpWake(q) => RS!Wake(q)
                     /\ OpBlockAndWake(q) => RS!BlockAndWake(q)
ImplementsRunSet ==
  /\ RS!Spec
  /\ [][~stray' => DoneAsAsked]_schedVars

(* Every runnable process gets operations, whoever blocks, wakes sleepers,  *)
(* forks or halts: as long as it is runnable its virtual runtime grows to   *)
(* within a slice of any bound (the bound is where this model stops).       *)
(* sched_run gives it its share at the ends of slices and at every block.   *)
(* After the resume of a process that is not asleep nothing is promised:    *)
(* one that is queued twice is compared with itself and keeps the processor. *)
EveryoneAdvances ==
  \A p \in Pids :
    p \in Runnable(sched) ~>
      \/ p \notin Runnable(sched)
      \/ phase = "done"
      \/ stray
      \/ sched.vruntime[p] + SCHED_GRANULARITY >= MaxVruntime

(* sched.c:123, "don't let a process that has slept for an hour starve all  *)
(* the others": a process that is woken up is not further than its head     *)
(* start, and one slice, behind all the processes that were runnable.       *)
(* Asked only of resumes of sleepers, the ones the comment is about.        *)
SleeperCredit ==
  [][ \A q \in Runnable(sched)' \ Runnable(sched) :
        ~stray' /\ q \in Asleep /\ Runnable(sched) # {} =>
          \E p \in Runnable(sched) :
            sched'.vruntime[q] + SCHED_LATENCY + SCHED_GRANULARITY
              >= sched'.vruntime[p] ]_schedVars
=============================================================================
