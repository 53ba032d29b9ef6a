---------------------------- MODULE Semaphores ----------------------------
(***************************************************************************)
(* The semaphore instructions: the table of sem.c and the wait queues of    *)
(* vm/sem.c.  PE takes a semaphore or waits for it, VE releases it and      *)
(* wakes up the first process that waits, SI sets its value.  The woken     *)
(* process does not own the semaphore: it executes its PE again.            *)
(***************************************************************************)
EXTENDS Process, WaitQueue

CONSTANTS
  Sems,     (* the semaphores, 0 .. 99 in sem.c                     *)
  MaxSem,   (* bound: VE is not executed at this value              *)
  SetVals   (* the values programs set semaphores to with SI        *)

PE(s) == <<"PE", s>>

ASSUME SemAssumption ==
  /\ MaxSem \in Nat \ {0}
  /\ SetVals \subseteq 0 .. MaxSem
  /\ \A s \in Sems : None # PE(s)

VARIABLES
  sem_table,  (* the value of each semaphore            *)
  sem_wq      (* the processes that wait for it         *)

semVars == <<sem_table, sem_wq>>

SemTypeOK ==
  /\ sem_table \in [Sems -> 0 .. MaxSem]
  /\ sem_wq \in [Sems -> Seq(Pids)]

(* sem_op_init and sem_init: every semaphore is 1. *)
SemTableInit ==
  /\ sem_table = [s \in Sems |-> 1]
  /\ sem_wq = [s \in Sems |-> <<>>]

(* sem_p when it does not block. *)
TakeSemUnchecked(s) ==
  /\ sem_table' = [sem_table EXCEPT ![s] = @ - 1]
  /\ Proceed
  /\ Reschedule({}, {})
  /\ UNCHANGED sem_wq

TakeSem(s) ==
  /\ sem_table[s] > 0
  /\ sem_table' = [sem_table EXCEPT ![s] = @ - 1]
  /\ Proceed
  /\ Reschedule({}, {})
  /\ UNCHANGED sem_wq

WaitForSem(s) ==
  /\ sem_table[s] = 0
  /\ RetryOp(PE(s))
  /\ Reschedule({running}, {})
  /\ sem_wq' = [sem_wq EXCEPT ![s] = InsertProc(@, running)]
  /\ UNCHANGED sem_table

(* PE s. *)
SemDown(s) ==
  /\ Executes(PE(s))
  /\ TakeSem(s) \/ WaitForSem(s)
  /\ UNCHANGED <<allocated, halted>>

(* Who is woken up by sem_up, and what it leaves of the queue. *)
FirstWaiter(s) == IF sem_wq[s] = <<>> THEN {} ELSE {Head(sem_wq[s])}

WakeNobody(s) == Reschedule({}, {}) /\ UNCHANGED sem_wq

WakeLast(s) ==
  LET woken == IF sem_wq[s] = <<>> THEN {} ELSE {Last(sem_wq[s])}
  IN  /\ Reschedule({}, woken)
      /\ sem_wq' = [sem_wq EXCEPT ![s] = SelectSeq(@, LAMBDA p : p \notin woken)]

WakeFirstNoRemove(s) ==
  /\ Reschedule({}, FirstWaiter(s))
  /\ UNCHANGED sem_wq

WakeFirst(s) ==
  /\ Reschedule({}, FirstWaiter(s))
  /\ sem_wq' = [sem_wq EXCEPT ![s] =
                  IF @ = <<>> THEN @ ELSE RemoveProc(@, Head(@))]

(* VE s. *)
SemUp(s) ==
  /\ Executes(None)
  /\ sem_table[s] < MaxSem
  /\ sem_table' = [sem_table EXCEPT ![s] = @ + 1]
  /\ WakeFirst(s)
  /\ UNCHANGED <<allocated, pending, halted>>

(* SI s: nobody is woken up. *)
SetSem(s, v) ==
  /\ Executes(None)
  /\ sem_table' = [sem_table EXCEPT ![s] = v]
  /\ Reschedule({}, {})
  /\ UNCHANGED <<allocated, pending, halted, sem_wq>>

SemNext ==
  \E s \in Sems : \/ SemDown(s)
                  \/ SemUp(s)
                  \/ \E v \in SetVals : SetSem(s, v)

-----------------------------------------------------------------------------
(***************************************************************************)
(* Properties.                                                              *)
(***************************************************************************)

Waiters(s) == Queued(sem_wq[s])
Retrying(s) == { p \in runnable : pending[p] = PE(s) }

(* A process is in the queue of a semaphore, once, exactly if it sleeps in  *)
(* a PE of that semaphore.  Otherwise VE would resume a process that does   *)
(* not wait for it, or one would sleep without anybody able to wake it up.  *)
SleepersQueued ==
  \A s \in Sems : /\ IsInjective(sem_wq[s])
                 /\ Waiters(s) = { p \in Asleep : pending[p] = PE(s) }

(* No wake-up is lost between VE and the retried PE: while processes wait,  *)
(* every unit of the semaphore is matched by a process that was woken up    *)
(* and is on its way to take it, even if others take it first.  SI that     *)
(* raises the value breaks this, so it is checked without such an SI.       *)
NoLostWakeup ==
  \A s \in Sems :
    sem_wq[s] # <<>> => sem_table[s] <= Cardinality(Retrying(s))

(* A semaphore that is free while processes wait for it is taken by one of  *)
(* them or by another process, or is given back its waiters.                *)
FreeSemTaken ==
  \A s \in Sems :
    sem_table[s] > 0 /\ sem_wq[s] # <<>> ~>
      sem_table[s] = 0 \/ sem_wq[s] = <<>> \/ ended

(* The order of the queue: a process waiting longer is never woken up       *)
(* after one that queued behind it.                                         *)
FirstComeFirstWoken ==
  [][ \A s \in Sems : \A i, j \in 1 .. Len(sem_wq[s]) :
        i < j /\ sem_wq[s][j] \in runnable' => sem_wq[s][i] \in runnable'
    ]_<<procVars, semVars>>
=============================================================================
