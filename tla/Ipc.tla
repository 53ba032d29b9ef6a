-------------------------------- MODULE Ipc ---------------------------------
(***************************************************************************)
(* The processes of the emulator with all the instructions that put them to *)
(* sleep and resume them: the semaphores of vm/sem.c and the messages of    *)
(* vm/msg.c share the processes, the scheduler and retry_op, and nothing    *)
(* but the places a sleeper is queued in tells what it sleeps for.          *)
(***************************************************************************)
EXTENDS Semaphores, Messages

ipcVars == <<procVars, semVars, msgVars>>

(* sched_init, sem_init, sem_op_init and msg_init, and the loading. *)
IpcInit == ProcInit /\ SemTableInit /\ MsgQueuesInit

(* One round of sched_run. *)
IpcNext ==
  \/ ProcNext /\ UNCHANGED <<semVars, msgVars>>
  \/ SemNext /\ UNCHANGED msgVars
  \/ MsgNext /\ UNCHANGED semVars

IpcSpec == IpcInit /\ [][IpcNext]_ipcVars

(***************************************************************************)
(* sched_run gives operations to every process that stays runnable: this is *)
(* EveryoneAdvances, and OverrunBound, of Sched, as long as only sleepers   *)
(* are resumed, which OnlySleepersResumed says.                             *)
(***************************************************************************)
IpcFairSpec ==
  IpcSpec /\ \A p \in Pids : WF_ipcVars(IpcNext /\ running' = p)

(* What retry_op can have gone back to. *)
Froms == Pids \cup {AnyPid}
Waits == {None} \cup { PE(s) : s \in Sems } \cup { RC(from) : from \in Froms }

IpcTypeOK ==
  /\ ProcTypeOK
  /\ pending \in [Pids -> Waits]
  /\ SemTypeOK
  /\ MsgTypeOK

-----------------------------------------------------------------------------
(***************************************************************************)
(* Properties.                                                              *)
(***************************************************************************)

SD(q) == <<"SD", q>>

(* The queues p is in, by the instruction that waits in them. *)
WaitsIn(p) ==
  { PE(s) : s \in { s \in Sems : p \in Waiters(s) } }
  \cup { RC(from) : from \in { from \in Froms : p \in Queued(recv_wq[from]) } }
  \cup { SD(q) : q \in Sending(p) }

(* Whoever sleeps is in exactly one of all the queues, once: the one of the *)
(* instruction it will retry, or, as a sender, the one of its receiver.  A  *)
(* sleeper in none is never resumed, one in two is resumed while it runs.   *)
OneQueueEach ==
  /\ \A q \in Pids : IsInjective(send_wq[q])
  /\ \A from \in Froms : IsInjective(recv_wq[from])
  /\ \A p \in Asleep :
       IF pending[p] = None
         THEN \E q \in Pids : WaitsIn(p) = {SD(q)}
         ELSE WaitsIn(p) = {pending[p]}

(* Whoever is in a queue, and may therefore be resumed by VE, SD or RC,     *)
(* sleeps: this is what sched_resume needs, and keeps stray of Sched FALSE. *)
(* It holds for programs whose RC names the sender; RC ** leaves processes  *)
(* in its queue that go on.                                                 *)
OnlySleepersResumed == \A p \in Pids : WaitsIn(p) # {} => p \in Asleep
=============================================================================
