------------------------------ MODULE Process ------------------------------
(***************************************************************************)
(* The processes of the emulator as tick (vm/vm.c) sees them, on top of the *)
(* abstract scheduler: which exist, which have halted, and which            *)
(* instruction each executes next.  A program is any sequence of            *)
(* instructions, so the next one is not determined, except that an          *)
(* instruction that had to wait sets the instruction counter back to itself *)
(* (retry_op) and is executed again.                                        *)
(*                                                                          *)
(* The scheduler does what Reschedule says as long as only sleepers are     *)
(* resumed (DoneAsAsked of Sched): behaviours with RC ** are those of the   *)
(* emulator up to the first resume of a process that does not sleep.        *)
(***************************************************************************)
EXTENDS RunSet, FiniteSets

CONSTANT None  (* no instruction is being retried *)

ASSUME ProcAssumption == IsFiniteSet(Pids) /\ NoPid \notin Pids

VARIABLES
  allocated,  (* processes procalloc has handed out                  *)
  pending,    (* pending[p]: instruction retry_op has gone back to   *)
  halted,     (* processes that have executed HA                     *)
  ended       (* tick has returned an error: the program is over     *)

procVars == <<runnable, running, allocated, pending, halted, ended>>

ProcTypeOK ==
  /\ allocated \subseteq Pids
  /\ runnable \subseteq Pids
  /\ running \in Pids \cup {NoPid}
  /\ DOMAIN pending = Pids
  /\ halted \subseteq allocated
  /\ ended \in BOOLEAN

(* load_file has loaded some processes and sched_run starts. *)
ProcInit ==
  /\ allocated \in (SUBSET Pids) \ {{}}
  /\ runnable = allocated
  /\ running \in allocated
  /\ pending = [p \in Pids |-> None]
  /\ halted = {}
  /\ ended = FALSE

Asleep == allocated \ (runnable \cup halted)

(* The running process executes instruction i in this round of sched_run:   *)
(* tick has read it and moved the instruction counter past it.              *)
Executes(i) ==
  /\ ~ended
  /\ running \in runnable
  /\ pending[running] \in {None, i}
  /\ UNCHANGED ended

(* What tick leaves behind in the instruction counter: the next instruction *)
(* of the program, or i again.                                              *)
Proceed == pending' = [pending EXCEPT ![running] = None]
RetryOp(i) == pending' = [pending EXCEPT ![running] = i]

(* An instruction that concerns only the process itself. *)
OpPlain ==
  /\ Executes(None)
  /\ Reschedule({}, {})
  /\ UNCHANGED <<allocated, pending, halted>>

(* FK: a process that has never run gets a copy of the state of this one. *)
OpForkUncounted(q) ==
  /\ Executes(None)
  /\ q \notin allocated
  /\ Reschedule({}, {q})
  /\ UNCHANGED <<allocated, pending, halted>>

OpFork(q) ==
  /\ Executes(None)
  /\ q \notin allocated
  /\ allocated' = allocated \cup {q}
  /\ Reschedule({}, {q})
  /\ UNCHANGED <<pending, halted>>

(* HA: the process is suspended for good. *)
OpHalt ==
  /\ Executes(None)
  /\ Reschedule({running}, {})
  /\ halted' = halted \cup {running}
  /\ UNCHANGED <<allocated, pending>>

(* tick returns an error, whatever the instruction. *)
OpError ==
  /\ ~ended
  /\ running \in runnable
  /\ ended' = TRUE
  /\ UNCHANGED <<runnable, running, allocated, pending, halted>>

ProcNext == OpPlain \/ OpHalt \/ OpError \/ \E q \in Pids : OpFork(q)
=============================================================================
