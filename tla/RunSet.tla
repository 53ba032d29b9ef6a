------------------------------- MODULE RunSet -------------------------------
(***************************************************************************)
(* What the scheduler of sched.c promises to the rest of the emulator, with *)
(* virtual runtimes, the red-black tree and the counters left out: there is *)
(* a set of runnable processes; one of them is running whenever the set is  *)
(* not empty; a process leaves the set only while it is the running one,    *)
(* and enters it only from outside.  Sched implements this specification    *)
(* whatever the instructions resume, and Block, Wake and BlockAndWake are   *)
(* what its instructions do until one resumes a process that does not sleep *)
(* (DoneAsAsked of Sched).  The instructions that block and wake processes  *)
(* are modelled on top of it.                                               *)
(***************************************************************************)
CONSTANTS
  Pids,   (* process identifiers                                      *)
  NoPid   (* running when no process can run; not one of Pids         *)

VARIABLES
  runnable,  (* processes that may be given the next operation        *)
  running    (* the process the next operation belongs to             *)

runSetVars == <<runnable, running>>

Idle == runnable = {}

(* Whoever runs next is runnable; nobody runs only if nobody can. *)
Elect ==
  running' \in IF runnable' = {} THEN {NoPid} ELSE runnable'

(* The running process, if it is in the first set, and no other leaves the  *)
(* runnable ones; the second set joins them.                                *)
Reschedule(blocked, woken) ==
  /\ runnable' = (runnable \ blocked) \cup woken
  /\ Elect

Init ==
  /\ runnable = {}
  /\ running = NoPid

Wake(q) ==
  /\ q \notin runnable
  /\ Reschedule({}, {q})

Block ==
  /\ ~Idle
  /\ Reschedule({running}, {})

(* The running process stops and hands over to q in the same operation. *)
BlockAndWake(q) ==
  /\ ~Idle
  /\ q \notin runnable
  /\ Reschedule({running}, {q})

Switch ==
  /\ ~Idle
  /\ Reschedule({}, {})

Next ==
  \/ Block
  \/ Switch
  \/ \E q \in Pids : Wake(q) \/ BlockAndWake(q)

Spec == Init /\ [][Next]_runSetVars
=============================================================================
