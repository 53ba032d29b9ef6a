----------------------------- MODULE WaitQueue -----------------------------
(***************************************************************************)
(* wait_queue.c: the lists of processes that wait for a semaphore or for a  *)
(* message.  A list is the sequence of its processes, head first.           *)
(***************************************************************************)
EXTENDS Naturals, Sequences, SequencesExt

InsertProc(l, p) == Append(l, p)

(* Only the first node of p is removed; a list without p is left alone, and *)
(* the result is the same as for a successful removal.                      *)
RemoveProc(l, p) == RemoveFirst(l, p)

Queued(l) == Range(l)
=============================================================================
