----------------------------- MODULE Messages -----------------------------
(***************************************************************************)
(* The message instructions of vm/msg.c.  SD q blocks the sender until q    *)
(* has taken the message out of its memory.  RC p waits for a message of p, *)
(* RC ** for one of anybody; a receiver that waits is woken up by a sender  *)
(* and executes its RC again.  send_wq[q] holds the processes that send to  *)
(* q, recv_wq[p] those that wait for a message of p, recv_wq[AnyPid] those  *)
(* that wait for any message.                                               *)
(***************************************************************************)
EXTENDS Process, WaitQueue

CONSTANTS
  AnyPid,    (* the sender of RC **; not one of Pids          *)
  RecvFrom   (* the senders programs name in RC               *)

RC(from) == <<"RC", from>>

ASSUME MsgAssumption ==
  /\ AnyPid \notin Pids
  /\ \A from \in Pids \cup {AnyPid} : None # RC(from)

VARIABLES
  recv_wq,  (* see above; the last index, PROCS, is AnyPid               *)
  send_wq   (* processes blocked in SD, by the process they send to   *)

msgVars == <<recv_wq, send_wq>>

MsgTypeOK ==
  /\ recv_wq \in [Pids \cup {AnyPid} -> Seq(Pids)]
  /\ send_wq \in [Pids -> Seq(Pids)]

MsgQueuesInit ==
  /\ recv_wq = [p \in Pids \cup {AnyPid} |-> <<>>]
  /\ send_wq = [p \in Pids |-> <<>>]

Senders(q) == Queued(send_wq[q])

-----------------------------------------------------------------------------
(***************************************************************************)
(* RC.                                                                      *)
(***************************************************************************)

(* The places of the queue of this process that RC from accepts. *)
Acceptable(from) ==
  { i \in 1 .. Len(send_wq[running]) :
      from = AnyPid \/ send_wq[running][i] = from }

(* The first one is taken. *)
Accepted(from) == { i \in Acceptable(from) : \A j \in Acceptable(from) : i <= j }

(* The message is copied, its sender may go on. *)
TakeMessageKeepSender(from) ==
  \E i \in Accepted(from) :
    /\ Reschedule({}, {send_wq[running][i]})
    /\ Proceed
    /\ UNCHANGED <<recv_wq, send_wq>>

TakeMessage(from) ==
  \E i \in Accepted(from) :
    LET sender == send_wq[running][i]
    IN  /\ send_wq' = [send_wq EXCEPT ![running] = RemoveProc(@, sender)]
        /\ Reschedule({}, {sender})
        /\ Proceed
        /\ UNCHANGED recv_wq

WaitForMessage(from) ==
  /\ Acceptable(from) = {}
  /\ RetryOp(RC(from))
  /\ recv_wq' = [recv_wq EXCEPT ![from] = InsertProc(@, running)]
  /\ Reschedule({running}, {})
  /\ UNCHANGED send_wq

(* RC from. *)
Recv(from) ==
  /\ Executes(RC(from))
  /\ TakeMessage(from) \/ WaitForMessage(from)
  /\ UNCHANGED <<allocated, halted>>

-----------------------------------------------------------------------------
(***************************************************************************)
(* SD.                                                                      *)
(***************************************************************************)

(* q is found in the queue of this sender, or in the one of RC **. *)
WaitsForThis(q) == q \in Queued(recv_wq[running])
WaitsForAny(q) == q \in Queued(recv_wq[AnyPid])

(* The removal from the second queue is never tried: remove_proc returns 0  *)
(* also when the process is not in the first one.                           *)
ForgetReceiverNot(q) == UNCHANGED recv_wq
ForgetReceiver(q) ==
  recv_wq' = [recv_wq EXCEPT ![running] = RemoveProc(@, q)]

WakeReceiverNever(q) == Reschedule({running}, {}) /\ UNCHANGED recv_wq

WakeReceiverSenderGoesOn(q) ==
  IF WaitsForThis(q) \/ WaitsForAny(q)
    THEN Reschedule({}, {q}) /\ ForgetReceiver(q)
    ELSE Reschedule({}, {}) /\ UNCHANGED recv_wq

WakeReceiver(q) ==
  IF WaitsForThis(q) \/ WaitsForAny(q)
    THEN Reschedule({running}, {q}) /\ ForgetReceiver(q)
    ELSE Reschedule({running}, {}) /\ UNCHANGED recv_wq

(* SD q.  The sender does not retry: it goes on once it is resumed. *)
Send(q) ==
  /\ Executes(None)
  /\ send_wq' = [send_wq EXCEPT ![q] = InsertProc(@, running)]
  /\ WakeReceiver(q)
  /\ UNCHANGED <<allocated, pending, halted>>

MsgNext ==
  \/ \E q \in Pids : Send(q)
  \/ \E from \in RecvFrom : Recv(from)

-----------------------------------------------------------------------------
(***************************************************************************)
(* Properties.                                                              *)
(***************************************************************************)

Sending(p) == { q \in Pids : p \in Senders(q) }
WaitsFor(q, p) == pending[q] \in {RC(p), RC(AnyPid)}

(* A sender and a receiver that wait for each other cannot both be asleep.  *)
NoMissedRendezvous ==
  \A q \in Asleep : \A p \in Senders(q) : ~WaitsFor(q, p)

(* SD is synchronous: a sender goes on only in a step in which its receiver *)
(* executes RC and takes the message, and the queue forgets it then.        *)
BlockedUntilReceived ==
  [][ \A p, q \in Pids :
        p \in Senders(q) /\ p \in runnable' =>
          running = q /\ p \notin Queued(send_wq'[q]) ]_<<procVars, msgVars>>

(* A process that sends to one that has waited for it will be received,     *)
(* whatever the other processes do.                                         *)
Delivered ==
  \A p, q \in Pids :
    p \in Senders(q) /\ WaitsFor(q, p) ~>
      p \notin Senders(q) \/ ~WaitsFor(q, p) \/ ended
=============================================================================
