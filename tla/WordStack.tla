----------------------------- MODULE WordStack ------------------------------
(***************************************************************************)
(* What the stack instructions promise to a program that keeps its stack    *)
(* pointer in sp: a stack of words next to the register r.                  *)
(***************************************************************************)
EXTENDS Sequences, SequencesExt

CONSTANTS
  Results(_, _),  (* what an operation can make of the second word of the   *)
                  (* stack and of the one at the top                        *)
  Base(_)         (* where a stack begins that begins at a register's word  *)

VARIABLES
  stack,  (* the words pushed and not popped, the last one at the top       *)
  base,   (* where it begins                                                *)
  r       (* the register                                                   *)

wordStackVars == <<stack, base, r>>

Init == stack = <<>>

Push == stack' = Append(stack, r) /\ UNCHANGED <<base, r>>

Pop ==
  /\ stack # <<>>
  /\ stack' = Front(stack)
  /\ r' = Last(stack)
  /\ base' = base

(* The operations are for two elements and more. *)
Combine ==
  /\ Len(stack) > 1
  /\ LET rest == Front(stack)
     IN  \E w \in Results(Last(rest), Last(stack)) :
           stack' = [rest EXCEPT ![Len(rest)] = w]
  /\ UNCHANGED <<base, r>>

(* Other instructions change the register, store into words that happen to  *)
(* be on the stack, or begin a new stack where the register says.           *)
SetRegister == UNCHANGED <<stack, base>>
Store == Len(stack') = Len(stack) /\ UNCHANGED <<base, r>>
Restart == stack' = <<>> /\ base' = Base(r')

Next == Push \/ Pop \/ Combine \/ SetRegister \/ Store \/ Restart

Spec == Init /\ [][Next]_wordStackVars
=============================================================================
