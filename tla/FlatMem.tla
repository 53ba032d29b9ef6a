------------------------------ MODULE FlatMem ------------------------------
(***************************************************************************)
(* The memory the instructions of the emulator work on, as if there were no *)
(* paging: one value per page, and the last access to it.  (A page stands   *)
(* for its words: they are never moved separately.)                         *)
(***************************************************************************)
CONSTANTS Pages, Vals, Blank

VARIABLES
  memory,  (* the content of the address space                        *)
  access   (* the last access: what was read or written, and where    *)

Read(a) ==
  /\ access' = [kind |-> "read", page |-> a, val |-> memory[a]]
  /\ UNCHANGED memory

Write(a, v) ==
  /\ access' = [kind |-> "write", page |-> a, val |-> v]
  /\ memory' = [memory EXCEPT ![a] = v]

Init ==
  /\ memory = [a \in Pages |-> Blank]
  /\ access = [kind |-> "none"]

Next == \E a \in Pages : Read(a) \/ \E v \in Vals : Write(a, v)

Spec == Init /\ [][Next]_<<memory, access>>
=============================================================================
