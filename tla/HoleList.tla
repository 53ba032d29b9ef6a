----------------------------- MODULE HoleList -----------------------------
(***************************************************************************)
(* The allocation of the virtual address space to processes: the list of    *)
(* holes of hole_list.c (first fit, no coalescing) and its users procalloc, *)
(* HA and EX.  A process keeps what it was given in its base and limit      *)
(* registers, which are words of four decimal digits.                       *)
(***************************************************************************)
EXTENDS Integers, Sequences, SequencesExt

CONSTANTS
  PROCS,       (* number of process slots, 100 in mem.h               *)
  VADDR_SIZE,  (* words of the address space, PROCS * 100 in mem.h    *)
  WORD_RANGE,  (* 10000: the numbers a word holds                     *)
  Sizes        (* the sizes in the headers of the programs            *)

ASSUME HoleListAssumption ==
  /\ PROCS \in Nat \ {0}
  /\ VADDR_SIZE \in Nat \ {0}
  /\ WORD_RANGE \in Nat \ {0}
  /\ Sizes \subseteq Nat \ {0}

Pids == 0 .. PROCS - 1

Hole(a, n) == [addr |-> a, size |-> n]

(* The words from a on, n of them. *)
Extent(a, n) == a .. a + n - 1

-----------------------------------------------------------------------------
(***************************************************************************)
(* hole_list.c.                                                             *)
(***************************************************************************)

(* The first of some places of the list. *)
First(I) == CHOOSE i \in I : \A j \in I : i <= j

(* The new hole goes before the first one that is not below it. *)
AddHoleFront(hs, loc, n) == <<Hole(loc, n)>> \o hs
AddHoleLast(hs, loc, n) == Append(hs, Hole(loc, n))
AddHole(hs, loc, n) ==
  LET above == { i \in 1 .. Len(hs) : hs[i].addr >= loc }
  IN  InsertAt(hs, First(above \cup {Len(hs) + 1}), Hole(loc, n))

(* The holes that are large enough; the first one is taken. *)
Fits(hs, n) == { i \in 1 .. Len(hs) : hs[i].size >= n }
FirstFit(hs, n) == hs[First(Fits(hs, n))].addr

(* A hole of the very size leaves the list.  A larger one moves up by n     *)
(* words and keeps its size.                                                *)
WithoutFirstFitUnmoved(hs, n) ==
  LET i == First(Fits(hs, n))
  IN  IF hs[i].size = n THEN RemoveAt(hs, i) ELSE hs

WithoutFirstFit(hs, n) ==
  LET i == First(Fits(hs, n))
  IN  IF hs[i].size = n
        THEN RemoveAt(hs, i)
        ELSE [hs EXCEPT ![i].addr = @ + n]

-----------------------------------------------------------------------------
VARIABLES
  holes,     (* the list of holes                                     *)
  regs,      (* base and limit registers of the processes             *)
  next_pid,  (* processes allocated so far                            *)
  live       (* processes that have been allocated and have not ended *)

holeVars == <<holes, regs, next_pid, live>>

Words == 0 .. WORD_RANGE - 1

HoleTypeOK ==
  /\ \A i \in 1 .. Len(holes) : holes[i].addr \in Nat /\ holes[i].size \in Nat
  /\ regs \in [Pids -> [br : Words, lr : Words]]
  /\ next_pid \in 0 .. PROCS
  /\ live \subseteq 0 .. next_pid - 1

(* pagemem_init frees the whole address space. *)
HoleInit ==
  /\ holes = AddHole(<<>>, 0, VADDR_SIZE)
  /\ regs = [p \in Pids |-> [br |-> 0, lr |-> 0]]
  /\ next_pid = 0
  /\ live = {}

(* int2word of the address and of the highest valid offset. *)
Registers(addr, n) ==
  [br |-> addr % WORD_RANGE, lr |-> (n - 1) % WORD_RANGE]

(* procalloc, by load_file or FK.  (When there is no pid or no hole it      *)
(* changes nothing and its caller ends the program.)                        *)
ProcAllocLatePidCheck(n) ==
  /\ next_pid <= PROCS
  /\ Fits(holes, n) # {}
  /\ holes' = WithoutFirstFit(holes, n)
  /\ regs' = [regs EXCEPT ![next_pid] = Registers(FirstFit(holes, n), n)]
  /\ next_pid' = next_pid + 1
  /\ live' = live \cup {next_pid}

ProcAlloc(n) ==
  /\ next_pid < PROCS
  /\ Fits(holes, n) # {}
  /\ holes' = WithoutFirstFit(holes, n)
  /\ regs' = [regs EXCEPT ![next_pid] = Registers(FirstFit(holes, n), n)]
  /\ next_pid' = next_pid + 1
  /\ live' = live \cup {next_pid}

(* HA: freemem of what the registers say. *)
HaltFreesLimit(p) ==
  /\ p \in live
  /\ holes' = AddHole(holes, regs[p].br, regs[p].lr)
  /\ live' = live \ {p}
  /\ UNCHANGED <<regs, next_pid>>

Halt(p) ==
  /\ p \in live
  /\ holes' = AddHole(holes, regs[p].br, regs[p].lr + 1)
  /\ live' = live \ {p}
  /\ UNCHANGED <<regs, next_pid>>

(* resize_proc, by EX: the new region is allocated before the old one is    *)
(* freed.                                                                   *)
ResizeProc(p, n) ==
  /\ p \in live
  /\ Fits(holes, n) # {}
  /\ holes' = AddHole(WithoutFirstFit(holes, n), regs[p].br, regs[p].lr + 1)
  /\ regs' = [regs EXCEPT ![p] = Registers(FirstFit(holes, n), n)]
  /\ UNCHANGED <<next_pid, live>>

HoleNext ==
  \/ \E n \in Sizes : ProcAlloc(n) \/ \E p \in Pids : ResizeProc(p, n)
  \/ \E p \in Pids : Halt(p)

HoleSpec == HoleInit /\ [][HoleNext]_holeVars

-----------------------------------------------------------------------------
(***************************************************************************)
(* Properties.                                                              *)
(***************************************************************************)

(* The words get_global_address lets the process use. *)
Region(p) == Extent(regs[p].br, regs[p].lr + 1)
Free(i) == Extent(holes[i].addr, holes[i].size)

(* No word belongs to two processes, through any sequence of allocations,   *)
(* halts and resizes.                                                       *)
NoOverlap ==
  \A p, q \in live : p # q => Region(p) \cap Region(q) = {}

(* No process has words outside of the address space, for which there is no *)
(* page.                                                                    *)
InBounds ==
  \A p \in live : Region(p) \subseteq Extent(0, VADDR_SIZE)

(* The list is in the order of the addresses and no word is free twice or   *)
(* both free and in use: what one process is given next is nobody else's.   *)
HolesDisjoint ==
  /\ \A i, j \in 1 .. Len(holes) :
       i < j => holes[i].addr + holes[i].size <= holes[j].addr
  /\ \A i \in 1 .. Len(holes), p \in live : Free(i) \cap Region(p) = {}

(* Every word of the address space is in use or free: freed memory can be   *)
(* allocated again.                                                         *)
NothingLost ==
  Extent(0, VADDR_SIZE) \subseteq
    (UNION { Free(i) : i \in 1 .. Len(holes) }) \cup (UNION { Region(p) : p \in live })
=============================================================================
