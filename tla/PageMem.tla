------------------------------ MODULE PageMem ------------------------------
(***************************************************************************)
(* The demand paging of pagemem.c.  A page of the address space is in a     *)
(* frame of mem or only in page_mem, the secondary storage.  An instruction *)
(* gets references to words (get_wordref), which are pointers into frames   *)
(* and pin their pages, reads or writes through them and releases them.     *)
(* A page is as large as a word here: the words of a page are never moved   *)
(* separately.                                                              *)
(***************************************************************************)
EXTENDS Integers, Sequences, SequencesExt

CONSTANTS
  PG_COUNT,     (* number of pages of the address space                  *)
  FRAME_COUNT,  (* MEMSIZE / pg_size, the frames of mem                  *)
  Vals,         (* contents of a page                                    *)
  Blank,        (* the one mem and page_mem are filled with, '0'         *)
  MaxRefs,      (* bound: references an instruction holds, 3 in msg.c    *)
  MaxOps        (* bound: operations executed                            *)

ASSUME PageMemAssumption ==
  /\ PG_COUNT \in Nat \ {0}
  /\ FRAME_COUNT \in Nat \ {0}
  /\ Blank \in Vals
  /\ MaxRefs \in Nat /\ MaxOps \in Nat

Pages == 0 .. PG_COUNT - 1
Frames == 0 .. FRAME_COUNT - 1

VARIABLES
  page_mem,     (* secondary storage                                     *)
  mem,          (* the frames                                            *)
  pg_table,     (* page table: valid, frame and refcount of each page    *)
  free_frames,  (* the frames whose flag is 1                            *)
  pg_period,    (* frequency table: last_access and period of each page  *)
  ops,          (* operations executed (sched.c)                         *)
  refs,         (* the references the instruction holds                  *)
  access,       (* the last access of an instruction or of the loader    *)
  mode          (* "load", "run", or "failed": an instruction has failed *)

pageVars == <<page_mem, mem, pg_table, free_frames, pg_period, ops, refs,
              access, mode>>

PageTypeOK ==
  /\ page_mem \in [Pages -> Vals]
  /\ mem \in [Frames -> Vals]
  /\ pg_table \in [Pages -> [valid : BOOLEAN, frame : Frames, refcount : Nat]]
  /\ free_frames \subseteq Frames
  /\ pg_period \in [Pages -> [last_access : 0 .. MaxOps, period : 0 .. MaxOps]]
  /\ ops \in 0 .. MaxOps
  /\ refs \in Seq([page : Pages, frame : Frames])
  /\ mode \in {"load", "run", "failed"}

PageInit ==
  /\ page_mem = [a \in Pages |-> Blank]
  /\ mem = [f \in Frames |-> Blank]
  /\ pg_table = [a \in Pages |-> [valid |-> FALSE, frame |-> 0, refcount |-> 0]]
  /\ free_frames = Frames
  /\ pg_period = [a \in Pages |-> [last_access |-> 0, period |-> 0]]
  /\ ops = 0
  /\ refs = <<>>
  /\ access = [kind |-> "none"]
  /\ mode = "load"

-----------------------------------------------------------------------------
(***************************************************************************)
(* Loading.                                                                 *)
(***************************************************************************)

(* page_store: the word goes to secondary storage only. *)
PageStore(a, v) ==
  /\ page_mem' = [page_mem EXCEPT ![a] = v]
  /\ access' = [kind |-> "write", page |-> a, val |-> v]

(* load_code, called by load_file. *)
LoadWord(a, v) ==
  /\ mode = "load"
  /\ PageStore(a, v)
  /\ UNCHANGED <<mem, pg_table, free_frames, pg_period, ops, refs, mode>>

StartRunning ==
  /\ mode = "load"
  /\ mode' = "run"
  /\ UNCHANGED <<page_mem, mem, pg_table, free_frames, pg_period, ops, refs,
                 access>>

-----------------------------------------------------------------------------
(***************************************************************************)
(* touch_page.                                                              *)
(***************************************************************************)

(* What get_removal_page chooses from: pages in a frame without references. *)
RemovableEvenPinned == { a \in Pages : pg_table[a].valid }
Removable == { a \in Pages : pg_table[a].valid /\ pg_table[a].refcount = 0 }

(* The one with the longest period between accesses, the first of several.  *)
RemovalPage ==
  CHOOSE a \in Removable : \A b \in Removable :
    \/ pg_period[a].period > pg_period[b].period
    \/ pg_period[a].period = pg_period[b].period /\ a <= b

FirstFree == CHOOSE f \in free_frames : \A g \in free_frames : f <= g

(* update_page_info, with a history weight of 0.5 and both terms truncated. *)
AgedBackwards(e) ==
  [ last_access |-> ops,
    period |-> e.period \div 2 + (e.last_access - ops) \div 2 ]
Aged(e) ==
  [ last_access |-> ops,
    period |-> e.period \div 2 + (ops - e.last_access) \div 2 ]

UpdatePageInfo(a) == pg_period' = [pg_period EXCEPT ![a] = Aged(@)]

(* The page table after page a has come to frame f and is referred to. *)
PagedIn(t, a, f) ==
  [t EXCEPT ![a] = [valid |-> TRUE, frame |-> f, refcount |-> @.refcount + 1]]

Hold(a, f) == refs' = Append(refs, [page |-> a, frame |-> f])

CanTouch(a) == mode = "run" /\ Len(refs) < MaxRefs /\ UNCHANGED <<ops, access, mode>>

TouchResident(a) ==
  /\ CanTouch(a)
  /\ pg_table[a].valid
  /\ pg_table' = [pg_table EXCEPT ![a].refcount = @ + 1]
  /\ UpdatePageInfo(a)
  /\ Hold(a, pg_table[a].frame)
  /\ UNCHANGED <<page_mem, mem, free_frames>>

(* A page fault: page_in takes the first free frame. *)
TouchFaultFlagKept(a) ==
  /\ CanTouch(a)
  /\ ~pg_table[a].valid
  /\ free_frames # {}
  /\ mem' = [mem EXCEPT ![FirstFree] = page_mem[a]]
  /\ pg_table' = PagedIn(pg_table, a, FirstFree)
  /\ UpdatePageInfo(a)
  /\ Hold(a, FirstFree)
  /\ UNCHANGED <<page_mem, free_frames>>

TouchFault(a) ==
  /\ CanTouch(a)
  /\ ~pg_table[a].valid
  /\ free_frames # {}
  /\ mem' = [mem EXCEPT ![FirstFree] = page_mem[a]]
  /\ pg_table' = PagedIn(pg_table, a, FirstFree)
  /\ free_frames' = free_frames \ {FirstFree}
  /\ UpdatePageInfo(a)
  /\ Hold(a, FirstFree)
  /\ UNCHANGED page_mem

(* A page fault without a free frame: toss_page stores another page and     *)
(* gives its frame away.                                                    *)
TouchTossNoStore(a) ==
  /\ CanTouch(a)
  /\ ~pg_table[a].valid
  /\ free_frames = {}
  /\ Removable # {}
  /\ LET f == pg_table[RemovalPage].frame
     IN  /\ mem' = [mem EXCEPT ![f] = page_mem[a]]
         /\ pg_table' = PagedIn([pg_table EXCEPT ![RemovalPage].valid = FALSE], a, f)
         /\ Hold(a, f)
  /\ UpdatePageInfo(a)
  /\ UNCHANGED <<page_mem, free_frames>>

TouchToss(a) ==
  /\ CanTouch(a)
  /\ ~pg_table[a].valid
  /\ free_frames = {}
  /\ Removable # {}
  /\ LET f == pg_table[RemovalPage].frame
     IN  /\ page_mem' = [page_mem EXCEPT ![RemovalPage] = mem[f]]
         /\ mem' = [mem EXCEPT ![f] = page_mem[a]]
         /\ pg_table' = PagedIn([pg_table EXCEPT ![RemovalPage].valid = FALSE], a, f)
         /\ Hold(a, f)
  /\ UpdatePageInfo(a)
  /\ UNCHANGED free_frames

(* Neither: the instruction fails, and with it the program. *)
TouchFails(a) ==
  /\ mode = "run"
  /\ Len(refs) < MaxRefs
  /\ ~pg_table[a].valid
  /\ free_frames = {}
  /\ Removable = {}
  /\ mode' = "failed"
  /\ UNCHANGED <<page_mem, mem, pg_table, free_frames, pg_period, ops, refs,
                 access>>

-----------------------------------------------------------------------------
(***************************************************************************)
(* The use of a reference, and its end.                                     *)
(***************************************************************************)
ReadRef(i) ==
  /\ mode = "run"
  /\ access' = [kind |-> "read", page |-> refs[i].page, val |-> mem[refs[i].frame]]
  /\ UNCHANGED <<page_mem, mem, pg_table, free_frames, pg_period, ops, refs, mode>>

WriteRef(i, v) ==
  /\ mode = "run"
  /\ mem' = [mem EXCEPT ![refs[i].frame] = v]
  /\ access' = [kind |-> "write", page |-> refs[i].page, val |-> v]
  /\ UNCHANGED <<page_mem, pg_table, free_frames, pg_period, ops, refs, mode>>

(* page_release_ref: the count does not go below 0. *)
PageReleaseRefNot(a) == UNCHANGED pg_table
PageReleaseRef(a) ==
  pg_table' = [pg_table EXCEPT ![a].refcount = IF @ = 0 THEN 0 ELSE @ - 1]

ReleaseRef(i) ==
  /\ mode = "run"
  /\ PageReleaseRef(refs[i].page)
  /\ refs' = RemoveAt(refs, i)
  /\ UNCHANGED <<page_mem, mem, free_frames, pg_period, ops, access, mode>>

(* sched_run counts an operation when tick has returned. *)
EndOfTick ==
  /\ mode = "run"
  /\ refs = <<>>
  /\ ops < MaxOps
  /\ ops' = ops + 1
  /\ UNCHANGED <<page_mem, mem, pg_table, free_frames, pg_period, refs, access,
                 mode>>

PageNext ==
  \/ \E a \in Pages : \/ \E v \in Vals : LoadWord(a, v)
                      \/ TouchResident(a)
                      \/ TouchFault(a)
                      \/ TouchToss(a)
                      \/ TouchFails(a)
  \/ \E i \in 1 .. Len(refs) : \/ ReadRef(i)
                               \/ \E v \in Vals : WriteRef(i, v)
                               \/ ReleaseRef(i)
  \/ StartRunning
  \/ EndOfTick

PageSpec == PageInit /\ [][PageNext]_pageVars

-----------------------------------------------------------------------------
(***************************************************************************)
(* The same with programs that execute EX.                                  *)
(***************************************************************************)

(* EX: while tick still holds the word of the instruction, load_code writes *)
(* to pages of the region the process has been given, and release_wordref   *)
(* of that word finds, with the new base register, another page b (or none, *)
(* which is the same as one without references).  That ends the tick.       *)
ExecLoadWord(a, v) ==
  /\ mode = "run"
  /\ Len(refs) = 1
  /\ PageStore(a, v)
  /\ UNCHANGED <<mem, pg_table, free_frames, pg_period, ops, refs, mode>>

ExecRelease(b) ==
  /\ mode = "run"
  /\ Len(refs) = 1
  /\ b # refs[1].page
  /\ ops < MaxOps
  /\ PageReleaseRef(b)
  /\ refs' = <<>>
  /\ ops' = ops + 1
  /\ UNCHANGED <<page_mem, mem, free_frames, pg_period, access, mode>>

PageExecNext ==
  \/ PageNext
  \/ \E a \in Pages : ExecRelease(a) \/ \E v \in Vals : ExecLoadWord(a, v)

PageExecSpec == PageInit /\ [][PageExecNext]_pageVars

-----------------------------------------------------------------------------
(***************************************************************************)
(* Properties.                                                              *)
(***************************************************************************)

Resident == { a \in Pages : pg_table[a].valid }
Content(a) == IF pg_table[a].valid THEN mem[pg_table[a].frame] ELSE page_mem[a]

(* Paging is transparent: what instructions read is what was last written   *)
(* to that address, by an instruction or by the loader, wherever the page   *)
(* has been in between; and no access changes another page.                 *)
FM == INSTANCE FlatMem WITH memory <- [a \in Pages |-> Content(a)]
ImplementsFlatMem == FM!Spec

(* Two pages are never in one frame, and a frame is free just when no page  *)
(* is in it.                                                                *)
FramesExclusive ==
  /\ \A a, b \in Resident : a # b => pg_table[a].frame # pg_table[b].frame
  /\ free_frames = Frames \ { pg_table[a].frame : a \in Resident }

(* A pointer an instruction holds stays good until it is released: its page *)
(* is not moved, even when other references of the same instruction cause   *)
(* page faults.                                                             *)
RefsStayValid ==
  \A i \in 1 .. Len(refs) :
    LET e == pg_table[refs[i].page] IN e.valid /\ e.frame = refs[i].frame

(* The count of a page is the number of references to it: no page is pinned *)
(* by an instruction that has ended.                                        *)
CountsMatchRefs ==
  \A a \in Pages :
    pg_table[a].refcount =
      Cardinality({ i \in 1 .. Len(refs) : refs[i].page = a })

(* pagemem.c:216, "all valid pages in use.  Increase page size or physical  *)
(* memory": the program fails for want of a frame only when the instruction *)
(* needs more pages at once than there are frames.                          *)
FailsOnlyIfAllInUse ==
  mode = "failed" => Cardinality({ refs[i].page : i \in 1 .. Len(refs) }) = FRAME_COUNT
=============================================================================
