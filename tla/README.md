# BRAIN emulator: verification project

The repository is an emulator of a small word-addressed machine. It loads
several programs, runs them as processes under a fair scheduler, gives each a
region of a paged address space, and lets them communicate by messages,
semaphores and shared memory. It is one sequential C program: what makes it
hard is that `sched_run` interleaves the processes one instruction at a time,
and that instructions which block, wake, fork, halt or replace a process change
scheduler, wait queues, allocation and pages in the middle of a slice.

## 1. The system's parts

| Part | State | Operations | Hard behaviour | What makes it correct |
|---|---|---|---|---|
| Scheduler (`sched.c`) | `task_table` (virtual runtimes), `rq` (tree, `min_vruntime`, `current`, `nr_running`) | `sched_suspend`, `sched_resume`, `sched_reset`, `ctxt_switch`, the loop of `sched_run` | called in several orders by the instructions, in the middle of a slice; keys are pointers, relative to `min_vruntime`, and wrap | counter, tree and `current` agree; and, as long as only sleepers are resumed, tree stays sorted, nobody gets ahead by more than a slice, everybody advances |
| Processes (`vm/vm.c`, `vm/fork.c`, `vm/halt.c`) | `proc_table`, `next_pid`, instruction counters | `tick`, `retry_op`, `procalloc`, FK, HA | an instruction that has to wait is executed again | only the running process blocks; pids are unique |
| Wait queues (`wait_queue.c`) | linked lists | `insert_proc`, `remove_proc` | removal of a process that is not there is reported as success | order; one entry per sleeper |
| Semaphores (`sem.c`, `vm/sem.c`) | `sem_table`, `sem_wq` | SI, PE, VE | the woken process does not own the semaphore, others may take it before its retry | no lost wake-up; sleepers are queued where they wait |
| Messages (`vm/msg.c`) | `send_wq`, `recv_wq` | SD, RC, RC ** | sender and receiver come in either order; the queue of RC ** is common to all | synchronous rendezvous; never missed |
| Allocation (`hole_list.c`, `mem.c`, `vm/vm.c`) | list of holes, base and limit registers | `add_hole`, `get_first_hole`, `procalloc`, HA, `resize_proc` | any sequence of them; registers hold four digits | regions are disjoint, nothing is lost |
| Paging (`pagemem.c`, `mem.c`) | frames, secondary storage, page table, frequencies, free frames | `touch_page` (`page_in`, `toss_page`), `page_release_ref`, `page_store` | several references per instruction; eviction while references are held; EX and the loader store behind the frames | transparent; references stay good; frames exclusive |
| Loader (`loader.c`), EX (`vm/exec.c`) | input files | `load_file`, `load_code`, `exec_proc` | EX exchanges the region while `tick` holds a reference | as above |
| Arithmetic, stack, load/store, compare, jumps, I/O, shared memory (`vm/*.c`) | registers and words of one process | one function each | words hold four characters, numbers are ints, `stack_base` is unsigned; a retried instruction counts back from a counter that wraps | conversions agree; the words between `stack_base` and `sp` are a stack; a waiting instruction is retried |
| Red-black tree (`rb_tree/`) | nodes with links and colours, two sentinels | `RBTreeInsert`, `RBDelete`, neighbours, queries | rotations while `nil`'s parent is in use; a deletion rebalances before it re-links | linked, balanced, in the order of keys and, for equal ones, of insertion |

Interaction. `sched_run` calls `tick` for `rq.current`; `tick` gets a reference
to the instruction word (`get_wordref`, which may page), advances the
instruction counter and calls the handler of the instruction, which may call
`sched_suspend`, `sched_resume`, `sched_reset`, the wait queues, `memalloc`,
`freemem` and further `get_wordref`; then `tick` releases its reference. When
`tick` returns an error `sched_run` returns and the program ends. There are no
threads, signals or timers, and nothing is persisted.

## 2. Modules

| Module | Models | State and actions |
|---|---|---|
| `RunSet` | what the scheduler promises | the set of runnable processes and the running one; `Wake`, `Block`, `BlockAndWake`, `Switch` |
| `OrderedList` | what the tree promises to the scheduler | a sorted list; `Insert` behind equal keys, `Delete` |
| `RBTree` | `rb_tree/red_black_tree.c` | the fields of all nodes and sentinels as one record; one operator per function, with a direction where the C file has a left and a right copy, one more per turn of a loop; `Insert`, `Delete` |
| `RBFixUpProofs`, `RBProofs` | | lemmas about rotations and the two fix-ups; theorems about `RBTree` |
| `Sched` | `sched.c` | the record `sched` holds `rq` and `task_table`; one operator per function of `sched.h`, one action per way an instruction calls them, and the ends of slices |
| `SchedProofs`, `VruntimeProofs` | | theorems about `Sched`: the run queue; virtual runtimes |
| `Process` | `tick`, `retry_op`, FK, HA | on `RunSet`; `pending` is the instruction `retry_op` has gone back to |
| `WaitQueue` | `wait_queue.c` | operators on sequences |
| `Semaphores` | `sem.c`, `vm/sem.c` | the table and the queues, next to `Process`; `SemDown`, `SemUp`, `SetSem` |
| `Messages` | `vm/msg.c` | the two kinds of queues, next to `Process`; `Send`, `Recv` |
| `Ipc` | a program that uses both | the processes with the states of `Semaphores` and `Messages`; a step is an instruction of one of the three modules |
| `IpcProofs` | | lemmas about `Process` and `WaitQueue` (who runs and who sleeps after an instruction; what the functions of `wait_queue.c` do to a list), and theorems about `Ipc` |
| `HoleList` | `hole_list.c` and its callers | `ProcAlloc`, `Halt`, `ResizeProc` |
| `HoleProofs` | | theorems about `HoleList` |
| `FlatMem` | memory without paging | `Read`, `Write` |
| `PageMem` | `pagemem.c` | `touch_page` by its outcome (resident, free frame, eviction, failure), use and release of references, loader and EX |
| `PageProofs` | | theorems about `PageMem` |
| `Words` | `word2int`, `int2word`, `do_binop`, `memcmp` of words | operators |
| `WordStack` | what the stack instructions promise | a stack of words, where it begins, and a register |
| `Machine` | `struct proc`, `tick`, `retry_op` and the instructions | registers and memory of one process; one action per instruction |
| `MachineProofs` | | theorems about `Words` and `Machine` |

`Sched` is shown to implement `RunSet`, and `Process`, `Semaphores`, `Messages` and
`Ipc` EXTEND `RunSet`: they use the abstract scheduler, so that their state
spaces have no virtual runtimes and their results hold for every schedule.
The two fit together by one condition, in both directions. In `Sched` an
instruction may resume any process that has been allocated, and the history
variable `stray` becomes TRUE when it resumes one that does not sleep. As long as
`stray` is FALSE each instruction does to the runnable processes what `RunSet`
says (`DoneAsAsked`), and the order and fairness of the scheduler hold. In `Ipc`
`OnlySleepersResumed` says that `stray` stays FALSE: it is checked and proved for
programs whose RC names the sender. It is false of programs with RC **, of which
`Ipc` therefore says what happens up to that point only (`msg_any`).
`PageMem` is shown to implement `FlatMem`, `RBTree` to implement `OrderedList`
(the sorted sequence that `Sched` keeps its processes in), and the stack
instructions of `Machine` to implement `WordStack`, but for an operation on a stack
of one element (section 5).

What is abstracted:

- In `Sched` the red-black tree is the in-order sequence of its processes,
  which `RBProofs` shows it to be as long as keys keep their order. An insertion
  puts a process where the comparisons along a path can lead (`Slots`): in a
  sorted tree there is one such place, in an unsorted one there may be several
  and the model takes any.
- The programs are any sequences of instructions. A process that has been
  suspended by PE or RC has its instruction counter moved back by `retry_op`, so
  `pending` says which instruction it executes next.
- Any instruction may end the program with an error (`OpError`).
- Words of messages are left out of `Messages`: it is about who waits and who goes on.
- A page is as large as a word, since words of a page are never moved
  separately. The history weight is 0.5, the one value `main` passes; both
  terms of the average are truncated like the assignments to an unsigned int.
- In `RBTree` a key belongs to a node (`Key`), and the fields of a freed node are
  reset, so that equal trees are equal states. The sequence of insertions and
  deletions is any. Each loop is a function that takes as many turns as there are
  nodes; a turn after the condition of the loop has become false changes nothing,
  and it has by then (section 6).
- In `Words` a word is two halves, since no instruction takes a half apart; a
  half is a number of digits, letters, or what `int2word` makes of -1.
- In `Machine` the program is any sequence of instructions with any operands: a
  word of memory is data, and which instruction is fetched is not determined.
  What other processes contribute, messages and shared memory, is any word; the
  words of one block that is read are equal. EX keeps the limit register. An
  instruction that fails ends the program, so what it has changed before is
  left out. The process is one that was loaded, not the child of a FK (section 5).
- The address space and the frames of `PageMem` are those of any programs:
  which page an instruction touches is not determined.

A definition right before another one that has its name as a prefix
(`WakeFirst` and `WakeFirstNoRemove`, `TouchFault` and `TouchFaultFlagKept`), or
a `Wake...` next to `WakeFirst` and `WakeReceiver`, is a deliberately wrong
variant of it; no specification uses it. Each property of a run is violated by
one of these variants (`mutants` in `PROJECT.json`).

## 3. Runs

Run `tlc -config X.cfg M` in this directory.

| Run | Question | Instance |
|---|---|---|
| `sched_small` | Do the types hold, does the counter agree with the tree whoever is resumed; and while only sleepers are, is nobody queued twice, is the tree sorted, is nobody ahead by more than a slice or behind `min_vruntime` by more than the latency; are charges kept; does `Sched` implement `RunSet`; does everybody advance? | 3 processes, slices of 2, latency 1, virtual runtimes up to 4, VE and RC while at most 2 nodes and processes are counted |
| `sched_sleeper` | (violated) Is a woken process kept from starving the others? | 2 processes, virtual runtimes up to 9 |
| `ipc` | With semaphores and messages in one program: do queues and sleepers agree, are only sleepers resumed, are wake-ups in order and never lost, is a free semaphore taken; is SD synchronous, can sender and receiver miss each other, are messages delivered? | 3 processes, 2 semaphores up to 2, SI sets to 0, RC names the sender |
| `msg_any` | (violated) Is SD synchronous with RC **? | 3 processes, no semaphores |
| `holes` | Are regions and holes disjoint, in bounds and complete? | 5 processes of 2 words, 13 words |
| `holes_full` | (violated) The same when the memory is used up. | 4 processes of 4 words, 12 words |
| `paging` | Is paging transparent, do references stay good, do counts match references, is a failure justified? | 3 pages, 2 frames, 2 values, 3 references, 2 operations |
| `exec_store` | (violated) Is paging transparent for EX? | the same with EX |
| `exec_pins` | (violated) Does a page fault fail only when every page is in use? | the same |
| `rbtree` | Do links, colours, neighbours and queries stay right, and the nodes in order, through every sequence of insertions and deletions? | 10 nodes, 2 of them with equal keys; 5 keys to search for, 15 ranges |
| `machine` | Do conversions agree; do the stack instructions keep a stack, but for operations on one element; is a waiting instruction retried, but at the last address? | halves of 2 digits, 3 words of memory, blocks of 2 |
| `stack_one` | (violated) Is an operation on fewer than two elements refused? | the same |

Bounds and why they are enough:

- `MaxVruntime` stops a process that has reached it. Two slices let every order of
  block, wake-up and rotation happen around the ends of slices.
- `MaxRunning` bounds how often processes are queued by VE and RC: nobody is resumed
  by them when `nr_running` has reached 3, the number of processes. That leaves room
  for a process that is queued twice, or that is in the tree and running, next to
  another one. SD is not bounded, since it takes one process out and puts one in.
  Without `~stray` the run finds `NobodyTwice`, `TreeSorted`, `OverrunBound`,
  `MinVruntimeLag` and `EveryoneAdvances` violated.
- `INT_RANGE` is 2^31 in the program. 64 is more than any virtual runtime of
  `sched_small`, so its arithmetic is exact. Section 6 has proofs for every
  `INT_RANGE`: of the run queue also when virtual runtimes wrap, of their order
  while they do not.
- `MaxSem` bounds VE at a value with more units than a waiting process can see.
- `MaxRefs` is 3 as in RC (the instruction word, the sender's and the
  receiver's word). `MaxOps` bounds the periods of the frequency table.
- `PROCS`, `VADDR_SIZE` and `WORD_RANGE` of `holes` are 100, 10000 and 10000 in
  the program: the last two are equal there too. Programs of one size that
  leave room for one more process than there are slots are the case in which
  the allocation is correct, which `HoleProofs` shows for every size; `holes_full` shows what happens otherwise.

- Ten nodes are the fewest with which `RBDeleteFixUp` climbs two levels and then
  rotates; every case of the insertion and of the deletion happens with fewer.
  `Queries` holds a key below all, the one that two nodes have, two in between and
  the largest: in some trees each is there, in others it is missing or alone on its
  side. `QueriesAnsweredAlways` is about every set of integers.
- `H` is 100 in the program, 2 in `machine`: numbers up to 3, letters and the
  word of -1. A memory of three words holds a stack of two above a base of 0, or
  one above a base of 1; a base of 3 is beyond the limit. The instruction counter
  wraps at 1, within the limit. `MachineProofs` is about every `H` and `LIMIT`.

`CHECK_DEADLOCK FALSE`: the program ends (all asleep, an error), and the
bounds stop the models. In `rbtree` something can always be inserted or deleted, and
deadlock is checked.

Fairness. `sched_small` assumes weak fairness of the whole next-state relation:
`main` is one sequential program and goes on as long as it can. It assumes
nothing about instructions or about who is woken. `ipc` assumes that
each process that stays runnable is given operations, which is what
`EveryoneAdvances` and `OverrunBound` of `Sched` show as long as only sleepers are
resumed; `OnlySleepersResumed` holds in that run.

## 4. Properties

- `Sched`, whatever the instructions resume: `RunQueueOK` (the counter counts
  `current` and the nodes), `ChargesKept`, and that every step is one of `RunSet`
  (`ImplementsRunSet`). As long as `stray` is FALSE: no process is queued twice
  (`RunQueueOK`), the instructions do what they ask for (`ImplementsRunSet`),
  `TreeSorted` (although the keys are pointers and relative to `min_vruntime`),
  `OverrunBound`, `MinVruntimeLag`, `EveryoneAdvances`.
- `Semaphores`: `SleepersQueued` (sleepers and queues are the same thing),
  `NoLostWakeup` (every unit of a semaphore with waiters is matched by a process
  on its way to take it), `FirstComeFirstWoken`, `FreeSemTaken`. A single waiter
  can be overtaken for ever: the code does not promise otherwise.
  `NoLostWakeup` needs programs that do not raise a semaphore with SI while
  others wait (`SetVals` is {0}); SI wakes nobody.
- `Messages`: `NoMissedRendezvous`, `BlockedUntilReceived`, `Delivered`.
- `Ipc`, across both: `OneQueueEach` (a sleeper is in exactly one of all queues),
  `OnlySleepersResumed` (whoever is in a queue sleeps). The properties of the two
  modules are checked here too, with the instructions of the other in between.
- `HoleList`: `NoOverlap`, `InBounds`, `HolesDisjoint`, `NothingLost`.
- `PageMem`: `ImplementsFlatMem`, `FramesExclusive`, `RefsStayValid`,
  `CountsMatchRefs`, `FailsOnlyIfAllInUse`.
- `RBTree`: `Linked` (no node lost, reached twice or left behind), `RedBlack`
  (balance, and what the C file asserts of its sentinels), `NeighboursFound`,
  `QueriesAnswered` (what its comments say of queries), `ImplementsOrderedList`.
- `Machine`: `ConversionsAgree`, `StackAboveBase`; `RetriesSame` and
  `ImplementsStack`, each with an exception that its definition names (section 5).

The comment on each property says why it could be wrong; `hazards` in
`PROJECT.json` ties it to the line of the code where it would go wrong.

## 5. What the violated runs show

- `sched_sleeper`: `min_vruntime` is assigned only when a slice ends with a
  switch. While one process runs alone it is stale, and a process that then
  wakes up keeps the processor for as long as the other one had it
  (`sched.c:123`). The same staleness makes `key_comp` wrong when the lone
  process gets more than INT_MAX operations ahead.
- `msg_any`: `remove_proc` returns 0 when the process is not in the list, so SD
  never tries the queue of RC ** (`vm/msg.c:132`). The receiver stays in it, and
  a later SD resumes it out of its own SD, or while it is runnable. In that case
  `sched_resume` inserts it a second time (`sched.c:141`). It can then be `current`
  and the leftmost of the tree at once: `key_comp` compares it with itself, it keeps
  the processor at the end of each slice, and the others starve; and each operation
  changes the key of its node, so that the tree is no longer sorted. `Sched`
  executes these steps. What it states under `~stray` is what is lost.
- `holes_full`: a hole that is split keeps its size, so the allocator never
  runs out of memory (`vm/vm.c:102`); the registers keep the address modulo
  10000, and two processes share words.
- `exec_store`: EX stores a program behind pages that are in frames
  (`pagemem.c:319`); the process executes the old words.
- `exec_pins`: `tick` releases the word of EX with the new base register; its
  page stays pinned, until page faults fail with no page in use
  (`pagemem.c:216`).

- `stack_one`: `stack_op` refuses "fewer than 2 elements" (`vm/stackmath.c:14-16`),
  but compares `sp` with `stack_base + 1`, which one element passes. The word below
  the stack is the first operand, the result replaces it, and the stack is empty
  then. `ImplementsStack` of `machine` excepts this operation (`OnOneElement`) and
  shows that it is the only instruction that is not one of `WordStack`.

Two more disagreements between the code and its comments, which the properties of
passing runs state as the code has them:

- `vm/vm.c:35`, "have this process retry the current operation next": `retry_op`
  after the instruction at address 99 finds the counter at 00 and makes it the word
  "0/", so that the next `tick` ends the program. `RetriesSame` has the last address
  as an explicit exception and says so of it.
- `red_black_tree.c:286` and `320`: the neighbour functions return "NULL if no"
  successor or predecessor exists. They return the sentinel `nil`, which is not
  NULL; `RBEnumerate` tests for `nil` (`red_black_tree.c:659`), and
  `NeighboursFound` says `nil`. `RBDelete` asks for a successor only where there is one.

Observations that contradict no text of the repository:

- EX at address 99 ends the program, since it looks for its name at -1.
- FK copies `stack_base` and not `sp` (`vm/fork.c:29`): the child of a process
  with a stack begins with a pointer below its base. `StackAboveBase` is about
  processes that were loaded.
- Results of 10000 and more keep their last four digits (`int2word`).

## 6. Proofs

Run `tlapm M.tla` on `SchedProofs`, `VruntimeProofs`, `RBFixUpProofs`, `RBProofs`,
`IpcProofs`, `HoleProofs`, `PageProofs` and `MachineProofs`. The two about the tree
take several minutes each, the others a minute or less.

`SchedProofs`, from `SchedAssumption` (at least one process, a slice of at
least one operation, a latency less than the largest int):

- `SchedInvariant`: `SchedSpec => []SchedInv`. `SchedInv` is `SchedTypeOK`,
  `RunQueueOK` and "only allocated processes are runnable". The last is needed
  because FK resumes `next_pid`: were it runnable already, it would be
  inserted twice.
- `SchedTypeCorrect`, `RunQueueCorrect`: its conjuncts. The counter agrees with the
  tree whoever is resumed; that nobody is queued twice has `~stray` as hypothesis.
- `SchedImplementsRunSet`: `Sched` implements `RunSet` whoever is resumed, and while
  `stray` is FALSE each instruction is the step of `RunSet` it asks for.

The argument: each function of `sched.c` has a lemma on a state whose counter agrees
(`CtxtSwitchEffect`, `TreeInsertEffect`, `PreemptEffect`, `SuspendEffect`,
`ResumeEffect`), which says in addition what it does when nobody is queued twice
and the process is not runnable; they rest on two lemmas about sequences
(`InsertFresh`, `TailFresh`). Each action then takes at most the running process
out of the runnable ones and adds at most one (`SchedStepEffect`), which is a step
of `RunSet` also when the running process stays by its second node
(`SchedStepRefines`); with nobody queued twice it takes out and adds exactly
whom it names (`OperationsExact`). The order of the tree plays no part, so
these hold when the keys wrap.

`VruntimeProofs`, from `SchedAssumption` and `NoWrap` (nobody is charged 2^31
operations: the bound of the model on virtual runtimes is below `INT_RANGE`; with
`INT_RANGE` 2^31 that is a program of less than two thousand million operations
per process). `NoWrap` is needed: `sched_sleeper` shows how far virtual runtimes
can be apart, and at 2^31 `key_comp` takes the larger for the smaller.

- `VruntimeInvariant`: `SchedSpec => []VruntimeInv`. `VruntimeInv` says that, while
  `stray` is FALSE (`Orderly`), the tree is in the order of the virtual runtimes themselves (`InOrder`, where
  `TreeSorted` says of their distances to `min_vruntime`), that nobody who can run
  is behind `min_vruntime` by more than the latency (`NearMin`), that the running
  process is ahead of everybody in the tree by at most the operations of its slice
  (`InSlice`); and, whoever is resumed, that the accounts of processes not yet
  allocated are 0. The last is needed for `ChargesKept`: FK resets the account of its child, which must
  not take anything back.
- `TreeSortedAlways`, `OverrunBoundAlways`, `MinVruntimeLagAlways`: the conjuncts of
  `Orderly`, with the same hypothesis, which the properties name, by `AheadIsGreater`: without wrapping, `key_comp` compares virtual runtimes.
- `ChargesKeptAlways`: by what each instruction does to the accounts
  (`SchedStepAccounts`), whoever is resumed.

`~stray` is needed for `Orderly`: the run finds each of the three violated without
it. For programs whose RC names the sender `OnlySleepersResumedAlways` of `IpcProofs`
discharges it, by the argument of section 2; the two modules are not composed.

The argument, while `stray` is FALSE: an account that changes belongs to a process
outside of the tree (`AccountOrder`), which is why keys may be pointers to accounts; an insertion
keeps the order because all smaller keys are before it (`InsertOrder`); and at
the start of a slice the running process is the least of all, since
`ctxt_switch` takes the first of the tree (`CurrentLeast`, `LeastInSlice`). In the
middle of a slice it is so again after `sched_suspend` and `sched_resume`
(`SuspendOrder`, `ResumeOrder`): the latter gives way to a process that is behind.
So only the operations in between take the running process ahead, by one each
(`ChargedOrder`). A process that is resumed gets at least `min_vruntime` less the
latency, which keeps `NearMin`.

`RBProofs` and the lemmas it takes from `RBFixUpProofs`, from `RBTreeAssumption` (at
least one node, two sentinels that are no nodes, and integers to search for); any
number of nodes may share the smallest key:

- `RBInvariant`: `RBSpec => []Kept`. `Kept` says that there is an order of the
  allocated nodes for which the tree is `Good`. The order goes by the keys
  (`KeyOrder`); it is there because keys alone do not say which of two nodes with
  equal keys is to be on the left, and rotations move them to either side of each
  other. `Good` then has three parts. `Shaped`: links and parents agree (`Links`),
  and `sub[n]`, the nodes below and at `n`, are those on the sides of `n` that the
  order says (`Search`). `Colours`: no red node below a red one. `Heights`: a
  function from nodes to numbers of black nodes that agrees with the links.
- `LinkedAlways`, `RedBlackAlways`, `NeighboursFoundAlways` follow from it:
  the list of the nodes from left to right is the order (`ListRanked`), and a walk
  to a neighbour ends at the next node of the order (`NeighbourFound`).
- `QueriesAnsweredAlways`: what `RBExactQuery` and `RBEnumerate` find, for any integers
  as keys and bounds, whatever shape rotations have left. All nodes with the key are below the
  node the search has come to (`Searching`), so the one it ends at is above the
  others, and the depth of a node is the number of subtrees that hold it
  (`UpwardsGrows`). In the first loop of `RBEnumerate`, `lastBest` is after every node
  with a key of at most `high` that the walk has left, and before all below it
  (`Bounding`); the second takes the list from there down to `low`, by
  `NeighboursFound`, one node in each turn (`GoodRange`).
- `TreeImplementsList`: an insertion puts its node behind those with its key
  (`InsertListed`), a deletion takes out the node it is given (`DeleteListed`).

The argument: `Shaped` needs no subtree to be looked into. A rotation changes `sub`
at the two nodes it turns and nowhere else (`RotatedSub`), so that it is a statement
about six links (`RotateEffect`, `RotateShaped`). The loops keep `Shaped` and break
one of the other two parts in one place, which `Colours` (the node that may be red
below a red one) and `Heights` (the subtree that is short of one black node) have as a
parameter. There is a lemma for each case of a turn (`RedUncleStep`,
`BlackUncleStep`, `RedSiblingStep`, `NearNephewStep`, `FarNephewStep` and the like),
one for the turn (`InsertTurnStep`, `DeleteTurnStep`), and one for the loop. All
loops, those of the walks and queries too, are recursive functions of the number of
turns, of which the model takes as many as there are nodes. That this is enough is a
part of the proof and not an assumption: each turn goes up to a subtree with more
nodes, or down to one with fewer (`SubGrows`), so that after so many turns the
condition of the loop in the code is false. `AllReached`, from the well-foundedness of
the numbers, takes the place of an induction.
`RBDelete` relinks `y` in the place of `z` after `RBDeleteFixUp` has turned the tree
around `z`; the invariant for the nodes other than `y` is what makes that sound, as
`z` is one of them until it is freed (`SpliceOutGood`, `DeleteGood`).

`IpcProofs`, from `ProcAssumption` (finitely many processes, `NoPid` is none of
them), `SemAssumption` (the bound on VE is positive and at least the values
of SI; `None` is no PE) and `MsgAssumption` (the index of RC ** is no process; `None`
is no RC), for programs whose RC names the sender (`RecvFrom \subseteq Pids`, a
hypothesis of every theorem):

- `IpcInvariant`: `IpcSpec => []IpcInv`. `IpcInv` is `SemInv /\ MsgInv`, and each half
  is kept by its own instructions and spared by those of the other: a message
  instruction leaves alone who retries a PE, and a semaphore instruction who sends
  or retries an RC (`MsgNextSpares`, `SemNextSpares`), because each resumes only
  processes that sleep in its own queues. This is where the two depend on each
  other, and why RC ** would break the semaphores too: it resumes processes out of PE.
- `SemInv` is `ProcsOK` (who runs is allocated and has not halted, and what is
  retried is a PE or an RC), `SemTypeOK` and `SleepersQueued`.
- `MsgInv` is `ProcsOK`, `MsgTypeOK` and more than what is checked: each queue of
  receivers is exactly the sleepers of its RC (`ReceiversQueued`), a process asleep
  in SD is in one queue of senders (`OneReceiver`, `SendersSleep`), once
  (`OnceInQueue`), and nobody waits in RC ** (`SenderNamed`). `NoMissedRendezvous` is
  preserved only with the first: SD has to find every process that waits for it;
  and the first only with the last: SD never removes anybody from the queue of
  RC **, which is what `msg_any` shows.
- `IpcTypeCorrect`, `SleepersQueuedAlways`, `NoMissedRendezvousAlways`,
  `OneQueueEachAlways` and `OnlySleepersResumedAlways` follow from it (the last two by
  `WaitsInEffect`: the queues of a process are read off from what it waits in).
- `NoLostWakeupAlways`, if SI only sets semaphores to 0: a unit is added by VE
  together with one process that retries (`SemUpMatch`), it is taken together
  with at most one (`TakeSemMatch`), and a process queues only when there is
  none (`WaitForSemMatch`).
- `FirstComeFirstWokenAlways`: only VE resumes a process of a semaphore's queue, and
  it is the head of that queue, since no process is in two.
- `BlockedUntilReceivedAlways`: only RC of its receiver resumes a sender.

The proofs rest on `RescheduleEffect` and `ProcNextEffect` (sleepers change exactly by
whom an instruction blocks and resumes) and on `InsertProcEffect` and
`RemoveProcEffect`: in a list without repetitions `insert_proc` adds, and
`remove_proc` removes, exactly the process given. That is where the lists have
to hold each process once, which the invariants say they do.

`HoleProofs`, from `HoleListAssumption` (at least one process slot and one word) and
`RoomFor(K)`: all programs have `K` words, one more of them than there are process
slots fits into the address space, and a word can hold every address. The
program has 100 slots and 10000 words, so the hypothesis covers programs of up to
99 words. Without room `NoOverlap` is false (`holes_full`). With programs of
different sizes it is false too: a freed hole of 4 words that is split for a
program of 2 keeps its size, and is given whole to the next program of 4.

- `HoleInvariant`: `HoleSpec => []HoleInv(K)`. The base registers name blocks of
  `K` words, one for each live process, and next to the list they form a heap
  (`Heap`): every hole but the last is a free block, the last one begins at the
  top and still has the size of the whole address space, blocks in use and free
  blocks are apart and below the top (`ListShape`, `BlocksShape`), they cover
  everything below it (`BlocksCover`), and the top is `K` times their number
  (`BlocksCounted`). The count is what keeps the wrong size of the last hole
  harmless: first fit takes from it only when no other hole is left, so the top
  never passes `PROCS + 1` blocks, and no register is cut to four digits.
- `NoOverlapAlways`, `InBoundsAlways`, `HolesDisjointAlways`, `NothingLostAlways`,
  `HoleTypeCorrect` follow from it.

The list functions have lemmas on any list (`AddHoleEffect`, `FirstFitEffect`, with
`FirstIsLeast`: their walks end at the first place they look for), the heap one for
an allocation and one for a release (`AllocateBlock`, `FreeBlock`), and the actions
combine them: EX allocates before it frees, which is why there has to be room for
one block more than there are slots.

`PageProofs`, from `PageMemAssumption` (at least one page and one frame; the
values include the one a page has before anything is stored in it):

- `PageInvariant`: `PageExecSpec => []PageInv`, for programs that may execute EX.
  `PageInv` is `PageTypeOK`, `FramesExclusive`, `RefsStayValid`, "every page has
  at least as many counts as references" (`RefsCounted`) and "no access lies in
  the future" (`PeriodsPast`). `RefsCounted` is what makes `RefsStayValid`
  inductive: a page with a reference has a count, so it is never evicted. It is
  an inequality because EX leaves counts behind.
- `FramesExclusiveAlways`, `RefsStayValidAlways`, `PageTypeCorrect`: its conjuncts.
- `PageSpecInvariant`: without EX also `CountsMatchRefs`, `FailsOnlyIfAllInUse` and
  "nothing is resident while the loader stores" (`LoadedFirst`).
  `CountsMatchRefsAlways` and `FailsOnlyIfAllInUseAlways` follow from it. The last
  one counts: when nothing can be removed every frame holds a page with a
  reference, and as many pages are referred to as there are frames.
- `PagingImplementsFlatMem`: `PageSpec => ImplementsFlatMem`. A page fault moves a
  page to a frame and an eviction back, and the content of every page stays
  (`TouchFaultRefines`, `TouchTossRefines`); the loader writes behind no frame
  because of `LoadedFirst`, which is what EX breaks (`exec_store`).

`MachineProofs`, from `HAssumption` (more than one half of digits) and
`MachineAssumption` (the limit fits into a word):

- `ConversionsAgreeAlways`: `int2word` and `word2int` are inverse to each other and
  `memcmp` compares numbers, for every size of words.
- `MachineInvariant`: `MachineSpec => []MachineInv`, the conjunction of
  `MachineTypeOK`, `StackAboveBase` and `RetriesSame`. `MachineTypeCorrect`,
  `StackAboveBaseAlways` and `RetriesSameAlways` are its conjuncts.
- `MachineImplementsStack`: `MachineSpec => ImplementsStack`, with the exception that
  its definition names. PH, PP and the
  operations set `sp` to a number that fits into a word, because of
  `StackAboveBase` and the limit, so that it comes back as it was stored
  (`SpSet`); every other instruction leaves `sp` and `stack_base` alone
  (`RegStep`, `MemStep`) or resets both (`SetSpStep`, `ExecStep`).

Every invariant and every action property that the passing runs check is proved,
under the hypotheses named above. Only model-checked is liveness, which under fairness
is out of the prover's reach (`EveryoneAdvances`, `FreeSemTaken`, `Delivered`). The
violated properties of section 5 are refuted, not proved.

## 7. Not modelled

Parsing, reading and printing; the words of a program as instructions; the
registers of the child of a FK; the table of shared memory (one assignment per
instruction) and its words that were never stored; `RBTreeDestroy`, `RBTreePrint`,
`StackJoin`, `StackPop`, `free_list` and `get_best_hole` (never called by the
emulator); debug printing; failures of `malloc`; the example programs of `progs/`,
which are inputs. FK with no memory left dereferences a null pointer
(`vm/fork.c:27`); the models end the program there.

## 8. Plan

Done: the modules of section 2, in the order `Sched`, `RunSet`, `SchedProofs`,
`Process`, `WaitQueue`, `Semaphores`, `Messages`, `HoleList`, `FlatMem`, `PageMem`,
the proofs about semaphores and messages, `RBTree`, `OrderedList`, `Words`,
`WordStack`, `Machine`, `Ipc`, the proofs about paging and the machine, and those about
virtual runtimes, allocation and the red-black tree.

Next:

1. `Sched` with `Ipc` in one module: that the two are joined by `stray` and
   `OnlySleepersResumed` would then be a theorem. What a stale entry of RC ** does to
   the scheduler is in `Sched` already.
2. The child of a FK in `Machine`, as a second process with its own registers.
