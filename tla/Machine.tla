------------------------------ MODULE Machine -------------------------------
(***************************************************************************)
(* The registers and the words of one process, from the time it is loaded,  *)
(* and what each instruction does to them.  The program is any sequence of  *)
(* instructions with any operands.  What the other processes contribute,    *)
(* messages and shared memory, is any word.                                 *)
(***************************************************************************)
EXTENDS Words, Sequences

CONSTANTS
  LIMIT,  (* the limit register: the largest address of the process        *)
  BLOCK,  (* words moved by GD, PD and RC, 10                              *)
  PID     (* the process's pid                                             *)

ASSUME MachineAssumption ==
  /\ LIMIT \in Nat /\ LIMIT < WORD_RANGE
  /\ BLOCK \in Nat \ {0}
  /\ PID \in Digits

Addrs == 0 .. LIMIT

(* stack_base is an unsigned int; word2int's -1 becomes the largest one,    *)
(* and one more than that is 0.                                             *)
UINT_MAX == WORD_RANGE
AsUIntNot(a) == a
AsUInt(a) == IF a = -1 THEN UINT_MAX ELSE a
UIncr(a) == IF a = UINT_MAX THEN 0 ELSE a + 1

(* Words that come from outside: numbers and instructions. *)
Inputs == Numeric \cup {<<LETTERS, 0>>}

(* What the last two characters of an instruction can be as an address. *)
Operands == Digits \cup {-1}

VARIABLES
  proc,    (* struct proc: r, sp, c, ic and stack_base                     *)
  memory,  (* the words of the process                                     *)
  retry,   (* the address of the instruction that retry_op has gone back   *)
           (* to and that the process has not executed since, or -1        *)
  running  (* FALSE once an instruction has ended the program              *)

machineVars == <<proc, memory, retry, running>>

MachineTypeOK ==
  /\ proc \in [r : Word, sp : Word, c : {"T", "F"}, ic : Digits \cup {SLASH},
               stack_base : 0 .. UINT_MAX]
  /\ memory \in [Addrs -> Word]
  /\ retry \in Operands
  /\ running \in BOOLEAN

(* procalloc, and the end of exec_proc. *)
NewProc == [r |-> <<0, 0>>, sp |-> <<0, 0>>, c |-> "F", ic |-> 0, stack_base |-> 0]

Loaded == { [a \in Addrs |-> w] : w \in Inputs }

MachineInit ==
  /\ proc = NewProc
  /\ memory \in Loaded
  /\ retry = -1
  /\ running = TRUE

-----------------------------------------------------------------------------
(***************************************************************************)
(* tick: the instruction at ic is fetched, ic goes on to the next one, and  *)
(* the instruction is executed.  q is the process with the new ic.          *)
(***************************************************************************)
Valid(a) == a \in Addrs

FetchAddr == word2int(<<0, proc.ic>>)
Ticked == [proc EXCEPT !.ic = Low(int2word(FetchAddr + 1))]

Fetch == running /\ Valid(FetchAddr)

Executed(q, m) ==
  /\ Fetch
  /\ proc' = q
  /\ memory' = m
  /\ retry' = -1
  /\ UNCHANGED running

SetReg(q) == Executed(q, memory)
SetMem(a, w) == Executed(Ticked, [memory EXCEPT ![a] = w])

Block(a) == a .. a + BLOCK - 1

(* BLOCK words from outside are stored, the same one at each address. *)
SetBlock(a, w) ==
  Executed(Ticked, [b \in Addrs |-> IF b \in Block(a) THEN w ELSE memory[b]])

(* An instruction that fails ends the program. *)
OpError ==
  /\ running
  /\ running' = FALSE
  /\ UNCHANGED <<proc, memory, retry>>

-----------------------------------------------------------------------------
(* Registers and words. *)

LoadAll(a) == Valid(a) /\ SetReg([Ticked EXCEPT !.r = memory[a]])
LoadLow(a) == Valid(a) /\ SetReg([Ticked EXCEPT !.r[2] = memory[a][2]])
LoadHigh(a) == Valid(a) /\ SetReg([Ticked EXCEPT !.r[1] = memory[a][1]])
StoreRegister(a) == Valid(a) /\ SetMem(a, proc.r)

Identify == SetReg([Ticked EXCEPT !.r = int2word(PID)])

(* NP; SD, SI, PE and VE when they succeed change nothing of the process. *)
Nop == SetReg(Ticked)

Flag(b) == IF b THEN "T" ELSE "F"
CmpEql(a) == Valid(a) /\ SetReg([Ticked EXCEPT !.c = Flag(proc.r = memory[a])])
CmpLess(a) == Valid(a) /\ SetReg([Ticked EXCEPT !.c = Flag(Less(proc.r, memory[a]))])

Jmp(a) == SetReg([Ticked EXCEPT !.ic = Low(int2word(a))])
JmpIf(a) == IF proc.c = "T" THEN Jmp(a) ELSE Nop

RegisterOp(a, op) ==
  /\ Valid(a)
  /\ LET res == do_binop(proc.r, memory[a], op)
     IN  res # -1 /\ SetReg([Ticked EXCEPT !.r = int2word(res)])

(* GD reads a block; PD prints one. *)
Read(a, w) == Block(a) \subseteq Addrs /\ SetBlock(a, w)
PrintBlock(a) == Block(a) \subseteq Addrs /\ SetReg(Ticked)

(* RC that finds a sender: the message goes where r says. *)
Receive(w) ==
  LET a == word2int(proc.r)
  IN  Block(a) \subseteq Addrs /\ SetBlock(a, w)

(* Shared memory has a word for every two digits.  What ST leaves in it     *)
(* this process may find changed by others.                                 *)
LoadShared(a, w) == a # -1 /\ SetReg([Ticked EXCEPT !.r = w])
StoreShared(a) == a # -1 /\ SetReg(Ticked)

(* FK: the parent goes on with the pid of its child in r. *)
Fork(pid) == SetReg([Ticked EXCEPT !.r = int2word(pid)])

(* EX looks for the name of the program in its own word, which it finds by  *)
(* ic; then the process has other words and a new start, or, if there is no *)
(* room for them, is told so.  The new words are as many as the old ones.   *)
ExecNamed == Valid(word2int(<<0, Ticked.ic>>) - 1)
Exec(m) == ExecNamed /\ Executed(NewProc, m)
ExecTooLarge == ExecNamed /\ SetReg([Ticked EXCEPT !.r = <<0, 0>>])

-----------------------------------------------------------------------------
(* The stack. *)

SetSp ==
  SetReg([Ticked EXCEPT !.sp = proc.r, !.stack_base = AsUInt(word2int(proc.r))])

GetSp == SetReg([Ticked EXCEPT !.r = proc.sp])

Push ==
  LET a == word2int(proc.sp)
  IN  /\ a # -1
      /\ Valid(a + 1)
      /\ Executed([Ticked EXCEPT !.sp = int2word(a + 1)],
                  [memory EXCEPT ![a + 1] = proc.r])

(* The comparison is one of unsigned ints. *)
Empty == AsUInt(word2int(proc.sp)) <= proc.stack_base

PopAnyway ==
  LET a == word2int(proc.sp)
  IN  /\ Valid(a)
      /\ SetReg([Ticked EXCEPT !.r = memory[a],
                               !.sp = IF a = 0 THEN <<0, 0>> ELSE int2word(a - 1)])
PopEmpty == Empty /\ SetReg(Ticked)
Pop ==
  LET a == word2int(proc.sp)
  IN  /\ ~Empty
      /\ Valid(a)
      /\ SetReg([Ticked EXCEPT !.r = memory[a], !.sp = int2word(a - 1)])

(* The first operand is the one below the top of the stack. *)
StackOpSwapped(op) ==
  LET a   == word2int(proc.sp)
      res == do_binop(memory[a], memory[a - 1], op)
  IN  /\ AsUInt(a) >= UIncr(proc.stack_base)
      /\ Valid(a) /\ Valid(a - 1)
      /\ res # -1
      /\ Executed([Ticked EXCEPT !.sp = int2word(a - 1)],
                  [memory EXCEPT ![a - 1] = int2word(res)])
StackOp(op) ==
  LET a   == word2int(proc.sp)
      res == do_binop(memory[a - 1], memory[a], op)
  IN  /\ AsUInt(a) >= UIncr(proc.stack_base)
      /\ Valid(a) /\ Valid(a - 1)
      /\ res # -1
      /\ Executed([Ticked EXCEPT !.sp = int2word(a - 1)],
                  [memory EXCEPT ![a - 1] = int2word(res)])

-----------------------------------------------------------------------------
(* An instruction that has to wait, PE or RC, puts the instruction counter  *)
(* back; the process is given operations again when it is resumed.          *)
RetryOpTwice ==
  LET ic == word2int(<<0, Ticked.ic>>)
  IN  /\ Fetch
      /\ proc' = [Ticked EXCEPT !.ic = Low(int2word(IF ic < 2 THEN -1 ELSE ic - 2))]
      /\ retry' = FetchAddr
      /\ UNCHANGED <<memory, running>>
RetryOp ==
  LET ic == word2int(<<0, Ticked.ic>>)
  IN  /\ Fetch
      /\ proc' = [Ticked EXCEPT !.ic = Low(int2word(ic - 1))]
      /\ retry' = FetchAddr
      /\ UNCHANGED <<memory, running>>

MachineNext ==
  \/ Identify \/ Nop \/ SetSp \/ GetSp \/ Push \/ PopEmpty \/ Pop \/ RetryOp
  \/ ExecTooLarge \/ OpError
  \/ \E op \in Operators : StackOp(op)
  \/ \E w \in Inputs : Receive(w)
  \/ \E m \in Loaded : Exec(m)
  \/ \E pid \in Digits : Fork(pid)
  \/ \E a \in Operands :
       \/ LoadAll(a) \/ LoadLow(a) \/ LoadHigh(a) \/ StoreRegister(a)
       \/ CmpEql(a) \/ CmpLess(a) \/ Jmp(a) \/ JmpIf(a)
       \/ PrintBlock(a) \/ StoreShared(a)
       \/ \E op \in Operators : RegisterOp(a, op)
       \/ \E w \in Inputs : Read(a, w) \/ LoadShared(a, w)

MachineSpec == MachineInit /\ [][MachineNext]_machineVars

-----------------------------------------------------------------------------
(* Conversions keep what the instructions rely on: a number comes back from *)
(* a word as it was stored, and CL, which compares characters, orders       *)
(* numbers as numbers.                                                      *)
ConversionsAgree ==
  /\ \A a \in 0 .. WORD_RANGE - 1 : word2int(int2word(a)) = a
  /\ \A a \in Addrs :
       proc.r \in Numeric /\ memory[a] \in Numeric =>
         (Less(proc.r, memory[a]) <=> word2int(proc.r) < word2int(memory[a]))

(* The two notions of the stack, the word sp and the unsigned stack_base,   *)
(* stay together through all the places that change one of them: sp is not  *)
(* below the base, and within the memory unless the stack is empty; both    *)
(* are not numbers, or none is.                                             *)
StackAboveBase ==
  LET a == word2int(proc.sp)
  IN  IF a = -1
        THEN proc.stack_base = UINT_MAX
        ELSE a = proc.stack_base \/ (a > proc.stack_base /\ a <= LIMIT)

(* A process that waits executes the instruction it waits in again: "have   *)
(* this process retry the current operation next" (vm.c:35).  The exception *)
(* is the last address an instruction counter can hold: there the code does *)
(* not do what the comment says, and the program ends in the next tick.     *)
LastAddr == H - 1
RetriesSame ==
  /\ retry \notin {-1, LastAddr} => FetchAddr = retry
  /\ retry = LastAddr => ~Valid(FetchAddr)

Elements ==
  IF Empty \/ word2int(proc.sp) = -1 THEN <<>>
  ELSE [i \in 1 .. word2int(proc.sp) - proc.stack_base |-> memory[proc.stack_base + i]]

Results(v, w) == { int2word(n) : n \in { do_binop(v, w, op) : op \in Operators } \ {-1} }

(* The words between stack_base and sp are a stack: PP returns what PH has  *)
(* put there last, AS, SS, MS and DS replace the two on top by the result   *)
(* with the second one as the first operand, SP and EX begin a new one, and *)
(* other instructions change at most words, never how many there are.  An   *)
(* operation on a stack of one element is excepted.                         *)
Base(w) == AsUInt(word2int(w))
Stack == INSTANCE WordStack
           WITH stack <- Elements, base <- proc.stack_base, r <- proc.r

OnOneElement == Len(Elements) = 1 /\ \E op \in Operators : StackOp(op)

ImplementsStack ==
  Stack!Init /\ [][OnOneElement \/ Stack!Next]_<<Elements, proc.stack_base, proc.r>>

(* The same without the exception: "stack contains fewer than 2 elements"   *)
(* (stackmath.c:14-16) is an error, but stack_op asks for one element only, *)
(* takes the word below the stack for the other, and overwrites it.         *)
FewerThanTwoRefused == Stack!Spec
=============================================================================
