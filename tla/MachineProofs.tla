--------------------------- MODULE MachineProofs ----------------------------
(***************************************************************************)
(* Theorems about the words, the registers and the stack of a process, for  *)
(* every size of words and every limit register.                            *)
(***************************************************************************)
EXTENDS Machine, TLAPS

-----------------------------------------------------------------------------
(***************************************************************************)
(* Words.                                                                   *)
(***************************************************************************)
LEMMA Division ==
  ASSUME NEW a \in Nat
  PROVE  /\ a \div H \in Nat /\ a % H \in Digits
         /\ a = (a \div H) * H + (a % H)
<1>1. H \in Nat /\ H > 0
  BY HAssumption
<1>2. a \div H \in Int /\ a % H \in 0 .. H - 1
  BY <1>1
<1>3. a % H = a - H * (a \div H)
  BY <1>1
<1>4. a \div H >= 0
  BY <1>1
<1>5. H * (a \div H) = (a \div H) * H /\ (a \div H) * H \in Int
  BY <1>1, <1>2
<1> QED  BY <1>1, <1>2, <1>3, <1>4, <1>5 DEF Digits

(* The product of the high half and the number of halves. *)
LEMMA Products ==
  ASSUME NEW i \in Nat, NEW j \in Nat, i < j
  PROVE  /\ i * H \in Nat /\ j * H \in Nat
         /\ i * H + H <= j * H
<1>1. H \in Nat /\ H > 0
  BY HAssumption
<1>2. (i + 1) * H <= j * H
  <2>1. PICK d \in Nat : j = (i + 1) + d
    <3>1. j - (i + 1) \in Nat /\ j = (i + 1) + (j - (i + 1))
      OBVIOUS
    <3> QED  BY <3>1
  <2>2. j * H = (i + 1) * H + d * H /\ d * H \in Nat
    BY <1>1, <2>1
  <2> QED  BY <1>1, <2>2
<1>3. (i + 1) * H = i * H + H
  BY <1>1
<1> QED  BY <1>1, <1>2, <1>3

(* The number a word of digits stands for. *)
LEMMA NumericWord ==
  ASSUME NEW w \in Numeric
  PROVE  /\ word2int(w) = w[1] * H + w[2]
         /\ word2int(w) \in 0 .. WORD_RANGE - 1
<1>1. H \in Nat /\ H > 1 /\ w[1] \in 0 .. H - 1 /\ w[2] \in 0 .. H - 1
  BY HAssumption DEF Numeric, Digits
<1>2. w[1] * H + H <= H * H /\ w[1] * H \in Nat
  BY <1>1, Products
<1> QED  BY <1>1, <1>2 DEF word2int, WORD_RANGE

(* A number that fits into a word comes back as it was stored. *)
LEMMA StoredNumber ==
  ASSUME NEW a \in 0 .. WORD_RANGE - 1
  PROVE  int2word(a) \in Numeric /\ word2int(int2word(a)) = a
<1>1. H \in Nat /\ H > 1 /\ a \in Nat /\ a < H * H
  BY HAssumption DEF WORD_RANGE
<1>2. /\ a \div H \in Nat /\ a % H \in 0 .. H - 1
      /\ a = (a \div H) * H + (a % H)
  BY <1>1, Division DEF Digits
<1>3. a \div H < H
  <2> SUFFICES ASSUME a \div H >= H
               PROVE  FALSE
    BY <1>1, <1>2
  <2>1. (a \div H) * H >= H * H
    BY <1>1, <1>2, Products
  <2> QED  BY <1>1, <1>2, <2>1
<1>4. (a \div H) % H = a \div H
  BY <1>1, <1>2, <1>3
<1>5. int2word(a) = <<a \div H, a % H>>
  BY <1>1, <1>4 DEF int2word
<1>6. int2word(a) \in Numeric
  BY <1>1, <1>2, <1>3, <1>5 DEF Numeric, Digits
<1>7. word2int(int2word(a)) = (a \div H) * H + (a % H)
  BY <1>5, <1>6 DEF word2int
<1> QED  BY <1>2, <1>6, <1>7

(* memcmp of two words of digits compares the numbers. *)
LEMMA OrderedNumbers ==
  ASSUME NEW v \in Numeric, NEW w \in Numeric
  PROVE  Less(v, w) <=> word2int(v) < word2int(w)
<1>1. /\ H \in Nat /\ H > 1
      /\ v[1] \in 0 .. H - 1 /\ v[2] \in 0 .. H - 1
      /\ w[1] \in 0 .. H - 1 /\ w[2] \in 0 .. H - 1
  BY HAssumption DEF Numeric, Digits
<1>2. word2int(v) = v[1] * H + v[2] /\ word2int(w) = w[1] * H + w[2]
  BY NumericWord
<1>3. v[1] * H \in Nat /\ w[1] * H \in Nat
  BY <1>1
<1>4. CASE v[1] < w[1]
  <2>1. v[1] * H + H <= w[1] * H
    BY <1>1, <1>4, Products
  <2> QED  BY <1>1, <1>2, <1>3, <1>4, <2>1 DEF Less
<1>5. CASE v[1] = w[1]
  BY <1>1, <1>2, <1>3, <1>5 DEF Less
<1>6. CASE v[1] > w[1]
  <2>1. w[1] * H + H <= v[1] * H
    BY <1>1, <1>6, Products
  <2> QED  BY <1>1, <1>2, <1>3, <1>6, <2>1 DEF Less
<1> QED  BY <1>1, <1>4, <1>5, <1>6

(* int2word and word2int are inverse to each other on the numbers words can *)
(* hold, and comparing the characters of two words compares the numbers.    *)
THEOREM ConversionsAgreeAlways == MachineSpec => []ConversionsAgree
<1>1. ConversionsAgree
  BY StoredNumber, OrderedNumbers DEF ConversionsAgree
<1> QED  BY <1>1, PTL

(* int2word yields a word, and an address counter its low half. *)
LEMMA WordType ==
  ASSUME NEW a \in Int, a >= -1
  PROVE  int2word(a) \in Word /\ Low(int2word(a)) \in Digits \cup {SLASH}
<1>1. CASE a < 0
  BY <1>1, HAssumption DEF int2word, Low, Word, Halves, Digits
<1>2. CASE a >= 0
  <2>1. a \div H \in Nat /\ a % H \in Digits
    BY <1>2, Division
  <2>2. (a \div H) % H \in Digits
    BY <2>1, Division
  <2> QED  BY <1>2, <2>1, <2>2 DEF int2word, Low, Word, Halves
<1> QED  BY <1>1, <1>2

(* word2int yields a number that fits into a word, or -1. *)
LEMMA NumberType ==
  ASSUME NEW w
  PROVE  word2int(w) \in -1 .. WORD_RANGE - 1
<1>1. CASE w \in Numeric
  BY <1>1, NumericWord DEF WORD_RANGE
<1>2. CASE w \notin Numeric
  <2>1. WORD_RANGE \in Nat
    BY HAssumption DEF WORD_RANGE
  <2> QED  BY <1>2, <2>1 DEF word2int
<1> QED  BY <1>1, <1>2

(* There are more words than halves. *)
LEMMA WordRange == WORD_RANGE \in Nat /\ H < WORD_RANGE /\ Digits \subseteq 0 .. WORD_RANGE - 1
<1>1. H \in Nat /\ H > 1
  BY HAssumption
<1>2. H + H <= H * H
  <2>1. 1 * H + H <= H * H
    BY <1>1, Products
  <2> QED  BY <1>1, <2>1
<1> QED  BY <1>1, <1>2 DEF WORD_RANGE, Digits

(* An instruction counter is the low half of an address. *)
LEMMA LowAddress ==
  ASSUME NEW x
  PROVE  word2int(<<0, x>>) = IF x \in Digits THEN x ELSE -1
<1>1. <<0, x>> \in Numeric <=> x \in Digits
  BY HAssumption DEF Numeric, Digits
<1>2. x \in Digits => 0 * H + x = x
  BY HAssumption DEF Digits
<1> QED  BY <1>1, <1>2 DEF word2int

(* do_binop yields a number or -1, never another negative one. *)
LEMMA BinopResult ==
  ASSUME NEW v, NEW w, NEW op \in Operators
  PROVE  do_binop(v, w, op) \in Int /\ do_binop(v, w, op) >= -1
<1>1. CASE v \in Numeric /\ w \in Numeric
  <2>1. PICK i \in Nat : i = word2int(v)
    BY <1>1, NumericWord
  <2>2. PICK j \in Nat : j = word2int(w)
    BY <1>1, NumericWord
  <2>3. j > 0 => i \div j \in Nat
    OBVIOUS
  <2>4. i * j \in Nat
    OBVIOUS
  <2>5. Binop(i, j, op) \in Int /\ Binop(i, j, op) >= -1
    BY <2>3, <2>4 DEF Binop, Operators
  <2> QED  BY <1>1, <2>1, <2>2, <2>5 DEF do_binop
<1>2. CASE ~(v \in Numeric /\ w \in Numeric)
  BY <1>2 DEF do_binop
<1> QED  BY <1>1, <1>2

-----------------------------------------------------------------------------
(***************************************************************************)
(* The inductive invariant, and what a step may do to the stack.            *)
(***************************************************************************)
MachineInv == MachineTypeOK /\ StackAboveBase /\ RetriesSame

Procs == [r : Word, sp : Word, c : {"T", "F"}, ic : Digits \cup {SLASH},
          stack_base : 0 .. UINT_MAX]

StackVars == <<Elements, proc.stack_base, proc.r>>

StackStep == [OnOneElement \/ Stack!Next]_StackVars

(* A process that has just been loaded. *)
LEMMA MachineInitInv == MachineInit => MachineInv /\ Stack!Init
<1> SUFFICES ASSUME MachineInit PROVE MachineInv /\ Stack!Init
  OBVIOUS
<1>1. 0 \in Digits /\ <<0, 0>> \in Word /\ <<0, 0>> \in Numeric /\ WORD_RANGE \in Nat
  BY HAssumption, WordRange DEF Digits, Word, Halves, Numeric
<1>2. proc \in Procs /\ proc = NewProc
  BY <1>1 DEF MachineInit, NewProc, Procs, UINT_MAX
<1>3. memory \in [Addrs -> Word]
  <2>1. Inputs \subseteq Word
    BY HAssumption DEF Inputs, Numeric, Word, Halves, LETTERS, Digits
  <2> QED  BY <2>1 DEF MachineInit, Loaded
<1>4. word2int(proc.sp) = 0 /\ proc.stack_base = 0
  <2>1. word2int(<<0, 0>>) = 0
    BY <1>1, LowAddress
  <2> QED  BY <1>2, <2>1 DEF NewProc
<1>5. MachineTypeOK
  BY <1>2, <1>3 DEF MachineInit, MachineTypeOK, Procs, Operands
<1>6. StackAboveBase
  BY <1>4 DEF StackAboveBase
<1>7. RetriesSame
  BY HAssumption DEF MachineInit, RetriesSame, LastAddr
<1>8. Elements = <<>>
  BY <1>4 DEF Elements, Empty, AsUInt
<1> QED  BY <1>5, <1>6, <1>7, <1>8 DEF MachineInv, Stack!Init

(* tick changes the instruction counter and nothing else. *)
LEMMA TickedEffect ==
  ASSUME MachineInv, Fetch
  PROVE  /\ Ticked \in Procs
         /\ Ticked.r = proc.r /\ Ticked.sp = proc.sp /\ Ticked.c = proc.c
         /\ Ticked.stack_base = proc.stack_base
         /\ proc.ic \in Digits /\ FetchAddr = proc.ic
         /\ Ticked.ic = IF proc.ic = H - 1 THEN 0 ELSE proc.ic + 1
<1>1. proc \in Procs
  BY DEF MachineInv, MachineTypeOK, Procs
<1>2. proc.ic \in Digits /\ FetchAddr = proc.ic
  BY LowAddress DEF Fetch, FetchAddr, Valid, Addrs
<1>3. H \in Nat /\ H > 1 /\ proc.ic \in 0 .. H - 1
  BY <1>2, HAssumption DEF Digits
<1>4. (proc.ic + 1) % H = IF proc.ic = H - 1 THEN 0 ELSE proc.ic + 1
  BY <1>3
<1>5. Low(int2word(FetchAddr + 1)) = IF proc.ic = H - 1 THEN 0 ELSE proc.ic + 1
  BY <1>2, <1>3, <1>4 DEF int2word, Low
<1>6. Low(int2word(FetchAddr + 1)) \in Digits
  BY <1>3, <1>5 DEF Digits
<1> QED  BY <1>1, <1>2, <1>5, <1>6 DEF Ticked, Procs

-----------------------------------------------------------------------------
(***************************************************************************)
(* The words of the stack.  Elements, as a function of sp and stack_base.   *)
(***************************************************************************)
Between == [i \in 1 .. word2int(proc.sp) - proc.stack_base |-> memory[proc.stack_base + i]]

(* With a stack pointer that is a number, the stack is the words between. *)
LEMMA StackWords ==
  MachineInv =>
    /\ word2int(proc.sp) = -1 => Elements = <<>>
    /\ word2int(proc.sp) # -1 =>
         /\ word2int(proc.sp) \in Nat /\ proc.stack_base \in Nat
         /\ proc.stack_base <= word2int(proc.sp)
         /\ Elements = Between
<1> SUFFICES ASSUME MachineInv, word2int(proc.sp) # -1
             PROVE  /\ word2int(proc.sp) \in Nat /\ proc.stack_base \in Nat
                    /\ proc.stack_base <= word2int(proc.sp)
                    /\ Elements = Between
  BY DEF Elements
<1> DEFINE a == word2int(proc.sp)
           b == proc.stack_base
<1>1. a \in Nat /\ b \in Nat /\ (a = b \/ a > b)
  <2>1. a \in 0 .. WORD_RANGE - 1
    BY NumberType, WordRange
  <2>2. b \in Nat
    BY WordRange DEF MachineInv, MachineTypeOK, UINT_MAX
  <2> QED  BY <2>1, <2>2 DEF MachineInv, StackAboveBase
<1>2. CASE a = b
  <2>1. Elements = <<>>
    BY <1>1, <1>2 DEF Elements, Empty, AsUInt
  <2>2. Between = <<>>
    BY <1>1, <1>2 DEF Between
  <2> QED  BY <1>1, <1>2, <2>1, <2>2
<1>3. CASE a > b
  <2>1. ~Empty
    BY <1>1, <1>3 DEF Empty, AsUInt
  <2> QED  BY <1>1, <1>3, <2>1 DEF Elements, Between
<1> QED  BY <1>1, <1>2, <1>3

(* The same of the state after a step. *)
LEMMA StackWordsNext ==
  MachineInv' =>
    /\ word2int(proc'.sp) = -1 => Elements' = <<>>
    /\ word2int(proc'.sp) # -1 =>
         /\ word2int(proc'.sp) \in Nat /\ proc'.stack_base \in Nat
         /\ proc'.stack_base <= word2int(proc'.sp)
         /\ Elements' = Between'
<1>1. (MachineInv =>
        /\ word2int(proc.sp) = -1 => Elements = <<>>
        /\ word2int(proc.sp) # -1 =>
             /\ word2int(proc.sp) \in Nat /\ proc.stack_base \in Nat
             /\ proc.stack_base <= word2int(proc.sp)
             /\ Elements = Between)'
  BY StackWords, PTL
<1> QED  BY <1>1 DEF word2int

(* An executed instruction leaves nothing to retry. *)
LEMMA ExecutedInv ==
  ASSUME NEW q \in Procs, NEW m \in [Addrs -> Word], Executed(q, m), MachineInv,
         StackAboveBase'
  PROVE  MachineInv'
BY HAssumption
   DEF Executed, Fetch, MachineInv, MachineTypeOK, RetriesSame, LastAddr, Procs, Operands

(* Instructions that leave sp and stack_base alone. *)
LEMMA SameStack ==
  ASSUME MachineInv, proc'.sp = proc.sp, proc'.stack_base = proc.stack_base
  PROVE  StackAboveBase'
BY DEF MachineInv, StackAboveBase, word2int, Numeric

(* An instruction that changes registers other than sp. *)
LEMMA RegStep ==
  ASSUME MachineInv, NEW q \in Procs, SetReg(q),
         q.sp = proc.sp, q.stack_base = proc.stack_base
  PROVE  MachineInv' /\ Stack!SetRegister
<1>1. proc' = q /\ memory' = memory /\ memory \in [Addrs -> Word]
  BY DEF SetReg, Executed, MachineInv, MachineTypeOK
<1>2. MachineInv'
  BY <1>1, SameStack, ExecutedInv DEF SetReg
<1>3. Elements' = Elements /\ proc'.stack_base = proc.stack_base
  BY <1>1 DEF Elements, Empty
<1> QED  BY <1>2, <1>3 DEF Stack!SetRegister

(* An instruction that stores into the memory. *)
LEMMA MemStep ==
  ASSUME MachineInv, NEW m \in [Addrs -> Word], Executed(Ticked, m)
  PROVE  MachineInv' /\ Stack!Store
<1>1. Ticked \in Procs /\ proc' = Ticked /\ proc'.r = proc.r /\ proc'.sp = proc.sp
      /\ proc'.stack_base = proc.stack_base
  BY TickedEffect DEF Executed
<1>2. MachineInv'
  BY <1>1, SameStack, ExecutedInv
<1>3. CASE word2int(proc.sp) = -1
  <2>1. Elements = <<>> /\ Elements' = <<>>
    BY <1>1, <1>2, <1>3, StackWords, StackWordsNext
  <2> QED  BY <1>1, <1>2, <2>1 DEF Stack!Store
<1>4. CASE word2int(proc.sp) # -1
  <2> DEFINE n == word2int(proc.sp) - proc.stack_base
  <2>1. n \in Nat /\ Elements = Between /\ Elements' = Between'
    BY <1>1, <1>2, <1>4, StackWords, StackWordsNext
  <2>2. Len(Between) = n
    BY <2>1 DEF Between
  <2>3. Len(Between') = n
    BY <1>1, <2>1 DEF Between
  <2> QED  BY <1>1, <1>2, <2>1, <2>2, <2>3 DEF Stack!Store
<1> QED  BY <1>3, <1>4

(* A stack pointer that is set to a number. *)
LEMMA SpSet ==
  ASSUME MachineInv, NEW q \in Procs, NEW m \in [Addrs -> Word], Executed(q, m),
         NEW a \in 0 .. WORD_RANGE - 1, q.sp = int2word(a),
         a = q.stack_base \/ (a > q.stack_base /\ a <= LIMIT)
  PROVE  /\ MachineInv'
         /\ word2int(proc'.sp) = a /\ q.stack_base \in Nat /\ q.stack_base <= a
         /\ Elements' = [i \in 1 .. a - q.stack_base |-> m[q.stack_base + i]]
<1>1. proc' = q /\ memory' = m
  BY DEF Executed
<1>2. word2int(q.sp) = a /\ a # -1 /\ a \in Nat
  BY StoredNumber, WordRange
<1>3. word2int(proc'.sp) = a
  BY <1>1, <1>2
<1>4. StackAboveBase'
  BY <1>1, <1>2 DEF StackAboveBase, word2int, Numeric
<1>5. MachineInv'
  BY <1>4, ExecutedInv
<1>6. proc'.stack_base \in Nat /\ proc'.stack_base <= a /\ Elements' = Between'
  BY <1>2, <1>3, <1>5, StackWordsNext
<1>7. Between' = [i \in 1 .. a - q.stack_base |-> m[q.stack_base + i]]
  BY <1>1, <1>3 DEF Between
<1> QED  BY <1>1, <1>3, <1>5, <1>6, <1>7

(* What the invariant says of registers, words and addresses. *)
LEMMA MemoryType ==
  ASSUME MachineInv
  PROVE  /\ proc \in Procs /\ memory \in [Addrs -> Word]
         /\ LIMIT \in Nat /\ LIMIT <= WORD_RANGE - 1
         /\ Addrs \subseteq 0 .. WORD_RANGE - 1
BY MachineAssumption, WordRange DEF MachineInv, MachineTypeOK, Procs, Addrs

(* PH. *)
LEMMA PushStep ==
  ASSUME MachineInv, Push
  PROVE  MachineInv' /\ Stack!Push
<1> DEFINE a == word2int(proc.sp)
           b == proc.stack_base
           q == [Ticked EXCEPT !.sp = int2word(a + 1)]
           m == [memory EXCEPT ![a + 1] = proc.r]
<1>1. a # -1 /\ a + 1 \in Addrs /\ Executed(q, m) /\ Fetch
  BY DEF Push, Valid, Executed
<1>2. a \in Nat /\ b \in Nat /\ b <= a /\ Elements = Between
  BY <1>1, StackWords
<1>3. proc \in Procs /\ memory \in [Addrs -> Word] /\ a + 1 \in 0 .. WORD_RANGE - 1
      /\ a + 1 <= LIMIT
  BY <1>1, MemoryType DEF Addrs
<1>4. q \in Procs /\ q.sp = int2word(a + 1) /\ q.stack_base = b /\ q.r = proc.r
  <2>1. int2word(a + 1) \in Word
    BY <1>2, WordType
  <2> QED  BY <1>1, <2>1, TickedEffect DEF Procs
<1>5. m \in [Addrs -> Word]
  BY <1>3 DEF Procs
<1>6. MachineInv' /\ Elements' = [i \in 1 .. (a + 1) - b |-> m[b + i]]
  <2>1. a + 1 > q.stack_base
    BY <1>2, <1>4
  <2>2. /\ MachineInv'
        /\ Elements' = [i \in 1 .. (a + 1) - q.stack_base |-> m[q.stack_base + i]]
    <3> HIDE DEF q, m, a
    <3> QED  BY <1>1, <1>3, <1>4, <1>5, <2>1, SpSet
  <2> QED  BY <1>4, <2>2
<1>7. Elements' = Append(Elements, proc.r)
  <2> DEFINE n == a - b
  <2>1. n \in Nat /\ (a + 1) - b = n + 1
    BY <1>2
  <2>2. Elements = [i \in 1 .. n |-> memory[b + i]]
    BY <1>2 DEF Between
  <2>3. \A i \in 1 .. n : b + i \in Addrs /\ b + i # a + 1 /\ m[b + i] = memory[b + i]
    BY <1>1, <1>2, <1>3, MachineAssumption DEF Addrs
  <2>4. b + (n + 1) = a + 1 /\ m[a + 1] = proc.r
    BY <1>1, <1>2, <1>3
  <2>5. Elements' = [i \in 1 .. n + 1 |-> m[b + i]]
    BY <1>6, <2>1
  <2>6. Elements \in Seq(Word) /\ Len(Elements) = n
    <3>1. \A i \in 1 .. n : memory[b + i] \in Word
      BY <1>3, <2>3
    <3> QED  BY <2>1, <2>2, <3>1
  <2>7. Append(Elements, proc.r) = [i \in 1 .. n + 1 |-> IF i = n + 1 THEN proc.r ELSE memory[b + i]]
    BY <2>1, <2>2, <2>6
  <2> HIDE DEF m, n, a, b
  <2>8. [i \in 1 .. n + 1 |-> m[b + i]]
          = [i \in 1 .. n + 1 |-> IF i = n + 1 THEN proc.r ELSE memory[b + i]]
    BY <2>1, <2>3, <2>4
  <2> QED  BY <2>5, <2>7, <2>8
<1>8. proc'.stack_base = proc.stack_base /\ proc'.r = proc.r
  <2> HIDE DEF q
  <2> QED  BY <1>1, <1>4 DEF Executed
<1> QED  BY <1>6, <1>7, <1>8 DEF Stack!Push

(* The stack of a process that is not empty, as a sequence. *)
LEMMA StackTop ==
  ASSUME MachineInv, word2int(proc.sp) \in Addrs, word2int(proc.sp) > proc.stack_base,
         NEW n, n = word2int(proc.sp) - proc.stack_base
  PROVE  /\ n \in Nat \ {0}
         /\ Elements = [i \in 1 .. n |-> memory[proc.stack_base + i]]
         /\ Elements \in Seq(Word) /\ Len(Elements) = n
         /\ Stack!Last(Elements) = memory[word2int(proc.sp)]
         /\ Stack!Front(Elements) = [i \in 1 .. n - 1 |-> memory[proc.stack_base + i]]
<1> DEFINE a == word2int(proc.sp)
           b == proc.stack_base
<1>1. a \in 0 .. LIMIT /\ LIMIT \in Nat /\ memory \in [0 .. LIMIT -> Word]
  BY MemoryType DEF Addrs
<1>2. b \in Nat /\ b < a /\ Elements = Between
  BY <1>1, StackWords
<1>3. n \in Nat \ {0} /\ b + n = a
  BY <1>1, <1>2
<1>4. Elements = [i \in 1 .. n |-> memory[b + i]]
  BY <1>2 DEF Between
<1>5. \A i \in 1 .. n : memory[b + i] \in Word
  BY <1>1, <1>2, <1>3
<1> HIDE DEF a, b
<1>6. Elements \in Seq(Word) /\ Len(Elements) = n
  BY <1>3, <1>4, <1>5
<1>7. Stack!Last(Elements) = memory[a]
  BY <1>3, <1>4, <1>6 DEF Stack!Last
<1>8. Stack!Front(Elements) = [i \in 1 .. n - 1 |-> memory[b + i]]
  <2>1. Stack!Front(Elements) = SubSeq(Elements, 1, n - 1)
    BY <1>6 DEF Stack!Front
  <2>2. SubSeq(Elements, 1, n - 1) = [i \in 1 .. n - 1 |-> Elements[i]]
    BY <1>3, <1>6
  <2>3. [i \in 1 .. n - 1 |-> Elements[i]] = [i \in 1 .. n - 1 |-> memory[b + i]]
    BY <1>3, <1>4
  <2> QED  BY <2>1, <2>2, <2>3
<1> QED  BY <1>3, <1>4, <1>6, <1>7, <1>8 DEF a, b

(* PP of a stack that is not empty. *)
LEMMA PopStep ==
  ASSUME MachineInv, Pop
  PROVE  MachineInv' /\ Stack!Pop
<1> DEFINE a == word2int(proc.sp)
           b == proc.stack_base
           n == a - b
           q == [Ticked EXCEPT !.r = memory[a], !.sp = int2word(a - 1)]
<1>1. ~Empty /\ a \in Addrs /\ Executed(q, memory) /\ Fetch
  BY DEF Pop, Valid, SetReg, Executed
<1>2. proc \in Procs /\ memory \in [Addrs -> Word] /\ a \in 0 .. WORD_RANGE - 1
      /\ a <= LIMIT /\ LIMIT \in Nat
  BY <1>1, MemoryType DEF Addrs
<1>3. b \in Nat /\ a > b
  BY <1>1, <1>2, StackWords DEF Empty, AsUInt
<1>4. a - 1 \in 0 .. WORD_RANGE - 1 /\ b <= a - 1 /\ a - 1 <= LIMIT
  BY <1>2, <1>3, WordRange
<1>5. q \in Procs /\ q.sp = int2word(a - 1) /\ q.stack_base = b /\ q.r = memory[a]
  <2>1. int2word(a - 1) \in Word
    BY <1>4, WordType, WordRange
  <2>2. memory[a] \in Word
    BY <1>1, <1>2
  <2> QED  BY <1>1, <2>1, <2>2, TickedEffect DEF Procs
<1>6. /\ MachineInv'
      /\ Elements' = [i \in 1 .. (a - 1) - b |-> memory[b + i]]
  <2>1. a - 1 = q.stack_base \/ (a - 1 > q.stack_base /\ a - 1 <= LIMIT)
    BY <1>3, <1>4, <1>5
  <2>2. /\ MachineInv'
        /\ Elements' = [i \in 1 .. (a - 1) - q.stack_base |-> memory[q.stack_base + i]]
    <3> HIDE DEF q, a
    <3> QED  BY <1>1, <1>2, <1>4, <1>5, <2>1, SpSet
  <2> QED  BY <1>5, <2>2
<1>7. /\ n \in Nat \ {0} /\ Elements \in Seq(Word) /\ Len(Elements) = n
      /\ Stack!Last(Elements) = memory[a]
      /\ Stack!Front(Elements) = [i \in 1 .. n - 1 |-> memory[b + i]]
  BY <1>1, <1>3, StackTop
<1>8. (a - 1) - b = n - 1
  BY <1>2, <1>3
<1>9. Elements' = Stack!Front(Elements) /\ Elements # <<>>
  BY <1>6, <1>7, <1>8
<1>10. proc'.r = Stack!Last(Elements) /\ proc'.stack_base = b
  BY <1>1, <1>5, <1>7 DEF Executed
<1> QED  BY <1>6, <1>9, <1>10 DEF Stack!Pop

(* An operation on the two words at the top, or on the one that is there    *)
(* and the one below the stack.                                             *)
LEMMA StackOpStep ==
  ASSUME MachineInv, NEW op \in Operators, StackOp(op)
  PROVE  MachineInv' /\ (Stack!Combine \/ OnOneElement)
<1> DEFINE a == word2int(proc.sp)
           b == proc.stack_base
           n == a - b
           res == do_binop(memory[a - 1], memory[a], op)
           w == int2word(res)
           q == [Ticked EXCEPT !.sp = int2word(a - 1)]
           m == [memory EXCEPT ![a - 1] = w]
<1>1. /\ AsUInt(a) >= UIncr(b) /\ a \in Addrs /\ a - 1 \in Addrs /\ res # -1
      /\ Executed(q, m) /\ Fetch
  BY DEF StackOp, Valid, Executed
<1>2. proc \in Procs /\ memory \in [Addrs -> Word] /\ a \in 0 .. WORD_RANGE - 1
      /\ a <= LIMIT /\ LIMIT \in Nat
  BY <1>1, MemoryType DEF Addrs
<1>3. b \in Nat /\ a > b
  <2>1. b \in Nat /\ b <= a /\ b # UINT_MAX
    BY <1>2, StackWords, WordRange DEF UINT_MAX
  <2> QED  BY <1>1, <1>2, <2>1 DEF AsUInt, UIncr
<1>4. a - 1 \in 0 .. WORD_RANGE - 1 /\ b <= a - 1 /\ a - 1 <= LIMIT
  BY <1>2, <1>3, WordRange
<1>5. w \in Word /\ res \in Int
  BY BinopResult, WordType
<1>6. q \in Procs /\ q.sp = int2word(a - 1) /\ q.stack_base = b /\ q.r = proc.r
  <2>1. int2word(a - 1) \in Word
    BY <1>4, WordType, WordRange
  <2> HIDE DEF res, a
  <2> QED  BY <1>1, <2>1, TickedEffect DEF Procs
<1>7. m \in [Addrs -> Word]
  <2> HIDE DEF w, a
  <2> QED  BY <1>2, <1>5
<1>8. /\ MachineInv'
      /\ Elements' = [i \in 1 .. (a - 1) - b |-> m[b + i]]
  <2>1. a - 1 = q.stack_base \/ (a - 1 > q.stack_base /\ a - 1 <= LIMIT)
    BY <1>3, <1>4, <1>6
  <2>2. /\ MachineInv'
        /\ Elements' = [i \in 1 .. (a - 1) - q.stack_base |-> m[q.stack_base + i]]
    <3> HIDE DEF q, a, m
    <3> QED  BY <1>1, <1>4, <1>6, <1>7, <2>1, SpSet
  <2> QED  BY <1>6, <2>2
<1>9. /\ n \in Nat \ {0} /\ Elements \in Seq(Word) /\ Len(Elements) = n
      /\ Stack!Last(Elements) = memory[a]
      /\ Stack!Front(Elements) = [i \in 1 .. n - 1 |-> memory[b + i]]
  BY <1>1, <1>3, StackTop
<1>10. /\ (a - 1) - b = n - 1
       /\ proc'.r = proc.r /\ proc'.stack_base = proc.stack_base
  BY <1>1, <1>2, <1>3, <1>6 DEF Executed
<1>11. CASE n = 1
  <2> HIDE DEF n
  <2> QED  BY <1>8, <1>9, <1>11 DEF OnOneElement
<1>12. CASE n > 1
  <2> DEFINE rest == Stack!Front(Elements)
  <2>1. /\ rest = [i \in 1 .. n - 1 |-> memory[b + i]] /\ n - 1 \in Nat \ {0}
        /\ b + (n - 1) = a - 1
        /\ n \in Nat /\ b \in Nat /\ n - 1 \in 1 .. n - 1
    BY <1>2, <1>3, <1>9, <1>12
  <2>2. Len(rest) = n - 1 /\ Stack!Last(rest) = memory[a - 1]
    <3> HIDE DEF a, b, n
    <3>1. Len(rest) = n - 1
      BY <2>1
    <3>2. rest[n - 1] = memory[b + (n - 1)]
      BY <2>1
    <3>3. Stack!Last(rest) = rest[Len(rest)]
      BY DEF Stack!Last
    <3> QED  BY <2>1, <3>1, <3>2, <3>3
  <2>3. w \in Results(Stack!Last(rest), Stack!Last(Elements))
    <3> HIDE DEF a, rest
    <3> QED  BY <1>1, <1>9, <2>2 DEF Results
  <2>4. Elements' = [rest EXCEPT ![Len(rest)] = w]
    <3>1. \A i \in 1 .. n - 1 : m[b + i] = IF i = n - 1 THEN w ELSE memory[b + i]
      <4>1. \A i \in 1 .. n - 1 : b + i \in Addrs /\ (b + i = a - 1 <=> i = n - 1)
        <5>1. a \in Nat /\ b \in Nat /\ a > b /\ a <= LIMIT /\ LIMIT \in Nat
          BY <1>2, <1>3
        <5> HIDE DEF a, b
        <5> QED  BY <5>1 DEF Addrs
      <4> HIDE DEF w, a, b, n
      <4> QED  BY <1>2, <4>1
    <3> HIDE DEF w, a, b, n, m, rest
    <3> QED  BY <1>8, <1>10, <2>1, <2>2, <3>1
  <2> HIDE DEF w, a, b, n, m
  <2> QED  BY <1>8, <1>9, <1>10, <1>12, <2>3, <2>4 DEF Stack!Combine
<1> QED  BY <1>9, <1>11, <1>12

(* The stack begins anew. *)
LEMMA SetSpStep ==
  ASSUME MachineInv, SetSp
  PROVE  MachineInv' /\ Stack!Restart
<1> DEFINE b == AsUInt(word2int(proc.r))
           q == [Ticked EXCEPT !.sp = proc.r, !.stack_base = b]
<1>1. Executed(q, memory) /\ Fetch /\ proc' = q /\ proc \in Procs
      /\ memory \in [Addrs -> Word]
  BY MemoryType DEF SetSp, SetReg, Executed
<1>2. word2int(proc.r) \in -1 .. WORD_RANGE - 1 /\ b \in 0 .. UINT_MAX
  BY NumberType, WordRange DEF AsUInt, UINT_MAX
<1>3. q \in Procs /\ q.sp = proc.r /\ q.stack_base = b
  <2> HIDE DEF b
  <2> QED  BY <1>1, <1>2, TickedEffect DEF Procs
<1>4. word2int(proc'.sp) = word2int(proc.r) /\ proc'.stack_base = b
  BY <1>1, <1>3
<1>5. StackAboveBase'
  <2>1. IF word2int(proc'.sp) = -1 THEN proc'.stack_base = UINT_MAX
        ELSE word2int(proc'.sp) = proc'.stack_base
    BY <1>4 DEF AsUInt
  <2> QED  BY <2>1 DEF StackAboveBase, word2int, Numeric
<1>6. MachineInv'
  <2> HIDE DEF q
  <2> QED  BY <1>1, <1>3, <1>5, ExecutedInv
<1>7. AsUInt(word2int(proc'.sp)) <= proc'.stack_base
  BY <1>2, <1>4 DEF UINT_MAX
<1>8. Elements' = <<>>
  BY <1>7 DEF Elements, Empty, AsUInt, word2int, Numeric
<1>9. proc'.stack_base = Base(proc'.r)
  <2>1. proc'.r = proc.r
    BY <1>1, TickedEffect
  <2> QED  BY <1>4, <2>1 DEF Base
<1> QED  BY <1>6, <1>8, <1>9 DEF Stack!Restart

(* procalloc and load_code make registers and words of the right types. *)
LEMMA NewProcess ==
  /\ NewProc \in Procs /\ word2int(NewProc.sp) = 0 /\ NewProc.stack_base = 0
  /\ word2int(NewProc.r) = 0
  /\ Loaded \subseteq [Addrs -> Word]
  /\ Inputs \subseteq Word
<1>1. 0 \in Digits /\ <<0, 0>> \in Word /\ WORD_RANGE \in Nat
  BY HAssumption, WordRange DEF Digits, Word, Halves
<1>2. /\ NewProc \in Procs /\ word2int(NewProc.sp) = 0 /\ NewProc.stack_base = 0
      /\ word2int(NewProc.r) = 0
  BY <1>1, LowAddress DEF NewProc, Procs, UINT_MAX
<1>3. Inputs \subseteq Word
  BY HAssumption DEF Inputs, Numeric, Word, Halves, LETTERS, Digits
<1> QED  BY <1>2, <1>3 DEF Loaded

(* EX that finds room. *)
LEMMA ExecStep ==
  ASSUME MachineInv, NEW m \in Loaded, Exec(m)
  PROVE  MachineInv' /\ Stack!Restart
<1>1. Executed(NewProc, m) /\ proc' = NewProc /\ m \in [Addrs -> Word]
  BY NewProcess DEF Exec, Executed
<1>2. word2int(proc'.sp) = 0 /\ proc'.stack_base = 0
  BY <1>1, NewProcess
<1>3. StackAboveBase'
  <2>1. word2int(proc'.sp) # -1 /\ word2int(proc'.sp) = proc'.stack_base
    BY <1>2
  <2> QED  BY <2>1 DEF StackAboveBase, word2int, Numeric
<1>4. MachineInv'
  BY <1>1, <1>3, NewProcess, ExecutedInv
<1>5. AsUInt(word2int(proc'.sp)) <= proc'.stack_base
  BY <1>2 DEF AsUInt
<1>6. Elements' = <<>>
  BY <1>5 DEF Elements, Empty, AsUInt, word2int, Numeric
<1>7. proc'.stack_base = Base(proc'.r)
  BY <1>1, <1>2, NewProcess DEF Base, AsUInt
<1> QED  BY <1>4, <1>6, <1>7 DEF Stack!Restart

(* An instruction that waits is fetched again, except at the last address.  *)
LEMMA RetryStep ==
  ASSUME MachineInv, RetryOp
  PROVE  MachineInv' /\ UNCHANGED StackVars
<1> DEFINE ic == word2int(<<0, Ticked.ic>>)
           c  == Low(int2word(ic - 1))
<1>1. /\ Fetch /\ proc' = [Ticked EXCEPT !.ic = c] /\ retry' = proc.ic
      /\ memory' = memory /\ running' = running
      /\ Ticked \in Procs /\ proc.ic \in Digits
      /\ Ticked.r = proc.r /\ Ticked.sp = proc.sp /\ Ticked.stack_base = proc.stack_base
  BY TickedEffect DEF RetryOp
<1>2. H \in Nat /\ H > 1 /\ proc.ic \in 0 .. H - 1
  BY <1>1, HAssumption DEF Digits
<1>3. ic = IF proc.ic = H - 1 THEN 0 ELSE proc.ic + 1
  <2>1. Ticked.ic = IF proc.ic = H - 1 THEN 0 ELSE proc.ic + 1
    BY <1>1, TickedEffect
  <2>2. Ticked.ic \in Digits
    BY <1>2, <2>1 DEF Digits
  <2> QED  BY <2>1, <2>2, LowAddress
<1>4. c = IF proc.ic = H - 1 THEN SLASH ELSE proc.ic
  <2>1. CASE proc.ic = H - 1
    BY <1>3, <2>1 DEF int2word, Low
  <2>2. CASE proc.ic # H - 1
    <3>1. ic - 1 = proc.ic /\ proc.ic % H = proc.ic
      BY <1>2, <1>3, <2>2
    <3> HIDE DEF ic
    <3> QED  BY <1>2, <2>2, <3>1 DEF int2word, Low
  <2> QED  BY <2>1, <2>2
<1> HIDE DEF c
<1>5. /\ proc' \in Procs /\ proc'.ic = c /\ proc'.r = proc.r /\ proc'.sp = proc.sp
      /\ proc'.stack_base = proc.stack_base
  BY <1>1, <1>2, <1>4 DEF Procs, Digits
<1>6. StackAboveBase'
  BY <1>5, SameStack
<1>7. MachineTypeOK'
  BY <1>1, <1>5 DEF MachineInv, MachineTypeOK, Procs, Operands
<1>8. FetchAddr' = IF retry' = H - 1 THEN -1 ELSE retry'
  <2>1. word2int(<<0, c>>) = IF c \in Digits THEN c ELSE -1
    BY LowAddress
  <2>2. word2int(<<0, c>>) = IF proc.ic = H - 1 THEN -1 ELSE proc.ic
    BY <1>2, <1>4, <2>1 DEF SLASH, Digits
  <2> QED  BY <1>1, <1>5, <2>2 DEF FetchAddr, word2int, Numeric
<1>9. Elements' = Elements
  <2>1. memory' = memory /\ proc'.sp = proc.sp /\ proc'.stack_base = proc.stack_base
    BY <1>1, <1>5
  <2> QED  BY <2>1 DEF Elements, Empty
<1>10. RetriesSame'
  <2>1. retry' # -1 /\ retry' = proc.ic
    BY <1>1, <1>2
  <2>2. ~Valid(FetchAddr)' <=> FetchAddr' \notin Addrs
    BY DEF Valid
  <2>3. -1 \notin Addrs
    BY DEF Addrs
  <2> QED  BY <1>8, <2>1, <2>2, <2>3 DEF RetriesSame, LastAddr
<1> QED  BY <1>5, <1>6, <1>7, <1>9, <1>10 DEF MachineInv, StackVars

(* An instruction that changes nothing but the instruction counter. *)
LEMMA TickStep ==
  ASSUME MachineInv, SetReg(Ticked)
  PROVE  MachineInv' /\ Stack!SetRegister
<1>1. /\ Ticked \in Procs /\ Ticked.sp = proc.sp
      /\ Ticked.stack_base = proc.stack_base
  BY TickedEffect DEF SetReg, Executed
<1> QED  BY <1>1, RegStep

(* Instructions that assign to the register, to the flag or to the counter. *)
LEMMA SetR ==
  ASSUME MachineInv, NEW w \in Word, SetReg([Ticked EXCEPT !.r = w])
  PROVE  MachineInv' /\ Stack!SetRegister
<1> DEFINE q == [Ticked EXCEPT !.r = w]
<1>1. q \in Procs /\ q.sp = proc.sp /\ q.stack_base = proc.stack_base /\ SetReg(q)
  BY TickedEffect DEF SetReg, Executed, Procs
<1> HIDE DEF q
<1> QED  BY <1>1, RegStep

(* Assigning a half of r leaves a process of the right type. *)
LEMMA HalfSet ==
  ASSUME NEW p \in Procs, NEW h \in Halves
  PROVE  \A q \in {[p EXCEPT !.r[1] = h], [p EXCEPT !.r[2] = h]} :
           q \in Procs /\ q.sp = p.sp /\ q.stack_base = p.stack_base
<1>1. PICK u \in Halves, v \in Halves : p.r = <<u, v>>
  BY DEF Procs, Word
<1>2. [p EXCEPT !.r[1] = h] = [p EXCEPT !.r = <<h, v>>]
  BY <1>1 DEF Procs
<1>3. [p EXCEPT !.r[2] = h] = [p EXCEPT !.r = <<u, h>>]
  BY <1>1 DEF Procs
<1>4. \A w \in Word : /\ [p EXCEPT !.r = w] \in Procs
                     /\ [p EXCEPT !.r = w].sp = p.sp
                     /\ [p EXCEPT !.r = w].stack_base = p.stack_base
  BY DEF Procs
<1>5. <<h, v>> \in Word /\ <<u, h>> \in Word
  BY <1>1 DEF Word
<1> DEFINE high == [p EXCEPT !.r[1] = h]
           low  == [p EXCEPT !.r[2] = h]
<1>6. high \in Procs /\ high.sp = p.sp /\ high.stack_base = p.stack_base
  BY <1>2, <1>4, <1>5
<1>7. low \in Procs /\ low.sp = p.sp /\ low.stack_base = p.stack_base
  BY <1>3, <1>4, <1>5
<1> SUFFICES \A q \in {high, low} :
               q \in Procs /\ q.sp = p.sp /\ q.stack_base = p.stack_base
  OBVIOUS
<1> HIDE DEF high, low
<1> QED  BY <1>6, <1>7

(* LL and LH. *)
LEMMA SetHalf ==
  ASSUME MachineInv, NEW h \in Halves,
         NEW q \in {[Ticked EXCEPT !.r[1] = h], [Ticked EXCEPT !.r[2] = h]}, SetReg(q)
  PROVE  MachineInv' /\ Stack!SetRegister
<1>1. Ticked \in Procs /\ Ticked.sp = proc.sp /\ Ticked.stack_base = proc.stack_base
  BY TickedEffect DEF SetReg, Executed
<1>2. q \in Procs /\ q.sp = proc.sp /\ q.stack_base = proc.stack_base
  BY <1>1, HalfSet
<1> QED  BY <1>2, RegStep

(* CE and CL. *)
LEMMA SetC ==
  ASSUME MachineInv, NEW b \in {"T", "F"}, SetReg([Ticked EXCEPT !.c = b])
  PROVE  MachineInv' /\ Stack!SetRegister
<1> DEFINE q == [Ticked EXCEPT !.c = b]
<1>1. q \in Procs /\ q.sp = proc.sp /\ q.stack_base = proc.stack_base /\ SetReg(q)
  BY TickedEffect DEF SetReg, Executed, Procs
<1> HIDE DEF q
<1> QED  BY <1>1, RegStep

(* BU, and BT that is taken. *)
LEMMA JumpStep ==
  ASSUME MachineInv, NEW a \in Operands, Jmp(a)
  PROVE  MachineInv' /\ Stack!SetRegister
<1> DEFINE c == Low(int2word(a))
           q == [Ticked EXCEPT !.ic = c]
<1>1. c \in Digits \cup {SLASH}
  <2>1. a \in Int /\ a >= -1
    BY HAssumption DEF Operands, Digits
  <2> QED  BY <2>1, WordType
<1>2. SetReg(q)
  BY DEF Jmp
<1> HIDE DEF c
<1>3. q \in Procs /\ q.sp = proc.sp /\ q.stack_base = proc.stack_base
  BY <1>1, <1>2, TickedEffect DEF SetReg, Executed, Procs
<1> HIDE DEF q
<1> QED  BY <1>2, <1>3, RegStep

(* GD and RC: a block of words is stored. *)
LEMMA BlockStep ==
  ASSUME MachineInv, NEW a, NEW w \in Inputs, SetBlock(a, w)
  PROVE  MachineInv' /\ Stack!Store
<1> DEFINE m == [b \in Addrs |-> IF b \in Block(a) THEN w ELSE memory[b]]
<1>1. m \in [Addrs -> Word]
  BY NewProcess, MemoryType
<1>2. Executed(Ticked, m)
  BY DEF SetBlock
<1> HIDE DEF m
<1> QED  BY <1>1, <1>2, MemStep

-----------------------------------------------------------------------------
(***************************************************************************)
(* Every step.                                                              *)
(***************************************************************************)
LEMMA OperandStep ==
  ASSUME MachineInv, NEW a \in Operands,
         \/ LoadAll(a) \/ LoadLow(a) \/ LoadHigh(a) \/ StoreRegister(a)
         \/ CmpEql(a) \/ CmpLess(a) \/ Jmp(a) \/ JmpIf(a)
         \/ PrintBlock(a) \/ StoreShared(a)
         \/ \E op \in Operators : RegisterOp(a, op)
         \/ \E w \in Inputs : Read(a, w) \/ LoadShared(a, w)
  PROVE  MachineInv' /\ (Stack!SetRegister \/ Stack!Store)
<1>0. proc \in Procs /\ memory \in [Addrs -> Word] /\ proc.r \in Word
      /\ (Valid(a) => memory[a] \in Word)
  BY MemoryType DEF Procs, Valid
<1>1. CASE LoadAll(a)
  BY <1>0, <1>1, SetR DEF LoadAll
<1>2. CASE LoadLow(a)
  <2>1. memory[a][2] \in Halves
    BY <1>0, <1>2 DEF LoadLow, Word
  <2> DEFINE q == [Ticked EXCEPT !.r[2] = memory[a][2]]
  <2>2. SetReg(q)
    BY <1>2 DEF LoadLow
  <2>3. q \in {[Ticked EXCEPT !.r[1] = memory[a][2]], [Ticked EXCEPT !.r[2] = memory[a][2]]}
    OBVIOUS
  <2> HIDE DEF q
  <2> QED  BY <2>1, <2>2, <2>3, SetHalf
<1>3. CASE LoadHigh(a)
  <2>1. memory[a][1] \in Halves
    BY <1>0, <1>3 DEF LoadHigh, Word
  <2> DEFINE q == [Ticked EXCEPT !.r[1] = memory[a][1]]
  <2>2. SetReg(q)
    BY <1>3 DEF LoadHigh
  <2>3. q \in {[Ticked EXCEPT !.r[1] = memory[a][1]], [Ticked EXCEPT !.r[2] = memory[a][1]]}
    OBVIOUS
  <2> HIDE DEF q
  <2> QED  BY <2>1, <2>2, <2>3, SetHalf
<1>4. CASE StoreRegister(a)
  <2> DEFINE m == [memory EXCEPT ![a] = proc.r]
  <2>1. m \in [Addrs -> Word] /\ Executed(Ticked, m)
    BY <1>0, <1>4 DEF StoreRegister, SetMem
  <2> HIDE DEF m
  <2> QED  BY <2>1, MemStep
<1>5. CASE CmpEql(a)
  BY <1>5, SetC DEF CmpEql, Flag
<1>6. CASE CmpLess(a)
  BY <1>6, SetC DEF CmpLess, Flag
<1>7. CASE Jmp(a)
  BY <1>7, JumpStep
<1>8. CASE JmpIf(a)
  BY <1>8, JumpStep, TickStep DEF JmpIf, Nop
<1>9. CASE PrintBlock(a)
  BY <1>9, TickStep DEF PrintBlock
<1>10. CASE StoreShared(a)
  BY <1>10, TickStep DEF StoreShared
<1>11. CASE \E op \in Operators : RegisterOp(a, op)
  <2>1. PICK op \in Operators : RegisterOp(a, op)
    BY <1>11
  <2>2. int2word(do_binop(proc.r, memory[a], op)) \in Word
    BY BinopResult, WordType
  <2> QED  BY <2>1, <2>2, SetR DEF RegisterOp
<1>12. CASE \E w \in Inputs : Read(a, w) \/ LoadShared(a, w)
  <2>1. PICK w \in Inputs : Read(a, w) \/ LoadShared(a, w)
    BY <1>12
  <2>2. w \in Word
    BY NewProcess
  <2> QED  BY <2>1, <2>2, BlockStep, SetR DEF Read, LoadShared
<1> QED  BY <1>1, <1>2, <1>3, <1>4, <1>5, <1>6, <1>7, <1>8, <1>9, <1>10, <1>11, <1>12

(* Every step keeps the invariant and is a step of the stack, or excepted. *)
LEMMA MachineNextInv ==
  ASSUME MachineInv, [MachineNext]_machineVars
  PROVE  MachineInv' /\ StackStep
<1>0. proc \in Procs /\ memory \in [Addrs -> Word] /\ proc.r \in Word /\ proc.sp \in Word
  BY MemoryType DEF Procs
<1>1. CASE Identify
  <2>1. int2word(PID) \in Word
    BY MachineAssumption, HAssumption, WordType DEF Digits
  <2>2. MachineInv' /\ Stack!SetRegister
    BY <1>1, <2>1, SetR DEF Identify
  <2> QED  BY <2>2 DEF StackStep, Stack!Next
<1>2. CASE Nop \/ PopEmpty
  <2>1. MachineInv' /\ Stack!SetRegister
    BY <1>2, TickStep DEF Nop, PopEmpty
  <2> QED  BY <2>1 DEF StackStep, Stack!Next
<1>3. CASE SetSp
  BY <1>3, SetSpStep DEF StackStep, Stack!Next
<1>4. CASE GetSp
  BY <1>0, <1>4, SetR DEF GetSp, StackStep, Stack!Next
<1>5. CASE Push
  BY <1>5, PushStep DEF StackStep, Stack!Next
<1>6. CASE Pop
  BY <1>6, PopStep DEF StackStep, Stack!Next
<1>7. CASE RetryOp
  BY <1>7, RetryStep DEF StackStep
<1>8. CASE ExecTooLarge
  <2>1. <<0, 0>> \in Word
    BY NewProcess DEF NewProc, Procs
  <2>2. MachineInv' /\ Stack!SetRegister
    BY <1>8, <2>1, SetR DEF ExecTooLarge
  <2> QED  BY <2>2 DEF StackStep, Stack!Next
<1>9. CASE OpError \/ UNCHANGED machineVars
  <2>1. proc' = proc /\ memory' = memory /\ retry' = retry /\ running' \in {FALSE, running}
    BY <1>9 DEF OpError, machineVars
  <2>2. MachineTypeOK'
    BY <2>1 DEF MachineInv, MachineTypeOK
  <2>3. StackAboveBase' /\ RetriesSame'
    BY <2>1 DEF MachineInv, StackAboveBase, RetriesSame, FetchAddr, Valid
  <2>4. UNCHANGED StackVars
    BY <2>1 DEF Elements, Empty, StackVars
  <2> QED  BY <2>2, <2>3, <2>4 DEF MachineInv, StackStep
<1>10. CASE \E op \in Operators : StackOp(op)
  BY <1>10, StackOpStep DEF StackStep, Stack!Next
<1>11. CASE \E w \in Inputs : Receive(w)
  BY <1>11, BlockStep DEF Receive, StackStep, Stack!Next
<1>12. CASE \E m \in Loaded : Exec(m)
  BY <1>12, ExecStep DEF StackStep, Stack!Next
<1>13. CASE \E pid \in Digits : Fork(pid)
  <2>1. PICK pid \in Digits : Fork(pid)
    BY <1>13
  <2>2. int2word(pid) \in Word
    BY HAssumption, WordType DEF Digits
  <2>3. MachineInv' /\ Stack!SetRegister
    BY <2>1, <2>2, SetR DEF Fork
  <2> QED  BY <2>3 DEF StackStep, Stack!Next
<1>14. CASE \E a \in Operands :
       \/ LoadAll(a) \/ LoadLow(a) \/ LoadHigh(a) \/ StoreRegister(a)
       \/ CmpEql(a) \/ CmpLess(a) \/ Jmp(a) \/ JmpIf(a)
       \/ PrintBlock(a) \/ StoreShared(a)
       \/ \E op \in Operators : RegisterOp(a, op)
       \/ \E w \in Inputs : Read(a, w) \/ LoadShared(a, w)
  BY <1>14, OperandStep DEF StackStep, Stack!Next
<1> QED
  BY <1>1, <1>2, <1>3, <1>4, <1>5, <1>6, <1>7, <1>8, <1>9, <1>10, <1>11, <1>12, <1>13,
     <1>14 DEF MachineNext

-----------------------------------------------------------------------------
(* The types, the two notions of the stack and what retry_op promises,      *)
(* together: none of them is inductive without the types.                   *)
THEOREM MachineInvariant == MachineSpec => []MachineInv
<1>1. MachineInit => MachineInv
  BY MachineInitInv
<1>2. MachineInv /\ [MachineNext]_machineVars => MachineInv'
  BY MachineNextInv
<1> QED  BY <1>1, <1>2, PTL DEF MachineSpec

(* No instruction makes a register, or a word of the memory, anything but a *)
(* word, whatever the program is.                                           *)
THEOREM MachineTypeCorrect == MachineSpec => []MachineTypeOK
<1>1. MachineInv => MachineTypeOK
  BY DEF MachineInv
<1> QED  BY <1>1, MachineInvariant, PTL

(* sp is never below stack_base, and within the limit register unless the   *)
(* stack is empty, for every limit and every program.                       *)
THEOREM StackAboveBaseAlways == MachineSpec => []StackAboveBase
<1>1. MachineInv => StackAboveBase
  BY DEF MachineInv
<1> QED  BY <1>1, MachineInvariant, PTL

(* A process that waits in an instruction executes that instruction again,  *)
(* unless it is at the last address, where the next fetch fails.            *)
THEOREM RetriesSameAlways == MachineSpec => []RetriesSame
<1>1. MachineInv => RetriesSame
  BY DEF MachineInv
<1> QED  BY <1>1, MachineInvariant, PTL

(* The words between stack_base and sp behave as a stack, through every     *)
(* instruction of the machine but an operation on a stack of one element.   *)
THEOREM MachineImplementsStack == MachineSpec => ImplementsStack
<1>1. MachineInit => Stack!Init
  BY MachineInitInv
<1>2. MachineInv /\ [MachineNext]_machineVars => StackStep
  BY MachineNextInv
<1> QED  BY <1>1, <1>2, MachineInvariant, PTL
         DEF MachineSpec, ImplementsStack, StackStep, StackVars
=============================================================================
