------------------------------- MODULE Words --------------------------------
(***************************************************************************)
(* The words of the machine: four characters, here two halves of two        *)
(* characters each, since no instruction takes a half apart.  A half of two *)
(* digits is its value in 0 .. H - 1; the other halves are LETTERS, and     *)
(* SLASH, what int2word makes of -1.  They are ordered as memcmp orders     *)
(* their characters.                                                        *)
(***************************************************************************)
EXTENDS Integers

CONSTANT H  (* number of halves of two digits, 100 *)

ASSUME HAssumption == H \in Nat /\ H > 1

Digits == 0 .. H - 1
SLASH == -1
LETTERS == H
Halves == {SLASH, LETTERS} \cup Digits

Word == Halves \X Halves
Numeric == Digits \X Digits
WORD_RANGE == H * H

(* word2int: -1 for a word that holds anything but digits. *)
word2intLittleEndian(w) == IF w \in Numeric THEN w[2] * H + w[1] ELSE -1
word2int(w) == IF w \in Numeric THEN w[1] * H + w[2] ELSE -1

(* int2word keeps the last four digits; of -1, the only negative number it  *)
(* is ever given, the last digit becomes the character before '0'.          *)
int2word(a) ==
  IF a < 0 THEN <<0, SLASH>> ELSE <<(a \div H) % H, a % H>>

Low(w) == w[2]

(* memcmp(a, b, 4) < 0. *)
Less(a, b) == a[1] < b[1] \/ (a[1] = b[1] /\ a[2] < b[2])

(* do_binop: the result as an int, or -1. *)
Operators == {"+", "-", "*", "/"}
Binop(i, j, op) ==
  CASE op = "+" -> i + j
    [] op = "-" -> IF j > i THEN -1 ELSE i - j
    [] op = "*" -> i * j
    [] op = "/" -> IF j = 0 THEN -1 ELSE i \div j
do_binop(a, b, op) ==
  IF a \in Numeric /\ b \in Numeric THEN Binop(word2int(a), word2int(b), op) ELSE -1
=============================================================================
