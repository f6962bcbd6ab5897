------------------------------- MODULE Flags -------------------------------
(***************************************************************************)
(* The arithmetic flags (eflags.cpp) and the conditions of the conditional *)
(* jumps that read them (Instruction32.cpp).                               *)
(*                                                                         *)
(* The templates work on operands of a type T and compute in uint64_t.     *)
(* Here T has 2 * Half values, and the wide type Factor times as many.     *)
(* The parity flag is left out: no instruction reads it.                   *)
(***************************************************************************)
EXTENDS Integers

CONSTANTS Half, Factor

ASSUME FlagsAssumption == Half \in Nat \ {0} /\ Factor \in Nat \ {0, 1}

Modulus == 2 * Half
Wide == Factor * Modulus

Operand == 0 .. Modulus - 1

\* The value of an operand read as a signed number.
Signed(x) == IF x < Half THEN x ELSE x - Modulus

\* Bit size-1 of a value of T or of the wide type.
SignBit(x) == (x \div Half) % 2 = 1

FlagSet == [CF : BOOLEAN, ZF : BOOLEAN, SF : BOOLEAN, OF : BOOLEAN]

\* Mutant: the overflow of an addition instead of a subtraction.
SubFlagsMutant(v1, v2) ==
  LET result == (v1 - v2) % Wide
      s1 == SignBit(v1)
      s2 == SignBit(v2)
      sr == SignBit(result)
  IN  [CF |-> result \div Modulus # 0, ZF |-> result = 0, SF |-> sr,
       OF |-> s1 = s2 /\ s1 # sr]

\* update_eflags_sub; the carry is whatever the wide result has above T.
SubFlags(v1, v2) ==
  LET result == (v1 - v2) % Wide
      s1 == SignBit(v1)
      s2 == SignBit(v2)
      sr == SignBit(result)
  IN  [CF |-> result \div Modulus # 0, ZF |-> result = 0, SF |-> sr,
       OF |-> s1 # s2 /\ s1 # sr]

\* update_eflags_add; the zero flag looks at the wide result.
AddFlags(v1, v2) ==
  LET result == (v1 + v2) % Wide
      s1 == SignBit(v1)
      s2 == SignBit(v2)
      sr == SignBit(result)
  IN  [CF |-> result \div Modulus # 0, ZF |-> result = 0, SF |-> sr,
       OF |-> s1 = s2 /\ s1 # sr]

\* Mutant: the zero flag is not inverted.
AndFlagsMutant(result) ==
  [CF |-> FALSE, ZF |-> result # 0, SF |-> SignBit(result), OF |-> FALSE]

\* update_eflags_and, from the conjunction of the operands.
AndFlags(result) ==
  [CF |-> FALSE, ZF |-> result = 0, SF |-> SignBit(result), OF |-> FALSE]

\* UpdateXor and UpdateOr.
ClearCarryAndOverflow(f) == [f EXCEPT !.CF = FALSE, !.OF = FALSE]

\* update_eflags_shl and update_eflags_shr for a count below the width, given
\* as the power n of two it stands for.  The carry of a shift by 0 reads a bit
\* that is not there: undefined.  Only a shift by one changes OF.
ShlFlags(f, v, n) ==
  LET result == (v * n) % Modulus
      carry == IF n = 1 THEN BOOLEAN ELSE {(v \div (Modulus \div n)) % 2 = 1}
  IN  {[CF |-> cf, ZF |-> result = 0, SF |-> SignBit(result),
        OF |-> IF n = 2 THEN SignBit(v) # SignBit(2 * v) ELSE f.OF] : cf \in carry}

ShrFlags(f, v, n) ==
  LET result == v \div n
      carry == IF n = 1 THEN BOOLEAN ELSE {(v \div (n \div 2)) % 2 = 1}
  IN  {[CF |-> cf, ZF |-> result = 0, SF |-> SignBit(result),
        OF |-> IF n = 2 THEN SignBit(v) ELSE f.OF] : cf \in carry}

\* Which conditional jumps are taken, by the letters of their mnemonics.
Taken(f) ==
  [o  |-> f.OF,             no  |-> ~f.OF,
   c  |-> f.CF,             nc  |-> ~f.CF,
   z  |-> f.ZF,             nz  |-> ~f.ZF,
   be |-> f.CF \/ f.ZF,     a   |-> ~(f.CF \/ f.ZF),
   s  |-> f.SF,             ns  |-> ~f.SF,
   l  |-> f.SF # f.OF,      nl  |-> f.SF = f.OF,
   le |-> f.ZF \/ f.SF # f.OF,
   nle |-> ~f.ZF /\ f.SF = f.OF]

Conditions ==
  {"o", "no", "c", "nc", "z", "nz", "be", "a", "s", "ns", "l", "nl", "le", "nle"}

-----------------------------------------------------------------------------
\* What the jumps mean after x has been compared with y.
Compared(x, y) ==
  [z |-> x = y,   nz |-> x # y,
   c |-> x < y,   nc |-> x >= y,
   be |-> x <= y, a |-> x > y,
   l |-> Signed(x) < Signed(y),   nl |-> Signed(x) >= Signed(y),
   le |-> Signed(x) <= Signed(y), nle |-> Signed(x) > Signed(y)]
=============================================================================
