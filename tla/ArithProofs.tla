---------------------------- MODULE ArithProofs ----------------------------
(***************************************************************************)
(* Branches follow comparisons in every sequence of instructions, for      *)
(* operands of any width.                                                  *)
(***************************************************************************)
EXTENDS Arith, FlagsProofs

LEMMA TruncateType == ASSUME NEW v \in Int PROVE Truncate(v) \in Operand
  BY Sizes DEF Truncate, Operand

LEMMA ShiftedDown ==
  ASSUME NEW x \in Operand, NEW n \in Nat \ {0} PROVE x \div n \in Operand
<1>1. x \in Nat /\ x \div n \in Int /\ x = n * (x \div n) + (x % n) /\ x % n \in 0 .. n - 1
  BY Sizes DEF Operand
<1>2. x \div n >= 0 /\ x \div n <= x
  BY <1>1
<1>3. QED
  BY <1>1, <1>2, Sizes DEF Operand

LEMMA FlagTypes ==
  ASSUME NEW x, NEW y
  PROVE  /\ SubFlags(x, y) \in FlagSet
         /\ AddFlags(x, y) \in FlagSet
         /\ AndFlags(x) \in FlagSet
  BY DEF SubFlags, AddFlags, AndFlags, FlagSet, SignBit

LEMMA ShiftFlagTypes ==
  ASSUME NEW f \in FlagSet, NEW x, NEW n
  PROVE  /\ ShlFlags(f, x, n) \subseteq FlagSet
         /\ ShrFlags(f, x, n) \subseteq FlagSet
         /\ ClearCarryAndOverflow(f) \in FlagSet
         /\ \A c \in Conditions : Taken(f)[c] \in BOOLEAN
<1>1. f.OF \in BOOLEAN
  BY DEF FlagSet
<1>2. ShlFlags(f, x, n) \subseteq FlagSet
  <2> DEFINE z == (x * n) % Modulus = 0
             s == SignBit((x * n) % Modulus)
             o == IF n = 2 THEN SignBit(x) # SignBit(2 * x) ELSE f.OF
             carry == IF n = 1 THEN BOOLEAN ELSE {(x \div (Modulus \div n)) % 2 = 1}
  <2>1. ShlFlags(f, x, n) = {[CF |-> cf, ZF |-> z, SF |-> s, OF |-> o] : cf \in carry}
    BY DEF ShlFlags
  <2>2. z \in BOOLEAN /\ s \in BOOLEAN /\ o \in BOOLEAN /\ carry \subseteq BOOLEAN
    BY <1>1 DEF SignBit
  <2> HIDE DEF z, s, o, carry
  <2>3. QED
    BY <2>1, <2>2 DEF FlagSet
<1>3. ShrFlags(f, x, n) \subseteq FlagSet
  <2> DEFINE z == x \div n = 0
             s == SignBit(x \div n)
             o == IF n = 2 THEN SignBit(x) ELSE f.OF
             carry == IF n = 1 THEN BOOLEAN ELSE {(x \div (n \div 2)) % 2 = 1}
  <2>1. ShrFlags(f, x, n) = {[CF |-> cf, ZF |-> z, SF |-> s, OF |-> o] : cf \in carry}
    BY DEF ShrFlags
  <2>2. z \in BOOLEAN /\ s \in BOOLEAN /\ o \in BOOLEAN /\ carry \subseteq BOOLEAN
    BY <1>1 DEF SignBit
  <2> HIDE DEF z, s, o, carry
  <2>3. QED
    BY <2>1, <2>2 DEF FlagSet
<1>4. ClearCarryAndOverflow(f) \in FlagSet
  BY DEF ClearCarryAndOverflow, FlagSet
<1>5. ASSUME NEW c \in Conditions PROVE Taken(f)[c] \in BOOLEAN
  <2>1. f.OF \in BOOLEAN /\ f.CF \in BOOLEAN /\ f.ZF \in BOOLEAN /\ f.SF \in BOOLEAN
    BY DEF FlagSet
  <2>2. /\ Taken(f).o \in BOOLEAN /\ Taken(f).no \in BOOLEAN
        /\ Taken(f).c \in BOOLEAN /\ Taken(f).nc \in BOOLEAN
        /\ Taken(f).z \in BOOLEAN /\ Taken(f).nz \in BOOLEAN
        /\ Taken(f).s \in BOOLEAN /\ Taken(f).ns \in BOOLEAN
    BY <2>1 DEF Taken
  <2>3. /\ Taken(f).be \in BOOLEAN /\ Taken(f).a \in BOOLEAN
        /\ Taken(f).l \in BOOLEAN /\ Taken(f).nl \in BOOLEAN
        /\ Taken(f).le \in BOOLEAN /\ Taken(f).nle \in BOOLEAN
    BY <2>1 DEF Taken
  <2>4. QED
    BY <1>5, <2>2, <2>3 DEF Conditions
<1>6. QED
  BY <1>2, <1>3, <1>4, <1>5

-----------------------------------------------------------------------------
\* The flags of the last subtraction survive until they are computed again,
\* and a jump's outcome is that of the present flags.
FlagsOfLast ==
  last.op \in {"sub", "reversed"} => flags = SubFlags(last.left, last.right)

BranchOfFlags ==
  branch.cond # "none" => branch.taken = Taken(flags)[branch.cond]

IInv == TypeOK /\ FlagsOfLast /\ BranchOfFlags

LEMMA KeepsFlagsStep ==
  ASSUME IInv, KeepsFlags, rm32' \in Operand, r32' \in Operand PROVE IInv'
  BY DEF IInv, TypeOK, FlagsOfLast, BranchOfFlags, KeepsFlags, NoBranch

LEMMA ComputesStep ==
  ASSUME NEW op \in Ops, NEW left \in Operand, NEW right \in Operand,
         NEW result \in Operand, NEW f \in FlagSet,
         op \in {"sub", "reversed"} => f = SubFlags(left, right),
         Computes(op, left, right, result, f), rm32' \in Operand, r32' \in Operand
  PROVE  IInv'
  BY DEF IInv, TypeOK, FlagsOfLast, BranchOfFlags, Computes, NoBranch

LEMMA SubtractsStep ==
  ASSUME NEW left \in Operand, NEW right \in Operand,
         Subtracts(left, right), rm32' \in Operand, r32' \in Operand
  PROVE  IInv'
<1>1. left - right \in Int
  BY Sizes DEF Operand
<1>2. Truncate(left - right) \in Operand /\ SubFlags(left, right) \in FlagSet /\ "sub" \in Ops
  BY <1>1, TruncateType, FlagTypes DEF Ops
<1>3. QED
  BY <1>2, ComputesStep DEF Subtracts

LEMMA AddsStep ==
  ASSUME NEW left \in Operand, NEW right \in Operand,
         Adds(left, right), rm32' \in Operand, r32' \in Operand
  PROVE  IInv'
<1>1. left + right \in Int
  BY Sizes DEF Operand
<1>2. Truncate(left + right) \in Operand /\ AddFlags(left, right) \in FlagSet /\ "add" \in Ops
  BY <1>1, TruncateType, FlagTypes DEF Ops
<1>3. QED
  BY <1>2, ComputesStep DEF Adds

LEMMA AndsStep ==
  ASSUME NEW left \in Operand, NEW right \in Operand,
         Ands(left, right), rm32' \in Operand, r32' \in Operand
  PROVE  IInv'
<1>1. PICK result \in And(left, right) :
             Computes("and", left, right, result, AndFlags(result))
  BY DEF Ands
<1>2. result \in Operand /\ AndFlags(result) \in FlagSet /\ "and" \in Ops
  BY FlagTypes DEF And, Ops
<1>3. QED
  BY <1>1, <1>2, ComputesStep

\* Every instruction preserves the invariant.
LEMMA NextStep == IInv /\ [Next]_vars => IInv'
<1> SUFFICES ASSUME IInv, [Next]_vars PROVE IInv'
  OBVIOUS
<1>0. /\ rm32 \in Operand /\ r32 \in Operand /\ flags \in FlagSet
      /\ \A x \in Operand : x \in Int
  BY Sizes DEF IInv, TypeOK, Operand
<1>t. \A x, y \in Operand : /\ Truncate(x - y) \in Operand /\ Truncate(x + y) \in Operand
                            /\ x - y \in Int /\ x + y \in Int /\ x * y \in Int
  <2>1. \A x, y \in Operand : x - y \in Int /\ x + y \in Int /\ x * y \in Int
    BY <1>0
  <2>2. QED
    BY <2>1, TruncateType
<1>one. 1 \in Operand
  BY Sizes, FlagsAssumption DEF Operand
<1>shift. Shifts \subseteq Operand /\ Shifts \subseteq Nat \ {0}
  BY Sizes, FlagsAssumption DEF Shifts, Operand
<1>1. CASE Cmp
  BY <1>0, <1>1, SubtractsStep DEF Cmp, operands
<1>2. CASE CmpImm
  BY <1>0, <1>2, SubtractsStep DEF CmpImm, operands
<1>3. CASE SubRM
  BY <1>0, <1>3, <1>t, SubtractsStep DEF SubRM
<1>4. CASE SubR
  <2>1. SubFlags(r32, rm32) \in FlagSet /\ "reversed" \in Ops
    BY FlagTypes DEF Ops
  <2>2. Truncate(rm32 - r32) \in Operand
    BY <1>0, <1>t
  <2>3. QED
    BY <1>0, <1>4, <2>1, <2>2, ComputesStep DEF SubR
<1>5. CASE SubImm
  BY <1>0, <1>5, <1>t, SubtractsStep DEF SubImm
<1>6. CASE Dec
  BY <1>0, <1>6, <1>t, <1>one, SubtractsStep DEF Dec
<1>7. CASE Inc
  BY <1>0, <1>7, <1>t, <1>one, KeepsFlagsStep DEF Inc
<1>8. CASE AddRM
  BY <1>0, <1>8, <1>t, AddsStep DEF AddRM
<1>9. CASE AddR
  BY <1>0, <1>9, <1>t, AddsStep DEF AddR
<1>10. CASE AddImm
  BY <1>0, <1>10, <1>t, AddsStep DEF AddImm
<1>11. CASE Test
  BY <1>0, <1>11, AndsStep DEF Test, operands
<1>12. CASE TestImm
  BY <1>0, <1>12, AndsStep DEF TestImm, operands
<1>13. CASE AndEax
  <2>1. PICK imm \in Operand : Ands(r32, imm) /\ r32' = last'.result /\ rm32' = rm32
    BY <1>13 DEF AndEax
  <2>2. PICK result \in And(r32, imm) :
               Computes("and", r32, imm, result, AndFlags(result))
    BY <2>1 DEF Ands
  <2>3. r32' \in Operand
    BY <2>1, <2>2 DEF Computes, And
  <2>4. QED
    BY <1>0, <2>1, <2>3, AndsStep
<1>14. CASE AndImm
  <2>a. PICK imm \in Operand : \E result \in And(rm32, imm) :
               /\ Computes("logic", rm32, imm, result, AddFlags(rm32, imm))
               /\ rm32' = result /\ r32' = r32
    BY <1>14 DEF AndImm
  <2>1. PICK result \in And(rm32, imm) :
               /\ Computes("logic", rm32, imm, result, AddFlags(rm32, imm))
               /\ rm32' = result /\ r32' = r32
    BY <2>a
  <2>2. result \in Operand /\ AddFlags(rm32, imm) \in FlagSet /\ "logic" \in Ops
    BY FlagTypes DEF And, Ops
  <2>3. QED
    BY <1>0, <2>1, <2>2, ComputesStep
<1>15. CASE AndImm8
  BY <1>0, <1>15, KeepsFlagsStep DEF AndImm8, And
<1>16. CASE OrXor
  <2>1. PICK imm \in Operand, left \in {rm32, r32} :
          \E right \in {rm32, r32, imm} :
             \E result \in Or(left, right) \cup Xor(left, right) :
                /\ Computes("logic", left, right, result, ClearCarryAndOverflow(flags))
                /\ \/ left = rm32 /\ rm32' = result /\ UNCHANGED r32
                   \/ left = r32 /\ r32' = result /\ UNCHANGED rm32
    BY <1>16 DEF OrXor
  <2>a. PICK right \in {rm32, r32, imm} :
             \E result \in Or(left, right) \cup Xor(left, right) :
                /\ Computes("logic", left, right, result, ClearCarryAndOverflow(flags))
                /\ \/ left = rm32 /\ rm32' = result /\ UNCHANGED r32
                   \/ left = r32 /\ r32' = result /\ UNCHANGED rm32
    BY <2>1
  <2>2. PICK result \in Or(left, right) \cup Xor(left, right) :
                /\ Computes("logic", left, right, result, ClearCarryAndOverflow(flags))
                /\ \/ left = rm32 /\ rm32' = result /\ UNCHANGED r32
                   \/ left = r32 /\ r32' = result /\ UNCHANGED rm32
    BY <2>a
  <2>3. left \in Operand /\ right \in Operand /\ result \in Operand
    BY <1>0 DEF Or, Xor
  <2>4. ClearCarryAndOverflow(flags) \in FlagSet /\ "logic" \in Ops
    BY <1>0, ShiftFlagTypes DEF Ops
  <2>5. rm32' \in Operand /\ r32' \in Operand
    <3>1. CASE rm32' = result /\ UNCHANGED r32
      BY <1>0, <2>3, <3>1
    <3>2. CASE r32' = result /\ UNCHANGED rm32
      BY <1>0, <2>3, <3>2
    <3>3. QED
      BY <2>2, <3>1, <3>2
  <2>6. QED
    BY <2>2, <2>3, <2>4, <2>5, ComputesStep
<1>17. CASE Shl
  <2>a. PICK n \in Shifts : \E f \in ShlFlags(flags, rm32, n) :
               /\ Computes("shift", rm32, n, Truncate(rm32 * n), f)
               /\ rm32' = Truncate(rm32 * n) /\ UNCHANGED r32
    BY <1>17 DEF Shl
  <2>1. PICK f \in ShlFlags(flags, rm32, n) :
               /\ Computes("shift", rm32, n, Truncate(rm32 * n), f)
               /\ rm32' = Truncate(rm32 * n) /\ UNCHANGED r32
    BY <2>a
  <2>2. n \in Operand /\ f \in FlagSet /\ "shift" \in Ops
    BY <1>0, <1>shift, ShiftFlagTypes DEF Ops
  <2>3. Truncate(rm32 * n) \in Operand
    BY <1>0, <1>t, <2>2, TruncateType
  <2>4. QED
    BY <1>0, <2>1, <2>2, <2>3, ComputesStep
<1>18. CASE Shr
  <2>a. PICK n \in Shifts : \E f \in ShrFlags(flags, rm32, n) :
               /\ Computes("shift", rm32, n, rm32 \div n, f)
               /\ rm32' = rm32 \div n /\ UNCHANGED r32
    BY <1>18 DEF Shr
  <2>1. PICK f \in ShrFlags(flags, rm32, n) :
               /\ Computes("shift", rm32, n, rm32 \div n, f)
               /\ rm32' = rm32 \div n /\ UNCHANGED r32
    BY <2>a
  <2>2. n \in Operand /\ f \in FlagSet /\ "shift" \in Ops
    BY <1>0, <1>shift, ShiftFlagTypes DEF Ops
  <2>3. rm32 \div n \in Operand
    BY <1>0, <1>shift, ShiftedDown
  <2>4. QED
    BY <1>0, <2>1, <2>2, <2>3, ComputesStep
<1>19. CASE SalSar
  <2>1. PICK n \in Shifts :
          /\ rm32' \in {Truncate(rm32 * n), rm32 \div n, Truncate(Signed(rm32) \div n)}
          /\ KeepsFlags /\ UNCHANGED r32
    BY <1>19 DEF SalSar
  <2>2. Truncate(rm32 * n) \in Operand /\ rm32 \div n \in Operand
    BY <1>0, <1>t, <1>shift, TruncateType, ShiftedDown
  <2>3. Truncate(Signed(rm32) \div n) \in Operand
    <3>1. Signed(rm32) \in Int /\ n \in Nat \ {0}
      BY <1>0, <1>shift, Sizes DEF Signed
    <3>2. Signed(rm32) \div n \in Int
      BY <3>1
    <3>3. QED
      BY <3>2, TruncateType
  <2>4. QED
    BY <1>0, <2>1, <2>2, <2>3, KeepsFlagsStep
<1>20. CASE Load
  BY <1>0, <1>20, KeepsFlagsStep DEF Load
<1>21. CASE SetNz
  <2>1. 0 \in Operand
    BY Sizes DEF Operand
  <2>2. QED
    BY <1>0, <1>21, <1>one, <2>1, KeepsFlagsStep DEF SetNz
<1>22. ASSUME NEW c \in Conditions, Jump(c) PROVE IInv'
  <2>1. c # "none" /\ Taken(flags)[c] \in BOOLEAN
    BY <1>0, ShiftFlagTypes DEF Conditions
  <2>2. QED
    BY <1>22, <2>1 DEF Jump, IInv, TypeOK, FlagsOfLast, BranchOfFlags
<1>23. CASE UNCHANGED vars
  BY <1>23 DEF IInv, TypeOK, FlagsOfLast, BranchOfFlags, vars
<1>24. QED
  BY <1>1, <1>2, <1>3, <1>4, <1>5, <1>6, <1>7, <1>8, <1>9, <1>10, <1>11, <1>12, <1>13,
     <1>14, <1>15, <1>16, <1>17, <1>18, <1>19, <1>20, <1>21, <1>22, <1>23 DEF Next

\* The operands, the flags and what a comparison leaves are well formed and
\* agree in every reachable state.
THEOREM ArithInvariance == Spec => []IInv
<1>1. Init => IInv
  BY Sizes DEF Init, IInv, TypeOK, FlagsOfLast, BranchOfFlags, NoBranch, Ops, Operand
<1>2. QED
  BY <1>1, NextStep, PTL DEF Spec

\* The operands stay within their width.
THEOREM OperandsInRange == Spec => []TypeOK
  BY ArithInvariance, PTL DEF IInv

\* A conditional jump is taken exactly when its relation held between the
\* operands last compared or subtracted (cmp, sub and dec, then j*).
THEOREM BranchesFollow == Spec => []BranchFollowsCompare
<1>1. IInv => BranchFollowsCompare
  <2> SUFFICES ASSUME IInv, last.op \in {"sub", "reversed"},
                      branch.cond \in DOMAIN Compared(0, 0)
               PROVE  branch.taken = Compared(last.left, last.right)[branch.cond]
    BY DEF BranchFollowsCompare
  <2>1. last.left \in Operand /\ last.right \in Operand
    BY DEF IInv, TypeOK
  <2>2. branch.cond \in DOMAIN Compared(last.left, last.right) /\ branch.cond # "none"
    BY DEF Compared
  <2>3. flags = SubFlags(last.left, last.right)
    BY DEF IInv, FlagsOfLast
  <2>4. branch.taken = Taken(flags)[branch.cond]
    BY <2>2 DEF IInv, BranchOfFlags
  <2>5. Taken(SubFlags(last.left, last.right))[branch.cond]
          = Compared(last.left, last.right)[branch.cond]
    BY <2>1, <2>2, JumpsFollowComparison
  <2>6. QED
    BY <2>3, <2>4, <2>5
<1>2. QED
  BY <1>1, ArithInvariance, PTL

-----------------------------------------------------------------------------
\* What a subtraction's flags say of the result that is kept, and that both
\* orders of the operands give zero for equal ones only.
LEMMA SubResult ==
  ASSUME NEW x \in Operand, NEW y \in Operand
  PROVE  /\ SubFlags(x, y).ZF <=> Truncate(x - y) = 0
         /\ SubFlags(x, y).ZF <=> Truncate(y - x) = 0
         /\ SubFlags(x, y).SF <=> SignBit(Truncate(x - y))
<1> DEFINE d == (x - y) % Wide
<1> USE Sizes DEF Operand
<1>1. (SubFlags(x, y).ZF <=> d = 0) /\ (SubFlags(x, y).SF <=> SignBit(d))
  BY DEF SubFlags
<1> HIDE DEF d
<1>2. ASSUME NEW v \in Operand, NEW w \in Operand
      PROVE  /\ v >= w => Truncate(v - w) = v - w
             /\ v < w => Truncate(v - w) = v - w + Modulus
  <2>1. CASE v >= w
    <3>1. v - w \in 0 .. Modulus - 1
      BY <2>1
    <3>2. QED
      BY <2>1, <3>1, Small DEF Truncate
  <2>2. CASE v < w
    <3>1. v - w = (-1) * Modulus + (v - w + Modulus) /\ v - w + Modulus \in 0 .. Modulus - 1
      BY <2>2
    <3>a. Modulus \in Nat \ {0} /\ v - w \in Int /\ -1 \in Int
      OBVIOUS
    <3>2. (v - w) % Modulus = v - w + Modulus
      BY ONLY <3>1, <3>a, DivMod
    <3>3. QED
      BY <2>2, <3>2 DEF Truncate
  <2>3. QED
    BY <2>1, <2>2
<1>3. CASE x >= y
  <2>1. d = x - y
    BY <1>3, NoBorrow DEF d
  <2>2. Truncate(x - y) = x - y
    BY <1>2, <1>3
  <2>3. x - y = 0 <=> Truncate(y - x) = 0
    <3>1. CASE x = y
      BY <1>2, <3>1
    <3>2. CASE x # y
      BY <1>2, <1>3, <3>2
    <3>3. QED
      BY <3>1, <3>2
  <2>4. QED
    BY <1>1, <2>1, <2>2, <2>3
<1>4. CASE x < y
  <2>1. d = x - y + Wide /\ x - y + Wide # 0
    BY <1>4, Borrow DEF d
  <2>2. SignBit(d) <=> x - y + Modulus >= Half
    BY <1>4, <2>1, Borrow
  <2>3. Truncate(x - y) = x - y + Modulus /\ Truncate(y - x) = y - x
    BY <1>2, <1>4
  <2>4. x - y + Modulus \in Operand /\ x - y + Modulus # 0 /\ y - x # 0
    BY <1>4
  <2>5. SignBit(x - y + Modulus) <=> x - y + Modulus >= Half
    BY <2>4, SignOfOperand
  <2>6. QED
    BY <1>1, <2>1, <2>2, <2>3, <2>4, <2>5
<1>5. QED
  BY <1>3, <1>4

\* The zero and sign flags say of the last result what their names say.
ResultInv ==
  /\ last.op \in {"sub", "reversed", "and", "shift"} => (flags.ZF <=> last.result = 0)
  /\ last.op \in {"sub", "and", "shift"} => (flags.SF <=> SignBit(last.result))

LEMMA ComputesResult ==
  ASSUME NEW op, NEW left, NEW right, NEW result, NEW f,
         Computes(op, left, right, result, f),
         op \in {"sub", "reversed", "and", "shift"} => (f.ZF <=> result = 0),
         op \in {"sub", "and", "shift"} => (f.SF <=> SignBit(result))
  PROVE  ResultInv'
<1>1. last'.op = op /\ last'.result = result /\ flags' = f
  BY DEF Computes
<1>2. QED
  BY <1>1 DEF ResultInv

LEMMA SubtractsResult ==
  ASSUME NEW left \in Operand, NEW right \in Operand, Subtracts(left, right) PROVE ResultInv'
  BY SubResult, ComputesResult DEF Subtracts

LEMMA AddsResult == ASSUME NEW left, NEW right, Adds(left, right) PROVE ResultInv'
  BY ComputesResult DEF Adds

LEMMA AndsResult == ASSUME NEW left, NEW right, Ands(left, right) PROVE ResultInv'
<1>1. PICK result \in And(left, right) : Computes("and", left, right, result, AndFlags(result))
  BY DEF Ands
<1>2. (AndFlags(result).ZF <=> result = 0) /\ (AndFlags(result).SF <=> SignBit(result))
  BY DEF AndFlags
<1>3. QED
  BY <1>1, <1>2, ComputesResult

\* Every instruction preserves it, those that write a result without flags
\* because they leave last alone.
LEMMA ResultStep == TypeOK /\ ResultInv /\ [Next]_vars => ResultInv'
<1> SUFFICES ASSUME TypeOK, ResultInv, [Next]_vars PROVE ResultInv'
  OBVIOUS
<1>0. rm32 \in Operand /\ r32 \in Operand
  BY DEF TypeOK
<1>one. 1 \in Operand
  BY Sizes, FlagsAssumption DEF Operand
<1>same. ASSUME UNCHANGED <<flags, last>> PROVE ResultInv'
  BY <1>same DEF ResultInv
<1>1. CASE Cmp \/ CmpImm \/ SubRM \/ SubImm \/ Dec
  BY <1>0, <1>one, <1>1, SubtractsResult DEF Cmp, CmpImm, SubRM, SubImm, Dec
<1>2. CASE SubR
  <2>1. SubFlags(r32, rm32).ZF <=> Truncate(rm32 - r32) = 0
    BY <1>0, SubResult
  <2>2. QED
    BY <1>2, <2>1, ComputesResult DEF SubR
<1>3. CASE AddRM \/ AddR \/ AddImm
  BY <1>3, AddsResult DEF AddRM, AddR, AddImm
<1>4. CASE Test \/ TestImm \/ AndEax
  BY <1>4, AndsResult DEF Test, TestImm, AndEax
<1>5. CASE AndImm
  BY <1>5, ComputesResult DEF AndImm
<1>6. CASE OrXor
  BY <1>6, ComputesResult DEF OrXor
<1>7. CASE Shl
  <2>1. PICK n \in Shifts : \E f \in ShlFlags(flags, rm32, n) :
               Computes("shift", rm32, n, Truncate(rm32 * n), f)
    BY <1>7 DEF Shl
  <2>2. PICK f \in ShlFlags(flags, rm32, n) : Computes("shift", rm32, n, Truncate(rm32 * n), f)
    BY <2>1
  <2>3. (f.ZF <=> Truncate(rm32 * n) = 0) /\ (f.SF <=> SignBit(Truncate(rm32 * n)))
    <3> DEFINE result == (rm32 * n) % Modulus
               o == IF n = 2 THEN SignBit(rm32) # SignBit(2 * rm32) ELSE flags.OF
    <3>1. \E cf : f = [CF |-> cf, ZF |-> result = 0, SF |-> SignBit(result), OF |-> o]
      BY DEF ShlFlags
    <3>2. result = Truncate(rm32 * n)
      BY DEF Truncate
    <3> HIDE DEF result, o
    <3>3. f.ZF = (result = 0) /\ f.SF = SignBit(result)
      BY <3>1
    <3>4. QED
      BY <3>2, <3>3
  <2>4. QED
    BY <2>2, <2>3, ComputesResult
<1>8. CASE Shr
  <2>1. PICK n \in Shifts : \E f \in ShrFlags(flags, rm32, n) :
               Computes("shift", rm32, n, rm32 \div n, f)
    BY <1>8 DEF Shr
  <2>2. PICK f \in ShrFlags(flags, rm32, n) : Computes("shift", rm32, n, rm32 \div n, f)
    BY <2>1
  <2>3. (f.ZF <=> rm32 \div n = 0) /\ (f.SF <=> SignBit(rm32 \div n))
    <3> DEFINE result == rm32 \div n
               o == IF n = 2 THEN SignBit(rm32) ELSE flags.OF
    <3>1. \E cf : f = [CF |-> cf, ZF |-> result = 0, SF |-> SignBit(result), OF |-> o]
      BY DEF ShrFlags
    <3> HIDE DEF result, o
    <3>3. f.ZF = (result = 0) /\ f.SF = SignBit(result)
      BY <3>1
    <3>4. QED
      BY <3>3 DEF result
  <2>4. QED
    BY <2>2, <2>3, ComputesResult
<1>9. CASE Inc \/ AndImm8 \/ SalSar \/ Load \/ SetNz
  BY <1>9, <1>same DEF Inc, AndImm8, SalSar, Load, SetNz, KeepsFlags
<1>10. CASE \E c \in Conditions : Jump(c)
  BY <1>10, <1>same DEF Jump
<1>11. CASE UNCHANGED vars
  BY <1>11, <1>same DEF vars
<1>12. QED
  BY <1>1, <1>2, <1>3, <1>4, <1>5, <1>6, <1>7, <1>8, <1>9, <1>10, <1>11 DEF Next

\* jz and js, however many instructions without flags later, say whether the
\* result of the last subtraction, dec, test or shift was zero or negative.
THEOREM ResultsFollow == Spec => []BranchFollowsResult
<1>1. Init => ResultInv
  BY DEF Init, ResultInv
<1>2. IInv /\ ResultInv /\ [Next]_vars => ResultInv'
  BY ResultStep DEF IInv
<1>3. IInv /\ ResultInv => BranchFollowsResult
  <2> SUFFICES ASSUME IInv, ResultInv PROVE BranchFollowsResult
    OBVIOUS
  <2>1. last.result \in Operand /\ flags.ZF \in BOOLEAN /\ flags.SF \in BOOLEAN
    BY DEF IInv, TypeOK, FlagSet
  <2>2. branch.cond \in {"z", "s"} => branch.taken = Taken(flags)[branch.cond]
    BY DEF IInv, BranchOfFlags
  <2>3. (branch.cond = "z" => branch.taken = flags.ZF) /\ (branch.cond = "s" => branch.taken = flags.SF)
    BY <2>2 DEF Taken
  <2>4. SignBit(last.result) <=> Signed(last.result) < 0
    <3>1. SignBit(last.result) <=> last.result >= Half
      BY <2>1, SignOfOperand
    <3>2. last.result >= Half <=> Signed(last.result) < 0
      BY <2>1, Sizes, FlagsAssumption DEF Operand, Signed
    <3>3. QED
      BY <3>1, <3>2
  <2>5. /\ last.op \in {"sub", "reversed", "and", "shift"} => flags.ZF = (last.result = 0)
        /\ last.op \in {"sub", "and", "shift"} => flags.SF = (Signed(last.result) < 0)
    BY <2>1, <2>4 DEF ResultInv
  <2>6. QED
    BY <2>3, <2>5 DEF BranchFollowsResult
<1>4. QED
  BY <1>1, <1>2, <1>3, ArithInvariance, PTL DEF Spec
=============================================================================
