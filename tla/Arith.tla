------------------------------- MODULE Arith -------------------------------
(***************************************************************************)
(* The arithmetic instructions of Instruction32.cpp: what each writes to   *)
(* its operands and to the flags, and the jumps that read the flags later. *)
(*                                                                         *)
(* rm32 is the operand ModRM selects, r32 the register operand (eax for    *)
(* the short forms).  last and branch are history variables: the last      *)
(* instruction that computed flags, with its operands and the result it    *)
(* wrote or dropped, and the conditional jump executed by the last step.   *)
(* imul, which computes the carry and overflow flags only, is left out.    *)
(***************************************************************************)
EXTENDS Flags

CONSTANT Bits

ASSUME BitsAssumption == Bits \in Nat \ {0} /\ Half = 2 ^ (Bits - 1)

VARIABLES rm32, r32, flags, last, branch

vars == <<rm32, r32, flags, last, branch>>
operands == <<rm32, r32>>

\* The bits of a value that are set.
BitsOf(v) == {i \in 0 .. Bits - 1 : (v \div 2 ^ i) % 2 = 1}

And(x, y) == {v \in Operand : BitsOf(v) = BitsOf(x) \cap BitsOf(y)}
Or(x, y) == {v \in Operand : BitsOf(v) = BitsOf(x) \cup BitsOf(y)}
Xor(x, y) == {v \in Operand : BitsOf(v) = (BitsOf(x) \ BitsOf(y)) \cup (BitsOf(y) \ BitsOf(x))}

\* What a shift by 0 .. Bits-1 multiplies or divides by; a wider shift is
\* undefined in C++ and left out.
Shifts == {n \in 1 .. Half : \E count \in 0 .. Bits - 1 : n = 2 ^ count}

Ops == {"none", "sub", "reversed", "add", "and", "shift", "logic"}
NoBranch == [cond |-> "none", taken |-> FALSE]

\* The program loads its first operands before it computes.
Init ==
  /\ rm32 = 0 /\ r32 = 0
  /\ flags \in FlagSet      \* never initialised
  /\ last = [op |-> "none", left |-> 0, right |-> 0, result |-> 0]
  /\ branch = NoBranch

-----------------------------------------------------------------------------
\* Mutant: the result keeps the bits above the operand.
TruncateMutant(v) == v

\* What is left of a wide value in a uint32_t.
Truncate(v) == v % Modulus

Computes(op, left, right, result, f) ==
  /\ flags' = f
  /\ last' = [op |-> op, left |-> left, right |-> right, result |-> result]
  /\ branch' = NoBranch

Subtracts(left, right) ==
  Computes("sub", left, right, Truncate(left - right), SubFlags(left, right))

Adds(left, right) ==
  Computes("add", left, right, Truncate(left + right), AddFlags(left, right))

Ands(left, right) ==
  \E result \in And(left, right) :
     Computes("and", left, right, result, AndFlags(result))

KeepsFlags == UNCHANGED <<flags, last>> /\ branch' = NoBranch

\* cmp_rm32_r32, cmp_r32_rm32: the result is dropped.
Cmp ==
  /\ Subtracts(rm32, r32) \/ Subtracts(r32, rm32)
  /\ UNCHANGED operands

\* Immediates are sign-extended, and so may be any value.
CmpImm == \E imm \in Operand : Subtracts(rm32, imm) /\ UNCHANGED operands

SubRM == Subtracts(rm32, r32) /\ rm32' = Truncate(rm32 - r32) /\ UNCHANGED r32

\* The register gets rm32 - r32, the flags are those of r32 - rm32.
SubR ==
  /\ Computes("reversed", r32, rm32, Truncate(rm32 - r32), SubFlags(r32, rm32))
  /\ r32' = Truncate(rm32 - r32)
  /\ UNCHANGED rm32

\* sub_rm32_imm32, sub_rm32_imm8, sub_eax_imm32
SubImm ==
  \E imm \in Operand :
     Subtracts(rm32, imm) /\ rm32' = Truncate(rm32 - imm) /\ UNCHANGED r32

\* dec_r32, dec_rm32
Dec == Subtracts(rm32, 1) /\ rm32' = Truncate(rm32 - 1) /\ UNCHANGED r32

\* inc_r32, inc_rm32
Inc == rm32' = Truncate(rm32 + 1) /\ KeepsFlags /\ UNCHANGED r32

AddRM == Adds(rm32, r32) /\ rm32' = Truncate(rm32 + r32) /\ UNCHANGED r32
AddR == Adds(r32, rm32) /\ r32' = Truncate(rm32 + r32) /\ UNCHANGED rm32

\* add_eax_imm32, add_rm32_imm32, add_rm32_imm8
AddImm ==
  \E imm \in Operand :
     Adds(rm32, imm) /\ rm32' = Truncate(rm32 + imm) /\ UNCHANGED r32

Test == Ands(rm32, r32) /\ UNCHANGED operands

TestImm == \E imm \in Operand : Ands(rm32, imm) /\ UNCHANGED operands

\* and_eax_imm32
AndEax ==
  \E imm \in Operand : Ands(r32, imm) /\ r32' = last'.result /\ UNCHANGED rm32

\* and_rm32_imm32 takes the flags of the sum.
AndImm ==
  \E imm \in Operand : \E result \in And(rm32, imm) :
     /\ Computes("logic", rm32, imm, result, AddFlags(rm32, imm))
     /\ rm32' = result /\ UNCHANGED r32

\* or_*, xor_* on rm32 or on the register, with a register or an immediate.
OrXor ==
  \E imm \in Operand, left \in {rm32, r32} : \E right \in {rm32, r32, imm} :
     \E result \in Or(left, right) \cup Xor(left, right) :
        /\ Computes("logic", left, right, result, ClearCarryAndOverflow(flags))
        /\ \/ left = rm32 /\ rm32' = result /\ UNCHANGED r32
           \/ left = r32 /\ r32' = result /\ UNCHANGED rm32

\* shl_rm32_imm8, shl_rm32_cl
Shl ==
  \E n \in Shifts : \E f \in ShlFlags(flags, rm32, n) :
     /\ Computes("shift", rm32, n, Truncate(rm32 * n), f)
     /\ rm32' = Truncate(rm32 * n) /\ UNCHANGED r32

\* shr_rm32_imm8, shr_rm32_cl
Shr ==
  \E n \in Shifts : \E f \in ShrFlags(flags, rm32, n) :
     /\ Computes("shift", rm32, n, rm32 \div n, f)
     /\ rm32' = rm32 \div n /\ UNCHANGED r32

\* sal_rm32_* and sar_rm32_*, which leave the flags alone; sar_rm32_cl
\* shifts an unsigned value.
SalSar ==
  \E n \in Shifts :
     /\ rm32' \in {Truncate(rm32 * n), rm32 \div n, Truncate(Signed(rm32) \div n)}
     /\ KeepsFlags /\ UNCHANGED r32

\* and_rm32_imm8 sets no flags.
AndImm8 ==
  \E imm \in Operand : rm32' \in And(rm32, imm) /\ KeepsFlags /\ UNCHANGED r32

\* mov, movzs, movsx and lea: any value from a register, memory or immediate.
Load ==
  /\ KeepsFlags
  /\ \/ rm32' \in Operand /\ UNCHANGED r32
     \/ r32' \in Operand /\ UNCHANGED rm32

SetNz ==
  /\ rm32' = IF flags.ZF THEN 0 ELSE 1
  /\ KeepsFlags /\ UNCHANGED r32

Jump(c) ==
  /\ branch' = [cond |-> c, taken |-> Taken(flags)[c]]
  /\ UNCHANGED <<rm32, r32, flags, last>>

Next ==
  \/ Cmp \/ CmpImm \/ SubRM \/ SubR \/ SubImm \/ Dec \/ Inc
  \/ AddRM \/ AddR \/ AddImm
  \/ Test \/ TestImm \/ AndEax \/ AndImm \/ AndImm8 \/ OrXor
  \/ Shl \/ Shr \/ SalSar
  \/ Load \/ SetNz
  \/ \E c \in Conditions : Jump(c)

Spec == Init /\ [][Next]_vars

-----------------------------------------------------------------------------
\* Operands never exceed their width.
TypeOK ==
  /\ rm32 \in Operand /\ r32 \in Operand
  /\ flags \in FlagSet
  /\ last \in [op : Ops, left : Operand, right : Operand, result : Operand]
  /\ branch \in [cond : Conditions \cup {"none"}, taken : BOOLEAN]

\* A jump is taken exactly when the relation in its name, signed or unsigned,
\* held between the operands of the last comparison or subtraction, whatever
\* instructions without flags (mov, lea, inc, jumps) came in between.
BranchFollowsCompare ==
  last.op \in {"sub", "reversed"} /\ branch.cond \in DOMAIN Compared(0, 0)
     => branch.taken = Compared(last.left, last.right)[branch.cond]

\* After a subtraction, dec, test or shift, jz and js say of the result
\* whether it is zero and whether it is negative (js not for sub_r32_rm32).
BranchFollowsResult ==
  /\ last.op \in {"sub", "reversed", "and", "shift"} /\ branch.cond = "z"
       => branch.taken = (last.result = 0)
  /\ last.op \in {"sub", "and", "shift"} /\ branch.cond = "s"
       => branch.taken = (Signed(last.result) < 0)

\* memo.txt calls bit 6 the Zero Flag: after an addition, and after and, or
\* and xor, it says that the result is zero.
ZeroFlagOfResult == last.op \in {"add", "logic"} => flags.ZF = (last.result = 0)
=============================================================================
