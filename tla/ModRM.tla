------------------------------- MODULE ModRM -------------------------------
(***************************************************************************)
(* Operands of an instruction (ModRM.cpp) and the accesses to code,        *)
(* registers and memory they are made of (Emulator.cpp), as operators on   *)
(* the emulator's state.                                                   *)
(*                                                                         *)
(* A byte of data has Radix values (256 in the program), a word is four    *)
(* bytes.  Opcodes, ModRM and SIB bytes keep their eight bits; a byte of   *)
(* the code that is read as data is cut to Radix.  The code of the guest,  *)
(* counted from the base of CS, is kept apart from memory: the guest does  *)
(* not modify it.  Outside the program there are zeros.                    *)
(***************************************************************************)
EXTENDS Integers

CONSTANTS
  Radix,       \* values of a byte of data
  MemorySize,  \* bytes of memory; the bound tests admit one more
  CsBase       \* base of the code segment

Half == Radix * Radix
Words == Half * Half

Byte == 0 .. Radix - 1
HalfWord == 0 .. Half - 1
Word == 0 .. Words - 1
RegNumber == 0 .. 7

ASSUME ModRMAssumption ==
  /\ Radix \in Nat /\ Radix >= 2
  /\ MemorySize \in Nat /\ MemorySize + 8 <= Words
  /\ CsBase \in Nat

-----------------------------------------------------------------------------
(***************************************************************************)
(* Bytes and words, little endian.                                         *)
(***************************************************************************)
Weight(k) == CASE k = 1 -> 1 [] k = 2 -> Radix [] k = 3 -> Half [] OTHER -> Half * Radix

\* Mutant: a byte keeps the bits above it.
BytesMutant(w, n) == [k \in 1 .. n |-> w \div Weight(k)]

Bytes(w, n) == [k \in 1 .. n |-> (w \div Weight(k)) % Radix]

Value(b, n) ==
  CASE n = 1 -> b[1]
    [] n = 2 -> b[1] + Radix * b[2]
    [] OTHER -> b[1] + Radix * b[2] + Half * (b[3] + Radix * b[4])

\* A number of n values, read as a signed one.
Signed(v, n) == IF 2 * v >= n THEN v - n ELSE v

Code8(code, a) == IF a \in DOMAIN code THEN code[a] ELSE 0

CodeBytes(code, a, n) == [k \in 1 .. n |-> Code8(code, a + k - 1) % Radix]

GetMemory8(mem, a) == IF a > MemorySize THEN 0 ELSE mem[a]

GetMemory(mem, a, n) == Value([k \in 1 .. n |-> GetMemory8(mem, (a + k - 1) % Words)], n)

Offset(c, a) == (c - a) % Words

SetMemory(mem, a, b, n) ==
  [c \in DOMAIN mem |-> IF Offset(c, a) < n THEN b[Offset(c, a) + 1] ELSE mem[c]]

-----------------------------------------------------------------------------
(***************************************************************************)
(* Registers: reg32, reg16, low8 and high8 do not share storage.           *)
(***************************************************************************)
Register == [reg32 : Word, reg16 : HalfWord, low8 : Byte, high8 : Byte]

GetRegister8(reg, r) == IF r < 4 THEN reg[r].low8 ELSE reg[r - 4].high8

SetRegister8(reg, r, v) ==
  IF r < 4 THEN [reg EXCEPT ![r].low8 = v] ELSE [reg EXCEPT ![r - 4].high8 = v]

SetRegister16(reg, r, v) == [reg EXCEPT ![r].reg16 = v]
SetRegister32(reg, r, v) == [reg EXCEPT ![r].reg32 = v]

-----------------------------------------------------------------------------
(***************************************************************************)
(* emu->instr: reg_index and opecode share storage, and so do disp8,       *)
(* disp16 and disp32, which are the first bytes of disp.  Nothing resets   *)
(* it between instructions.                                                *)
(***************************************************************************)
InstrData ==
  [prefix : {-1, 0}, opcode : Nat, Mod : 0 .. 3, reg_index : RegNumber, RM : RegNumber,
   sib : 0 .. 255, disp : [1 .. 4 -> Byte]]

HasSib(mod, rm) == mod # 3 /\ rm = 4

\* Mutant: a displacement without a base register is forgotten.
DispSizeMutant(prefix, mod, rm) ==
  CASE mod = 2 -> IF prefix # 0 THEN 4 ELSE 2
    [] mod = 1 -> 1
    [] OTHER   -> 0

\* Bytes of displacement: with an operand size prefix, those of a 16-bit
\* address.
DispSize(prefix, mod, rm) ==
  CASE mod = 2 \/ (mod = 0 /\ rm = IF prefix # 0 THEN 5 ELSE 6) -> IF prefix # 0 THEN 4 ELSE 2
    [] mod = 1 -> 1
    [] OTHER   -> 0

\* ModRM::Parse at eip: what it leaves in instr, and where it leaves EIP.
Parse(instr, code, eip) ==
  LET b     == Code8(code, eip)
      mod   == b \div 64
      rm    == b % 8
      start == eip + IF HasSib(mod, rm) THEN 2 ELSE 1
      n     == DispSize(instr.prefix, mod, rm)
  IN  [instr |-> [instr EXCEPT !.Mod = mod, !.reg_index = (b \div 8) % 8, !.RM = rm,
                    !.sib = IF HasSib(mod, rm) THEN Code8(code, eip + 1) ELSE @,
                    !.disp = [k \in 1 .. 4 |-> IF k <= n THEN CodeBytes(code, start, n)[k]
                                                         ELSE instr.disp[k]]],
       eip |-> start + n]

Disp8(instr) == Signed(instr.disp[1], Radix)
Disp32(instr) == Value(instr.disp, 4)

\* calc_sib; with ESP for a base and a scale, the local variable base is
\* never assigned and holds junk.
calc_sib(instr, reg, junk) ==
  LET scale == instr.sib \div 64
      index == (instr.sib \div 8) % 8
      base  == instr.sib % 8
  IN  (CASE base = 5 /\ instr.Mod = 0 -> Disp32(instr)
         [] base = 4 -> IF scale = 0 THEN 0 ELSE junk
         [] OTHER    -> reg[base].reg32)
      + reg[index].reg32 * 2^scale

\* Mutant: an 8-bit displacement is not sign extended.
CalcMemAddrMutant(instr, reg, junk) ==
  LET base == IF instr.RM = 4 THEN calc_sib(instr, reg, junk) ELSE reg[instr.RM].reg32
  IN  (CASE instr.Mod = 0 -> IF instr.RM = 5 THEN Disp32(instr) ELSE base
         [] instr.Mod = 1 -> base + instr.disp[1]
         [] instr.Mod = 2 -> base + Disp32(instr)
         [] OTHER -> 0) % Words

\* CalcMemAddr32, which CalcMemAddr calls whatever the prefix
CalcMemAddr(instr, reg, junk) ==
  LET base == IF instr.RM = 4 THEN calc_sib(instr, reg, junk) ELSE reg[instr.RM].reg32
  IN  (CASE instr.Mod = 0 -> IF instr.RM = 5 THEN Disp32(instr) ELSE base
         [] instr.Mod = 1 -> base + Disp8(instr)
         [] instr.Mod = 2 -> base + Disp32(instr)
         [] OTHER -> 0) % Words
=============================================================================
