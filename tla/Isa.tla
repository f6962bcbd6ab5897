-------------------------------- MODULE Isa --------------------------------
(***************************************************************************)
(* What a guest's program says: instructions as an assembler writes them   *)
(* down, the bytes they are encoded in, and what they mean.  This is the   *)
(* reference that decoding (Decode) is held against; it knows nothing of   *)
(* the emulator's tables, of instr, or of its copies of registers.         *)
(*                                                                         *)
(* An instruction has an opcode (0Fxx with an escape byte), perhaps a      *)
(* register or a /digit (reg), an operand in a register or in memory (rm)  *)
(* and an immediate (imm).                                                 *)
(***************************************************************************)
EXTENDS ModRM

CONSTANTS
  Logic,    \* "and", "or" and "xor" of two words
  WordBits  \* bits of a word, to which the machine cuts the count of a shift

ASSUME IsaAssumption ==
  /\ Logic \in [{"and", "or", "xor"} -> [Word \X Word -> Word]]
  /\ WordBits \in Nat \ {0}

None == 8

\* [base + index * 2^scale + disp], with a displacement of 0, 1 or 4 bytes
MemoryOperand ==
  {o \in [kind : {"mem"}, base : RegNumber \cup {None}, index : (RegNumber \ {4}) \cup {None},
          scale : 0 .. 3, size : {0, 1, 4}, disp : [1 .. 4 -> Byte]] :
     /\ o.base = None => o.size = 4
     /\ o.base = 5 => o.size # 0
     /\ o.index = None => o.scale = 0}

RegisterOperand == [kind : {"reg"}, number : RegNumber]

Operand == MemoryOperand \cup RegisterOperand

Disp(o) ==
  CASE o.size = 0 -> 0
    [] o.size = 1 -> Signed(o.disp[1], Radix)
    [] OTHER      -> Value(o.disp, 4)

EffectiveAddress(o, R) ==
  (Disp(o) + (IF o.base = None THEN 0 ELSE R[o.base])
           + (IF o.index = None THEN 0 ELSE R[o.index] * 2^o.scale)) % Words

-----------------------------------------------------------------------------
(***************************************************************************)
(* Encoding.                                                               *)
(***************************************************************************)
WithModRM ==
  {\h01, \h03, \h09, \h0B, \h28, \h29, \h2B, \h31, \h33, \h38, \h39, \h3A, \h3B,
   \h69, \h6B, \h80, \h81, \h83, \h84, \h85, \h88, \h89, \h8A, \h8B, \h8C, \h8D, \h8E,
   \hC0, \hC1, \hC6, \hC7, \hD3, \hF6, \hF7, \hFF,
   \h0F01, \h0F95, \h0FAF, \h0FB6, \h0FB7, \h0FBE, \h0FBF}

\* Opcodes that name a register in their last three bits.
WithRegister == {\h40, \h48, \h50, \h58, \hB0, \hB8}

ShortJumps == \h70 .. \h7F \cup {\hEB}
NearJumps == {\hE8, \hE9} \cup \h0F80 .. \h0F8F
Jumps == ShortJumps \cup NearJumps

OneByte == {\h05, \h0D, \h25, \h2D, \h35, \h3C, \h3D, \h68, \h6A, \h90, \h99, \hA0, \hA1, \hA3, \hA9,
            \hEC, \hEE, \hFA, \hFB}

Opcodes == WithModRM \cup WithRegister \cup Jumps \cup OneByte

\* Those that may follow an operand size prefix here.
Prefixable == {\h01, \h89, \h8B, \h8C, \hFA}

\* Bytes of immediate, moffs and relative addresses included.
ImmSize(op, digit) ==
  CASE op \in ShortJumps \cup {\h3C, \h6A, \h6B, \h80, \h83, \hB0, \hC0, \hC1, \hC6} -> 1
    [] op \in NearJumps \cup {\h05, \h0D, \h25, \h2D, \h35, \h3D, \h68, \h69, \h81, \hA0, \hA1, \hA3,
                              \hA9, \hB8, \hC7} -> 4
    [] op = \hF6 /\ digit = 0 -> 1
    [] op = \hF7 /\ digit = 0 -> 4
    [] OTHER -> 0

IsMem(o) == o.kind = "mem"
NeedsSib(o) == IsMem(o) /\ (o.index # None \/ o.base = 4)
DispLen(o) == IF IsMem(o) THEN o.size ELSE 0

OperandLength(o) == 1 + (IF NeedsSib(o) THEN 1 ELSE 0) + DispLen(o)

ModBits(o) ==
  IF ~IsMem(o) THEN 3
  ELSE IF o.base = None \/ o.size = 0 THEN 0
  ELSE IF o.size = 1 THEN 1 ELSE 2

RmBits(o) ==
  IF ~IsMem(o) THEN o.number
  ELSE IF NeedsSib(o) THEN 4
  ELSE IF o.base = None THEN 5 ELSE o.base

SibByte(o) ==
  64 * o.scale + 8 * (IF o.index = None THEN 4 ELSE o.index) + (IF o.base = None THEN 5 ELSE o.base)

\* The instruction's bytes stand at a in code.
Matches(code, a, n, b) == \A k \in 1 .. n : code[a + k - 1] = b[k]

OperandAt(code, a, reg, o) ==
  /\ code[a] = 64 * ModBits(o) + 8 * reg + RmBits(o)
  /\ NeedsSib(o) => code[a + 1] = SibByte(o)
  /\ IsMem(o) => Matches(code, a + (IF NeedsSib(o) THEN 2 ELSE 1), o.size, o.disp)

OpcodeLength(i) == (IF i.prefixed THEN 1 ELSE 0) + (IF i.op > 255 THEN 2 ELSE 1)

BeforeImm(i) == OpcodeLength(i) + (IF i.op \in WithModRM THEN OperandLength(i.rm) ELSE 0)

Length(i) == BeforeImm(i) + ImmSize(i.op, i.reg)

InstructionAt(code, a, i) ==
  /\ a .. a + Length(i) - 1 \subseteq DOMAIN code
  /\ i.prefixed => code[a] = \h66
  /\ LET o == a + IF i.prefixed THEN 1 ELSE 0
         byte == IF i.op \in WithRegister THEN i.op + i.reg ELSE i.op
     IN  IF i.op > 255 THEN code[o] = \h0F /\ code[o + 1] = i.op - \h0F00 ELSE code[o] = byte
  /\ i.op \in WithModRM => OperandAt(code, a + OpcodeLength(i), i.reg, i.rm)
  /\ Matches(code, a + BeforeImm(i), ImmSize(i.op, i.reg), i.imm)

WellTyped(i) ==
  /\ i.op \in Opcodes
  /\ i.prefixed \in BOOLEAN /\ (i.prefixed => i.op \in Prefixable)
  /\ i.reg \in RegNumber
  /\ i.rm \in Operand /\ (i.op \in {\h8D, \h0F01} => IsMem(i.rm))
  /\ i.imm \in [1 .. ImmSize(i.op, i.reg) -> Byte]

\* The number of the immediate's bytes.
Imm(i) == Value(i.imm, ImmSize(i.op, i.reg))
SignedImm(i) == Signed(Imm(i), IF ImmSize(i.op, i.reg) = 1 THEN Radix ELSE Words)

\* Where the program goes on after i at a.
Target(i, a) == (a + Length(i) + SignedImm(i)) % Words

Successors(i, a) ==
  CASE i.op \in {\hE8, \hE9, \hEB} -> {Target(i, a)}
    [] i.op \in Jumps -> {Target(i, a), a + Length(i)}
    [] OTHER -> {a + Length(i)}

\* A program and its listing: the bytes at each address, the instruction
\* that begins at each address, and the address after the last one.
Starts(p) == DOMAIN p.items \cup {p.end}

WellFormed(p) ==
  /\ p.code \in [DOMAIN p.code -> 0 .. 255]
  /\ p.start \in Starts(p)
  /\ Starts(p) \subseteq 1 .. MemorySize
  /\ \A a \in DOMAIN p.items :
       /\ WellTyped(p.items[a])
       /\ InstructionAt(p.code, a, p.items[a])
       /\ Successors(p.items[a], a) \subseteq Starts(p)

-----------------------------------------------------------------------------
(***************************************************************************)
(* What instructions compute.                                              *)
(***************************************************************************)
AsSigned(w) == Signed(w, Words)

\* Division that rounds towards zero.
Magnitude(x) == IF x >= 0 THEN x ELSE -x
Quotient(x, y) ==
  LET q == Magnitude(x) \div Magnitude(y) IN IF (x >= 0) = (y >= 0) THEN q ELSE -q

Alu(f, x, y) ==
  CASE f = "mov"  -> y
    [] f = "add"  -> (x + y) % Words
    [] f = "sub"  -> (x - y) % Words
    [] f = "imul" -> (AsSigned(x) * AsSigned(y)) % Words
    [] f = "shl"  -> (x * 2^(y % WordBits)) % Words
    [] f = "shr"  -> (x \div 2^(y % WordBits)) % Words
    [] f = "sar"  -> (AsSigned(x) \div 2^(y % WordBits)) % Words
    [] OTHER      -> Logic[f][<<x, y>>]

\* By the last three bits of the opcode's tens, or the /digit.
Family(n) == CASE n = 0 -> "add" [] n = 1 -> "or" [] n = 4 -> "and" [] n = 5 -> "sub" [] OTHER -> "xor"
Shift(n) == CASE n = 4 -> "shl" [] n = 5 -> "shr" [] OTHER -> "sar"

AluOp(op) == IF op \in {\h89, \h8B} THEN "mov" ELSE Family(op \div 8)

\* A machine state: registers and memory.
At(o, s) == EffectiveAddress(o, s.R)

Read(o, n, s) ==
  IF IsMem(o) THEN GetMemory(s.mem, At(o, s), n)
  ELSE s.R[o.number] % (CASE n = 1 -> Radix [] n = 2 -> Half [] OTHER -> Words)

SetReg(r, w, s) == [s EXCEPT !.R[r] = w]
Store(a, w, n, s) == [s EXCEPT !.mem = SetMemory(s.mem, a, Bytes(w, n), n)]
Write(o, w, n, s) == IF IsMem(o) THEN Store(At(o, s), w, n, s) ELSE SetReg(o.number, w, s)

Pushed(w, s) ==
  LET esp == (s.R[4] - 4) % Words IN Store(esp, w, 4, SetReg(4, esp, s))

\* The state after instruction i at a.
Result(i, a, s) ==
  LET rm == Read(i.rm, 4, s)
      r  == s.R[i.reg]
      b  == Read(i.rm, 1, s)
      imm == SignedImm(i) % Words
      set(w) == SetReg(i.reg, w, s)
      put(w) == Write(i.rm, w, 4, s)
      putByte(w) == Write(i.rm, w % Radix, 1, s)
  IN  IF i.prefixed THEN IF i.op = \h89 THEN Write(i.rm, r % Half, 2, s) ELSE s ELSE
      CASE i.op \in {\h01, \h09, \h29, \h31, \h89} -> put(Alu(AluOp(i.op), rm, r))
        [] i.op \in {\h03, \h0B, \h2B, \h33, \h8B} -> set(Alu(AluOp(i.op), r, rm))
        [] i.op \in {\h05, \h0D, \h25, \h2D, \h35} -> SetReg(0, Alu(AluOp(i.op), s.R[0], imm), s)
        [] i.op \in {\h81, \h83} -> IF i.reg = 7 THEN s ELSE put(Alu(Family(i.reg), rm, imm))
        [] i.op = \hC7 -> put(imm)
        [] i.op = \h28 -> putByte(b - (r % Radix))
        [] i.op = \h88 -> putByte(r)
        [] i.op = \h8A -> set((r - (r % Radix)) + b)
        [] i.op = \hC6 -> putByte(imm)
        [] i.op = \hC0 -> putByte(Alu(Shift(i.reg), IF i.reg = 7 THEN Signed(b, Radix) % Words ELSE b, Imm(i)))
        [] i.op = \hC1 -> put(Alu(Shift(i.reg), rm, Imm(i)))
        [] i.op = \hD3 -> put(Alu(Shift(i.reg), rm, s.R[1] % Radix))
        [] i.op = \h8D -> set(At(i.rm, s))
        [] i.op = \h0FB6 -> set(b)
        [] i.op = \h0FB7 -> set(Read(i.rm, 2, s))
        [] i.op = \h0FBE -> set(Signed(b, Radix) % Words)
        [] i.op = \h0FBF -> set(Signed(Read(i.rm, 2, s), Half) % Words)
        [] i.op = \h0FAF -> set(Alu("imul", r, rm))
        [] i.op \in {\h69, \h6B} -> set(Alu("imul", rm, imm))
        [] i.op = \h40 -> set((r + 1) % Words)
        [] i.op = \h48 -> set((r - 1) % Words)
        [] i.op = \hFF /\ i.reg = 0 -> put((rm + 1) % Words)
        [] i.op = \hFF /\ i.reg = 1 -> put((rm - 1) % Words)
        [] i.op = \hFF /\ i.reg = 6 -> Pushed(rm, s)
        [] i.op = \hB8 -> set(imm)
        [] i.op = \hA1 -> SetReg(0, GetMemory(s.mem, imm, 4), s)
        [] i.op = \hA3 -> Store(imm, s.R[0], 4, s)
        [] i.op = \h50 -> Pushed(r, s)
        [] i.op = \h58 -> SetReg(i.reg, GetMemory(s.mem, s.R[4], 4), SetReg(4, (s.R[4] + 4) % Words, s))
        [] i.op \in {\h68, \h6A} -> Pushed(imm, s)
        [] i.op = \hE8 -> Pushed((a + Length(i)) % Words, s)
        [] i.op = \hF7 /\ i.reg = 7 ->
             LET x == Signed(s.R[2] * Words + s.R[0], Words * Words)
                 q == Quotient(x, AsSigned(rm))
             IN  SetReg(2, (x - q * AsSigned(rm)) % Words, SetReg(0, q % Words, s))
        [] i.op = \h99 -> SetReg(2, IF AsSigned(s.R[0]) < 0 THEN Words - 1 ELSE 0, s)
        [] OTHER -> s
=============================================================================
