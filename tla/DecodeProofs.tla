---------------------------- MODULE DecodeProofs ----------------------------
(***************************************************************************)
(* For every program, every number of values of a byte and every size of   *)
(* memory: handlers and ModRM step over the bytes that the assembler       *)
(* wrote, arrive at the addresses that it meant, and leave the registers   *)
(* and the memory that the instruction means.                              *)
(***************************************************************************)
EXTENDS Decode, TLAPS

LEMMA DivMod ==
  ASSUME NEW m \in Nat \ {0}, NEW x \in Int
  PROVE  /\ x \div m \in Int /\ x % m \in 0 .. m - 1
         /\ x = m * (x \div m) + (x % m)
  OBVIOUS

\* Equal up to a multiple of the modulus.
LEMMA SameRemainder ==
  ASSUME NEW m \in Nat \ {0}, NEW x \in Int, NEW k \in Int
  PROVE  (x + m * k) % m = x % m
<1>1. x + m * k \in Int
  OBVIOUS
<1>2. x = m * (x \div m) + (x % m) /\ x \div m \in Int /\ x % m \in 0 .. m - 1
  BY DivMod
<1>3. /\ x + m * k = m * ((x + m * k) \div m) + ((x + m * k) % m)
      /\ (x + m * k) \div m \in Int /\ (x + m * k) % m \in 0 .. m - 1
  BY <1>1, DivMod
<1> DEFINE q == x \div m  r == x % m  p == (x + m * k) \div m  s == (x + m * k) % m
<1>0. q \in Int /\ p \in Int
  BY <1>2, <1>3
<1>4. q \in Int /\ p \in Int /\ r \in 0 .. m - 1 /\ s \in 0 .. m - 1 /\ m * p + s = m * q + r + m * k
  BY <1>2, <1>3
<1> HIDE DEF q, r, p, s
<1>5. p = q + k
  <2> DEFINE d == p - q - k
  <2>0. d \in Int
    BY <1>0
  <2>1. d \in Int /\ m * d = r - s
    BY <1>4
  <2> HIDE DEF d
  <2>2. CASE d >= 1
    <3>1. m * d >= m
      BY <2>1, <2>2
    <3>2. QED
      BY <3>1, <2>1, <1>4
  <2>3. CASE d <= -1
    <3>1. m * d <= -m
      BY <2>1, <2>3
    <3>2. QED
      BY <3>1, <2>1, <1>4
  <2>4. CASE d = 0
    BY <2>4, <1>0 DEF d
  <2>5. QED
    BY <2>0, <2>2, <2>3, <2>4
<1>6. r = s
  BY <1>4, <1>5
<1>7. QED
  BY <1>6 DEF r, s

\* One multiple less.
LEMMA OneLess ==
  ASSUME NEW m \in Nat \ {0}, NEW x \in Int
  PROVE  (x - m) % m = x % m
<1>1. ASSUME NEW k \in Int PROVE (x + m * k) % m = x % m
  BY SameRemainder
<1>2. -1 \in Int /\ x + m * (-1) = x - m
  OBVIOUS
<1>3. (x + m * (-1)) % m = x % m
  BY <1>1, <1>2
<1>4. QED
  BY <1>2, <1>3

\* A remainder can be taken before or after adding.
LEMMA RemainderOfSum ==
  ASSUME NEW m \in Nat \ {0}, NEW x \in Int, NEW y \in Int
  PROVE  (x + (y % m)) % m = (x + y) % m
<1>1. y = m * (y \div m) + (y % m) /\ y \div m \in Int /\ y % m \in Int
  BY DivMod
<1> DEFINE q == y \div m  r == y % m
<1>2. q \in Int /\ r \in Int /\ y = m * q + r
  BY <1>1
<1> HIDE DEF q, r
<1>3. (x + r + m * q) % m = (x + r) % m
  <2>1. x + r \in Int
    BY <1>2
  <2>2. QED
    BY <2>1, <1>2, SameRemainder
<1>4. x + y = x + r + m * q
  BY <1>2
<1>5. QED
  BY <1>3, <1>4 DEF r

LEMMA Digits ==
  ASSUME NEW m \in Nat \ {0}, NEW n \in Nat \ {0}, NEW lo \in 0 .. m - 1, NEW hi \in 0 .. n - 1
  PROVE  lo + m * hi \in 0 .. m * n - 1
<1>1. m * hi <= m * (n - 1) /\ m * (n - 1) = m * n - m /\ m * hi >= 0 /\ m * hi \in Int /\ m * n \in Int
  OBVIOUS
<1>2. QED
  BY <1>1

LEMMA Sizes ==
  /\ Radix \in Nat /\ Radix >= 2 /\ Half \in Nat /\ Half >= 4 /\ Words \in Nat /\ Words >= 16
  /\ Radix <= Half /\ Half <= Words
  /\ MemorySize \in Nat /\ MemorySize + 8 <= Words
<1>1. Radix \in Nat /\ Radix >= 2
  BY ModRMAssumption
<1>2. Half \in Nat /\ Half >= 4 /\ Radix <= Half /\ Half = Radix * Radix
  BY <1>1 DEF Half
<1>3. Words \in Nat /\ Words >= 16 /\ Half <= Words /\ Words = Half * Half
  BY <1>2 DEF Words
<1>4. QED
  BY <1>1, <1>2, <1>3, ModRMAssumption

LEMMA Wrapped ==
  ASSUME NEW x \in Int
  PROVE  x % Words \in Word /\ x % Half \in HalfWord /\ x % Radix \in Byte
  BY Sizes DEF Word, HalfWord, Byte

LEMMA Wider ==
  /\ \A b \in Byte : b \in Int /\ b \in HalfWord /\ b \in Word
  /\ \A h \in HalfWord : h \in Int /\ h \in Word
  /\ \A w \in Word : w \in Int
  BY Sizes DEF Word, HalfWord, Byte

LEMMA SignedType ==
  ASSUME NEW v \in Int, NEW n \in Int
  PROVE  Signed(v, n) \in Int
  BY DEF Signed

-----------------------------------------------------------------------------
(***************************************************************************)
(* Types of the operators of ModRM.                                        *)
(***************************************************************************)
LEMMA BytesType ==
  ASSUME NEW w \in Int, NEW n \in Nat
  PROVE  Bytes(w, n) \in [1 .. n -> Byte]
<1> SUFFICES ASSUME NEW k \in 1 .. n PROVE (w \div Weight(k)) % Radix \in Byte
  BY DEF Bytes
<1>1. Weight(k) \in Nat \ {0}
  BY Sizes DEF Weight
<1>2. w \div Weight(k) \in Int
  BY <1>1
<1>3. QED
  BY <1>2, Wrapped

LEMMA ValueType ==
  /\ \A b \in [1 .. 1 -> Byte] : Value(b, 1) \in Byte
  /\ \A b \in [1 .. 2 -> Byte] : Value(b, 2) \in HalfWord
  /\ \A b \in [1 .. 4 -> Byte] : Value(b, 4) \in Word
<1>1. ASSUME NEW b \in [1 .. 1 -> Byte] PROVE Value(b, 1) \in Byte
  BY DEF Value
<1>2. ASSUME NEW b \in [1 .. 2 -> Byte] PROVE Value(b, 2) \in HalfWord
  <2>1. b[1] \in 0 .. Radix - 1 /\ b[2] \in 0 .. Radix - 1
    BY DEF Byte
  <2>2. b[1] + Radix * b[2] \in 0 .. Radix * Radix - 1
    BY <2>1, Sizes, Digits
  <2>3. QED
    BY <2>2 DEF Value, HalfWord, Half
<1>3. ASSUME NEW b \in [1 .. 4 -> Byte] PROVE Value(b, 4) \in Word
  <2>1. b[1] \in 0 .. Radix - 1 /\ b[2] \in 0 .. Radix - 1 /\ b[3] \in 0 .. Radix - 1 /\ b[4] \in 0 .. Radix - 1
    BY DEF Byte
  <2> DEFINE lo == b[1] + Radix * b[2]
             hi == b[3] + Radix * b[4]
  <2>2. lo \in 0 .. Half - 1 /\ hi \in 0 .. Half - 1
    <3>1. Radix \in Nat \ {0}
      BY Sizes
    <3>2. lo \in 0 .. Radix * Radix - 1
      BY <2>1, <3>1, Digits
    <3>3. hi \in 0 .. Radix * Radix - 1
      BY <2>1, <3>1, Digits
    <3> HIDE DEF lo, hi
    <3>4. QED
      BY <3>2, <3>3 DEF Half
  <2>3. Value(b, 4) = lo + Half * hi
    BY DEF Value
  <2> HIDE DEF lo, hi
  <2>4. lo + Half * hi \in 0 .. Half * Half - 1
    BY <2>2, Sizes, Digits
  <2>5. QED
    BY <2>3, <2>4 DEF Word, Words
<1>4. QED
  BY <1>1, <1>2, <1>3

LEMMA GetMemoryType ==
  ASSUME NEW mem \in [Cells -> Byte], NEW a \in Int
  PROVE  /\ GetMemory(mem, a, 1) \in Byte
         /\ GetMemory(mem, a, 2) \in HalfWord
         /\ GetMemory(mem, a, 4) \in Word
<1>1. ASSUME NEW w \in Word PROVE GetMemory8(mem, w) \in Byte
  BY Sizes DEF GetMemory8, Cells, Word, Byte
<1>2. \A n \in Nat : [k \in 1 .. n |-> GetMemory8(mem, (a + k - 1) % Words)] \in [1 .. n -> Byte]
  <2> SUFFICES ASSUME NEW n \in Nat, NEW k \in 1 .. n PROVE GetMemory8(mem, (a + k - 1) % Words) \in Byte
    OBVIOUS
  <2>1. a + k - 1 \in Int
    OBVIOUS
  <2>2. (a + k - 1) % Words \in Word
    BY <2>1, Wrapped
  <2>3. QED
    BY <2>2, <1>1
<1>3. QED
  BY <1>2, ValueType DEF GetMemory

LEMMA SetMemoryType ==
  ASSUME NEW mem \in [Cells -> Byte], NEW a \in Int, NEW n \in Nat, NEW b \in [1 .. n -> Byte]
  PROVE  SetMemory(mem, a, b, n) \in [Cells -> Byte]
<1>1. DOMAIN mem = Cells
  OBVIOUS
<1> SUFFICES ASSUME NEW c \in Cells
             PROVE  (IF Offset(c, a) < n THEN b[Offset(c, a) + 1] ELSE mem[c]) \in Byte
  BY <1>1 DEF SetMemory
<1>2. c - a \in Int
  BY Sizes DEF Cells
<1>3. Offset(c, a) \in Nat
  BY <1>2, Wrapped DEF Offset, Word
<1>4. CASE Offset(c, a) < n
  <2>1. Offset(c, a) + 1 \in 1 .. n
    BY <1>3, <1>4
  <2>2. b[Offset(c, a) + 1] \in Byte
    BY <2>1
  <2>3. QED
    BY <2>2, <1>4
<1>5. CASE ~(Offset(c, a) < n)
  BY <1>5
<1>6. QED
  BY <1>4, <1>5

LEMMA CodeBytesType ==
  ASSUME NEW p \in Programs, NEW a \in Int
  PROVE  /\ Code8(p.code, a) \in 0 .. 255
         /\ \A n \in Nat : CodeBytes(p.code, a, n) \in [1 .. n -> Byte]
<1>1. p.code \in [DOMAIN p.code -> 0 .. 255]
  BY ProgramsAssumption DEF WellFormed
<1>2. \A c : Code8(p.code, c) \in 0 .. 255
  BY <1>1 DEF Code8
<1>3. \A c : Code8(p.code, c) % Radix \in Byte
  BY <1>2, Wrapped
<1>4. QED
  BY <1>2, <1>3 DEF CodeBytes

LEMMA SetRegisterType ==
  ASSUME NEW f \in [RegNumber -> Register], NEW r \in RegNumber
  PROVE  /\ GetRegister8(f, r) \in Byte
         /\ \A v \in Byte : SetRegister8(f, r, v) \in [RegNumber -> Register]
         /\ \A v \in HalfWord : SetRegister16(f, r, v) \in [RegNumber -> Register]
         /\ \A v \in Word : SetRegister32(f, r, v) \in [RegNumber -> Register]
<1>1. r < 4 \/ r - 4 \in RegNumber
  BY DEF RegNumber
<1>2. QED
  BY <1>1 DEF GetRegister8, SetRegister8, SetRegister16, SetRegister32, Register, RegNumber

LEMMA ParseType ==
  ASSUME NEW p \in Programs, NEW i \in InstrData, NEW a \in Int
  PROVE  Parse(i, p.code, a).instr \in InstrData /\ Parse(i, p.code, a).eip \in Int
<1> DEFINE b     == Code8(p.code, a)
           mod   == b \div 64
           rm    == b % 8
           start == a + IF HasSib(mod, rm) THEN 2 ELSE 1
           n     == DispSize(i.prefix, mod, rm)
           sib   == IF HasSib(mod, rm) THEN Code8(p.code, a + 1) ELSE i.sib
           disp  == [k \in 1 .. 4 |-> IF k <= n THEN CodeBytes(p.code, start, n)[k] ELSE i.disp[k]]
<1>1. b \in 0 .. 255
  BY CodeBytesType
<1>0. HasSib(mod, rm) \in BOOLEAN
  BY DEF HasSib
<1>2. start \in Int /\ n \in {0, 1, 2, 4}
  <2>1. start \in Int
    OBVIOUS
  <2>2. n \in {0, 1, 2, 4}
    BY DEF DispSize
  <2>3. QED
    BY <2>1, <2>2
<1>3. mod \in 0 .. 3 /\ rm \in RegNumber /\ (b \div 8) % 8 \in RegNumber
  BY <1>1 DEF RegNumber
<1>4. Code8(p.code, a + 1) \in 0 .. 255
  <2>1. a + 1 \in Int
    OBVIOUS
  <2>2. QED
    BY <2>1, CodeBytesType
<1>5. sib \in 0 .. 255
  BY <1>4 DEF InstrData
<1>6. disp \in [1 .. 4 -> Byte]
  <2>1. CodeBytes(p.code, start, n) \in [1 .. n -> Byte]
    <3>1. start \in Int /\ n \in Nat
      BY <1>2
    <3> HIDE DEF start, n
    <3>2. QED
      BY <3>1, CodeBytesType
  <2>2. \A k \in 1 .. 4 : k <= n => k \in 1 .. n
    BY <1>2
  <2>3. i.disp \in [1 .. 4 -> Byte]
    BY DEF InstrData
  <2> HIDE DEF n, start
  <2>4. QED
    BY <2>1, <2>2, <2>3
<1>7. /\ Parse(i, p.code, a).instr =
           [i EXCEPT !.Mod = mod, !.reg_index = (b \div 8) % 8, !.RM = rm, !.sib = sib, !.disp = disp]
      /\ Parse(i, p.code, a).eip = start + n
  BY DEF Parse, InstrData
<1> HIDE DEF b, mod, rm, start, n, sib, disp
<1>8. start + n \in Int
  BY <1>2
<1>9. QED
  <2> DEFINE out == [prefix |-> i.prefix, opcode |-> i.opcode, Mod |-> mod, reg_index |-> (b \div 8) % 8,
                     RM |-> rm, sib |-> sib, disp |-> disp]
  <2>1. i = [prefix |-> i.prefix, opcode |-> i.opcode, Mod |-> i.Mod, reg_index |-> i.reg_index,
             RM |-> i.RM, sib |-> i.sib, disp |-> i.disp]
    BY DEF InstrData
  <2>2. Parse(i, p.code, a).instr = out
    BY <1>7, <2>1
  <2>3. i.prefix \in {-1, 0} /\ i.opcode \in Nat
    BY DEF InstrData
  <2>4. out \in InstrData
    BY <2>3, <1>3, <1>5, <1>6 DEF InstrData
  <2>5. QED
    BY <2>2, <2>4, <1>7, <1>8

LEMMA CalcMemAddrType ==
  ASSUME NEW i \in InstrData, NEW f \in [RegNumber -> Register], NEW junk \in Int
  PROVE  CalcMemAddr(i, f, junk) \in Word
<1>1. \A r \in RegNumber : f[r].reg32 \in Int
  BY Wider DEF Register
<1>2. Disp8(i) \in Int /\ Disp32(i) \in Int
  <2>1. i.disp \in [1 .. 4 -> Byte]
    BY DEF InstrData
  <2>2. i.disp[1] \in Int /\ Value(i.disp, 4) \in Int
    <3>1. i.disp[1] \in Byte /\ Value(i.disp, 4) \in Word
      BY <2>1, ValueType
    <3>2. QED
      BY <3>1, Wider
  <2>3. Signed(i.disp[1], Radix) \in Int
    <3>1. Radix \in Int
      BY Sizes
    <3>2. QED
      BY ONLY <2>2, <3>1, SignedType
  <2>4. QED
    BY ONLY <2>2, <2>3 DEF Disp8, Disp32
<1>3. calc_sib(i, f, junk) \in Int
  <2>1. i.sib \in 0 .. 255
    BY DEF InstrData
  <2>2. i.sib \div 64 \in 0 .. 3 /\ (i.sib \div 8) % 8 \in RegNumber /\ i.sib % 8 \in RegNumber
    BY <2>1 DEF RegNumber
  <2>3. 2 ^ (i.sib \div 64) \in Int
    BY <2>2
  <2>4. f[(i.sib \div 8) % 8].reg32 * 2 ^ (i.sib \div 64) \in Int /\ f[i.sib % 8].reg32 \in Int
    BY <2>2, <2>3, <1>1
  <2>5. QED
    BY <2>4, <1>2 DEF calc_sib
<1>4. i.RM \in RegNumber
  BY DEF InstrData
<1> DEFINE base == IF i.RM = 4 THEN calc_sib(i, f, junk) ELSE f[i.RM].reg32
           sum == CASE i.Mod = 0 -> IF i.RM = 5 THEN Disp32(i) ELSE base
                    [] i.Mod = 1 -> base + Disp8(i)
                    [] i.Mod = 2 -> base + Disp32(i)
                    [] OTHER -> 0
<1>5. base \in Int
  BY <1>1, <1>3, <1>4
<1>6. sum \in Int
  <2> HIDE DEF base
  <2>1. QED
    BY <1>2, <1>5
<1>7. CalcMemAddr(i, f, junk) = sum % Words
  BY DEF CalcMemAddr
<1>8. QED
  BY <1>6, <1>7, Wrapped

LEMMA AluType ==
  ASSUME NEW x \in Word, NEW y \in Word,
         NEW f \in {"mov", "add", "sub", "imul", "shl", "shr", "sar", "and", "or", "xor"}
  PROVE  Alu(f, x, y) \in Word
<1>1. x \in Int /\ y \in Int /\ AsSigned(x) \in Int /\ AsSigned(y) \in Int
  <2>1. x \in Int /\ y \in Int /\ Words \in Int
    BY Wider, Sizes
  <2>2. Signed(x, Words) \in Int /\ Signed(y, Words) \in Int
    BY <2>1, SignedType
  <2>3. QED
    BY <2>1, <2>2 DEF AsSigned
<1>2. y % WordBits \in Nat
  BY <1>1, IsaAssumption
<1>3. CASE f = "mov"
  BY <1>3 DEF Alu
<1>4. CASE f = "add"
  BY <1>1, <1>4, Wrapped DEF Alu
<1>5. CASE f = "sub"
  BY <1>1, <1>5, Wrapped DEF Alu
<1>6. CASE f = "imul"
  <2>1. AsSigned(x) * AsSigned(y) \in Int
    BY <1>1
  <2>2. QED
    BY <1>6, <2>1, Wrapped DEF Alu
<1>7. CASE f \in {"shl", "shr", "sar"}
  <2> DEFINE n == y % WordBits
  <2>1. n \in Nat
    BY <1>2
  <2> HIDE DEF n
  <2>2. \A z \in Int : (z * 2^n) % Words \in 0 .. Words - 1 /\ (z \div 2^n) % Words \in 0 .. Words - 1
    BY <2>1, Sizes
  <2>4. (x * 2^n) % Words \in Word /\ (x \div 2^n) % Words \in Word /\ (AsSigned(x) \div 2^n) % Words \in Word
    BY <2>2, <1>1 DEF Word
  <2>5. QED
    BY <1>7, <2>4 DEF Alu, n
<1>8. CASE f \in {"and", "or", "xor"}
  <2>1. Logic[f] \in [Word \X Word -> Word]
    BY <1>8, IsaAssumption
  <2>2. Logic[f][<<x, y>>] \in Word
    BY <2>1
  <2>3. Alu(f, x, y) = Logic[f][<<x, y>>]
    BY <1>8 DEF Alu
  <2>4. QED
    BY <2>2, <2>3
<1>9. QED
  BY <1>3, <1>4, <1>5, <1>6, <1>7, <1>8

-----------------------------------------------------------------------------
(***************************************************************************)
(* Types of what handlers read and write.                                  *)
(***************************************************************************)
Inv == TypeOK /\ program \in Programs

LEMMA MirroredType ==
  ASSUME Inv
  PROVE  Mirrored \in [RegNumber -> Register] /\ \A r \in RegNumber : Mirrored[r].reg32 = reg[r].reg32
<1>1. reg \in [RegNumber -> Register]
  BY DEF Inv, TypeOK
<1>2. ASSUME NEW r \in RegNumber PROVE Mirrored[r] \in Register /\ Mirrored[r].reg32 = reg[r].reg32
  <2>1. reg[r] \in Register /\ reg[r].reg32 \in Word
    BY <1>1 DEF Register
  <2>2. reg[r].reg32 % Half \in HalfWord /\ reg[r].reg32 % Radix \in Byte
    BY <2>1, Wider, Wrapped
  <2>3. QED
    BY <2>1, <2>2 DEF Mirrored, Register
<1>3. QED
  BY <1>2 DEF Mirrored

LEMMA FetchType ==
  ASSUME Inv
  PROVE  /\ Fetched \in InstrData /\ HandlerEip \in Int /\ Opcode \in Nat
         /\ Parsed.instr \in InstrData /\ Parsed.eip \in Int
         /\ Digit \in RegNumber /\ RM \in RegNumber
<1>1. eip \in Nat /\ instr \in InstrData /\ program \in Programs
  BY DEF Inv, TypeOK
<1>2. OpcodeAt \in Int /\ OpcodeAt + 1 \in Int
  BY <1>1 DEF OpcodeAt
<1>3. Code(OpcodeAt) \in Nat /\ Code(OpcodeAt + 1) \in Nat
  <2> SUFFICES ASSUME NEW a \in Int PROVE Code(a) \in Nat
    BY <1>2
  <2>1. Code8(program.code, a) \in 0 .. 255
    BY <1>1, CodeBytesType
  <2>2. QED
    BY <2>1 DEF Code
<1>4. HandlerEip \in Int /\ HandlerEip + 1 \in Int /\ Opcode \in Nat
  BY <1>2, <1>3 DEF HandlerEip, Opcode
<1>5. Prefix \in {-1, 0}
  BY DEF Prefix
<1>6. Fetched \in InstrData
  BY <1>1, <1>4, <1>5 DEF Fetched, InstrData
<1>7. Parsed.instr \in InstrData /\ Parsed.eip \in Int
  BY <1>1, <1>4, <1>6, ParseType DEF Parsed
<1>8. QED
  BY <1>4, <1>6, <1>7 DEF Digit, RM, InstrData

LEMMA CodeValueType ==
  ASSUME Inv, NEW a \in Int
  PROVE  /\ CodeValue(a, 1) \in Byte /\ Code32(a) \in Word /\ SignCode8(a) \in Word
         /\ CodeValue(a, 1) \in Word
<1>1. CodeBytes(program.code, a, 1) \in [1 .. 1 -> Byte] /\ CodeBytes(program.code, a, 4) \in [1 .. 4 -> Byte]
  BY CodeBytesType DEF Inv
<1>2. CodeValue(a, 1) \in Byte /\ Code32(a) \in Word
  BY <1>1, ValueType DEF CodeValue, Code32
<1>3. Signed(CodeValue(a, 1), Radix) \in Int
  BY <1>2, Wider, Sizes, SignedType
<1>4. QED
  BY <1>2, <1>3, Wrapped, Wider DEF SignCode8

LEMMA ReadTypes ==
  ASSUME Inv, NEW junk \in Junk
  PROVE  /\ Address(junk) \in Word
         /\ RM8(junk) \in Byte /\ RM16(junk) \in HalfWord /\ RM32(junk) \in Word
         /\ R8 \in Byte /\ R16 \in HalfWord /\ R32 \in Word
<1>1. Address(junk) \in Word
  BY FetchType, MirroredType, CalcMemAddrType DEF Address, Junk
<1>2. /\ GetMemory(memory, Address(junk), 1) \in Byte
      /\ GetMemory(memory, Address(junk), 2) \in HalfWord
      /\ GetMemory(memory, Address(junk), 4) \in Word
  BY <1>1, Wider, GetMemoryType DEF Inv, TypeOK
<1>3. \A r \in RegNumber : /\ GetRegister8(Mirrored, r) \in Byte
                           /\ Mirrored[r].reg16 \in HalfWord /\ Mirrored[r].reg32 \in Word
  BY MirroredType, SetRegisterType DEF Register
<1>4. QED
  BY <1>1, <1>2, <1>3, FetchType DEF RM8, RM16, RM32, R8, R16, R32

\* What a handler writes keeps its type.
Written ==
  /\ reg' \in [RegNumber -> Register]
  /\ sreg' \in [SegmentRegisters -> HalfWord]
  /\ memory' \in [Cells -> Byte]

LEMMA SetRegistersType ==
  ASSUME Inv, NEW f \in [RegNumber -> Register], SetRegisters(f)
  PROVE  Written
  BY DEF Inv, TypeOK, SetRegisters, Written

LEMMA NoWriteType == ASSUME Inv, NoWrite PROVE Written
  BY MirroredType, SetRegistersType DEF NoWrite

LEMMA SetRegister32Type ==
  ASSUME Inv, NEW r \in RegNumber, NEW w \in Word, SetRegisters(SetRegister32(Mirrored, r, w))
  PROVE  Written
  BY MirroredType, SetRegisterType, SetRegistersType

LEMMA SetR32Type == ASSUME Inv, NEW w \in Word, SetR32(w) PROVE Written
  BY FetchType, SetRegister32Type DEF SetR32

LEMMA EaxType == ASSUME Inv, NEW w \in Word, Eax(w) PROVE Written
  BY SetRegister32Type DEF Eax, RegNumber

LEMMA SetMemType ==
  ASSUME Inv, NEW a \in Int, NEW w \in Int, NEW n \in Nat, SetMem(a, w, n)
  PROVE  Written
<1>1. SetMemory(memory, a, Bytes(w, n), n) \in [Cells -> Byte]
  BY BytesType, SetMemoryType DEF Inv, TypeOK
<1>2. QED
  BY <1>1, MirroredType DEF SetMem, Written, Inv, TypeOK

LEMMA SetRMTypes ==
  ASSUME Inv, NEW junk \in Junk
  PROVE  /\ \A w \in Word : SetRM32(w, junk) => Written
         /\ \A w \in HalfWord : SetRM16(w, junk) => Written
         /\ \A w \in Byte : SetRM8(w, junk) => Written
<1>1. Address(junk) \in Int
  BY ReadTypes, Wider
<1>2. RM \in RegNumber /\ Mirrored \in [RegNumber -> Register]
  BY FetchType, MirroredType
<1>3. ASSUME NEW w \in Word, SetRM32(w, junk) PROVE Written
  BY <1>1, <1>2, <1>3, Wider, SetRegister32Type, SetMemType DEF SetRM32
<1>4. ASSUME NEW w \in HalfWord, SetRM16(w, junk) PROVE Written
  <2>1. SetRegister16(Mirrored, RM, w) \in [RegNumber -> Register] /\ w \in Int
    BY <1>2, SetRegisterType, Wider
  <2>2. QED
    BY <1>1, <1>4, <2>1, SetRegistersType, SetMemType DEF SetRM16
<1>5. ASSUME NEW w \in Byte, SetRM8(w, junk) PROVE Written
  <2>1. SetRegister8(Mirrored, RM, w) \in [RegNumber -> Register] /\ w \in Int
    BY <1>2, SetRegisterType, Wider
  <2>2. QED
    BY <1>1, <1>5, <2>1, SetRegistersType, SetMemType DEF SetRM8
<1>6. QED
  BY <1>3, <1>4, <1>5

\* AL is copied to EAX.
LEMMA LowByteType ==
  ASSUME NEW w \in Word, NEW v \in Byte
  PROVE  w - (w % Radix) + v \in Word
<1>1. w \in Int /\ Radix \in Nat \ {0}
  BY Wider, Sizes
<1> DEFINE q == w \div Radix
<1>2. q \in Int /\ w - (w % Radix) = Radix * q /\ w % Radix \in 0 .. Radix - 1
  BY <1>1, DivMod
<1>3. Words = Radix * (Radix * Half)
  BY Sizes DEF Words, Half
<1> DEFINE n == Radix * Half
<1>4. n \in Nat
  BY Sizes
<1>5. w \in 0 .. Radix * n - 1 /\ v \in 0 .. Radix - 1
  BY <1>3 DEF Word, Byte
<1> DEFINE z == w - (w % Radix)
<1>6. z \in Int /\ z = Radix * q /\ z <= w /\ w <= z + Radix - 1
  BY <1>1, <1>2
<1> HIDE DEF q, n, z
<1>7. q >= 0
  <2>1. CASE q <= -1
    <3>1. Radix * q <= -Radix
      BY <2>1, <1>1, <1>2
    <3>2. QED
      BY <3>1, <1>1, <1>5, <1>6
  <2>2. QED
    BY <2>1, <1>2
<1>8. q <= n - 1
  <2>1. CASE q >= n
    <3>1. Radix * q >= Radix * n /\ Radix * n \in Int /\ Radix * q \in Int
      BY <2>1, <1>1, <1>2, <1>4
    <3>2. Radix * q <= Radix * n - 1
      BY <3>1, <1>1, <1>5, <1>6
    <3>3. QED
      BY <3>1, <3>2
  <2>2. QED
    BY <2>1, <1>2, <1>4
<1>9. v + Radix * q \in 0 .. Radix * n - 1
  <2>1. q \in 0 .. n - 1 /\ n \in Nat \ {0}
    BY <1>2, <1>4, <1>7, <1>8
  <2>2. QED
    BY <2>1, <1>1, <1>5, Digits
<1>10. z + v \in Word
  BY <1>3, <1>5, <1>6, <1>9 DEF Word, n
<1>11. QED
  BY <1>10 DEF z

LEMMA SetR8Type == ASSUME Inv, NEW v \in Byte, SetR8(v) PROVE Written
<1> DEFINE f == SetRegister8(Mirrored, Digit, v)
           w == f[0].reg32 - (f[0].reg32 % Radix) + v
<1>1. f \in [RegNumber -> Register]
  BY FetchType, MirroredType, SetRegisterType
<1>2. 0 \in RegNumber /\ f[0].reg32 \in Word
  BY <1>1 DEF RegNumber, Register
<1>3. w \in Word
  BY <1>2, LowByteType
<1> HIDE DEF f, w
<1>4. SetRegister32(f, 0, w) \in [RegNumber -> Register]
  BY <1>1, <1>2, <1>3, SetRegisterType
<1>5. SetRegisters(IF Digit = 0 THEN SetRegister32(f, 0, w) ELSE f)
  BY DEF SetR8, f, w
<1>6. QED
  BY <1>1, <1>4, <1>5, SetRegistersType

LEMMA WriteALType == ASSUME Inv, NEW v \in Byte, WriteAL(v) PROVE Written
<1> DEFINE eax == Mirrored[0].reg32
           f == SetRegister8(Mirrored, 0, v)
<1>1. Mirrored \in [RegNumber -> Register] /\ 0 \in RegNumber /\ eax \in Word
  BY MirroredType DEF RegNumber, Register
<1>2. eax - (eax % Radix) + v \in Word
  BY <1>1, LowByteType
<1>3. f \in [RegNumber -> Register]
  BY <1>1, SetRegisterType
<1>4. SetRegisters(SetRegister32(f, 0, eax - (eax % Radix) + v))
  BY DEF WriteAL
<1> HIDE DEF eax, f
<1>5. SetRegister32(f, 0, eax - (eax % Radix) + v) \in [RegNumber -> Register]
  BY <1>1, <1>2, <1>3, SetRegisterType
<1>6. QED
  BY <1>4, <1>5, SetRegistersType

LEMMA Push32Type == ASSUME Inv, NEW w \in Int, Push32(w) PROVE Written
<1> DEFINE esp == (Mirrored[4].reg32 - 4) % Words
<1>1. 4 \in RegNumber /\ Mirrored \in [RegNumber -> Register] /\ Mirrored[4].reg32 \in Int
  BY MirroredType, Wider DEF RegNumber, Register
<1>2. esp \in Word /\ esp \in Int
  BY <1>1, Wrapped, Wider
<1> HIDE DEF esp
<1>3. SetRegister32(Mirrored, 4, esp) \in [RegNumber -> Register]
  BY <1>1, <1>2, SetRegisterType
<1>4. SetMemory(memory, esp, Bytes(w, 4), 4) \in [Cells -> Byte]
  BY <1>2, BytesType, SetMemoryType DEF Inv, TypeOK
<1>5. QED
  BY <1>3, <1>4 DEF Push32, esp, Written, Inv, TypeOK

\* Where a handler goes and what it leaves in instr keeps its type.
Moved == eip' \in Nat /\ instr' \in InstrData /\ program' = program /\ dtr' \in [Tables -> Table]

LEMMA GotoType ==
  ASSUME Inv, NEW i \in InstrData, NEW a \in Int, Goto(i, a)
  PROVE  Moved
  BY Wrapped DEF Goto, Inv, TypeOK, Word, Moved

LEMMA OperandsType == ASSUME Inv, NEW ops, NEW n \in Int, Operands(ops, n) PROVE Moved
<1>1. Parsed.eip + n \in Int
  BY FetchType
<1>2. QED
  BY <1>1, FetchType, GotoType DEF Operands

LEMMA PlainType == ASSUME Inv, NEW ops, NEW n \in Int, Plain(ops, n) PROVE Moved
<1>1. HandlerEip + n \in Int
  BY FetchType
<1>2. QED
  BY <1>1, FetchType, GotoType DEF Plain

LEMMA ImmediateTypes ==
  ASSUME Inv
  PROVE  /\ Immediate32 \in Word /\ Immediate8 \in Word /\ Immediate32 % Radix \in Word
         /\ CodeValue(Parsed.eip, 1) \in Byte /\ CodeValue(Parsed.eip, 1) \in Word
         /\ CodeValue(HandlerEip + 1, 1) \in Byte /\ CodeValue(HandlerEip + 1, 1) \in Word
         /\ Code32(HandlerEip + 1) \in Word /\ SignCode8(HandlerEip + 1) \in Word
<1>1. Parsed.eip \in Int /\ HandlerEip + 1 \in Int
  BY FetchType
<1>2. Immediate32 \in Word /\ Immediate8 \in Word
  BY <1>1, CodeValueType DEF Immediate32, Immediate8
<1>3. Immediate32 % Radix \in Word
  BY <1>2, Wider, Wrapped
<1>4. QED
  BY <1>1, <1>2, <1>3, CodeValueType

LEMMA Mirrored32 ==
  ASSUME Inv, NEW r \in RegNumber
  PROVE  Mirrored[r].reg32 \in Word /\ Mirrored[r].reg32 \in Int /\ Mirrored[r].low8 \in Word
<1>1. Mirrored[r] \in Register
  BY MirroredType
<1>2. QED
  BY <1>1, Wider DEF Register

\* The handlers of whole words with a ModRM byte.
LEMMA RmR32Type == ASSUME Inv, RmR32 PROVE Moved /\ Written
<1>1. PICK junk \in Junk : SetRM32(Alu(ToRM(Opcode), RM32(junk), R32), junk)
  BY DEF RmR32
<1>2. ToRM(Opcode) \in {"mov", "add", "sub", "or", "xor"}
  BY DEF ToRM
<1>3. Alu(ToRM(Opcode), RM32(junk), R32) \in Word
  BY <1>2, ReadTypes, AluType
<1>4. QED
  BY <1>1, <1>3, SetRMTypes, OperandsType DEF RmR32

LEMMA RRm32Type == ASSUME Inv, RRm32 PROVE Moved /\ Written
<1> DEFINE w(junk) == CASE Opcode = \h03 -> Alu("add", R32, RM32(junk))
                        [] Opcode = \h2B -> Alu("sub", RM32(junk), R32)
                        [] Opcode = \h33 -> Alu("xor", R32, RM32(junk))
                        [] OTHER -> RM32(junk)
<1>1. PICK junk \in Junk : SetR32(w(junk))
  BY DEF RRm32
<1>2. RM32(junk) \in Word /\ R32 \in Word
  BY ReadTypes
<1>3. /\ Alu("add", R32, RM32(junk)) \in Word
      /\ Alu("sub", RM32(junk), R32) \in Word
      /\ Alu("xor", R32, RM32(junk)) \in Word
  BY <1>2, AluType
<1>4. w(junk) \in Word
  BY <1>2, <1>3
<1> HIDE DEF w
<1>5. QED
  BY <1>1, <1>4, SetR32Type, OperandsType DEF RRm32

LEMMA FamilyType == \A n : Family(n) \in {"add", "sub", "and", "or", "xor"} /\ Shift(n) \in {"shl", "shr", "sar"}
  BY DEF Family, Shift

LEMMA Code81Type == ASSUME Inv, Code81 PROVE Moved /\ Written
<1> DEFINE imm == IF Digit = 1 THEN Immediate32 % Radix ELSE Immediate32
<1>1. CASE Operands({\h81}, 4) /\ \E junk \in Junk : SetRM32(Alu(Family(Digit), RM32(junk), imm), junk)
  <2>1. PICK junk \in Junk : SetRM32(Alu(Family(Digit), RM32(junk), imm), junk)
    BY <1>1
  <2>2. imm \in Word
    BY ImmediateTypes
  <2> HIDE DEF imm
  <2>3. Alu(Family(Digit), RM32(junk), imm) \in Word
    BY <2>2, FamilyType, ReadTypes, AluType
  <2>4. QED
    BY <1>1, <2>1, <2>3, SetRMTypes, OperandsType
<1>2. CASE (Operands({\h81}, 4) \/ Operands({\h81}, 0)) /\ NoWrite
  BY <1>2, NoWriteType, OperandsType
<1>3. QED
  BY <1>1, <1>2 DEF Code81

LEMMA Code83Type == ASSUME Inv, Code83 PROVE Moved /\ Written
<1>1. CASE Operands({\h83}, 1) /\ \E junk \in Junk : SetRM32(Alu(Family(Digit), RM32(junk), Immediate8), junk)
  <2>1. PICK junk \in Junk : SetRM32(Alu(Family(Digit), RM32(junk), Immediate8), junk)
    BY <1>1
  <2>2. Alu(Family(Digit), RM32(junk), Immediate8) \in Word
    BY FamilyType, ImmediateTypes, ReadTypes, AluType
  <2>3. QED
    BY <1>1, <2>1, <2>2, SetRMTypes, OperandsType
<1>2. CASE (Operands({\h83}, 1) \/ Operands({\h83}, 0)) /\ NoWrite
  BY <1>2, NoWriteType, OperandsType
<1>3. QED
  BY <1>1, <1>2 DEF Code83

LEMMA CodeC1Type == ASSUME Inv, CodeC1 PROVE Moved /\ Written
<1> DEFINE count == CodeValue(Parsed.eip, 1)
<1>1. PICK junk \in Junk :
        \/ Operands({\hC1}, 1) /\ SetRM32(Alu(Shift(Digit), RM32(junk), count), junk)
        \/ Operands({\hC1}, 0) /\ SetRM32(Alu("shl", RM32(junk), count), junk)
        \/ Operands({\hC1}, 0) /\ NoWrite
  BY DEF CodeC1
<1>2. count \in Word
  BY ImmediateTypes
<1> HIDE DEF count
<1>3. Alu(Shift(Digit), RM32(junk), count) \in Word /\ Alu("shl", RM32(junk), count) \in Word
  BY <1>2, FamilyType, ReadTypes, AluType
<1>4. QED
  BY <1>1, <1>3, SetRMTypes, NoWriteType, OperandsType

LEMMA CodeD3Type == ASSUME Inv, CodeD3 PROVE Moved /\ Written
<1> DEFINE f == IF Digit \in {4, 6} THEN "shl" ELSE "shr"
<1>1. PICK junk \in Junk : SetRM32(Alu(f, RM32(junk), Mirrored[1].low8), junk) \/ NoWrite
  BY DEF CodeD3
<1>2. f \in {"shl", "shr"} /\ 1 \in RegNumber
  BY DEF RegNumber
<1> HIDE DEF f
<1>3. Alu(f, RM32(junk), Mirrored[1].low8) \in Word
  BY <1>2, Mirrored32, ReadTypes, AluType
<1>4. QED
  BY <1>1, <1>3, SetRMTypes, NoWriteType, OperandsType DEF CodeD3

LEMMA CodeFFType == ASSUME Inv, CodeFF PROVE Moved /\ Written
<1>1. PICK junk \in Junk : \/ SetRM32((RM32(junk) + 1) % Words, junk)
                           \/ SetRM32((RM32(junk) - 1) % Words, junk)
                           \/ Push32(RM32(junk))
                           \/ NoWrite
  BY DEF CodeFF
<1>2. RM32(junk) \in Int
  BY ReadTypes, Wider
<1>3. RM32(junk) + 1 \in Int /\ RM32(junk) - 1 \in Int
  BY <1>2
<1>4. (RM32(junk) + 1) % Words \in Word /\ (RM32(junk) - 1) % Words \in Word
  BY <1>3, Wrapped
<1>5. QED
  BY <1>1, <1>2, <1>4, SetRMTypes, Push32Type, NoWriteType, OperandsType DEF CodeFF

LEMMA IdivType == ASSUME Inv, Idiv PROVE Moved /\ Written
<1> DEFINE x == Signed(Mirrored[2].reg32 * Words + Mirrored[0].reg32, Words * Words)
           y(junk) == AsSigned(RM32(junk))
           q(junk) == Quotient(x, y(junk))
<1>1. PICK junk \in Junk :
        /\ y(junk) # 0
        /\ SetRegisters(SetRegister32(SetRegister32(Mirrored, 0, q(junk) % Words),
                                      2, (x - q(junk) * y(junk)) % Words))
  BY DEF Idiv
<1>2. x \in Int
  <2>1. Mirrored[2].reg32 \in Int /\ Mirrored[0].reg32 \in Int /\ Words \in Int
    BY Mirrored32, Sizes DEF RegNumber
  <2>2. Mirrored[2].reg32 * Words + Mirrored[0].reg32 \in Int /\ Words * Words \in Int
    BY <2>1
  <2>3. QED
    BY <2>2, SignedType
<1>3. y(junk) \in Int
  <2>1. RM32(junk) \in Int /\ Words \in Int
    BY ReadTypes, Wider, Sizes
  <2>2. QED
    BY <2>1, SignedType DEF AsSigned
<1> HIDE DEF x, y
<1>4. q(junk) \in Int
  <2>1. Magnitude(x) \in Int /\ Magnitude(y(junk)) \in Nat \ {0}
    BY <1>1, <1>2, <1>3 DEF Magnitude
  <2>2. Magnitude(x) \div Magnitude(y(junk)) \in Int
    BY <2>1
  <2>3. QED
    BY <2>2 DEF Quotient
<1> HIDE DEF q
<1>5. x - q(junk) * y(junk) \in Int
  BY <1>2, <1>3, <1>4
<1>6. q(junk) % Words \in Word /\ (x - q(junk) * y(junk)) % Words \in Word
  BY <1>4, <1>5, Wrapped
<1>7. SetRegister32(Mirrored, 0, q(junk) % Words) \in [RegNumber -> Register]
  BY <1>6, MirroredType, SetRegisterType DEF RegNumber
<1>8. SetRegister32(SetRegister32(Mirrored, 0, q(junk) % Words), 2, (x - q(junk) * y(junk)) % Words)
        \in [RegNumber -> Register]
  BY <1>6, <1>7, SetRegisterType DEF RegNumber
<1>9. QED
  BY <1>1, <1>8, SetRegistersType, OperandsType DEF Idiv

LEMMA ImulType == ASSUME Inv, Imul PROVE Moved /\ Written
<1> DEFINE low(junk) == (Signed(R32 % Half, Half) * Signed(RM32(junk) % Half, Half)) % Words
<1>1. PICK junk \in Junk :
        \/ Operands({\h69}, 4) /\ SetR32(Alu("imul", RM32(junk), Immediate32))
        \/ Operands({\h6B}, 1) /\ SetR32(Alu("imul", RM32(junk), Immediate8))
        \/ Operands({\h0FAF}, 0) /\ SetR32(low(junk))
  BY DEF Imul
<1>2. Alu("imul", RM32(junk), Immediate32) \in Word /\ Alu("imul", RM32(junk), Immediate8) \in Word
  BY ImmediateTypes, ReadTypes, AluType
<1>3. low(junk) \in Word
  <2>1. R32 % Half \in Int /\ RM32(junk) % Half \in Int /\ Half \in Int
    BY ReadTypes, Wider, Wrapped, Sizes
  <2>2. Signed(R32 % Half, Half) \in Int /\ Signed(RM32(junk) % Half, Half) \in Int
    BY <2>1, SignedType
  <2>3. Signed(R32 % Half, Half) * Signed(RM32(junk) % Half, Half) \in Int
    BY <2>2
  <2>4. QED
    BY <2>3, Wrapped
<1> HIDE DEF low
<1>4. QED
  BY <1>1, <1>2, <1>3, SetR32Type, OperandsType

LEMMA ExtendType == ASSUME Inv, Extend PROVE Moved /\ Written
<1>1. PICK junk \in Junk :
        \/ Operands({\h0FB6}, 0) /\ SetR32(RM8(junk))
        \/ Operands({\h0FB7}, 0) /\ SetR32(RM16(junk))
        \/ Operands({\h0FBE}, 0) /\ SetR32(Signed(RM8(junk), Radix) % Words)
        \/ Operands({\h0FBF}, 0) /\ SetR32(Signed(RM16(junk), Half) % Words)
  BY DEF Extend
<1>2. RM8(junk) \in Word /\ RM8(junk) \in Int /\ RM16(junk) \in Word /\ RM16(junk) \in Int
  BY ReadTypes, Wider
<1>3. Signed(RM8(junk), Radix) \in Int /\ Signed(RM16(junk), Half) \in Int
  <2>1. Radix \in Int /\ Half \in Int
    BY Sizes
  <2>2. QED
    BY <1>2, <2>1, SignedType
<1>4. Signed(RM8(junk), Radix) % Words \in Word /\ Signed(RM16(junk), Half) % Words \in Word
  BY <1>3, Wrapped
<1>5. QED
  BY <1>1, <1>2, <1>4, SetR32Type, OperandsType

\* The other handlers.
LEMMA Short32Type == ASSUME Inv, Short32 PROVE Moved /\ Written
<1> DEFINE w == Mirrored[Number].reg32
           esp == Mirrored[4].reg32
           up == SetRegister32(Mirrored, 4, (esp + 4) % Words)
<1>1. \/ (\E op : Numbered(op, 1)) /\ SetRegisters(SetRegister32(Mirrored, Number, (w + 1) % Words))
      \/ (\E op : Numbered(op, 1)) /\ SetRegisters(SetRegister32(Mirrored, Number, (w - 1) % Words))
      \/ (\E op : Numbered(op, 5)) /\ SetRegisters(SetRegister32(Mirrored, Number, Code32(HandlerEip + 1)))
      \/ (\E op : Numbered(op, 1)) /\ Push32(w)
      \/ (\E op : Numbered(op, 1)) /\ SetRegisters(SetRegister32(up, Number, GetMemory(memory, esp, 4)))
  BY DEF Short32
<1>2. (\E op : Numbered(op, 1) \/ Numbered(op, 5)) => Moved
  BY PlainType DEF Numbered
<1>3. Number \in RegNumber /\ 4 \in RegNumber
  BY FetchType DEF Number, RegNumber
<1>4. w \in Int /\ esp \in Int
  BY <1>3, Mirrored32
<1>5. w + 1 \in Int /\ w - 1 \in Int /\ esp + 4 \in Int
  BY <1>4
<1>6. (w + 1) % Words \in Word /\ (w - 1) % Words \in Word /\ (esp + 4) % Words \in Word
  BY <1>5, Wrapped
<1>7. GetMemory(memory, esp, 4) \in Word
  BY <1>4, GetMemoryType DEF Inv, TypeOK
<1>8. up \in [RegNumber -> Register]
  BY <1>3, <1>6, MirroredType, SetRegisterType
<1> HIDE DEF w, esp, up
<1>9. SetRegister32(up, Number, GetMemory(memory, esp, 4)) \in [RegNumber -> Register]
  BY <1>3, <1>7, <1>8, SetRegisterType
<1>10. QED
  BY <1>1, <1>2, <1>3, <1>4, <1>6, <1>9, ImmediateTypes, SetRegister32Type, SetRegistersType, Push32Type

LEMMA PushImmType == ASSUME Inv, PushImm PROVE Moved /\ Written
<1>1. CodeValue(HandlerEip + 1, 1) \in Int /\ Code32(HandlerEip + 1) \in Int
  BY ImmediateTypes, Wider
<1>2. QED
  BY <1>1, Push32Type, PlainType DEF PushImm

LEMMA Moffs32Type == ASSUME Inv, Moffs32 PROVE Moved /\ Written
<1> DEFINE moffs == Code32(HandlerEip + 1)
<1>1. moffs \in Int /\ Mirrored[0].reg32 \in Int
  BY ImmediateTypes, Mirrored32, Wider DEF RegNumber
<1>2. GetMemory(memory, moffs, 4) \in Word
  BY <1>1, GetMemoryType DEF Inv, TypeOK
<1>3. \/ Plain({\hA1}, 5) /\ Eax(GetMemory(memory, moffs, 4))
      \/ Plain({\hA3}, 5) /\ SetMem(moffs, Mirrored[0].reg32, 4)
  BY DEF Moffs32
<1> HIDE DEF moffs
<1>4. QED
  BY <1>1, <1>2, <1>3, EaxType, SetMemType, PlainType

LEMMA EaxImm32Type == ASSUME Inv, EaxImm32 PROVE Moved /\ Written
<1> DEFINE w == Alu(AluOp(Opcode), Mirrored[0].reg32, Code32(HandlerEip + 1))
<1>1. AluOp(Opcode) \in {"mov", "add", "sub", "and", "or", "xor"} /\ 0 \in RegNumber
  BY FamilyType DEF AluOp, RegNumber
<1>2. w \in Word
  BY <1>1, Mirrored32, ImmediateTypes, AluType
<1> HIDE DEF w
<1>3. Eax(w) /\ Plain({\h05, \h0D, \h25, \h2D, \h35}, 5)
  BY DEF EaxImm32, w
<1>4. QED
  BY <1>2, <1>3, EaxType, PlainType

LEMMA CdqType == ASSUME Inv, Cdq PROVE Moved /\ Written
<1> DEFINE w == IF AsSigned(Mirrored[0].reg32) < 0 THEN Words - 1 ELSE 0
<1>1. w \in Word /\ 2 \in RegNumber
  BY Sizes DEF Word, RegNumber
<1> HIDE DEF w
<1>2. Plain({\h99}, 1) /\ SetRegisters(SetRegister32(Mirrored, 2, w))
  BY DEF Cdq, w
<1>3. QED
  BY <1>1, <1>2, SetRegister32Type, PlainType

LEMMA LoadTableType == ASSUME Inv, LoadTable PROVE Moved /\ Written
<1>1. eip' \in Nat /\ instr' \in InstrData /\ program' = program
  BY FetchType, Wrapped DEF LoadTable, Word
<1>2. dtr' \in [Tables -> Table]
  <2>1. CASE UNCHANGED dtr
    BY <2>1 DEF Inv, TypeOK
  <2>2. ASSUME NEW junk \in Junk, NEW t \in Tables,
               dtr' = [dtr EXCEPT ![t] = [limit |-> GetMemory(memory, Address(junk), 2),
                                          base |-> GetMemory(memory, (Address(junk) + 2) % Words, 4)]]
        PROVE  dtr' \in [Tables -> Table]
    <3>1. Address(junk) \in Int /\ (Address(junk) + 2) % Words \in Int
      <4>1. Address(junk) \in Int
        BY ReadTypes, Wider
      <4>2. Address(junk) + 2 \in Int
        BY <4>1
      <4>3. QED
        BY <4>1, <4>2, Wrapped, Wider
    <3>2. /\ GetMemory(memory, Address(junk), 2) \in HalfWord
          /\ GetMemory(memory, (Address(junk) + 2) % Words, 4) \in Word
      BY <3>1, GetMemoryType DEF Inv, TypeOK
    <3>3. [limit |-> GetMemory(memory, Address(junk), 2),
           base |-> GetMemory(memory, (Address(junk) + 2) % Words, 4)] \in Table
      BY <3>2 DEF Table
    <3>4. dtr \in [Tables -> Table]
      BY DEF Inv, TypeOK
    <3>5. QED
      BY <3>3, <3>4, <2>2
  <2>3. QED
    BY <2>1, <2>2 DEF LoadTable
<1>3. Written
  BY NoWriteType DEF LoadTable
<1>4. QED
  BY <1>1, <1>2, <1>3 DEF Moved

LEMMA ByteTypes ==
  ASSUME Inv, MovRm8R8 \/ MovR8Rm8 \/ MovRm8Imm8 \/ SubRm8R8 PROVE Moved /\ Written
<1>1. CASE MovRm8R8
  BY <1>1, ReadTypes, SetRMTypes, OperandsType DEF MovRm8R8
<1>2. CASE MovR8Rm8
  BY <1>2, ReadTypes, SetR8Type, OperandsType DEF MovR8Rm8
<1>3. CASE MovRm8Imm8
  BY <1>3, ImmediateTypes, SetRMTypes, OperandsType DEF MovRm8Imm8
<1>4. CASE SubRm8R8
  <2>1. PICK junk \in Junk : SetRM8((RM8(junk) - R8) % Radix, junk)
    BY <1>4 DEF SubRm8R8
  <2>2. RM8(junk) \in Int /\ R8 \in Int
    BY ReadTypes, Wider
  <2>3. RM8(junk) - R8 \in Int
    BY <2>2
  <2>4. (RM8(junk) - R8) % Radix \in Byte
    BY <2>3, Wrapped
  <2>5. QED
    BY <1>4, <2>1, <2>4, SetRMTypes, OperandsType DEF SubRm8R8
<1>5. QED
  BY <1>1, <1>2, <1>3, <1>4

LEMMA Code80C0Type == ASSUME Inv, Code80C0 PROVE Moved /\ Written
<1> DEFINE x(junk) == IF Digit = 5 THEN RM8(junk) ELSE Signed(RM8(junk), Radix) % Words
           w(junk) == Alu(Shift(Digit), x(junk), CodeValue(Parsed.eip, 1)) % Radix
<1>1. CASE (Operands({\h80}, 1) \/ Operands({\h80}, 0) \/ Operands({\hC0}, 0)) /\ NoWrite
  BY <1>1, NoWriteType, OperandsType
<1>2. CASE Operands({\hC0}, 1) /\ \E junk \in Junk : SetRM8(w(junk), junk)
  <2>1. PICK junk \in Junk : SetRM8(w(junk), junk)
    BY <1>2
  <2>2. RM8(junk) \in Int /\ RM8(junk) \in Word /\ Radix \in Int
    BY ReadTypes, Wider, Sizes
  <2>3. Signed(RM8(junk), Radix) \in Int
    BY <2>2, SignedType
  <2>4. x(junk) \in Word
    BY <2>2, <2>3, Wrapped
  <2> HIDE DEF x
  <2>5. Alu(Shift(Digit), x(junk), CodeValue(Parsed.eip, 1)) \in Word
    BY <2>4, FamilyType, ImmediateTypes, AluType
  <2>6. w(junk) \in Byte
    BY <2>5, Wider, Wrapped
  <2> HIDE DEF w
  <2>7. QED
    BY <1>2, <2>1, <2>6, SetRMTypes, OperandsType
<1>3. \/ (Operands({\h80}, 1) \/ Operands({\h80}, 0) \/ Operands({\hC0}, 0)) /\ NoWrite
      \/ Operands({\hC0}, 1) /\ \E junk \in Junk : SetRM8(w(junk), junk)
  BY DEF Code80C0
<1>4. QED
  BY <1>1, <1>2, <1>3

LEMMA MovR8Imm8Type == ASSUME Inv, MovR8Imm8 PROVE Moved /\ Written
<1>1. Number \in RegNumber
  BY FetchType DEF Number, RegNumber
<1>2. QED
  BY <1>1, ImmediateTypes, SetRegister32Type, PlainType DEF MovR8Imm8, Numbered

LEMMA WriteALTypes == ASSUME Inv, MovAlMoffs8 \/ InAlDx PROVE Moved /\ Written
<1>1. \E v \in Byte : WriteAL(v)
  BY DEF MovAlMoffs8, InAlDx
<1>2. Moved
  BY PlainType DEF MovAlMoffs8, InAlDx
<1>3. QED
  BY <1>1, <1>2, WriteALType

LEMMA MovSregRm16Type == ASSUME Inv, MovSregRm16 PROVE Moved /\ Written
<1>1. PICK junk \in Junk : Digit \in SegmentRegisters /\ sreg' = [sreg EXCEPT ![Digit] = RM16(junk)]
  BY DEF MovSregRm16
<1>2. sreg' \in [SegmentRegisters -> HalfWord]
  BY <1>1, ReadTypes DEF Inv, TypeOK
<1>3. reg' \in [RegNumber -> Register] /\ memory' \in [Cells -> Byte]
  BY MirroredType DEF MovSregRm16, Inv, TypeOK
<1>4. QED
  BY <1>2, <1>3, OperandsType DEF MovSregRm16, Written

LEMMA SetnzType == ASSUME Inv, Setnz PROVE Moved /\ Written
<1>1. \A z \in {0, 1} : z \in Word
  BY Sizes DEF Word
<1>2. QED
  BY <1>1, FetchType, SetRegister32Type, OperandsType DEF Setnz

LEMMA PrefixedType == ASSUME Inv, Prefixed PROVE Moved /\ Written
<1>1. PICK junk \in Junk :
        \/ SetRM16((R16 + R16) % Half, junk)
        \/ SetRM16(R16, junk)
        \/ SetRegisters(SetRegister16(Mirrored, Digit, RM16(junk)))
        \/ Digit \in SegmentRegisters /\ SetRM16(sreg[Digit], junk)
  BY DEF Prefixed
<1>2. R16 \in HalfWord /\ RM16(junk) \in HalfWord
  BY ReadTypes
<1>3. (R16 + R16) % Half \in HalfWord
  <2>1. R16 \in Int
    BY <1>2, Wider
  <2>2. R16 + R16 \in Int
    BY <2>1
  <2>3. QED
    BY <2>2, Wrapped
<1>4. SetRegister16(Mirrored, Digit, RM16(junk)) \in [RegNumber -> Register]
  BY <1>2, FetchType, MirroredType, SetRegisterType
<1>5. Digit \in SegmentRegisters => sreg[Digit] \in HalfWord
  BY DEF Inv, TypeOK
<1>6. Written
  BY <1>1, <1>2, <1>3, <1>4, <1>5, SetRMTypes, SetRegistersType
<1>7. QED
  BY <1>6, FetchType, GotoType DEF Prefixed

LEMMA JumpTypes ==
  ASSUME Inv, NEW ops, Jump8(ops) \/ Jump32(ops)
  PROVE  Moved
<1>1. /\ HandlerEip \in Int /\ SignCode8(HandlerEip + 1) \in Int /\ Code32(HandlerEip + 1) \in Int
      /\ Fetched \in InstrData
  BY FetchType, ImmediateTypes, Wider
<1>2. /\ HandlerEip + 2 + SignCode8(HandlerEip + 1) \in Int
      /\ HandlerEip + 5 + Code32(HandlerEip + 1) \in Int
  BY <1>1
<1>3. QED
  BY <1>1, <1>2, GotoType DEF Jump8, Jump32

LEMMA CallRel32Type == ASSUME Inv, CallRel32 PROVE Moved /\ Written
<1>1. HandlerEip + 5 \in Int
  BY FetchType
<1>2. (HandlerEip + 5) % Words \in Int
  BY <1>1, Wrapped, Wider
<1>3. QED
  BY <1>2, JumpTypes, Push32Type DEF CallRel32

LEMMA StepTypes ==
  ASSUME Inv, Compare \/ CompareEax \/ TestImm \/ Jump \/ Step PROVE Moved /\ Written
<1>1. NoWrite
  BY DEF Compare, CompareEax, TestImm, Jump, Step
<1>2. Moved
  <2>1. CASE Compare \/ CompareEax \/ TestImm
    BY <2>1, OperandsType, PlainType DEF Compare, CompareEax, TestImm
  <2>2. CASE Jump
    BY <2>2, JumpTypes, PlainType DEF Jump
  <2>3. CASE Step
    <3>1. HandlerEip + 1 \in Int
      BY FetchType
    <3>2. QED
      BY <2>3, <3>1, FetchType, GotoType, PlainType DEF Step
  <2>4. QED
    BY <2>1, <2>2, <2>3
<1>3. QED
  BY <1>1, <1>2, NoWriteType

LEMMA MovRm32Imm32Type == ASSUME Inv, MovRm32Imm32 PROVE Moved /\ Written
  BY ImmediateTypes, SetRMTypes, OperandsType DEF MovRm32Imm32

LEMMA LeaType == ASSUME Inv, Lea PROVE Moved /\ Written
  BY ReadTypes, SetR32Type, OperandsType DEF Lea

LEMMA InvInit == Init => Inv
<1> SUFFICES ASSUME Init PROVE Inv
  OBVIOUS
<1>1. program \in Programs /\ eip = program.start
  BY DEF Init
<1>2. eip \in Nat
  <2>1. WellFormed(program)
    BY <1>1, ProgramsAssumption
  <2>2. eip \in 1 .. MemorySize
    BY <1>1, <2>1 DEF WellFormed
  <2>3. QED
    BY <2>2, Sizes
<1>3. reg \in [RegNumber -> Register]
  <2>1. PICK boot \in Boot :
          reg = [r \in RegNumber |-> [reg32 |-> boot[r], reg16 |-> 0, low8 |-> 0, high8 |-> 0]]
    BY DEF Init
  <2>2. \A r \in RegNumber : boot[r] \in Word
    BY StartAssumption
  <2>3. 0 \in HalfWord /\ 0 \in Byte
    BY Sizes DEF HalfWord, Byte
  <2>4. QED
    BY <2>1, <2>2, <2>3 DEF Register
<1>4. sreg \in [SegmentRegisters -> HalfWord]
  <2>1. 0 \in HalfWord
    BY Sizes DEF HalfWord
  <2>2. QED
    BY <2>1 DEF Init
<1>5. memory \in [Cells -> Byte] /\ instr \in InstrData
  BY StartAssumption DEF Init
<1>6. dtr \in [Tables -> Table]
  <2>1. Half - 1 \in HalfWord /\ 0 \in Word
    BY Sizes DEF HalfWord, Word
  <2>2. QED
    BY <2>1 DEF Init, Table
<1>7. QED
  BY <1>1, <1>2, <1>3, <1>4, <1>5, <1>6 DEF Inv, TypeOK

LEMMA InvStep == Inv /\ [Next]_vars => Inv'
<1> SUFFICES ASSUME Inv, [Next]_vars PROVE Inv'
  OBVIOUS
<1>1. CASE UNCHANGED vars
  BY <1>1 DEF Inv, TypeOK, vars
<1>2. CASE Next
  <2>1. Moved /\ Written
    BY <1>2, RmR32Type, RRm32Type, EaxImm32Type, Code81Type, Code83Type, CodeC1Type, CodeD3Type, CodeFFType,
       IdivType, MovRm32Imm32Type, LeaType, ImulType, ExtendType, Short32Type, PushImmType, Moffs32Type,
       CdqType, LoadTableType, ByteTypes, Code80C0Type, MovR8Imm8Type, WriteALTypes, MovSregRm16Type,
       SetnzType, PrefixedType, CallRel32Type, StepTypes
       DEF Next
  <2>2. QED
    BY <2>1 DEF Moved, Written, Inv, TypeOK
<1>3. QED
  BY <1>1, <1>2

LEMMA AlwaysInv == Spec => []Inv
  BY InvInit, InvStep, PTL DEF Spec

\* Registers, memory and the decoded instruction keep the widths that
\* Emulator.h gives them, whatever the program.
THEOREM TypeCorrect == Spec => []TypeOK
<1>1. Inv => TypeOK
  BY DEF Inv
<1>2. QED
  BY <1>1, AlwaysInv, PTL

-----------------------------------------------------------------------------
(***************************************************************************)
(* Decoding finds what the assembler wrote.                                *)
(***************************************************************************)
LEMMA AtItem ==
  ASSUME Inv, OnItem
  PROVE  /\ WellTyped(Item) /\ InstructionAt(program.code, eip, Item)
         /\ Successors(Item, eip) \subseteq 1 .. MemorySize
         /\ eip \in 1 .. MemorySize
  BY ProgramsAssumption DEF Inv, OnItem, Item, WellFormed, Starts

LEMMA ImmSizeType == \A op, digit : ImmSize(op, digit) \in {0, 1, 4}
  BY DEF ImmSize

LEMMA LengthTypes ==
  ASSUME Inv, OnItem
  PROVE  /\ OpcodeLength(Item) \in 1 .. 3
         /\ Item.op \in WithModRM => /\ OperandLength(Item.rm) \in 1 .. 6
                                     /\ BeforeImm(Item) = OpcodeLength(Item) + OperandLength(Item.rm)
         /\ Item.op \notin WithModRM => BeforeImm(Item) = OpcodeLength(Item)
         /\ BeforeImm(Item) \in 1 .. 9 /\ BeforeImm(Item) >= OpcodeLength(Item)
         /\ Length(Item) = BeforeImm(Item) + ImmSize(Item.op, Item.reg)
<1>1. Item.rm \in Operand
  BY AtItem DEF WellTyped
<1>2. DispLen(Item.rm) \in {0, 1, 4}
  BY <1>1 DEF DispLen, IsMem, Operand, MemoryOperand, RegisterOperand
<1>3. OperandLength(Item.rm) \in 1 .. 6
  BY <1>2 DEF OperandLength
<1>4. OpcodeLength(Item) \in 1 .. 3
  BY DEF OpcodeLength
<1>5. QED
  BY <1>3, <1>4 DEF BeforeImm, Length

\* The bytes of the instruction are in the code.
LEMMA ByteInCode ==
  ASSUME Inv, OnItem, NEW k \in 0 .. BeforeImm(Item) + ImmSize(Item.op, Item.reg) - 1
  PROVE  Code8(program.code, eip + k) = program.code[eip + k]
<1>1. eip \in Int /\ BeforeImm(Item) \in Int /\ ImmSize(Item.op, Item.reg) \in Int
  BY AtItem, LengthTypes, ImmSizeType
<1>2. eip + k \in eip .. eip + Length(Item) - 1
  BY <1>1, LengthTypes
<1>3. eip + k \in DOMAIN program.code
  BY <1>2, AtItem DEF InstructionAt
<1>4. QED
  BY <1>3 DEF Code8

LEMMA OpcodeBytes ==
  ASSUME NEW op \in Opcodes
  PROVE  /\ op \in Nat /\ op >= 1
         /\ op <= 255 /\ op \notin WithRegister => op # \h66 /\ op # \h0F
         /\ op \in WithRegister => op \in {\h40, \h48, \h50, \h58, \hB0, \hB8}
         /\ op > 255 => op \notin WithRegister
  BY DEF Opcodes, WithModRM, WithRegister, Jumps, ShortJumps, NearJumps, OneByte

LEMMA OpcodeRead ==
  ASSUME Inv, OnItem
  PROVE  /\ Prefix = IF Item.prefixed THEN 0 ELSE -1
         /\ Opcode = IF Item.op \in WithRegister THEN Item.op + Item.reg ELSE Item.op
         /\ HandlerEip + 1 = eip + OpcodeLength(Item)
<1> DEFINE i == Item
           p == IF i.prefixed THEN 1 ELSE 0
           byte == IF i.op \in WithRegister THEN i.op + i.reg ELSE i.op
<1>1. i.op \in Opcodes /\ i.reg \in 0 .. 7 /\ i.prefixed \in BOOLEAN
  BY AtItem DEF WellTyped, RegNumber
<1>2. eip \in Int /\ p \in {0, 1}
  BY AtItem
<1>3. /\ i.prefixed => program.code[eip] = \h66
      /\ i.op > 255 => program.code[eip + p] = \h0F /\ program.code[eip + p + 1] = i.op - \h0F00
      /\ ~(i.op > 255) => program.code[eip + p] = byte
  BY AtItem DEF InstructionAt
<1>4. OpcodeLength(i) = p + IF i.op > 255 THEN 2 ELSE 1
  BY DEF OpcodeLength
<1> DEFINE last == BeforeImm(i) + ImmSize(i.op, i.reg) - 1
<1>5. last \in Int /\ last >= OpcodeLength(i) - 1
  BY LengthTypes, ImmSizeType
<1> HIDE DEF last
<1>6. 0 \in 0 .. last /\ p \in 0 .. last /\ (i.op > 255 => p + 1 \in 0 .. last)
  BY <1>2, <1>4, <1>5
<1>7. /\ Code(eip) = program.code[eip]
      /\ Code(eip + p) = program.code[eip + p]
      /\ i.op > 255 => Code(eip + p + 1) = program.code[eip + p + 1]
  <2>1. \A k \in 0 .. last : Code(eip + k) = program.code[eip + k]
    BY ByteInCode DEF Code, last
  <2>2. eip + 0 = eip /\ eip + (p + 1) = eip + p + 1
    BY <1>2
  <2>3. QED
    BY <1>6, <2>1, <2>2
<1>8. i.op \in Nat
  BY <1>1, OpcodeBytes
<1>9. /\ i.op <= 255 => byte # \h66 /\ byte # \h0F
      /\ i.op > 255 => byte = i.op
  BY <1>1, <1>8, OpcodeBytes
<1> HIDE DEF byte
<1>10. Prefix = IF i.prefixed THEN 0 ELSE -1
  BY <1>1, <1>2, <1>3, <1>7, <1>8, <1>9 DEF Prefix
<1>11. OpcodeAt = eip + p
  BY <1>1, <1>2, <1>10 DEF OpcodeAt
<1>12. CASE i.op > 255
  <2>1. Code(OpcodeAt) = \h0F /\ Code(OpcodeAt + 1) = i.op - \h0F00
    BY <1>3, <1>7, <1>11, <1>12
  <2>2. Opcode = i.op /\ HandlerEip = eip + p + 1
    BY <1>8, <1>11, <2>1 DEF Opcode, HandlerEip
  <2>3. QED
    BY <1>2, <1>4, <1>9, <1>10, <1>12, <2>2 DEF byte
<1>13. CASE ~(i.op > 255)
  <2>1. Code(OpcodeAt) = byte /\ byte # \h0F
    BY <1>3, <1>7, <1>8, <1>9, <1>11, <1>13
  <2>2. Opcode = byte /\ HandlerEip = eip + p
    BY <1>11, <2>1 DEF Opcode, HandlerEip
  <2>3. QED
    BY <1>2, <1>4, <1>10, <1>13, <2>2 DEF byte
<1>14. QED
  BY <1>12, <1>13

\* The fields of a ModRM or SIB byte
LEMMA Fields ==
  ASSUME NEW m \in 0 .. 3, NEW r \in 0 .. 7, NEW k \in 0 .. 7
  PROVE  /\ (64 * m + 8 * r + k) \div 64 = m
         /\ ((64 * m + 8 * r + k) \div 8) % 8 = r
         /\ (64 * m + 8 * r + k) % 8 = k
  OBVIOUS

\* Of the operand as written: which fields it has, and that the size of its
\* displacement follows from them.
LEMMA OperandFields ==
  ASSUME NEW o \in Operand
  PROVE  /\ ModBits(o) \in 0 .. 3 /\ RmBits(o) \in 0 .. 7
         /\ HasSib(ModBits(o), RmBits(o)) <=> NeedsSib(o)
         /\ NeedsSib(o) => SibByte(o) = 64 * o.scale + 8 * (IF o.index = None THEN 4 ELSE o.index)
                                        + (IF o.base = None THEN 5 ELSE o.base)
<1>1. CASE o \in RegisterOperand
  <2>1. o.kind = "reg" /\ o.number \in 0 .. 7
    BY <1>1 DEF RegisterOperand, RegNumber
  <2>2. ~IsMem(o)
    BY <2>1 DEF IsMem
  <2>3. ModBits(o) = 3 /\ RmBits(o) = o.number /\ ~NeedsSib(o)
    BY <2>1, <2>2 DEF ModBits, RmBits, NeedsSib, IsMem
  <2>4. QED
    BY <2>1, <2>3 DEF HasSib
<1>2. CASE o \in MemoryOperand
  <2>1. IsMem(o) /\ o.base \in 0 .. 8
    BY <1>2 DEF MemoryOperand, RegNumber, None, IsMem
  <2>2. NeedsSib(o) <=> o.index # None \/ o.base = 4
    BY <2>1 DEF NeedsSib
  <2>3. ModBits(o) \in 0 .. 2
    BY <2>1 DEF ModBits
  <2>4. RmBits(o) = IF NeedsSib(o) THEN 4 ELSE IF o.base = None THEN 5 ELSE o.base
    BY <2>1 DEF RmBits, IsMem, NeedsSib
  <2>5. QED
    BY <2>1, <2>2, <2>3, <2>4 DEF HasSib, SibByte, None
<1>3. QED
  BY <1>1, <1>2 DEF Operand

LEMMA SizeFollows ==
  ASSUME NEW i, i.rm \in Operand, i.prefixed \in BOOLEAN, ParsedRight(i)
  PROVE  DispSize(IF i.prefixed THEN 0 ELSE -1, ModBits(i.rm), RmBits(i.rm)) = DispLen(i.rm)
<1> DEFINE o == i.rm
<1>1. CASE o \in RegisterOperand
  <2>1. ~IsMem(o)
    BY <1>1 DEF RegisterOperand, IsMem
  <2>2. ModBits(o) = 3 /\ DispLen(o) = 0
    BY <2>1 DEF ModBits, DispLen, IsMem
  <2>3. QED
    BY <2>2 DEF DispSize
<1>2. CASE o \in MemoryOperand
  <2>1. /\ IsMem(o) /\ o.base \in 0 .. 8 /\ o.size \in {0, 1, 4}
        /\ o.base = None => o.size = 4
        /\ o.base = 5 => o.size # 0
    BY <1>2 DEF MemoryOperand, RegNumber, None, IsMem
  <2>2. /\ ~(o.base = None /\ o.index # None)
        /\ i.prefixed => o.size # 4 /\ (o.size = 0 => NeedsSib(o) \/ o.base # 6)
    BY <2>1 DEF ParsedRight
  <2>3. NeedsSib(o) <=> o.index # None \/ o.base = 4
    BY <2>1 DEF NeedsSib
  <2>4. /\ RmBits(o) = IF NeedsSib(o) THEN 4 ELSE IF o.base = None THEN 5 ELSE o.base
        /\ DispLen(o) = o.size
    BY <2>1 DEF RmBits, DispLen, IsMem, NeedsSib
  <2>5. CASE o.base = None
    <3>1. ModBits(o) = 0 /\ RmBits(o) = 5 /\ o.size = 4 /\ ~i.prefixed
      BY <2>1, <2>2, <2>3, <2>4, <2>5 DEF ModBits, None
    <3>2. QED
      BY <3>1, <2>4 DEF DispSize
  <2>6. CASE o.base # None /\ o.size = 0
    <3>1. ModBits(o) = 0
      BY <2>1, <2>6 DEF ModBits
    <3>2. RmBits(o) # 5 /\ (i.prefixed => RmBits(o) # 6)
      BY <2>1, <2>2, <2>4, <2>6
    <3>3. QED
      BY <3>1, <3>2, <2>4, <2>6 DEF DispSize
  <2>7. CASE o.base # None /\ o.size = 1
    <3>1. ModBits(o) = 1
      BY <2>1, <2>7 DEF ModBits
    <3>2. QED
      BY <3>1, <2>4, <2>7 DEF DispSize
  <2>8. CASE o.base # None /\ o.size = 4
    <3>1. ModBits(o) = 2 /\ ~i.prefixed
      BY <2>1, <2>2, <2>8 DEF ModBits
    <3>2. QED
      BY <3>1, <2>4, <2>8 DEF DispSize
  <2>9. QED
    BY <2>1, <2>5, <2>6, <2>7, <2>8
<1>3. QED
  BY <1>1, <1>2 DEF Operand

\* ModRM::Parse finds the fields, and the displacement unless it goes wrong.
LEMMA OperandRead ==
  ASSUME Inv, OnItem, Item.op \in WithModRM
  PROVE  /\ Digit = Item.reg /\ RM = RmBits(Item.rm) /\ Parsed.instr.Mod = ModBits(Item.rm)
         /\ NeedsSib(Item.rm) => Parsed.instr.sib = SibByte(Item.rm)
         /\ ParsedRight(Item) =>
              /\ Parsed.eip = eip + BeforeImm(Item)
              /\ \A k \in 1 .. DispLen(Item.rm) : Parsed.instr.disp[k] = Item.rm.disp[k]
<1> DEFINE o == Item.rm
           a == HandlerEip + 1
           b == Code8(program.code, a)
           mod == b \div 64
           rm == b % 8
           sibs == IF HasSib(mod, rm) THEN 2 ELSE 1
           start == a + sibs
           n == DispSize(Prefix, mod, rm)
<1>1. /\ o \in Operand /\ Item.reg \in 0 .. 7 /\ Item.prefixed \in BOOLEAN
      /\ OperandAt(program.code, eip + OpcodeLength(Item), Item.reg, o)
      /\ eip \in Int
  BY AtItem DEF WellTyped, InstructionAt, RegNumber
<1>2. a = eip + OpcodeLength(Item)
  BY OpcodeRead
<1>3. /\ OpcodeLength(Item) \in 1 .. 3 /\ OperandLength(o) \in 1 .. 6
      /\ BeforeImm(Item) = OpcodeLength(Item) + OperandLength(o)
      /\ ImmSize(Item.op, Item.reg) \in Nat
  BY LengthTypes, ImmSizeType
<1>4. OperandLength(o) = 1 + (IF NeedsSib(o) THEN 1 ELSE 0) + DispLen(o) /\ DispLen(o) \in Nat
  BY <1>1 DEF OperandLength, DispLen, IsMem, Operand, MemoryOperand, RegisterOperand
<1> HIDE DEF a
<1>5. ASSUME NEW k \in 0 .. OperandLength(o) - 1
      PROVE  Code8(program.code, a + k) = program.code[a + k]
  <2>1. OpcodeLength(Item) + k \in 0 .. BeforeImm(Item) + ImmSize(Item.op, Item.reg) - 1
    BY <1>3
  <2>2. eip + (OpcodeLength(Item) + k) = a + k
    BY <1>1, <1>2, <1>3
  <2>3. QED
    BY <2>1, <2>2, ByteInCode
<1>6. b = 64 * ModBits(o) + 8 * Item.reg + RmBits(o)
  <2>1. Code8(program.code, a + 0) = program.code[a + 0]
    BY <1>3, <1>5
  <2>2. a + 0 = a
    BY <1>1, <1>2, <1>3
  <2>3. QED
    BY <1>1, <1>2, <2>1, <2>2 DEF OperandAt
<1>7. mod = ModBits(o) /\ (b \div 8) % 8 = Item.reg /\ rm = RmBits(o)
  <2> HIDE DEF b
  <2>1. ModBits(o) \in 0 .. 3 /\ RmBits(o) \in 0 .. 7
    BY <1>1, OperandFields
  <2> DEFINE m == ModBits(o)  r == Item.reg  k == RmBits(o)
  <2>2. m \in 0 .. 3 /\ r \in 0 .. 7 /\ k \in 0 .. 7
    BY <1>1, <2>1
  <2>3. b = 64 * m + 8 * r + k
    BY <1>6
  <2> HIDE DEF m, r, k
  <2>4. /\ (64 * m + 8 * r + k) \div 64 = m
        /\ ((64 * m + 8 * r + k) \div 8) % 8 = r
        /\ (64 * m + 8 * r + k) % 8 = k
    BY <2>2, Fields
  <2>5. b \div 64 = m /\ (b \div 8) % 8 = r /\ b % 8 = k
    BY <2>3, <2>4
  <2>6. QED
    BY <2>5 DEF m, r, k
<1>8. HasSib(mod, rm) <=> NeedsSib(o)
  BY <1>1, <1>7, OperandFields
<1>9. Fetched.prefix = Prefix /\ Fetched \in InstrData
  BY FetchType DEF Fetched, InstrData, Inv, TypeOK
<1>10. /\ Parsed.instr = [Fetched EXCEPT !.Mod = mod, !.reg_index = (b \div 8) % 8, !.RM = rm,
                            !.sib = IF HasSib(mod, rm) THEN Code8(program.code, a + 1) ELSE @,
                            !.disp = [k \in 1 .. 4 |-> IF k <= n THEN CodeBytes(program.code, start, n)[k]
                                                                  ELSE Fetched.disp[k]]]
       /\ Parsed.eip = start + n
  BY <1>9 DEF Parsed, Parse, a
<1> HIDE DEF mod, rm, n, start, b
<1>11. /\ Parsed.instr.Mod = mod /\ Parsed.instr.reg_index = (b \div 8) % 8 /\ Parsed.instr.RM = rm
       /\ HasSib(mod, rm) => Parsed.instr.sib = Code8(program.code, a + 1)
       /\ Parsed.instr.disp = [k \in 1 .. 4 |-> IF k <= n THEN CodeBytes(program.code, start, n)[k]
                                                          ELSE Fetched.disp[k]]
  BY <1>9, <1>10 DEF InstrData
<1>12. Digit = Item.reg /\ RM = RmBits(o) /\ Parsed.instr.Mod = ModBits(o)
  BY <1>7, <1>11 DEF Digit, RM
<1>13. NeedsSib(o) => Parsed.instr.sib = SibByte(o)
  <2> SUFFICES ASSUME NeedsSib(o) PROVE Parsed.instr.sib = SibByte(o)
    OBVIOUS
  <2>1. 1 \in 0 .. OperandLength(o) - 1
    BY <1>3, <1>4
  <2>2. Code8(program.code, a + 1) = program.code[a + 1]
    BY <1>5, <2>1
  <2>3. QED
    BY <1>1, <1>2, <1>8, <1>11, <2>2 DEF OperandAt
<1>14. ASSUME ParsedRight(Item)
       PROVE  /\ Parsed.eip = eip + BeforeImm(Item)
              /\ \A k \in 1 .. DispLen(o) : Parsed.instr.disp[k] = o.disp[k]
  <2>1. n = DispLen(o)
    BY <1>1, <1>7, <1>14, OpcodeRead, SizeFollows DEF n
  <2>2. start = a + IF NeedsSib(o) THEN 2 ELSE 1
    BY <1>8 DEF start
  <2>3. Parsed.eip = eip + BeforeImm(Item)
    BY <1>1, <1>2, <1>3, <1>4, <1>10, <2>1, <2>2
  <2>4. ASSUME NEW k \in 1 .. DispLen(o)
        PROVE  Parsed.instr.disp[k] = o.disp[k]
    <3>1. o \in MemoryOperand /\ IsMem(o) /\ DispLen(o) = o.size
      BY <1>1, <2>4 DEF DispLen, IsMem, Operand, RegisterOperand
    <3>2. k \in 1 .. 4 /\ k <= n
      BY <1>4, <2>1, <3>1 DEF MemoryOperand
    <3>3. o.disp[k] \in Byte
      BY <3>1, <3>2 DEF MemoryOperand
    <3>4. program.code[start + k - 1] = o.disp[k]
      <4>1. Matches(program.code, a + (IF NeedsSib(o) THEN 2 ELSE 1), o.size, o.disp)
        BY <1>1, <1>2, <3>1 DEF OperandAt
      <4>2. QED
        BY <2>2, <3>1, <4>1 DEF Matches
    <3>5. Code8(program.code, start + k - 1) = program.code[start + k - 1]
      <4> DEFINE j == (IF NeedsSib(o) THEN 2 ELSE 1) + k - 1
      <4>1. j \in 0 .. OperandLength(o) - 1
        BY <1>4
      <4>2. a + j = start + k - 1
        BY <1>1, <1>2, <1>3, <2>2
      <4> HIDE DEF j
      <4>3. QED
        BY <1>5, <4>1, <4>2
    <3>6. CodeBytes(program.code, start, n)[k] = o.disp[k] % Radix
      <4>1. k \in 1 .. n
        BY <2>1
      <4>2. QED
        BY <3>4, <3>5, <4>1 DEF CodeBytes
    <3>7. o.disp[k] % Radix = o.disp[k]
      BY <3>3, Sizes DEF Byte
    <3>8. QED
      BY <1>11, <3>2, <3>6, <3>7
  <2>5. QED
    BY <2>3, <2>4
<1>15. QED
  BY <1>12, <1>13, <1>14

\* Immediates are where BeforeImm says.
LEMMA ImmRead ==
  ASSUME Inv, OnItem
  PROVE  CodeValue(eip + BeforeImm(Item), ImmSize(Item.op, Item.reg)) = Imm(Item)
<1> DEFINE n == ImmSize(Item.op, Item.reg)
           a == eip + BeforeImm(Item)
<1>1. n \in {0, 1, 4} /\ BeforeImm(Item) \in Nat /\ eip \in Int
  BY ImmSizeType, LengthTypes, AtItem
<1>2. Item.imm \in [1 .. n -> Byte] /\ Matches(program.code, a, n, Item.imm)
  BY AtItem DEF WellTyped, InstructionAt
<1> HIDE DEF n, a
<1>3. ASSUME NEW k \in 1 .. n PROVE Code8(program.code, a + k - 1) % Radix = Item.imm[k]
  <2>1. BeforeImm(Item) + k - 1 \in 0 .. BeforeImm(Item) + n - 1
    BY <1>1
  <2>2. eip + (BeforeImm(Item) + k - 1) = a + k - 1
    BY <1>1 DEF a
  <2>3. Code8(program.code, a + k - 1) = program.code[a + k - 1]
    BY <2>1, <2>2, ByteInCode DEF n
  <2>4. program.code[a + k - 1] = Item.imm[k] /\ Item.imm[k] \in Byte
    BY <1>2 DEF Matches
  <2>5. QED
    BY <2>3, <2>4, Sizes DEF Byte
<1>4. CodeBytes(program.code, a, n) = Item.imm
  BY <1>2, <1>3 DEF CodeBytes
<1>5. QED
  BY <1>4 DEF CodeValue, Imm, n, a

-----------------------------------------------------------------------------
(***************************************************************************)
(* Addresses.                                                              *)
(***************************************************************************)
LEMMA DispRead ==
  ASSUME Inv, OnItem, Item.op \in WithModRM, IsMem(Item.rm), ParsedRight(Item)
  PROVE  /\ Item.rm.size = 1 => Disp8(Parsed.instr) = Disp(Item.rm)
         /\ Item.rm.size = 4 => Disp32(Parsed.instr) = Disp(Item.rm)
<1>1. \A k \in 1 .. Item.rm.size : Parsed.instr.disp[k] = Item.rm.disp[k]
  BY OperandRead DEF DispLen
<1>2. CASE Item.rm.size = 1
  <2>1. Parsed.instr.disp[1] = Item.rm.disp[1]
    BY <1>1, <1>2
  <2>2. QED
    BY <1>2, <2>1 DEF Disp8, Disp
<1>3. CASE Item.rm.size = 4
  <2>1. /\ Parsed.instr.disp[1] = Item.rm.disp[1] /\ Parsed.instr.disp[2] = Item.rm.disp[2]
        /\ Parsed.instr.disp[3] = Item.rm.disp[3] /\ Parsed.instr.disp[4] = Item.rm.disp[4]
    BY <1>1, <1>3
  <2>2. Value(Parsed.instr.disp, 4) = Value(Item.rm.disp, 4)
    BY <2>1 DEF Value
  <2>3. QED
    BY <1>3, <2>2 DEF Disp32, Disp
<1>4. QED
  BY <1>2, <1>3

LEMMA AddressRight ==
  ASSUME Inv, OnItem, Item.op \in WithModRM, IsMem(Item.rm), Addressed(Item), NEW junk \in Junk
  PROVE  Address(junk) = EffectiveAddress(Item.rm, Registers(reg))
<1> DEFINE o == Item.rm
           i == Parsed.instr
           R(r) == reg[r].reg32
           index == IF o.index = None THEN 0 ELSE R(o.index) * 2^o.scale
           base == IF i.RM = 4 THEN calc_sib(i, Mirrored, junk) ELSE Mirrored[i.RM].reg32
<1>1. /\ o \in MemoryOperand
      /\ ~(o.base = None /\ o.index # None)
      /\ ~(o.base = 4 /\ o.index # None)
      /\ ParsedRight(Item)
  BY AtItem DEF WellTyped, Operand, RegisterOperand, IsMem, Addressed, ParsedRight
<1>2. /\ o.base \in 0 .. 8 /\ o.index \in 0 .. 8 /\ o.scale \in 0 .. 3 /\ o.size \in {0, 1, 4}
      /\ o.base = None => o.size = 4
      /\ o.base = 5 => o.size # 0
      /\ o.index = None => o.scale = 0
      /\ o.index # 4
  BY <1>1 DEF MemoryOperand, RegNumber, None
<1>3. \A r \in 0 .. 7 : R(r) \in Int /\ Mirrored[r].reg32 = R(r)
  BY MirroredType, Wider DEF Inv, TypeOK, Register, RegNumber
<1>4. /\ i.RM = RmBits(o) /\ i.Mod = ModBits(o)
      /\ NeedsSib(o) => i.sib = SibByte(o)
      /\ o.size = 1 => Disp8(i) = Disp(o)
      /\ o.size = 4 => Disp32(i) = Disp(o)
  BY <1>1, OperandRead, DispRead DEF RM
<1>5. Disp(o) \in Int
  <2>1. o.disp \in [1 .. 4 -> Byte]
    BY <1>1 DEF MemoryOperand
  <2>2. o.disp[1] \in Byte /\ Value(o.disp, 4) \in Word
    BY <2>1, ValueType
  <2>3. o.disp[1] \in Int /\ Value(o.disp, 4) \in Int /\ Radix \in Int
    BY <2>2, Wider, Sizes
  <2>4. Signed(o.disp[1], Radix) \in Int
    BY <2>3, SignedType
  <2>5. QED
    BY <2>3, <2>4 DEF Disp
<1>6. index \in Int
  <2>1. o.index # None => o.index \in 0 .. 7
    BY <1>2 DEF None
  <2>2. 2^o.scale \in Int
    BY <1>2
  <2>3. QED
    BY <1>3, <2>1, <2>2
<1>7. EffectiveAddress(o, Registers(reg)) = (Disp(o) + (IF o.base = None THEN 0 ELSE R(o.base)) + index) % Words
  <2>1. \A r \in 0 .. 7 : Registers(reg)[r] = R(r)
    BY DEF Registers, RegNumber
  <2>2. /\ o.base # None => o.base \in 0 .. 7
        /\ o.index # None => o.index \in 0 .. 7
    BY <1>2 DEF None
  <2>3. QED
    BY <2>1, <2>2 DEF EffectiveAddress
<1>8. Address(junk) = (CASE i.Mod = 0 -> IF i.RM = 5 THEN Disp32(i) ELSE base
                         [] i.Mod = 1 -> base + Disp8(i)
                         [] i.Mod = 2 -> base + Disp32(i)
                         [] OTHER -> 0) % Words
  BY DEF Address, CalcMemAddr
<1>9. NeedsSib(o) <=> o.index # None \/ o.base = 4
  BY DEF NeedsSib
<1>10. RmBits(o) = IF NeedsSib(o) THEN 4 ELSE IF o.base = None THEN 5 ELSE o.base
  BY DEF RmBits
<1>11. ModBits(o) = IF o.base = None \/ o.size = 0 THEN 0 ELSE IF o.size = 1 THEN 1 ELSE 2
  BY DEF ModBits
<1> HIDE DEF R
<1>12. CASE o.base = None
  <2>1. i.RM = 5 /\ i.Mod = 0 /\ o.size = 4 /\ index = 0
    BY <1>1, <1>2, <1>4, <1>9, <1>10, <1>11, <1>12 DEF None
  <2> HIDE DEF index, base, i
  <2>2. Address(junk) = Disp(o) % Words
    BY <1>4, <1>8, <2>1
  <2>3. QED
    BY <1>5, <1>7, <1>12, <2>1, <2>2
<1>13. CASE o.base # None
  <2>1. o.base \in 0 .. 7
    BY <1>2, <1>13 DEF None
  <2>2. base = R(o.base) + index
    <3>1. CASE ~NeedsSib(o)
      <4>1. i.RM = o.base /\ o.base # 4 /\ index = 0
        BY <1>4, <1>9, <1>10, <1>13, <3>1
      <4>2. base = R(o.base)
        BY <1>3, <2>1, <4>1
      <4> HIDE DEF index, base
      <4>3. QED
        BY <1>3, <2>1, <4>1, <4>2
    <3>2. CASE NeedsSib(o)
      <4> DEFINE x == IF o.index = None THEN 4 ELSE o.index
      <4>1. x \in 0 .. 7
        BY <1>2 DEF None
      <4>2. i.RM = 4 /\ i.sib = 64 * o.scale + 8 * x + o.base
        <5>1. SibByte(o) = 64 * o.scale + 8 * x + o.base
          BY <1>13 DEF SibByte
        <5>2. QED
          BY <1>4, <1>10, <3>2, <5>1
      <4>3. i.sib \div 64 = o.scale /\ (i.sib \div 8) % 8 = x /\ i.sib % 8 = o.base
        <5> DEFINE m == o.scale  k == o.base
        <5>1. m \in 0 .. 3 /\ x \in 0 .. 7 /\ k \in 0 .. 7 /\ i.sib = 64 * m + 8 * x + k
          BY <1>2, <2>1, <4>1, <4>2
        <5> HIDE DEF x, i, m, k
        <5>2. /\ (64 * m + 8 * x + k) \div 64 = m
              /\ ((64 * m + 8 * x + k) \div 8) % 8 = x
              /\ (64 * m + 8 * x + k) % 8 = k
          BY <5>1, Fields
        <5>3. QED
          BY <5>1, <5>2 DEF m, k
      <4> DEFINE product == Mirrored[x].reg32 * 2^o.scale
                 first == CASE o.base = 5 /\ i.Mod = 0 -> Disp32(i)
                            [] o.base = 4 -> IF o.scale = 0 THEN 0 ELSE junk
                            [] OTHER -> Mirrored[o.base].reg32
      <4>4. base = first + product
        BY <4>2, <4>3 DEF calc_sib
      <4>5. CASE o.base = 4
        <5>1. x = 4 /\ o.scale = 0 /\ index = 0
          BY <1>1, <1>2, <4>5
        <5>2. first = 0
          BY <4>5, <5>1
        <5>3. product = R(4)
          <6>1. Mirrored[4].reg32 = R(4) /\ R(4) \in Int
            BY <1>3
          <6>2. product = R(4) * 2^0
            BY <5>1, <6>1
          <6>3. QED
            BY <6>1, <6>2
        <5> HIDE DEF base, first, product, index
        <5>4. QED
          BY <1>3, <4>4, <4>5, <5>1, <5>2, <5>3
      <4>6. CASE o.base # 4
        <5>1. o.index # None /\ x = o.index
          BY <1>9, <3>2, <4>6
        <5>2. product = index
          BY <1>3, <4>1, <5>1
        <5>3. i.Mod = 0 => o.base # 5
          BY <1>2, <1>4, <1>11, <1>13
        <5>4. first = R(o.base)
          BY <1>3, <2>1, <4>6, <5>3
        <5> HIDE DEF base, first, product, index
        <5>5. QED
          BY <4>4, <5>2, <5>4
      <4>7. QED
        BY <4>5, <4>6
    <3>3. QED
      BY <3>1, <3>2
  <2> HIDE DEF base, index, i
  <2>3. base \in Int
    BY <1>3, <1>6, <2>1, <2>2
  <2>4. CASE o.size = 0
    <3>1. i.Mod = 0 /\ Disp(o) = 0
      BY <1>4, <1>11, <2>4 DEF Disp
    <3>2. i.RM # 5
      BY <1>2, <1>4, <1>10, <1>13, <2>4
    <3>3. Address(junk) = base % Words
      BY <1>8, <3>1, <3>2
    <3>4. Disp(o) + R(o.base) + index = base
      BY <1>3, <1>6, <2>1, <2>2, <3>1
    <3>5. QED
      BY <1>7, <1>13, <3>3, <3>4
  <2>5. CASE o.size = 1
    <3>1. i.Mod = 1
      BY <1>4, <1>11, <1>13, <2>5
    <3>2. Address(junk) = (base + Disp(o)) % Words
      BY <1>4, <1>8, <2>5, <3>1
    <3>3. Disp(o) + R(o.base) + index = base + Disp(o)
      BY <1>3, <1>5, <1>6, <2>1, <2>2
    <3>4. QED
      BY <1>7, <1>13, <3>2, <3>3
  <2>6. CASE o.size = 4
    <3>1. i.Mod = 2
      BY <1>4, <1>11, <1>13, <2>6
    <3>2. Address(junk) = (base + Disp(o)) % Words
      BY <1>4, <1>8, <2>6, <3>1
    <3>3. Disp(o) + R(o.base) + index = base + Disp(o)
      BY <1>3, <1>5, <1>6, <2>1, <2>2
    <3>4. QED
      BY <1>7, <1>13, <3>2, <3>3
  <2>7. QED
    BY <1>2, <2>4, <2>5, <2>6
<1>14. QED
  BY <1>12, <1>13

\* Whatever instructions ran before, and whatever junk calc_sib finds, memory
\* operands are where the assembler put them.
THEOREM AddressesCorrect == Spec => []AddressAsWritten
<1>1. Inv => AddressAsWritten
  <2> SUFFICES ASSUME Inv, OnItem, Item.op \in WithModRM, IsMem(Item.rm), Addressed(Item), NEW junk \in Junk
               PROVE  Address(junk) = EffectiveAddress(Item.rm, Registers(reg))
    BY DEF AddressAsWritten
  <2>1. QED
    BY AddressRight
<1>2. QED
  BY <1>1, AlwaysInv, PTL

-----------------------------------------------------------------------------
(***************************************************************************)
(* Where EIP goes.                                                         *)
(***************************************************************************)
\* The opcode tells the instruction.
LEMMA OpcodeOfItem ==
  ASSUME Inv, OnItem
  PROVE  /\ Opcode \in \h40 .. \h47 => Item.op = \h40
         /\ Opcode \in \h48 .. \h4F => Item.op = \h48
         /\ Opcode \in \h50 .. \h57 => Item.op = \h50
         /\ Opcode \in \h58 .. \h5F => Item.op = \h58
         /\ Opcode \in \hB0 .. \hB7 => Item.op = \hB0
         /\ Opcode \in \hB8 .. \hBF => Item.op = \hB8
         /\ Opcode \notin \h40 .. \h5F \cup \hB0 .. \hBF => Item.op = Opcode
<1>1. Item.op \in Opcodes /\ Item.reg \in 0 .. 7
  BY AtItem DEF WellTyped, RegNumber
<1>2. Opcode = IF Item.op \in WithRegister THEN Item.op + Item.reg ELSE Item.op
  BY OpcodeRead
<1>3. CASE Item.op \in WithRegister
  <2>1. Item.op \in {\h40, \h48, \h50, \h58, \hB0, \hB8}
    BY <1>3 DEF WithRegister
  <2>2. Opcode = Item.op + Item.reg
    BY <1>2, <1>3
  <2>3. QED
    BY <1>1, <2>1, <2>2
<1>4. CASE Item.op \notin WithRegister
  <2>1. Opcode = Item.op
    BY <1>2, <1>4
  <2>2. Item.op \notin \h40 .. \h5F \cup \hB0 .. \hBF
    BY <1>1, <1>4 DEF Opcodes, WithModRM, WithRegister, Jumps, ShortJumps, NearJumps, OneByte
  <2>3. QED
    BY <2>1, <2>2
<1>5. QED
  BY <1>3, <1>4

LEMMA ModRMOpcodes == WithModRM \cap (\h40 .. \h5F \cup \hB0 .. \hBF) = {} /\ WithModRM \cap Jumps = {}
  BY DEF WithModRM, Jumps, ShortJumps, NearJumps

LEMMA ModRMItem ==
  ASSUME Inv, OnItem, Opcode \in WithModRM
  PROVE  Item.op = Opcode /\ Item.op \in WithModRM /\ Item.op \notin Jumps /\ Digit = Item.reg
<1>1. Item.op = Opcode
  BY OpcodeOfItem, ModRMOpcodes
<1>2. QED
  BY <1>1, ModRMOpcodes, OperandRead

\* Past the instruction.
LEMMA StepsOver ==
  ASSUME Inv, OnItem, Item.op \notin {\hE8, \hE9, \hEB}, eip' = (eip + Length(Item)) % Words
  PROVE  eip' \in Successors(Item, eip)
<1>1. eip + Length(Item) \in Successors(Item, eip)
  BY DEF Successors
<1>2. eip + Length(Item) \in 1 .. MemorySize
  BY <1>1, AtItem
<1>3. (eip + Length(Item)) % Words = eip + Length(Item)
  BY <1>2, Sizes
<1>4. QED
  BY <1>1, <1>3

LEMMA OperandsFollow ==
  ASSUME Inv, OnItem, NEW ops, NEW n \in Int, Operands(ops, n),
         ops \subseteq WithModRM, ParsedRight(Item), n = ImmSize(Opcode, Digit)
  PROVE  eip' \in Successors(Item, eip)
<1>1. Opcode \in WithModRM
  BY DEF Operands, Handler32
<1>2. Item.op = Opcode /\ Item.op \in WithModRM /\ Item.op \notin Jumps /\ Digit = Item.reg
  BY <1>1, ModRMItem
<1>3. Parsed.eip = eip + BeforeImm(Item)
  BY <1>2, OperandRead
<1>4. Length(Item) = BeforeImm(Item) + n /\ BeforeImm(Item) \in Int /\ eip \in Int
  BY <1>2, LengthTypes, AtItem
<1>5. Parsed.eip + n = eip + Length(Item)
  BY <1>3, <1>4
<1>6. eip' = (eip + Length(Item)) % Words
  BY <1>5 DEF Operands, Goto
<1>7. QED
  BY <1>2, <1>6, StepsOver DEF Jumps, ShortJumps, NearJumps

LEMMA PlainFollow ==
  ASSUME Inv, OnItem, NEW n \in Int, eip' = (HandlerEip + n) % Words,
         Item.op \notin WithModRM \cup {\hE8, \hE9, \hEB}, n = 1 + ImmSize(Item.op, Item.reg)
  PROVE  eip' \in Successors(Item, eip)
<1>1. HandlerEip + 1 = eip + OpcodeLength(Item) /\ HandlerEip \in Int
  BY OpcodeRead, FetchType
<1>2. Length(Item) = OpcodeLength(Item) + ImmSize(Item.op, Item.reg) /\ OpcodeLength(Item) \in Int /\ eip \in Int
  BY LengthTypes, AtItem
<1>3. ImmSize(Item.op, Item.reg) \in Int
  BY ImmSizeType
<1>4. HandlerEip + n = eip + Length(Item)
  BY <1>1, <1>2, <1>3
<1>5. QED
  BY <1>4, StepsOver

\* Relative addresses are counted from the next instruction.
LEMMA JumpsFollow ==
  ASSUME Inv, OnItem, Item.op \in Jumps,
         NEW n \in {1, 4}, n = ImmSize(Item.op, Item.reg),
         eip' = (HandlerEip + 1 + n + (IF n = 1 THEN SignCode8(HandlerEip + 1) ELSE Code32(HandlerEip + 1))) % Words
  PROVE  eip' \in Successors(Item, eip)
<1> DEFINE v == CodeValue(HandlerEip + 1, n)
           next == eip + Length(Item)
<1>1. HandlerEip + 1 = eip + OpcodeLength(Item) /\ HandlerEip \in Int /\ Item.op \notin WithModRM
  BY OpcodeRead, FetchType, ModRMOpcodes
<1>2. /\ BeforeImm(Item) = OpcodeLength(Item) /\ OpcodeLength(Item) \in Int /\ eip \in Int
      /\ Length(Item) = OpcodeLength(Item) + n
  BY <1>1, LengthTypes, AtItem
<1>3. v = Imm(Item)
  BY <1>1, <1>2, ImmRead
<1>4. HandlerEip + 1 + n = next /\ next \in Int
  BY <1>1, <1>2
<1>5. Words \in Nat \ {0} /\ Radix \in Int
  BY Sizes
<1>6. Target(Item, eip) = (next + SignedImm(Item)) % Words
  BY DEF Target
<1>7. eip' = Target(Item, eip)
  <2>1. CASE n = 1
    <3>1. SignCode8(HandlerEip + 1) = Signed(v, Radix) % Words /\ SignedImm(Item) = Signed(v, Radix)
      BY <1>3, <2>1 DEF SignCode8, SignedImm
    <3>2. v \in Int
      BY <2>1, ImmediateTypes, Wider
    <3>3. Signed(v, Radix) \in Int
      BY <3>2, <1>5, SignedType
    <3> DEFINE d == Signed(v, Radix)
    <3> HIDE DEF d, next
    <3>4. (next + (d % Words)) % Words = (next + d) % Words
      BY <1>4, <1>5, <3>3, RemainderOfSum DEF d
    <3>5. eip' = (next + (d % Words)) % Words
      BY <1>4, <2>1, <3>1 DEF d
    <3>6. QED
      BY <1>6, <3>1, <3>4, <3>5 DEF d
  <2>2. CASE n = 4
    <3>1. Code32(HandlerEip + 1) = v /\ SignedImm(Item) = Signed(v, Words)
      BY <1>3, <2>2 DEF Code32, SignedImm
    <3>2. v \in Int
      BY <2>2, <3>1, ImmediateTypes, Wider
    <3> HIDE DEF v, next
    <3>3. Signed(v, Words) = v \/ Signed(v, Words) = v - Words
      BY DEF Signed
    <3>4. (next + (v - Words)) % Words = (next + v) % Words
      <4> DEFINE t == next + v
      <4>1. t \in Int /\ next + (v - Words) = t - Words
        BY <1>4, <1>5, <3>2
      <4> HIDE DEF t
      <4>2. (t - Words) % Words = t % Words
        BY <4>1, <1>5, OneLess
      <4>3. QED
        BY <4>1, <4>2 DEF t
    <3>5. eip' = (next + v) % Words
      BY <1>4, <2>2, <3>1
    <3>6. QED
      BY <1>6, <3>1, <3>3, <3>4, <3>5
  <2>3. QED
    BY <2>1, <2>2
<1>8. QED
  BY <1>7 DEF Successors

\* How many bytes of immediate, by opcode and /digit.
LEMMA ImmSizes ==
  ASSUME NEW op, NEW d \in RegNumber
  PROVE  /\ op \in ShortJumps \cup {\h3C, \h6A, \h6B, \h80, \h83, \hB0, \hC0, \hC1, \hC6} => ImmSize(op, d) = 1
         /\ op \in {\hE8, \hE9} \cup Conditional32 \cup
                   {\h05, \h0D, \h25, \h2D, \h35, \h3D, \h68, \h69, \h81, \hA0, \hA1, \hA3, \hA9, \hB8, \hC7}
              => ImmSize(op, d) = 4
         /\ op \in {\h01, \h03, \h09, \h0B, \h28, \h29, \h2B, \h31, \h33, \h38, \h39, \h3A, \h3B, \h40, \h48, \h50,
                    \h58, \h84, \h85, \h88, \h89, \h8A, \h8B, \h8C, \h8D, \h8E, \h90, \h99, \hD3, \hEC, \hEE, \hFA,
                    \hFB, \hFF, \h0F01, \h0FAF, \h0FB6, \h0FB7, \h0FBE, \h0FBF} => ImmSize(op, d) = 0
         /\ op = \hF6 => ImmSize(op, d) = (IF d = 0 THEN 1 ELSE 0)
         /\ op = \hF7 => ImmSize(op, d) = (IF d = 0 THEN 4 ELSE 0)
<1>1. op \in ShortJumps \cup {\h3C, \h6A, \h6B, \h80, \h83, \hB0, \hC0, \hC1, \hC6} => ImmSize(op, d) = 1
  BY DEF ImmSize, ShortJumps, NearJumps
<1>2. op \in {\hE8, \hE9} \cup Conditional32 \cup
             {\h05, \h0D, \h25, \h2D, \h35, \h3D, \h68, \h69, \h81, \hA0, \hA1, \hA3, \hA9, \hB8, \hC7}
        => ImmSize(op, d) = 4
  BY DEF ImmSize, ShortJumps, NearJumps, Conditional32
<1>3. op \in {\h01, \h03, \h09, \h0B, \h28, \h29, \h2B, \h31, \h33, \h38, \h39, \h3A, \h3B, \h40, \h48, \h50,
              \h58, \h84, \h85, \h88, \h89, \h8A, \h8B, \h8C, \h8D, \h8E, \h90, \h99, \hD3, \hEC, \hEE, \hFA,
              \hFB, \hFF, \h0F01, \h0FAF, \h0FB6, \h0FB7, \h0FBE, \h0FBF} => ImmSize(op, d) = 0
  BY DEF ImmSize, ShortJumps, NearJumps
<1>4. op = \hF6 => ImmSize(op, d) = (IF d = 0 THEN 1 ELSE 0)
  BY DEF ImmSize, ShortJumps, NearJumps
<1>5. op = \hF7 => ImmSize(op, d) = (IF d = 0 THEN 4 ELSE 0)
  BY DEF ImmSize, ShortJumps, NearJumps
<1>6. QED
  BY <1>1, <1>2, <1>3, <1>4, <1>5

\* A handler with a ModRM byte for the opcodes in ops.
LEMMA OperandHandler ==
  ASSUME Inv, OnItem, Measured(Item), NEW ops \in SUBSET WithModRM, NEW n \in Int, Operands(ops, n),
         Opcode \in ops /\ Item.op = Opcode /\ Digit = Item.reg /\ Digit \in RegNumber => n = ImmSize(Opcode, Digit)
  PROVE  eip' \in Successors(Item, eip)
<1>1. Opcode \in ops
  BY DEF Operands, Handler32
<1>2. Item.op = Opcode /\ Item.op \in WithModRM /\ Digit = Item.reg
  BY <1>1, ModRMItem
<1>3. ParsedRight(Item)
  BY <1>2 DEF Measured
<1>4. Digit \in RegNumber
  BY FetchType
<1>5. QED
  BY <1>1, <1>2, <1>3, <1>4, OperandsFollow

\* Handlers that take a ModRM byte.
LEMMA OperandStep ==
  ASSUME Inv, OnItem, Measured(Item),
         \/ RmR32 \/ RRm32 \/ Compare \/ Code81 \/ Code83 \/ CodeC1 \/ CodeD3 \/ CodeFF \/ TestImm \/ Idiv
         \/ MovRm32Imm32 \/ Lea \/ Imul \/ Extend \/ MovRm8R8 \/ MovR8Rm8 \/ MovRm8Imm8 \/ SubRm8R8 \/ Code80C0
         \/ MovSregRm16 \/ Setnz
  PROVE  eip' \in Successors(Item, eip)
<1> DEFINE Goal == eip' \in Successors(Item, eip)
           none == {\h01, \h03, \h09, \h0B, \h28, \h29, \h2B, \h31, \h33, \h38, \h39, \h3A, \h3B, \h84, \h85, \h88,
                    \h89, \h8A, \h8B, \h8D, \h8E, \hD3, \hFF, \h0FAF, \h0FB6, \h0FB7, \h0FBE, \h0FBF}
           one  == {\h6B, \hC6}
           four == {\h69, \hC7}
<1>0. none \subseteq WithModRM /\ one \subseteq WithModRM /\ four \subseteq WithModRM
  BY DEF WithModRM
<1>1. ASSUME NEW ops \in SUBSET none, Operands(ops, 0) PROVE Goal
  <2>1. Opcode \in ops => Opcode \in none
    OBVIOUS
  <2>2. ops \in SUBSET WithModRM
    BY <1>0
  <2>3. Opcode \in none /\ Digit \in RegNumber => ImmSize(Opcode, Digit) = 0
    BY ImmSizes
  <2> HIDE DEF none
  <2>4. QED
    BY <1>1, <2>1, <2>2, <2>3, OperandHandler
<1>2. ASSUME NEW ops \in SUBSET one, Operands(ops, 1) PROVE Goal
  <2>1. Opcode \in ops => Opcode \in one
    OBVIOUS
  <2>2. ops \in SUBSET WithModRM
    BY <1>0
  <2>3. Opcode \in one /\ Digit \in RegNumber => ImmSize(Opcode, Digit) = 1
    BY ImmSizes
  <2> HIDE DEF one
  <2>4. QED
    BY <1>2, <2>1, <2>2, <2>3, OperandHandler
<1>3. ASSUME NEW ops \in SUBSET four, Operands(ops, 4) PROVE Goal
  <2>1. Opcode \in ops => Opcode \in four
    OBVIOUS
  <2>2. ops \in SUBSET WithModRM
    BY <1>0
  <2>3. Opcode \in four /\ Digit \in RegNumber => ImmSize(Opcode, Digit) = 4
    BY ImmSizes
  <2> HIDE DEF four
  <2>4. QED
    BY <1>3, <2>1, <2>2, <2>3, OperandHandler
<1>4. CASE RmR32
  BY <1>1, <1>4 DEF RmR32
<1>5. CASE RRm32
  BY <1>1, <1>5 DEF RRm32
<1>6. CASE Compare
  BY <1>1, <1>6 DEF Compare
<1>7. CASE Code81
  BY <1>7, ImmSizes, OperandHandler DEF Code81, WithModRM, Measured
<1>8. CASE Code83
  BY <1>8, ImmSizes, OperandHandler DEF Code83, WithModRM, Measured
<1>9. CASE CodeC1
  BY <1>9, ImmSizes, OperandHandler DEF CodeC1, WithModRM, Measured
<1>10. CASE CodeD3
  BY <1>1, <1>10 DEF CodeD3
<1>11. CASE CodeFF
  BY <1>1, <1>11 DEF CodeFF
<1>12. CASE TestImm
  <2>1. {\hF6} \in SUBSET WithModRM /\ {\hF7} \in SUBSET WithModRM
    BY DEF WithModRM
  <2>2. Digit \in RegNumber => /\ ImmSize(\hF6, Digit) = (IF Digit = 0 THEN 1 ELSE 0)
                               /\ ImmSize(\hF7, Digit) = (IF Digit = 0 THEN 4 ELSE 0)
    BY ImmSizes
  <2>3. CASE Operands({\hF6}, 1) /\ Digit = 0
    BY <2>1, <2>2, <2>3, OperandHandler
  <2>4. CASE Operands({\hF7}, 4) /\ Digit = 0
    <3>1. Opcode \in {\hF7} /\ Digit \in RegNumber => 4 = ImmSize(Opcode, Digit)
      BY <2>2, <2>4
    <3>2. QED
      BY <2>1, <2>4, <3>1, OperandHandler
  <2>5. CASE Operands({\hF6}, 0) /\ Digit # 0
    BY <2>1, <2>2, <2>5, OperandHandler
  <2>6. CASE Operands({\hF7}, 0) /\ Digit \in 1 .. 6
    BY <2>1, <2>2, <2>6, OperandHandler
  <2>7. QED
    BY <1>12, <2>3, <2>4, <2>5, <2>6 DEF TestImm
<1>13. CASE Idiv
  <2>1. {\hF7} \in SUBSET WithModRM /\ Operands({\hF7}, 0) /\ Digit = 7
    BY <1>13 DEF Idiv, WithModRM
  <2>2. Opcode \in {\hF7} /\ Digit \in RegNumber => 0 = ImmSize(Opcode, Digit)
    BY <2>1, ImmSizes
  <2>3. QED
    BY <2>1, <2>2, OperandHandler
<1>14. CASE MovRm32Imm32
  BY <1>3, <1>14 DEF MovRm32Imm32
<1>15. CASE Lea
  BY <1>1, <1>15 DEF Lea
<1>16. CASE Imul
  BY <1>1, <1>2, <1>3, <1>16 DEF Imul
<1>17. CASE Extend
  BY <1>1, <1>17 DEF Extend
<1>18. CASE MovRm8R8 \/ MovR8Rm8 \/ SubRm8R8 \/ MovSregRm16
  BY <1>1, <1>18 DEF MovRm8R8, MovR8Rm8, SubRm8R8, MovSregRm16
<1>19. CASE MovRm8Imm8
  BY <1>2, <1>19 DEF MovRm8Imm8
<1>20. CASE Code80C0
  <2>1. {\h80} \in SUBSET WithModRM /\ {\hC0} \in SUBSET WithModRM
    BY DEF WithModRM
  <2>2. Digit \in RegNumber => ImmSize(\h80, Digit) = 1 /\ ImmSize(\hC0, Digit) = 1
    BY ImmSizes
  <2>3. CASE Operands({\h80}, 1) /\ Digit = 7
    BY <2>1, <2>2, <2>3, OperandHandler
  <2>4. CASE Operands({\h80}, 0) /\ Digit # 7
    BY <2>1, <2>4, OperandHandler DEF Measured
  <2>5. CASE Operands({\hC0}, 1) /\ Digit \in {5, 7}
    BY <2>1, <2>2, <2>5, OperandHandler
  <2>6. CASE Operands({\hC0}, 0) /\ Digit \notin {5, 7}
    <3>1. ~(Opcode \in {\hC0} /\ Item.op = Opcode /\ Digit = Item.reg)
      BY <2>6 DEF Measured
    <3>2. QED
      BY <2>1, <2>6, <3>1, OperandHandler
  <2>7. QED
    BY <1>20, <2>3, <2>4, <2>5, <2>6 DEF Code80C0
<1>21. CASE Setnz
  <2>1. Opcode = \h0F95
    BY <1>21 DEF Setnz, Operands, Handler32
  <2>2. Item.op = \h0F95
    BY <2>1, ModRMItem DEF WithModRM
  <2>3. QED
    BY <2>2 DEF Measured
<1>22. QED
  BY <1>4, <1>5, <1>6, <1>7, <1>8, <1>9, <1>10, <1>11, <1>12, <1>13, <1>14, <1>15, <1>16, <1>17, <1>18, <1>19,
     <1>20, <1>21

-----------------------------------------------------------------------------
\* A handler without a ModRM byte, for one opcode or eight.
LEMMA PlainHandler ==
  ASSUME Inv, OnItem, NEW ops, NEW n \in Int, Plain(ops, n),
         Opcode \in ops => /\ Item.op \notin WithModRM \cup {\hE8, \hE9, \hEB}
                           /\ (Item.reg \in RegNumber => n = 1 + ImmSize(Item.op, Item.reg))
  PROVE  eip' \in Successors(Item, eip)
<1>1. Opcode \in ops /\ eip' = (HandlerEip + n) % Words
  BY DEF Plain, Handler32, Goto
<1>2. Item.reg \in RegNumber
  BY AtItem DEF WellTyped
<1>3. QED
  BY <1>1, <1>2, PlainFollow

LEMMA PlainStep ==
  ASSUME Inv, OnItem, EaxImm32 \/ CompareEax \/ Short32 \/ PushImm \/ Moffs32 \/ Cdq \/ MovR8Imm8 \/ MovAlMoffs8 \/ InAlDx
  PROVE  eip' \in Successors(Item, eip)
<1> DEFINE Goal == eip' \in Successors(Item, eip)
           NoOperand(op) == op \notin WithModRM \cup {\hE8, \hE9, \hEB}
<1>1. ASSUME NEW ops \in SUBSET {\h05, \h0D, \h25, \h2D, \h35, \h3D, \h68, \hA0, \hA1, \hA3, \hA9}, Plain(ops, 5)
      PROVE  Goal
  <2>1. ASSUME Opcode \in ops PROVE Item.op = Opcode /\ NoOperand(Opcode)
    BY <2>1, OpcodeOfItem DEF WithModRM
  <2>2. ASSUME Opcode \in ops PROVE Item.reg \in RegNumber => 5 = 1 + ImmSize(Opcode, Item.reg)
    <3>1. Opcode \in {\h05, \h0D, \h25, \h2D, \h35, \h3D, \h68, \hA0, \hA1, \hA3, \hA9}
      BY <2>2
    <3>2. QED
      BY <3>1, ImmSizes
  <2>3. QED
    BY <1>1, <2>1, <2>2, PlainHandler
<1>2. ASSUME NEW ops \in SUBSET {\h3C, \h6A}, Plain(ops, 2)
      PROVE  Goal
  <2>1. ASSUME Opcode \in ops PROVE Item.op = Opcode /\ NoOperand(Opcode)
    BY <2>1, OpcodeOfItem DEF WithModRM
  <2>2. ASSUME Opcode \in ops PROVE Item.reg \in RegNumber => 2 = 1 + ImmSize(Opcode, Item.reg)
    <3>1. Opcode \in {\h3C, \h6A}
      BY <2>2
    <3>2. QED
      BY <3>1, ImmSizes
  <2>3. QED
    BY <1>2, <2>1, <2>2, PlainHandler
<1>3. ASSUME NEW ops \in SUBSET {\h99, \hEC}, Plain(ops, 1)
      PROVE  Goal
  <2>1. ASSUME Opcode \in ops PROVE Item.op = Opcode /\ NoOperand(Opcode)
    BY <2>1, OpcodeOfItem DEF WithModRM
  <2>2. ASSUME Opcode \in ops PROVE Item.reg \in RegNumber => 1 = 1 + ImmSize(Opcode, Item.reg)
    <3>1. Opcode \in {\h99, \hEC}
      BY <2>2
    <3>2. QED
      BY <3>1, ImmSizes
  <2>3. QED
    BY <1>3, <2>1, <2>2, PlainHandler
<1>4. ASSUME NEW op \in {\h40, \h48, \h50, \h58}, Numbered(op, 1)
      PROVE  Goal
  <2>1. ASSUME Opcode \in op .. op + 7 PROVE Item.op = op
    BY <2>1, OpcodeOfItem
  <2>2. NoOperand(op)
    BY DEF WithModRM
  <2>3. Item.reg \in RegNumber => 1 = 1 + ImmSize(op, Item.reg)
    BY ImmSizes
  <2>4. QED
    BY <1>4, <2>1, <2>2, <2>3, PlainHandler DEF Numbered
<1>5. ASSUME Numbered(\hB8, 5) PROVE Goal
  <2>1. ASSUME Opcode \in \hB8 .. \hB8 + 7 PROVE Item.op = \hB8
    BY <2>1, OpcodeOfItem
  <2>2. NoOperand(\hB8)
    BY DEF WithModRM
  <2>3. QED
    BY <1>5, <2>1, <2>2, ImmSizes, PlainHandler DEF Numbered
<1>6. ASSUME Numbered(\hB0, 2) PROVE Goal
  <2>1. ASSUME Opcode \in \hB0 .. \hB0 + 7 PROVE Item.op = \hB0
    BY <2>1, OpcodeOfItem
  <2>2. NoOperand(\hB0)
    BY DEF WithModRM
  <2>3. QED
    BY <1>6, <2>1, <2>2, ImmSizes, PlainHandler DEF Numbered
<1>7. CASE EaxImm32
  BY <1>1, <1>7 DEF EaxImm32
<1>8. CASE CompareEax
  BY <1>1, <1>2, <1>8 DEF CompareEax
<1>9. CASE Short32
  BY <1>4, <1>5, <1>9 DEF Short32
<1>10. CASE PushImm
  BY <1>1, <1>2, <1>10 DEF PushImm
<1>11. CASE Moffs32
  BY <1>1, <1>11 DEF Moffs32
<1>12. CASE Cdq \/ InAlDx
  BY <1>3, <1>12 DEF Cdq, InAlDx
<1>13. CASE MovR8Imm8
  BY <1>6, <1>13 DEF MovR8Imm8
<1>14. CASE MovAlMoffs8
  BY <1>1, <1>14 DEF MovAlMoffs8
<1>15. QED
  BY <1>7, <1>8, <1>9, <1>10, <1>11, <1>12, <1>13, <1>14

-----------------------------------------------------------------------------
LEMMA JumpStep ==
  ASSUME Inv, OnItem, Jump
  PROVE  eip' \in Successors(Item, eip)
<1> DEFINE Goal == eip' \in Successors(Item, eip)
<1>0. Item.reg \in RegNumber /\ HandlerEip \in Int
  BY AtItem, FetchType DEF WellTyped
<1>1. CASE Jump8(Conditional8 \cup {\hEB})
  <2>1. Opcode \in Conditional8 \cup {\hEB} /\ eip' = (HandlerEip + 2 + SignCode8(HandlerEip + 1)) % Words
    BY <1>1 DEF Jump8, Handler32, Goto
  <2>2. Opcode \notin \h40 .. \h5F \cup \hB0 .. \hBF
    BY <2>1 DEF Conditional8
  <2>3. Item.op = Opcode
    BY <2>2, OpcodeOfItem
  <2>4. Item.op \in ShortJumps /\ Item.op \in Jumps
    BY <2>1, <2>3 DEF Conditional8, ShortJumps, Jumps
  <2>5. 1 = ImmSize(Item.op, Item.reg)
    BY <1>0, <2>4, ImmSizes
  <2>6. HandlerEip + 1 + 1 = HandlerEip + 2
    BY <1>0
  <2>7. QED
    BY <2>1, <2>4, <2>5, <2>6, JumpsFollow
<1>2. CASE Jump32(Conditional32 \cup {\hE9})
  <2>1. Opcode \in Conditional32 \cup {\hE9} /\ eip' = (HandlerEip + 5 + Code32(HandlerEip + 1)) % Words
    BY <1>2 DEF Jump32, Handler32, Goto
  <2>2. Opcode \notin \h40 .. \h5F \cup \hB0 .. \hBF
    BY <2>1 DEF Conditional32
  <2>3. Item.op = Opcode
    BY <2>2, OpcodeOfItem
  <2>4. Item.op \in Conditional32 \cup {\hE9} /\ Item.op \in Jumps
    BY <2>1, <2>3 DEF Conditional32, NearJumps, Jumps
  <2>5. 4 = ImmSize(Item.op, Item.reg)
    BY <1>0, <2>4, ImmSizes
  <2>6. HandlerEip + 1 + 4 = HandlerEip + 5
    BY <1>0
  <2>7. QED
    BY <2>1, <2>4, <2>5, <2>6, JumpsFollow
<1>3. CASE Plain(Conditional8, 2)
  <2>1. ASSUME Opcode \in Conditional8
        PROVE  Item.op = Opcode /\ Opcode \in ShortJumps /\ Opcode \notin WithModRM \cup {\hE8, \hE9, \hEB}
    <3>1. Opcode \notin \h40 .. \h5F \cup \hB0 .. \hBF
      BY <2>1 DEF Conditional8
    <3>2. QED
      BY <2>1, <3>1, OpcodeOfItem DEF Conditional8, ShortJumps, WithModRM
  <2>2. ASSUME Opcode \in Conditional8 PROVE 2 = 1 + ImmSize(Item.op, Item.reg)
    BY <1>0, <2>1, <2>2, ImmSizes
  <2>3. QED
    BY <1>3, <2>1, <2>2, PlainHandler
<1>4. CASE Plain(Conditional32, 5)
  <2>1. ASSUME Opcode \in Conditional32
        PROVE  Item.op = Opcode /\ Opcode \notin WithModRM \cup {\hE8, \hE9, \hEB}
    <3>1. Opcode \notin \h40 .. \h5F \cup \hB0 .. \hBF
      BY <2>1 DEF Conditional32
    <3>2. QED
      BY <2>1, <3>1, OpcodeOfItem DEF Conditional32, WithModRM
  <2>2. ASSUME Opcode \in Conditional32 PROVE 5 = 1 + ImmSize(Item.op, Item.reg)
    BY <1>0, <2>1, <2>2, ImmSizes
  <2>3. QED
    BY <1>4, <2>1, <2>2, PlainHandler
<1>5. QED
  BY <1>1, <1>2, <1>3, <1>4 DEF Jump

LEMMA CallStep ==
  ASSUME Inv, OnItem, CallRel32
  PROVE  eip' \in Successors(Item, eip)
<1>1. Opcode = \hE8 /\ eip' = (HandlerEip + 5 + Code32(HandlerEip + 1)) % Words
  BY DEF CallRel32, Jump32, Handler32, Goto
<1>2. Item.op = \hE8 /\ Item.op \in Jumps
  BY <1>1, OpcodeOfItem DEF NearJumps, Jumps
<1>3. 4 = ImmSize(Item.op, Item.reg)
  BY <1>2, AtItem, ImmSizes DEF WellTyped
<1>4. HandlerEip + 1 + 4 = HandlerEip + 5
  BY FetchType
<1>5. QED
  BY <1>1, <1>2, <1>3, <1>4, JumpsFollow

\* nop, out, cli, sti
LEMMA StepStep ==
  ASSUME Inv, OnItem, Step
  PROVE  eip' \in Successors(Item, eip)
<1>1. Opcode \in {\h90, \hEE, \hFA, \hFB} /\ eip' = (HandlerEip + 1) % Words
  BY DEF Step, Plain, Handler32, Handler16, Goto
<1>2. Item.op = Opcode
  BY <1>1, OpcodeOfItem
<1>3. Item.op \notin WithModRM \cup {\hE8, \hE9, \hEB}
  BY <1>1, <1>2 DEF WithModRM
<1>4. 0 = ImmSize(Item.op, Item.reg)
  <2>1. Item.reg \in RegNumber /\ Item.op \in {\h90, \hEE, \hFA, \hFB}
    BY <1>1, <1>2, AtItem DEF WellTyped
  <2>2. QED
    BY <2>1, ImmSizes
<1>5. 1 \in Int /\ 1 = 1 + ImmSize(Item.op, Item.reg)
  BY <1>4
<1>6. QED
  BY <1>1, <1>3, <1>5, PlainFollow

\* lgdt and lidt, and the instructions after a prefix, go on where Parse stops.
LEMMA ParsedStep ==
  ASSUME Inv, OnItem, Measured(Item), LoadTable \/ Prefixed
  PROVE  eip' \in Successors(Item, eip)
<1>1. Opcode \in {\h01, \h89, \h8B, \h8C, \h0F01}
  BY DEF LoadTable, Prefixed, Handler32, Handler16
<1>2. Parsed.eip \in Int /\ Parsed.eip + 0 = Parsed.eip
  BY FetchType
<1>3. eip' = Parsed.eip % Words
  BY <1>2 DEF LoadTable, Prefixed, Goto
<1>4. Item.op = Opcode /\ Item.op \in WithModRM /\ Item.op \notin Jumps /\ Digit = Item.reg
  BY <1>1, ModRMItem DEF WithModRM
<1>5. Parsed.eip = eip + BeforeImm(Item)
  BY <1>4, OperandRead DEF Measured
<1>6. ImmSize(Item.op, Item.reg) = 0
  <2>1. Item.reg \in RegNumber /\ Item.op \in {\h01, \h89, \h8B, \h8C, \h0F01}
    BY <1>1, <1>4, AtItem DEF WellTyped
  <2>2. QED
    BY <2>1, ImmSizes
<1>7. Length(Item) = BeforeImm(Item) + ImmSize(Item.op, Item.reg) /\ BeforeImm(Item) \in Int
  BY LengthTypes, AtItem
<1>8. Length(Item) = BeforeImm(Item)
  BY <1>6, <1>7
<1>9. eip' = (eip + Length(Item)) % Words
  BY <1>3, <1>5, <1>8
<1>10. QED
  BY <1>4, <1>9, StepsOver DEF Jumps, ShortJumps, NearJumps

LEMMA FollowStep ==
  ASSUME Inv, OnItem, Measured(Item), Next
  PROVE  eip' \in Successors(Item, eip)
<1>1. CASE \/ RmR32 \/ RRm32 \/ Compare \/ Code81 \/ Code83 \/ CodeC1 \/ CodeD3 \/ CodeFF \/ TestImm \/ Idiv
           \/ MovRm32Imm32 \/ Lea \/ Imul \/ Extend \/ MovRm8R8 \/ MovR8Rm8 \/ MovRm8Imm8 \/ SubRm8R8 \/ Code80C0
           \/ MovSregRm16 \/ Setnz
  BY <1>1, OperandStep
<1>2. CASE EaxImm32 \/ CompareEax \/ Short32 \/ PushImm \/ Moffs32 \/ Cdq \/ MovR8Imm8 \/ MovAlMoffs8 \/ InAlDx
  BY <1>2, PlainStep
<1>3. CASE LoadTable \/ Prefixed
  BY <1>3, ParsedStep
<1>4. CASE Jump
  BY <1>4, JumpStep
<1>5. CASE CallRel32
  BY <1>5, CallStep
<1>6. CASE Step
  BY <1>6, StepStep
<1>7. QED
  BY <1>1, <1>2, <1>3, <1>4, <1>5, <1>6 DEF Next

\* For every guest, whatever its data: the program counter stays on the listing
\* wherever instructions are of the forms in Measured.
THEOREM ListingFollowed == Spec => FollowsListing
<1>1. Inv /\ [Next]_vars => [OnItem /\ Measured(Item) => eip' \in Successors(Item, eip)]_vars
  <2> SUFFICES ASSUME Inv, [Next]_vars, OnItem, Measured(Item), vars' # vars
               PROVE  eip' \in Successors(Item, eip)
    OBVIOUS
  <2>1. QED
    BY FollowStep
<1>2. QED
  BY <1>1, AlwaysInv, PTL DEF Spec, FollowsListing

-----------------------------------------------------------------------------
(***************************************************************************)
(* What instructions do.  GuestState is what the guest sees of registers   *)
(* and memory; a step Leaves what it has become.                           *)
(***************************************************************************)
GuestState == [R |-> Registers(reg), mem |-> memory]
Leaves(s) == [R |-> Registers(reg'), mem |-> memory'] = s

LEMMA StateFacts ==
  ASSUME Inv
  PROVE  /\ GuestState.R = Registers(reg) /\ GuestState.mem = memory
         /\ Registers(Mirrored) = Registers(reg)
         /\ \A r \in RegNumber : /\ GuestState.R[r] = Mirrored[r].reg32
                                 /\ GuestState.R[r] \in Word /\ GuestState.R[r] \in Int
<1>1. Registers(Mirrored) = Registers(reg)
  BY MirroredType DEF Registers
<1>2. \A r \in RegNumber : Mirrored[r].reg32 \in Word /\ Mirrored[r].reg32 \in Int
  BY Mirrored32
<1>3. \A r \in RegNumber : Registers(Mirrored)[r] = Mirrored[r].reg32
  BY DEF Registers
<1>4. QED
  BY <1>1, <1>2, <1>3 DEF GuestState

LEMMA RegistersAfter ==
  ASSUME NEW f \in [RegNumber -> Register], NEW r \in RegNumber
  PROVE  /\ \A w : Registers(SetRegister32(f, r, w)) = [Registers(f) EXCEPT ![r] = w]
         /\ \A v : Registers(SetRegister8(f, r, v)) = Registers(f)
         /\ \A v : Registers(SetRegister16(f, r, v)) = Registers(f)
<1>1. \A w : Registers(SetRegister32(f, r, w)) = [Registers(f) EXCEPT ![r] = w]
  BY DEF Registers, SetRegister32, Register
<1>2. \A v : Registers(SetRegister8(f, r, v)) = Registers(f)
  <2>1. r < 4 \/ r - 4 \in RegNumber
    BY DEF RegNumber
  <2>2. QED
    BY <2>1 DEF Registers, SetRegister8, Register
<1>3. \A v : Registers(SetRegister16(f, r, v)) = Registers(f)
  BY DEF Registers, SetRegister16, Register
<1>4. QED
  BY <1>1, <1>2, <1>3

LEMMA StateAfter ==
  ASSUME NEW f, NEW m
  PROVE  /\ \A r, w : SetReg(r, w, [R |-> f, mem |-> m]) = [R |-> [f EXCEPT ![r] = w], mem |-> m]
         /\ \A a, w, n : Store(a, w, n, [R |-> f, mem |-> m])
                           = [R |-> f, mem |-> SetMemory(m, a, Bytes(w, n), n)]
  BY DEF SetReg, Store

LEMMA NothingDone == ASSUME Inv, NoWrite PROVE Leaves(GuestState)
  BY StateFacts DEF NoWrite, SetRegisters, Leaves, GuestState

LEMMA RegisterSet ==
  ASSUME Inv, NEW r \in RegNumber, NEW w, SetRegisters(SetRegister32(Mirrored, r, w))
  PROVE  Leaves(SetReg(r, w, GuestState))
<1>1. reg' = SetRegister32(Mirrored, r, w) /\ memory' = memory
  BY DEF SetRegisters
<1>2. Registers(reg') = [Registers(reg) EXCEPT ![r] = w]
  BY <1>1, MirroredType, RegistersAfter, StateFacts
<1>3. SetReg(r, w, GuestState) = [R |-> [Registers(reg) EXCEPT ![r] = w], mem |-> memory]
  BY StateAfter DEF GuestState
<1>4. QED
  BY <1>1, <1>2, <1>3 DEF Leaves

\* Two registers, the second one written last.
LEMMA TwoRegistersSet ==
  ASSUME Inv, NEW p \in RegNumber, NEW r \in RegNumber, NEW v \in Word, NEW w,
         SetRegisters(SetRegister32(SetRegister32(Mirrored, p, v), r, w))
  PROVE  Leaves(SetReg(r, w, SetReg(p, v, GuestState)))
<1>1. reg' = SetRegister32(SetRegister32(Mirrored, p, v), r, w) /\ memory' = memory
  BY DEF SetRegisters
<1> DEFINE f == SetRegister32(Mirrored, p, v)
<1>2. f \in [RegNumber -> Register]
  BY MirroredType, SetRegisterType
<1>3. Registers(f) = [Registers(reg) EXCEPT ![p] = v]
  BY MirroredType, RegistersAfter, StateFacts
<1>4. reg' = SetRegister32(f, r, w)
  BY <1>1
<1> HIDE DEF f
<1>5. Registers(reg') = [Registers(f) EXCEPT ![r] = w]
  BY <1>2, <1>4, RegistersAfter
<1>6. SetReg(p, v, GuestState) = [R |-> Registers(f), mem |-> memory]
  BY <1>3, StateAfter DEF GuestState
<1>7. SetReg(r, w, SetReg(p, v, GuestState)) = [R |-> [Registers(f) EXCEPT ![r] = w], mem |-> memory]
  BY <1>6, StateAfter
<1>8. QED
  BY <1>1, <1>5, <1>7 DEF Leaves

LEMMA MemorySet ==
  ASSUME Inv, NEW a, NEW w, NEW n, SetMem(a, w, n)
  PROVE  Leaves(Store(a, w, n, GuestState))
<1>1. Registers(reg') = Registers(reg) /\ memory' = SetMemory(memory, a, Bytes(w, n), n)
  BY StateFacts DEF SetMem
<1>2. Store(a, w, n, GuestState) = [R |-> Registers(reg), mem |-> SetMemory(memory, a, Bytes(w, n), n)]
  BY StateAfter DEF GuestState
<1>3. QED
  BY <1>1, <1>2 DEF Leaves

LEMMA WordPushed ==
  ASSUME Inv, NEW w, Push32(w)
  PROVE  Leaves(Pushed(w, GuestState))
<1> DEFINE esp == (Mirrored[4].reg32 - 4) % Words
<1>0. 4 \in RegNumber
  BY DEF RegNumber
<1>1. esp = (GuestState.R[4] - 4) % Words
  BY <1>0, StateFacts
<1> HIDE DEF esp
<1>2. reg' = SetRegister32(Mirrored, 4, esp) /\ memory' = SetMemory(memory, esp, Bytes(w, 4), 4)
  BY DEF Push32, esp
<1>3. Registers(reg') = [Registers(reg) EXCEPT ![4] = esp]
  BY <1>0, <1>2, MirroredType, RegistersAfter, StateFacts
<1>4. Pushed(w, GuestState) = Store(esp, w, 4, SetReg(4, esp, GuestState))
  BY <1>1 DEF Pushed
<1> DEFINE f == [Registers(reg) EXCEPT ![4] = esp]
<1>5. SetReg(4, esp, GuestState) = [R |-> f, mem |-> memory]
  BY StateAfter DEF GuestState
<1> HIDE DEF f
<1>6. Store(esp, w, 4, [R |-> f, mem |-> memory]) = [R |-> f, mem |-> SetMemory(memory, esp, Bytes(w, 4), 4)]
  BY StateAfter
<1>7. QED
  BY <1>2, <1>3, <1>4, <1>5, <1>6 DEF Leaves, f

-----------------------------------------------------------------------------
\* What a handler finds where the instruction names it.
LEMMA OperandPlace ==
  ASSUME Inv, OnItem, Item.op \in WithModRM, Addressed(Item), NEW junk \in Junk
  PROVE  /\ IsMem(Item.rm) => ~InRegister /\ Address(junk) = At(Item.rm, GuestState)
         /\ ~IsMem(Item.rm) => InRegister /\ RM = Item.rm.number /\ Item.rm.number \in RegNumber
<1>1. RM = RmBits(Item.rm) /\ Parsed.instr.Mod = ModBits(Item.rm)
  BY OperandRead
<1>2. Item.rm \in Operand
  BY AtItem DEF WellTyped
<1>3. CASE IsMem(Item.rm)
  <2>1. ~InRegister
    BY <1>1, <1>3 DEF InRegister, ModBits
  <2>2. Address(junk) = At(Item.rm, GuestState)
    BY <1>3, AddressRight, StateFacts DEF At
  <2>3. QED
    BY <1>3, <2>1, <2>2
<1>4. CASE ~IsMem(Item.rm)
  <2>1. InRegister /\ RM = Item.rm.number
    BY <1>1, <1>4 DEF InRegister, ModBits, RmBits
  <2>2. Item.rm \in RegisterOperand
    BY <1>2, <1>4 DEF Operand, MemoryOperand, IsMem
  <2>3. QED
    BY <1>4, <2>1, <2>2 DEF RegisterOperand
<1>5. QED
  BY <1>3, <1>4

LEMMA WordRead ==
  ASSUME Inv, OnItem, Item.op \in WithModRM, Addressed(Item), NEW junk \in Junk
  PROVE  RM32(junk) = Read(Item.rm, 4, GuestState)
<1>1. CASE IsMem(Item.rm)
  BY <1>1, OperandPlace, StateFacts DEF RM32, Read
<1>2. CASE ~IsMem(Item.rm)
  <2>1. InRegister /\ RM = Item.rm.number /\ RM \in RegNumber
    BY <1>2, OperandPlace
  <2>2. RM32(junk) = GuestState.R[RM] /\ GuestState.R[RM] \in Word
    BY <2>1, StateFacts DEF RM32
  <2>3. GuestState.R[RM] % Words = GuestState.R[RM]
    BY <2>2, Sizes DEF Word
  <2>4. Read(Item.rm, 4, GuestState) = GuestState.R[RM] % Words
    BY <1>2, <2>1 DEF Read
  <2>5. QED
    BY <2>2, <2>3, <2>4
<1>3. QED
  BY <1>1, <1>2

\* The registers that have copies.
LEMMA Copies ==
  ASSUME Inv, NEW r \in {0, 1, 2}
  PROVE  /\ r \in RegNumber
         /\ GetRegister8(Mirrored, r) = GuestState.R[r] % Radix
         /\ Mirrored[r].low8 = GuestState.R[r] % Radix
         /\ Mirrored[r].reg16 = GuestState.R[r] % Half
<1>1. r \in RegNumber /\ r < 4
  BY DEF RegNumber
<1>2. /\ Mirrored[r].low8 = reg[r].reg32 % Radix /\ Mirrored[r].reg16 = reg[r].reg32 % Half
      /\ Mirrored[r].reg32 = reg[r].reg32
  BY <1>1 DEF Mirrored
<1>3. GuestState.R[r] = reg[r].reg32
  BY <1>1, <1>2, StateFacts
<1>4. QED
  BY <1>1, <1>2, <1>3 DEF GetRegister8

LEMMA ByteRead ==
  ASSUME Inv, OnItem, Item.op \in WithModRM, Addressed(Item), Source8(Item), NEW junk \in Junk
  PROVE  /\ RM8(junk) = Read(Item.rm, 1, GuestState)
         /\ RM16(junk) = Read(Item.rm, 2, GuestState)
<1>1. CASE IsMem(Item.rm)
  BY <1>1, OperandPlace, StateFacts DEF RM8, RM16, Read
<1>2. CASE ~IsMem(Item.rm)
  <2>1. InRegister /\ RM = Item.rm.number /\ RM \in {0, 1, 2}
    BY <1>2, OperandPlace DEF Source8
  <2>2. RM8(junk) = GuestState.R[RM] % Radix /\ RM16(junk) = GuestState.R[RM] % Half
    BY <2>1, Copies DEF RM8, RM16
  <2>3. /\ Read(Item.rm, 1, GuestState) = GuestState.R[RM] % Radix
        /\ Read(Item.rm, 2, GuestState) = GuestState.R[RM] % Half
    BY <1>2, <2>1 DEF Read
  <2>4. QED
    BY <2>2, <2>3
<1>3. QED
  BY <1>1, <1>2

\* The register that a ModRM byte names besides.
LEMMA RegisterRead ==
  ASSUME Inv, OnItem, Item.op \in WithModRM
  PROVE  /\ Digit = Item.reg /\ Item.reg \in RegNumber
         /\ R32 = GuestState.R[Item.reg]
         /\ Item.reg \in {0, 1, 2} => /\ R8 = GuestState.R[Item.reg] % Radix
                                      /\ R16 = GuestState.R[Item.reg] % Half
<1>1. Digit = Item.reg /\ Digit \in RegNumber
  BY OperandRead, FetchType
<1>2. R32 = GuestState.R[Item.reg]
  BY <1>1, StateFacts DEF R32
<1>3. ASSUME Item.reg \in {0, 1, 2}
      PROVE  R8 = GuestState.R[Item.reg] % Radix /\ R16 = GuestState.R[Item.reg] % Half
  BY <1>1, <1>3, Copies DEF R8, R16
<1>4. QED
  BY <1>1, <1>2, <1>3

\* Writing the operand.
LEMMA OperandWritten ==
  ASSUME Inv, OnItem, Item.op \in WithModRM, Addressed(Item), NEW junk \in Junk, NEW w
  PROVE  /\ SetRM32(w, junk) => Leaves(Write(Item.rm, w, 4, GuestState))
         /\ IsMem(Item.rm) /\ SetRM16(w, junk) => Leaves(Write(Item.rm, w, 2, GuestState))
         /\ IsMem(Item.rm) /\ SetRM8(w, junk) => Leaves(Write(Item.rm, w, 1, GuestState))
<1>1. CASE IsMem(Item.rm)
  <2>1. ~InRegister /\ Address(junk) = At(Item.rm, GuestState)
    BY <1>1, OperandPlace
  <2>2. \A n : Write(Item.rm, w, n, GuestState) = Store(Address(junk), w, n, GuestState)
    BY <1>1, <2>1 DEF Write
  <2>3. \A n : SetMem(Address(junk), w, n) => Leaves(Store(Address(junk), w, n, GuestState))
    BY MemorySet
  <2>4. /\ SetRM32(w, junk) => SetMem(Address(junk), w, 4)
        /\ SetRM16(w, junk) => SetMem(Address(junk), w, 2)
        /\ SetRM8(w, junk) => SetMem(Address(junk), w, 1)
    BY <2>1 DEF SetRM32, SetRM16, SetRM8
  <2>5. QED
    BY <2>2, <2>3, <2>4
<1>2. CASE ~IsMem(Item.rm)
  <2>1. InRegister /\ RM = Item.rm.number /\ RM \in RegNumber
    BY <1>2, OperandPlace
  <2>2. SetRM32(w, junk) => SetRegisters(SetRegister32(Mirrored, RM, w))
    BY <2>1 DEF SetRM32
  <2>3. SetRM32(w, junk) => Leaves(SetReg(RM, w, GuestState))
    BY <2>1, <2>2, RegisterSet
  <2>4. QED
    BY <1>2, <2>1, <2>3 DEF Write
<1>3. QED
  BY <1>1, <1>2

LEMMA SignedWord ==
  ASSUME NEW v \in Word
  PROVE  Signed(v, Words) % Words = v
<1>1. v \in Int /\ Words \in Nat \ {0} /\ v % Words = v
  BY Wider, Sizes DEF Word
<1>2. (v - Words) % Words = v
  BY <1>1, OneLess
<1>3. QED
  BY <1>1, <1>2 DEF Signed

\* Immediates behind a ModRM byte and behind an opcode.
LEMMA Immediates ==
  ASSUME Inv, OnItem, Measured(Item)
  PROVE  /\ ImmSize(Item.op, Item.reg) = 1 => Imm(Item) \in Byte
         /\ Item.op \in WithModRM =>
              /\ ImmSize(Item.op, Item.reg) = 4 => Immediate32 = SignedImm(Item) % Words
              /\ ImmSize(Item.op, Item.reg) = 1 =>
                   CodeValue(Parsed.eip, 1) = Imm(Item) /\ Immediate8 = SignedImm(Item) % Words
         /\ Item.op \notin WithModRM =>
              /\ ImmSize(Item.op, Item.reg) = 4 => Code32(HandlerEip + 1) = SignedImm(Item) % Words
              /\ ImmSize(Item.op, Item.reg) = 1 => CodeValue(HandlerEip + 1, 1) = Imm(Item)
<1> DEFINE n == ImmSize(Item.op, Item.reg)
           a == eip + BeforeImm(Item)
<1>1. CodeValue(a, n) = Imm(Item)
  BY ImmRead
<1>2. a \in Int
  BY AtItem, LengthTypes
<1>3. Item.op \in WithModRM => Parsed.eip = a
  BY OperandRead DEF Measured
<1>4. Item.op \notin WithModRM => HandlerEip + 1 = a
  BY OpcodeRead, LengthTypes
<1> HIDE DEF n, a
<1>5. CASE n = 4
  <2>1. Code32(a) = Imm(Item) /\ Imm(Item) \in Word
    BY <1>1, <1>2, <1>5, CodeValueType DEF Code32
  <2>2. SignedImm(Item) = Signed(Imm(Item), Words)
    BY <1>5 DEF SignedImm, n
  <2>3. Code32(a) = SignedImm(Item) % Words
    BY <2>1, <2>2, SignedWord
  <2>4. QED
    BY <1>3, <1>4, <1>5, <2>3 DEF Immediate32, n
<1>6. CASE n = 1
  <2>1. CodeValue(a, 1) = Imm(Item) /\ Imm(Item) \in Byte
    BY <1>1, <1>2, <1>6, CodeValueType
  <2>2. SignedImm(Item) = Signed(Imm(Item), Radix)
    BY <1>6 DEF SignedImm, n
  <2>3. SignCode8(a) = SignedImm(Item) % Words
    BY <2>1, <2>2 DEF SignCode8
  <2>4. QED
    BY <1>3, <1>4, <1>6, <2>1, <2>3 DEF Immediate8, n
<1>7. QED
  BY <1>5, <1>6 DEF n

-----------------------------------------------------------------------------
(***************************************************************************)
(* The meaning of an instruction, by its opcode.                           *)
(***************************************************************************)
LEMMA MeansArithmetic ==
  ASSUME NEW i, NEW a, NEW s, ~i.prefixed
  PROVE  /\ i.op \in {\h01, \h09, \h29, \h31, \h89} =>
              Result(i, a, s) = Write(i.rm, Alu(AluOp(i.op), Read(i.rm, 4, s), s.R[i.reg]), 4, s)
         /\ i.op \in {\h03, \h33, \h8B} =>
              Result(i, a, s) = SetReg(i.reg, Alu(AluOp(i.op), s.R[i.reg], Read(i.rm, 4, s)), s)
         /\ i.op \in {\h05, \h0D, \h25, \h2D, \h35} =>
              Result(i, a, s) = SetReg(0, Alu(AluOp(i.op), s.R[0], SignedImm(i) % Words), s)
         /\ i.op \in {\h81, \h83} =>
              Result(i, a, s) = IF i.reg = 7 THEN s
                                ELSE Write(i.rm, Alu(Family(i.reg), Read(i.rm, 4, s), SignedImm(i) % Words), 4, s)
         /\ i.op = \hC1 => Result(i, a, s) = Write(i.rm, Alu(Shift(i.reg), Read(i.rm, 4, s), Imm(i)), 4, s)
         /\ i.op = \hD3 => Result(i, a, s) = Write(i.rm, Alu(Shift(i.reg), Read(i.rm, 4, s), s.R[1] % Radix), 4, s)
         /\ i.op \in {\h69, \h6B} =>
              Result(i, a, s) = SetReg(i.reg, Alu("imul", Read(i.rm, 4, s), SignedImm(i) % Words), s)
         /\ i.op = \h40 => Result(i, a, s) = SetReg(i.reg, (s.R[i.reg] + 1) % Words, s)
         /\ i.op = \h48 => Result(i, a, s) = SetReg(i.reg, (s.R[i.reg] - 1) % Words, s)
<1>1. i.op \in {\h01, \h09, \h29, \h31, \h89} =>
        Result(i, a, s) = Write(i.rm, Alu(AluOp(i.op), Read(i.rm, 4, s), s.R[i.reg]), 4, s)
  BY DEF Result
<1>2. i.op \in {\h03, \h33, \h8B} =>
        Result(i, a, s) = SetReg(i.reg, Alu(AluOp(i.op), s.R[i.reg], Read(i.rm, 4, s)), s)
  BY DEF Result
<1>3. i.op \in {\h05, \h0D, \h25, \h2D, \h35} =>
        Result(i, a, s) = SetReg(0, Alu(AluOp(i.op), s.R[0], SignedImm(i) % Words), s)
  BY DEF Result
<1>4. i.op \in {\h81, \h83} =>
        Result(i, a, s) = IF i.reg = 7 THEN s
                          ELSE Write(i.rm, Alu(Family(i.reg), Read(i.rm, 4, s), SignedImm(i) % Words), 4, s)
  BY DEF Result
<1>5. i.op = \hC1 => Result(i, a, s) = Write(i.rm, Alu(Shift(i.reg), Read(i.rm, 4, s), Imm(i)), 4, s)
  BY DEF Result
<1>6. i.op = \hD3 => Result(i, a, s) = Write(i.rm, Alu(Shift(i.reg), Read(i.rm, 4, s), s.R[1] % Radix), 4, s)
  BY DEF Result
<1>7. i.op \in {\h69, \h6B} =>
        Result(i, a, s) = SetReg(i.reg, Alu("imul", Read(i.rm, 4, s), SignedImm(i) % Words), s)
  BY DEF Result
<1>8. i.op = \h40 => Result(i, a, s) = SetReg(i.reg, (s.R[i.reg] + 1) % Words, s)
  BY DEF Result
<1>9. i.op = \h48 => Result(i, a, s) = SetReg(i.reg, (s.R[i.reg] - 1) % Words, s)
  BY DEF Result
<1>10. QED
  BY <1>1, <1>2, <1>3, <1>4, <1>5, <1>6, <1>7, <1>8, <1>9

LEMMA MeansMoves ==
  ASSUME NEW i, NEW a, NEW s, ~i.prefixed
  PROVE  /\ i.op = \hC7 => Result(i, a, s) = Write(i.rm, SignedImm(i) % Words, 4, s)
         /\ i.op = \h28 => Result(i, a, s) = Write(i.rm, (Read(i.rm, 1, s) - (s.R[i.reg] % Radix)) % Radix, 1, s)
         /\ i.op = \h88 => Result(i, a, s) = Write(i.rm, s.R[i.reg] % Radix, 1, s)
         /\ i.op = \h8A => Result(i, a, s) =
              SetReg(i.reg, (s.R[i.reg] - (s.R[i.reg] % Radix)) + Read(i.rm, 1, s), s)
         /\ i.op = \hC6 => Result(i, a, s) = Write(i.rm, (SignedImm(i) % Words) % Radix, 1, s)
         /\ i.op = \hC0 => Result(i, a, s) =
              Write(i.rm, Alu(Shift(i.reg), IF i.reg = 7 THEN Signed(Read(i.rm, 1, s), Radix) % Words
                                                         ELSE Read(i.rm, 1, s), Imm(i)) % Radix, 1, s)
         /\ i.op = \h8D => Result(i, a, s) = SetReg(i.reg, At(i.rm, s), s)
         /\ i.op = \h0FB6 => Result(i, a, s) = SetReg(i.reg, Read(i.rm, 1, s), s)
         /\ i.op = \h0FB7 => Result(i, a, s) = SetReg(i.reg, Read(i.rm, 2, s), s)
         /\ i.op = \h0FBE => Result(i, a, s) = SetReg(i.reg, Signed(Read(i.rm, 1, s), Radix) % Words, s)
         /\ i.op = \h0FBF => Result(i, a, s) = SetReg(i.reg, Signed(Read(i.rm, 2, s), Half) % Words, s)
<1>1. i.op = \hC7 => Result(i, a, s) = Write(i.rm, SignedImm(i) % Words, 4, s)
  BY DEF Result
<1>2. i.op = \h28 => Result(i, a, s) = Write(i.rm, (Read(i.rm, 1, s) - (s.R[i.reg] % Radix)) % Radix, 1, s)
  BY DEF Result
<1>3. i.op = \h88 => Result(i, a, s) = Write(i.rm, s.R[i.reg] % Radix, 1, s)
  BY DEF Result
<1>4. i.op = \h8A => Result(i, a, s) =
        SetReg(i.reg, (s.R[i.reg] - (s.R[i.reg] % Radix)) + Read(i.rm, 1, s), s)
  BY DEF Result
<1>5. i.op = \hC6 => Result(i, a, s) = Write(i.rm, (SignedImm(i) % Words) % Radix, 1, s)
  BY DEF Result
<1>6. i.op = \hC0 => Result(i, a, s) =
        Write(i.rm, Alu(Shift(i.reg), IF i.reg = 7 THEN Signed(Read(i.rm, 1, s), Radix) % Words
                                                   ELSE Read(i.rm, 1, s), Imm(i)) % Radix, 1, s)
  BY DEF Result
<1>7. i.op = \h8D => Result(i, a, s) = SetReg(i.reg, At(i.rm, s), s)
  BY DEF Result
<1>8. i.op = \h0FB6 => Result(i, a, s) = SetReg(i.reg, Read(i.rm, 1, s), s)
  BY DEF Result
<1>9. i.op = \h0FB7 => Result(i, a, s) = SetReg(i.reg, Read(i.rm, 2, s), s)
  BY DEF Result
<1>10. i.op = \h0FBE => Result(i, a, s) = SetReg(i.reg, Signed(Read(i.rm, 1, s), Radix) % Words, s)
  BY DEF Result
<1>11. i.op = \h0FBF => Result(i, a, s) = SetReg(i.reg, Signed(Read(i.rm, 2, s), Half) % Words, s)
  BY DEF Result
<1>12. QED
  BY <1>1, <1>2, <1>3, <1>4, <1>5, <1>6, <1>7, <1>8, <1>9, <1>10, <1>11

LEMMA MeansRegisters ==
  ASSUME NEW i, NEW a, NEW s, ~i.prefixed
  PROVE  /\ i.op = \hFF /\ i.reg = 0 => Result(i, a, s) = Write(i.rm, (Read(i.rm, 4, s) + 1) % Words, 4, s)
         /\ i.op = \hFF /\ i.reg = 1 => Result(i, a, s) = Write(i.rm, (Read(i.rm, 4, s) - 1) % Words, 4, s)
         /\ i.op = \hFF /\ i.reg = 6 => Result(i, a, s) = Pushed(Read(i.rm, 4, s), s)
         /\ i.op = \hB8 => Result(i, a, s) = SetReg(i.reg, SignedImm(i) % Words, s)
         /\ i.op = \hA1 => Result(i, a, s) = SetReg(0, GetMemory(s.mem, SignedImm(i) % Words, 4), s)
         /\ i.op = \hA3 => Result(i, a, s) = Store(SignedImm(i) % Words, s.R[0], 4, s)
         /\ i.op = \h50 => Result(i, a, s) = Pushed(s.R[i.reg], s)
         /\ i.op = \h58 => Result(i, a, s) =
              SetReg(i.reg, GetMemory(s.mem, s.R[4], 4), SetReg(4, (s.R[4] + 4) % Words, s))
         /\ i.op \in {\h68, \h6A} => Result(i, a, s) = Pushed(SignedImm(i) % Words, s)
         /\ i.op = \hE8 => Result(i, a, s) = Pushed((a + Length(i)) % Words, s)
         /\ i.op = \h99 => Result(i, a, s) = SetReg(2, IF AsSigned(s.R[0]) < 0 THEN Words - 1 ELSE 0, s)
<1>1. i.op = \hFF /\ i.reg = 0 => Result(i, a, s) = Write(i.rm, (Read(i.rm, 4, s) + 1) % Words, 4, s)
  BY DEF Result
<1>2. i.op = \hFF /\ i.reg = 1 => Result(i, a, s) = Write(i.rm, (Read(i.rm, 4, s) - 1) % Words, 4, s)
  BY DEF Result
<1>3. i.op = \hFF /\ i.reg = 6 => Result(i, a, s) = Pushed(Read(i.rm, 4, s), s)
  BY DEF Result
<1>4. i.op = \hB8 => Result(i, a, s) = SetReg(i.reg, SignedImm(i) % Words, s)
  BY DEF Result
<1>5. i.op = \hA1 => Result(i, a, s) = SetReg(0, GetMemory(s.mem, SignedImm(i) % Words, 4), s)
  BY DEF Result
<1>6. i.op = \hA3 => Result(i, a, s) = Store(SignedImm(i) % Words, s.R[0], 4, s)
  BY DEF Result
<1>7. i.op = \h50 => Result(i, a, s) = Pushed(s.R[i.reg], s)
  BY DEF Result
<1>8. i.op = \h58 => Result(i, a, s) =
        SetReg(i.reg, GetMemory(s.mem, s.R[4], 4), SetReg(4, (s.R[4] + 4) % Words, s))
  BY DEF Result
<1>9. i.op \in {\h68, \h6A} => Result(i, a, s) = Pushed(SignedImm(i) % Words, s)
  BY DEF Result
<1>10. i.op = \hE8 => Result(i, a, s) = Pushed((a + Length(i)) % Words, s)
  BY DEF Result
<1>11. i.op = \h99 => Result(i, a, s) = SetReg(2, IF AsSigned(s.R[0]) < 0 THEN Words - 1 ELSE 0, s)
  BY DEF Result
<1>12. QED
  BY <1>1, <1>2, <1>3, <1>4, <1>5, <1>6, <1>7, <1>8, <1>9, <1>10, <1>11

\* Instructions that only compare, jump or step change neither registers nor
\* memory.
Idle ==
  {\h38, \h39, \h3A, \h3B, \h3C, \h3D, \h80, \h84, \h85, \hA9, \hF6, \h8E, \h0F01, \hE9, \hEB,
   \h90, \hEE, \hFA, \hFB} \cup Conditional8 \cup Conditional32

LEMMA MeansRest ==
  ASSUME NEW i, NEW a, NEW s, i.op \in Opcodes, i.prefixed \in BOOLEAN
  PROVE  /\ i.op \in Idle => Result(i, a, s) = s
         /\ i.op = \hF7 /\ i.reg = 0 => Result(i, a, s) = s \/ i.prefixed
         /\ i.op = \hF7 /\ i.reg = 7 /\ ~i.prefixed =>
              LET x == Signed(s.R[2] * Words + s.R[0], Words * Words)
                  y == AsSigned(Read(i.rm, 4, s))
                  q == Quotient(x, y)
              IN  Result(i, a, s) = SetReg(2, (x - q * y) % Words, SetReg(0, q % Words, s))
<1>1. i.op \in Idle => Result(i, a, s) = s
  BY DEF Result, Idle, Conditional8, Conditional32
<1>2. i.op = \hF7 /\ i.reg = 0 => Result(i, a, s) = s \/ i.prefixed
  BY DEF Result
<1>3. i.op = \hF7 /\ i.reg = 7 /\ ~i.prefixed =>
        LET x == Signed(s.R[2] * Words + s.R[0], Words * Words)
            y == AsSigned(Read(i.rm, 4, s))
            q == Quotient(x, y)
        IN  Result(i, a, s) = SetReg(2, (x - q * y) % Words, SetReg(0, q % Words, s))
  BY DEF Result
<1>4. QED
  BY <1>1, <1>2, <1>3

LEMMA MeansPrefixed ==
  ASSUME NEW i, NEW a, NEW s, i.prefixed, i.op = \h89
  PROVE  Result(i, a, s) = Write(i.rm, s.R[i.reg] % Half, 2, s)
  BY DEF Result

-----------------------------------------------------------------------------
(***************************************************************************)
(* Each handler against the meaning of its instructions.                   *)
(***************************************************************************)
Meant == Leaves(Result(Item, eip, GuestState))

LEMMA Item32 ==
  ASSUME Inv, OnItem, Prefix # 0
  PROVE  ~Item.prefixed
  BY OpcodeRead

LEMMA OperandItem ==
  ASSUME Inv, OnItem, NEW ops \in SUBSET WithModRM, NEW n, Operands(ops, n)
  PROVE  /\ Item.op \in ops /\ Item.op = Opcode /\ Item.op \in WithModRM /\ ~Item.prefixed
         /\ Digit = Item.reg
<1>1. Opcode \in ops /\ Opcode \in WithModRM /\ Prefix # 0
  BY DEF Operands, Handler32
<1>2. QED
  BY <1>1, ModRMItem, Item32

LEMMA WrittenOperand ==
  ASSUME AsWritten(Item), Item.op \in WithModRM
  PROVE  Addressed(Item) /\ Measured(Item)
  BY DEF AsWritten

LEMMA RmR32Meant == ASSUME Inv, OnItem, AsWritten(Item), RmR32 PROVE Meant
<1>1. {\h01, \h09, \h0B, \h29, \h31, \h89} \in SUBSET WithModRM
  BY DEF WithModRM
<1>2. /\ Item.op \in {\h01, \h09, \h0B, \h29, \h31, \h89} /\ Item.op = Opcode /\ Item.op \in WithModRM
      /\ ~Item.prefixed
  BY <1>1, OperandItem DEF RmR32
<1>3. Item.op \in {\h01, \h09, \h29, \h31, \h89}
  BY <1>2 DEF AsWritten
<1>4. PICK junk \in Junk : SetRM32(Alu(ToRM(Opcode), RM32(junk), R32), junk)
  BY DEF RmR32
<1>5. ToRM(Item.op) = AluOp(Item.op)
  BY <1>3 DEF ToRM, AluOp, Family
<1>6. RM32(junk) = Read(Item.rm, 4, GuestState) /\ R32 = GuestState.R[Item.reg]
  BY <1>2, WordRead, RegisterRead, WrittenOperand
<1>7. Leaves(Write(Item.rm, Alu(AluOp(Item.op), Read(Item.rm, 4, GuestState), GuestState.R[Item.reg]), 4, GuestState))
  BY <1>2, <1>4, <1>5, <1>6, OperandWritten, WrittenOperand
<1>8. QED
  BY <1>2, <1>3, <1>7, MeansArithmetic DEF Meant

LEMMA RRm32Meant == ASSUME Inv, OnItem, AsWritten(Item), RRm32 PROVE Meant
<1>1. {\h03, \h2B, \h33, \h8B} \in SUBSET WithModRM
  BY DEF WithModRM
<1>2. /\ Item.op \in {\h03, \h2B, \h33, \h8B} /\ Item.op = Opcode /\ Item.op \in WithModRM
      /\ ~Item.prefixed /\ Digit = Item.reg
  BY <1>1, OperandItem DEF RRm32
<1>3. Item.op \in {\h03, \h33, \h8B}
  BY <1>2 DEF AsWritten
<1> DEFINE Operation(junk) == CASE Opcode = \h03 -> Alu("add", R32, RM32(junk))
                                [] Opcode = \h2B -> Alu("sub", RM32(junk), R32)
                                [] Opcode = \h33 -> Alu("xor", R32, RM32(junk))
                                [] OTHER -> RM32(junk)
<1>4. PICK junk \in Junk : SetR32(Operation(junk))
  BY DEF RRm32
<1>5. Operation(junk) = Alu(AluOp(Item.op), R32, RM32(junk))
  BY <1>2, <1>3 DEF AluOp, Family, Alu
<1>6. RM32(junk) = Read(Item.rm, 4, GuestState) /\ R32 = GuestState.R[Item.reg] /\ Item.reg \in RegNumber
  BY <1>2, WordRead, RegisterRead, WrittenOperand
<1> DEFINE w == Alu(AluOp(Item.op), GuestState.R[Item.reg], Read(Item.rm, 4, GuestState))
<1>7. SetR32(w)
  BY <1>4, <1>5, <1>6
<1> HIDE DEF w, Operation
<1>8. Leaves(SetReg(Item.reg, w, GuestState))
  BY <1>2, <1>6, <1>7, RegisterSet DEF SetR32
<1>9. QED
  BY <1>2, <1>3, <1>8, MeansArithmetic DEF Meant, w

LEMMA CompareMeant == ASSUME Inv, OnItem, Compare PROVE Meant
<1>1. {\h38, \h39, \h3A, \h3B, \h84, \h85} \in SUBSET WithModRM
  BY DEF WithModRM
<1>2. Item.op \in {\h38, \h39, \h3A, \h3B, \h84, \h85}
  BY <1>1, OperandItem DEF Compare
<1>3. Item.op \in Idle
  BY <1>2 DEF Idle
<1>4. QED
  BY <1>3, AtItem, MeansRest, NothingDone DEF Compare, Meant, WellTyped

LEMMA CompareEaxMeant == ASSUME Inv, OnItem, CompareEax PROVE Meant
<1>1. Opcode \in {\h3C, \h3D, \hA9}
  BY DEF CompareEax, Plain, Handler32
<1>2. Item.op = Opcode
  BY <1>1, OpcodeOfItem
<1>3. Item.op \in Idle
  BY <1>1, <1>2 DEF Idle
<1>4. QED
  BY <1>3, AtItem, MeansRest, NothingDone DEF CompareEax, Meant, WellTyped

LEMMA OperandImmediates ==
  ASSUME Inv, OnItem, Item.op \in WithModRM, AsWritten(Item)
  PROVE  /\ Item.op \in {\h69, \h81, \hC7} => Immediate32 = SignedImm(Item) % Words
         /\ Item.op \in {\h6B, \h83, \hC0, \hC1, \hC6} =>
              /\ CodeValue(Parsed.eip, 1) = Imm(Item) /\ Immediate8 = SignedImm(Item) % Words
              /\ Imm(Item) \in Byte /\ SignedImm(Item) = Signed(Imm(Item), Radix)
<1>1. Item.reg \in RegNumber
  BY AtItem DEF WellTyped
<1>2. /\ Item.op \in {\h69, \h81, \hC7} => ImmSize(Item.op, Item.reg) = 4
      /\ Item.op \in {\h6B, \h83, \hC0, \hC1, \hC6} => ImmSize(Item.op, Item.reg) = 1
  BY <1>1, ImmSizes
<1>3. QED
  BY <1>2, WrittenOperand, Immediates DEF SignedImm

LEMMA PlainImmediates ==
  ASSUME Inv, OnItem, Item.op \notin WithModRM, AsWritten(Item)
  PROVE  /\ Item.op \in {\h05, \h0D, \h25, \h2D, \h35, \h68, \hA1, \hA3, \hB8} =>
              Code32(HandlerEip + 1) = SignedImm(Item) % Words
         /\ Item.op = \h6A => /\ CodeValue(HandlerEip + 1, 1) = Imm(Item)
                              /\ Imm(Item) \in Byte /\ SignedImm(Item) = Signed(Imm(Item), Radix)
<1>1. Item.reg \in RegNumber
  BY AtItem DEF WellTyped
<1>2. /\ Item.op \in {\h05, \h0D, \h25, \h2D, \h35, \h68, \hA1, \hA3, \hB8} => ImmSize(Item.op, Item.reg) = 4
      /\ Item.op = \h6A => ImmSize(Item.op, Item.reg) = 1
  BY <1>1, ImmSizes
<1>3. Measured(Item)
  BY DEF AsWritten
<1>4. QED
  BY <1>2, <1>3, Immediates DEF SignedImm

LEMMA Code81Meant == ASSUME Inv, OnItem, AsWritten(Item), Code81 PROVE Meant
<1>1. {\h81} \in SUBSET WithModRM
  BY DEF WithModRM
<1>2. Operands({\h81}, 4) \/ Operands({\h81}, 0)
  BY DEF Code81
<1>3. Item.op = \h81 /\ Item.op \in WithModRM /\ ~Item.prefixed /\ Digit = Item.reg
  BY <1>1, <1>2, OperandItem
<1>4. Item.reg \notin {1, 2, 3} /\ Immediate32 = SignedImm(Item) % Words
  BY <1>3, OperandImmediates DEF AsWritten, Measured
<1>5. CASE Digit = 7
  <2>1. NoWrite
    BY <1>5 DEF Code81
  <2>2. Item.op \in {\h81, \h83} /\ Item.reg = 7 /\ ~Item.prefixed
    BY <1>3, <1>5
  <2>3. Result(Item, eip, GuestState) = GuestState
    BY ONLY <2>2, MeansArithmetic
  <2>4. QED
    BY <2>1, <2>3, NothingDone DEF Meant
<1>6. CASE Digit # 7
  <2>1. PICK junk \in Junk : SetRM32(Alu(Family(Digit), RM32(junk), Immediate32), junk)
    BY <1>3, <1>4, <1>6 DEF Code81
  <2>2. RM32(junk) = Read(Item.rm, 4, GuestState)
    BY <1>3, WordRead, WrittenOperand
  <2>3. Leaves(Write(Item.rm, Alu(Family(Item.reg), Read(Item.rm, 4, GuestState), SignedImm(Item) % Words), 4, GuestState))
    BY <1>3, <1>4, <2>1, <2>2, OperandWritten, WrittenOperand
  <2>4. QED
    BY <1>3, <1>6, <2>3, MeansArithmetic DEF Meant
<1>7. QED
  BY <1>5, <1>6

LEMMA Code83Meant == ASSUME Inv, OnItem, AsWritten(Item), Code83 PROVE Meant
<1>1. {\h83} \in SUBSET WithModRM
  BY DEF WithModRM
<1>2. Operands({\h83}, 1) \/ Operands({\h83}, 0)
  BY DEF Code83
<1>3. Item.op = \h83 /\ Item.op \in WithModRM /\ ~Item.prefixed /\ Digit = Item.reg
  BY <1>1, <1>2, OperandItem
<1>4. Item.reg \notin {2, 3} /\ Immediate8 = SignedImm(Item) % Words
  BY <1>3, OperandImmediates DEF AsWritten, Measured
<1>5. CASE Digit = 7
  <2>1. NoWrite
    BY <1>5 DEF Code83
  <2>2. Item.op \in {\h81, \h83} /\ Item.reg = 7 /\ ~Item.prefixed
    BY <1>3, <1>5
  <2>3. Result(Item, eip, GuestState) = GuestState
    BY ONLY <2>2, MeansArithmetic
  <2>4. QED
    BY <2>1, <2>3, NothingDone DEF Meant
<1>6. CASE Digit # 7
  <2>1. PICK junk \in Junk : SetRM32(Alu(Family(Digit), RM32(junk), Immediate8), junk)
    BY <1>3, <1>4, <1>6 DEF Code83
  <2>2. RM32(junk) = Read(Item.rm, 4, GuestState)
    BY <1>3, WordRead, WrittenOperand
  <2>3. Leaves(Write(Item.rm, Alu(Family(Item.reg), Read(Item.rm, 4, GuestState), SignedImm(Item) % Words), 4, GuestState))
    BY <1>3, <1>4, <2>1, <2>2, OperandWritten, WrittenOperand
  <2>4. QED
    BY <1>3, <1>6, <2>3, MeansArithmetic DEF Meant
<1>7. QED
  BY <1>5, <1>6

LEMMA CodeC1Meant == ASSUME Inv, OnItem, AsWritten(Item), CodeC1 PROVE Meant
<1>1. {\hC1} \in SUBSET WithModRM
  BY DEF WithModRM
<1>2. Operands({\hC1}, 1) \/ Operands({\hC1}, 0)
  BY DEF CodeC1
<1>3. Item.op = \hC1 /\ Item.op \in WithModRM /\ ~Item.prefixed /\ Digit = Item.reg
  BY <1>1, <1>2, OperandItem
<1>4. Item.reg \in {4, 5, 7} /\ CodeValue(Parsed.eip, 1) = Imm(Item)
  BY <1>3, OperandImmediates DEF AsWritten, Measured
<1>5. PICK junk \in Junk : SetRM32(Alu(Shift(Digit), RM32(junk), CodeValue(Parsed.eip, 1)), junk)
  BY <1>3, <1>4 DEF CodeC1
<1>6. RM32(junk) = Read(Item.rm, 4, GuestState)
  BY <1>3, WordRead, WrittenOperand
<1>7. Leaves(Write(Item.rm, Alu(Shift(Item.reg), Read(Item.rm, 4, GuestState), Imm(Item)), 4, GuestState))
  BY <1>3, <1>4, <1>5, <1>6, OperandWritten, WrittenOperand
<1>8. QED
  BY <1>3, <1>7, MeansArithmetic DEF Meant

LEMMA CodeD3Meant == ASSUME Inv, OnItem, AsWritten(Item), CodeD3 PROVE Meant
<1>1. {\hD3} \in SUBSET WithModRM
  BY DEF WithModRM
<1>2. Item.op = \hD3 /\ Item.op \in WithModRM /\ ~Item.prefixed /\ Digit = Item.reg
  BY <1>1, OperandItem DEF CodeD3
<1>3. Item.reg \in {4, 5}
  BY <1>2 DEF AsWritten
<1>4. (IF Digit \in {4, 6} THEN "shl" ELSE "shr") = Shift(Item.reg)
  BY <1>2, <1>3 DEF Shift
<1>5. PICK junk \in Junk : SetRM32(Alu(Shift(Item.reg), RM32(junk), Mirrored[1].low8), junk)
  BY <1>2, <1>3, <1>4 DEF CodeD3
<1>6. RM32(junk) = Read(Item.rm, 4, GuestState) /\ Mirrored[1].low8 = GuestState.R[1] % Radix
  BY <1>2, WordRead, WrittenOperand, Copies
<1>7. Leaves(Write(Item.rm, Alu(Shift(Item.reg), Read(Item.rm, 4, GuestState), GuestState.R[1] % Radix), 4, GuestState))
  BY <1>2, <1>5, <1>6, OperandWritten, WrittenOperand
<1>8. QED
  BY <1>2, <1>7, MeansArithmetic DEF Meant

LEMMA CodeFFMeant == ASSUME Inv, OnItem, AsWritten(Item), CodeFF PROVE Meant
<1>1. {\hFF} \in SUBSET WithModRM
  BY DEF WithModRM
<1>2. Item.op = \hFF /\ Item.op \in WithModRM /\ ~Item.prefixed /\ Digit = Item.reg
  BY <1>1, OperandItem DEF CodeFF
<1>3. Digit \in {0, 1, 6}
  BY <1>2 DEF AsWritten
<1>4. PICK junk \in Junk :
        \/ Digit = 0 /\ SetRM32((RM32(junk) + 1) % Words, junk)
        \/ Digit = 1 /\ SetRM32((RM32(junk) - 1) % Words, junk)
        \/ Digit = 6 /\ Push32(RM32(junk))
  BY <1>3 DEF CodeFF
<1>5. RM32(junk) = Read(Item.rm, 4, GuestState)
  BY <1>2, WordRead, WrittenOperand
<1>6. CASE Digit = 0 /\ SetRM32((RM32(junk) + 1) % Words, junk)
  <2>1. Leaves(Write(Item.rm, (Read(Item.rm, 4, GuestState) + 1) % Words, 4, GuestState))
    BY <1>2, <1>5, <1>6, OperandWritten, WrittenOperand
  <2>2. Item.op = \hFF /\ Item.reg = 0 /\ ~Item.prefixed
    BY <1>2, <1>6
  <2>3. QED
    BY ONLY <2>1, <2>2, MeansRegisters DEF Meant
<1>7. CASE Digit = 1 /\ SetRM32((RM32(junk) - 1) % Words, junk)
  <2>1. Leaves(Write(Item.rm, (Read(Item.rm, 4, GuestState) - 1) % Words, 4, GuestState))
    BY <1>2, <1>5, <1>7, OperandWritten, WrittenOperand
  <2>2. Item.op = \hFF /\ Item.reg = 1 /\ ~Item.prefixed
    BY <1>2, <1>7
  <2>3. QED
    BY ONLY <2>1, <2>2, MeansRegisters DEF Meant
<1>8. CASE Digit = 6 /\ Push32(RM32(junk))
  <2>1. Leaves(Pushed(Read(Item.rm, 4, GuestState), GuestState))
    BY <1>5, <1>8, WordPushed
  <2>2. Item.op = \hFF /\ Item.reg = 6 /\ ~Item.prefixed
    BY <1>2, <1>8
  <2>3. QED
    BY ONLY <2>1, <2>2, MeansRegisters DEF Meant
<1>9. QED
  BY <1>4, <1>6, <1>7, <1>8

LEMMA TestImmMeant == ASSUME Inv, OnItem, AsWritten(Item), TestImm PROVE Meant
<1>1. {\hF6} \in SUBSET WithModRM /\ {\hF7} \in SUBSET WithModRM
  BY DEF WithModRM
<1>2. CASE Operands({\hF6}, 1) \/ Operands({\hF6}, 0)
  <2>1. Item.op = \hF6
    BY <1>1, <1>2, OperandItem
  <2>2. Item.op \in Idle
    BY <2>1 DEF Idle
  <2>3. QED
    BY <2>2, AtItem, MeansRest, NothingDone DEF TestImm, Meant, WellTyped
<1>3. CASE (Operands({\hF7}, 4) \/ Operands({\hF7}, 0)) /\ Digit \in 0 .. 6
  <2>1. Item.op = \hF7 /\ ~Item.prefixed /\ Digit = Item.reg
    BY <1>1, <1>3, OperandItem
  <2>2. Item.reg = 0
    BY <1>3, <2>1 DEF AsWritten
  <2>3. QED
    BY <2>1, <2>2, AtItem, MeansRest, NothingDone DEF TestImm, Meant, WellTyped
<1>4. QED
  BY <1>2, <1>3 DEF TestImm

LEMMA IdivMeant == ASSUME Inv, OnItem, AsWritten(Item), Idiv PROVE Meant
<1> DEFINE x == Signed(Mirrored[2].reg32 * Words + Mirrored[0].reg32, Words * Words)
           y(junk) == AsSigned(RM32(junk))
           q(junk) == Quotient(x, y(junk))
           After(junk) == SetRegister32(SetRegister32(Mirrored, 0, q(junk) % Words), 2, (x - q(junk) * y(junk)) % Words)
<1>1. PICK junk \in Junk :
        Operands({\hF7}, 0) /\ Digit = 7 /\ y(junk) # 0 /\ SetRegisters(After(junk))
  BY DEF Idiv
<1>2. {\hF7} \in SUBSET WithModRM
  BY DEF WithModRM
<1>3. Item.op = \hF7 /\ Item.op \in WithModRM /\ ~Item.prefixed /\ Item.reg = 7
  BY <1>1, <1>2, OperandItem
<1>4. RM32(junk) = Read(Item.rm, 4, GuestState)
  BY <1>3, WordRead, WrittenOperand
<1>5. 0 \in RegNumber /\ 2 \in RegNumber
  BY DEF RegNumber
<1>6. Mirrored[2].reg32 = GuestState.R[2] /\ Mirrored[0].reg32 = GuestState.R[0]
  BY <1>5, StateFacts
<1> DEFINE gx == Signed(GuestState.R[2] * Words + GuestState.R[0], Words * Words)
           gy == AsSigned(Read(Item.rm, 4, GuestState))
           gq == Quotient(gx, gy)
<1>7. x = gx /\ y(junk) = gy /\ q(junk) = gq
  BY <1>4, <1>6
<1>8. gq \in Int
  <2>1. Words \in Int /\ GuestState.R[2] \in Int /\ GuestState.R[0] \in Int /\ RM32(junk) \in Int
    BY <1>5, Sizes, StateFacts, ReadTypes, Wider
  <2>2. GuestState.R[2] * Words + GuestState.R[0] \in Int /\ Words * Words \in Int
    BY <2>1
  <2>3. gx \in Int
    BY <2>2, SignedType
  <2>4. gy \in Int
    BY <1>4, <2>1, SignedType DEF AsSigned
  <2>5. gy # 0
    BY <1>1, <1>7
  <2> HIDE DEF gx, gy
  <2>6. Magnitude(gx) \in Int /\ Magnitude(gy) \in Nat \ {0}
    BY <2>3, <2>4, <2>5 DEF Magnitude
  <2>7. Magnitude(gx) \div Magnitude(gy) \in Int
    BY <2>6
  <2>8. QED
    BY <2>7 DEF Quotient
<1>9. SetRegisters(SetRegister32(SetRegister32(Mirrored, 0, gq % Words), 2, (gx - gq * gy) % Words))
  BY <1>1, <1>7
<1>10. Result(Item, eip, GuestState) = SetReg(2, (gx - gq * gy) % Words, SetReg(0, gq % Words, GuestState))
  <2>1. Item.op \in Opcodes /\ Item.prefixed \in BOOLEAN
    BY AtItem DEF WellTyped
  <2>2. QED
    BY ONLY <1>3, <2>1, MeansRest
<1> HIDE DEF x, y, q, gx, gy, gq
<1>11. gq % Words \in Word
  BY <1>8, Wrapped
<1>12. QED
  BY <1>5, <1>9, <1>10, <1>11, TwoRegistersSet DEF Meant

LEMMA MovRm32Imm32Meant == ASSUME Inv, OnItem, AsWritten(Item), MovRm32Imm32 PROVE Meant
<1>1. {\hC7} \in SUBSET WithModRM
  BY DEF WithModRM
<1>2. Item.op = \hC7 /\ Item.op \in WithModRM /\ ~Item.prefixed
  BY <1>1, OperandItem DEF MovRm32Imm32
<1>3. PICK junk \in Junk : SetRM32(SignedImm(Item) % Words, junk)
  BY <1>2, OperandImmediates DEF MovRm32Imm32
<1>4. Leaves(Write(Item.rm, SignedImm(Item) % Words, 4, GuestState))
  BY <1>2, <1>3, OperandWritten, WrittenOperand
<1>5. QED
  BY <1>2, <1>4, MeansMoves DEF Meant

\* A handler that sets the register beside the operand.
LEMMA DigitSet ==
  ASSUME Inv, OnItem, Item.op \in WithModRM, NEW w, SetR32(w)
  PROVE  Leaves(SetReg(Item.reg, w, GuestState))
<1>1. Digit = Item.reg /\ Digit \in RegNumber
  BY RegisterRead
<1>2. QED
  BY <1>1, RegisterSet DEF SetR32

LEMMA LeaMeant == ASSUME Inv, OnItem, AsWritten(Item), Lea PROVE Meant
<1>1. {\h8D} \in SUBSET WithModRM
  BY DEF WithModRM
<1>2. Item.op = \h8D /\ Item.op \in WithModRM /\ ~Item.prefixed
  BY <1>1, OperandItem DEF Lea
<1>3. IsMem(Item.rm)
  BY <1>2, AtItem DEF WellTyped
<1>4. PICK junk \in Junk : SetR32(Address(junk))
  BY DEF Lea
<1>5. Address(junk) = At(Item.rm, GuestState)
  BY <1>2, <1>3, OperandPlace, WrittenOperand
<1>6. Leaves(SetReg(Item.reg, At(Item.rm, GuestState), GuestState))
  BY <1>2, <1>4, <1>5, DigitSet
<1>7. QED
  BY <1>2, <1>6, MeansMoves DEF Meant

LEMMA ImulMeant == ASSUME Inv, OnItem, AsWritten(Item), Imul PROVE Meant
<1>1. {\h69} \in SUBSET WithModRM /\ {\h6B} \in SUBSET WithModRM /\ {\h0FAF} \in SUBSET WithModRM
  BY DEF WithModRM
<1>2. PICK junk \in Junk :
        \/ Operands({\h69}, 4) /\ SetR32(Alu("imul", RM32(junk), Immediate32))
        \/ Operands({\h6B}, 1) /\ SetR32(Alu("imul", RM32(junk), Immediate8))
        \/ Operands({\h0FAF}, 0)
  BY DEF Imul
<1> DEFINE w == Alu("imul", Read(Item.rm, 4, GuestState), SignedImm(Item) % Words)
<1>3. CASE Operands({\h69}, 4) /\ SetR32(Alu("imul", RM32(junk), Immediate32))
  <2>1. Item.op = \h69 /\ Item.op \in WithModRM /\ ~Item.prefixed
    BY <1>1, <1>3, OperandItem
  <2>2. RM32(junk) = Read(Item.rm, 4, GuestState) /\ Immediate32 = SignedImm(Item) % Words
    BY <2>1, WordRead, WrittenOperand, OperandImmediates
  <2>3. SetR32(w)
    BY <1>3, <2>2
  <2>4. Leaves(SetReg(Item.reg, w, GuestState))
    BY <2>1, <2>3, DigitSet
  <2>5. QED
    BY <2>1, <2>4, MeansArithmetic DEF Meant
<1>4. CASE Operands({\h6B}, 1) /\ SetR32(Alu("imul", RM32(junk), Immediate8))
  <2>1. Item.op = \h6B /\ Item.op \in WithModRM /\ ~Item.prefixed
    BY <1>1, <1>4, OperandItem
  <2>2. RM32(junk) = Read(Item.rm, 4, GuestState) /\ Immediate8 = SignedImm(Item) % Words
    BY <2>1, WordRead, WrittenOperand, OperandImmediates
  <2>3. SetR32(w)
    BY <1>4, <2>2
  <2>4. Leaves(SetReg(Item.reg, w, GuestState))
    BY <2>1, <2>3, DigitSet
  <2>5. QED
    BY <2>1, <2>4, MeansArithmetic DEF Meant
<1>5. CASE Operands({\h0FAF}, 0)
  <2>1. Item.op = \h0FAF
    BY <1>1, <1>5, OperandItem
  <2>2. QED
    BY <2>1 DEF AsWritten
<1>6. QED
  BY <1>2, <1>3, <1>4, <1>5

LEMMA ExtendMeant == ASSUME Inv, OnItem, AsWritten(Item), Extend PROVE Meant
<1>1. /\ {\h0FB6} \in SUBSET WithModRM /\ {\h0FB7} \in SUBSET WithModRM
      /\ {\h0FBE} \in SUBSET WithModRM /\ {\h0FBF} \in SUBSET WithModRM
  BY DEF WithModRM
<1>2. PICK junk \in Junk :
        \/ Operands({\h0FB6}, 0) /\ SetR32(RM8(junk))
        \/ Operands({\h0FB7}, 0) /\ SetR32(RM16(junk))
        \/ Operands({\h0FBE}, 0) /\ SetR32(Signed(RM8(junk), Radix) % Words)
        \/ Operands({\h0FBF}, 0) /\ SetR32(Signed(RM16(junk), Half) % Words)
  BY DEF Extend
<1>3. Item.op \in {\h0FB6, \h0FB7, \h0FBE, \h0FBF} /\ Item.op \in WithModRM /\ ~Item.prefixed
  BY <1>1, <1>2, OperandItem
<1>4. RM8(junk) = Read(Item.rm, 1, GuestState) /\ RM16(junk) = Read(Item.rm, 2, GuestState)
  <2>1. Source8(Item) /\ Addressed(Item)
    BY <1>3, WrittenOperand DEF AsWritten
  <2>2. QED
    BY <1>3, <2>1, ByteRead
<1>5. ASSUME NEW w, SetR32(w) PROVE Leaves(SetReg(Item.reg, w, GuestState))
  BY <1>3, <1>5, DigitSet
<1>6. CASE Operands({\h0FB6}, 0) /\ SetR32(RM8(junk))
  <2>1. Item.op = \h0FB6
    BY <1>1, <1>6, OperandItem
  <2>2. Leaves(SetReg(Item.reg, Read(Item.rm, 1, GuestState), GuestState))
    BY <1>4, <1>5, <1>6
  <2>3. QED
    BY <1>3, <2>1, <2>2, MeansMoves DEF Meant
<1>7. CASE Operands({\h0FB7}, 0) /\ SetR32(RM16(junk))
  <2>1. Item.op = \h0FB7
    BY <1>1, <1>7, OperandItem
  <2>2. Leaves(SetReg(Item.reg, Read(Item.rm, 2, GuestState), GuestState))
    BY <1>4, <1>5, <1>7
  <2>3. QED
    BY <1>3, <2>1, <2>2, MeansMoves DEF Meant
<1>8. CASE Operands({\h0FBE}, 0) /\ SetR32(Signed(RM8(junk), Radix) % Words)
  <2>1. Item.op = \h0FBE
    BY <1>1, <1>8, OperandItem
  <2>2. Leaves(SetReg(Item.reg, Signed(Read(Item.rm, 1, GuestState), Radix) % Words, GuestState))
    BY <1>4, <1>5, <1>8
  <2>3. QED
    BY <1>3, <2>1, <2>2, MeansMoves DEF Meant
<1>9. CASE Operands({\h0FBF}, 0) /\ SetR32(Signed(RM16(junk), Half) % Words)
  <2>1. Item.op = \h0FBF
    BY <1>1, <1>9, OperandItem
  <2>2. Leaves(SetReg(Item.reg, Signed(Read(Item.rm, 2, GuestState), Half) % Words, GuestState))
    BY <1>4, <1>5, <1>9
  <2>3. QED
    BY <1>3, <2>1, <2>2, MeansMoves DEF Meant
<1>10. QED
  BY <1>2, <1>6, <1>7, <1>8, <1>9

\* The register that the opcode names.
LEMMA NumberRead ==
  ASSUME Inv, OnItem, Item.op \in WithRegister
  PROVE  Number = Item.reg /\ Number \in RegNumber
<1>1. Item.reg \in 0 .. 7 /\ Opcode = Item.op + Item.reg
  BY AtItem, OpcodeRead DEF WellTyped, RegNumber
<1>2. Item.op \in {64, 72, 80, 88, 176, 184}
  BY DEF WithRegister
<1>3. (Item.op + Item.reg) % 8 = Item.reg
  BY <1>1, <1>2
<1>4. QED
  BY <1>1, <1>3 DEF Number, RegNumber

LEMMA Short32Meant == ASSUME Inv, OnItem, AsWritten(Item), Short32 PROVE Meant
<1>1. Prefix # 0 /\ Opcode \in \h40 .. \h5F \cup \hB8 .. \hBF
  BY DEF Short32, Numbered, Plain, Handler32
<1>2. Item.op \in {\h40, \h48, \h50, \h58, \hB8}
  <2>1. Opcode \in \h40 .. \h47 \cup \h48 .. \h4F \cup \h50 .. \h57 \cup \h58 .. \h5F \cup \hB8 .. \hBF
    BY <1>1
  <2>2. QED
    BY <2>1, OpcodeOfItem
<1>3. ~Item.prefixed /\ Item.op \in WithRegister /\ Item.op \notin WithModRM
  BY <1>1, <1>2, Item32 DEF WithRegister, WithModRM
<1> DEFINE r == Item.reg
<1>4. Number = r /\ r \in RegNumber /\ 4 \in RegNumber
  BY <1>3, NumberRead DEF RegNumber
<1>5. Mirrored[Number].reg32 = GuestState.R[r] /\ Mirrored[4].reg32 = GuestState.R[4]
  BY <1>4, StateFacts
<1>6. ASSUME NEW w, SetRegisters(SetRegister32(Mirrored, Number, w))
      PROVE  Leaves(SetReg(r, w, GuestState))
  BY <1>4, <1>6, RegisterSet
<1> HIDE DEF r
<1>7. CASE Numbered(\h40, 1) /\ SetRegisters(SetRegister32(Mirrored, Number, (Mirrored[Number].reg32 + 1) % Words))
  <2>1. Item.op = \h40
    BY <1>7, OpcodeOfItem DEF Numbered, Plain, Handler32
  <2>2. Leaves(SetReg(r, (GuestState.R[r] + 1) % Words, GuestState))
    BY <1>5, <1>6, <1>7
  <2>3. QED
    BY <1>3, <2>1, <2>2, MeansArithmetic DEF Meant, r
<1>8. CASE Numbered(\h48, 1) /\ SetRegisters(SetRegister32(Mirrored, Number, (Mirrored[Number].reg32 - 1) % Words))
  <2>1. Item.op = \h48
    BY <1>8, OpcodeOfItem DEF Numbered, Plain, Handler32
  <2>2. Leaves(SetReg(r, (GuestState.R[r] - 1) % Words, GuestState))
    BY <1>5, <1>6, <1>8
  <2>3. QED
    BY <1>3, <2>1, <2>2, MeansArithmetic DEF Meant, r
<1>9. CASE Numbered(\hB8, 5) /\ SetRegisters(SetRegister32(Mirrored, Number, Code32(HandlerEip + 1)))
  <2>1. Item.op = \hB8
    BY <1>9, OpcodeOfItem DEF Numbered, Plain, Handler32
  <2>2. Code32(HandlerEip + 1) = SignedImm(Item) % Words
    BY <1>3, <2>1, PlainImmediates
  <2>3. Leaves(SetReg(r, SignedImm(Item) % Words, GuestState))
    BY <1>6, <1>9, <2>2
  <2>4. QED
    BY <1>3, <2>1, <2>3, MeansRegisters DEF Meant, r
<1>10. CASE Numbered(\h50, 1) /\ Push32(Mirrored[Number].reg32)
  <2>1. Item.op = \h50
    BY <1>10, OpcodeOfItem DEF Numbered, Plain, Handler32
  <2>2. Leaves(Pushed(GuestState.R[r], GuestState))
    BY <1>5, <1>10, WordPushed
  <2>3. QED
    BY <1>3, <2>1, <2>2, MeansRegisters DEF Meant, r
<1>11. CASE /\ Numbered(\h58, 1)
            /\ SetRegisters(SetRegister32(SetRegister32(Mirrored, 4, (Mirrored[4].reg32 + 4) % Words),
                                          Number, GetMemory(memory, Mirrored[4].reg32, 4)))
  <2>1. Item.op = \h58
    BY <1>11, OpcodeOfItem DEF Numbered, Plain, Handler32
  <2> DEFINE v == (GuestState.R[4] + 4) % Words
             w == GetMemory(GuestState.mem, GuestState.R[4], 4)
  <2>2. SetRegisters(SetRegister32(SetRegister32(Mirrored, 4, v), r, w))
    BY <1>4, <1>5, <1>11, StateFacts
  <2>3. v \in Word
    <3>1. GuestState.R[4] + 4 \in Int
      BY <1>4, StateFacts
    <3>2. QED
      BY <3>1, Wrapped
  <2>4. Result(Item, eip, GuestState) = SetReg(r, w, SetReg(4, v, GuestState))
    BY <1>3, <2>1, MeansRegisters DEF r
  <2> HIDE DEF v, w
  <2>5. Leaves(SetReg(r, w, SetReg(4, v, GuestState)))
    BY <1>4, <2>2, <2>3, TwoRegistersSet
  <2>6. QED
    BY <2>4, <2>5 DEF Meant
<1>12. QED
  BY <1>7, <1>8, <1>9, <1>10, <1>11 DEF Short32

LEMMA EaxImm32Meant == ASSUME Inv, OnItem, AsWritten(Item), EaxImm32 PROVE Meant
<1>1. Prefix # 0 /\ Opcode \in {\h05, \h0D, \h25, \h2D, \h35}
  BY DEF EaxImm32, Plain, Handler32
<1>2. Item.op = Opcode /\ ~Item.prefixed /\ Item.op \notin WithModRM
  BY <1>1, OpcodeOfItem, Item32 DEF WithModRM
<1>3. Code32(HandlerEip + 1) = SignedImm(Item) % Words
  BY <1>1, <1>2, PlainImmediates
<1>4. 0 \in RegNumber /\ Mirrored[0].reg32 = GuestState.R[0]
  BY StateFacts DEF RegNumber
<1> DEFINE w == Alu(AluOp(Item.op), GuestState.R[0], SignedImm(Item) % Words)
<1>5. SetRegisters(SetRegister32(Mirrored, 0, w))
  BY <1>2, <1>3, <1>4 DEF EaxImm32, Eax
<1>6. Result(Item, eip, GuestState) = SetReg(0, w, GuestState)
  BY <1>1, <1>2, MeansArithmetic
<1> HIDE DEF w
<1>7. QED
  BY <1>4, <1>5, <1>6, RegisterSet DEF Meant

LEMMA PushImmMeant == ASSUME Inv, OnItem, AsWritten(Item), PushImm PROVE Meant
<1>1. Prefix # 0 /\ Opcode \in {\h68, \h6A}
  BY DEF PushImm, Plain, Handler32
<1>2. Item.op = Opcode /\ ~Item.prefixed /\ Item.op \notin WithModRM
  BY <1>1, OpcodeOfItem, Item32 DEF WithModRM
<1>3. CASE Plain({\h68}, 5) /\ Push32(Code32(HandlerEip + 1))
  <2>1. Item.op = \h68
    BY <1>2, <1>3 DEF Plain, Handler32
  <2>2. Code32(HandlerEip + 1) = SignedImm(Item) % Words
    BY <1>2, <2>1, PlainImmediates
  <2>3. Leaves(Pushed(SignedImm(Item) % Words, GuestState))
    BY <1>3, <2>2, WordPushed
  <2>4. QED
    BY <1>2, <2>1, <2>3, MeansRegisters DEF Meant
<1>4. CASE Plain({\h6A}, 2) /\ Push32(CodeValue(HandlerEip + 1, 1))
  <2>1. Item.op = \h6A
    BY <1>2, <1>4 DEF Plain, Handler32
  <2>2. CodeValue(HandlerEip + 1, 1) = Imm(Item) /\ Imm(Item) \in Byte /\ SignedImm(Item) = Signed(Imm(Item), Radix)
    BY <1>2, <2>1, PlainImmediates
  <2>3. SignedImm(Item) >= 0
    BY <2>1 DEF AsWritten
  <2>4. Imm(Item) = SignedImm(Item) % Words
    BY <2>2, <2>3, Sizes DEF Signed, Byte
  <2>5. Leaves(Pushed(SignedImm(Item) % Words, GuestState))
    BY <1>4, <2>2, <2>4, WordPushed
  <2>6. QED
    BY <1>2, <2>1, <2>5, MeansRegisters DEF Meant
<1>5. QED
  BY <1>3, <1>4 DEF PushImm

LEMMA Moffs32Meant == ASSUME Inv, OnItem, AsWritten(Item), Moffs32 PROVE Meant
<1>1. Prefix # 0 /\ Opcode \in {\hA1, \hA3}
  BY DEF Moffs32, Plain, Handler32
<1>2. Item.op = Opcode /\ ~Item.prefixed /\ Item.op \notin WithModRM
  BY <1>1, OpcodeOfItem, Item32 DEF WithModRM
<1>3. Code32(HandlerEip + 1) = SignedImm(Item) % Words
  BY <1>1, <1>2, PlainImmediates
<1>4. 0 \in RegNumber /\ Mirrored[0].reg32 = GuestState.R[0]
  BY StateFacts DEF RegNumber
<1>5. CASE Plain({\hA1}, 5) /\ Eax(GetMemory(memory, Code32(HandlerEip + 1), 4))
  <2>1. Item.op = \hA1
    BY <1>2, <1>5 DEF Plain, Handler32
  <2>2. SetRegisters(SetRegister32(Mirrored, 0, GetMemory(GuestState.mem, SignedImm(Item) % Words, 4)))
    BY <1>3, <1>5, StateFacts DEF Eax
  <2>3. Leaves(SetReg(0, GetMemory(GuestState.mem, SignedImm(Item) % Words, 4), GuestState))
    BY <1>4, <2>2, RegisterSet
  <2>4. QED
    BY <1>2, <2>1, <2>3, MeansRegisters DEF Meant
<1>6. CASE Plain({\hA3}, 5) /\ SetMem(Code32(HandlerEip + 1), Mirrored[0].reg32, 4)
  <2>1. Item.op = \hA3
    BY <1>2, <1>6 DEF Plain, Handler32
  <2>2. Leaves(Store(SignedImm(Item) % Words, GuestState.R[0], 4, GuestState))
    BY <1>3, <1>4, <1>6, MemorySet
  <2>3. QED
    BY <1>2, <2>1, <2>2, MeansRegisters DEF Meant
<1>7. QED
  BY <1>5, <1>6 DEF Moffs32

LEMMA CdqMeant == ASSUME Inv, OnItem, Cdq PROVE Meant
<1>1. Prefix # 0 /\ Opcode = \h99
  BY DEF Cdq, Plain, Handler32
<1>2. Item.op = \h99 /\ ~Item.prefixed
  BY <1>1, OpcodeOfItem, Item32
<1>3. 0 \in RegNumber /\ 2 \in RegNumber /\ Mirrored[0].reg32 = GuestState.R[0]
  BY StateFacts DEF RegNumber
<1> DEFINE w == IF AsSigned(GuestState.R[0]) < 0 THEN Words - 1 ELSE 0
<1>4. SetRegisters(SetRegister32(Mirrored, 2, w))
  BY <1>3 DEF Cdq
<1>5. Result(Item, eip, GuestState) = SetReg(2, w, GuestState)
  BY <1>2, MeansRegisters
<1> HIDE DEF w
<1>6. QED
  BY <1>3, <1>4, <1>5, RegisterSet DEF Meant

LEMMA LowByteOfWord ==
  ASSUME NEW v \in Byte
  PROVE  (Signed(v, Radix) % Words) % Radix = v
<1>1. v \in Int /\ v % Radix = v /\ Radix \in Nat \ {0} /\ Words \in Nat \ {0} /\ Half \in Nat
  BY Sizes DEF Byte
<1> DEFINE x == Signed(v, Radix)
<1>2. x \in Int /\ x % Radix = v
  <2>0. (v - Radix) % Radix = v % Radix
    BY ONLY <1>1, OneLess
  <2>1. (v - Radix) % Radix = v /\ v - Radix \in Int
    BY <1>1, <2>0
  <2>2. x = v \/ x = v - Radix
    BY DEF Signed
  <2>3. QED
    BY <1>1, <2>1, <2>2
<1> HIDE DEF x
<1>3. x = Words * (x \div Words) + (x % Words) /\ x \div Words \in Int /\ x % Words \in Int
  BY <1>1, <1>2, DivMod
<1> DEFINE q == x \div Words
           k == Half * q
<1>4. q \in Int /\ Words * q = Radix * (Radix * k)
  <2>1. q \in Int
    BY <1>3
  <2> HIDE DEF q
  <2>2. Words * q = (Radix * Radix) * (Half * q)
    <3>1. Words = (Radix * Radix) * Half
      BY DEF Words, Half
    <3>2. QED
      BY <1>1, <2>1, <3>1
  <2>3. k \in Int
    BY <1>1, <2>1
  <2> HIDE DEF k
  <2>4. (Radix * Radix) * k = Radix * (Radix * k)
    BY <1>1, <2>3
  <2>5. QED
    BY <2>1, <2>2, <2>4 DEF k
<1> DEFINE r == x % Words
<1>5. r \in Int /\ x = r + Radix * (Radix * k) /\ Radix * k \in Int
  BY <1>1, <1>3, <1>4
<1> HIDE DEF q, k, r
<1>6. (r + Radix * (Radix * k)) % Radix = r % Radix
  BY <1>1, <1>5, SameRemainder
<1>7. QED
  BY <1>2, <1>5, <1>6 DEF r, x

LEMMA MovRm8R8Meant == ASSUME Inv, OnItem, AsWritten(Item), MovRm8R8 PROVE Meant
<1>1. {\h88} \in SUBSET WithModRM
  BY DEF WithModRM
<1>2. Item.op = \h88 /\ Item.op \in WithModRM /\ ~Item.prefixed
  BY <1>1, OperandItem DEF MovRm8R8
<1>3. IsMem(Item.rm) /\ Item.reg \in {0, 1, 2}
  BY <1>2 DEF AsWritten
<1>4. PICK junk \in Junk : SetRM8(GuestState.R[Item.reg] % Radix, junk)
  BY <1>2, <1>3, RegisterRead DEF MovRm8R8
<1>5. Leaves(Write(Item.rm, GuestState.R[Item.reg] % Radix, 1, GuestState))
  BY <1>2, <1>3, <1>4, OperandWritten, WrittenOperand
<1>6. QED
  BY <1>2, <1>5, MeansMoves DEF Meant

LEMMA SubRm8R8Meant == ASSUME Inv, OnItem, AsWritten(Item), SubRm8R8 PROVE Meant
<1>1. {\h28} \in SUBSET WithModRM
  BY DEF WithModRM
<1>2. Item.op = \h28 /\ Item.op \in WithModRM /\ ~Item.prefixed
  BY <1>1, OperandItem DEF SubRm8R8
<1>3. IsMem(Item.rm) /\ Item.reg \in {0, 1, 2} /\ Source8(Item)
  BY <1>2 DEF AsWritten, Source8
<1>4. PICK junk \in Junk : SetRM8((RM8(junk) - R8) % Radix, junk)
  BY DEF SubRm8R8
<1>5. RM8(junk) = Read(Item.rm, 1, GuestState) /\ R8 = GuestState.R[Item.reg] % Radix
  BY <1>2, <1>3, ByteRead, RegisterRead, WrittenOperand
<1>6. Leaves(Write(Item.rm, (Read(Item.rm, 1, GuestState) - (GuestState.R[Item.reg] % Radix)) % Radix, 1, GuestState))
  BY <1>2, <1>3, <1>4, <1>5, OperandWritten, WrittenOperand
<1>7. QED
  BY <1>2, <1>6, MeansMoves DEF Meant

LEMMA MovR8Rm8Meant == ASSUME Inv, OnItem, AsWritten(Item), MovR8Rm8 PROVE Meant
<1>1. {\h8A} \in SUBSET WithModRM
  BY DEF WithModRM
<1>2. Item.op = \h8A /\ Item.op \in WithModRM /\ ~Item.prefixed /\ Digit = Item.reg
  BY <1>1, OperandItem DEF MovR8Rm8
<1>3. Item.reg = 0 /\ Source8(Item)
  BY <1>2 DEF AsWritten
<1>4. PICK junk \in Junk : SetR8(RM8(junk))
  BY DEF MovR8Rm8
<1> DEFINE v == RM8(junk)
           f == SetRegister8(Mirrored, 0, v)
           eax == GuestState.R[0]
           w == (eax - (eax % Radix)) + v
<1>5. v = Read(Item.rm, 1, GuestState) /\ v \in Byte /\ 0 \in RegNumber
  BY <1>2, <1>3, ByteRead, ReadTypes, WrittenOperand DEF RegNumber
<1> HIDE DEF v
<1>6. f \in [RegNumber -> Register]
  BY <1>5, MirroredType, SetRegisterType
<1>7. Registers(f) = Registers(reg)
  BY <1>5, MirroredType, RegistersAfter, StateFacts
<1>8. f[0].reg32 = eax
  <2>1. f[0].reg32 = Registers(f)[0]
    BY <1>5 DEF Registers
  <2>2. Registers(f)[0] = GuestState.R[0]
    BY <1>7, StateFacts
  <2>3. QED
    BY <2>1, <2>2
<1>9. SetRegisters(SetRegister32(f, 0, w))
  BY <1>2, <1>3, <1>4, <1>8 DEF SetR8, v
<1>10. Result(Item, eip, GuestState) = SetReg(0, w, GuestState)
  BY <1>2, <1>3, <1>5, MeansMoves
<1> HIDE DEF f, w
<1>11. Registers(reg') = [Registers(reg) EXCEPT ![0] = w] /\ memory' = memory
  BY <1>5, <1>6, <1>7, <1>9, RegistersAfter DEF SetRegisters
<1>12. SetReg(0, w, GuestState) = [R |-> [Registers(reg) EXCEPT ![0] = w], mem |-> memory]
  BY StateAfter DEF GuestState
<1>13. QED
  BY <1>10, <1>11, <1>12 DEF Meant, Leaves

LEMMA MovRm8Imm8Meant == ASSUME Inv, OnItem, AsWritten(Item), MovRm8Imm8 PROVE Meant
<1>1. {\hC6} \in SUBSET WithModRM
  BY DEF WithModRM
<1>2. Item.op = \hC6 /\ Item.op \in WithModRM /\ ~Item.prefixed
  BY <1>1, OperandItem DEF MovRm8Imm8
<1>3. IsMem(Item.rm)
  BY <1>2 DEF AsWritten
<1>4. CodeValue(Parsed.eip, 1) = (SignedImm(Item) % Words) % Radix
  BY <1>2, OperandImmediates, LowByteOfWord
<1>5. PICK junk \in Junk : SetRM8((SignedImm(Item) % Words) % Radix, junk)
  BY <1>4 DEF MovRm8Imm8
<1>6. Leaves(Write(Item.rm, (SignedImm(Item) % Words) % Radix, 1, GuestState))
  BY <1>2, <1>3, <1>5, OperandWritten, WrittenOperand
<1>7. QED
  BY <1>2, <1>6, MeansMoves DEF Meant

LEMMA Code80C0Meant == ASSUME Inv, OnItem, AsWritten(Item), Code80C0 PROVE Meant
<1>1. {\h80} \in SUBSET WithModRM /\ {\hC0} \in SUBSET WithModRM
  BY DEF WithModRM
<1>2. CASE (Operands({\h80}, 1) \/ Operands({\h80}, 0)) /\ NoWrite
  <2>1. Item.op = \h80
    BY <1>1, <1>2, OperandItem
  <2>2. Item.op \in Idle
    BY <2>1 DEF Idle
  <2>3. QED
    BY <1>2, <2>2, AtItem, MeansRest, NothingDone DEF Meant, WellTyped
<1>3. CASE Operands({\hC0}, 0) /\ Digit \notin {5, 7}
  <2>1. Item.op = \hC0 /\ Digit = Item.reg
    BY <1>1, <1>3, OperandItem
  <2>2. QED
    BY <1>3, <2>1 DEF AsWritten, Measured
<1> DEFINE Operation(junk) ==
             Alu(Shift(Digit), IF Digit = 5 THEN RM8(junk) ELSE Signed(RM8(junk), Radix) % Words,
                 CodeValue(Parsed.eip, 1)) % Radix
<1>4. ASSUME NEW junk \in Junk, Operands({\hC0}, 1), Digit \in {5, 7}, SetRM8(Operation(junk), junk)
      PROVE  Meant
  <2>1. Item.op = \hC0 /\ Item.op \in WithModRM /\ ~Item.prefixed /\ Digit = Item.reg
    BY <1>1, <1>4, OperandItem
  <2>2. IsMem(Item.rm) /\ Source8(Item)
    BY <2>1 DEF AsWritten, Source8
  <2>3. RM8(junk) = Read(Item.rm, 1, GuestState) /\ CodeValue(Parsed.eip, 1) = Imm(Item)
    BY <2>1, <2>2, ByteRead, WrittenOperand, OperandImmediates
  <2> DEFINE w == Alu(Shift(Item.reg), IF Item.reg = 7 THEN Signed(Read(Item.rm, 1, GuestState), Radix) % Words
                                                       ELSE Read(Item.rm, 1, GuestState), Imm(Item)) % Radix
  <2>4. Operation(junk) = w
    BY <1>4, <2>1, <2>3
  <2>5. Result(Item, eip, GuestState) = Write(Item.rm, w, 1, GuestState)
    BY <2>1, MeansMoves
  <2> HIDE DEF w
  <2>6. Leaves(Write(Item.rm, w, 1, GuestState))
    BY <1>4, <2>1, <2>2, <2>4, OperandWritten, WrittenOperand
  <2>7. QED
    BY <2>5, <2>6 DEF Meant
<1>5. QED
  BY <1>2, <1>3, <1>4 DEF Code80C0

LEMMA MirroredOnly == ASSUME Inv, reg' = Mirrored, memory' = memory PROVE Leaves(GuestState)
  BY StateFacts DEF Leaves, GuestState

LEMMA MovSregRm16Meant == ASSUME Inv, OnItem, MovSregRm16 PROVE Meant
<1>1. {\h8E} \in SUBSET WithModRM
  BY DEF WithModRM
<1>2. Item.op \in Idle
  BY <1>1, OperandItem DEF MovSregRm16, Idle
<1>3. Leaves(GuestState)
  BY MirroredOnly DEF MovSregRm16
<1>4. QED
  BY <1>2, <1>3, AtItem, MeansRest DEF Meant, WellTyped

LEMMA LoadTableMeant == ASSUME Inv, OnItem, LoadTable PROVE Meant
<1>1. Opcode = \h0F01 /\ Opcode \in WithModRM
  BY DEF LoadTable, Handler32, WithModRM
<1>2. Item.op \in Idle
  BY <1>1, ModRMItem DEF Idle
<1>3. QED
  BY <1>2, AtItem, MeansRest, NothingDone DEF LoadTable, Meant, WellTyped

LEMMA PrefixedMeant == ASSUME Inv, OnItem, AsWritten(Item), Prefixed PROVE Meant
<1>1. Prefix = 0 /\ Opcode \in {\h01, \h89, \h8B, \h8C} /\ Opcode \in WithModRM
  BY DEF Prefixed, Handler16, WithModRM
<1>2. Item.op = Opcode /\ Item.op \in WithModRM /\ Digit = Item.reg
  BY <1>1, ModRMItem
<1>3. Item.prefixed
  BY <1>1, OpcodeRead
<1>4. Item.op = \h89 /\ IsMem(Item.rm) /\ Item.reg \in {0, 1, 2}
  BY <1>1, <1>2, <1>3 DEF AsWritten
<1>5. R16 = GuestState.R[Item.reg] % Half
  BY <1>2, <1>4, RegisterRead
<1>6. PICK junk \in Junk : SetRM16(GuestState.R[Item.reg] % Half, junk)
  BY <1>2, <1>4, <1>5 DEF Prefixed
<1>7. Leaves(Write(Item.rm, GuestState.R[Item.reg] % Half, 2, GuestState))
  BY <1>2, <1>4, <1>6, OperandWritten, WrittenOperand
<1>8. Item.op = \h89
  BY <1>4
<1>9. Result(Item, eip, GuestState) = Write(Item.rm, GuestState.R[Item.reg] % Half, 2, GuestState)
  BY ONLY <1>3, <1>8, MeansPrefixed
<1>10. QED
  BY <1>7, <1>9 DEF Meant

LEMMA JumpMeant == ASSUME Inv, OnItem, Jump PROVE Meant
<1>1. Opcode \in Conditional8 \cup Conditional32 \cup {\hEB, \hE9}
  BY DEF Jump, Jump8, Jump32, Plain, Handler32
<1>2. Opcode \notin \h40 .. \h5F \cup \hB0 .. \hBF
  BY <1>1 DEF Conditional8, Conditional32
<1>3. Item.op \in Idle
  BY <1>1, <1>2, OpcodeOfItem DEF Idle
<1>4. QED
  BY <1>3, AtItem, MeansRest, NothingDone DEF Jump, Meant, WellTyped

LEMMA CallMeant == ASSUME Inv, OnItem, CallRel32 PROVE Meant
<1>1. Prefix # 0 /\ Opcode = \hE8 /\ Push32((HandlerEip + 5) % Words)
  BY DEF CallRel32, Jump32, Handler32
<1>2. Item.op = \hE8 /\ ~Item.prefixed /\ Item.op \notin WithModRM
  BY <1>1, OpcodeOfItem, Item32 DEF WithModRM
<1>3. HandlerEip + 5 = eip + Length(Item)
  <2>1. Item.reg \in RegNumber
    BY AtItem DEF WellTyped
  <2>2. ImmSize(Item.op, Item.reg) = 4
    BY <1>2, <2>1, ImmSizes
  <2>3. Length(Item) = OpcodeLength(Item) + 4 /\ OpcodeLength(Item) \in Int
    BY <1>2, <2>2, LengthTypes
  <2>4. QED
    BY <2>3, AtItem, OpcodeRead, FetchType
<1>4. Leaves(Pushed((eip + Length(Item)) % Words, GuestState))
  BY <1>1, <1>3, WordPushed
<1>5. QED
  BY <1>2, <1>4, MeansRegisters DEF Meant

LEMMA StepMeant == ASSUME Inv, OnItem, Step PROVE Meant
<1>1. Opcode \in {\h90, \hEE, \hFA, \hFB} /\ NoWrite
  BY DEF Step, Plain, Handler32, Handler16
<1>2. Item.op \in Idle
  BY <1>1, OpcodeOfItem DEF Idle
<1>3. QED
  BY <1>1, <1>2, AtItem, MeansRest, NothingDone DEF Meant, WellTyped

\* Handlers of instructions that do something else than they say.
LEMMA OthersExcluded ==
  ASSUME Inv, OnItem, AsWritten(Item), MovR8Imm8 \/ MovAlMoffs8 \/ InAlDx \/ Setnz
  PROVE  FALSE
<1>1. Opcode \in \hB0 .. \hB7 \cup {\hA0, \hEC, \h0F95}
  BY DEF MovR8Imm8, MovAlMoffs8, InAlDx, Setnz, Numbered, Operands, Plain, Handler32
<1>2. Item.op \in {\hB0, \hA0, \hEC, \h0F95}
  BY <1>1, OpcodeOfItem
<1>3. QED
  BY <1>2 DEF AsWritten, Measured

LEMMA MeantStep == ASSUME Inv, OnItem, AsWritten(Item), Next PROVE Meant
  BY RmR32Meant, RRm32Meant, CompareMeant, EaxImm32Meant, CompareEaxMeant, Code81Meant, Code83Meant, CodeC1Meant,
     CodeD3Meant, CodeFFMeant, TestImmMeant, IdivMeant, MovRm32Imm32Meant, LeaMeant, ImulMeant, ExtendMeant,
     Short32Meant, PushImmMeant, Moffs32Meant, CdqMeant, LoadTableMeant, MovRm8R8Meant, MovR8Rm8Meant,
     MovRm8Imm8Meant, SubRm8R8Meant, Code80C0Meant, OthersExcluded, MovSregRm16Meant, PrefixedMeant, JumpMeant,
     CallMeant, StepMeant
  DEF Next

\* Every instruction that AsWritten names leaves the registers and the memory
\* that its meaning says: main's loop, parse_prefix, the tables of
\* handlers, ModRM::Parse and the handler together (DoesWhatItSays).
THEOREM InstructionsMeant == Spec => DoesWhatItSays
<1>1. Inv /\ [Next]_vars => [OnItem /\ AsWritten(Item) =>
        [R |-> Registers(reg'), mem |-> memory'] = Result(Item, eip, [R |-> Registers(reg), mem |-> memory])]_vars
  <2>1. ASSUME Inv, Next, OnItem, AsWritten(Item)
        PROVE  [R |-> Registers(reg'), mem |-> memory'] = Result(Item, eip, [R |-> Registers(reg), mem |-> memory])
    BY <2>1, MeantStep DEF Meant, Leaves, GuestState
  <2>2. QED
    BY <2>1
<1>2. QED
  BY <1>1, AlwaysInv, PTL DEF Spec, DoesWhatItSays

-----------------------------------------------------------------------------
(***************************************************************************)
(* Bytes of a word, and memory that is written and read back.              *)
(***************************************************************************)
\* A quotient and a remainder are the only ones.
LEMMA QuotientUnique ==
  ASSUME NEW m \in Nat \ {0}, NEW q \in Int, NEW r \in 0 .. m - 1
  PROVE  (m * q + r) \div m = q /\ (m * q + r) % m = r
<1> DEFINE x == m * q + r
           p == x \div m
           s == x % m
<1>1. x \in Int
  OBVIOUS
<1>2. p \in Int /\ s \in 0 .. m - 1 /\ m * q + r = m * p + s
  BY <1>1, DivMod
<1> HIDE DEF p, s
<1>3. p = q
  <2> DEFINE d == p - q
  <2>1. d \in Int /\ m * d = r - s
    BY <1>2
  <2> HIDE DEF d
  <2>2. CASE d >= 1
    <3>1. m * d >= m
      BY <2>1, <2>2
    <3>2. QED
      BY <3>1, <2>1, <1>2
  <2>3. CASE d <= -1
    <3>1. m * d <= -m
      BY <2>1, <2>3
    <3>2. QED
      BY <3>1, <2>1, <1>2
  <2>4. CASE d = 0
    BY <2>4, <1>2 DEF d
  <2>5. QED
    BY <2>1, <2>2, <2>3, <2>4
<1>4. s = r
  BY <1>2, <1>3
<1>5. QED
  BY <1>3, <1>4 DEF p, s

LEMMA QuotientOfQuotient ==
  ASSUME NEW m \in Nat \ {0}, NEW n \in Nat \ {0}, NEW x \in Int
  PROVE  x \div (m * n) = (x \div m) \div n
<1> DEFINE q == x \div m
           r == x % m
           p == q \div n
           s == q % n
<1>1. q \in Int /\ r \in 0 .. m - 1 /\ x = m * q + r
  BY DivMod
<1>2. p \in Int /\ s \in 0 .. n - 1 /\ q = n * p + s
  BY <1>1, DivMod
<1> HIDE DEF q, r, p, s
<1>3. r + m * s \in 0 .. m * n - 1
  BY <1>1, <1>2, Digits
<1>4. m * n \in Nat \ {0}
  <2>1. m >= 1 /\ n >= 1
    OBVIOUS
  <2>2. m * n >= m /\ m * n \in Int
    BY <2>1
  <2>3. QED
    BY <2>1, <2>2
<1>5. x = (m * n) * p + (r + m * s)
  <2>1. m * (n * p + s) = (m * n) * p + m * s
    BY <1>2
  <2>2. QED
    BY <1>1, <1>2, <2>1
<1>6. x \div (m * n) = p
  BY ONLY <1>2, <1>3, <1>4, <1>5, QuotientUnique
<1>7. QED
  BY <1>6 DEF p, q

\* The lower two bytes of a number are its lower half.
LEMMA LowHalf ==
  ASSUME NEW w \in Int
  PROVE  (w % Radix) + Radix * ((w \div Radix) % Radix) = w % Half
<1> DEFINE q == w \div Radix
           r == w % Radix
           p == q \div Radix
           s == q % Radix
<1>0. Radix \in Nat \ {0} /\ Half = Radix * Radix /\ Half \in Nat \ {0}
  BY Sizes DEF Half
<1>1. q \in Int /\ r \in 0 .. Radix - 1 /\ w = Radix * q + r
  BY <1>0, DivMod
<1>2. p \in Int /\ s \in 0 .. Radix - 1 /\ q = Radix * p + s
  BY <1>0, <1>1, DivMod
<1> HIDE DEF q, r, p, s
<1>3. r + Radix * s \in 0 .. Half - 1
  BY <1>0, <1>1, <1>2, Digits
<1>4. w = Half * p + (r + Radix * s)
  <2>1. Radix * (Radix * p + s) = (Radix * Radix) * p + Radix * s
    BY <1>0, <1>2
  <2>2. QED
    BY <1>0, <1>1, <1>2, <2>1
<1>5. w % Half = r + Radix * s
  BY ONLY <1>0, <1>2, <1>3, <1>4, QuotientUnique
<1>6. QED
  BY <1>5 DEF q, r, s

\* The bytes of a number give the number back.
LEMMA BytesBack ==
  /\ \A v \in Byte : Value(Bytes(v, 1), 1) = v
  /\ \A h \in HalfWord : Value(Bytes(h, 2), 2) = h
  /\ \A w \in Word : Value(Bytes(w, 4), 4) = w
<1>0. Radix \in Nat \ {0} /\ Half = Radix * Radix /\ Words = Half * Half /\ Half \in Nat \ {0}
  BY Sizes DEF Half, Words
<1>1. ASSUME NEW v \in Byte PROVE Value(Bytes(v, 1), 1) = v
  <2>1. v \div 1 = v /\ v % Radix = v
    BY <1>0 DEF Byte
  <2>2. QED
    BY <2>1 DEF Value, Bytes, Weight
<1>2. \A w \in Int : (w % Radix) + Radix * ((w \div Radix) % Radix) = w % Half
  BY LowHalf
<1>3. ASSUME NEW h \in HalfWord PROVE Value(Bytes(h, 2), 2) = h
  <2>1. h \in Int /\ h \div 1 = h /\ h % Half = h
    BY <1>0 DEF HalfWord
  <2>2. Value(Bytes(h, 2), 2) = (h % Radix) + Radix * ((h \div Radix) % Radix)
    BY <2>1 DEF Value, Bytes, Weight
  <2>3. QED
    BY <1>2, <2>1, <2>2
<1>4. ASSUME NEW w \in Word PROVE Value(Bytes(w, 4), 4) = w
  <2>1. w \in Int /\ w \in 0 .. Half * Half - 1 /\ w \div 1 = w
    BY <1>0 DEF Word
  <2> DEFINE hi == w \div Half
  <2>2. hi \in Int /\ w % Half \in 0 .. Half - 1 /\ w = Half * hi + (w % Half)
    BY <1>0, <2>1, DivMod
  <2>3. w \div (Half * Radix) = hi \div Radix
    BY <1>0, <2>1, QuotientOfQuotient
  <2>4. Value(Bytes(w, 4), 4) = (w % Radix) + Radix * ((w \div Radix) % Radix)
                                + Half * ((hi % Radix) + Radix * ((hi \div Radix) % Radix))
    BY <2>1, <2>3 DEF Value, Bytes, Weight
  <2>5. hi \in 0 .. Half - 1
    <3> DEFINE lo == w % Half
    <3>1. hi \in Int /\ lo \in 0 .. Half - 1 /\ Half * hi + lo >= 0 /\ Half * hi + lo <= Half * Half - 1
      BY <2>1, <2>2
    <3> HIDE DEF hi, lo
    <3>2. hi >= 0
      <4>1. CASE hi <= -1
        <5>1. Half * hi <= -Half
          BY <1>0, <3>1, <4>1
        <5>2. QED
          BY <1>0, <3>1, <5>1
      <4>2. QED
        BY <3>1, <4>1
    <3>3. hi <= Half - 1
      <4>1. CASE hi >= Half
        <5>1. Half * hi >= Half * Half
          BY <1>0, <3>1, <4>1
        <5>2. QED
          BY <1>0, <3>1, <5>1
      <4>2. QED
        BY <1>0, <3>1, <4>1
    <3>4. QED
      BY <3>1, <3>2, <3>3
  <2>6. hi % Half = hi
    BY <1>0, <2>5
  <2> HIDE DEF hi
  <2>7. Value(Bytes(w, 4), 4) = (w % Half) + Half * (hi % Half)
    BY <1>2, <2>1, <2>2, <2>4
  <2>8. QED
    BY <1>0, <2>2, <2>6, <2>7
<1>5. QED
  BY <1>1, <1>3, <1>4

\* A cell of memory, as a distance from an address in memory.
LEMMA CellOffset ==
  ASSUME NEW a \in Cells, NEW c \in Cells
  PROVE  /\ c >= a => Offset(c, a) = c - a
         /\ c < a => Offset(c, a) >= 8
         /\ Offset(c, a) \in Nat
<1>1. a \in 0 .. MemorySize /\ c \in 0 .. MemorySize /\ MemorySize \in Nat /\ Words \in Nat /\ MemorySize + 8 <= Words
  BY Sizes DEF Cells
<1>2. CASE c >= a
  <2>1. c - a \in 0 .. Words - 1
    BY <1>1, <1>2
  <2>2. (c - a) % Words = c - a
    BY <1>1, <2>1
  <2>3. QED
    BY <1>2, <1>1, <2>1, <2>2 DEF Offset
<1>3. CASE c < a
  <2> DEFINE r == c - a + Words
  <2>1. r \in 0 .. Words - 1 /\ r >= 8 /\ c - a = Words * (-1) + r /\ -1 \in Int /\ Words \in Nat \ {0}
    BY <1>1, <1>3
  <2> HIDE DEF r
  <2>2. (Words * (-1) + r) % Words = r
    BY ONLY <2>1, QuotientUnique
  <2>3. (c - a) % Words = r
    BY <2>1, <2>2
  <2>4. QED
    BY <1>1, <1>3, <2>1, <2>3 DEF Offset
<1>4. QED
  BY <1>1, <1>2, <1>3

\* Addresses inside memory do not wrap.
LEMMA InsideMemory ==
  ASSUME NEW a \in Nat, NEW n \in Nat, a + n - 1 <= MemorySize, NEW k \in 1 .. n
  PROVE  (a + k - 1) % Words = a + k - 1 /\ a + k - 1 \in Cells /\ ~(a + k - 1 > MemorySize)
<1>1. a + k - 1 \in Nat /\ a + k - 1 <= MemorySize /\ MemorySize \in Nat /\ Words \in Nat /\ MemorySize + 8 <= Words
  BY Sizes
<1> DEFINE c == a + k - 1
<1>2. c \in 0 .. Words - 1 /\ c \in 0 .. MemorySize
  BY <1>1
<1> HIDE DEF c
<1>3. c % Words = c
  BY <1>1, <1>2
<1>4. QED
  BY <1>1, <1>2, <1>3 DEF c, Cells

\* set_memory32 and get_memory32, and those of half words and bytes: what is
\* stored inside the memory is loaded again, and no other cell changes.
THEOREM StoredIsLoaded ==
  ASSUME NEW mem \in [Cells -> Byte], NEW w \in Word, NEW n \in {1, 2, 4},
         NEW a \in Nat, a + n - 1 <= MemorySize
  PROVE  /\ n = 1 => GetMemory(SetMemory(mem, a, Bytes(w, n), n), a, n) = w % Radix
         /\ n = 2 => GetMemory(SetMemory(mem, a, Bytes(w, n), n), a, n) = w % Half
         /\ n = 4 => GetMemory(SetMemory(mem, a, Bytes(w, n), n), a, n) = w
         /\ \A c \in Cells \ (a .. a + n - 1) : SetMemory(mem, a, Bytes(w, n), n)[c] = mem[c]
<1> DEFINE after == SetMemory(mem, a, Bytes(w, n), n)
<1>1. a \in Cells /\ n \in Nat /\ n <= 8 /\ DOMAIN mem = Cells
  BY Sizes DEF Cells
<1>2. ASSUME NEW c \in Cells
      PROVE  after[c] = IF Offset(c, a) < n THEN Bytes(w, n)[Offset(c, a) + 1] ELSE mem[c]
  BY <1>1 DEF SetMemory
<1> HIDE DEF after
<1>3. ASSUME NEW k \in 1 .. n PROVE GetMemory8(after, (a + k - 1) % Words) = Bytes(w, n)[k]
  <2>1. (a + k - 1) % Words = a + k - 1 /\ a + k - 1 \in Cells /\ ~(a + k - 1 > MemorySize)
    BY <1>1, InsideMemory
  <2>2. Offset(a + k - 1, a) = k - 1
    <3>1. a + k - 1 >= a /\ a + k - 1 - a = k - 1
      BY <1>1
    <3>2. QED
      BY <1>1, <2>1, <3>1, CellOffset
  <2>3. k - 1 < n /\ k - 1 + 1 = k
    BY <1>1
  <2>4. after[a + k - 1] = Bytes(w, n)[k]
    BY <1>2, <2>1, <2>2, <2>3
  <2>5. QED
    BY <2>1, <2>4 DEF GetMemory8
<1>4. [k \in 1 .. n |-> GetMemory8(after, (a + k - 1) % Words)] = Bytes(w, n)
  BY <1>3 DEF Bytes
<1>5. GetMemory(after, a, n) = Value(Bytes(w, n), n)
  BY <1>4 DEF GetMemory
<1>6. n = 1 => GetMemory(after, a, n) = w % Radix
  <2>1. w \in Int /\ w \div 1 = w
    BY DEF Word
  <2>2. Value(Bytes(w, 1), 1) = w % Radix
    BY <2>1 DEF Value, Bytes, Weight
  <2>3. QED
    BY <1>5, <2>2
<1>7. n = 2 => GetMemory(after, a, n) = w % Half
  <2>1. w \in Int /\ w \div 1 = w
    BY Sizes DEF Word
  <2>2. Value(Bytes(w, 2), 2) = (w % Radix) + Radix * ((w \div Radix) % Radix)
    BY <2>1 DEF Value, Bytes, Weight
  <2>3. (w % Radix) + Radix * ((w \div Radix) % Radix) = w % Half
    BY <2>1, LowHalf
  <2>4. QED
    BY <1>5, <2>2, <2>3
<1>8. n = 4 => GetMemory(after, a, n) = w
  BY <1>5, BytesBack
<1>9. ASSUME NEW c \in Cells \ (a .. a + n - 1) PROVE after[c] = mem[c]
  <2>1. c < a \/ c >= a + n
    <3>1. c \in Int
      BY Sizes DEF Cells
    <3>2. QED
      BY <1>1, <3>1
  <2>2. Offset(c, a) >= n /\ Offset(c, a) \in Nat
    <3>1. c \in Int
      BY Sizes DEF Cells
    <3>2. CASE c < a
      <4>1. Offset(c, a) >= 8 /\ Offset(c, a) \in Nat
        BY <1>1, <3>2, CellOffset
      <4>2. QED
        BY <1>1, <4>1
    <3>3. CASE c >= a + n
      <4>1. Offset(c, a) = c - a /\ Offset(c, a) \in Nat
        <5>1. c >= a
          BY <1>1, <3>1, <3>3
        <5>2. QED
          BY <1>1, <5>1, CellOffset
      <4>2. QED
        BY <1>1, <3>1, <3>3, <4>1
    <3>4. QED
      BY <2>1, <3>2, <3>3
  <2>3. ~(Offset(c, a) < n)
    BY <1>1, <2>2
  <2>4. QED
    BY <1>2, <2>3
<1>10. QED
  BY <1>6, <1>7, <1>8, <1>9 DEF after

\* Push32 inside the memory: what ESP points at afterwards is the word
\* pushed, as Pop32 will read it.
THEOREM PushedIsPopped ==
  ASSUME Inv, NEW w \in Word, Push32(w), reg[4].reg32 >= 4, reg[4].reg32 - 1 <= MemorySize
  PROVE  /\ reg'[4].reg32 = reg[4].reg32 - 4
         /\ GetMemory(memory', reg'[4].reg32, 4) = w
<1> DEFINE esp == (Mirrored[4].reg32 - 4) % Words
<1>1. 4 \in RegNumber /\ Mirrored[4].reg32 = reg[4].reg32 /\ reg[4].reg32 \in Word
  <2>1. 4 \in RegNumber
    BY DEF RegNumber
  <2>2. QED
    BY <2>1, MirroredType, Mirrored32
<1>2. esp = reg[4].reg32 - 4 /\ esp \in Nat /\ esp \in Word
  <2> DEFINE x == reg[4].reg32
  <2>1. x - 4 \in 0 .. Words - 1 /\ Words \in Nat
    BY <1>1, Sizes DEF Word
  <2> HIDE DEF x
  <2>2. (x - 4) % Words = x - 4
    BY <2>1
  <2>3. esp = x - 4
    BY <1>1, <2>2 DEF x
  <2>4. QED
    BY <2>1, <2>3 DEF x, Word
<1> HIDE DEF esp
<1>3. reg' = SetRegister32(Mirrored, 4, esp) /\ memory' = SetMemory(memory, esp, Bytes(w, 4), 4)
  BY DEF Push32, esp
<1>4. reg'[4].reg32 = esp
  BY <1>1, <1>3, MirroredType DEF SetRegister32, Register
<1>5. memory \in [Cells -> Byte]
  BY DEF Inv, TypeOK
<1>6. esp + 4 - 1 <= MemorySize
  <2> DEFINE x == reg[4].reg32
  <2>1. x \in Int /\ MemorySize \in Int
    BY <1>1, Sizes DEF Word
  <2>2. x - 1 <= MemorySize /\ esp = x - 4
    BY <1>2
  <2> HIDE DEF x
  <2>3. QED
    BY <2>1, <2>2
<1>7. GetMemory(SetMemory(memory, esp, Bytes(w, 4), 4), esp, 4) = w
  BY <1>2, <1>5, <1>6, StoredIsLoaded
<1>8. QED
  BY <1>2, <1>3, <1>4, <1>7
=============================================================================
