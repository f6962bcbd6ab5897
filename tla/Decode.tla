------------------------------- MODULE Decode -------------------------------
(***************************************************************************)
(* One turn of the main loop (main.cpp) for the instructions that decode   *)
(* an operand, an immediate or a displacement, or move whole registers:    *)
(* the copies of EAX, ECX and EDX, the prefix, the opcode, the tables of   *)
(* handlers (Instruction32.cpp, Instruction16.cpp), ModRM, and what each   *)
(* handler writes and adds to EIP.                                         *)
(*                                                                         *)
(* Flags are Arith's concern and a conditional jump may go either way; the *)
(* stack, returns and interrupts are CpuStack's, task switches             *)
(* TaskSwitch's.  A guest's program comes with its listing (Isa).          *)
(***************************************************************************)
EXTENDS Isa

CONSTANTS
  Programs,   \* what the guest may be
  Boot,       \* values of the 32-bit registers at the start
  Fill,       \* contents of memory at the start
  Stale       \* contents of instr at the start, which nothing initialises

ASSUME ProgramsAssumption == \A p \in Programs : WellFormed(p)

Cells == 0 .. MemorySize

ASSUME StartAssumption ==
  /\ Boot \subseteq [RegNumber -> Word]
  /\ Fill \subseteq [Cells -> Byte]
  /\ Stale \subseteq InstrData

VARIABLES
  program,    \* the guest
  eip,
  reg,
  sreg,
  memory,
  instr,
  dtr         \* table_limit and base_addr of GDTR and IDTR

vars == <<program, eip, reg, sreg, memory, instr, dtr>>

Junk == {0, 1}              \* what an unassigned local variable may hold
SegmentRegisters == 0 .. 5

Tables == {"gdtr", "idtr"}
Table == [limit : HalfWord, base : Word]

Init ==
  /\ program \in Programs
  /\ eip = program.start
  /\ \E boot \in Boot :
       reg = [r \in RegNumber |-> [reg32 |-> boot[r], reg16 |-> 0, low8 |-> 0, high8 |-> 0]]
  /\ sreg = [s \in SegmentRegisters |-> 0]
  /\ memory \in Fill
  /\ instr \in Stale
  /\ dtr = [t \in Tables |-> [limit |-> Half - 1, base |-> 0]]

-----------------------------------------------------------------------------
(***************************************************************************)
(* The top of the loop.                                                    *)
(***************************************************************************)
\* Mutant: the copies are not refreshed.
MirroredMutant == reg

\* AX, AL and AH are copied from EAX, likewise for EDX and ECX; AH gets the
\* lowest byte.
Mirrored ==
  [r \in RegNumber |->
     IF r \in {0, 1, 2}
     THEN [reg32 |-> reg[r].reg32, reg16 |-> reg[r].reg32 % Half,
           low8 |-> reg[r].reg32 % Radix, high8 |-> reg[r].reg32 % Radix]
     ELSE reg[r]]

Code(a) == Code8(program.code, a)

\* parse_prefix
Prefix == IF Code(eip) = \h66 THEN 0 ELSE -1
OpcodeAt == IF Prefix = 0 THEN eip + 1 ELSE eip

\* EIP when the handler is called, on the last byte of the opcode.
HandlerEip == IF Code(OpcodeAt) = \h0F THEN OpcodeAt + 1 ELSE OpcodeAt

Opcode == IF Code(OpcodeAt) = \h0F THEN \h0F00 + Code(OpcodeAt + 1) ELSE Code(OpcodeAt)

Fetched == [instr EXCEPT !.prefix = Prefix, !.opcode = Opcode]

\* emu->EIP++ and the constructor of ModRM, in most handlers
Parsed == Parse(Fetched, program.code, HandlerEip + 1)

CodeValue(a, n) == Value(CodeBytes(program.code, a, n), n)
Code32(a) == CodeValue(a, 4)
SignCode8(a) == Signed(CodeValue(a, 1), Radix) % Words

\* The loop ends at address 0 and beyond the memory.
Running == eip # 0 /\ eip <= MemorySize

Handler32(ops) == Running /\ Prefix # 0 /\ Opcode \in ops
Handler16(ops) == Running /\ Prefix = 0 /\ Opcode \in ops

-----------------------------------------------------------------------------
(***************************************************************************)
(* What handlers read and write.  After is the registers and instr at the  *)
(* end of the handler.                                                     *)
(***************************************************************************)
Address(junk) == CalcMemAddr(Parsed.instr, Mirrored, junk)
RM == Parsed.instr.RM
Digit == Parsed.instr.reg_index
InRegister == Parsed.instr.Mod = 3

RM8(junk) == IF InRegister THEN GetRegister8(Mirrored, RM) ELSE GetMemory(memory, Address(junk), 1)
RM16(junk) == IF InRegister THEN Mirrored[RM].reg16 ELSE GetMemory(memory, Address(junk), 2)
RM32(junk) == IF InRegister THEN Mirrored[RM].reg32 ELSE GetMemory(memory, Address(junk), 4)
R8 == GetRegister8(Mirrored, Digit)
R16 == Mirrored[Digit].reg16
R32 == Mirrored[Digit].reg32

Goto(i, a) == instr' = i /\ eip' = a % Words /\ UNCHANGED <<program, dtr>>

SetRegisters(f) == reg' = f /\ UNCHANGED <<sreg, memory>>
NoWrite == SetRegisters(Mirrored)
SetMem(a, w, n) == memory' = SetMemory(memory, a, Bytes(w, n), n) /\ reg' = Mirrored /\ UNCHANGED sreg

SetR32(w) == SetRegisters(SetRegister32(Mirrored, Digit, w))

\* SetR8, which copies AL to EAX
SetR8(v) ==
  LET f == SetRegister8(Mirrored, Digit, v)
  IN  SetRegisters(IF Digit = 0 THEN SetRegister32(f, 0, f[0].reg32 - (f[0].reg32 % Radix) + v) ELSE f)

SetRM8(v, junk) ==
  IF InRegister THEN SetRegisters(SetRegister8(Mirrored, RM, v)) ELSE SetMem(Address(junk), v, 1)
SetRM16(v, junk) ==
  IF InRegister THEN SetRegisters(SetRegister16(Mirrored, RM, v)) ELSE SetMem(Address(junk), v, 2)
SetRM32(w, junk) ==
  IF InRegister THEN SetRegisters(SetRegister32(Mirrored, RM, w)) ELSE SetMem(Address(junk), w, 4)

Eax(w) == SetRegisters(SetRegister32(Mirrored, 0, w))

\* Push32
Push32(w) ==
  LET esp == (Mirrored[4].reg32 - 4) % Words
  IN  /\ reg' = SetRegister32(Mirrored, 4, esp)
      /\ memory' = SetMemory(memory, esp, Bytes(w, 4), 4)
      /\ UNCHANGED sreg

\* A handler with a ModRM byte, followed by n bytes of immediate.
Operands(ops, n) == Handler32(ops) /\ Goto(Parsed.instr, Parsed.eip + n)
Immediate32 == Code32(Parsed.eip)
Immediate8 == SignCode8(Parsed.eip)

\* A handler without one, whose instruction has n bytes from EIP on.
Plain(ops, n) == Handler32(ops) /\ Goto(Fetched, HandlerEip + n)

-----------------------------------------------------------------------------
(***************************************************************************)
(* Handlers of whole words.                                                *)
(***************************************************************************)
\* instructions32; 0x0b is or_rm32_r32 too.
ToRM(op) ==
  CASE op = \h01 -> "add" [] op \in {\h09, \h0B} -> "or" [] op = \h29 -> "sub" [] op = \h31 -> "xor" [] OTHER -> "mov"

\* add_rm32_r32, or_rm32_r32, sub_rm32_r32, xor_rm32_r32, mov_rm32_r32
RmR32 ==
  /\ Operands({\h01, \h09, \h0B, \h29, \h31, \h89}, 0)
  /\ \E junk \in Junk : SetRM32(Alu(ToRM(Opcode), RM32(junk), R32), junk)

\* add_r32_rm32, sub_r32_rm32 (which subtracts the other way round),
\* xor_r32_rm32, mov_r32_rm32
RRm32 ==
  /\ Operands({\h03, \h2B, \h33, \h8B}, 0)
  /\ \E junk \in Junk :
       SetR32(CASE Opcode = \h03 -> Alu("add", R32, RM32(junk))
                [] Opcode = \h2B -> Alu("sub", RM32(junk), R32)
                [] Opcode = \h33 -> Alu("xor", R32, RM32(junk))
                [] OTHER -> RM32(junk))

\* cmp_rm32_r32, cmp_r32_rm32, test_rm32_r32, cmp_rm8_r8, cmp_r8_rm8, test_rm8_r8
Compare == Operands({\h38, \h39, \h3A, \h3B, \h84, \h85}, 0) /\ NoWrite

\* add_eax_imm32, or_eax_imm32, and_eax_imm32, sub_eax_imm32, xor_eax_imm32
EaxImm32 ==
  /\ Plain({\h05, \h0D, \h25, \h2D, \h35}, 5)
  /\ Eax(Alu(AluOp(Opcode), Mirrored[0].reg32, Code32(HandlerEip + 1)))

\* cmp_eax_imm32, test_eax_imm32, cmp_al_imm8
CompareEax == NoWrite /\ (Plain({\h3D, \hA9}, 5) \/ Plain({\h3C}, 2))

\* code_81; or_rm32_imm32 keeps the low byte of its immediate.
Code81 ==
  \/ /\ Operands({\h81}, 4)
     /\ \E junk \in Junk :
          \/ /\ Digit \in {0, 1, 4, 5, 6}
             /\ SetRM32(Alu(Family(Digit), RM32(junk),
                            IF Digit = 1 THEN Immediate32 % Radix ELSE Immediate32), junk)
          \/ Digit = 7 /\ NoWrite
  \/ Operands({\h81}, 0) /\ Digit \in {2, 3} /\ NoWrite

\* code_83, with an immediate of one byte, sign extended
Code83 ==
  \/ /\ Operands({\h83}, 1)
     /\ \E junk \in Junk :
          \/ /\ Digit \in {0, 1, 4, 5, 6}
             /\ SetRM32(Alu(Family(Digit), RM32(junk), Immediate8), junk)
          \/ Digit = 7 /\ NoWrite
  \/ Operands({\h83}, 0) /\ Digit \in {2, 3} /\ NoWrite

\* code_c1; sal_rm32_imm8 does not step over its immediate.
CodeC1 ==
  \E junk \in Junk :
    \/ /\ Operands({\hC1}, 1) /\ Digit \in {4, 5, 7}
       /\ SetRM32(Alu(Shift(Digit), RM32(junk), CodeValue(Parsed.eip, 1)), junk)
    \/ /\ Operands({\hC1}, 0) /\ Digit = 6
       /\ SetRM32(Alu("shl", RM32(junk), CodeValue(Parsed.eip, 1)), junk)
    \/ Operands({\hC1}, 0) /\ Digit \in 0 .. 3 /\ NoWrite

\* code_d3; sar_rm32_cl shifts zeros in.
CodeD3 ==
  /\ Operands({\hD3}, 0)
  /\ \E junk \in Junk :
       \/ /\ Digit \in 4 .. 7
          /\ SetRM32(Alu(IF Digit \in {4, 6} THEN "shl" ELSE "shr", RM32(junk), Mirrored[1].low8), junk)
       \/ Digit \in 0 .. 3 /\ NoWrite

\* code_ff: inc_rm32, dec_rm32, push_rm32 (farjump is in TaskSwitch)
CodeFF ==
  /\ Operands({\hFF}, 0)
  /\ \E junk \in Junk :
       \/ Digit = 0 /\ SetRM32((RM32(junk) + 1) % Words, junk)
       \/ Digit = 1 /\ SetRM32((RM32(junk) - 1) % Words, junk)
       \/ Digit = 6 /\ Push32(RM32(junk))
       \/ Digit \in {2, 3, 4, 7} /\ NoWrite

\* code_f6 and code_f7: test_rm8_imm8, test_rm32_imm32
TestImm ==
  /\ NoWrite
  /\ \/ Operands({\hF6}, 1) /\ Digit = 0
     \/ Operands({\hF7}, 4) /\ Digit = 0
     \/ Operands({\hF6}, 0) /\ Digit # 0
     \/ Operands({\hF7}, 0) /\ Digit \in 1 .. 6

\* idiv_edx_eax_rm32; a division by zero ends the process.
Idiv ==
  \E junk \in Junk :
    LET x == Signed(Mirrored[2].reg32 * Words + Mirrored[0].reg32, Words * Words)
        y == AsSigned(RM32(junk))
        q == Quotient(x, y)
    IN  /\ Operands({\hF7}, 0) /\ Digit = 7 /\ y # 0
        /\ SetRegisters(SetRegister32(SetRegister32(Mirrored, 0, q % Words), 2, (x - q * y) % Words))

MovRm32Imm32 ==
  /\ Operands({\hC7}, 4)
  /\ \E junk \in Junk : SetRM32(Immediate32, junk)

Lea == Operands({\h8D}, 0) /\ \E junk \in Junk : SetR32(Address(junk))

\* imul_r32_rm32_imm32, imul_r32_rm32_imm8, and imul_r32_rm32 of low halves
Imul ==
  \E junk \in Junk :
    \/ Operands({\h69}, 4) /\ SetR32(Alu("imul", RM32(junk), Immediate32))
    \/ Operands({\h6B}, 1) /\ SetR32(Alu("imul", RM32(junk), Immediate8))
    \/ /\ Operands({\h0FAF}, 0)
       /\ SetR32((Signed(R32 % Half, Half) * Signed(RM32(junk) % Half, Half)) % Words)

\* movzs_r32_rm8, movzs_r32_rm16, movsx_r32_rm8, movsx_r32_rm16
Extend ==
  \E junk \in Junk :
    \/ Operands({\h0FB6}, 0) /\ SetR32(RM8(junk))
    \/ Operands({\h0FB7}, 0) /\ SetR32(RM16(junk))
    \/ Operands({\h0FBE}, 0) /\ SetR32(Signed(RM8(junk), Radix) % Words)
    \/ Operands({\h0FBF}, 0) /\ SetR32(Signed(RM16(junk), Half) % Words)

\* The register in the last three bits of the opcode.
Numbered(op, n) == Plain(op .. op + 7, n)
Number == Opcode % 8

\* inc_r32, dec_r32, mov_r32_imm32, push_r32, pop_r32
Short32 ==
  LET w == Mirrored[Number].reg32
      set(v) == SetRegisters(SetRegister32(Mirrored, Number, v))
  IN  \/ Numbered(\h40, 1) /\ set((w + 1) % Words)
      \/ Numbered(\h48, 1) /\ set((w - 1) % Words)
      \/ Numbered(\hB8, 5) /\ set(Code32(HandlerEip + 1))
      \/ Numbered(\h50, 1) /\ Push32(w)
      \/ /\ Numbered(\h58, 1)
         /\ SetRegisters(SetRegister32(SetRegister32(Mirrored, 4, (Mirrored[4].reg32 + 4) % Words),
                                       Number, GetMemory(memory, Mirrored[4].reg32, 4)))

\* push_imm32, and push_imm8, which does not extend the sign
PushImm ==
  \/ Plain({\h68}, 5) /\ Push32(Code32(HandlerEip + 1))
  \/ Plain({\h6A}, 2) /\ Push32(CodeValue(HandlerEip + 1, 1))

\* mov_eax_moffs32, mov_moffs32_eax
Moffs32 ==
  LET moffs == Code32(HandlerEip + 1)
  IN  \/ Plain({\hA1}, 5) /\ Eax(GetMemory(memory, moffs, 4))
      \/ Plain({\hA3}, 5) /\ SetMem(moffs, Mirrored[0].reg32, 4)

Cdq ==
  /\ Plain({\h99}, 1)
  /\ SetRegisters(SetRegister32(Mirrored, 2, IF AsSigned(Mirrored[0].reg32) < 0 THEN Words - 1 ELSE 0))

\* lgdt_m32 and lidt_m32
LoadTable ==
  /\ Handler32({\h0F01})
  /\ instr' = Parsed.instr /\ eip' = Parsed.eip % Words
  /\ NoWrite /\ UNCHANGED program
  /\ \/ \E junk \in Junk, t \in Tables :
          /\ Digit = IF t = "gdtr" THEN 2 ELSE 3
          /\ dtr' = [dtr EXCEPT ![t] = [limit |-> GetMemory(memory, Address(junk), 2),
                                        base |-> GetMemory(memory, (Address(junk) + 2) % Words, 4)]]
     \/ Digit \notin {2, 3} /\ UNCHANGED dtr

-----------------------------------------------------------------------------
(***************************************************************************)
(* Handlers of bytes and half words.                                       *)
(***************************************************************************)
MovRm8R8 == Operands({\h88}, 0) /\ \E junk \in Junk : SetRM8(R8, junk)
MovR8Rm8 == Operands({\h8A}, 0) /\ \E junk \in Junk : SetR8(RM8(junk))
MovRm8Imm8 == Operands({\hC6}, 1) /\ \E junk \in Junk : SetRM8(CodeValue(Parsed.eip, 1), junk)
SubRm8R8 == Operands({\h28}, 0) /\ \E junk \in Junk : SetRM8((RM8(junk) - R8) % Radix, junk)

\* code_80 with cmp_rm8_imm8, and code_c0 with shr_rm8_imm8 and sar_rm8_imm8
Code80C0 ==
  \/ Operands({\h80}, 1) /\ Digit = 7 /\ NoWrite
  \/ Operands({\h80}, 0) /\ Digit # 7 /\ NoWrite
  \/ \E junk \in Junk :
       /\ Operands({\hC0}, 1) /\ Digit \in {5, 7}
       /\ SetRM8(Alu(Shift(Digit), IF Digit = 5 THEN RM8(junk) ELSE Signed(RM8(junk), Radix) % Words,
                     CodeValue(Parsed.eip, 1)) % Radix, junk)
  \/ Operands({\hC0}, 0) /\ Digit \notin {5, 7} /\ NoWrite

\* mov_r8_imm8, which replaces the whole register of that number
MovR8Imm8 ==
  Numbered(\hB0, 2) /\ SetRegisters(SetRegister32(Mirrored, Number, CodeValue(HandlerEip + 1, 1)))

WriteAL(v) ==
  LET eax == Mirrored[0].reg32
  IN  SetRegisters(SetRegister32(SetRegister8(Mirrored, 0, v), 0, eax - (eax % Radix) + v))

\* mov_al_moffs8 reads in the code segment, and whatever is beyond the memory.
MovAlMoffs8 ==
  LET moffs == (CsBase + Code32(HandlerEip + 1)) % Words
  IN  /\ Plain({\hA0}, 5)
      /\ \E v \in Byte : (moffs \in Cells => v = memory[moffs]) /\ WriteAL(v)

InAlDx == Plain({\hEC}, 1) /\ \E v \in Byte : WriteAL(v)

MovSregRm16 ==
  /\ Operands({\h8E}, 0) /\ Digit \in SegmentRegisters
  /\ \E junk \in Junk : sreg' = [sreg EXCEPT ![Digit] = RM16(junk)]
  /\ reg' = Mirrored
  /\ UNCHANGED memory

\* setnz_rm8, which steps over two bytes too many
Setnz ==
  /\ Operands({\h0F95}, 2)
  /\ \E z \in {0, 1} : SetRegisters(SetRegister32(Mirrored, RM, z))

\* instructions16, after a prefix 0x66: add_rm16_r16 adds the register twice,
\* mov_r16_rm32 keeps the low half.
Prefixed ==
  /\ Handler16({\h01, \h89, \h8B, \h8C})
  /\ Goto(Parsed.instr, Parsed.eip)
  /\ \E junk \in Junk :
       \/ Opcode = \h01 /\ SetRM16((R16 + R16) % Half, junk)
       \/ Opcode = \h89 /\ SetRM16(R16, junk)
       \/ Opcode = \h8B /\ SetRegisters(SetRegister16(Mirrored, Digit, RM16(junk)))
       \/ Opcode = \h8C /\ Digit \in SegmentRegisters /\ SetRM16(sreg[Digit], junk)

-----------------------------------------------------------------------------
(***************************************************************************)
(* Jumps, and handlers that only step over their opcode here.              *)
(***************************************************************************)
\* jo, jno, jc, jnc, jz_rel8, jnz, jbe, ja, js, jns, jl, jnl, jle, jnle
Conditional8 == \h70 .. \h79 \cup \h7C .. \h7F
\* jz_rel32, jnz_rel32, jbe_rel32, js_rel32, jl_rel32, jnl_rel32, jle_rel32, jnle_rel32
Conditional32 == {\h0F84, \h0F85, \h0F86, \h0F88, \h0F8C, \h0F8D, \h0F8E, \h0F8F}

Jump8(ops) == Handler32(ops) /\ Goto(Fetched, HandlerEip + 2 + SignCode8(HandlerEip + 1))
Jump32(ops) == Handler32(ops) /\ Goto(Fetched, HandlerEip + 5 + Code32(HandlerEip + 1))

Jump ==
  /\ NoWrite
  /\ \/ Jump8(Conditional8 \cup {\hEB})
     \/ Jump32(Conditional32 \cup {\hE9})
     \/ Plain(Conditional8, 2)
     \/ Plain(Conditional32, 5)

CallRel32 == Jump32({\hE8}) /\ Push32((HandlerEip + 5) % Words)

\* nop, out_dx_al, cli, sti; cli after a prefix
Step ==
  \/ Plain({\h90, \hEE, \hFA, \hFB}, 1) /\ NoWrite
  \/ Handler16({\hFA}) /\ Goto(Fetched, HandlerEip + 1) /\ NoWrite

Next ==
  \/ RmR32 \/ RRm32 \/ Compare \/ EaxImm32 \/ CompareEax
  \/ Code81 \/ Code83 \/ CodeC1 \/ CodeD3 \/ CodeFF \/ TestImm \/ Idiv
  \/ MovRm32Imm32 \/ Lea \/ Imul \/ Extend \/ Short32 \/ PushImm \/ Moffs32 \/ Cdq \/ LoadTable
  \/ MovRm8R8 \/ MovR8Rm8 \/ MovRm8Imm8 \/ SubRm8R8 \/ Code80C0 \/ MovR8Imm8
  \/ MovAlMoffs8 \/ InAlDx \/ MovSregRm16 \/ Setnz \/ Prefixed
  \/ Jump \/ CallRel32 \/ Step

Spec == Init /\ [][Next]_vars

-----------------------------------------------------------------------------
(***************************************************************************)
(* Against the listing.                                                    *)
(***************************************************************************)
OnItem == eip \in DOMAIN program.items
Item == program.items[eip]
Registers(f) == [r \in RegNumber |-> f[r].reg32]

\* Displacements that ModRM::Parse steps over: not the one of a scaled index
\* without a base, and after a prefix only a byte, and none for [ESI].
ParsedRight(i) ==
  IsMem(i.rm) =>
    /\ ~(i.rm.base = None /\ i.rm.index # None)
    /\ i.prefixed => i.rm.size # 4 /\ (i.rm.size = 0 => NeedsSib(i.rm) \/ i.rm.base # 6)

\* Instructions whose handler steps over all their bytes: unimplemented
\* /digits leave their immediate, sal_rm32_imm8 too, and setnz_rm8 takes two
\* bytes more.
Measured(i) ==
  /\ i.op \in WithModRM => ParsedRight(i)
  /\ i.op # \h0F95
  /\ i.op = \h80 => i.reg = 7
  /\ i.op \in {\h81, \h83} => i.reg \notin {2, 3}
  /\ i.op = \hC0 => i.reg \in {5, 7}
  /\ i.op = \hC1 => i.reg \in {4, 5, 7}

\* Memory operands whose address is computed right: not those with an index
\* besides ESP, which calc_sib leaves out or replaces by junk.
Addressed(i) == IsMem(i.rm) => ParsedRight(i) /\ ~(i.rm.base = 4 /\ i.rm.index # None)

\* Byte and half word registers that hold what the register does: only EAX,
\* ECX and EDX are copied, and nothing is copied back but AL.
Source8(i) == IsMem(i.rm) \/ i.rm.number \in {0, 1, 2}

\* Instructions that do what they say.
AsWritten(i) ==
  /\ Measured(i)
  /\ i.op \in WithModRM => Addressed(i)
  /\ i.op \notin {\h0B, \h2B, \h0FAF, \hA0, \hB0, \hEC}
  /\ i.op \in {\h0FB6, \h0FB7, \h0FBE, \h0FBF, \h8A} => Source8(i)
  /\ i.op = \h8A => i.reg = 0
  /\ i.op \in {\h28, \h88} => IsMem(i.rm) /\ i.reg \in {0, 1, 2}
  /\ i.op \in {\hC0, \hC6} => IsMem(i.rm)
  /\ i.op = \h81 => i.reg # 1
  /\ i.op = \h6A => SignedImm(i) >= 0
  /\ i.op = \hD3 => i.reg \in {4, 5}
  /\ i.op = \hF6 => i.reg = 0
  /\ i.op = \hF7 => i.reg \in {0, 7}
  /\ i.op = \hFF => i.reg \in {0, 1, 6}
  /\ i.prefixed /\ i.op # \hFA => i.op = \h89 /\ IsMem(i.rm) /\ i.reg \in {0, 1, 2}

-----------------------------------------------------------------------------
(***************************************************************************)
(* Properties.                                                             *)
(***************************************************************************)
\* Registers, memory, segment registers, the decoded instruction and the
\* table registers keep the widths that Emulator.h gives them.
TypeOK ==
  /\ eip \in Nat
  /\ reg \in [RegNumber -> Register]
  /\ sreg \in [SegmentRegisters -> HalfWord]
  /\ memory \in [Cells -> Byte]
  /\ instr \in InstrData
  /\ dtr \in [Tables -> Table]

\* The handlers and ModRM::Parse, each of which adds its own part to EIP,
\* together step over the bytes that the assembler wrote for the instruction,
\* or jump to its target.
FollowsListing == [][OnItem /\ Measured(Item) => eip' \in Successors(Item, eip)]_vars

\* CalcMemAddr arrives at the address of the operand as written, whatever
\* displacement, SIB byte and prefix the instructions before left in instr,
\* and whatever the uninitialised base of calc_sib holds.
AddressAsWritten ==
  OnItem /\ Item.op \in WithModRM /\ IsMem(Item.rm) /\ Addressed(Item) =>
    \A junk \in Junk : Address(junk) = EffectiveAddress(Item.rm, Registers(reg))

\* Fetch, tables of handlers, ModRM and handler together do to 32-bit
\* registers and memory what the instruction means.
DoesWhatItSays ==
  [][OnItem /\ AsWritten(Item) =>
       [R |-> Registers(reg'), mem |-> memory'] = Result(Item, eip, [R |-> Registers(reg), mem |-> memory])]_vars

\* test/testOr.asm: or of a register and memory goes to the register (line 6),
\* and or with an immediate takes all of it (line 8).
OrAsTested ==
  [][OnItem /\ (Item.op = \h0B \/ (Item.op = \h81 /\ Item.reg = 1)) /\ Addressed(Item) =>
       [R |-> Registers(reg'), mem |-> memory'] = Result(Item, eip, [R |-> Registers(reg), mem |-> memory])]_vars
=============================================================================
