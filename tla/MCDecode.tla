------------------------------ MODULE MCDecode ------------------------------
(***************************************************************************)
(* A byte of data has four values, so a word has 256.  The guests are      *)
(* pairs of instructions, the first one to leave something behind in instr *)
(* and in the registers, the second from a list with every opcode that has *)
(* a handler and every form of operand; a few longer guests jump, or are   *)
(* taken from the tests of the emulator.                                   *)
(***************************************************************************)
EXTENDS Decode, SequencesExt

Reg(n) == [kind |-> "reg", number |-> n]

Little(w, n) == [k \in 1 .. 4 |-> IF k <= n THEN (w \div 4^(k - 1)) % 4 ELSE 0]

Mem(b, x, s, n, d) == [kind |-> "mem", base |-> b, index |-> x, scale |-> s, size |-> n, disp |-> Little(d, n)]

AtReg(b) == Mem(b, None, 0, 0, 0)
Near(b, d) == Mem(b, None, 0, 1, d % 4)
Far(b, d) == Mem(b, None, 0, 4, d)
At32(d) == Mem(None, None, 0, 4, d)

I(op, r, rm, w) ==
  [op |-> op, prefixed |-> FALSE, reg |-> r, rm |-> rm,
   imm |-> SubSeq(Little(w, 4), 1, ImmSize(op, r))]
Short(i) == [i EXCEPT !.prefixed = TRUE]
N(op, r, w) == I(op, r, Reg(0), w)

\* The bytes of an instruction, as an assembler arranges them.
Encode(i) ==
  (IF i.prefixed THEN <<\h66>> ELSE <<>>)
  \o (IF i.op > 255 THEN <<\h0F, i.op - \h0F00>>
      ELSE <<IF i.op \in WithRegister THEN i.op + i.reg ELSE i.op>>)
  \o (IF i.op \notin WithModRM THEN <<>>
      ELSE <<64 * ModBits(i.rm) + 8 * i.reg + RmBits(i.rm)>>
           \o (IF NeedsSib(i.rm) THEN <<SibByte(i.rm)>> ELSE <<>>)
           \o (IF IsMem(i.rm) THEN SubSeq(i.rm.disp, 1, i.rm.size) ELSE <<>>))
  \o i.imm

Assemble(list) ==
  LET bytes == FlattenSeq([k \in 1 .. Len(list) |-> Encode(list[k])])
      address[k \in 1 .. Len(list) + 1] == IF k = 1 THEN 1 ELSE address[k - 1] + Length(list[k - 1])
  IN  [start |-> 1, end |-> address[Len(list) + 1],
       code  |-> [a \in 1 .. Len(bytes) |-> bytes[a]],
       items |-> [a \in {address[k] : k \in 1 .. Len(list)} |->
                    list[CHOOSE k \in 1 .. Len(list) : address[k] = a]]]

-----------------------------------------------------------------------------
Before ==
  {N(\h90, 0, 0),                       \* nop
   I(\h8B, 1, Far(3, 2), 0),            \* mov ecx,[ebx+2], 32-bit displacement
   I(\h89, 2, Near(5, -2), 0),          \* mov [ebp-2],edx
   I(\h8D, 6, Mem(3, 1, 2, 1, 1), 0),   \* lea esi,[ebx+ecx*4+1]
   N(\hB8, 0, 200),                     \* mov eax,200
   I(\h8A, 0, AtReg(6), 0),             \* mov al,[esi]
   Short(I(\h8B, 0, Near(3, 1), 0)),    \* mov ax,[ebx+1]
   I(\hC6, 0, Reg(1), 3)}               \* mov cl,3

Operands32 ==
  {Reg(1), Reg(7), AtReg(3), Near(5, -1), Far(6, 254), At32(12), Mem(4, None, 0, 0, 0),
   Mem(4, None, 0, 1, -2 % 4), Mem(3, 1, 2, 0, 0), Mem(5, 0, 1, 1, 1), Mem(6, 2, 3, 4, 9),
   Mem(None, 1, 2, 4, 7), Mem(4, 1, 1, 0, 0)}

After ==
  {I(\h01, 2, o, 0) : o \in Operands32}
  \cup {I(op, 2, o, 0) : o \in {Reg(6), Near(5, -2)},
          op \in {\h03, \h09, \h0B, \h28, \h29, \h2B, \h31, \h33, \h38, \h39, \h3A, \h3B, \h84, \h85,
                  \h88, \h89, \h8B, \h8E, \h0FAF, \h0FB6, \h0FB7, \h0FBE, \h0FBF}}
  \cup {I(op, 3, At32(20), 250) : op \in {\h69, \h6B}}
  \cup {I(op, 0, o, 250) : op \in {\h8A, \hC6, \hC7, \hF6, \hF7}, o \in {Reg(2), Mem(4, None, 0, 0, 0)}}
  \cup {I(op, d, o, 2) : op \in {\h80, \h81, \h83, \hC0, \hC1, \hD3}, d \in RegNumber, o \in {Reg(3), Near(5, 1)}}
  \cup {I(op, 4, Reg(0), 255) : op \in {\h81, \h83}}
  \cup {I(\h8D, 2, Near(5, -2), 0)}
  \cup {I(\hFF, d, AtReg(7), 0) : d \in RegNumber \ {5}}
  \cup {I(\hF6, 1, Reg(0), 0), I(\hF7, 2, Reg(0), 0), I(\hF7, 7, Reg(3), 0), I(\hF7, 7, Reg(6), 0)}
  \cup {I(\h0F01, d, Mem(4, None, 0, 1, 1), 0) : d \in {1, 2, 3}}
  \cup {N(op, 0, 202) : op \in OneByte}
  \cup {N(\h6A, 0, 1)}
  \cup {N(op, r, 77) : op \in WithRegister, r \in {1, 4}}
  \cup {Short(I(op, 1, o, 0)) : op \in {\h01, \h89, \h8B, \h8C}, o \in {Reg(2), Near(3, 1), Far(3, 2), AtReg(6)}}
  \cup {Short(N(\hFA, 0, 0))}

\* jnz to itself, jmp over an instruction, jz and call over two, and setnz
\* before the instructions it steps over
Jumping ==
  {<<N(\h40, 1, 0), N(op, 0, -2 % 4), N(\h48, 2, 0)>> : op \in ShortJumps}
  \cup {<<N(op, 0, 1), N(\h40, 1, 0), N(\h48, 2, 0)>> : op \in ShortJumps}
  \cup {<<N(op, 0, 2), N(\h40, 1, 0), N(\h48, 2, 0), N(\h50, 3, 0)>> : op \in NearJumps}
  \cup {<<N(\h40, 1, 0), N(op, 0, -6 % 256), N(\h48, 2, 0)>> : op \in NearJumps}
  \cup {<<I(\h0F95, 0, Reg(2), 0), N(\h90, 0, 0), N(\h90, 0, 0), I(\h01, 1, Near(5, 1), 0)>>}

\* test/testOr.asm and test/testXor.asm, test02.nask up to ret, with shorter
\* constants
Tested ==
  {<<N(\hB8, 0, 5), I(\hC7, 0, Far(0, 8), 120), I(\h09, 0, Far(0, 8), 0), N(\h0D, 0, 120)>>,
   <<N(\hB8, 0, 5), I(\hC7, 0, Far(0, 8), 120), I(\h31, 0, Far(0, 8), 0), I(\h33, 0, Far(0, 8), 0)>>,
   <<N(\hB8, 0, 10), N(\hB8, 3, 1), N(\hE8, 0, 2), N(\hEB, 0, -2 % 4), I(\hC7, 0, AtReg(0), 15), I(\h01, 3, Reg(0), 0)>>}

MCPrograms ==
  {Assemble(list) : list \in (Before \X After) \cup Jumping \cup Tested}

\* test/testOr.asm, lines 6 and 8
OrPrograms ==
  {Assemble(<<N(\hB8, 0, 5), I(\hC7, 0, Far(0, 8), 120), i>>) :
     i \in {I(\h0B, 0, Far(0, 8), 0), I(\h81, 1, Far(0, 8), 120)}}

-----------------------------------------------------------------------------
Numbered8(s) == [r \in RegNumber |-> s[r + 1]]

MCBoot == {Numbered8(<<6, 3, 9, 12, 30, 16, 21, 33>>), Numbered8(<<250, 130, 255, 5, 35, 20, 2, 40>>)}

MCFill == {[c \in Cells |-> (c * c + c \div 4) % 4]}

MCStale ==
  {[prefix |-> -1, opcode |-> 0, Mod |-> 0, reg_index |-> 0, RM |-> 0, sib |-> 0, disp |-> <<0, 0, 0, 0>>],
   [prefix |-> 0, opcode |-> 1, Mod |-> 2, reg_index |-> 7, RM |-> 5, sib |-> 155, disp |-> <<1, 3, 2, 3>>]}

Bit(x, k) == (x \div 2^k) % 2
OfBits(b) == MapThenSumSet(LAMBDA k : b[k] * 2^k, 0 .. 7)

MCLogic ==
  [f \in {"and", "or", "xor"} |->
     [p \in Word \X Word |->
        OfBits([k \in 0 .. 7 |-> LET n == Bit(p[1], k) + Bit(p[2], k)
                                 IN  IF n = (IF f = "and" THEN 2 ELSE 1) \/ (f = "or" /\ n = 2) THEN 1 ELSE 0])]]
=============================================================================
