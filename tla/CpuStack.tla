------------------------------ MODULE CpuStack ------------------------------
(***************************************************************************)
(* The stack of the guest: the instructions that push and pop              *)
(* (Instruction32.cpp, Push32 and Pop32 of Emulator.cpp), and the frame    *)
(* that delivering an interrupt pushes (interrupt.cpp), which may happen   *)
(* between any two instructions while IF is set.                           *)
(*                                                                         *)
(* Addresses count words of four bytes.  Memory has Size of them; stores   *)
(* beyond it are dropped and loads yield 0, except that the bound test     *)
(* lets the byte at memory_size through.  The registers that instructions  *)
(* save are one function; an instruction moves eip by one.                 *)
(*                                                                         *)
(* saved is a history variable: what the guest has pushed and neither      *)
(* popped nor overwritten, with the registers as they were.  Which request *)
(* is delivered and when it is pending is the concern of Pic.              *)
(***************************************************************************)
EXTENDS Integers, Sequences

CONSTANTS
  Words,      \* values of a word; addresses wrap around
  SegWords,   \* values of a segment register
  Size,       \* words of memory
  Edge,       \* what the byte after the memory may hold
  Boot,       \* registers at the first instruction
  Fill,       \* what memory may hold then
  Instrs,     \* the kinds of instruction the guest executes
  Code,       \* targets of calls and jumps, and interrupt handlers
  Operands,   \* registers that push and pop name
  Moves,      \* <<to, from>>: what moves between registers name
  Loads,      \* <<register, word>>: other values that registers get
  Stores,     \* <<address, word>>: other stores to memory
  Steps       \* instructions in a behaviour (a bound)

Word == 0 .. Words - 1
Address == 0 .. Size - 1

\* The order of pushad.
PushadOrder == <<"eax", "ecx", "edx", "ebx", "esp", "ebp", "esi", "edi">>
General == {"eax", "ecx", "edx", "ebx", "esp", "ebp", "esi", "edi"}
Segment == {"es", "cs", "ss", "ds"}
Reg == General \cup Segment \cup {"eip", "eflags"}

\* Mutant: the whole word is kept.
FitMutant(r, w) == w

\* A segment register takes the low half of a word.
Fit(r, w) == IF r \in Segment THEN w % SegWords ELSE w

Registers == {f \in [Reg -> Word] : \A s \in Segment : f[s] < SegWords}

ASSUME StackAssumption ==
  /\ Words \in Nat /\ SegWords \in 1 .. Words
  /\ Size \in Nat /\ Size + 8 <= Words
  /\ Edge \subseteq Word /\ Fill \subseteq Word /\ Code \subseteq Word
  /\ Boot \subseteq Registers
  /\ Instrs \subseteq STRING
  /\ Operands \subseteq Reg \ {"eip", "eflags", "cs"}
  /\ Moves \subseteq (Reg \ {"eip", "eflags", "cs"}) \X Reg
  /\ Loads \subseteq (Reg \ {"eip", "eflags", "cs"}) \X Word
  /\ Stores \subseteq Word \X Word
  /\ Steps \in Nat

VARIABLES
  reg,        \* the registers; eflags is reg32, apart from the flag bits
  intFlag,    \* eflags.IF
  mem,
  count,      \* instructions executed: only bounds the model
  saved       \* history

vars == <<reg, intFlag, mem, count, saved>>

Init ==
  /\ reg \in Boot
  /\ intFlag \in BOOLEAN      \* never initialised
  /\ mem \in [Address -> Fill]
  /\ count = 0
  /\ saved = {}

-----------------------------------------------------------------------------
(***************************************************************************)
(* Pushing and popping several words.                                      *)
(***************************************************************************)
Plus(a, n) == (a + n) % Words

NextEip == Plus(reg.eip, 1)

\* The entries still on the stack when the pointer is esp.
Above(entries, esp) == {e \in entries : e.low >= esp}

\* Mutant: the word is stored before the pointer moves.
PushAllMutant(names, values, eip) ==
  LET n == Len(names)
      low == Plus(values.esp, -n)
      nth(a) == (values.esp - a + 1) % Words
  IN  /\ mem' = [a \in Address |-> IF nth(a) \in 1 .. n THEN values[names[nth(a)]] ELSE mem[a]]
      /\ reg' = [values EXCEPT !.esp = low, !.eip = eip]
      /\ saved' = Above(saved, low) \cup
           IF low + n <= Size
           THEN {[names |-> names, values |-> values, low |-> low, enabled |-> intFlag]}
           ELSE {}

\* Push32, of the named registers one after the other; then eip is set.
PushAll(names, values, eip) ==
  LET n == Len(names)
      low == Plus(values.esp, -n)
      nth(a) == (values.esp - a) % Words
  IN  /\ mem' = [a \in Address |-> IF nth(a) \in 1 .. n THEN values[names[nth(a)]] ELSE mem[a]]
      /\ reg' = [values EXCEPT !.esp = low, !.eip = eip]
      /\ saved' = Above(saved, low) \cup
           IF low + n <= Size
           THEN {[names |-> names, values |-> values, low |-> low, enabled |-> intFlag]}
           ELSE {}

Read(a, edge) == IF a < Size THEN mem[a] ELSE IF a = Size THEN edge ELSE 0

\* Pop32, of the named registers in order, from a stack pointer; registers
\* are assigned once every word has been read.
PopAll(names, from) ==
  \E edge \in Edge :
    /\ reg' = [r \in Reg |->
                 IF \E i \in 1 .. Len(names) : names[i] = r
                 THEN Fit(r, Read(Plus(from, (CHOOSE i \in 1 .. Len(names) : names[i] = r) - 1), edge))
                 ELSE CASE r = "esp" -> Plus(from, Len(names))
                        [] r = "eip" -> NextEip
                        [] OTHER     -> reg[r]]
    /\ saved' = Above(saved, reg'.esp)
    /\ UNCHANGED mem

-----------------------------------------------------------------------------
(***************************************************************************)
(* Instructions.                                                           *)
(***************************************************************************)
\* The main loop goes on while eip is in memory and not 0.
Instruction(kind) ==
  /\ kind \in Instrs
  /\ reg.eip # 0 /\ reg.eip <= Size
  /\ count < Steps /\ count' = count + 1

\* push_r32, push_rm32, push_imm32, push_imm8, push_es, push_ss, push_ds
Push(r) == Instruction("push") /\ PushAll(<<r>>, reg, NextEip) /\ UNCHANGED intFlag

\* pop_r32, pop_es, pop_ss, pop_ds
Pop(r) == Instruction("pop") /\ PopAll(<<r>>, reg.esp) /\ UNCHANGED intFlag

\* call_rel32
Call(target) ==
  /\ Instruction("call")
  /\ PushAll(<<"eip">>, [reg EXCEPT !.eip = NextEip], target)
  /\ UNCHANGED intFlag

Ret == Instruction("ret") /\ PopAll(<<"eip">>, reg.esp) /\ UNCHANGED intFlag

\* Mutant: ebp is popped from the top of the stack, local variables or not.
LeaveMutant == Instruction("leave") /\ PopAll(<<"ebp">>, reg.esp) /\ UNCHANGED intFlag

Leave == Instruction("leave") /\ PopAll(<<"ebp">>, reg.ebp) /\ UNCHANGED intFlag

Pushad == Instruction("pushad") /\ PushAll(PushadOrder, reg, NextEip) /\ UNCHANGED intFlag

PopadOrder == <<"edi", "esi", "ebp", "esp", "ebx", "edx", "ecx", "eax">>

Popad == Instruction("popad") /\ PopAll(PopadOrder, reg.esp) /\ UNCHANGED intFlag

\* pushfd and popfd, of reg32
Pushfd == Instruction("pushfd") /\ PushAll(<<"eflags">>, reg, NextEip) /\ UNCHANGED intFlag
Popfd == Instruction("popfd") /\ PopAll(<<"eflags">>, reg.esp) /\ UNCHANGED intFlag

\* Mutant: the instruction pointer is pushed before the segment.
InterruptFrameMutant == <<"eflags", "eip", "cs">>

\* What save_regs pushes.
InterruptFrame == <<"eflags", "cs", "eip">>

\* iret, unless it returns from a nested task (TaskSwitch), pops two words
\* more than save_regs has pushed.
Iret ==
  /\ Instruction("iret")
  /\ PopAll(<<"eip", "cs", "eflags", "esp", "ss">>, reg.esp)
  /\ UNCHANGED intFlag

\* exec_interrupt: eip comes from the gate, cs stays.
Interrupt(handler) ==
  /\ reg.eip # 0 /\ reg.eip <= Size
  /\ intFlag /\ intFlag' = FALSE
  /\ PushAll(InterruptFrame, reg, handler)
  /\ UNCHANGED count

Sets(r, w) ==
  /\ Instruction("move")
  /\ reg' = [reg EXCEPT ![r] = Fit(r, w), !.eip = NextEip]
  /\ saved' = Above(saved, reg'.esp)
  /\ UNCHANGED <<intFlag, mem>>

\* Moves, arithmetic and loads.
Move == \E m \in Moves : Sets(m[1], reg[m[2]])
Load == \E l \in Loads : Sets(l[1], l[2])

Covers(e, a) == a \in e.low .. e.low + Len(e.names) - 1

\* A store through a pointer; the guest overwrites what it had saved there.
Store ==
  \E s \in Stores :
    /\ Instruction("store")
    /\ mem' = IF s[1] \in Address THEN [mem EXCEPT ![s[1]] = s[2]] ELSE mem
    /\ reg' = [reg EXCEPT !.eip = NextEip]
    /\ saved' = {e \in saved : ~Covers(e, s[1])}
    /\ UNCHANGED intFlag

\* jumps
Jump ==
  /\ Instruction("jump")
  /\ \E target \in Code : reg' = [reg EXCEPT !.eip = target]
  /\ UNCHANGED <<intFlag, mem, saved>>

Sti == Instruction("sti") /\ intFlag' = TRUE /\ reg' = [reg EXCEPT !.eip = NextEip] /\ UNCHANGED <<mem, saved>>
Cli == Instruction("cli") /\ intFlag' = FALSE /\ reg' = [reg EXCEPT !.eip = NextEip] /\ UNCHANGED <<mem, saved>>

Next ==
  \/ \E r \in Operands : Push(r) \/ Pop(r)
  \/ \E target \in Code : Call(target) \/ Interrupt(target)
  \/ Ret \/ Leave \/ Pushad \/ Popad \/ Pushfd \/ Popfd \/ Iret
  \/ Move \/ Load \/ Store \/ Jump \/ Sti \/ Cli

Spec == Init /\ [][Next]_vars

-----------------------------------------------------------------------------
\* Registers and memory hold words, and segment registers their half of one.
TypeOK ==
  /\ reg \in Registers
  /\ intFlag \in BOOLEAN
  /\ mem \in [Address -> Word]
  /\ count \in 0 .. Steps
  /\ \A e \in saved :
       /\ e.values \in Registers /\ e.enabled \in BOOLEAN
       /\ e.low \in Word /\ e.low + Len(e.names) <= Size

\* Everything the guest has pushed and not overwritten itself is where it was
\* pushed, below whatever interrupts and their handlers push in the meantime.
Intact ==
  \A e \in saved : \A i \in 1 .. Len(e.names) :
    mem[e.low + Len(e.names) - i] = e.values[e.names[i]]

\* What an instruction that pops finds on top is an entry of these registers.
Finds(e, names, esp) == e.low = esp /\ e.names = names

Restored(e, names) == \A r \in names \cup {"esp"} : reg'[r] = e.values[r]

\* ret, leave, pop, popfd and popad undo call, push ebp, push, pushfd and
\* pushad: the registers come back, and with them the stack pointer.
PopsRestore ==
  [][\A e \in saved :
       /\ Ret /\ Finds(e, <<"eip">>, reg.esp) => Restored(e, {"eip"})
       /\ Leave /\ Finds(e, <<"ebp">>, reg.ebp) => Restored(e, {"ebp"})
       /\ Popfd /\ Finds(e, <<"eflags">>, reg.esp) => Restored(e, {"eflags"})
       /\ Popad /\ Finds(e, PushadOrder, reg.esp) => Restored(e, General)
       /\ \A r \in Operands \ {"esp"} :
            Pop(r) /\ Finds(e, <<r>>, reg.esp) => Restored(e, {r})]_vars

\* An interrupted program continues where it was interrupted, in its own
\* code segment (save_regs, iret).
IretResumes ==
  [][\A e \in saved :
       Iret /\ Len(e.names) = 3 /\ e.low = reg.esp
         => \A r \in {"eip", "cs", "eflags"} : reg'[r] = e.values[r]]_vars

\* memo.txt lists the Interrupt Enable Flag as bit 9 of EFLAGS: popfd brings
\* back what it was at the pushfd that it undoes.
PopfdRestoresIF ==
  [][\A e \in saved :
       Popfd /\ Finds(e, <<"eflags">>, reg.esp) => intFlag' = e.enabled]_vars
=============================================================================
