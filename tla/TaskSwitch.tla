----------------------------- MODULE TaskSwitch -----------------------------
(***************************************************************************)
(* Hardware task switching: the task register, the task state segments in  *)
(* memory, and the far jump and the interrupt return that switch tasks     *)
(* (task_switch, farjump and iret in Instruction32.cpp).                   *)
(*                                                                         *)
(* A context is what task_switch copies, field by field, between the       *)
(* registers and a segment: the instruction pointer, the code segment, as  *)
(* stack what iret replaces besides (ESP, SS and reg32 of eflags), and as  *)
(* data the rest (the other registers and segments).  The status bits of   *)
(* eflags are stored apart from reg32 and are not copied: flagBits.        *)
(*                                                                         *)
(* Assumed of the guest: it loads the task register once, before it        *)
(* switches; its selectors point into the GDT, which does not change; a    *)
(* selector it returns to names a task.                                    *)
(***************************************************************************)
EXTENDS Naturals

CONSTANTS
  Base, NoBase,   \* addresses of task state segments
  Gdt,            \* the descriptor at each offset of the table
  Selectors,      \* what far jumps may name
  Address, Stack, Data, Ldt, FlagBits,
  NT              \* outcomes of reading the bit NT of iret's local variable

TaskSelectors == {s \in DOMAIN Gdt : Gdt[s].type = "tss"}
CodeSegments == {s \in DOMAIN Gdt : Gdt[s].type = "code"}

\* cs & 0xfffc
Mask(selector) == selector - (selector % 4)

ASSUME GdtAssumption ==
  /\ Gdt \in [DOMAIN Gdt -> [type : {"tss", "code", "none"}, base : Base]]
  /\ DOMAIN Gdt \subseteq {s \in Nat : s % 8 = 0}
  /\ 0 \in DOMAIN Gdt /\ Gdt[0].type = "none"
  /\ Selectors \subseteq Nat /\ \A s \in Selectors : Mask(s) \in DOMAIN Gdt
  /\ NoBase \notin Base
  /\ Address \subseteq Nat \ {0}
  /\ NT \subseteq BOOLEAN

\* A pointer of 0 stops the main loop.
Context == [eip : Address \cup {0}, cs : CodeSegments, stack : Stack, data : Data]
TSS == [prev : TaskSelectors \cup {0}, ldtr : Ldt, context : Context]

VARIABLES
  registers,   \* the context in the processor
  flagBits,    \* eflags.CF and its neighbours
  ldtr,        \* selector in the LDT register
  tr,          \* selector and base in the task register
  memory,      \* the task state segments
  previous     \* history: the task that the last switch left

vars == <<registers, flagBits, ldtr, tr, memory, previous>>

Running == registers.eip # 0

Init ==
  /\ registers \in Context /\ registers.eip # 0
  /\ flagBits \in FlagBits
  /\ ldtr \in Ldt
  /\ tr = [selector |-> 0, base |-> NoBase]
  /\ memory \in [Base -> TSS] /\ \A b \in Base : memory[b].context.eip # 0
  /\ previous = NoBase

-----------------------------------------------------------------------------
\* Mutant: the base of the new descriptor is not loaded.
SetTrMutant(selector) == tr' = [tr EXCEPT !.selector = selector]

\* SetTR
SetTr(selector) == tr' = [selector |-> selector, base |-> Gdt[selector].base]

\* Mutant: the LDT register stays with the task left.
SetLdtrMutant(selector) == UNCHANGED ldtr

\* set_ldtr
SetLdtr(selector) == ldtr' = selector

\* Mutant: the context left is not written back.
SaveMutant(leaving) == memory

\* The segments once the context being left is written to its own.
Save(leaving) == [memory EXCEPT ![tr.base].context = leaving]

\* Mutant: only the first switch to a task links back.
LinkMutant(segments, base) ==
  [segments EXCEPT ![base].prev = IF @ = 0 THEN tr.selector ELSE @]

\* The new segment links back to the task being left.
Link(segments, base) == [segments EXCEPT ![base].prev = tr.selector]

\* task_switch, up to the last register loaded: the context being left is
\* saved with the selectors it was entered with, LDTR is not saved.
TaskSwitch(leaving, selector) ==
  LET base == Gdt[selector].base
  IN  /\ tr.base # NoBase
      /\ SetTr(selector)
      /\ memory' = Link(Save(leaving), base)
      /\ SetLdtr(memory'[base].ldtr)
      /\ previous' = tr.base
      /\ UNCHANGED flagBits

-----------------------------------------------------------------------------
\* ltr_rm16, by the boot code
Ltr ==
  /\ Running /\ tr.base = NoBase
  /\ \E selector \in TaskSelectors : SetTr(selector)
  /\ UNCHANGED <<registers, flagBits, ldtr, memory, previous>>

\* Any other instruction changes the context and the flags.
Execute ==
  /\ Running
  /\ registers' \in Context /\ registers'.eip # 0
  /\ flagBits' \in FlagBits
  /\ UNCHANGED <<ldtr, tr, memory, previous>>

\* The guest writes the segment of a task that is not running.
Prepare ==
  /\ Running
  /\ \E b \in Base \ {tr.base}, segment \in TSS :
       /\ segment.context.eip # 0
       /\ memory' = [memory EXCEPT ![b] = segment]
  /\ UNCHANGED <<registers, flagBits, ldtr, tr, previous>>

\* farjump: the instruction that follows it is where the task resumes.
FarJump(selector, next, target) ==
  LET cs == Mask(selector)
      here == [registers EXCEPT !.eip = IF cs = 0 THEN 0 ELSE next]
  IN  \/ /\ Gdt[cs].type = "tss"
         /\ TaskSwitch(here, cs)
         /\ registers' = memory'[Gdt[cs].base].context
      \/ /\ Gdt[cs].type = "code"
         /\ registers' = [here EXCEPT !.eip = target, !.cs = cs]
         /\ UNCHANGED <<flagBits, ldtr, tr, memory, previous>>
      \/ /\ Gdt[cs].type = "none"
         /\ registers' = here
         /\ UNCHANGED <<flagBits, ldtr, tr, memory, previous>>

\* iret pops eip, cs and reg32, and ss and esp unless it is nested; cs is
\* assigned last, to the registers of whichever task runs by then.
Iret(eip, cs, stack) ==
  \/ /\ FALSE \in NT
     /\ registers' = [registers EXCEPT !.eip = eip, !.cs = cs, !.stack = stack]
     /\ UNCHANGED <<flagBits, ldtr, tr, memory, previous>>
  \/ /\ TRUE \in NT
     /\ tr.base # NoBase
     /\ LET selector == memory[tr.base].prev
        IN  /\ selector \in TaskSelectors
            /\ TaskSwitch([registers EXCEPT !.eip = eip, !.stack = stack], selector)
            /\ registers' = [memory'[Gdt[selector].base].context EXCEPT !.cs = cs]

Next ==
  \/ Ltr \/ Execute \/ Prepare
  \/ Running /\ \E s \in Selectors, next, target \in Address : FarJump(s, next, target)
  \/ Running /\ \E eip \in Address, cs \in CodeSegments, stack \in Stack : Iret(eip, cs, stack)

Spec == Init /\ [][Next]_vars

-----------------------------------------------------------------------------
\* The task register names a descriptor and holds its base, and segments hold
\* contexts.
TypeOK ==
  /\ registers \in Context /\ flagBits \in FlagBits /\ ldtr \in Ldt
  /\ \/ tr = [selector |-> 0, base |-> NoBase]
     \/ tr.selector \in TaskSelectors /\ tr.base = Gdt[tr.selector].base
  /\ memory \in [Base -> TSS]
  /\ previous \in Base \cup {NoBase}

\* The segment of the running task links back to the task that the last
\* switch left: a nested return goes there (task_switch, newTSS.prev_sel).
LinksBack ==
  previous # NoBase =>
    /\ memory[tr.base].prev \in TaskSelectors
    /\ Gdt[memory[tr.base].prev].base = previous

\* After a switch the LDT register is that of the running task's segment, so
\* that its code and data are found in its own table.
LdtOfTask == previous # NoBase => ldtr = memory[tr.base].ldtr

\* The context of each task, in the processor or in its segment.
contextOf == [b \in Base |-> IF b = tr.base THEN registers ELSE memory[b].context]

T == INSTANCE Tasks WITH
  Task <- Base, NoTask <- NoBase, running <- tr.base, context <- contextOf

\* Every task has a context of its own: it is unchanged while the task is
\* suspended, and restored when a far jump resumes it.
OwnContext == T!Spec
=============================================================================
