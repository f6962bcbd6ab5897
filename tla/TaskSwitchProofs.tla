-------------------------- MODULE TaskSwitchProofs --------------------------
(***************************************************************************)
(* Task switching keeps every task's context, for any number of tasks, any *)
(* descriptor table and any contexts.                                      *)
(***************************************************************************)
EXTENDS TaskSwitch, TLAPS

LEMMA Descriptors ==
  /\ \A s \in TaskSelectors : s \in DOMAIN Gdt /\ Gdt[s].base \in Base
  /\ \A s \in DOMAIN Gdt : Gdt[s].base \in Base
  /\ 0 \notin TaskSelectors /\ NoBase \notin Base
  BY GdtAssumption DEF TaskSelectors

\* What task_switch does to well-typed state.
LEMMA TaskSwitchType ==
  ASSUME TypeOK, NEW leaving \in Context, NEW selector \in TaskSelectors,
         TaskSwitch(leaving, selector)
  PROVE  /\ tr.base \in Base /\ tr'.base = Gdt[selector].base /\ tr'.base \in Base
         /\ memory' \in [Base -> TSS]
         /\ memory'[tr'.base].prev = tr.selector
         /\ \A b \in Base : memory'[b].context = IF b = tr.base THEN leaving ELSE memory[b].context
         /\ flagBits' \in FlagBits /\ ldtr' \in Ldt
         /\ tr'.selector \in TaskSelectors /\ tr'.base = Gdt[tr'.selector].base
         /\ ldtr' = memory'[tr'.base].ldtr /\ previous' = tr.base
<1>1. tr.base \in Base /\ tr.selector \in TaskSelectors
  BY Descriptors DEF TypeOK, TaskSwitch
<1>2. tr' = [selector |-> selector, base |-> Gdt[selector].base] /\ Gdt[selector].base \in Base
  BY Descriptors DEF TaskSwitch, SetTr
<1>3. Save(leaving) \in [Base -> TSS]
  BY <1>1 DEF Save, TSS, TypeOK
<1>4. \A b \in Base : Save(leaving)[b].context = IF b = tr.base THEN leaving ELSE memory[b].context
  BY <1>1 DEF Save, TSS, TypeOK
<1>5. memory' = Link(Save(leaving), Gdt[selector].base)
  BY DEF TaskSwitch
<1>6. memory' \in [Base -> TSS]
  BY <1>1, <1>2, <1>3, <1>5 DEF Link, TSS
<1>7. memory'[Gdt[selector].base].prev = tr.selector
  BY <1>2, <1>3, <1>5 DEF Link, TSS
<1>8. \A b \in Base : memory'[b].context = Save(leaving)[b].context
  BY <1>2, <1>3, <1>5 DEF Link, TSS
<1>9. ldtr' = memory'[Gdt[selector].base].ldtr
  BY DEF TaskSwitch, SetLdtr
<1>10. ldtr' \in Ldt
  BY <1>2, <1>6, <1>9 DEF TSS
<1>11. flagBits' \in FlagBits /\ previous' = tr.base
  BY DEF TaskSwitch, TypeOK
<1>12. QED
  BY <1>1, <1>2, <1>4, <1>6, <1>7, <1>8, <1>9, <1>10, <1>11

\* A far jump to a task and a nested return leave the state well typed.
LEMMA SwitchKeepsType ==
  ASSUME TypeOK, NEW leaving \in Context, NEW selector \in TaskSelectors,
         TaskSwitch(leaving, selector), registers' \in Context
  PROVE  TypeOK'
  BY TaskSwitchType DEF TypeOK

LEMMA LoadedContext ==
  ASSUME TypeOK, NEW leaving \in Context, NEW selector \in TaskSelectors,
         TaskSwitch(leaving, selector)
  PROVE  memory'[Gdt[selector].base].context \in Context
  BY TaskSwitchType DEF TSS

-----------------------------------------------------------------------------
LEMMA NextType == TypeOK /\ [Next]_vars => TypeOK'
<1> SUFFICES ASSUME TypeOK, [Next]_vars PROVE TypeOK'
  OBVIOUS
<1>1. CASE Ltr
  BY <1>1, Descriptors DEF Ltr, SetTr, TypeOK
<1>2. CASE Execute
  BY <1>2 DEF Execute, TypeOK
<1>3. CASE Prepare
  <2>1. PICK b \in Base \ {tr.base}, segment \in TSS :
               /\ memory' = [memory EXCEPT ![b] = segment]
    BY <1>3 DEF Prepare
  <2>2. memory' \in [Base -> TSS]
    BY <2>1 DEF TypeOK
  <2>3. QED
    BY <1>3, <2>2 DEF Prepare, TypeOK
<1>4. ASSUME NEW s \in Selectors, NEW next \in Address, NEW target \in Address,
             FarJump(s, next, target)
      PROVE  TypeOK'
  <2> DEFINE cs == Mask(s)
             here == [registers EXCEPT !.eip = IF cs = 0 THEN 0 ELSE next]
  <2>1. cs \in DOMAIN Gdt
    BY GdtAssumption
  <2>2. here \in Context
    BY DEF TypeOK, Context
  <2> HIDE DEF cs, here
  <2>3. CASE Gdt[cs].type = "tss" /\ TaskSwitch(here, cs)
                /\ registers' = memory'[Gdt[cs].base].context
    <3>1. cs \in TaskSelectors
      BY <2>1, <2>3 DEF TaskSelectors
    <3>2. registers' \in Context
      BY <2>2, <2>3, <3>1, LoadedContext
    <3>3. QED
      BY <2>2, <2>3, <3>1, <3>2, SwitchKeepsType
  <2>4. CASE /\ Gdt[cs].type = "code"
             /\ registers' = [here EXCEPT !.eip = target, !.cs = cs]
             /\ UNCHANGED <<flagBits, ldtr, tr, memory, previous>>
    <3>1. cs \in CodeSegments
      BY <2>1, <2>4 DEF CodeSegments
    <3>2. registers' \in Context
      BY <2>2, <2>4, <3>1 DEF Context
    <3>3. QED
      BY <2>4, <3>2 DEF TypeOK
  <2>5. CASE registers' = here /\ UNCHANGED <<flagBits, ldtr, tr, memory, previous>>
    BY <2>2, <2>5 DEF TypeOK
  <2>6. QED
    BY <1>4, <2>3, <2>4, <2>5 DEF FarJump, cs, here
<1>5. ASSUME NEW eip \in Address, NEW cs \in CodeSegments, NEW stack \in Stack,
             Iret(eip, cs, stack)
      PROVE  TypeOK'
  <2>1. CASE /\ registers' = [registers EXCEPT !.eip = eip, !.cs = cs, !.stack = stack]
             /\ UNCHANGED <<flagBits, ldtr, tr, memory, previous>>
    <3>1. registers' \in Context
      BY <2>1 DEF TypeOK, Context
    <3>2. QED
      BY <2>1, <3>1 DEF TypeOK
  <2>2. CASE LET selector == memory[tr.base].prev
             IN  /\ selector \in TaskSelectors
                 /\ TaskSwitch([registers EXCEPT !.eip = eip, !.stack = stack], selector)
                 /\ registers' = [memory'[Gdt[selector].base].context EXCEPT !.cs = cs]
    <3> DEFINE selector == memory[tr.base].prev
               leaving == [registers EXCEPT !.eip = eip, !.stack = stack]
    <3>1. leaving \in Context
      BY DEF TypeOK, Context
    <3>2. selector \in TaskSelectors /\ TaskSwitch(leaving, selector)
          /\ registers' = [memory'[Gdt[selector].base].context EXCEPT !.cs = cs]
      BY <2>2
    <3> HIDE DEF selector, leaving
    <3>3. memory'[Gdt[selector].base].context \in Context
      BY <3>1, <3>2, LoadedContext
    <3>4. registers' \in Context
      BY <3>2, <3>3 DEF Context
    <3>5. QED
      BY <3>1, <3>2, <3>4, SwitchKeepsType
  <2>3. QED
    BY <1>5, <2>1, <2>2 DEF Iret
<1>6. CASE UNCHANGED vars
  BY <1>6 DEF vars, TypeOK
<1>7. QED
  BY <1>1, <1>2, <1>3, <1>4, <1>5, <1>6 DEF Next

\* The task register and the segments are well formed in every reachable state.
THEOREM TypeCorrect == Spec => []TypeOK
<1>1. Init => TypeOK
  BY DEF Init, TypeOK
<1>2. QED
  BY <1>1, NextType, PTL DEF Spec

-----------------------------------------------------------------------------
\* A task has been left only once the task register is loaded.
Booted == previous # NoBase => tr.base # NoBase

IInv == TypeOK /\ LinksBack /\ LdtOfTask /\ Booted

\* Everything a switch establishes at once.
LEMMA SwitchLinks ==
  ASSUME TypeOK, NEW leaving \in Context, NEW selector \in TaskSelectors,
         TaskSwitch(leaving, selector)
  PROVE  LinksBack' /\ LdtOfTask' /\ Booted'
<1>1. tr.base # NoBase /\ tr.selector \in TaskSelectors /\ tr.base = Gdt[tr.selector].base
  BY DEF TypeOK, TaskSwitch
<1>2. tr'.base # NoBase
  BY TaskSwitchType, Descriptors
<1>3. QED
  BY <1>1, <1>2, TaskSwitchType DEF LinksBack, LdtOfTask, Booted

\* The steps that are not task switches.
LEMMA OtherStep ==
  ASSUME IInv, UNCHANGED <<ldtr, tr, previous>>,
         tr.base # NoBase => memory'[tr.base] = memory[tr.base]
  PROVE  LinksBack' /\ LdtOfTask' /\ Booted'
  BY DEF IInv, LinksBack, LdtOfTask, Booted

LEMMA NextInv == IInv /\ [Next]_vars => IInv'
<1> SUFFICES ASSUME IInv, [Next]_vars PROVE LinksBack' /\ LdtOfTask' /\ Booted'
  BY NextType DEF IInv
<1>0. TypeOK
  BY DEF IInv
<1>1. CASE Ltr
  BY <1>1 DEF Ltr, IInv, LinksBack, LdtOfTask, Booted
<1>2. CASE Execute
  BY <1>2, OtherStep DEF Execute
<1>3. CASE Prepare
  <2>1. PICK b \in Base \ {tr.base}, segment \in TSS :
               memory' = [memory EXCEPT ![b] = segment]
    BY <1>3 DEF Prepare
  <2>2. memory'[tr.base] = memory[tr.base] \/ tr.base = NoBase
    BY <1>0, <2>1, Descriptors DEF TypeOK
  <2>3. QED
    BY <1>3, <2>2, OtherStep DEF Prepare
<1>4. ASSUME NEW s \in Selectors, NEW next \in Address, NEW target \in Address,
             FarJump(s, next, target)
      PROVE  LinksBack' /\ LdtOfTask' /\ Booted'
  <2> DEFINE cs == Mask(s)
             here == [registers EXCEPT !.eip = IF cs = 0 THEN 0 ELSE next]
  <2>1. CASE Gdt[cs].type = "tss" /\ TaskSwitch(here, cs)
    <3>1. cs \in TaskSelectors
      BY <2>1, GdtAssumption DEF TaskSelectors
    <3>2. here \in Context
      BY <1>0 DEF TypeOK, Context
    <3> HIDE DEF cs, here
    <3>3. QED
      BY <1>0, <2>1, <3>1, <3>2, SwitchLinks
  <2>2. CASE UNCHANGED <<flagBits, ldtr, tr, memory, previous>>
    BY <2>2, OtherStep
  <2>3. QED
    BY <1>4, <2>1, <2>2 DEF FarJump
<1>5. ASSUME NEW eip \in Address, NEW cs \in CodeSegments, NEW stack \in Stack,
             Iret(eip, cs, stack)
      PROVE  LinksBack' /\ LdtOfTask' /\ Booted'
  <2> DEFINE selector == memory[tr.base].prev
             leaving == [registers EXCEPT !.eip = eip, !.stack = stack]
  <2>1. CASE selector \in TaskSelectors /\ TaskSwitch(leaving, selector)
    <3>1. leaving \in Context
      BY <1>0 DEF TypeOK, Context
    <3> HIDE DEF selector, leaving
    <3>2. QED
      BY <1>0, <2>1, <3>1, SwitchLinks
  <2>2. CASE UNCHANGED <<flagBits, ldtr, tr, memory, previous>>
    BY <2>2, OtherStep
  <2>3. QED
    BY <1>5, <2>1, <2>2 DEF Iret
<1>6. CASE UNCHANGED vars
  BY <1>6, OtherStep DEF vars
<1>7. QED
  BY <1>1, <1>2, <1>3, <1>4, <1>5, <1>6 DEF Next

LEMMA Invariance == Spec => []IInv
<1>1. Init => IInv
  BY DEF Init, IInv, TypeOK, LinksBack, LdtOfTask, Booted
<1>2. QED
  BY <1>1, NextInv, PTL DEF Spec

\* A nested return goes to the task that the last switch left.
THEOREM BackLink == Spec => []LinksBack
  BY Invariance, PTL DEF IInv

\* The LDT register is the running task's after every switch.
THEOREM LdtFollowsTask == Spec => []LdtOfTask
  BY Invariance, PTL DEF IInv

-----------------------------------------------------------------------------
\* Refinement: where a switch leaves every task's context.
LEMMA SwitchMaps ==
  ASSUME TypeOK, NEW leaving \in Context, NEW selector \in TaskSelectors,
         TaskSwitch(leaving, selector), NEW resumed \in Context,
         registers' = resumed
  PROVE  contextOf' = [contextOf EXCEPT ![tr.base] = leaving, ![tr'.base] = resumed]
<1>1. /\ tr.base \in Base /\ tr'.base \in Base
      /\ \A b \in Base : memory'[b].context = IF b = tr.base THEN leaving ELSE memory[b].context
  BY TaskSwitchType
<1>2. contextOf' = [b \in Base |-> IF b = tr'.base THEN registers' ELSE memory'[b].context]
  BY DEF contextOf
<1>3. QED
  BY <1>1, <1>2 DEF contextOf

LEMMA InitMaps == Init => T!Init
  BY GdtAssumption DEF Init, T!Init, contextOf, TSS

LEMMA NextMaps == TypeOK /\ [Next]_vars => [T!Next]_(T!taskVars)
<1> SUFFICES ASSUME TypeOK, [Next]_vars PROVE T!Next \/ UNCHANGED T!taskVars
  OBVIOUS
<1>0. /\ contextOf' = [b \in Base |-> IF b = tr'.base THEN registers' ELSE memory'[b].context]
      /\ registers \in Context /\ memory \in [Base -> TSS] /\ NoBase \notin Base
      /\ tr.base \in Base \/ tr.base = NoBase
  BY Descriptors DEF contextOf, TypeOK
\* A step of the processor within the running task, or while booting.
<1>w. ASSUME NEW c \in Context, registers' = c, UNCHANGED <<tr, memory>>
      PROVE  T!Next \/ UNCHANGED T!taskVars
  <2>1. CASE tr.base = NoBase
    <3>1. contextOf' = contextOf
      BY <1>0, <1>w, <2>1 DEF contextOf
    <3>2. QED
      BY <1>w, <3>1 DEF T!taskVars
  <2>2. CASE tr.base \in Base
    <3>1. contextOf' = [contextOf EXCEPT ![tr.base] = c]
      BY <1>0, <1>w, <2>2 DEF contextOf
    <3>2. T!Work
      BY <1>0, <1>w, <2>2, <3>1 DEF T!Work
    <3>3. QED
      BY <3>2 DEF T!Next
  <2>3. QED
    BY <1>0, <2>1, <2>2
<1>1. CASE Ltr
  <2>1. tr.base = NoBase /\ tr'.base \in Base /\ registers' = registers /\ memory' = memory
    BY <1>1, Descriptors DEF Ltr, SetTr
  <2>2. contextOf' = [contextOf EXCEPT ![tr'.base] = registers]
    BY <1>0, <2>1 DEF contextOf
  <2>3. QED
    BY <1>0, <2>1, <2>2 DEF T!Next, T!Start
<1>2. CASE Execute
  BY <1>2, <1>w DEF Execute
<1>3. CASE Prepare
  <2>1. PICK b \in Base \ {tr.base}, segment \in TSS :
               memory' = [memory EXCEPT ![b] = segment]
    BY <1>3 DEF Prepare
  <2>2. registers' = registers /\ tr' = tr /\ segment.context \in Context
    BY <1>3 DEF Prepare, TSS
  <2>3. contextOf' = [contextOf EXCEPT ![b] = segment.context]
    BY <1>0, <2>1, <2>2 DEF contextOf
  <2>4. T!Prepare
    BY <2>1, <2>2, <2>3 DEF T!Prepare
  <2>5. QED
    BY <2>4 DEF T!Next
<1>4. ASSUME NEW s \in Selectors, NEW next \in Address, NEW target \in Address,
             FarJump(s, next, target)
      PROVE  T!Next \/ UNCHANGED T!taskVars
  <2> DEFINE cs == Mask(s)
             here == [registers EXCEPT !.eip = IF cs = 0 THEN 0 ELSE next]
  <2>1. cs \in DOMAIN Gdt /\ here \in Context
    BY <1>0, GdtAssumption DEF Context
  <2> HIDE DEF cs, here
  <2>2. CASE Gdt[cs].type = "tss" /\ TaskSwitch(here, cs)
                /\ registers' = memory'[Gdt[cs].base].context
    <3>1. cs \in TaskSelectors
      BY <2>1, <2>2 DEF TaskSelectors
    <3>2. /\ tr.base \in Base /\ tr'.base \in Base /\ tr'.base = Gdt[cs].base
          /\ memory'[tr'.base].context
               = IF tr'.base = tr.base THEN here ELSE memory[tr'.base].context
      BY <2>1, <2>2, <3>1, TaskSwitchType
    <3>3. registers' \in Context
      BY <2>1, <2>2, <3>1, LoadedContext
    <3>4. contextOf' = [contextOf EXCEPT ![tr.base] = here, ![tr'.base] = registers']
      BY <2>1, <2>2, <3>1, <3>3, SwitchMaps
    <3>5. contextOf' = [contextOf EXCEPT ![tr.base] = here]
      BY <2>2, <3>2, <3>4 DEF contextOf
    <3>6. here = [registers EXCEPT !.eip = here.eip] /\ contextOf[tr.base] = registers
      BY <1>0, <3>2 DEF here, Context, contextOf
    <3>7. contextOf' = [contextOf EXCEPT ![tr.base].eip = here.eip]
      BY <3>2, <3>5, <3>6
    <3>8. T!Switch
      BY <1>0, <2>1, <3>2, <3>7 DEF T!Switch
    <3>9. QED
      BY <3>8 DEF T!Next
  <2>3. CASE /\ Gdt[cs].type = "code"
             /\ registers' = [here EXCEPT !.eip = target, !.cs = cs]
             /\ UNCHANGED <<flagBits, ldtr, tr, memory, previous>>
    <3>1. registers' \in Context
      BY <2>1, <2>3 DEF Context, CodeSegments
    <3>2. QED
      BY <2>3, <3>1, <1>w
  <2>4. CASE registers' = here /\ UNCHANGED <<flagBits, ldtr, tr, memory, previous>>
    BY <2>1, <2>4, <1>w
  <2>5. QED
    BY <1>4, <2>2, <2>3, <2>4 DEF FarJump, cs, here
<1>5. ASSUME NEW eip \in Address, NEW cs \in CodeSegments, NEW stack \in Stack,
             Iret(eip, cs, stack)
      PROVE  T!Next \/ UNCHANGED T!taskVars
  <2>1. CASE /\ registers' = [registers EXCEPT !.eip = eip, !.cs = cs, !.stack = stack]
             /\ UNCHANGED <<flagBits, ldtr, tr, memory, previous>>
    <3>1. registers' \in Context
      BY <1>0, <2>1 DEF Context
    <3>2. QED
      BY <2>1, <3>1, <1>w
  <2>2. CASE LET selector == memory[tr.base].prev
             IN  /\ selector \in TaskSelectors
                 /\ TaskSwitch([registers EXCEPT !.eip = eip, !.stack = stack], selector)
                 /\ registers' = [memory'[Gdt[selector].base].context EXCEPT !.cs = cs]
    <3> DEFINE selector == memory[tr.base].prev
               leaving == [registers EXCEPT !.eip = eip, !.stack = stack]
               loaded == memory'[Gdt[selector].base].context
    <3>1. leaving \in Context
      BY <1>0 DEF Context
    <3>2. selector \in TaskSelectors /\ TaskSwitch(leaving, selector)
          /\ registers' = [loaded EXCEPT !.cs = cs]
      BY <2>2
    <3> HIDE DEF selector, leaving
    <3>3. loaded \in Context
      BY <3>1, <3>2, LoadedContext
    <3>4. /\ tr.base \in Base /\ tr'.base \in Base /\ tr'.base = Gdt[selector].base
          /\ loaded = IF tr'.base = tr.base THEN leaving ELSE memory[tr'.base].context
      BY <3>1, <3>2, TaskSwitchType
    <3> HIDE DEF loaded
    <3>5. registers' \in Context /\ registers'.cs = cs
      BY <3>2, <3>3 DEF Context
    <3>6. contextOf' = [contextOf EXCEPT ![tr.base] = leaving, ![tr'.base] = registers']
      BY <3>1, <3>2, <3>5, SwitchMaps
    <3>7. loaded = [contextOf EXCEPT ![tr.base] = leaving][tr'.base]
      BY <3>4 DEF contextOf
    <3>8. contextOf' = [contextOf EXCEPT ![tr.base] = leaving, ![tr'.base].cs = registers'.cs]
      BY <3>2, <3>4, <3>5, <3>6, <3>7 DEF contextOf
    <3>9. leaving = [registers EXCEPT !.eip = leaving.eip, !.stack = leaving.stack]
          /\ contextOf[tr.base] = registers
      BY <1>0, <3>4 DEF leaving, Context, contextOf
    <3> DEFINE c == [leaving EXCEPT !.cs = cs]
    <3>10. c \in Context /\ c.eip = leaving.eip /\ c.stack = leaving.stack /\ c.cs = cs
      BY <3>1 DEF Context
    <3> HIDE DEF c
    <3>11. contextOf' = [contextOf EXCEPT ![tr.base].eip = c.eip, ![tr.base].stack = c.stack,
                                          ![tr'.base].cs = c.cs]
      BY <3>4, <3>5, <3>8, <3>9, <3>10
    <3>12. T!Return
      BY <1>0, <3>4, <3>10, <3>11 DEF T!Return
    <3>13. QED
      BY <3>12 DEF T!Next
  <2>3. QED
    BY <1>5, <2>1, <2>2 DEF Iret
<1>6. CASE UNCHANGED vars
  BY <1>6 DEF vars, T!taskVars, contextOf
<1>7. QED
  BY <1>1, <1>2, <1>3, <1>4, <1>5, <1>6 DEF Next

\* Task switching implements tasks with contexts of their own: what a far jump
\* suspends is what a later far jump resumes (a nested return: but for cs).
THEOREM OwnContexts == Spec => OwnContext
<1>1. Spec => []TypeOK
  BY TypeCorrect
<1>2. QED
  BY <1>1, InitMaps, NextMaps, PTL DEF Spec, OwnContext, T!Spec
=============================================================================
