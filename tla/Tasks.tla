------------------------------- MODULE Tasks -------------------------------
(***************************************************************************)
(* What task switching promises the guest: every task has a context of its *)
(* own, changed by nobody else while the task is suspended, and found as   *)
(* it was left when the task is resumed by a far jump.                     *)
(***************************************************************************)
CONSTANTS
  Task, NoTask,
  Context       \* records with fields eip, cs and stack among others

VARIABLES
  running,      \* the task whose instructions execute, NoTask while booting
  context       \* of every task, suspended or running

taskVars == <<running, context>>

Init == running = NoTask /\ context \in [Task -> Context]

\* The boot code becomes the first task.
Start ==
  /\ running = NoTask
  /\ \E t \in Task, c \in Context :
       running' = t /\ context' = [context EXCEPT ![t] = c]

\* The running task executes.
Work ==
  /\ running # NoTask
  /\ \E c \in Context : context' = [context EXCEPT ![running] = c]
  /\ UNCHANGED running

\* A suspended task is set up by the system that runs.
Prepare ==
  /\ \E t \in Task \ {running}, c \in Context : context' = [context EXCEPT ![t] = c]
  /\ UNCHANGED running

\* The running task gives way to another: all that changes is where it will
\* go on.
Switch ==
  /\ running # NoTask
  /\ running' \in Task
  /\ \E c \in Context : context' = [context EXCEPT ![running].eip = c.eip]

\* The same on return from a nested task, which has popped its stack, and
\* does not restore cs.
Return ==
  /\ running # NoTask
  /\ running' \in Task
  /\ \E c \in Context :
       context' = [context EXCEPT ![running].eip = c.eip, ![running].stack = c.stack,
                                  ![running'].cs = c.cs]

Next == Start \/ Work \/ Prepare \/ Switch \/ Return

Spec == Init /\ [][Next]_taskVars
=============================================================================
