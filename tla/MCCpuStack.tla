----------------------------- MODULE MCCpuStack -----------------------------
(***************************************************************************)
(* CpuStack for TLC: registers that differ from each other, a stack that   *)
(* begins two words below the end of the memory, and choices of            *)
(* instructions that keep the runs small.                                  *)
(***************************************************************************)
EXTENDS CpuStack

Start ==
  [eax |-> 1, ecx |-> 2, edx |-> 3, ebx |-> 4, esp |-> 12, ebp |-> 13, esi |-> 6, edi |-> 7,
   es |-> 0, cs |-> 1, ss |-> 2, ds |-> 3, eip |-> 1, eflags |-> 8]

StartOnly == {Start}

\* The prologue and epilogue of a function.
FrameMoves == {<<"ebp", "esp">>, <<"esp", "ebp">>}

\* A register is changed; the stack is moved into the first two words.
SomeLoads == {<<"eax", 9>>, <<"esp", 2>>}

\* Stores to the word below the initial stack and beyond the memory.
SomeStores == {<<11, 9>>, <<20, 9>>}

\* Neither moves nor loads nor stores.
None == {}
=============================================================================
