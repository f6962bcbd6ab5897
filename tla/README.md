# EEMU in TLA+

EEMU is a small x86 emulator in C++. It boots HariboteOS (or runs a flat
binary), interprets one guest instruction after the other on the main thread,
and shows the guest's video memory in a window that a second thread serves. The
window thread also feeds keyboard and mouse input to an emulated interrupt
controller, without a lock.

This directory holds TLA+ modules of the parts of EEMU that keep state over time
and are hard to test, TLC configurations that check them on small instances, and
TLAPS proofs of their main properties for every value of the constants.
`PROJECT.json` maps every definition to the lines it models and lists the runs,
the mutants that show each property can fail, the findings, hazards and theorems.

## 1. Inventory

| Component (source) | State | Operations | Interacts with | Hard part | Correct when |
|---|---|---|---|---|---|
| Input queue `out_buf` (`GUI.cpp:42`) | a `std::queue<pair<int,int>>` | callbacks push 1 or 3 elements, the keyboard controller pushes an acknowledgement, `chk_irq` and port 0x60 pop | written by both threads | no lock; `front()`/`pop()` of an empty queue; the deque's memory may be recycled | no element repeated or reordered; with one producer and fresh memory, none lost or invented and no empty queue popped before a 250 |
| Interrupt controller (`device/PIC.cpp`) | `IMR`, `IRR`, `interrupt_queue`, the byte `buf` | `chk_irq`, `out8` (end of interrupt), `in8` | reads `out_buf`; its queue is emptied by `exec_interrupt` | one `buf` for all requests; pops once per raised line | one request per element; the handler reads the byte of its own event |
| Keyboard controller (`device/keyboard.cpp`) | none of its own (`buf`, `out_buf`) | `in8`, `out8` on 0x60..0x6b | shares `buf` with the PIC | a data byte that looks like an acknowledgement pops once more | loses nothing of its own accord |
| Interrupt delivery (`interrupt.cpp`) | `IF`, `IMR`, the guest's stack | `exec_interrupt`, `save_regs` | between any two instructions | masked head blocks the queue; the frame lands on the guest's stack | no line is re-entered before end of interrupt; the program resumes where it was |
| Port dispatch (`Emulator.cpp:197-224`) | `port_io`, `port_io_map` | `set_portio`, `in_io8`, `io_out8` | devices registered by `main` | nearest even base within five probes | a port reaches its owner and nobody else |
| Main loop (`main.cpp:243-303`) | `EIP`, `instr`, the copies of EAX, ECX, EDX | copy, check, deliver, fetch, look up, execute | everything above | order of the steps; two tables of handlers | the guest runs on at an instruction |
| Stack, calls, interrupt frames (`Push32`, `Pop32`, `Instruction32.cpp`) | registers, memory | push/pop, call/ret, leave, pushad/popad, pushfd/popfd, iret | interrupts in between | end of memory, width of segment registers, order of multi-word frames | what was pushed stays and comes back |
| Flags and conditional jumps (`eflags.cpp`, `Instruction32.cpp`) | status flags | arithmetic, logic, shifts; jumps | a jump reads flags computed several instructions ago | wrap-around, undefined shifts, instructions that must not touch flags | a jump follows the comparison it is about |
| Task switching (`task_switch`, `farjump`, `iret`, `SetTR`, `set_ldtr`) | task register, LDT register, task state segments | ltr, far jump, nested iret | all registers | read-before-overwrite order; the segment may be switched to itself | a task is resumed as it was left |
| Decoding and operands (`ModRM.cpp`, the handlers) | `instr`, `reg` with its halves | prefix, opcode, `Parse`, effective address, register and memory operands of three widths | feeds every instruction | `instr` is never reset; byte registers are copies; three functions advance `EIP` | an operand is where the assembler put it, and the next instruction too |
| Data movement, `imul`, `idiv`, `lgdt` (`Instruction32.cpp`, `Instruction16.cpp`) | registers, memory, table registers | the handlers | ModRM | operand order, widths, signs | an instruction does what it says |
| Window, start-up, shutdown (`GUI.cpp`, `main.cpp`) | which objects exist, `msgflg`, `hThread` | create, open, loop, dump, delete; screenshot, close | two threads | the thread is detached while it draws | the dump is written before anything can go wrong |
| Display (`device/Display.cpp`) | `img`, `palette` | `Draw` | reads video memory that the guest writes | no lock; the image is used as it is refilled | a frame is recent and complete |
| Image writers (`kazuminlib`) | the picture | `LoadRGB`, `Write` | the window's menu | over-read, the width of another size | the file holds the whole frame shown |
| Hypervisor mode (`pc.S`) | — | — | — | the host processor | not modelled |

The two threads meet in `out_buf` (`keyboard_callback` and `mouse_callback` push,
the main loop pops), in video memory (the guest writes, `Draw` reads) and in the
lifetime of the objects that main creates and deletes. Guest code reaches the PIC and the
keyboard controller through `in`/`out`, and both through the port map. Delivery
of an interrupt connects the PIC to the guest's registers and stack.

## 2. Modules

```
OutBuf -> Pic -> Machine -- refines --> InputChannel (abstract)
                    ^   \
                 PortIO  MCMachine, MachineProofs
                    v
                 PortMap (set_portio) -> PortMapProofs

Tasks (abstract)  <-- refined by --  TaskSwitch -> MCTaskSwitch, TaskSwitchProofs
Flags -> Arith;   FlagsProofs -> ArithProofs
CpuStack -> MCCpuStack, CpuStackProofs

ModRM -> Isa (reference) -> Decode -> MCDecode, DecodeProofs
Window -> WindowProofs
```

**OutBuf** models the queue as the deque node that holds its elements: `slots`,
and the cursors `start` and `finish` (`_M_start._M_cur`, `_M_finish._M_cur`). The
program is compiled without optimisation, so a push is the four memory accesses
of `emplace_back` and either thread may act between them: `PushAim`,
`PushWrite`, `PushLoad`, `PushStore`. `Pop` moves `start` whatever `finish`
says, and past the last slot out of the node (`StartSlot`, `InNode`): there
`pop_front` takes the cursor from a map entry that was never set. Slots that were
never written hold zeros, or, in recycled memory (`Leftover`), an old event. The queue's representation is external to the
repository and modelled from how the code uses it.

**Pic** holds the operations of the interrupt controller, the keyboard controller
and the interrupt unit as action fragments: `Latch` and `RaiseLine` are the two
halves of `chk_irq` (one `RaiseLine` per raised line, in the loop's order),
`Deliver` is `exec_interrupt`, `EndOfInterrupt` and `ReadData` are the port
accesses; `ReadData` pops each time it is called while `buf` is 0xfa, with no test. `origin`, `served` and `unacked` are history: no guard reads them.

**Machine** composes them with the main loop and the window thread. `phase` is
the loop's position (`chk_irq`, raising, `exec_interrupt`, execute, and pushing
while an `out` is inside `std::queue::push`). When `start` has left the node, the
next look at the front, or pop, is `FollowsWildCursor`: nothing is said of what
comes after. The guest is any sequence of the
instruction kinds `Instrs`, or, with `EoiBeforeSti`, any that enables interrupts
only after ending them. `Init` leaves `IF` undetermined, as the code does.

**PortIO** is the port map as functions and the three registrations of `main`;
**PortMap** makes any sequence of `set_portio` calls of it, at addresses other than
0, which `get_portio_base` returns for no device, and the last eight, where its
probes wrap to the first ports.

**InputChannel** is the abstract specification of the input path: events sent are
delivered in order, one per interrupt, and none is skipped until an event that
looks like an acknowledgement (first component 250) has been delivered.
`Machine!InputIsChannel` is the refinement: `sent` is what the window has
written, `got` the interrupts delivered, `last` the slot delivered last.

**TaskSwitch** models `ltr`, far jumps (task, code segment and null selectors),
`task_switch` and both branches of `iret`, with the task state segments in
memory. A context is everything `task_switch` copies. `iret`'s test of `NT` reads
an uninitialised bit, so both outcomes are allowed (`NT`). **Tasks** is its
abstract specification: every task has one context, unchanged while suspended
except by explicit preparation, found unchanged on a far-jump switch; on a nested
return the code segment of the resumed task is the one popped, as in the code.

**Flags** gives the flags each `update_eflags_*` template computes and the
condition of each jump, over operands of any width (`Half` is the sign bit's
weight; sums and differences are `Factor` times as wide as an operand, as the
64-bit intermediates are). **Arith** makes a machine of it: one action per
instruction (or family that computes the same), two operands, and the jumps.
Undefined reads (a shift by 0, flags before the first instruction that sets them)
are nondeterministic.

**CpuStack** models registers and memory in words, every instruction that pushes
or pops, moves, loads, stores and jumps, and `exec_interrupt` between any two
instructions while `IF` is set. Addresses wrap at `Words`, stores beyond `Size`
are dropped, loads there give 0, and the byte at `memory_size`, which the bound
test lets through, reads as anything in `Edge`. A segment register keeps the low
half of a word. `saved` is history: the entries pushed and neither popped nor
overwritten by the guest's own stores.

**ModRM** has the accesses to code, registers and memory as operators on the
emulator's state, `Parse` with everything it leaves in `instr` (a displacement
overwrites only as many bytes as it has, the fields an instruction lacks keep
the previous one's), `calc_sib` and `CalcMemAddr32`. A byte of data has `Radix`
values and a word is four bytes; opcodes, ModRM and SIB bytes keep eight bits.

**Isa** is the reference: an instruction as written down (opcode, register,
operand, immediate), its encoding, its effective address and its meaning, without
`instr`, tables or copies of registers. **Decode** is the main loop over it: the
copies of EAX, ECX and EDX, the prefix, the escape byte, the choice of table, and
one action per handler or family of handlers that differ in the operator only. A
guest is its code and a listing (which instruction begins where); the properties
compare what the emulator does at an address with what the listing says there.
`Measured`, `Addressed` and `AsWritten` name the instructions and forms for which
the code does not do this (scaled indices without a base, indices besides ESP,
prefixed displacements, `setnz`, `sal` with an immediate, `/digits` without a
handler, byte registers other than the three copied, and so on): a list of the
emulator's limits, each with its reason. The actions model these too, and the
runs execute them.

**Window** is main from the first `new` to its return and the window thread from
`ThreadProc` to its end, on the objects' existence, `msgflg`, video memory, the
image and the screen. Draw copies one pixel per step. Pixels are numbered in the
order of Draw's visits, column by column; the image in memory is row by row, and a
screenshot is the PPM file pixel by pixel: `test` loads the image as one of
640 by 400, twice the window's width and height (`FilePixel`). `ended` says how the
process ended: where C++ defines nothing (an object used after its deletion, a
pointer never set) the model stops. `recent` is history: the colours a pixel has
had since the last Draw began.

## 3. Runs

| Run | Module, configuration | Shows | States |
|---|---|---|---|
| `keys_and_mouse` | MCMachine, MCMachineInput | the input path is an `InputChannel`; no empty queue is popped before a 250; a line is not re-entered before end of interrupt | 264k |
| `racing_producers` | MCMachine, MCMachineRacing | with acknowledgements racing input, recycled memory: no element raises two interrupts; one request at a time and the handler's own byte, for a guest that ends before it enables | 2.5M |
| `every_event_served` | MCMachine, MCMachineLive | every event pushed is delivered (fairness below) | 4.6k |
| `port_routing` | MCPortMap | routing after any registrations | 1.3k |
| `task_switch` | MCTaskSwitch | back links, local tables, and the refinement of `Tasks` | 168k |
| `arithmetic` | Arith, MCArith | jumps follow comparisons and results | 50k |
| `stack` | MCCpuStack | pushed words stay and come back, interrupts resume the program | 513k |
| `decode` | MCDecode | `EIP` stays on the listing, effective addresses and results are those of the instruction written | 28k |
| `window` | Window, MCWindow | the dump comes first, frames are recent, a screenshot holds the frame shown, a pixel left alone is shown (fairness below) | 74k |
| `zero_flag`, `or_forms`, `popfd_interrupts` | Arith, MCDecode, MCCpuStack | violated: see Findings | |

Bounds, and why they suffice:

- `NodeSlots = 4`: pushes in a behaviour. A mouse callback is three of them, so
  a key and a mouse callback interleave, and two pushes by the two threads
  collide with one before and one after. Five pops leave the node, which the
  guest can do by reading one 250 often enough. The theorems hold for every number
  of slots.
- `Keys`, `Coords`: payloads matter only by identity and by being 250 or not;
  the byte a handler reads is told apart from its neighbours'.
- Ports: the command and data ports, and a port of each other kind (a second
  PIC port, a second keyboard port, an unowned port).
- Tasks: three, because with two the task a link names is determined; two code
  segments, so that a context can differ, two local tables.
- Operands: two bits wide. Every sign and carry combination occurs; the theorems
  hold for every width.
- Stack: 14 words of memory, the stack pointer starting at 12, so that entries
  lie below, across (none recorded) and beyond the end; `Steps = 4` instructions,
  interrupts not counted, which is enough for a frame with a local variable, and
  for a save, a store or an interrupt, and a restore.
- Decoder: a byte of data has four values, so a word has 256, negative numbers
  and wraps occur, and 40 bytes of memory are crossed. The guests are the pairs
  of eight instructions that leave something behind (displacements of both sizes,
  a SIB byte, a prefix, registers that differ from their copies) with one
  of every opcode and every form of operand, short guests for each jump, forwards
  and backwards, and `test/testOr.asm`, `test/testXor.asm` and `test02.nask` with
  shorter constants; two sets of registers, and `instr` zero or full at the start.
- Window: two rows of one pixel, so that a frame can be half drawn and the file
  puts the rows side by side; the theorems hold for every width and height; a colour of the palette
  and one beyond it; HariboteOS and xv6, whose main opens no window.

`CHECK_DEADLOCK FALSE` is set where a behaviour really ends: the pushes, the
instructions or the guest's program (`stop`, a jump to 0) are over.

Fairness is assumed in two runs. In `every_event_served`, `ThreadFairness` is weak
fairness of the main loop, which never blocks, and of a callback that has begun;
nothing makes the user provide input. `GuestFairness` is strong fairness of the
guest's end of interrupt and of its `sti`: the guest is not part of the
repository, and a guest that stops doing either is right to receive nothing.
The run's guest neither stops nor writes port 0x60. In `window`, the steps of the
window thread are weakly fair: it never waits for anything, and the operating
system runs it. Neither main nor the user need ever act.

## 4. Proofs

All theorems hold for every value of the constants allowed by the named
assumptions of the modules (`OutBufAssumption`, `MachineAssumption`,
`FlagsAssumption`, `BitsAssumption`, `GdtAssumption`, `StackAssumption`,
`PortMapAssumption`, `ModRMAssumption`, `IsaAssumption`, `ProgramsAssumption`, `StartAssumption`,
`WindowAssumption`).

- **MachineProofs**: the inductive invariant `MachineInv`
  is the conjunction of the queue's invariant (the finish cursor and every
  thread's loaded cursor are at most the number of completed pushes: without it a
  push could leave the node), of types, of
  `RaisedLineInv` (at most one line is raised, only in the loop of `chk_irq`, with
  interrupts enabled and the front still inside the node: without it one event
  could be popped twice), of `OriginInv` (history matches `interrupt_queue`),
  of `EachSlotOnce`, of `MaskInv` (a line is masked exactly if it is
  unacknowledged) and of `DisciplineInv` (what a guest that ends before it
  enables can rely on). From it: `TypeCorrect`, `NoDuplicateInterrupt`,
  `OneRequest`, `HandlerReads`, `NotReentered`. They cover recycled memory and
  every interleaving of the two producers.
  `InputChannelRefined` is the refinement of `InputChannel`: each step of the
  machine maps to a step of the channel or a stutter. Its hypothesis `WindowOnly`
  is the setting of `keys_and_mouse`: fresh memory, and a guest that does not write
  port 0x60, so that the window is the only producer. Neither part can be dropped:
  two producers may overwrite each other's slot, and `chk_irq` reads the front of
  an empty queue, which in recycled memory may be an old event that nobody sent. `ChannelInv` adds three
  parts to `MachineInv`. `ProducerInv`: the slots below `Written` hold events, the
  others nothing, and the cursor a push has loaded is still the finish cursor;
  without it a push could write below what was sent. `RecordInv`: every request,
  delivered or pending, and the raised line carry the event of their slot; without
  it a delivery could be of an event that nobody sent. `LossInv`: the requests
  count the slots one by one until one of them is an acknowledgement; without it
  an event could be skipped earlier. `EmptyQueueKept` follows from the last two:
  the start cursor is then one past the slot of the last request, which was
  written.
- **FlagsProofs**: `JumpsFollowComparison` — after a comparison each of the ten
  jumps that name a relation is taken exactly if it holds, signed or unsigned, at
  every operand width. The lemmas `Borrow` and `NoBorrow` split on whether the
  difference is negative. **ArithProofs** lifts it to every sequence of
  instructions (`BranchesFollow`): the invariant adds that the flags are those of
  the last instruction that computed any, and a jump's outcome that of the flags.
  `ResultsFollow` is about the zero and sign flags of the result that was written:
  `ResultInv` follows them through each instruction, and `SubResult` shows that the
  wide difference and the truncated one agree in both.
- **TaskSwitchProofs**: `TypeCorrect`; `BackLink` and `LdtFollowsTask` from the
  invariant that adds "a task has been left only once the task register is
  loaded"; `OwnContexts`, the refinement of `Tasks`: each step maps to a step of
  `Tasks` or a stutter, for any number of tasks and any descriptor table,
  descriptors that share a segment included.
- **CpuStackProofs**: the invariant is `TypeOK`, `Intact`, and `EntriesOK` (an
  entry lies at or above the stack pointer, its own stack pointer is the one
  before the push, three words are an interrupt's frame). From it:
  `PushedStaysIntact`; `SavedIsRestored`, where the saved entry found at the top
  determines every word popped; and `InterruptedResumes`.
- **PortMapProofs**: `TypeCorrect`, and from it `OwnersOnly`: probes that wrap meet no
  device (`Below`), the nearest base lies between the owner's base and the port
  if the owner is within reach, and separate ranges share no port (`Disjoint`).
- **DecodeProofs**: `TypeCorrect`, one lemma per handler, over typing lemmas for
  every accessor. `AddressesCorrect`: the bytes in the code determine what `Parse`
  computes, whatever `instr` held, and a case split over the encodings of a
  memory operand shows that `CalcMemAddr` is the effective address for every
  choice of the unassigned variable. `ListingFollowed`: where `Parse` ends is where
  the operand's encoding ends (`ParsedRight`), each family of handlers adds the
  length of its immediate, and the jumps land on their target; for every
  guest with a listing, every width of data and every size of memory.
  `InstructionsMeant` takes the last step, to the registers and the memory: the
  lemmas `Means...` give the meaning of each opcode, others show that the
  operand, the register and the immediate a handler reads are those written
  down, one `...Meant` lemma per handler puts the two together, and
  `OthersExcluded` shows that the remaining handlers run only instructions outside
  `AsWritten`. **Isa** and Decode share the operators that read and write memory, so
  that these are shown right on their own: `StoredIsLoaded` (stored inside the
  memory is loaded again, in 1, 2 or 4 bytes of any width, and nothing else
  changes) and `PushedIsPopped`, which also grounds CpuStack's memory of words.
- **WindowProofs**: the inductive invariant adds to the types which objects exist
  at each step of main (`Lives`), that the dump is made after the loop and before
  the deletions (`Order`), which pixels of the image belong to the current Draw
  (`Frame`), and that image and screen agree between frames (`Between`). From it
  `DumpComesFirst`, `FramesAreRecent`, `ScreenshotsHoldFrames`, for every screen.
  The last one also rests on `RowsInPairs`: the memory index of column x and row y is
  Width * y + x, whichever width it is divided by, because quotient and remainder
  are unique (`Digits`).

Only model-checked: liveness (`EveryEventServed`, `EventuallyShown`), which the
prover does not do. The properties of the three runs that are violated are
refuted by TLC and have no theorem. Every other property of a run has one.

## 5. Findings

| Run | Property | Code | Disagreement |
|---|---|---|---|
| `zero_flag` | `ZeroFlagOfResult` | `eflags.cpp:41` | ZF is computed from the untruncated sum: an addition that wraps to zero leaves it clear |
| `zero_flag` | `ZeroFlagOfResult` | `Instruction32.cpp:519` | `and_rm32_imm32` sets the flags of an addition; `or` and `xor` leave ZF as it was |
| `or_forms` | `OrAsTested` | `Instruction32.cpp:1156` | opcode 0B (`or eax, [eax+...]`, `test/testOr.asm:6`) writes memory and not the register: the table has the handler of 09 |
| `or_forms` | `OrAsTested` | `Instruction32.cpp:343` | 81 /1 (`or [eax+...], dword ...`, `test/testOr.asm:8`) uses the lowest byte of its immediate |
| `popfd_interrupts` | `PopfdRestoresIF` | `Instruction32.cpp:1029` | the EFLAGS word does not share storage with the flag bits: `popfd` leaves interrupts as it finds them, enabled after `pushfd; sti; popfd` and disabled after `pushfd; cli; popfd` |

`memo.txt`, which lists the bits of EFLAGS, and the guests under `test/` are what
they are held against. The word of EFLAGS in a task state segment has the same
cause as the last one: a resumed task finds the flags of another.

Behaviours the modules describe without a statement in the repository that
they contradict: a mouse coordinate of 250 loses later input (`InputIsChannel`
says when), because every read of it from port 0x60 pops without a test, which can
take the queue out of its node (`FollowsWildCursor`); and `iret` pops `ESP` and `SS` although `exec_interrupt` pushes
three words, so that the stack pointer after an interrupt is a word of the
interrupted program's stack. Likewise ports 0x6a and 0x6b of the keyboard
controller are registered and out of reach of the probes. A screenshot is 640 by
400 pixels of an image of 320 by 200: each row of the file is two rows of the
window, side by side, and three quarters of it are memory behind the image, if
reading that does not end the process. `src/screenshot.ppm` in the repository has
320 by 200 (its line 2), but nothing states that a screenshot must.

## 6. Not modelled

- The bytes of image files and `memdump.bin`; `DumpRegisters` prints nothing.
- Hypervisor mode (`pc.S`): native execution on the host processor.
- The parity and auxiliary flags: no instruction reads them. The flags of `imul`,
  `idiv` and the byte forms (their results are in Decode).
- `CalcMemAddr16`, which nothing calls; the `mov_r8_imm8` of the 16-bit table,
  which writes past the register array; a segment register beyond the six.
- The choice of table under xv6; code that the guest modifies: Decode keeps the
  code apart from data.
- Interrupts, returns and flags inside Decode, ModRM inside CpuStack and
  TaskSwitch: each component meets the others through any value.
- A far jump or a switch through a selector of the LDT, whose descriptor the code
  reads between two entries; a switch before `ltr`.
- Unaligned stack pointers: words are aligned in CpuStack.

## 7. What could follow

1. The flags of the byte forms as further actions of Arith.
2. The window's objects with the memory they own, to tell a use after deletion
   that reads old contents from one that does not.
