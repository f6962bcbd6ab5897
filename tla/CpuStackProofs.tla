--------------------------- MODULE CpuStackProofs ---------------------------
(***************************************************************************)
(* What the guest pushes stays intact and comes back, for every size of    *)
(* the memory and the words, every program and every interruption.         *)
(***************************************************************************)
EXTENDS CpuStack, TLAPS

-----------------------------------------------------------------------------
(***************************************************************************)
(* Addresses.                                                              *)
(***************************************************************************)
LEMMA Sizes ==
  /\ Words \in Nat /\ Size \in Nat /\ Words >= Size + 8 /\ Words > 0
  /\ Word = 0 .. Words - 1 /\ Address = 0 .. Size - 1 /\ 0 \in Word
  BY StackAssumption DEF Word, Address

LEMMA DivMod ==
  ASSUME NEW d \in Nat \ {0}, NEW q \in Int, NEW r \in 0 .. d - 1, NEW a \in Int,
         a = q * d + r
  PROVE  a % d = r
  OBVIOUS

\* Arithmetic modulo Words, one turn at most.
LEMMA Wrap ==
  ASSUME NEW v \in Int, -Words <= v, v < 2 * Words
  PROVE  /\ v % Words \in Word
         /\ v < 0 => v % Words = v + Words
         /\ v >= 0 /\ v < Words => v % Words = v
         /\ v >= Words => v % Words = v - Words
<1> Words \in Nat \ {0} /\ Word = 0 .. Words - 1
  BY Sizes
<1>1. CASE v < 0
  <2>1. v + Words \in 0 .. Words - 1 /\ v = (-1) * Words + (v + Words)
    BY <1>1
  <2>2. v % Words = v + Words
    BY <2>1, DivMod
  <2>3. QED
    BY <1>1, <2>1, <2>2
<1>2. CASE v >= 0 /\ v < Words
  <2>1. v \in 0 .. Words - 1 /\ v = 0 * Words + v
    BY <1>2
  <2>2. v % Words = v
    BY <2>1, DivMod
  <2>3. QED
    BY <1>2, <2>1, <2>2
<1>3. CASE v >= Words
  <2>1. v - Words \in 0 .. Words - 1 /\ v = 1 * Words + (v - Words)
    BY <1>3
  <2>2. v % Words = v - Words
    BY <2>1, DivMod
  <2>3. QED
    BY <1>3, <2>1, <2>2
<1>4. QED
  BY <1>1, <1>2, <1>3

\* A pointer moved by at most eight words.
LEMMA PlusFacts ==
  ASSUME NEW a \in Word, NEW n \in -8 .. 8
  PROVE  /\ Plus(a, n) \in Word
         /\ 0 <= a + n /\ a + n < Words => Plus(a, n) = a + n
         /\ a + n < 0 => Plus(a, n) = a + n + Words
<1>1. a \in Int /\ a + n \in Int /\ -Words <= a + n /\ a + n < 2 * Words
  BY Sizes
<1>2. QED
  BY <1>1, Wrap DEF Plus

LEMMA RegisterNames ==
  /\ General \subseteq Reg /\ Segment \subseteq Reg
  /\ "esp" \in Reg /\ "eip" \in Reg /\ "ebp" \in Reg /\ "eflags" \in Reg /\ "cs" \in Reg
  /\ "esp" \notin Segment /\ "eip" \notin Segment /\ "ebp" \notin Segment
  BY DEF Reg, General, Segment

\* A register gets what fits, a value it has held comes back as it was.
LEMMA FitType ==
  ASSUME NEW r \in Reg, NEW w \in Word
  PROVE  /\ Fit(r, w) \in Word /\ (r \in Segment => Fit(r, w) < SegWords)
         /\ (r \in Segment => w < SegWords) => Fit(r, w) = w
<1>1. SegWords \in Nat \ {0} /\ SegWords <= Words /\ w \in Nat
  BY Sizes, StackAssumption
<1>2. w % SegWords \in 0 .. SegWords - 1
  BY <1>1
<1>3. w < SegWords => w % SegWords = w
  <2>1. SUFFICES ASSUME w < SegWords PROVE w % SegWords = w
    OBVIOUS
  <2>2. w \in 0 .. SegWords - 1 /\ w = 0 * SegWords + w
    BY <1>1, <2>1
  <2>3. QED
    BY <1>1, <2>2, DivMod
<1>4. QED
  BY <1>1, <1>2, <1>3, Sizes DEF Fit

-----------------------------------------------------------------------------
(***************************************************************************)
(* The inductive invariant: entries lie above the stack pointer, in order  *)
(* of the registers pushed, and hold what was pushed.  Only interrupts     *)
(* push three words.                                                       *)
(***************************************************************************)
EntriesOK ==
  \A e \in saved :
    /\ e.names \in Seq(Reg) /\ Len(e.names) \in 1 .. 8
    /\ Len(e.names) = 3 => e.names = InterruptFrame
    /\ e.low >= reg.esp
    /\ e.values.esp = e.low + Len(e.names)

IInv == TypeOK /\ EntriesOK /\ Intact

LEMMA PushInv ==
  ASSUME IInv, NEW names \in Seq(Reg), Len(names) \in 1 .. 8,
         Len(names) = 3 => names = InterruptFrame,
         NEW values \in Registers, values.esp = reg.esp, NEW eip \in Word,
         PushAll(names, values, eip), intFlag' \in BOOLEAN, count' \in 0 .. Steps
  PROVE  IInv'
<1> DEFINE n == Len(names)
           low == Plus(reg.esp, -n)
           nth(a) == (reg.esp - a) % Words
           new == [names |-> names, values |-> values, low |-> low, enabled |-> intFlag]
<1>0. reg.esp \in Word /\ n \in 1 .. 8 /\ n \in Int
  BY DEF IInv, TypeOK, Registers, Reg, General
<1> HIDE DEF n
<1>i. reg.esp \in Int /\ 0 <= reg.esp /\ reg.esp < Words
  BY <1>0, Sizes
<1>1. low \in Word /\ (reg.esp >= n => low = reg.esp - n) /\ (reg.esp < n => low = reg.esp - n + Words)
  <2>1. -n \in -8 .. 8
    BY <1>0
  <2>2. reg.esp + (-n) = reg.esp - n /\ reg.esp - n \in Int
    BY <1>0, <1>i
  <2>3. /\ Plus(reg.esp, -n) \in Word
        /\ 0 <= reg.esp - n /\ reg.esp - n < Words => Plus(reg.esp, -n) = reg.esp - n
        /\ reg.esp - n < 0 => Plus(reg.esp, -n) = reg.esp - n + Words
    BY <1>0, <2>1, <2>2, PlusFacts
  <2>4. reg.esp - n < Words /\ (reg.esp >= n <=> 0 <= reg.esp - n)
        /\ (reg.esp < n <=> reg.esp - n < 0)
    BY <1>0, <1>i, Sizes
  <2>5. QED
    BY <2>3, <2>4
<1>2. ASSUME NEW a \in Address
      PROVE  /\ reg.esp >= a => nth(a) = reg.esp - a
             /\ reg.esp < a => nth(a) = reg.esp - a + Words
             /\ nth(a) \in Int
  <2>1. a \in Int /\ 0 <= a /\ a < Size
    BY <1>2, Sizes
  <2>2. reg.esp - a \in Int /\ -Words <= reg.esp - a /\ reg.esp - a < 2 * Words
        /\ reg.esp - a < Words
        /\ (reg.esp >= a <=> reg.esp - a >= 0) /\ (reg.esp < a <=> reg.esp - a < 0)
    BY <1>i, <2>1, Sizes
  <2>3. /\ nth(a) \in Word
        /\ reg.esp - a < 0 => nth(a) = reg.esp - a + Words
        /\ reg.esp - a >= 0 => nth(a) = reg.esp - a
    BY <2>2, Wrap
  <2>4. nth(a) \in Int
    BY <2>3, Sizes
  <2>5. QED
    BY <2>2, <2>3, <2>4
<1>3. /\ mem' = [a \in Address |-> IF nth(a) \in 1 .. n THEN values[names[nth(a)]] ELSE mem[a]]
      /\ reg' = [values EXCEPT !.esp = low, !.eip = eip]
      /\ saved' = Above(saved, low) \cup IF low + n <= Size THEN {new} ELSE {}
  BY DEF PushAll, n
<1> HIDE DEF low, nth
<1>4. \A i \in 1 .. n : names[i] \in Reg /\ values[names[i]] \in Word
  BY <1>0 DEF Registers, n
<1>5. mem' \in [Address -> Word]
  BY <1>3, <1>4 DEF IInv, TypeOK
<1>6. reg' \in Registers /\ reg'.esp = low
  BY <1>1, <1>3, RegisterNames DEF Registers
<1> HIDE DEF new
<1>7. \A e \in saved' : (e \in saved /\ e.low >= low) \/ (e = new /\ low + n <= Size)
  <2>1. SUFFICES ASSUME NEW e \in saved', e \notin Above(saved, low)
                 PROVE  e = new /\ low + n <= Size
    BY DEF Above
  <2>2. CASE low + n <= Size
    BY <1>3, <2>1, <2>2
  <2>3. CASE ~(low + n <= Size)
    BY <1>3, <2>1, <2>3
  <2>4. QED
    BY <2>2, <2>3
<1>n. /\ new.names = names /\ new.values = values /\ new.low = low /\ new.enabled = intFlag
      /\ Len(new.names) = n
  BY DEF new, n
<1>8. low + n <= Size => reg.esp = low + n
  <2>1. low \in Int /\ Words \in Int /\ Size \in Int /\ Size < Words
    BY <1>1, Sizes
  <2>2. CASE reg.esp >= n
    BY <1>0, <1>1, <1>i, <2>1, <2>2
  <2>3. CASE reg.esp < n
    <3>1. low = reg.esp - n + Words
      BY <1>1, <2>3
    <3>2. n \in Int /\ reg.esp \in Int
      BY <1>0, <1>i
    <3>3. ~(low + n <= Size)
      BY <1>i, <2>1, <3>1, <3>2
    <3>4. QED
      BY <3>3
  <2>4. QED
    BY <1>0, <1>i, <2>2, <2>3
<1>9. ASSUME NEW e \in saved'
      PROVE  /\ e.values \in Registers /\ e.enabled \in BOOLEAN
             /\ e.low \in Word /\ e.low + Len(e.names) <= Size
             /\ e.names \in Seq(Reg) /\ Len(e.names) \in 1 .. 8
             /\ Len(e.names) = 3 => e.names = InterruptFrame
             /\ e.low >= low
             /\ e.values.esp = e.low + Len(e.names)
  <2>1. CASE e \in saved /\ e.low >= low
    BY <2>1 DEF IInv, TypeOK, EntriesOK
  <2>2. CASE e = new /\ low + n <= Size
    <3>1. e.values \in Registers /\ e.enabled \in BOOLEAN /\ e.low \in Word
      BY <1>1, <1>n, <2>2 DEF IInv, TypeOK
    <3>2. e.names \in Seq(Reg) /\ Len(e.names) = n /\ n \in 1 .. 8
          /\ (Len(e.names) = 3 => e.names = InterruptFrame)
      BY <1>0, <1>n, <2>2 DEF n
    <3>3. e.low = low /\ low \in Int /\ e.values.esp = reg.esp
      BY <1>1, <1>n, <2>2, Sizes
    <3>4. e.values.esp = e.low + Len(e.names) /\ e.low >= low
      BY <1>8, <2>2, <3>2, <3>3
    <3>5. QED
      BY <2>2, <3>1, <3>2, <3>3, <3>4
  <2>3. QED
    BY <1>7, <2>1, <2>2
<1>10. ASSUME NEW e \in saved', NEW i \in 1 .. Len(e.names)
       PROVE  mem'[e.low + Len(e.names) - i] = e.values[e.names[i]]
  <2> DEFINE a == e.low + Len(e.names) - i
  <2>0. e.low \in Int /\ e.low >= 0 /\ Len(e.names) \in Int /\ e.low + Len(e.names) <= Size
        /\ i \in Int /\ i >= 1 /\ i <= Len(e.names)
    BY <1>9, Sizes
  <2>1. a \in Address /\ e.low <= a /\ a \in Int
    <3> DEFINE l == Len(e.names)
    <3> HIDE DEF l
    <3>0. e.low \in Int /\ e.low >= 0 /\ l \in Int /\ e.low + l <= Size /\ i >= 1 /\ i <= l
          /\ a = e.low + l - i /\ Size \in Int /\ i \in Int
      BY <2>0, Sizes DEF l
    <3> HIDE DEF a
    <3>1. a \in Int /\ e.low <= a /\ 0 <= a /\ a < Size /\ Size \in Int
      BY <3>0
    <3>2. QED
      BY <3>1, Sizes
  <2> HIDE DEF a
  <2>2. CASE e \in saved
    <3>0. e.low >= reg.esp
      BY <2>2 DEF IInv, EntriesOK
    <3>1. a >= reg.esp
      BY <2>0, <2>1, <3>0, <1>i
    <3>2. nth(a) \notin 1 .. n
      <4>0. a < Size
        BY <2>1, Sizes
      <4>1. CASE a = reg.esp
        <5>1. nth(a) = 0
          BY <1>2, <1>i, <2>1, <4>1
        <5>2. QED
          BY <5>1
      <4>2. CASE a > reg.esp
        <5>1. nth(a) = reg.esp - a + Words
          BY <1>2, <1>i, <2>1, <4>2
        <5>2. nth(a) > 8
          BY <1>i, <2>1, <4>0, <5>1, Sizes
        <5>3. QED
          BY <1>0, <1>2, <2>1, <5>2
      <4>3. QED
        BY <1>i, <2>1, <3>1, <4>1, <4>2
    <3>3. mem'[a] = mem[a]
      BY <1>3, <2>1, <3>2
    <3>4. QED
      BY <2>2, <3>3 DEF IInv, Intact, a
  <2>3. CASE e = new /\ low + n <= Size
    <3>1. a = reg.esp - i /\ i \in 1 .. n
      BY <1>0, <1>8, <1>n, <2>0, <2>3 DEF a
    <3>2. nth(a) = i
      <4>1. reg.esp >= a /\ reg.esp - a = i
        BY <1>i, <2>0, <3>1
      <4>2. QED
        BY <1>2, <2>1, <4>1
    <3>3. QED
      BY <1>3, <1>n, <2>1, <2>3, <3>1, <3>2 DEF a
  <2>4. QED
    BY <1>7, <2>2, <2>3 DEF a
<1>11. QED
  BY <1>5, <1>6, <1>9, <1>10 DEF IInv, TypeOK, EntriesOK, Intact

LEMMA PopInv ==
  ASSUME IInv, NEW names \in Seq(Reg), Len(names) \in 1 .. 8, NEW from \in Word,
         PopAll(names, from), intFlag' \in BOOLEAN, count' \in 0 .. Steps
  PROVE  IInv'
<1> DEFINE n == Len(names)
           Named(r) == \E i \in 1 .. n : names[i] = r
           nth(r) == CHOOSE i \in 1 .. n : names[i] = r
<1>0. n \in 1 .. 8 /\ n \in Int
  OBVIOUS
<1>1. PICK edge \in Edge :
        /\ reg' = [r \in Reg |->
                     IF Named(r) THEN Fit(r, Read(Plus(from, nth(r) - 1), edge))
                     ELSE CASE r = "esp" -> Plus(from, n)
                            [] r = "eip" -> NextEip
                            [] OTHER     -> reg[r]]
        /\ saved' = Above(saved, reg'.esp)
        /\ mem' = mem
  BY DEF PopAll
<1>2. edge \in Word /\ reg.eip \in Word
  BY StackAssumption, RegisterNames DEF IInv, TypeOK, Registers
<1>3. \A a \in Word : Read(a, edge) \in Word
  BY <1>2, Sizes DEF Read, IInv, TypeOK
<1>4. ASSUME NEW r \in Reg, Named(r)
      PROVE  Fit(r, Read(Plus(from, nth(r) - 1), edge)) \in Word
             /\ (r \in Segment => Fit(r, Read(Plus(from, nth(r) - 1), edge)) < SegWords)
  <2>1. nth(r) \in 1 .. n
    BY <1>4
  <2> HIDE DEF n, nth
  <2>2. nth(r) - 1 \in -8 .. 8
    BY <1>0, <2>1
  <2>3. Plus(from, nth(r) - 1) \in Word
    BY <2>2, PlusFacts
  <2>4. QED
    BY <1>3, <2>3, FitType
<1>5. Plus(from, n) \in Word /\ NextEip \in Word
  <2>1. n \in -8 .. 8 /\ 1 \in -8 .. 8
    BY <1>0
  <2>2. QED
    BY <1>2, <2>1, PlusFacts DEF NextEip
<1> HIDE DEF Named, nth
<1>6. ASSUME NEW r \in Reg
      PROVE  reg'[r] \in Word /\ (r \in Segment => reg'[r] < SegWords)
  <2>1. CASE Named(r)
    BY <1>1, <1>4, <2>1
  <2>2. CASE ~Named(r) /\ r \in {"esp", "eip"}
    BY <1>1, <1>5, <2>2, RegisterNames
  <2>3. CASE ~Named(r) /\ r \notin {"esp", "eip"}
    <3>1. reg'[r] = reg[r]
      BY <1>1, <2>3
    <3>2. QED
      BY <3>1 DEF IInv, TypeOK, Registers
  <2>4. QED
    BY <2>1, <2>2, <2>3
<1>7. reg' \in Registers
  BY <1>1, <1>6, RegisterNames DEF Registers
<1>8. saved' \subseteq saved /\ \A e \in saved' : e.low >= reg'.esp
  BY <1>1 DEF Above
<1>9. QED
  BY <1>1, <1>7, <1>8 DEF IInv, TypeOK, EntriesOK, Intact

\* Instructions that leave memory alone.
LEMMA SetInv ==
  ASSUME IInv, reg' \in Registers, mem' = mem, saved' = Above(saved, reg'.esp),
         intFlag' \in BOOLEAN, count' \in 0 .. Steps
  PROVE  IInv'
  BY DEF IInv, TypeOK, EntriesOK, Intact, Above

-----------------------------------------------------------------------------
(***************************************************************************)
(* Every step preserves the invariant.                                     *)
(***************************************************************************)
LEMMA InitInv == Init => IInv
  BY StackAssumption DEF Init, IInv, TypeOK, EntriesOK, Intact

\* A register other than eip is set, and the instruction pointer moves.
LEMMA SetsType ==
  ASSUME reg \in Registers, NEW r \in Reg, NEW w \in Word, NEW eip \in Word
  PROVE  [reg EXCEPT ![r] = Fit(r, w), !.eip = eip] \in Registers
  BY FitType, RegisterNames DEF Registers

LEMMA NextInv == IInv /\ [Next]_vars => IInv'
<1> SUFFICES ASSUME IInv, [Next]_vars PROVE IInv'
  OBVIOUS
<1>1. /\ reg \in Registers /\ intFlag \in BOOLEAN /\ count \in 0 .. Steps /\ Steps \in Nat
      /\ \A r \in Reg : reg[r] \in Word
  BY StackAssumption DEF IInv, TypeOK, Registers
<1>2. NextEip \in Word
  <2>1. 1 \in -8 .. 8 /\ reg.eip \in Word
    BY <1>1, RegisterNames
  <2>2. QED
    BY <2>1, PlusFacts DEF NextEip
<1>3. \A kind : Instruction(kind) => count' \in 0 .. Steps
  BY <1>1 DEF Instruction
<1>4. ASSUME NEW eip \in Word
      PROVE  [reg EXCEPT !.eip = eip] \in Registers /\ [reg EXCEPT !.eip = eip].esp = reg.esp
  BY <1>1, RegisterNames DEF Registers
<1>5. Code \subseteq Word /\ Operands \subseteq Reg
  BY StackAssumption
<1>6. \A r \in Reg : <<r>> \in Seq(Reg) /\ Len(<<r>>) \in 1 .. 8 /\ Len(<<r>>) # 3
  OBVIOUS
<1>7. PushadOrder \in Seq(Reg) /\ Len(PushadOrder) \in 1 .. 8 /\ Len(PushadOrder) # 3
  BY DEF PushadOrder, Reg, General
<1>8. PopadOrder \in Seq(Reg) /\ Len(PopadOrder) \in 1 .. 8
  BY DEF PopadOrder, Reg, General
<1>9. InterruptFrame \in Seq(Reg) /\ Len(InterruptFrame) \in 1 .. 8
  BY DEF InterruptFrame, Reg, Segment
<1>10. <<"eip", "cs", "eflags", "esp", "ss">> \in Seq(Reg)
       /\ Len(<<"eip", "cs", "eflags", "esp", "ss">>) \in 1 .. 8
  BY DEF Reg, Segment, General
<1>11. \A e \in saved : e.low >= reg.esp
  BY DEF IInv, EntriesOK
<1>12. ASSUME NEW r \in Operands, Push(r) PROVE IInv'
  <2>1. r \in Reg /\ PushAll(<<r>>, reg, NextEip)
    BY <1>5, <1>12 DEF Push
  <2>2. intFlag' \in BOOLEAN /\ count' \in 0 .. Steps
    BY <1>1, <1>3, <1>12 DEF Push
  <2>3. QED
    BY <1>1, <1>2, <1>6, <2>1, <2>2, PushInv
<1>13. ASSUME NEW r \in Operands, Pop(r) PROVE IInv'
  <2>1. r \in Reg /\ PopAll(<<r>>, reg.esp)
    BY <1>5, <1>13 DEF Pop
  <2>2. intFlag' \in BOOLEAN /\ count' \in 0 .. Steps
    BY <1>1, <1>3, <1>13 DEF Pop
  <2>3. QED
    BY <1>1, <1>6, <2>1, <2>2, PopInv, RegisterNames
<1>14. ASSUME NEW target \in Code, Call(target) PROVE IInv'
  <2>1. PushAll(<<"eip">>, [reg EXCEPT !.eip = NextEip], target)
    BY <1>14 DEF Call
  <2>2. intFlag' \in BOOLEAN /\ count' \in 0 .. Steps
    BY <1>1, <1>3, <1>14 DEF Call
  <2>3. [reg EXCEPT !.eip = NextEip] \in Registers /\ [reg EXCEPT !.eip = NextEip].esp = reg.esp
    BY <1>2, <1>4
  <2>4. QED
    BY <1>5, <1>6, <2>1, <2>2, <2>3, PushInv, RegisterNames
<1>15. ASSUME NEW handler \in Code, Interrupt(handler) PROVE IInv'
  <2>1. PushAll(InterruptFrame, reg, handler) /\ intFlag' \in BOOLEAN /\ count' \in 0 .. Steps
    BY <1>1, <1>15 DEF Interrupt
  <2>2. QED
    BY <1>1, <1>5, <1>9, <2>1, PushInv
<1>16. CASE Ret
  <2>1. PopAll(<<"eip">>, reg.esp) /\ intFlag' \in BOOLEAN /\ count' \in 0 .. Steps
    BY <1>1, <1>3, <1>16 DEF Ret
  <2>2. QED
    BY <1>1, <1>6, <2>1, PopInv, RegisterNames
<1>17. CASE Leave
  <2>1. PopAll(<<"ebp">>, reg.ebp) /\ intFlag' \in BOOLEAN /\ count' \in 0 .. Steps
    BY <1>1, <1>3, <1>17 DEF Leave
  <2>2. QED
    BY <1>1, <1>6, <2>1, PopInv, RegisterNames
<1>18. CASE Pushad
  <2>1. PushAll(PushadOrder, reg, NextEip) /\ intFlag' \in BOOLEAN /\ count' \in 0 .. Steps
    BY <1>1, <1>3, <1>18 DEF Pushad
  <2>2. QED
    BY <1>1, <1>2, <1>7, <2>1, PushInv
<1>19. CASE Popad
  <2>1. PopAll(PopadOrder, reg.esp) /\ intFlag' \in BOOLEAN /\ count' \in 0 .. Steps
    BY <1>1, <1>3, <1>19 DEF Popad
  <2>2. QED
    BY <1>1, <1>8, <2>1, PopInv, RegisterNames
<1>20. CASE Pushfd
  <2>1. PushAll(<<"eflags">>, reg, NextEip) /\ intFlag' \in BOOLEAN /\ count' \in 0 .. Steps
    BY <1>1, <1>3, <1>20 DEF Pushfd
  <2>2. QED
    BY <1>1, <1>2, <1>6, <2>1, PushInv, RegisterNames
<1>21. CASE Popfd
  <2>1. PopAll(<<"eflags">>, reg.esp) /\ intFlag' \in BOOLEAN /\ count' \in 0 .. Steps
    BY <1>1, <1>3, <1>21 DEF Popfd
  <2>2. QED
    BY <1>1, <1>6, <2>1, PopInv, RegisterNames
<1>22. CASE Iret
  <2>1. PopAll(<<"eip", "cs", "eflags", "esp", "ss">>, reg.esp)
        /\ intFlag' \in BOOLEAN /\ count' \in 0 .. Steps
    BY <1>1, <1>3, <1>22 DEF Iret
  <2>2. QED
    BY <1>1, <1>10, <2>1, PopInv, RegisterNames
<1>23. ASSUME NEW r \in Reg, NEW w \in Word, Sets(r, w) PROVE IInv'
  <2>1. reg' \in Registers
    BY <1>1, <1>2, <1>23, SetsType DEF Sets
  <2>2. /\ mem' = mem /\ saved' = Above(saved, reg'.esp)
        /\ intFlag' \in BOOLEAN /\ count' \in 0 .. Steps
    BY <1>1, <1>3, <1>23 DEF Sets
  <2>3. QED
    BY <2>1, <2>2, SetInv
<1>24. CASE Move
  <2>1. PICK m \in Moves : Sets(m[1], reg[m[2]])
    BY <1>24 DEF Move
  <2>2. m[1] \in Reg /\ reg[m[2]] \in Word
    BY <1>1, StackAssumption
  <2>3. QED
    BY <1>23, <2>1, <2>2
<1>25. CASE Load
  <2>1. PICK l \in Loads : Sets(l[1], l[2])
    BY <1>25 DEF Load
  <2>2. l[1] \in Reg /\ l[2] \in Word
    BY StackAssumption
  <2>3. QED
    BY <1>23, <2>1, <2>2
<1>26. CASE Store
  <2>1. PICK s \in Stores :
          /\ Instruction("store")
          /\ mem' = IF s[1] \in Address THEN [mem EXCEPT ![s[1]] = s[2]] ELSE mem
          /\ reg' = [reg EXCEPT !.eip = NextEip]
          /\ saved' = {e \in saved : ~Covers(e, s[1])}
          /\ UNCHANGED intFlag
    BY <1>26 DEF Store
  <2>2. s[2] \in Word /\ mem \in [Address -> Word]
    BY StackAssumption DEF IInv, TypeOK
  <2>3. mem' \in [Address -> Word] /\ \A a \in Address : a # s[1] => mem'[a] = mem[a]
    BY <2>1, <2>2
  <2>4. reg' \in Registers /\ reg'.esp = reg.esp /\ count' \in 0 .. Steps /\ intFlag' \in BOOLEAN
    BY <1>1, <1>2, <1>3, <1>4, <2>1
  <2>5. saved' \subseteq saved
    BY <2>1
  <2>6. ASSUME NEW e \in saved', NEW i \in 1 .. Len(e.names)
        PROVE  mem'[e.low + Len(e.names) - i] = e.values[e.names[i]]
    <3> DEFINE a == e.low + Len(e.names) - i
    <3>1. /\ e \in saved /\ ~Covers(e, s[1])
          /\ e.low \in Int /\ e.low >= 0 /\ Len(e.names) \in Int
          /\ e.low + Len(e.names) <= Size
      BY <2>1, Sizes DEF IInv, TypeOK, EntriesOK
    <3>2. a \in e.low .. e.low + Len(e.names) - 1 /\ a \in 0 .. Size - 1
      BY <3>1, Sizes
    <3> HIDE DEF a
    <3>3. a \in Address /\ a # s[1]
      BY <3>1, <3>2, Sizes DEF Covers
    <3>4. mem'[a] = mem[a]
      BY <2>3, <3>3
    <3>5. QED
      BY <3>1, <3>4 DEF IInv, Intact, a
  <2>7. QED
    BY <2>3, <2>4, <2>5, <2>6 DEF IInv, TypeOK, EntriesOK, Intact
<1>27. ASSUME NEW eip \in Word, reg' = [reg EXCEPT !.eip = eip], mem' = mem, saved' = saved,
              intFlag' \in BOOLEAN, count' \in 0 .. Steps
       PROVE  IInv'
  <2>1. reg' \in Registers /\ reg'.esp = reg.esp
    BY <1>4, <1>27
  <2>2. saved' = Above(saved, reg'.esp)
    BY <1>11, <1>27, <2>1 DEF Above
  <2>3. QED
    BY <1>27, <2>1, <2>2, SetInv
<1>28. CASE Jump
  <2>1. PICK target \in Code : reg' = [reg EXCEPT !.eip = target]
    BY <1>28 DEF Jump
  <2>2. QED
    BY <1>1, <1>3, <1>5, <1>27, <1>28, <2>1 DEF Jump
<1>29. CASE Sti
  BY <1>2, <1>3, <1>27, <1>29 DEF Sti
<1>30. CASE Cli
  BY <1>2, <1>3, <1>27, <1>30 DEF Cli
<1>31. CASE UNCHANGED vars
  BY <1>31 DEF vars, IInv, TypeOK, EntriesOK, Intact
<1>32. QED
  BY <1>12, <1>13, <1>14, <1>15, <1>16, <1>17, <1>18, <1>19, <1>20, <1>21, <1>22,
     <1>24, <1>25, <1>26, <1>28, <1>29, <1>30, <1>31 DEF Next

\* The invariant holds in every reachable state.
THEOREM StackInvariance == Spec => []IInv
  BY InitInv, NextInv, PTL DEF Spec

\* Registers, memory and what is recorded of the stack keep their types.
THEOREM StackTypes == Spec => []TypeOK
  BY StackInvariance, PTL DEF IInv

\* Everything pushed and not overwritten by the guest itself stays where it
\* is, however often the guest is interrupted (Push32, save_regs).
THEOREM PushedStaysIntact == Spec => []Intact
  BY StackInvariance, PTL DEF IInv

-----------------------------------------------------------------------------
(***************************************************************************)
(* What is popped is what was pushed.                                      *)
(***************************************************************************)
\* A register popped at the place of an entry where it was pushed.
LEMMA PopEntry ==
  ASSUME IInv, NEW e \in saved, NEW names \in Seq(Reg), PopAll(names, e.low),
         NEW k \in 1 .. Len(names), Len(names) <= 8, k <= Len(e.names),
         e.names[Len(e.names) + 1 - k] = names[k],
         \A j \in 1 .. Len(names) : names[j] = names[k] => j = k
  PROVE  reg'[names[k]] = e.values[names[k]]
<1> DEFINE r == names[k]
           i == Len(e.names) + 1 - k
<1>0. k \in Int /\ 1 <= k /\ k <= 8 /\ Len(e.names) \in Int
  BY DEF IInv, EntriesOK
<1>1. r \in Reg /\ i \in 1 .. Len(e.names) /\ e.names[i] = r
  BY <1>0
<1>2. (CHOOSE j \in 1 .. Len(names) : names[j] = r) = k
  OBVIOUS
<1>3. PICK edge \in Edge : reg'[r] = Fit(r, Read(Plus(e.low, k - 1), edge))
  <2>1. \E j \in 1 .. Len(names) : names[j] = r
    OBVIOUS
  <2>2. QED
    BY <1>1, <1>2, <2>1 DEF PopAll
<1>4. e.low \in Word /\ e.low \in Int /\ e.low >= 0 /\ e.low + Len(e.names) <= Size /\ Size < Words
  BY Sizes DEF IInv, TypeOK
<1>5. Plus(e.low, k - 1) = e.low + Len(e.names) - i /\ Plus(e.low, k - 1) < Size
  <2>1. k - 1 \in -8 .. 8 /\ 0 <= e.low + (k - 1) /\ e.low + (k - 1) < Words
    BY <1>0, <1>4, Sizes
  <2>2. Plus(e.low, k - 1) = e.low + (k - 1)
    BY <1>4, <2>1, PlusFacts
  <2>3. QED
    BY <1>0, <1>4, <2>2, Sizes
<1>6. mem[Plus(e.low, k - 1)] = e.values[r]
  BY <1>1, <1>5 DEF IInv, Intact
<1>7. e.values[r] \in Word /\ (r \in Segment => e.values[r] < SegWords)
  BY <1>1 DEF IInv, TypeOK, Registers
<1>8. QED
  BY <1>1, <1>3, <1>5, <1>6, <1>7, FitType DEF Read

\* The stack pointer afterwards, unless it is popped itself.
LEMMA PopPointer ==
  ASSUME IInv, NEW e \in saved, NEW names \in Seq(Reg), PopAll(names, e.low),
         Len(names) = Len(e.names), \A j \in 1 .. Len(names) : names[j] # "esp"
  PROVE  reg'.esp = e.values.esp
<1>1. reg'.esp = Plus(e.low, Len(names))
  BY RegisterNames DEF PopAll
<1>2. e.low \in Word /\ Len(e.names) \in 1 .. 8 /\ e.low + Len(e.names) <= Size
      /\ e.values.esp = e.low + Len(e.names)
  BY DEF IInv, TypeOK, EntriesOK
<1>3. Len(e.names) \in -8 .. 8 /\ 0 <= e.low + Len(e.names) /\ e.low + Len(e.names) < Words
  BY <1>2, Sizes
<1>4. QED
  BY <1>1, <1>2, <1>3, PlusFacts

\* One register.
LEMMA PopOne ==
  ASSUME IInv, NEW e \in saved, NEW r \in Reg \ {"esp"}, e.names = <<r>>, PopAll(<<r>>, e.low)
  PROVE  Restored(e, {r})
<1>1. <<r>> \in Seq(Reg) /\ Len(<<r>>) = 1 /\ <<r>>[1] = r
  OBVIOUS
<1>2. reg'[r] = e.values[r]
  <2> DEFINE names == <<r>>
  <2>1. names \in Seq(Reg) /\ Len(names) = 1 /\ names[1] = r /\ PopAll(names, e.low) /\ e.names = names
    OBVIOUS
  <2> HIDE DEF names
  <2>2. 1 \in 1 .. Len(names) /\ Len(names) <= 8 /\ 1 <= Len(e.names)
        /\ e.names[Len(e.names) + 1 - 1] = names[1]
        /\ \A j \in 1 .. Len(names) : names[j] = names[1] => j = 1
    BY <2>1
  <2>3. reg'[names[1]] = e.values[names[1]]
    BY <2>1, <2>2, PopEntry
  <2>4. QED
    BY <2>1, <2>3
<1>3. reg'.esp = e.values.esp
  <2> DEFINE names == <<r>>
  <2>1. names \in Seq(Reg) /\ PopAll(names, e.low) /\ Len(names) = Len(e.names)
    OBVIOUS
  <2>2. \A j \in 1 .. Len(names) : names[j] # "esp"
    BY <1>1
  <2> HIDE DEF names
  <2>3. QED
    BY <2>1, <2>2, PopPointer
<1>4. QED
  BY <1>2, <1>3 DEF Restored

LEMMA PopadRestores ==
  ASSUME IInv, NEW e \in saved, e.names = PushadOrder, PopAll(PopadOrder, e.low)
  PROVE  Restored(e, General)
<1>1. PopadOrder \in Seq(Reg) /\ Len(PopadOrder) = 8 /\ Len(PushadOrder) = 8
  BY DEF PopadOrder, PushadOrder, Reg, General
<1>2. \A k \in 1 .. 8 : PushadOrder[9 - k] = PopadOrder[k]
  BY DEF PopadOrder, PushadOrder
<1>3. \A k, j \in 1 .. 8 : PopadOrder[j] = PopadOrder[k] => j = k
  BY DEF PopadOrder
<1>4. ASSUME NEW k \in 1 .. 8 PROVE reg'[PopadOrder[k]] = e.values[PopadOrder[k]]
  <2>1. k \in 1 .. Len(PopadOrder) /\ k <= Len(e.names) /\ Len(PopadOrder) <= 8
        /\ e.names[Len(e.names) + 1 - k] = PopadOrder[k]
        /\ \A j \in 1 .. Len(PopadOrder) : PopadOrder[j] = PopadOrder[k] => j = k
    BY <1>1, <1>2, <1>3
  <2>2. QED
    BY <1>1, <2>1, PopEntry
<1>5. \A r \in General : \E k \in 1 .. 8 : PopadOrder[k] = r
  BY DEF General, PopadOrder
<1>6. QED
  BY <1>4, <1>5 DEF Restored, General

LEMMA StepRestores ==
  ASSUME IInv, NEW e \in saved
  PROVE  /\ Ret /\ Finds(e, <<"eip">>, reg.esp) => Restored(e, {"eip"})
         /\ Leave /\ Finds(e, <<"ebp">>, reg.ebp) => Restored(e, {"ebp"})
         /\ Popfd /\ Finds(e, <<"eflags">>, reg.esp) => Restored(e, {"eflags"})
         /\ Popad /\ Finds(e, PushadOrder, reg.esp) => Restored(e, General)
         /\ \A r \in Operands \ {"esp"} :
              Pop(r) /\ Finds(e, <<r>>, reg.esp) => Restored(e, {r})
<1>1. Ret /\ Finds(e, <<"eip">>, reg.esp) => Restored(e, {"eip"})
  BY PopOne, RegisterNames DEF Ret, Finds
<1>2. Leave /\ Finds(e, <<"ebp">>, reg.ebp) => Restored(e, {"ebp"})
  BY PopOne, RegisterNames DEF Leave, Finds
<1>3. Popfd /\ Finds(e, <<"eflags">>, reg.esp) => Restored(e, {"eflags"})
  BY PopOne, RegisterNames DEF Popfd, Finds
<1>4. Popad /\ Finds(e, PushadOrder, reg.esp) => Restored(e, General)
  BY PopadRestores DEF Popad, Finds
<1>5. ASSUME NEW r \in Operands \ {"esp"}, Pop(r), Finds(e, <<r>>, reg.esp)
      PROVE  Restored(e, {r})
  <2>1. r \in Reg \ {"esp"} /\ e.names = <<r>> /\ PopAll(<<r>>, e.low)
    BY <1>5, StackAssumption DEF Pop, Finds
  <2>2. QED
    BY <2>1, PopOne
<1>6. QED
  BY <1>1, <1>2, <1>3, <1>4, <1>5

\* ret, leave, pop, popfd and popad restore what call, push, pushfd and pushad
\* saved, for every program, with any interruption in between.
THEOREM SavedIsRestored == Spec => PopsRestore
<1>1. IInv /\ [Next]_vars =>
        [\A e \in saved :
           /\ Ret /\ Finds(e, <<"eip">>, reg.esp) => Restored(e, {"eip"})
           /\ Leave /\ Finds(e, <<"ebp">>, reg.ebp) => Restored(e, {"ebp"})
           /\ Popfd /\ Finds(e, <<"eflags">>, reg.esp) => Restored(e, {"eflags"})
           /\ Popad /\ Finds(e, PushadOrder, reg.esp) => Restored(e, General)
           /\ \A r \in Operands \ {"esp"} :
                Pop(r) /\ Finds(e, <<r>>, reg.esp) => Restored(e, {r})]_vars
  BY StepRestores
<1>2. QED
  BY <1>1, StackInvariance, PTL DEF Spec, PopsRestore

\* iret at the frame of an interrupt resumes what was interrupted.
LEMMA IretFrame ==
  ASSUME IInv, NEW e \in saved, Iret, Len(e.names) = 3, e.low = reg.esp
  PROVE  \A r \in {"eip", "cs", "eflags"} : reg'[r] = e.values[r]
<1> DEFINE names == <<"eip", "cs", "eflags", "esp", "ss">>
<1>1. names \in Seq(Reg) /\ PopAll(names, e.low) /\ Len(names) = 5
  BY DEF Iret, Reg, Segment, General
<1>2. e.names = <<"eflags", "cs", "eip">>
  BY DEF IInv, EntriesOK, InterruptFrame
<1>3. /\ names[1] = "eip" /\ names[2] = "cs" /\ names[3] = "eflags"
      /\ \A k \in 1 .. 3 : e.names[4 - k] = names[k]
      /\ \A k \in 1 .. 3, j \in 1 .. 5 : names[j] = names[k] => j = k
  BY <1>2
<1> HIDE DEF names
<1>4. ASSUME NEW k \in 1 .. 3 PROVE reg'[names[k]] = e.values[names[k]]
  <2>1. k \in 1 .. Len(names) /\ k <= Len(e.names) /\ Len(names) <= 8
        /\ e.names[Len(e.names) + 1 - k] = names[k]
        /\ \A j \in 1 .. Len(names) : names[j] = names[k] => j = k
    BY <1>1, <1>3
  <2>2. QED
    BY <1>1, <2>1, PopEntry
<1>5. QED
  BY <1>3, <1>4

\* An interrupted program continues at its own instruction, in its own code
\* segment, with its own reg32 (save_regs, iret).
THEOREM InterruptedResumes == Spec => IretResumes
<1>1. IInv /\ [Next]_vars =>
        [\A e \in saved :
           Iret /\ Len(e.names) = 3 /\ e.low = reg.esp
             => \A r \in {"eip", "cs", "eflags"} : reg'[r] = e.values[r]]_vars
  BY IretFrame
<1>2. QED
  BY <1>1, StackInvariance, PTL DEF Spec, IretResumes
=============================================================================
