---------------------------- MODULE FlagsProofs ----------------------------
(***************************************************************************)
(* The conditional jumps after a comparison, for operands of any width.    *)
(***************************************************************************)
EXTENDS Flags, TLAPS

LEMMA DivMod ==
  ASSUME NEW d \in Nat \ {0}, NEW q \in Int, NEW r \in 0 .. d - 1, NEW a \in Int,
         a = q * d + r
  PROVE  a \div d = q /\ a % d = r
  OBVIOUS

LEMMA Small ==
  ASSUME NEW d \in Nat \ {0}, NEW a \in 0 .. d - 1
  PROVE  a % d = a /\ a \div d = 0
  OBVIOUS

LEMMA Sizes ==
  /\ Modulus \in Nat \ {0} /\ Wide \in Nat \ {0}
  /\ Modulus = 2 * Half /\ Wide = Factor * Modulus
  /\ Wide >= 2 * Modulus
<1>1. Modulus \in Nat \ {0} /\ Modulus = 2 * Half
  BY FlagsAssumption DEF Modulus
<1>2. Factor \in Int /\ Factor >= 2
  BY FlagsAssumption
<1>3. Factor * Modulus >= 2 * Modulus
  BY <1>1, <1>2
<1>4. QED
  BY <1>1, <1>2, <1>3 DEF Wide

\* The sign bit of an operand says whether it is negative.
LEMMA SignOfOperand == ASSUME NEW x \in Operand PROVE SignBit(x) <=> x >= Half
<1> USE Sizes, FlagsAssumption DEF Operand, SignBit
<1>1. CASE x < Half
  <2>1. x \div Half = 0
    BY <1>1
  <2>2. QED
    BY <1>1, <2>1
<1>2. CASE x >= Half
  <2>1. x = 1 * Half + (x - Half) /\ x - Half \in 0 .. Half - 1
    BY <1>2
  <2>2. x \div Half = 1
    BY <2>1, DivMod
  <2>3. QED
    BY <1>2, <2>2
<1>3. QED
  BY <1>1, <1>2

\* A borrow shows above T and leaves the low part a value of T.
LEMMA Borrow ==
  ASSUME NEW x \in Operand, NEW y \in Operand, x < y
  PROVE  /\ (x - y) % Wide = x - y + Wide
         /\ (x - y + Wide) \div Modulus # 0
         /\ x - y + Wide # 0
         /\ SignBit(x - y + Wide) <=> x - y + Modulus >= Half
<1> USE Sizes, FlagsAssumption DEF Operand
<1>1. x - y \in - Modulus + 1 .. -1 /\ x - y + Wide \in Int
  OBVIOUS
<1>2. (x - y) % Wide = x - y + Wide
  BY <1>1
<1>3. x - y + Wide = (Factor - 1) * Modulus + (x - y + Modulus)
  <2>1. Factor * Modulus = (Factor - 1) * Modulus + Modulus
    OBVIOUS
  <2>2. QED
    BY <2>1, <1>1
<1>4. (x - y + Wide) \div Modulus = Factor - 1
  BY <1>1, <1>3, DivMod
<1>5. SignBit(x - y + Wide) <=> x - y + Modulus >= Half
  <2>1. (Factor - 1) * Modulus = (2 * (Factor - 1)) * Half
    OBVIOUS
  <2>2. CASE x - y + Modulus < Half
    <3>1. (x - y + Wide) \div Half = 2 * (Factor - 1)
      BY <1>1, <1>3, <2>1, <2>2, DivMod
    <3>2. QED
      BY <3>1, <2>2, <1>1 DEF SignBit
  <2>3. CASE x - y + Modulus >= Half
    <3>1. x - y + Wide = (2 * (Factor - 1) + 1) * Half + (x - y + Modulus - Half)
      BY <1>1, <1>3, <2>1
    <3>2. (x - y + Wide) \div Half = 2 * (Factor - 1) + 1
      BY <1>1, <2>3, <3>1, DivMod
    <3>3. QED
      BY <3>2, <2>3, <1>1 DEF SignBit
  <2>4. QED
    BY <1>1, <2>2, <2>3
<1>6. QED
  BY <1>1, <1>2, <1>4, <1>5

LEMMA NoBorrow ==
  ASSUME NEW x \in Operand, NEW y \in Operand, x >= y
  PROVE  /\ (x - y) % Wide = x - y
         /\ (x - y) \div Modulus = 0
         /\ SignBit(x - y) <=> x - y >= Half
<1> USE Sizes DEF Operand
<1>1. x - y \in Operand /\ x - y \in 0 .. Wide - 1
  OBVIOUS
<1>2. (x - y) % Wide = x - y
  BY <1>1, Small
<1>3. (x - y) \div Modulus = 0
  BY <1>1, Small
<1>4. QED
  BY <1>1, <1>2, <1>3, SignOfOperand

\* Every conditional jump after a comparison is taken exactly when the
\* relation its mnemonic names holds, unsigned or signed, at every width.
THEOREM JumpsFollowComparison ==
  ASSUME NEW x \in Operand, NEW y \in Operand
  PROVE  \A c \in DOMAIN Compared(x, y) : Taken(SubFlags(x, y))[c] = Compared(x, y)[c]
<1> DEFINE f == SubFlags(x, y)
           d == (x - y) % Wide
<1>0. x \in Int /\ y \in Int /\ Half \in Int /\ Modulus = 2 * Half /\ Half > 0
      /\ x >= 0 /\ x < Modulus /\ y >= 0 /\ y < Modulus
  BY Sizes, FlagsAssumption DEF Operand
<1>1. /\ f.CF = (d \div Modulus # 0)
      /\ f.ZF = (d = 0)
      /\ f.SF = SignBit(d)
      /\ f.OF = (SignBit(x) # SignBit(y) /\ SignBit(x) # SignBit(d))
  BY DEF SubFlags
<1>bool. f.CF \in BOOLEAN /\ f.ZF \in BOOLEAN /\ f.SF \in BOOLEAN /\ f.OF \in BOOLEAN
  BY <1>1 DEF SignBit
<1>sign. (SignBit(x) <=> x >= Half) /\ (SignBit(y) <=> y >= Half)
  BY SignOfOperand
<1>borrow. ASSUME x < y
           PROVE  (d \div Modulus # 0 /\ d # 0) /\ (SignBit(d) <=> x - y + Modulus >= Half)
  <2>1. d = x - y + Wide
    BY <1>borrow, Borrow
  <2>2. QED
    BY <1>borrow, <2>1, Borrow
<1>whole. ASSUME x >= y
          PROVE  (d \div Modulus = 0 /\ d = x - y) /\ (SignBit(d) <=> x - y >= Half)
  <2>1. d = x - y
    BY <1>whole, NoBorrow
  <2>2. QED
    BY <1>whole, <2>1, NoBorrow
<1> HIDE DEF d, f
<1>2. (f.CF <=> x < y) /\ (f.ZF <=> x = y)
  <2>1. (f.CF <=> d \div Modulus # 0) /\ (f.ZF <=> d = 0)
    BY <1>1
  <2>2. (d \div Modulus # 0 <=> x < y) /\ (d = 0 <=> x = y)
    <3>1. CASE x < y
      BY <1>0, <1>borrow, <3>1
    <3>2. CASE x >= y
      BY <1>0, <1>whole, <3>2
    <3>3. QED
      BY <1>0, <3>1, <3>2
  <2>3. QED
    BY <2>1, <2>2
<1>signed. /\ (x < Half => Signed(x) = x) /\ (x >= Half => Signed(x) = x - Modulus)
      /\ (y < Half => Signed(y) = y) /\ (y >= Half => Signed(y) = y - Modulus)
  BY <1>0 DEF Signed
<1>3. (f.SF # f.OF) <=> Signed(x) < Signed(y)
  <2>1. f.SF <=> SignBit(d)
    BY <1>1
  <2>2. f.OF <=> ~(SignBit(x) <=> SignBit(y)) /\ ~(SignBit(x) <=> SignBit(d))
    BY <1>1 DEF SignBit
  <2>3. (f.SF # f.OF) <=> ~(f.SF <=> f.OF)
    BY <1>bool
  <2>4. CASE x < y
    <3>1. SignBit(d) <=> x - y + Modulus >= Half
      BY <2>4, <1>borrow
    <3>2. ~(f.SF <=> f.OF) <=> Signed(x) < Signed(y)
      BY <1>0, <1>sign, <1>signed, <2>1, <2>2, <2>4, <3>1
    <3>3. QED
      BY <2>3, <3>2
  <2>5. CASE x >= y
    <3>1. SignBit(d) <=> x - y >= Half
      BY <2>5, <1>whole
    <3>2. ~(f.SF <=> f.OF) <=> Signed(x) < Signed(y)
      BY <1>0, <1>sign, <1>signed, <2>1, <2>2, <2>5, <3>1
    <3>3. QED
      BY <2>3, <3>2
  <2>6. QED
    BY <1>0, <2>4, <2>5
<1>4. (Signed(x) = Signed(y)) <=> x = y
  BY <1>0 DEF Signed
<1>5. \A c \in DOMAIN Compared(x, y) : Taken(f)[c] = Compared(x, y)[c]
  <2>1. Signed(x) \in Int /\ Signed(y) \in Int
    BY <1>0 DEF Signed
  <2>2. (f.SF = f.OF) <=> Signed(x) >= Signed(y)
    BY <1>3, <2>1
  <2>3. QED
    BY <1>0, <1>bool, <1>2, <1>3, <1>4, <2>1, <2>2 DEF Taken, Compared
<1>6. QED
  BY <1>5 DEF f
=============================================================================
