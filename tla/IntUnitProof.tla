---------------------------- MODULE IntUnitProof ----------------------------
(***************************************************************************)
(* Facts about words, and that every integer operation makes a word of two *)
(* words, for words of any size.                                           *)
(***************************************************************************)
EXTENDS IntUnit, TLAPS

LEMMA WordBounds ==
  /\ TopBit \in Nat /\ WordSize = 2 * TopBit /\ WordSize \in Nat
  /\ 0 \in Word /\ 1 \in Word
  /\ Word \subseteq Nat
BY WordAssumption DEF TopBit, Word

LEMMA AddType ==
  ASSUME NEW x \in Word, NEW y \in Word PROVE Add(x, y) \in Word
BY WordAssumption DEF Add, Word

LEMMA WrapType == ASSUME NEW n \in Int PROVE Wrap(n) \in Word
BY WordAssumption DEF Wrap, Word

LEMMA WordOfType ==
  ASSUME NEW T \in SUBSET Bit PROVE WordOf(T) \in Word
BY WordAssumption

LEMMA BitsOfType ==
  ASSUME NEW x \in Word PROVE BitsOf(x) \in SUBSET Bit
BY WordAssumption

LEMMA SignedType == ASSUME NEW x \in Word PROVE Signed(x) \in Int
BY WordBounds DEF Signed

\* The quotient and the remainder of two naturals.
LEMMA NatDivision ==
  ASSUME NEW a \in Nat, NEW b \in Nat \ {0}
  PROVE  /\ a \div b \in 0 .. a
         /\ a % b \in 0 .. a
         /\ a % b < b
         /\ a = b * (a \div b) + (a % b)
<1> DEFINE q == a \div b
           r == a % b
           p == b * q
<1>1. q \in Nat /\ r \in Nat /\ r < b /\ a = b * q + r
  OBVIOUS
<1> HIDE DEF q, r
<1>2. p \in Nat /\ p >= q
  <2>1. b - 1 \in Nat /\ p = (b - 1) * q + q
    BY <1>1
  <2>2. (b - 1) * q \in Nat
    BY <2>1, <1>1
  <2> HIDE DEF p
  <2> QED BY <2>1, <2>2, <1>1
<1>3. a = p + r
  BY <1>1
<1> HIDE DEF p
<1>4. q \in 0 .. a /\ r \in 0 .. a
  BY <1>1, <1>2, <1>3
<1>5. q \in 0 .. a /\ r \in 0 .. a /\ r < b /\ a = b * q + r
  BY <1>1, <1>4
<1> QED BY <1>5, Zenon DEF q, r

\* A quotient and a remainder are the only ones.
LEMMA DivisionUnique ==
  ASSUME NEW b \in Nat \ {0}, NEW q \in Int, NEW r \in Nat, r < b
  PROVE  (b * q + r) \div b = q /\ (b * q + r) % b = r
<1> DEFINE p == b * q
           n == p + r
           d == n \div b
           e == n % b
<1>1. p \in Int
  OBVIOUS
<1> HIDE DEF p
<1>2. d \in Int /\ e \in Nat /\ e < b /\ n = b * d + e
  BY <1>1
<1> HIDE DEF d, e
<1>3. ~(d > q)
  <2> SUFFICES ASSUME d > q PROVE FALSE
    OBVIOUS
  <2>1. d - q - 1 \in Nat /\ b * (d - q - 1) \in Nat
    BY <1>2
  <2>2. b * d = b * q + b + b * (d - q - 1)
    BY <1>2
  <2> QED BY <1>1, <1>2, <2>1, <2>2 DEF p
<1>4. ~(d < q)
  <2> SUFFICES ASSUME d < q PROVE FALSE
    OBVIOUS
  <2>1. q - d - 1 \in Nat /\ b * (q - d - 1) \in Nat
    BY <1>2
  <2>2. b * q = b * d + b + b * (q - d - 1)
    BY <1>2
  <2> QED BY <1>1, <1>2, <2>1, <2>2 DEF p
<1>5. d = q
  BY <1>2, <1>3, <1>4
<1>6. e = r
  BY <1>1, <1>2, <1>5 DEF p
<1> QED BY <1>5, <1>6 DEF d, e, p

LEMMA QuotientType ==
  ASSUME NEW a \in Int, NEW b \in Int \ {0}
  PROVE  Quotient(a, b) \in Int /\ Remainder(a, b) \in Int
<1>1. Abs(a) \in Nat /\ Abs(b) \in Nat \ {0}
  BY DEF Abs
<1> DEFINE q == Abs(a) \div Abs(b)
           r == Abs(a) % Abs(b)
<1>2. q \in Int /\ r \in Int
  BY <1>1, NatDivision
<1>3. Quotient(a, b) = IF (a < 0) = (b < 0) THEN q ELSE 0 - q
  BY DEF Quotient
<1>4. Remainder(a, b) = IF a < 0 THEN 0 - r ELSE r
  BY DEF Remainder
<1> HIDE DEF q, r
<1> QED BY <1>2, <1>3, <1>4

LEMMA ShiftType ==
  ASSUME NEW x \in Word, NEW k \in Nat
  PROVE  Sll(x, k) \in Word /\ Srl(x, k) \in Word /\ Sra(x, k) \in Word
BY WordOfType DEF Sll, Srl, Sra

LEMMA DivType ==
  ASSUME NEW x \in Word, NEW y \in Word
  PROVE  /\ Div(x, y) \in Word /\ Rem(x, y) \in Word
         /\ DivU(x, y) \in Word /\ RemU(x, y) \in Word
<1>1. WordSize - 1 \in Word /\ TopBit \in Word /\ 0 \in Word
  BY WordAssumption, WordBounds DEF Word
<1>2. CASE y = 0
  BY <1>1, <1>2 DEF Div, Rem, DivU, RemU
<1>3. CASE y # 0
  <2>1. x \in Nat /\ y \in Nat \ {0} /\ x < WordSize
    BY <1>3, WordAssumption DEF Word
  <2>2. x \div y \in Word /\ x % y \in Word
    <3> DEFINE q == x \div y
               r == x % y
    <3>1. q \in 0 .. x /\ r \in 0 .. x
      BY <2>1, NatDivision
    <3> HIDE DEF q, r
    <3>2. q \in Word /\ r \in Word
      BY <2>1, <3>1, WordBounds DEF Word
    <3> QED BY <3>2 DEF q, r
  <2>3. Signed(x) \in Int /\ Signed(y) \in Int \ {0}
    BY <1>3, <2>1, WordBounds DEF Signed, Word
  <2>4. /\ Wrap(Quotient(Signed(x), Signed(y))) \in Word
        /\ Wrap(Remainder(Signed(x), Signed(y))) \in Word
    BY <2>3, QuotientType, WrapType
  <2> QED BY <1>1, <1>3, <2>2, <2>4 DEF Div, Rem, DivU, RemU
<1> QED BY <1>2, <1>3

\* The upper half of a number below the square of the word size.
LEMMA UpperHalf ==
  ASSUME NEW n \in Nat, n < Wide PROVE n \div WordSize \in Word
<1> DEFINE q == n \div WordSize
<1>1. WordSize \in Nat \ {0}
  BY WordAssumption
<1>2. q \in Nat /\ WordSize * q <= n
  BY <1>1, NatDivision
<1> HIDE DEF q
<1>3. ~(q >= WordSize)
  <2> SUFFICES ASSUME q >= WordSize PROVE FALSE
    OBVIOUS
  <2>1. WordSize * q >= WordSize * WordSize
    BY <1>1, <1>2
  <2>2. WordSize * q \in Nat /\ WordSize * WordSize \in Nat
    BY <1>1, <1>2
  <2> DEFINE p == WordSize * q
             s == WordSize * WordSize
  <2>3. p >= s /\ p <= n /\ n < s /\ p \in Nat /\ s \in Nat
    BY <1>2, <2>1, <2>2 DEF Wide
  <2> HIDE DEF p, s
  <2> QED BY <2>3
<1>4. q \in Word
  BY <1>1, <1>2, <1>3 DEF Word
<1> QED BY <1>4 DEF q

LEMMA MulType ==
  ASSUME NEW x \in Word, NEW y \in Word
  PROVE  /\ Wrap(Signed(x) * Signed(y)) \in Word
         /\ Wrap((Signed(x) * Signed(y)) \div WordSize) \in Word
         /\ MulHSU(x, y) \in Word
         /\ (x * y) \div WordSize \in Word
<1>1. x \in Nat /\ y \in Nat /\ x < WordSize /\ y < WordSize
      /\ WordSize \in Nat \ {0}
  BY WordAssumption DEF Word
<1>2. Signed(x) \in Int /\ Signed(y) \in Int
  BY SignedType
<1>3. PICK s \in Int : s = Signed(x) * Signed(y)
  BY <1>2
<1>4. Wrap(s) \in Word /\ Wrap(s \div WordSize) \in Word
  BY <1>1, WrapType
<1>5. PICK u \in Int : u = Signed(x) * y
  BY <1>1, <1>2
<1>6. Wide \in Nat \ {0}
  BY <1>1 DEF Wide
<1>7. u % Wide \in Nat /\ u % Wide < Wide
  <2> DEFINE n == Wide
  <2>1. n \in Nat \ {0}
    BY <1>6
  <2> HIDE DEF n
  <2>2. u % n \in Nat /\ u % n < n
    BY <2>1
  <2> QED BY <2>2 DEF n
<1>8. (u % Wide) \div WordSize \in Word
  BY <1>7, UpperHalf
<1>9. x * y \in Nat /\ x * y < Wide
  <2>1. x * y \in Nat /\ x * y <= x * WordSize
    BY <1>1
  <2>2. x * WordSize < WordSize * WordSize
    BY <1>1
  <2>3. x * WordSize \in Nat /\ WordSize * WordSize \in Nat
    BY <1>1
  <2> DEFINE a == x * y
             b == x * WordSize
             c == WordSize * WordSize
  <2>4. a \in Nat /\ b \in Nat /\ c \in Nat /\ a <= b /\ b < c
    BY <2>1, <2>2, <2>3
  <2> HIDE DEF a, b, c
  <2>5. a < c
    BY <2>4
  <2> QED BY <2>1, <2>5 DEF a, c, Wide
<1>10. (x * y) \div WordSize \in Word
  BY <1>9, UpperHalf
<1> QED BY <1>3, <1>4, <1>5, <1>8, <1>10 DEF MulHSU

\* Every operation, with every pair of operands, has a word as its result:
\* a division by zero and an overflowing one too.
THEOREM PerformIntOpType ==
  ASSUME NEW op \in RegOp, NEW x \in Word, NEW y \in Word
  PROVE  PerformIntOp(op, x, y) \in Word
<1>1. ShiftAmount(y) \in Nat
  BY WordAssumption DEF ShiftAmount, Word
<1>2. /\ Sll(x, ShiftAmount(y)) \in Word /\ Srl(x, ShiftAmount(y)) \in Word
      /\ Sra(x, ShiftAmount(y)) \in Word
  BY <1>1, ShiftType
<1>3. Add(x, y) \in Word /\ Wrap(x - y) \in Word
  BY AddType, WrapType, WordBounds
<1>4. /\ WordOf((BitsOf(x) \cup BitsOf(y)) \ (BitsOf(x) \cap BitsOf(y))) \in Word
      /\ WordOf(BitsOf(x) \cup BitsOf(y)) \in Word
      /\ WordOf(BitsOf(x) \cap BitsOf(y)) \in Word
  BY BitsOfType, WordOfType
<1>5. 0 \in Word /\ 1 \in Word
  BY WordBounds
<1> DEFINE e1 == Add(x, y)
           e2 == Wrap(x - y)
           e3 == Sll(x, ShiftAmount(y))
           e4 == IF Signed(x) < Signed(y) THEN 1 ELSE 0
           e5 == IF x < y THEN 1 ELSE 0
           e6 == WordOf((BitsOf(x) \cup BitsOf(y)) \ (BitsOf(x) \cap BitsOf(y)))
           e7 == Srl(x, ShiftAmount(y))
           e8 == Sra(x, ShiftAmount(y))
           e9 == WordOf(BitsOf(x) \cup BitsOf(y))
           e10 == WordOf(BitsOf(x) \cap BitsOf(y))
           e11 == Wrap(Signed(x) * Signed(y))
           e12 == Wrap((Signed(x) * Signed(y)) \div WordSize)
           e13 == MulHSU(x, y)
           e14 == (x * y) \div WordSize
           e15 == Div(x, y)
           e16 == DivU(x, y)
           e17 == Rem(x, y)
           e18 == RemU(x, y)
           r == PerformIntOp(op, x, y)
<1>6. {e1, e2, e3, e4, e5, e6, e7, e8, e9, e10, e11, e12, e13, e14, e15, e16,
       e17, e18} \subseteq Word
  <2>1. {e1, e2, e3, e4, e5, e6, e7, e8, e9, e10} \subseteq Word
    BY <1>2, <1>3, <1>4, <1>5
  <2>2. {e11, e12, e13, e14} \subseteq Word
    BY MulType
  <2>3. {e15, e16, e17, e18} \subseteq Word
    BY DivType
  <2> HIDE DEF e1, e2, e3, e4, e5, e6, e7, e8, e9, e10, e11, e12, e13, e14,
               e15, e16, e17, e18
  <2> QED BY <2>1, <2>2, <2>3
<1>7. r = CASE op = "add" -> e1 [] op = "sub" -> e2 [] op = "sll" -> e3
            [] op = "slt" -> e4 [] op = "sltu" -> e5 [] op = "xor" -> e6
            [] op = "srl" -> e7 [] op = "sra" -> e8 [] op = "or" -> e9
            [] op = "and" -> e10 [] op = "mul" -> e11 [] op = "mulh" -> e12
            [] op = "mulhsu" -> e13 [] op = "mulhu" -> e14
            [] op = "div" -> e15 [] op = "divu" -> e16 [] op = "rem" -> e17
            [] op = "remu" -> e18
  BY Zenon DEF PerformIntOp
<1> HIDE DEF e1, e2, e3, e4, e5, e6, e7, e8, e9, e10, e11, e12, e13, e14,
             e15, e16, e17, e18, r
<1>8. r \in {e1, e2, e3, e4, e5, e6, e7, e8, e9, e10, e11, e12, e13, e14, e15,
             e16, e17, e18}
  BY <1>7 DEF RegOp, IntOp, MulOp, DivOp
<1>9. r \in Word
  BY <1>6, <1>8
<1> QED BY <1>9 DEF r

=============================================================================
