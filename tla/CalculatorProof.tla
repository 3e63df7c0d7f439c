-------------------------- MODULE CalculatorProof --------------------------
(***************************************************************************)
(* The integer unit does arithmetic: its divisions and products are right  *)
(* for every pair of operands and words of any size, and the debugger      *)
(* calculates as it does.                                                  *)
(*                                                                         *)
(* Every result is a word that differs from the integer it stands for by a *)
(* multiple of WordSize; the proofs keep those multiples apart (WrapForm,  *)
(* SignedForm) and drop them at the end (WrapSame).                        *)
(***************************************************************************)
EXTENDS Calculator, IntUnitProof

\* Integers that differ by a multiple of WordSize are truncated to one word.
LEMMA WrapSame ==
  ASSUME NEW n \in Int, NEW k \in Int
  PROVE  Wrap(n + WordSize * k) = Wrap(n)
<1> DEFINE q == n \div WordSize
           r == n % WordSize
           W == WordSize
<1>1. W \in Nat \ {0}
  BY WordAssumption
<1>2. q \in Int /\ r \in Nat /\ r < W /\ n = W * q + r
  BY <1>1
<1> HIDE DEF q, r, W
<1>3. n + W * k = W * (q + k) + r
  BY <1>1, <1>2
<1>4. q + k \in Int
  BY <1>2
<1>5. (W * (q + k) + r) % W = r /\ (W * q + r) % W = r
  BY <1>1, <1>2, <1>4, DivisionUnique
<1> QED BY <1>2, <1>3, <1>5 DEF Wrap, W

LEMMA WrapForm ==
  ASSUME NEW n \in Int
  PROVE  \E k \in Int : Wrap(n) = n + WordSize * k
<1> DEFINE q == n \div WordSize
           r == n % WordSize
           W == WordSize
<1>1. W \in Nat \ {0}
  BY WordAssumption
<1>2. q \in Int /\ r \in Nat /\ n = W * q + r
  BY <1>1
<1> HIDE DEF q, r, W
<1>3. 0 - q \in Int /\ r = n + W * (0 - q)
  BY <1>1, <1>2
<1>4. Wrap(n) = r
  BY DEF Wrap, r
<1> QED BY <1>3, <1>4 DEF W

LEMMA WrapWord == ASSUME NEW w \in Word PROVE Wrap(w) = w
BY WordAssumption DEF Wrap, Word

LEMMA SignedForm ==
  ASSUME NEW w \in Word
  PROVE  /\ \E k \in Int : Signed(w) = w + WordSize * k
         /\ Signed(w) \in Int /\ 0 - TopBit <= Signed(w) /\ Signed(w) < TopBit
         /\ Signed(w) = 0 <=> w = 0
<1>1. w \in Nat /\ w < WordSize /\ WordSize = 2 * TopBit /\ TopBit \in Nat
  BY WordBounds DEF Word
<1>2. CASE w >= TopBit
  <2>1. Signed(w) = w + WordSize * (-1)
    BY <1>1, <1>2 DEF Signed
  <2> QED BY <1>1, <1>2, <2>1
<1>3. CASE w < TopBit
  <2>1. Signed(w) = w + WordSize * 0
    BY <1>1, <1>3 DEF Signed
  <2> QED BY <1>1, <1>3, <2>1
<1> QED BY <1>1, <1>2, <1>3

\* A number that fits a signed word survives the truncation.
LEMMA SignedWrap ==
  ASSUME NEW r \in Int, 0 - TopBit <= r, r < TopBit
  PROVE  Signed(Wrap(r)) = r
<1>1. WordSize = 2 * TopBit /\ TopBit \in Nat /\ WordSize \in Nat
  BY WordBounds
<1>2. CASE r >= 0
  <2>1. Wrap(r) = r
    BY <1>1, <1>2, WrapWord DEF Word
  <2> QED BY <1>1, <1>2, <2>1 DEF Signed
<1>3. CASE r < 0
  <2>1. Wrap(r + WordSize * 1) = Wrap(r)
    BY WrapSame
  <2>2. r + WordSize \in Word /\ r + WordSize * 1 = r + WordSize
    BY <1>1, <1>3 DEF Word
  <2>3. Wrap(r) = r + WordSize
    BY <2>1, <2>2, WrapWord
  <2> QED BY <1>1, <1>3, <2>3 DEF Signed
<1> QED BY <1>2, <1>3

----------------------------------------------------------------------------
\* Division.

LEMMA RoundsToZero ==
  ASSUME NEW a \in Int, NEW b \in Int \ {0}
  PROVE  /\ Quotient(a, b) \in Int /\ Remainder(a, b) \in Int
         /\ Quotient(a, b) * b + Remainder(a, b) = a
         /\ Abs(Remainder(a, b)) < Abs(b)
         /\ Remainder(a, b) # 0 => (Remainder(a, b) < 0 <=> a < 0)
<1> DEFINE m == Abs(a)
           n == Abs(b)
           q == m \div n
           r == m % n
<1>1. /\ m \in Nat /\ n \in Nat \ {0}
      /\ m = IF a < 0 THEN 0 - a ELSE a
      /\ n = IF b < 0 THEN 0 - b ELSE b
  BY DEF Abs
<1> HIDE DEF m, n
<1>2. q \in Nat /\ r \in Nat /\ r < n /\ m = n * q + r
  <2>1. m \in Nat /\ n \in Nat \ {0}
    BY <1>1
  <2> QED BY <2>1
<1>3. Quotient(a, b) = IF (a < 0) = (b < 0) THEN q ELSE 0 - q
  BY DEF Quotient, m, n
<1>4. Remainder(a, b) = IF a < 0 THEN 0 - r ELSE r
  BY DEF Remainder, m, n
<1> HIDE DEF q, r
<1>5. Quotient(a, b) \in Int /\ Remainder(a, b) \in Int
  BY <1>2, <1>3, <1>4
<1>6. Quotient(a, b) * b + Remainder(a, b) = a
  <2>1. CASE a < 0 /\ b < 0
    BY <1>1, <1>2, <1>3, <1>4, <2>1
  <2>2. CASE a < 0 /\ ~(b < 0)
    BY <1>1, <1>2, <1>3, <1>4, <2>2
  <2>3. CASE ~(a < 0) /\ b < 0
    BY <1>1, <1>2, <1>3, <1>4, <2>3
  <2>4. CASE ~(a < 0) /\ ~(b < 0)
    BY <1>1, <1>2, <1>3, <1>4, <2>4
  <2> QED BY <2>1, <2>2, <2>3, <2>4
<1>7. Abs(Remainder(a, b)) = r
  BY <1>2, <1>4 DEF Abs
<1>8. Remainder(a, b) # 0 => (Remainder(a, b) < 0 <=> a < 0)
  BY <1>2, <1>4
<1> QED BY <1>2, <1>5, <1>6, <1>7, <1>8 DEF n

\* The signed division of two words, apart from its two special cases.
LEMMA SignedDivision ==
  ASSUME NEW a \in Word, NEW b \in Word, b # 0, ~Overflows(a, b)
  PROVE  /\ Wrap(Div(a, b) * b + Rem(a, b)) = a
         /\ Abs(Signed(Rem(a, b))) < Abs(Signed(b))
         /\ Signed(Rem(a, b)) # 0 => (Signed(Rem(a, b)) < 0 <=> Signed(a) < 0)
<1> DEFINE s == Signed(a)
           t == Signed(b)
           q == Quotient(s, t)
           r == Remainder(s, t)
           W == WordSize
<1>1. /\ s \in Int /\ t \in Int \ {0} /\ 0 - TopBit <= t /\ t < TopBit
      /\ a \in Int /\ b \in Int /\ W \in Int /\ TopBit \in Nat
  BY SignedForm, WordBounds DEF Word
<1>2. /\ q \in Int /\ r \in Int /\ q * t + r = s
      /\ Abs(r) < Abs(t)
      /\ r # 0 => (r < 0 <=> s < 0)
  <2> HIDE DEF s, t
  <2> QED BY <1>1, RoundsToZero
<1>3. Div(a, b) = Wrap(q) /\ Rem(a, b) = Wrap(r)
  BY DEF Div, Rem
<1>4. PICK i \in Int : s = a + W * i
  BY SignedForm
<1>5. PICK j \in Int : t = b + W * j
  BY SignedForm
<1> HIDE DEF s, t, q, r
<1>6. PICK k \in Int : Wrap(q) = q + W * k
  BY <1>2, WrapForm
<1>7. PICK l \in Int : Wrap(r) = r + W * l
  BY <1>2, WrapForm
<1> HIDE DEF W
<1> DEFINE d == i - q * j + k * t - W * k * j + l
<1>8. d \in Int
  BY <1>1, <1>2
<1>9. Wrap(q) * b + Wrap(r) = a + W * d
  <2>1. b = t - W * j /\ a = s - W * i
    BY <1>1, <1>4, <1>5
  <2>2. (q + W * k) * (t - W * j) + (r + W * l)
          = (q * t + r) + W * (k * t - q * j - W * k * j + l)
    BY <1>1, <1>2
  <2>3. s - W * i + W * d = s + W * (k * t - q * j - W * k * j + l)
    BY <1>1, <1>2
  <2> HIDE DEF d
  <2> QED BY <1>2, <1>6, <1>7, <2>1, <2>2, <2>3
<1> HIDE DEF d
<1>10. Wrap(a + W * d) = a
  BY <1>1, <1>8, WrapSame, WrapWord DEF W
<1>11. Signed(Wrap(r)) = r
  <2>1. Abs(r) < Abs(t) /\ r \in Int
    BY <1>2
  <2>2. Abs(t) \in 0 .. TopBit
    BY <1>1 DEF Abs
  <2>3. 0 - TopBit <= r /\ r < TopBit
    BY <1>1, <2>1, <2>2 DEF Abs
  <2> QED BY <2>1, <2>3, SignedWrap
<1>12. Wrap(Div(a, b) * b + Rem(a, b)) = a
  BY <1>3, <1>9, <1>10
<1>13. Abs(Signed(Rem(a, b))) < Abs(t) /\ Signed(Rem(a, b)) = r
  BY <1>2, <1>3, <1>11
<1>14. r # 0 => (r < 0 <=> s < 0)
  BY <1>2
<1> QED BY <1>12, <1>13, <1>14 DEF s, t

\* By zero: the quotient is all ones and the remainder the dividend.
LEMMA DivisionByZero ==
  ASSUME NEW a \in Word
  PROVE  /\ Wrap(Div(a, 0) * 0 + Rem(a, 0)) = a
         /\ Wrap(DivU(a, 0) * 0 + RemU(a, 0)) = a
<1>1. a \in Int /\ WordSize \in Int
  BY WordBounds DEF Word
<1>2. (WordSize - 1) * 0 + a = a
  BY <1>1
<1> QED BY <1>2, WrapWord DEF Div, Rem, DivU, RemU

\* The quotient that does not fit a word: of the least number and minus one.
LEMMA DivisionOverflows ==
  ASSUME NEW a \in Word, NEW b \in Word, Overflows(a, b)
  PROVE  /\ Div(a, b) = TopBit /\ Rem(a, b) = 0 /\ b # 0
         /\ Wrap(Div(a, b) * b + Rem(a, b)) = a
         /\ Signed(Rem(a, b)) = 0 /\ Abs(Signed(b)) = 1
<1>1. WordSize = 2 * TopBit /\ TopBit \in Nat /\ TopBit # 0 /\ TopBit \in Word
  BY WordBounds, WordAssumption DEF Word
<1>2. a = TopBit /\ b = WordSize - 1 /\ Signed(b) = -1
  BY <1>1 DEF Overflows, Signed, Word
<1>3. b # 0 /\ Div(a, b) = TopBit /\ Rem(a, b) = 0
  BY <1>1, <1>2 DEF Div, Rem, Overflows
<1>4. TopBit * (WordSize - 1) + 0 = TopBit + WordSize * (TopBit - 1)
  BY <1>1
<1>5. Wrap(TopBit + WordSize * (TopBit - 1)) = TopBit
  BY <1>1, WrapSame, WrapWord
<1>6. Signed(0) = 0 /\ Abs(-1) = 1
  BY <1>1 DEF Signed, Abs
<1> QED BY <1>2, <1>3, <1>4, <1>5, <1>6

LEMMA UnsignedDivision ==
  ASSUME NEW a \in Word, NEW b \in Word, b # 0
  PROVE  Wrap(DivU(a, b) * b + RemU(a, b)) = a /\ RemU(a, b) < b
<1> DEFINE q == a \div b
           r == a % b
<1>1. a \in Nat /\ b \in Nat \ {0}
  BY WordBounds DEF Word
<1>2. q \in Nat /\ r \in Nat /\ r < b /\ a = b * q + r
  BY <1>1, NatDivision
<1>3. DivU(a, b) = q /\ RemU(a, b) = r
  BY DEF DivU, RemU
<1> HIDE DEF q, r
<1>4. q * b + r = a
  BY <1>1, <1>2
<1> QED BY <1>2, <1>3, <1>4, WrapWord

----------------------------------------------------------------------------
\* Products.

\* The lower half of a product does not depend on the signs.
LEMMA LowerHalf ==
  ASSUME NEW a \in Word, NEW b \in Word
  PROVE  /\ Wrap(Signed(a) * Signed(b)) = Wrap(a * b)
         /\ Wrap(Signed(a) * b) = Wrap(a * b)
<1> DEFINE s == Signed(a)
           t == Signed(b)
           W == WordSize
<1>1. a \in Int /\ b \in Int /\ W \in Int
  BY WordBounds DEF Word
<1>2. PICK i \in Int : s = a + W * i
  BY SignedForm
<1>3. PICK j \in Int : t = b + W * j
  BY SignedForm
<1> HIDE DEF s, t, W
<1>4. s * t = a * b + W * (a * j + b * i + W * i * j)
  BY <1>1, <1>2, <1>3
<1>5. s * b = a * b + W * (b * i)
  BY <1>1, <1>2
<1>6. a * b \in Int /\ a * j + b * i + W * i * j \in Int /\ b * i \in Int
  BY <1>1
<1>7. /\ Wrap(a * b + W * (a * j + b * i + W * i * j)) = Wrap(a * b)
      /\ Wrap(a * b + W * (b * i)) = Wrap(a * b)
  BY <1>6, WrapSame DEF W
<1> QED BY <1>4, <1>5, <1>7 DEF s, t

\* A number is its quotient by the word size and its lower half.
LEMMA Halves ==
  ASSUME NEW n \in Int
  PROVE  (n \div WordSize) * WordSize + Wrap(n) = n /\ n \div WordSize \in Int
<1> DEFINE W == WordSize
           q == n \div W
           r == n % W
<1>1. W \in Nat \ {0}
  BY WordAssumption
<1>2. q \in Int /\ r \in Int /\ n = W * q + r
  BY <1>1
<1> HIDE DEF q, r
<1>3. q * W + r = n
  BY <1>1, <1>2
<1> QED BY <1>2, <1>3 DEF q, r, Wrap

\* Two halves, both truncated, are the number modulo the square.
LEMMA WideHalves ==
  ASSUME NEW n \in Int
  PROVE  Wrap(n \div WordSize) * WordSize + Wrap(n) = n % Wide
<1> DEFINE W == WordSize
           q == n \div W
           r == Wrap(n)
           h == q \div W
           l == Wrap(q)
<1>1. W \in Nat \ {0}
  BY WordAssumption
<1>2. q * W + r = n /\ q \in Int
  BY Halves
<1>3. h * W + l = q /\ h \in Int
  BY <1>2, Halves
<1>4. r \in Nat /\ r < W /\ l \in Nat /\ l < W
  BY <1>2, WrapType, WordBounds DEF Word
<1> HIDE DEF W, q, r, h, l
<1> DEFINE low == l * W + r
           wide == W * W
<1>5. wide \in Nat \ {0} /\ low \in Nat /\ low < wide
  <2>1. W - 1 - l \in Nat /\ W * (W - 1 - l) \in Nat
    BY <1>1, <1>4
  <2>2. wide = l * W + W + W * (W - 1 - l)
    BY <1>1, <1>4
  <2>3. l * W \in Nat
    BY <1>1, <1>4
  <2> QED BY <1>1, <1>4, <2>1, <2>2, <2>3
<1>6. n = wide * h + low
  BY <1>1, <1>2, <1>3, <1>4
<1> HIDE DEF low, wide
<1>7. n % wide = low
  BY <1>3, <1>5, <1>6, DivisionUnique
<1> QED BY <1>7 DEF low, wide, Wide, W, q, r, l

\* A signed and an unsigned operand, the product taken modulo the square first.
LEMMA MixedHalves ==
  ASSUME NEW n \in Int
  PROVE  ((n % Wide) \div WordSize) * WordSize + Wrap(n) = n % Wide
<1> DEFINE W == WordSize
           wide == W * W
           e == n \div wide
           z == n % wide
<1>1. W \in Nat \ {0}
  BY WordAssumption
<1>2. wide \in Nat \ {0}
  BY <1>1
<1>3. e \in Int /\ z \in Int /\ n = wide * e + z
  <2> HIDE DEF wide
  <2> QED BY <1>2
<1> HIDE DEF e, z
<1>4. n = z + W * (W * e) /\ W * e \in Int
  BY <1>1, <1>3
<1>5. Wrap(n) = Wrap(z)
  BY <1>3, <1>4, WrapSame
<1>6. (z \div W) * W + Wrap(z) = z
  BY <1>3, Halves
<1> QED BY <1>5, <1>6 DEF z, Wide

----------------------------------------------------------------------------
\* The operations by name.

LEMMA Operations ==
  /\ Result("div") = Div(x, y) /\ Result("divu") = DivU(x, y)
  /\ Result("rem") = Rem(x, y) /\ Result("remu") = RemU(x, y)
  /\ Result("mul") = Wrap(Signed(x) * Signed(y))
  /\ Result("mulh") = Wrap((Signed(x) * Signed(y)) \div WordSize)
  /\ Result("mulhsu") = MulHSU(x, y)
  /\ Result("mulhu") = (x * y) \div WordSize
BY DEF Result, PerformIntOp

LEMMA PlainOperations ==
  /\ Result("add") = Add(x, y) /\ Result("sub") = Wrap(x - y)
  /\ Result("sltu") = IF x < y THEN 1 ELSE 0
  /\ Result("and") = WordOf(BitsOf(x) \cap BitsOf(y))
  /\ Result("or") = WordOf(BitsOf(x) \cup BitsOf(y))
  /\ Result("xor") = WordOf((BitsOf(x) \cup BitsOf(y))
                              \ (BitsOf(x) \cap BitsOf(y)))
  /\ Result("sll") = Sll(x, ShiftAmount(y))
  /\ Result("srl") = Srl(x, ShiftAmount(y))
BY DEF Result, PerformIntOp

Operands == x \in Word /\ y \in Word

LEMMA OperandsAlways == CalcSpec => []Operands
<1>1. CalcInit => Operands
  BY DEF CalcInit, Operands
<1>2. Operands /\ [CalcNext]_<<x, y>> => Operands'
  BY PerformIntOpType DEF Operands, CalcNext, Compute
<1> QED BY <1>1, <1>2, PTL DEF CalcSpec

\* Quotient times divisor plus remainder is the dividend, whatever the operands
\* and the size of words: the divisor 0 and the quotient that does not fit
\* (int.cpp:25-54) are no exceptions.
THEOREM DivisionIsRight == CalcSpec => []DivisionIdentity
<1>1. Operands => DivisionIdentity
  <2> SUFFICES ASSUME Operands PROVE DivisionIdentity
    OBVIOUS
  <2>1. x \in Word /\ y \in Word
    BY DEF Operands
  <2>2. CASE y = 0
    BY <2>1, <2>2, DivisionByZero, Operations, Zenon DEF DivisionIdentity
  <2>3. CASE y # 0 /\ Overflows(x, y)
    <3>1. /\ Wrap(Div(x, y) * y + Rem(x, y)) = x
          /\ Signed(Rem(x, y)) = 0 /\ Abs(Signed(y)) = 1
      BY <2>1, <2>3, DivisionOverflows
    <3>2. Abs(0) < 1
      BY DEF Abs
    <3>3. Wrap(DivU(x, y) * y + RemU(x, y)) = x /\ RemU(x, y) < y
      BY <2>1, <2>3, UnsignedDivision
    <3> QED BY <3>1, <3>2, <3>3, Operations, Zenon DEF DivisionIdentity
  <2>4. CASE y # 0 /\ ~Overflows(x, y)
    <3>1. /\ Wrap(Div(x, y) * y + Rem(x, y)) = x
          /\ Abs(Signed(Rem(x, y))) < Abs(Signed(y))
          /\ Signed(Rem(x, y)) # 0 => (Signed(Rem(x, y)) < 0 <=> Signed(x) < 0)
      BY <2>1, <2>4, SignedDivision
    <3>2. Wrap(DivU(x, y) * y + RemU(x, y)) = x /\ RemU(x, y) < y
      BY <2>1, <2>4, UnsignedDivision
    <3> QED BY <3>1, <3>2, Operations, Zenon DEF DivisionIdentity
  <2> QED BY <2>2, <2>3, <2>4
<1> QED BY OperandsAlways, <1>1, PTL

\* The two instructions for the halves of a product give the product of the
\* operands, in each of the three ways to sign them (int.cpp:17-24).
THEOREM ProductIsWhole == CalcSpec => []ProductHalves
<1>1. Operands => ProductHalves
  <2> SUFFICES ASSUME Operands PROVE ProductHalves
    OBVIOUS
  <2> DEFINE s == Signed(x) * Signed(y)
             m == Signed(x) * y
             u == x * y
  <2>1. x \in Word /\ y \in Word /\ x \in Int /\ y \in Int
    BY WordBounds DEF Operands, Word
  <2>2. s \in Int /\ m \in Int /\ u \in Int
    BY <2>1, SignedType
  <2>3. Wrap(s) = Wrap(u) /\ Wrap(m) = Wrap(u)
    BY <2>1, LowerHalf
  <2>4. /\ Result("mulh") = Wrap(s \div WordSize) /\ Result("mul") = Wrap(s)
        /\ Result("mulhsu") = (m % Wide) \div WordSize
        /\ Result("mulhu") = u \div WordSize
    BY Operations DEF MulHSU
  <2> HIDE DEF s, m, u
  <2>5. Wrap(s \div WordSize) * WordSize + Wrap(s) = s % Wide
    BY <2>2, WideHalves
  <2>6. ((m % Wide) \div WordSize) * WordSize + Wrap(s) = m % Wide
    BY <2>2, <2>3, MixedHalves
  <2>7. (u \div WordSize) * WordSize + Wrap(s) = u
    BY <2>2, <2>3, Halves
  <2> QED BY <2>4, <2>5, <2>6, <2>7, Zenon DEF ProductHalves, s, m, u
<1> QED BY OperandsAlways, <1>1, PTL

\* The cases of the debugger's CalcByOperator that the program has instructions
\* for, "%" is none of them, agree with those wherever C++ defines their result
\* (expreval.cpp:355-377 beside int.cpp:12-61).
THEOREM CasesCalculateAsGuest == CalcSpec => []CasesAsGuest
<1>1. Operands => CasesAsGuest
  <2> SUFFICES ASSUME Operands PROVE CasesAsGuest
    OBVIOUS
  <2>1. x \in Word /\ y \in Word /\ x \in Nat /\ y \in Nat
        /\ x < WordSize /\ y < WordSize /\ WordSize \in Nat /\ XLEN \in Nat
    BY WordAssumption, WordBounds DEF Operands, Word
  <2>2. Undefined \notin {x, y}
    BY <2>1 DEF Undefined
  <2>3. CalcByOperator("+", x, y) = Result("add")
    <3>1. Wrap(x + y) = Add(x, y)
      <4>1. CASE x + y < WordSize
        BY <2>1, <4>1, WrapWord DEF Add, Word
      <4>2. CASE x + y >= WordSize
        <5>1. x + y - WordSize \in Word
          BY <2>1, <4>2 DEF Word
        <5>2. (x + y) + WordSize * (-1) = x + y - WordSize
          BY <2>1
        <5>3. Wrap((x + y) + WordSize * (-1)) = Wrap(x + y)
          BY <2>1, WrapSame
        <5> QED BY <2>1, <4>2, <5>1, <5>2, <5>3, WrapWord DEF Add
      <4> QED BY <2>1, <4>1, <4>2
    <3> QED BY <2>2, <3>1, PlainOperations DEF CalcByOperator
  <2>4. CalcByOperator("-", x, y) = Result("sub")
    BY <2>2, PlainOperations DEF CalcByOperator
  <2>5. CalcByOperator("*", x, y) = Result("mul")
    BY <2>1, <2>2, LowerHalf, Operations DEF CalcByOperator
  <2>6. CalcByOperator("/", x, y) \in {Undefined, Result("divu")}
    BY <2>2, Operations DEF CalcByOperator, DivU
  <2>7. /\ CalcByOperator("&", x, y) = Result("and")
        /\ CalcByOperator("|", x, y) = Result("or")
        /\ CalcByOperator("^", x, y) = Result("xor")
    BY <2>2, PlainOperations DEF CalcByOperator
  <2>8. y < XLEN => ShiftAmount(y) = y
    BY <2>1 DEF ShiftAmount
  <2>9. CalcByOperator("<<", x, y) \in {Undefined, Result("sll")}
    <3>1. CalcByOperator("<<", x, y) =
            IF y >= XLEN THEN Undefined ELSE Sll(x, y)
      BY <2>2 DEF CalcByOperator, Sll
    <3> QED BY <2>1, <2>8, <3>1, PlainOperations
  <2>10. CalcByOperator(">>", x, y) \in {Undefined, Result("srl")}
    <3>1. CalcByOperator(">>", x, y) =
            IF y >= XLEN THEN Undefined ELSE Srl(x, y)
      BY <2>2 DEF CalcByOperator, Srl
    <3> QED BY <2>1, <2>8, <3>1, PlainOperations
  <2>11. CalcByOperator("<", x, y) = Result("sltu")
    BY <2>2, PlainOperations DEF CalcByOperator, LessThan, Bool
  <2> QED BY <2>3, <2>4, <2>5, <2>6, <2>7, <2>9, <2>10, <2>11 DEF CasesAsGuest
<1> QED BY OperandsAlways, <1>1, PTL

============================================================================
