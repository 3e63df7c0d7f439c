------------------------------ MODULE IntUnit ------------------------------
(***************************************************************************)
(* PerformIntOp of core/unit/int.cpp: what an integer instruction, RV32I   *)
(* or RV32M, makes of its two operands.                                    *)
(***************************************************************************)
EXTENDS Words

IntOp == {"add", "sub", "sll", "slt", "sltu", "xor", "srl", "sra", "or", "and"}
MulOp == {"mul", "mulh", "mulhsu", "mulhu"}
DivOp == {"div", "divu", "rem", "remu"}
RegOp == IntOp \cup MulOp \cup DivOp

\* The operation of the instructions with an immediate operand.
ImmBase ==
  [addi |-> "add", slti |-> "slt", sltiu |-> "sltu", xori |-> "xor",
   ori |-> "or", andi |-> "and", slli |-> "sll", srli |-> "srl",
   srai |-> "sra"]
ImmOp == DOMAIN ImmBase

\* Mutant: the distance of a shift keeps all of its bits.
ShiftAmount_All(y) == y

\* opr2 & 0b11111.
ShiftAmount(y) == y % XLEN

Sll(x, k) == WordOf({b \in Bit : b - k \in BitsOf(x)})
Srl(x, k) == WordOf({b \in Bit : b + k \in BitsOf(x)})
Sra(x, k) == WordOf({b \in Bit :
               (IF b + k \in Bit THEN b + k ELSE XLEN - 1) \in BitsOf(x)})

\* Product of integers of twice the width, and its upper half.
Wide == WordSize * WordSize

\* Mutant: both operands are signed.
MulHSU_Signed(x, y) == Wrap((Signed(x) * Signed(y)) \div WordSize)

\* The product of a signed and an unsigned operand is taken modulo 2^64.
MulHSU(x, y) == ((Signed(x) * y) % Wide) \div WordSize

Abs(n) == IF n < 0 THEN 0 - n ELSE n

\* Mutant: the quotient is rounded down.
Quotient_Floor(a, b) == IF b > 0 THEN a \div b ELSE (0 - a) \div (0 - b)

\* The division of C++ rounds to zero; its remainder has the dividend's sign.
Quotient(a, b) == LET q == Abs(a) \div Abs(b)
                  IN  IF (a < 0) = (b < 0) THEN q ELSE 0 - q
Remainder(a, b) == LET r == Abs(a) % Abs(b) IN IF a < 0 THEN 0 - r ELSE r

\* The most negative number divided by -1.
Overflows(x, y) == x = TopBit /\ Signed(y) = -1

Div(x, y) == IF y = 0 THEN WordSize - 1
             ELSE IF Overflows(x, y) THEN TopBit
             ELSE Wrap(Quotient(Signed(x), Signed(y)))
DivU(x, y) == IF y = 0 THEN WordSize - 1 ELSE x \div y
Rem(x, y) == IF y = 0 THEN x
             ELSE IF Overflows(x, y) THEN 0
             ELSE Wrap(Remainder(Signed(x), Signed(y)))
RemU(x, y) == IF y = 0 THEN x ELSE x % y

PerformIntOp(op, x, y) ==
  CASE op = "add"    -> Add(x, y)
    [] op = "sub"    -> Wrap(x - y)
    [] op = "sll"    -> Sll(x, ShiftAmount(y))
    [] op = "slt"    -> IF Signed(x) < Signed(y) THEN 1 ELSE 0
    [] op = "sltu"   -> IF x < y THEN 1 ELSE 0
    [] op = "xor"    -> WordOf((BitsOf(x) \cup BitsOf(y))
                                 \ (BitsOf(x) \cap BitsOf(y)))
    [] op = "srl"    -> Srl(x, ShiftAmount(y))
    [] op = "sra"    -> Sra(x, ShiftAmount(y))
    [] op = "or"     -> WordOf(BitsOf(x) \cup BitsOf(y))
    [] op = "and"    -> WordOf(BitsOf(x) \cap BitsOf(y))
    [] op = "mul"    -> Wrap(Signed(x) * Signed(y))
    [] op = "mulh"   -> Wrap((Signed(x) * Signed(y)) \div WordSize)
    [] op = "mulhsu" -> MulHSU(x, y)
    [] op = "mulhu"  -> (x * y) \div WordSize
    [] op = "div"    -> Div(x, y)
    [] op = "divu"   -> DivU(x, y)
    [] op = "rem"    -> Rem(x, y)
    [] op = "remu"   -> RemU(x, y)

=============================================================================
