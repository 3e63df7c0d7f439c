----------------------------- MODULE Calculator -----------------------------
(***************************************************************************)
(* Integer instructions in a row: a step applies one of them to two        *)
(* operands, any two at first, and keeps the result and an operand.  The   *)
(* properties say of PerformIntOp, and of the operators of the debugger    *)
(* beside it, what has to hold of every pair of operands.                  *)
(***************************************************************************)
EXTENDS IntUnit, Calc

VARIABLES x, y

CalcInit == x \in Word /\ y \in Word

Compute(op) == x' = PerformIntOp(op, x, y) /\ y' = x

CalcNext == \E op \in RegOp : Compute(op)

CalcSpec == CalcInit /\ [][CalcNext]_<<x, y>>

----------------------------------------------------------------------------
Result(op) == PerformIntOp(op, x, y)

\* Quotient and remainder belong together whatever the operands, with the
\* divisor 0 and the overflow (int.cpp:25-54): quotient times divisor plus
\* remainder is the dividend, and the remainder is smaller than the divisor
\* and has the sign of the dividend.
DivisionIdentity ==
  /\ Wrap(Result("div") * y + Result("rem")) = x
  /\ Wrap(Result("divu") * y + Result("remu")) = x
  /\ y # 0 =>
       /\ Result("remu") < y
       /\ Abs(Signed(Result("rem"))) < Abs(Signed(y))
       /\ Signed(Result("rem")) # 0 =>
            (Signed(Result("rem")) < 0 <=> Signed(x) < 0)

\* The two halves of a product make the product of the operands, each signed
\* or unsigned as the instruction says (int.cpp:17-24).
ProductHalves ==
  LET whole(high) == Result(high) * WordSize + Result("mul")
  IN  /\ whole("mulh") = (Signed(x) * Signed(y)) % Wide
      /\ whole("mulhsu") = (Signed(x) * y) % Wide
      /\ whole("mulhu") = x * y

\* A shift multiplies or divides by a power of two, rounding down; a distance
\* of a word or more is taken modulo the word (int.cpp:65-78).
ShiftsArePowers ==
  LET power == 2 ^ (y % XLEN)
  IN  /\ Result("sll") = Wrap(x * power)
      /\ Result("srl") = x \div power
      /\ Signed(Result("sra")) = Signed(x) \div power

\* The debugger calculates as the program it debugs (expreval.cpp:355-377
\* beside int.cpp:12-61), for the operators of the program that CalcByOperator
\* has a case for and operands for which C++ defines the result; comparisons are
\* of unsigned words.  "%" is not among them although the parser
\* takes it (expreval.cpp:93): its value is 0, of the default case (line 377),
\* where the program's remainder is not.
CasesAsGuest ==
  LET same == [p \in {"+", "-", "*", "/", "&", "|", "^", "<<", ">>", "<"} |->
                 CASE p = "+" -> "add" [] p = "-" -> "sub" [] p = "*" -> "mul"
                   [] p = "/" -> "divu" [] p = "&" -> "and" [] p = "|" -> "or"
                   [] p = "^" -> "xor" [] p = "<<" -> "sll"
                   [] p = ">>" -> "srl" [] p = "<" -> "sltu"]
  IN  \A p \in DOMAIN same :
        CalcByOperator(p, x, y) \in {Undefined, Result(same[p])}

=============================================================================
