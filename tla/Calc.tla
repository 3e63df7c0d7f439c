-------------------------------- MODULE Calc --------------------------------
(***************************************************************************)
(* What the debugger makes of two words and an operator:                   *)
(* ExprEvaluator::CalcByOperator of debugger/expreval.cpp.                 *)
(***************************************************************************)
EXTENDS Words

\* A value the C++ standard does not define: of a division by zero and of a
\* shift by a word or more, and of whatever is computed from it.
Undefined == -1

Bool(b) == IF b THEN 1 ELSE 0

\* Mutant: the operands are signed.
LessThan_Signed(lhs, rhs) == Signed(lhs) < Signed(rhs)

LessThan(lhs, rhs) == lhs < rhs

\* "%" falls to the default case.
CalcByOperator(op, lhs, rhs) ==
  LET L == BitsOf(lhs)
      R == BitsOf(rhs)
  IN  IF Undefined \in {lhs, rhs} THEN Undefined
      ELSE
      CASE op = "+"  -> Wrap(lhs + rhs)
        [] op = "-"  -> Wrap(lhs - rhs)
        [] op = "*"  -> Wrap(lhs * rhs)
        [] op = "/"  -> IF rhs = 0 THEN Undefined ELSE lhs \div rhs
        [] op = "&"  -> WordOf(L \cap R)
        [] op = "|"  -> WordOf(L \cup R)
        [] op = "^"  -> WordOf((L \cup R) \ (L \cap R))
        [] op = "<<" -> IF rhs >= XLEN THEN Undefined
                        ELSE WordOf({b \in Bit : b - rhs \in L})
        [] op = ">>" -> IF rhs >= XLEN THEN Undefined
                        ELSE WordOf({b \in Bit : b + rhs \in L})
        [] op = "&&" -> Bool(lhs # 0 /\ rhs # 0)
        [] op = "||" -> Bool(lhs # 0 \/ rhs # 0)
        [] op = "==" -> Bool(lhs = rhs)
        [] op = "!=" -> Bool(lhs # rhs)
        [] op = "<"  -> Bool(LessThan(lhs, rhs))
        [] op = "<=" -> Bool(lhs <= rhs)
        [] op = ">"  -> Bool(LessThan(rhs, lhs))
        [] op = ">=" -> Bool(lhs >= rhs)
        [] op = "%"  -> 0

=============================================================================
