---------------------------- MODULE MCArithmetic ----------------------------
(***************************************************************************)
(* The arithmetic of the guest and that of the debugger on words of four   *)
(* bits.  A step of the calculator; or, for the operands of Samples, one   *)
(* more token of a line, which the debugger evaluates.                     *)
(***************************************************************************)
EXTENDS Calculator, ExprEval, FiniteSetsExt

CONSTANTS
  Keys,         \* the tokens that are typed
  MaxTokens,    \* how many of them
  Samples       \* the operands the lines are evaluated for

MCBitsOf(w) == {b \in Bit : (w \div (2 ^ b)) % 2 = 1}
MCWordOf(S) == SumSet({2 ^ b : b \in S})
MCReadWord(a) == (a + 7) % WordSize
MCSamples == {<<13, 6>>, <<3, 0>>}

VARIABLE line

vars == <<x, y, line>>

Init == CalcInit /\ line = <<>>

Apply == line = <<>> /\ CalcNext /\ UNCHANGED line

\* The registers of an expression.
Env == [r \in RegName |-> IF r = "x" THEN x ELSE y]

----------------------------------------------------------------------------
(* A grammar of expressions that says what binds first, with no stack.     *)

\* The value of an expression whose evaluation is refused.
Refused == -2

OfBinary(op, a, b) == IF Refused \in {a, b} THEN Refused
                      ELSE CalcByOperator(op, a, b)
OfUnary(op, a) == IF a = Refused \/ CalcUnary(op, a) = {} THEN {Refused}
                  ELSE CalcUnary(op, a)

\* The values of a line: the operator that binds least, the last of several,
\* divides the line; without one the line is a unary operator before a value,
\* a bracket or a register.  {}: no expression.
RECURSIVE Means(_, _)
Means(s, env) ==
  LET Left(i) == Means(SubSeq(s, 1, i - 1), env)
      Right(i) == Means(SubSeq(s, i + 1, Len(s)), env)
      splits == {i \in 2 .. Len(s) - 1 :
                   s[i] \in BinOp /\ Left(i) # {} /\ Right(i) # {}}
      last == CHOOSE i \in splits :
                \A j \in splits \ {i} :
                  \/ kOpPrec[s[i]] < kOpPrec[s[j]]
                  \/ kOpPrec[s[i]] = kOpPrec[s[j]] /\ j < i
  IN  IF s = <<>> THEN {}
      ELSE IF splits # {}
      THEN {OfBinary(s[last], a, b) : a \in Left(last), b \in Right(last)}
      ELSE IF s[1] \in Operator
      THEN UNION {OfUnary(s[1], a) : a \in Means(Tail(s), env)}
      ELSE IF s[1] = "(" /\ s[Len(s)] = ")"
      THEN Means(SubSeq(s, 2, Len(s) - 1), env)
      ELSE IF Len(s) = 1 /\ s[1] \in RegName THEN {env[s[1]]} ELSE {}

\* Whether t ends a value, and whether u may come after t: a line is typed up
\* to the first token that may not come after the one before it.
Ends(t) == t \in RegName \cup {")"}
MayFollow(t, u) ==
  IF Ends(t) THEN u \in BinOp \cup {")"} ELSE u # ")" /\ u # "&&"

Type(t) ==
  /\ <<x, y>> \in Samples /\ Len(line) < MaxTokens
  /\ \A i \in 2 .. Len(line) : MayFollow(line[i - 1], line[i])
  /\ line' = Append(line, t)
  /\ UNCHANGED <<x, y>>

\* A line is done with.
Clear == line # <<>> /\ line' = <<>> /\ UNCHANGED <<x, y>>

Next == \/ Apply
        \/ \E t \in Keys : Type(t)
        \/ Clear

Spec == Init /\ [][Next]_vars

----------------------------------------------------------------------------
\* The two stacks of ParseBinary (expreval.cpp:229-271), with the recursion of
\* ParseUnary and ParseValue, accept the lines of the grammar and no others,
\* and calculate them in the order of kOpPrec, equal ones from the left.
EvaluatesByPrecedence ==
  LET r == Eval(line, Env)
  IN  (IF r.ok THEN {r.ans} ELSE {}) = Means(line, Env) \ {Refused}

=============================================================================
