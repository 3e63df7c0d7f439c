------------------------------ MODULE ExprEval ------------------------------
(***************************************************************************)
(* The expressions of the debugger: ExprEvaluator of                       *)
(* debugger/expreval.cpp, from the tokens of a line to its value.  A token *)
(* is an operator, a bracket or the name of a register; a reference to a   *)
(* record is evaluated in module Debugger.  A parser takes the tokens that *)
(* are left and returns a value with the tokens after it.                  *)
(***************************************************************************)
EXTENDS Calc, Sequences, TLC

CONSTANTS
  RegName,      \* names of registers and numbers
  ReadWord(_)   \* the word on the bus at an address

\* kOpList with kOpPrec; -1: not a binary operator.
kOpPrec ==
  [o \in {"*", "/", "%"} |-> 100] @@ [o \in {"+", "-"} |-> 90]
    @@ [o \in {"<<", ">>"} |-> 80] @@ [o \in {"<", "<=", ">", ">="} |-> 70]
    @@ [o \in {"==", "!="} |-> 60]
    @@ ("&" :> 50) @@ ("^" :> 40) @@ ("|" :> 30) @@ ("&&" :> 20)
    @@ ("||" :> 10) @@ [o \in {"~", "!"} |-> -1]

Operator == DOMAIN kOpPrec
BinOp == {o \in Operator : kOpPrec[o] >= 0}
Token == Operator \cup RegName \cup {"(", ")"}

\* What a parser returns.  The tokens are <<>> at Token::End.
Failed == [ok |-> FALSE, ans |-> 0, rest |-> <<>>]
Parsed(ans, rest) == [ok |-> TRUE, ans |-> ans, rest |-> rest]

\* The switch of ParseUnary: a set that is empty when the parser reports an
\* error, and else holds the value.
CalcUnary(op, x) ==
  CASE op = "+" -> {x}
    [] op = "-" -> {IF x = Undefined THEN x ELSE Wrap(0 - x)}
    [] op = "!" -> {IF x = Undefined THEN x ELSE Bool(x = 0)}
    [] op = "~" -> {IF x = Undefined THEN x ELSE WordSize - 1 - x}
    [] op = "*" -> IF x = Undefined THEN {x}
                   ELSE IF x % 4 = 0 THEN {ReadWord(x)} ELSE {}
    [] OTHER -> {}

\* Calculates the operators on top of a stack, down to one not in which.
\* oprs and ops are stacks, the top in front.
RECURSIVE Reduce(_, _, _)
Reduce(oprs, ops, which) ==
  IF ops = <<>> \/ Head(ops) \notin which THEN [oprs |-> oprs, ops |-> ops]
  ELSE Reduce(<<CalcByOperator(Head(ops), oprs[2], oprs[1])>>
                \o SubSeq(oprs, 3, Len(oprs)),
              Tail(ops), which)

\* Mutant: an operator waits for the equal one before it.
Binds_Right(top, op) == kOpPrec[top] > kOpPrec[op]

\* Whether an operator on the stack is calculated before the one read.
Binds(top, op) == kOpPrec[top] >= kOpPrec[op]

RECURSIVE ParseUnary(_, _), ParseBinary(_, _), ParseRest(_, _, _, _)

\* env gives the registers their values.
ParseValue(s, env) ==
  IF s = <<>> THEN Failed
  ELSE IF Head(s) \in RegName THEN Parsed(env[Head(s)], Tail(s))
  ELSE IF Head(s) # "(" THEN Failed
  ELSE LET inner == ParseBinary(Tail(s), env)
       IN  IF inner.ok /\ inner.rest # <<>> /\ Head(inner.rest) = ")"
           THEN Parsed(inner.ans, Tail(inner.rest))
           ELSE Failed

ParseUnary(s, env) ==
  IF s # <<>> /\ Head(s) \in Operator
  THEN LET operand == ParseUnary(Tail(s), env)
           values == IF operand.ok THEN CalcUnary(Head(s), operand.ans) ELSE {}
       IN  IF values = {} THEN Failed
           ELSE Parsed(CHOOSE v \in values : TRUE, operand.rest)
  ELSE ParseValue(s, env)

\* The loop of ParseBinary, then the clearing of the stacks.
ParseRest(s, env, oprs, ops) ==
  IF s # <<>> /\ Head(s) \in BinOp
  THEN LET first == {top \in BinOp : Binds(top, Head(s))}
           reduced == Reduce(oprs, ops, first)
           next == ParseUnary(Tail(s), env)
       IN  IF ~next.ok THEN Failed
           ELSE ParseRest(next.rest, env, <<next.ans>> \o reduced.oprs,
                          <<Head(s)>> \o reduced.ops)
  ELSE Parsed(Head(Reduce(oprs, ops, BinOp).oprs), s)

ParseBinary(s, env) ==
  LET first == ParseUnary(s, env)
  IN  IF first.ok THEN ParseRest(first.rest, env, <<first.ans>>, <<>>)
      ELSE Failed

\* Eval without a record: a line of tokens and nothing after them.
Eval(s, env) ==
  LET r == ParseBinary(s, env)
  IN  IF r.ok /\ r.rest = <<>> THEN r ELSE Failed

=============================================================================
