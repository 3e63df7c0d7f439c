----------------------------- MODULE MCDebugger -----------------------------
(***************************************************************************)
(* The debugger at a program of three words in RAM: a loop that changes a  *)
(* register, and a handler of the timer interrupt that returns.  Code in   *)
(* the ROM turns the interrupt on or halts; mtvec is the handler, at 0.    *)
(***************************************************************************)
EXTENDS Debugger, FiniteSetsExt

MCXLEN == 16
MCWordSize == 65536
MCBits == [x \in 0 .. 65535 |-> {b \in 0 .. 15 : (x \div (2 ^ b)) % 2 = 1}]
MCBitsOf(x) == MCBits[x]
MCWordOf(S) == SumSet({2 ^ b : b \in S})

I(op, rd, rs1, rs2, imm, addr) ==
  [op |-> op, rd |-> rd, rs1 |-> rs1, rs2 |-> rs2, imm |-> imm, csr |-> addr]

\* The words in RAM; 9 encodes the store to the debugger.
MCEncode(i) == 0
MCDecode(x) ==
  CASE x = 1 -> I("mret", 0, 0, 0, 0, 0)
    [] x = 2 -> I("xori", 1, 1, 0, 1, 0)
    [] x = 3 -> I("jal", 0, 0, 0, WordSize - 4, 0)
    [] x = 9 -> I("sw", 0, 0, 0, 65520, 0)
    [] OTHER -> I("illegal", 0, 0, 0, 0, 0)
MCImage(a) == CASE a = 0 -> 1 [] a = 16 -> 2 [] a = 20 -> 3
MCCode(a) ==
  CASE a = 4 -> {I("lui", 1, 0, 0, 136, 0)}
    [] a = 8 -> {I("csrrw", 0, 1, 0, 0, kCSRMIE)}
    [] a = 12 -> {I("csrrsi", 0, 8, 0, 0, kCSRMStatus),
                  I("sb", 0, 0, 1, HaltAddr, 0)}
    [] OTHER -> {I("illegal", 0, 0, 0, 0, 0)}

E(kind, of) == [kind |-> kind, of |-> of]
\* The register, and what it points to: it is an address that is aligned, and
\* then one that is not.
MCTyped == {E("reg", 1), E("at", 1)}
MCTypedRef == {E("reg", 1), E("ref", 0)}

----------------------------------------------------------------------------
\* The assertions of debugger.cpp hold: a watchpoint has a value
\* (debugger.cpp:221 "assert(ret)"), and so has a record (line 542).
AssertionsHold == where # "abort"

=============================================================================
