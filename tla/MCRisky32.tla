----------------------------- MODULE MCRisky32 -----------------------------
(***************************************************************************)
(* The emulator with programs that use its timer and its interrupts.  Each *)
(* has its main part and its handler at addresses of its own.              *)
(***************************************************************************)
EXTENDS Risky32, FiniteSetsExt, Sequences

MCXLEN == 16
MCWordSize == 65536
MCBits == [n \in 0 .. 65535 |-> {b \in 0 .. 15 : (n \div (2 ^ b)) % 2 = 1}]
MCBitsOf(n) == MCBits[n]
MCWordOf(bits) == SumSet({2 ^ b : b \in bits})
MCEncode(i) == 3
NoImage(a) == 0

Last == WordSize - 1

I(op, rd, rs1, rs2, imm, addr) ==
  [op |-> op, rd |-> rd, rs1 |-> rs1, rs2 |-> rs2, imm |-> imm, csr |-> addr]
li(rd, n) == I("lui", rd, 0, 0, n, 0)
lw(rd, addr) == I("lw", rd, 0, 0, addr, 0)
sw(rs, addr) == I("sw", 0, 0, rs, addr, 0)
branch(op, rs1, rs2, by) == I(op, 0, rs1, rs2, by, 0)
jump(by) == I("jal", 0, 0, 0, by, 0)
csrw(addr, rs) == I("csrrw", 0, rs, 0, 0, addr)
csrr(rd, addr) == I("csrrs", rd, 0, 0, 0, addr)
DisableAll == I("csrrci", 0, 8, 0, 0, kCSRMStatus)
EnableAll == I("csrrsi", 0, 8, 0, 0, kCSRMStatus)
Mret == I("mret", 0, 0, 0, 0, 0)
Halt == I("sb", 0, 0, 1, HaltAddr, 0)

MCDecode(x) == I("illegal", 0, 0, 0, 0, 0)

\* The instruction at an address, of a sequence of choices.
At(program, first, a) ==
  IF a % 4 = 0 /\ a >= first /\ (a - first) \div 4 < Len(program)
  THEN program[((a - first) \div 4) + 1] ELSE {}

Back(n) == WordSize - n

----------------------------------------------------------------------------
\* Two programs that use the halves of the CLINT's registers.
\*
\* The first reads mtime as guests do: upper half, lower half, upper half, and
\* again if the upper half has changed.  It starts from zero to twelve ticks
\* before the lower half wraps.
ReadMain ==
  <<{li(1, n) : n \in (Last - 12) .. Last}, {sw(1, MTimeLo)},
    {lw(2, MTimeHi)}, {lw(3, MTimeLo)}, {lw(4, MTimeHi)},
    {branch("bne", 2, 4, Back(12))}, {li(1, 1)}, {Halt}>>
ReadStart == 68
ReadDone == ReadStart + 24

\* The second moves the deadline while the timer interrupt is enabled: lower
\* half to its maximum, upper half, lower half.  Registers 3 and 4 hold the
\* halves of the new deadline; the old one is (1, Last).  The handler halts.
Nop == li(0, 0)
DeadlineHandler == <<{li(1, 1)}, {Halt}>>
DeadlineMain ==
  <<{li(1, 1)}, {sw(1, MTimeCmpHi)}, {li(2, Last)}, {sw(2, MTimeCmpLo)},
    {li(1, n) : n \in {0, Last - 20} \cup ((Last - 12) .. (Last - 4))},
    {sw(1, MTimeLo)},
    {li(1, 128)}, {csrw(kCSRMIE, 1)},
    {li(3, n) : n \in {0, 1}}, {li(4, n) : n \in {0, 4, 14, 18, Last - 2}},
    {EnableAll}, {sw(2, MTimeCmpLo)}, {sw(3, MTimeCmpHi)}, {sw(4, MTimeCmpLo)},
    {Nop}, {Nop}, {Nop}, {Nop}, {Nop}, {Nop}, {Nop}, {Nop}, {li(1, 1)}, {Halt}>>
DeadlineStart == 128
DeadlineSet == DeadlineStart + 56

\* A main part that arms the timer with some delay, raises the software
\* interrupt with interrupts off, turns them on and waits for the timer.  The
\* handler tells the two by bit 2 of mcause, clears what it serves, and sets
\* mtime back so that it stays small; for the timer it sets register 5.
HandlerStart == 400
ProgressHandler ==
  <<{csrr(3, kCSRMCause)}, {I("andi", 3, 3, 0, 4, 0)}, {sw(0, MTimeLo)},
    {branch("beq", 3, 0, 16)},
    {sw(4, MTimeCmpHi)}, {li(5, 1)}, {Mret},
    {sw(0, MSIP)}, {Mret}>>
ProgressMain ==
  <<{li(1, HandlerStart)}, {csrw(kCSRMTVec, 1)}, {li(4, 1)}, {sw(4, MTimeCmpHi)}, {li(1, 136)}, {csrw(kCSRMIE, 1)},
    {sw(0, MTimeLo)}, {li(5, 0)}, {li(2, n) : n \in 1 .. 10},
    {sw(2, MTimeCmpLo)}, {sw(0, MTimeCmpHi)}, {DisableAll}, {sw(4, MSIP)},
    {EnableAll}, {branch("beq", 5, 0, 0)}, {jump(Back(36))}>>
ProgressStart == 256
RoundStart == ProgressStart + 24

\* The same handler, and a main part that raises the software interrupt with
\* interrupts on.
SelfMain ==
  <<{li(1, HandlerStart)}, {csrw(kCSRMTVec, 1)}, {li(4, 1)},
    {sw(4, MTimeCmpHi)}, {li(1, 8)}, {csrw(kCSRMIE, 1)}, {EnableAll},
    {sw(4, MSIP)}, {li(1, 1)}, {Halt}>>
SelfStart == 320
SelfRaised == SelfStart + 32

\* A counter with two writers: the main part adds one to a word of RAM with
\* LR and SC, tried again until SC reports success; the handler, which the
\* timer starts after any delay and at most MaxInterrupts times, adds one with
\* AMOADD and counts its runs in register 5.
CONSTANTS Counter, MaxInterrupts

CounterStart == 512
CounterTrap == 600
CounterHandler ==
  <<{I("amoadd", 0, 3, 4, 0, 0)}, {I("addi", 5, 5, 0, 1, 0)},
    {I("slti", 6, 5, 0, MaxInterrupts, 0)}, {branch("beq", 6, 0, 20)},
    {sw(0, MTimeLo)}, {li(6, n) : n \in 3 .. 9}, {sw(6, MTimeCmpLo)}, {Mret},
    {sw(4, MTimeCmpHi)}, {Mret}>>
CounterMain ==
  <<{li(1, CounterTrap)}, {csrw(kCSRMTVec, 1)}, {li(4, 1)},
    {sw(4, MTimeCmpHi)}, {li(3, Counter)}, {li(1, 128)}, {csrw(kCSRMIE, 1)},
    {sw(0, MTimeLo)}, {li(2, n) : n \in 4 .. 9}, {sw(2, MTimeCmpLo)},
    {sw(0, MTimeCmpHi)}, {EnableAll},
    {I("lr", 1, 3, 0, 0, 0)}, {I("addi", 1, 1, 0, 1, 0)},
    {I("sc", 2, 3, 1, 0, 0)}, {branch("bne", 0, 2, Back(12))},
    {li(1, 1)}, {Halt}>>
CounterDone == CounterStart + 64

\* At reset one of these programs is chosen, and runs alone.
Programs(starts, a) ==
  IF a = 64 THEN {jump(start - 64) : start \in starts}
  ELSE At(DeadlineHandler, 0, a) \cup At(ReadMain, ReadStart, a)
         \cup At(DeadlineMain, DeadlineStart, a)
         \cup At(ProgressHandler, HandlerStart, a)
         \cup At(ProgressMain, ProgressStart, a) \cup At(SelfMain, SelfStart, a)
         \cup At(CounterHandler, CounterTrap, a)
         \cup At(CounterMain, CounterStart, a)

SystemCode(a) ==
  Programs({ReadStart, DeadlineStart, ProgressStart, CounterStart}, a)
CounterCode(a) == Programs({CounterStart}, a)
SelfCode(a) == Programs({SelfStart}, a)

----------------------------------------------------------------------------
Now == mem[MTimeHi] * WordSize + mem[MTimeLo]

\* A guest that reads the halves of mtime as ReadMain does never gets a torn
\* value: what it has read is the time two ticks ago (clint.cpp:31-32, 69).
NoTornRead == pc = ReadDone => regs[2] * WordSize + regs[3] + 2 = Now

\* A deadline moved as DeadlineMain does is kept: no interrupt comes before
\* both the old and the new one, and none is missing after the new one
\* (clint.cpp:51-58, 70).
DeadlineKept ==
  /\ event.trap = "intr" /\ pc < ProgressStart =>
       \/ AtLeast(mem[MTimeHi], mem[MTimeLo], 1, Last)
       \/ AtLeast(mem[MTimeHi], mem[MTimeLo], regs[3], regs[4])
  /\ pc \in DeadlineSet + 4 .. ProgressStart - 1 =>
       ~AtLeast(mem[MTimeHi], mem[MTimeLo], regs[3], regs[4])

\* The main part of the third program goes on whatever the delay: when the
\* timer fires while the handler of the software interrupt runs, at its return
\* too, both are served and return to the main part.
MainProgresses == pc \in ProgressStart .. CounterStart - 1 ~> pc = RoundStart

\* No update is lost: what the handler added before the main part's SC is in
\* the sum when it ends: the trap and its return drop the reservation
\* (state.cpp:85, 179).
NoLostUpdate ==
  /\ pc \in CounterStart .. CounterTrap - 1 => mem[Counter] >= regs[5]
  /\ pc = CounterDone => mem[Counter] >= regs[5] + 1

\* SC stores when it reports success, and only then (lsu.cpp:65 "success",
\* lsu.cpp:70 "failure"): a loop until success adds exactly one.
SCStoresOnSuccessOnly == pc = CounterDone => mem[Counter] = regs[5] + 1

\* The latch is there to "avoid asynchronous exception deadlocks" (state.h:33):
\* a store that raises the hart's own software interrupt gets done, and the
\* instruction after it is reached.
SelfInterruptReturns == <>(pc = SelfRaised)

=============================================================================
