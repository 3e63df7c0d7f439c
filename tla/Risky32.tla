------------------------------ MODULE Risky32 ------------------------------
(***************************************************************************)
(* The emulator: the loop of main.cpp, which advances the CLINT's timer    *)
(* and then runs one cycle of the core, until the halt flag of the GPIO is *)
(* set.  The 64-bit registers mtime and mtimecmp of the CLINT are two      *)
(* words each, in the memory of Core: that is all the core can see of      *)
(* them, and where its stores to them go.                                  *)
(***************************************************************************)
EXTENDS Core

CONSTANTS MTimeLo, MTimeHi, MTimeCmpLo, MTimeCmpHi

\* Nothing but the timer changes without a store, and ext_int_ is null.
ASSUME ClintAssumption ==
  /\ {MTimeLo, MTimeHi, MTimeCmpLo, MTimeCmpHi} \subseteq ClintAddr
  /\ Volatile = {MTimeLo, MTimeHi}
  /\ Lines = {{}, {kMTI}}

\* Mutant: no carry into the upper half.
UpdateTimer_NoCarry(m) == [m EXCEPT ![MTimeLo] = (m[MTimeLo] + 1) % WordSize]

\* ++mtime_.
UpdateTimer(m) ==
  LET lo == (m[MTimeLo] + 1) % WordSize
  IN  [m EXCEPT ![MTimeLo] = lo,
                ![MTimeHi] = IF lo = 0 THEN (m[MTimeHi] + 1) % WordSize
                             ELSE m[MTimeHi]]

\* The order of 64-bit numbers, by their halves.
AtLeast(hi, lo, hi2, lo2) == hi > hi2 \/ (hi = hi2 /\ lo >= lo2)

\* Mutant: the halves are compared one by one.
timer_int_Halves(m) ==
  m[MTimeHi] >= m[MTimeCmpHi] /\ m[MTimeLo] >= m[MTimeCmpLo]

\* mtime_ >= mtimecmp_.
timer_int(m) ==
  AtLeast(m[MTimeHi], m[MTimeLo], m[MTimeCmpHi], m[MTimeCmpLo])

\* One turn of the loop.
Cycle ==
  LET m == UpdateTimer(mem)
  IN  /\ mem[HaltAddr] = 0
      /\ NextCycle(m, IF timer_int(m) THEN {kMTI} ELSE {})

\* The loop is left, and the program with it.
Exit == mem[HaltAddr] # 0 /\ UNCHANGED vars

SystemNext == Cycle \/ Exit

SystemSpec == Init /\ [][SystemNext]_vars

\* One thread runs the loop and nothing in it waits.
FairSystemSpec == SystemSpec /\ WF_vars(Cycle)

=============================================================================
