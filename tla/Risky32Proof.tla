---------------------------- MODULE Risky32Proof ----------------------------
(***************************************************************************)
(* The emulator implements Core: a turn of the loop is a cycle of the core *)
(* whose volatile words are the timer's.  What is proved of Core then      *)
(* holds of the emulator.                                                  *)
(***************************************************************************)
EXTENDS Risky32, ProtectionProof

LEMMA UpdateTimerRefreshes ==
  ASSUME CoreInv
  PROVE  \E words \in [Volatile -> Word] : UpdateTimer(mem) = Refreshed(words)
<1> DEFINE m == UpdateTimer(mem)
           lo == (mem[MTimeLo] + 1) % WordSize
           hi == IF lo = 0 THEN (mem[MTimeHi] + 1) % WordSize ELSE mem[MTimeHi]
           words == [a \in Volatile |-> m[a]]
<1>1. mem \in Memory /\ MTimeLo \in MemAddr /\ MTimeHi \in MemAddr
      /\ Volatile = {MTimeLo, MTimeHi} /\ Volatile \subseteq MemAddr
  BY ClintAssumption DEF CoreInv, TypeOK, MemAddr
<1>2. mem[MTimeLo] \in Word /\ mem[MTimeHi] \in Word
  BY <1>1 DEF Memory
<1>3. lo \in Word /\ hi \in Word
  <2>1. \A n \in Word : (n + 1) % WordSize \in Word
    BY WordAssumption DEF Word
  <2> QED BY <1>2, <2>1
<1>4. m = [mem EXCEPT ![MTimeLo] = lo, ![MTimeHi] = hi]
  BY DEF UpdateTimer
<1> HIDE DEF lo, hi
<1>5. m \in Memory /\ \A a \in MemAddr \ Volatile : m[a] = mem[a]
  BY <1>1, <1>3, <1>4 DEF Memory
<1> HIDE DEF m
<1>6. words \in [Volatile -> Word]
  BY <1>1, <1>5 DEF Memory
<1>7. m = Refreshed(words)
  BY <1>1, <1>5 DEF Refreshed, Memory
<1> QED BY <1>6, <1>7 DEF m

LEMMA SystemStep ==
  ASSUME CoreInv, [SystemNext]_vars PROVE [Next]_vars
<1>1. CASE Cycle
  <2> DEFINE lines == IF timer_int(UpdateTimer(mem)) THEN {kMTI} ELSE {}
  <2>1. NextCycle(UpdateTimer(mem), lines)
    BY <1>1 DEF Cycle
  <2>2. lines \in Lines
    BY ClintAssumption
  <2> HIDE DEF lines
  <2>3. PICK words \in [Volatile -> Word] : UpdateTimer(mem) = Refreshed(words)
    BY UpdateTimerRefreshes
  <2>4. Next
    BY <2>1, <2>2, <2>3 DEF Next
  <2> QED BY <2>4
<1>2. CASE Exit
  BY <1>2 DEF Exit
<1>3. CASE UNCHANGED vars
  BY <1>3
<1> QED BY <1>1, <1>2, <1>3 DEF SystemNext

LEMMA SystemInv == SystemSpec => []CoreInv
<1>1. CoreInv /\ [SystemNext]_vars => CoreInv'
  BY SystemStep, StepGood
<1> QED BY InitInv, <1>1, PTL DEF SystemSpec

\* Every behaviour of the emulator is a behaviour of the core alone, with the
\* timer as part of its surroundings.
THEOREM SystemImplementsCore == SystemSpec => Spec
<1>1. CoreInv /\ [SystemNext]_vars => [Next]_vars
  BY SystemStep
<1> QED BY SystemInv, <1>1, PTL DEF SystemSpec, Spec

\* So no program makes the emulator fetch from a misaligned address, gets its
\* two status registers out of step, or raises its privilege but by a trap.
THEOREM SystemSound ==
  SystemSpec => [](TypeOK /\ PcAligned /\ StatusMirror) /\ PrivRisesOnlyByTrap
BY SystemImplementsCore, TypeCorrect, PcStaysAligned, StatusInStep,
   PrivilegeSound, PTL

\* And every program on it has the protection the units and the MMU give on
\* one cycle: precise exceptions that name the address at fault, registers of a
\* higher level out of reach, no store past the MMU's check of its page, page
\* faults where Sv32 has them, interrupts when they were enabled and not
\* otherwise.
THEOREM SystemProtected ==
  SystemSpec => /\ TrapRecordsContext /\ ExceptionIsPrecise /\ FaultAddress
                /\ PrivilegeProtectsCSRs /\ StoresAreChecked
                /\ FaultsAsSv32 /\ InterruptWasEnabled /\ InterruptTaken
<1>1. SystemSpec => Spec
  BY SystemImplementsCore
<1>2. Spec => /\ TrapRecordsContext /\ ExceptionIsPrecise /\ FaultAddress
              /\ PrivilegeProtectsCSRs /\ StoresAreChecked
              /\ FaultsAsSv32 /\ InterruptWasEnabled /\ InterruptTaken
  BY TrapsRecordContext, ExceptionsArePrecise, FaultAddressIsAtFault,
     PrivilegeGuardsCSRs, StoresGoThroughTheTable, FaultsAreSv32s,
     InterruptsWereEnabled, InterruptsAreTaken
<1> QED BY <1>1, <1>2

=============================================================================
