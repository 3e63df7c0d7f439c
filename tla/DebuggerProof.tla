--------------------------- MODULE DebuggerProof ---------------------------
(***************************************************************************)
(* Proofs about the debugger, for every program, with any number of        *)
(* breakpoints and watchpoints and whatever the user types.                *)
(*                                                                         *)
(* FlowInv says, place by place, what the loop knows there of the flags;   *)
(* the properties that speak of prompts follow from it without a look at   *)
(* the core.  DebuggedInv carries the invariant of the core through the    *)
(* debugger's own stores and through ReExecute.                            *)
(***************************************************************************)
EXTENDS Debugger, ProtectionProof

Place == {"loop", "pause", "watch", "step", "run", "accept", "prompt",
          "delete", "exit", "abort"}

PlaceOK ==
  /\ where \in Place /\ back \in {"loop", "watch", "step", "run"}
  /\ user_pause \in BOOLEAN /\ dbg_pause \in BOOLEAN /\ prompted \in BOOLEAN
  /\ step_count \in Int /\ owed \in Nat /\ unserved \in Nat

\* After SIGINT the flag stays up until the prompt, and no turn of the loop
\* passes its check while it is up.
SignalInv ==
  /\ unserved > 0 => user_pause
  /\ unserved <= 2
  /\ where \in {"watch", "step", "run", "prompt", "delete"} => unserved <= 1

\* Where there was a prompt in this turn, and where one returns to.
PromptInv ==
  /\ where \in {"run", "prompt", "delete"} => prompted
  /\ where \in {"accept", "prompt", "delete"} => back # "loop"

\* A breakpoint that was hit waits for its prompt.
BreakInv ==
  cur_bp # NoBreak =>
    /\ where \in {"loop", "pause"} => dbg_pause
    /\ where \in {"watch", "step"} => prompted

\* The count of a stepi and what it has yet to run.
StepInv ==
  /\ step_count >= 0 /\ ~dbg_pause => owed = step_count
  /\ where \in {"watch", "step"} /\ step_count = 0 => ~dbg_pause
  /\ where \in {"prompt", "delete"} => step_count = NoStep
  /\ where = "accept" /\ back = "run" => owed = 0

FlowInv == PlaceOK /\ SignalInv /\ PromptInv /\ BreakInv /\ StepInv

----------------------------------------------------------------------------
LEMMA FlowStarts == DebugInit => FlowInv
<1> SUFFICES ASSUME DebugInit PROVE FlowInv
  OBVIOUS
<1>1. /\ user_pause \in BOOLEAN /\ dbg_pause \in BOOLEAN
      /\ prompted \in BOOLEAN /\ user_pause
  BY Zenon DEF DebugInit
<1>2. /\ where = "loop" /\ back = "loop" /\ step_count = -1
      /\ cur_bp = NoBreak /\ unserved = 1 /\ owed = 0
  BY DEF DebugInit, NoStep
<1>3. step_count \in Int /\ owed \in Nat /\ unserved \in Nat /\ ~(step_count >= 0)
  BY <1>2
<1>4. PlaceOK
  BY <1>1, <1>2, <1>3 DEF PlaceOK, Place
<1>5. SignalInv /\ PromptInv /\ BreakInv
  BY <1>1, <1>2 DEF SignalInv, PromptInv, BreakInv
<1> QED BY <1>2, <1>3, <1>4, <1>5 DEF FlowInv, StepInv

\* Steps that leave the core alone.
LEMMA FlowOfChecks ==
  ASSUME FlowInv, Check \/ Command \/ Signal \/ Stopped \/ UNCHANGED dvars,
         ~DeletePoint, ~DeleteNext
  PROVE  FlowInv'
<1> USE DEF FlowInv, PlaceOK, SignalInv, PromptInv, BreakInv, StepInv,
            Place, NoStep, NoBreak, Goto, Call
<1>1. CASE Tick
  BY <1>1 DEF Tick, pause
<1>2. CASE Halted
  BY <1>2 DEF Halted, pause, history
<1>3. CASE CheckPause
  BY <1>3 DEF CheckPause, Paused, pause, history
<1>4. CASE Accept
  <2>1. /\ user_pause' \in BOOLEAN /\ dbg_pause' \in BOOLEAN
        /\ prompted' \in BOOLEAN /\ prompted'
    BY <1>4, Zenon DEF Accept
  <2>2. /\ where = "accept" /\ where' = "prompt" /\ back' = back
        /\ step_count' = -1 /\ owed' = 0 /\ unserved' = 0 /\ cur_bp' = cur_bp
    BY <1>4 DEF Accept
  <2> QED BY <2>1, <2>2
<1>5. CASE WatchHit \/ WatchBroken \/ WatchQuiet
  <2>1. CASE WatchHit
    BY <2>1 DEF WatchHit, pause, history
  <2>2. CASE WatchBroken
    BY <2>2 DEF WatchBroken, pause, history
  <2>3. CASE WatchQuiet
    BY <2>3 DEF WatchQuiet, pause, history
  <2> QED BY <1>5, <2>1, <2>2, <2>3
<1>6. CASE CheckStep
  BY <1>6 DEF CheckStep, pause, history
<1>7. CASE Continue
  BY <1>7 DEF Continue, Leave, pause, history
<1>8. CASE StepByInst
  <2>1. PICK n \in 1 .. MaxStep : step_count' = n /\ owed' = n
    BY <1>8 DEF StepByInst
  <2>2. n \in Nat /\ n > 0
    BY <2>1
  <2>3. step_count' = n /\ owed' = n
    BY <2>1
  <2> QED BY <1>8, <2>2, <2>3 DEF StepByInst, Leave
<1>9. CASE CreateBreak \/ CreateWatch \/ PrintExpr \/ EvalBroken \/ DeleteAll \/ Quit
  <2>1. /\ where = "prompt" /\ where' \in {"prompt", "delete", "abort", "exit"}
        /\ back' = back
        /\ UNCHANGED <<user_pause, dbg_pause, step_count, cur_bp, prompted,
                       unserved, owed>>
    BY <1>9 DEF CreateBreak, CreateWatch, PrintExpr, EvalBroken, DeleteAll,
       Quit, AtPrompt, pause, history
  <2> QED BY <2>1
<1>10. CASE Signal
  BY <1>10 DEF Signal, Ended
<1>11. CASE Stopped \/ UNCHANGED dvars
  BY <1>11 DEF Stopped, dvars, pause, history
<1> QED BY <1>1, <1>2, <1>3, <1>4, <1>5, <1>6, <1>7, <1>8, <1>9, <1>10, <1>11
        DEF Check, Command

\* What a cycle leaves of the flags, whatever it does to the core.
LEMMA OwedType ==
  ASSUME FlowInv, NEW at, NEW next, WriteWord(at, next)
  PROVE  /\ where' \in {next, "abort"} /\ back' = back
         /\ dbg_pause' \in BOOLEAN /\ owed' \in Nat
         /\ Struck(mem') => dbg_pause'
         /\ ~dbg_pause' => ~dbg_pause
         /\ ~dbg_pause' => owed' = IF owed = 0 THEN 0 ELSE owed - 1
<1> DEFINE struck == Struck(mem')
<1>1. struck \in BOOLEAN
  BY DEF Struck
<1>2. /\ dbg_pause' = (dbg_pause \/ struck)
      /\ owed' = IF owed = 0 \/ struck THEN owed ELSE owed - 1
      /\ where' \in {next, "abort"} /\ back' = back
  BY DEF WriteWord, Goto
<1> HIDE DEF struck
<1>3. owed \in Nat /\ dbg_pause \in BOOLEAN
  BY DEF FlowInv, PlaceOK
<1>4. owed' \in Nat
  BY <1>2, <1>3
<1> QED BY <1>1, <1>2, <1>3, <1>4 DEF struck

LEMMA FlowOfRun ==
  ASSUME FlowInv, Run
  PROVE  FlowInv'
<1>1. /\ Running /\ CountStep /\ CountSignal
      /\ user_pause' = user_pause /\ prompted' = prompted
  BY DEF Run, RunNextCycle, RunReExecute
<1>2. PICK at : WriteWord(at, "loop")
  BY DEF Run, RunNextCycle, RunReExecute
<1>3. cur_bp' # NoBreak => Struck(mem')
  BY DEF Run, RunNextCycle, RunReExecute
<1>4. /\ where' \in {"loop", "abort"} /\ back' = back
      /\ dbg_pause' \in BOOLEAN /\ owed' \in Nat
      /\ Struck(mem') => dbg_pause'
      /\ ~dbg_pause' => ~dbg_pause
      /\ ~dbg_pause' => owed' = IF owed = 0 THEN 0 ELSE owed - 1
  BY <1>2, OwedType
<1>5. PlaceOK' /\ SignalInv'
  BY <1>1, <1>4 DEF FlowInv, PlaceOK, SignalInv, Place, CountStep, CountSignal,
     Upto, Running
<1>6. PromptInv' /\ BreakInv'
  BY <1>3, <1>4 DEF PromptInv, BreakInv
<1>7. StepInv'
  BY <1>1, <1>4 DEF FlowInv, PlaceOK, StepInv, CountStep
<1> QED BY <1>5, <1>6, <1>7 DEF FlowInv

\* A deletion runs the instruction of a breakpoint, but takes no count of it.
LEMMA FlowOfDelete ==
  ASSUME FlowInv, DeletePoint \/ DeleteNext
  PROVE  FlowInv'
<1>1. where \in {"prompt", "delete"}
  BY DEF DeletePoint, DeleteNext
<1>2. ASSUME NEW n, NEW next \in {"prompt", "delete"}, DeleteBreak(n, next)
      PROVE  FlowInv'
  <2>1. UNCHANGED <<user_pause, step_count, prompted, unserved>>
    BY <1>2 DEF DeleteBreak
  <2>2. cur_bp' \in {cur_bp, NoBreak}
    BY <1>2 DEF DeleteBreak
  <2>3. /\ where' \in {next, "abort"} /\ back' = back
        /\ dbg_pause' \in BOOLEAN /\ owed' \in Nat
    <3>1. CASE cur_bp = n
      <4>1. WriteWord(Add(pc, WordSize - 4), next)
        BY <1>2, <3>1 DEF DeleteBreak
      <4> QED BY <4>1, OwedType
    <3>2. CASE cur_bp # n
      BY <1>2, <3>2 DEF DeleteBreak, Goto, FlowInv, PlaceOK
    <3> QED BY <3>1, <3>2
  <2> QED BY <1>1, <2>1, <2>2, <2>3
          DEF FlowInv, PlaceOK, SignalInv, PromptInv, BreakInv, StepInv, Place,
              NoStep
<1>3. ASSUME NEW n, NEW next \in {"prompt", "delete"}, DeleteWatch(n, next)
      PROVE  FlowInv'
  BY <1>1, <1>3 DEF DeleteWatch, Goto, pause, history,
     FlowInv, PlaceOK, SignalInv, PromptInv, BreakInv, StepInv, Place
<1>4. ASSUME Goto("prompt"), UNCHANGED <<vars, pause, points, cur_bp, recs, history>>
      PROVE  FlowInv'
  BY <1>1, <1>4 DEF Goto, pause, history,
     FlowInv, PlaceOK, SignalInv, PromptInv, BreakInv, StepInv, Place
<1> QED BY <1>2, <1>3, <1>4 DEF DeletePoint, DeleteNext

LEMMA FlowInductive ==
  ASSUME FlowInv, [DebugNext]_dvars
  PROVE  FlowInv'
BY FlowOfChecks, FlowOfRun, FlowOfDelete DEF DebugNext

LEMMA FlowAlways == DebugSpec => []FlowInv
<1>1. FlowInv /\ [DebugNext]_dvars => FlowInv'
  BY FlowInductive
<1> QED BY FlowStarts, <1>1, PTL DEF DebugSpec

\* The instruction of a breakpoint is not run before the prompt that shows it
\* (debugger.cpp:340-346, 708-724): the pause flag is up from the store to the
\* debugger until the prompt, and no turn goes past it.
THEOREM BreakpointsStop == DebugSpec => []BreakStops
<1>1. FlowInv => BreakStops
  BY DEF FlowInv, BreakInv, PromptInv, BreakStops, Running
<1> QED BY FlowAlways, <1>1, PTL

\* A stepi N runs N instructions of the program (debugger.cpp:512-527): its
\* prompt comes with none owed, and until then the count is what is owed.
THEOREM StepsAreCounted == DebugSpec => []StepStops
<1>1. FlowInv => StepStops
  BY DEF FlowInv, PlaceOK, StepInv, StepStops
<1> QED BY FlowAlways, <1>1, PTL

\* SIGINT is served before a second cycle, whenever it comes
\* (debugger.cpp:193-198, 345): the reset of the flag is the prompt's own.
THEOREM SignalsStop == DebugSpec => []SignalStops
<1>1. FlowInv => SignalStops
  BY DEF FlowInv, SignalInv, SignalStops
<1> QED BY FlowAlways, <1>1, PTL

----------------------------------------------------------------------------
\* What a cycle finds when it comes without a prompt: no watchpoint has changed.

Settled ==
  \A n \in DOMAIN watches :
    LET now == Record[watches[n].record_id]
    IN  now.result = "value" /\ now.val = watches[n].last_val

WatchInv == where = "step" /\ ~prompted => Settled

LEMMA RecordSame ==
  ASSUME UNCHANGED <<regs, pc, mem, records>> PROVE Record' = Record
BY DEF Record, Evaluated, Value, Failed

LEMMA SettledSame ==
  ASSUME UNCHANGED <<regs, pc, mem, records, watches>>, Settled PROVE Settled'
BY RecordSame DEF Settled

LEMMA WatchInductive ==
  ASSUME FlowInv, WatchInv, [DebugNext]_dvars
  PROVE  WatchInv'
<1> SUFFICES ASSUME where' = "step", ~prompted' PROVE Settled'
  BY DEF WatchInv
<1>1. CASE WatchQuiet
  <2>1. Unchanged /\ UNCHANGED <<regs, pc, mem, records, watches>>
    BY <1>1 DEF WatchQuiet, vars, points, recs
  <2>2. Settled
    BY <2>1 DEF Unchanged, Changed, Broken, Settled
  <2> QED BY <2>1, <2>2, SettledSame
<1>2. CASE Signal \/ UNCHANGED dvars
  <2>1. /\ where = "step" /\ ~prompted
        /\ UNCHANGED <<regs, pc, mem, records, watches>>
    BY <1>2 DEF Signal, dvars, vars, points, recs, history
  <2> QED BY <2>1, SettledSame DEF WatchInv
<1>3. CASE Stopped
  BY <1>3 DEF Stopped, Ended, dvars
<1>4. CASE Run
  <2>1. PICK at : WriteWord(at, "loop")
    BY <1>4 DEF Run, RunNextCycle, RunReExecute
  <2> QED BY <2>1 DEF WriteWord, Goto
<1>5. CASE Command
  <2>1. where = "prompt" /\ prompted
    BY <1>5 DEF Command, Continue, StepByInst, CreateBreak, CreateWatch,
       PrintExpr, EvalBroken, DeletePoint, DeleteAll, Quit, AtPrompt, Leave,
       FlowInv, PromptInv
  <2>2. prompted' = prompted
    BY <1>5 DEF Command, Continue, StepByInst, CreateBreak, CreateWatch,
       PrintExpr, EvalBroken, DeletePoint, DeleteBreak, DeleteWatch, DeleteAll,
       Quit, history
  <2> QED BY <2>1, <2>2
<1>6. CASE Check /\ ~WatchQuiet
  <2>1. CASE DeleteNext
    <3>1. where = "delete" /\ prompted
      BY <2>1 DEF DeleteNext, FlowInv, PromptInv
    <3>2. prompted' = prompted
      BY <2>1 DEF DeleteNext, DeleteBreak, DeleteWatch, history
    <3> QED BY <3>1, <3>2
  <2>2. CASE Tick \/ Halted \/ CheckPause \/ Accept
    BY <2>2 DEF Tick, Halted, CheckPause, Accept, Goto, Call
  <2>3. CASE WatchHit \/ WatchBroken \/ CheckStep
    BY <2>3 DEF WatchHit, WatchBroken, CheckStep, Goto, Call
  <2> QED BY <1>6, <2>1, <2>2, <2>3 DEF Check
<1> QED BY <1>1, <1>2, <1>3, <1>4, <1>5, <1>6 DEF DebugNext

\* No cycle follows one that changed the value of a watchpoint, but after a
\* prompt (debugger.cpp:213-234, 708-724).
THEOREM WatchpointsStop == DebugSpec => []WatchStops
<1>1. DebugInit => WatchInv
  BY DEF DebugInit, WatchInv
<1>2. FlowInv /\ WatchInv /\ [DebugNext]_dvars => WatchInv'
  BY WatchInductive
<1>3. FlowInv /\ WatchInv => WatchStops
  BY DEF FlowInv, PromptInv, WatchInv, Settled, WatchStops, Running
<1> QED BY FlowAlways, <1>1, <1>2, <1>3, PTL DEF DebugSpec

----------------------------------------------------------------------------
\* The state of the core and of the breakpoints: the debugger's own stores and
\* the instructions it runs keep the invariant of the core.

BreaksOK ==
  /\ breaks \in [DOMAIN breaks -> [addr : BreakAddr, org_inst : Word]]
  /\ cur_bp \in DOMAIN breaks \cup {NoBreak}

DebuggedInv == CoreInv /\ BreaksOK

LEMMA MemoryChanges ==
  ASSUME CoreInv, mem' \in Memory,
         UNCHANGED <<pc, regs, csr, mon, latch, event>>
  PROVE  CoreInv'
BY DEF CoreInv, TypeOK, PcAligned, StatusMirror, MTVecLegal, LatchSame,
       ZeroReg

LEMMA SilentType == ASSUME NEW m \in Memory PROVE Silent(m) \in Memory
BY SmallWords DEF Silent, Memory

\* What any instruction may do to the control registers.
GuardedCycle == PrivStep /\ (event'.trap = "none" => Guarded(csr, csr'))

\* One instruction back is an aligned address.
LEMMA BackAligned ==
  ASSUME CoreInv
  PROVE  Add(pc, WordSize - 4) \in Word /\ Add(pc, WordSize - 4) % 4 = 0
<1>1. pc \in Nat /\ pc < WordSize /\ pc % 4 = 0
  BY WordAssumption DEF CoreInv, TypeOK, PcAligned, Word
<1>2. WordSize \in Nat /\ WordSize >= 64 /\ WordSize % 4 = 0
  BY WordAssumption, CSRAssumption
<1>3. CASE pc >= 4
  <2>1. Add(pc, WordSize - 4) = pc - 4
    BY <1>1, <1>2, <1>3 DEF Add
  <2> QED BY <1>1, <1>2, <1>3, <2>1 DEF Word
<1>4. CASE pc < 4
  <2>1. Add(pc, WordSize - 4) = WordSize - 4
    BY <1>1, <1>2, <1>4 DEF Add
  <2> QED BY <1>2, <2>1 DEF Word
<1> QED BY <1>1, <1>3, <1>4

LEMMA ReExecuteGood ==
  ASSUME CoreInv, NEW inst \in Word, NEW m \in Memory, NEW lines \in Lines,
         ReExecute(Decode(inst), Silent(m), lines)
  PROVE  CoreInv' /\ GuardedCycle
<1> DEFINE at == Add(pc, WordSize - 4)
           w == Copied(Silent(m), at)
<1>1. GoodWork(w) /\ w.csr = csr /\ Fresh(w)
  BY BackAligned, SilentType, CopiedGood, CopiedFresh
<1>2. GoodInst(Decode(inst))
  BY CodeAssumption DEF GoodInst
<1>3. Execute(w, Decode(inst), lines)
  BY DEF ReExecute
<1> HIDE DEF w
<1> QED BY <1>1, <1>2, <1>3, ExecuteGood, ExecuteContract
        DEF GuardedCycle, StepContract

LEMMA DeleteBreakGood ==
  ASSUME DebuggedInv, NEW n \in DOMAIN breaks, NEW next, DeleteBreak(n, next)
  PROVE  DebuggedInv' /\ (UNCHANGED csr \/ GuardedCycle)
<1> DEFINE a == breaks[n].addr
           inst == breaks[n].org_inst
           m == BusWrite(mem, a, 4, inst)
<1>1. a \in Word /\ inst \in Word
  <2>1. breaks[n].addr \in BreakAddr /\ breaks[n].org_inst \in Word
    BY DEF DebuggedInv, BreaksOK
  <2> QED BY <2>1, DebuggerAssumption, BusAssumption
<1>2. m \in Memory
  BY <1>1, BusWriteType DEF DebuggedInv, CoreInv, TypeOK
<1>3. CoreInv' /\ (UNCHANGED csr \/ GuardedCycle)
  <2>1. CASE cur_bp = n
    <3>1. PICK lines \in Lines : ReExecute(Decode(inst), Silent(m), lines)
      BY <2>1 DEF DeleteBreak
    <3> HIDE DEF m, inst
    <3> QED BY <1>1, <1>2, <3>1, ReExecuteGood DEF DebuggedInv
  <2>2. CASE cur_bp # n
    BY <1>2, <2>2, MemoryChanges DEF DeleteBreak, DebuggedInv
  <2> QED BY <2>1, <2>2
<1>4. breaks' = Without(breaks, n)
  BY DEF DeleteBreak
<1>5. cur_bp' = IF cur_bp = n THEN NoBreak ELSE cur_bp
  BY DEF DeleteBreak
<1>6. BreaksOK'
  BY <1>4, <1>5 DEF DebuggedInv, BreaksOK, Without
<1> QED BY <1>3, <1>6 DEF DebuggedInv

LEMMA CreateBreakGood ==
  ASSUME DebuggedInv, CreateBreak
  PROVE  DebuggedInv'
<1>1. PICK a \in BreakAddr :
        /\ mem' = BusWrite(mem, a, 4, kBreakInst)
        /\ breaks' = [n \in DOMAIN breaks \cup {next_id} |->
                        IF n = next_id
                        THEN [addr |-> a, org_inst |-> BusRead(mem, a, 4)]
                        ELSE breaks[n]]
  BY DEF CreateBreak
<1>2. a \in Word /\ kBreakInst \in Word
  BY DebuggerAssumption, BusAssumption
<1>3. BusWrite(mem, a, 4, kBreakInst) \in Memory /\ BusRead(mem, a, 4) \in Word
  BY <1>2, BusWriteType, BusReadType DEF DebuggedInv, CoreInv, TypeOK
<1>4. CoreInv'
  BY <1>1, <1>3, MemoryChanges DEF CreateBreak, DebuggedInv
<1> DEFINE b == [addr |-> a, org_inst |-> BusRead(mem, a, 4)]
<1>5. b \in [addr : BreakAddr, org_inst : Word]
  BY <1>3
<1>6. breaks' = [n \in DOMAIN breaks \cup {next_id} |->
                   IF n = next_id THEN b ELSE breaks[n]]
  BY <1>1
<1> HIDE DEF b
<1>7. BreaksOK'
  BY <1>5, <1>6 DEF CreateBreak, DebuggedInv, BreaksOK
<1> QED BY <1>4, <1>7 DEF DebuggedInv

LEMMA RunGood ==
  ASSUME DebuggedInv, Run
  PROVE  DebuggedInv' /\ GuardedCycle
<1>1. breaks' = breaks
  BY DEF Run, RunNextCycle, RunReExecute, points
<1>2. cur_bp' \in DOMAIN breaks \cup {NoBreak}
  BY DEF Run, RunNextCycle, RunReExecute, PointsAt
<1>3. mem \in Memory
  BY DEF DebuggedInv, CoreInv, TypeOK
<1>4. CASE RunNextCycle
  <2>1. PICK lines \in Lines : NextCycle(Silent(mem), lines)
    BY <1>4 DEF RunNextCycle
  <2>2. CoreInv' /\ GuardedCycle
    BY <1>3, <2>1, SilentType, CycleGood, CycleContract
       DEF DebuggedInv, GuardedCycle, StepContract
  <2> QED BY <1>1, <1>2, <2>2 DEF DebuggedInv, BreaksOK
<1>5. CASE RunReExecute
  <2> DEFINE inst == breaks[cur_bp].org_inst
  <2>1. inst \in Word
    BY <1>5 DEF RunReExecute, DebuggedInv, BreaksOK
  <2>2. PICK lines \in Lines : ReExecute(Decode(inst), Silent(mem), lines)
    BY <1>5 DEF RunReExecute
  <2> HIDE DEF inst
  <2>3. CoreInv' /\ GuardedCycle
    BY <1>3, <2>1, <2>2, ReExecuteGood DEF DebuggedInv
  <2> QED BY <1>1, <1>2, <2>3 DEF DebuggedInv, BreaksOK
<1> QED BY <1>4, <1>5 DEF Run

LEMMA DebuggedInductive ==
  ASSUME DebuggedInv, [DebugNext]_dvars
  PROVE  DebuggedInv'
<1>1. ASSUME UNCHANGED <<vars, breaks, cur_bp>> PROVE DebuggedInv'
  BY <1>1 DEF DebuggedInv, BreaksOK, vars, CoreInv, TypeOK, PcAligned,
     StatusMirror, MTVecLegal, LatchSame, ZeroReg
<1>2. CASE Tick
  <2>1. PICK words \in [Volatile -> Word] : mem' = Refreshed(words)
    BY <1>2 DEF Tick
  <2>2. mem' \in Memory /\ UNCHANGED <<breaks, cur_bp>>
    BY <1>2, <2>1, RefreshedType DEF Tick, DebuggedInv, points
  <2>3. CoreInv'
    BY <1>2, <2>2, MemoryChanges DEF Tick, DebuggedInv
  <2> QED BY <2>2, <2>3 DEF DebuggedInv, BreaksOK
<1>3. CASE DeletePoint \/ DeleteNext
  <2>1. ASSUME NEW n, NEW next, DeleteWatch(n, next) PROVE DebuggedInv'
    BY <1>1, <2>1 DEF DeleteWatch
  <2>2. ASSUME UNCHANGED <<vars, points, cur_bp>> PROVE DebuggedInv'
    BY <1>1, <2>2 DEF points
  <2> QED BY <1>3, <2>1, <2>2, DeleteBreakGood DEF DeletePoint, DeleteNext
<1>4. CASE Run
  BY <1>4, RunGood
<1>5. CASE Command /\ ~DeletePoint
  <2>1. CASE CreateBreak
    BY <2>1, CreateBreakGood
  <2>2. CASE ~CreateBreak
    <3>1. UNCHANGED <<vars, breaks, cur_bp>>
      BY <1>5, <2>2 DEF Command, Continue, StepByInst, CreateWatch, PrintExpr,
         EvalBroken, DeleteAll, Quit, points
    <3> QED BY <1>1, <3>1
  <2> QED BY <2>1, <2>2
<1>6. CASE Check /\ ~Tick /\ ~DeleteNext
  <2>1. UNCHANGED <<vars, breaks, cur_bp>>
    BY <1>6 DEF Check, Halted, CheckPause, Accept, WatchHit, WatchBroken,
       WatchQuiet, CheckStep, points
  <2> QED BY <1>1, <2>1
<1>7. CASE Signal \/ Stopped \/ UNCHANGED dvars
  <2>1. UNCHANGED <<vars, breaks, cur_bp>>
    BY <1>7 DEF Signal, Stopped, dvars, points
  <2> QED BY <1>1, <2>1
<1> QED BY <1>2, <1>3, <1>4, <1>5, <1>6, <1>7 DEF DebugNext

LEMMA DebuggedAlways == DebugSpec => []DebuggedInv
<1>1. DebugInit => DebuggedInv
  BY InitInv DEF DebugInit, DebuggedInv, BreaksOK
<1>2. DebuggedInv /\ [DebugNext]_dvars => DebuggedInv'
  BY DebuggedInductive
<1> QED BY <1>1, <1>2, PTL DEF DebugSpec

\* Under the debugger too the core's state stays in its range, and the pc on a
\* multiple of four, where ReExecute takes it back (core.cpp:166-177).
THEOREM DebuggedTypes == DebugSpec => []TypeOK
BY DebuggedAlways, PTL DEF DebuggedInv, CoreInv

\* ReExecute takes the pc back by a whole instruction (core.cpp:170), after a
\* deletion as well: every fetch that follows is aligned.
THEOREM DebuggedPcAligned == DebugSpec => []PcAligned
BY DebuggedAlways, PTL DEF DebuggedInv, CoreInv

LEMMA DebuggedGuards ==
  ASSUME DebuggedInv, [DebugNext]_dvars
  PROVE  UNCHANGED csr \/ GuardedCycle
<1>1. CASE Run
  BY <1>1, RunGood
<1>2. CASE DeletePoint \/ DeleteNext
  <2>1. ASSUME NEW n, NEW next, DeleteWatch(n, next) PROVE UNCHANGED csr
    BY <2>1 DEF DeleteWatch, vars
  <2> QED BY <1>2, <2>1, DeleteBreakGood DEF DeletePoint, DeleteNext, vars
<1>3. CASE Command /\ ~DeletePoint
  BY <1>3 DEF Command, Continue, StepByInst, CreateBreak, CreateWatch,
     PrintExpr, EvalBroken, DeleteAll, Quit, vars
<1>4. CASE Check /\ ~DeleteNext
  BY <1>4 DEF Check, Tick, Halted, CheckPause, Accept, WatchHit, WatchBroken,
     WatchQuiet, CheckStep, vars
<1>5. CASE Signal \/ Stopped \/ UNCHANGED dvars
  BY <1>5 DEF Signal, Stopped, dvars, vars
<1> QED BY <1>1, <1>2, <1>3, <1>4, <1>5 DEF DebugNext

\* The levels stay apart under the debugger: an instruction that is run again
\* from a breakpoint, or while one is deleted, gets no more privilege than in
\* its own cycle (core.cpp:166-177).
THEOREM DebuggedPrivileges ==
  DebugSpec => PrivRisesOnlyByTrap /\ PrivilegeProtectsCSRs
<1>1. DebuggedInv => csr.priv \in Int
  BY DEF DebuggedInv, CoreInv, TypeOK, Registers, Priv, kPrivLevelM,
     kPrivLevelS, kPrivLevelU
<1>2. DebuggedInv /\ [DebugNext]_dvars =>
        [csr'.priv > csr.priv =>
           event'.trap # "none" /\ csr'.priv = kPrivLevelM]_vars
  BY <1>1, DebuggedGuards DEF GuardedCycle, PrivStep
<1>3. DebuggedInv /\ [DebugNext]_dvars =>
        [event'.trap = "none" =>
           /\ csr.priv < kPrivLevelM =>
                /\ csr'.mstatus \ kMaskSStatus = csr.mstatus \ kMaskSStatus
                /\ csr'.mie = csr.mie /\ csr'.mtvec = csr.mtvec
                /\ csr'.mscratch = csr.mscratch /\ csr'.mepc = csr.mepc
                /\ csr'.mcause = csr.mcause /\ csr'.mtval = csr.mtval
           /\ csr.priv < kPrivLevelS =>
                /\ csr'.sstatus = csr.sstatus /\ csr'.satp = csr.satp
                /\ csr'.sscratch = csr.sscratch /\ csr'.sepc = csr.sepc]_vars
  BY DebuggedGuards DEF GuardedCycle, Guarded
<1> QED BY DebuggedAlways, <1>2, <1>3, PTL
        DEF DebugSpec, PrivRisesOnlyByTrap, PrivilegeProtectsCSRs

----------------------------------------------------------------------------
\* The identifiers: a watchpoint has a record of its own.

Ids ==
  /\ next_id \in Nat /\ next_record \in Nat
  /\ \A n \in DOMAIN breaks \cup DOMAIN watches : n \in Nat /\ n < next_id
  /\ \A k \in DOMAIN records : k \in Nat /\ k < next_record
  /\ \A n \in DOMAIN watches :
       /\ "record_id" \in DOMAIN watches[n]
       /\ watches[n].record_id \in DOMAIN records
  /\ \A m, n \in DOMAIN watches :
       watches[m].record_id = watches[n].record_id => m = n

CountOK == step_count \in NoStep .. MaxStep

LEMMA CountInductive ==
  ASSUME CountOK, [DebugNext]_dvars
  PROVE  CountOK'
<1>1. MaxStep \in Nat /\ step_count \in Int /\ -1 <= step_count /\ step_count <= MaxStep
  BY DebuggerAssumption DEF CountOK, NoStep
<1>2. \/ step_count' = step_count \/ step_count' = -1
      \/ CountStep \/ step_count' \in 1 .. MaxStep
  BY DEF DebugNext, Check, Command, Run, Signal, Stopped, dvars, pause, Tick,
     Halted, CheckPause, Accept, WatchHit, WatchBroken, WatchQuiet, CheckStep,
     DeleteNext, DeletePoint, DeleteBreak, DeleteWatch, RunNextCycle,
     RunReExecute, Continue, StepByInst, CreateBreak, CreateWatch, PrintExpr,
     EvalBroken, DeleteAll, Quit, NoStep
<1>3. step_count' \in Int /\ -1 <= step_count' /\ step_count' <= MaxStep
  BY <1>1, <1>2 DEF CountStep
<1> QED BY <1>1, <1>3 DEF CountOK, NoStep

LEMMA IdsOfBreaks ==
  ASSUME Ids, CreateBreak \/ \E n \in DOMAIN breaks : \E next : DeleteBreak(n, next)
  PROVE  Ids'
<1>1. UNCHANGED <<watches, records, next_record>>
  BY DEF CreateBreak, DeleteBreak, recs
<1>2. \/ DOMAIN breaks' = DOMAIN breaks \cup {next_id} /\ next_id' = next_id + 1
      \/ DOMAIN breaks' \subseteq DOMAIN breaks /\ next_id' = next_id
  BY DEF CreateBreak, DeleteBreak, Without
<1> QED BY <1>1, <1>2 DEF Ids

LEMMA IdsOfCreateWatch ==
  ASSUME Ids, CreateWatch
  PROVE  Ids'
<1>1. PICK e, v :
        /\ AddRecord(e)
        /\ watches' = [n \in DOMAIN watches \cup {next_id} |->
                         IF n = next_id
                         THEN [record_id |-> next_record, last_val |-> v]
                         ELSE watches[n]]
  BY DEF CreateWatch
<1> DEFINE w == [record_id |-> next_record, last_val |-> v]
<1>2. w.record_id = next_record /\ "record_id" \in DOMAIN w
  OBVIOUS
<1>3. /\ DOMAIN watches' = DOMAIN watches \cup {next_id} /\ watches'[next_id] = w
      /\ \A n \in DOMAIN watches : watches'[n] = watches[n]
  <2>1. next_id \notin DOMAIN watches
    BY DEF Ids
  <2> QED BY <1>1, <2>1
<1> HIDE DEF w
<1>4. /\ DOMAIN records' = DOMAIN records \cup {next_record}
      /\ next_record' = next_record + 1 /\ next_id' = next_id + 1
      /\ breaks' = breaks
  BY <1>1 DEF CreateWatch, AddRecord
<1>5. next_record \notin DOMAIN records
  BY DEF Ids
<1>6. /\ next_id' \in Nat /\ next_record' \in Nat
      /\ \A n \in DOMAIN breaks' \cup DOMAIN watches' : n \in Nat /\ n < next_id'
      /\ \A k \in DOMAIN records' : k \in Nat /\ k < next_record'
  BY <1>3, <1>4 DEF Ids
<1>7. \A n \in DOMAIN watches' :
        /\ "record_id" \in DOMAIN watches'[n]
        /\ watches'[n].record_id \in DOMAIN records'
  BY <1>2, <1>3, <1>4 DEF Ids
<1>8. \A m, n \in DOMAIN watches' :
        watches'[m].record_id = watches'[n].record_id => m = n
  BY <1>2, <1>3, <1>5 DEF Ids
<1> QED BY <1>6, <1>7, <1>8 DEF Ids

LEMMA IdsOfDeleteWatch ==
  ASSUME Ids, NEW n \in DOMAIN watches, NEW next, DeleteWatch(n, next)
  PROVE  Ids'
<1>1. /\ DOMAIN watches' = DOMAIN watches \ {n}
      /\ \A k \in DOMAIN watches' : watches'[k] = watches[k]
      /\ DOMAIN records' = DOMAIN records \ {watches[n].record_id}
      /\ UNCHANGED <<breaks, next_id, next_record>>
  BY DEF DeleteWatch, Without
<1> QED BY <1>1 DEF Ids

LEMMA IdsOfWatchHit ==
  ASSUME Ids, WatchHit
  PROVE  Ids'
<1>1. PICK n \in DOMAIN watches :
        \E v : watches' = [watches EXCEPT ![n].last_val = v]
  BY DEF WatchHit
<1>2. /\ DOMAIN watches' = DOMAIN watches
      /\ \A k \in DOMAIN watches :
           /\ "record_id" \in DOMAIN watches'[k]
           /\ watches'[k].record_id = watches[k].record_id
  BY <1>1 DEF Ids
<1>3. UNCHANGED <<breaks, next_id, records, next_record>>
  BY DEF WatchHit, recs
<1> QED BY <1>2, <1>3 DEF Ids

LEMMA IdsInductive ==
  ASSUME Ids, [DebugNext]_dvars
  PROVE  Ids'
<1>1. ASSUME UNCHANGED <<breaks, watches, next_id, records, next_record>>
      PROVE  Ids'
  BY <1>1 DEF Ids
<1>2. CASE CreateBreak \/ CreateWatch \/ WatchHit
  BY <1>2, IdsOfBreaks, IdsOfCreateWatch, IdsOfWatchHit
<1>3. CASE PrintExpr
  <2>1. /\ DOMAIN records' = DOMAIN records \cup {next_record}
        /\ next_record' = next_record + 1
        /\ UNCHANGED <<breaks, watches, next_id>>
    BY <1>3 DEF PrintExpr, AddRecord, points
  <2> QED BY <2>1 DEF Ids
<1>4. CASE DeletePoint \/ DeleteNext
  <2>1. ASSUME UNCHANGED <<points, recs>> PROVE Ids'
    BY <1>1, <2>1 DEF points, recs
  <2> QED BY <1>4, <2>1, IdsOfBreaks, IdsOfDeleteWatch DEF DeletePoint, DeleteNext
<1>5. CASE Run \/ Signal \/ Stopped \/ UNCHANGED dvars
  BY <1>1, <1>5 DEF Run, RunNextCycle, RunReExecute, Signal, Stopped, dvars,
     points, recs
<1>6. CASE Continue \/ StepByInst \/ EvalBroken \/ DeleteAll \/ Quit
  BY <1>1, <1>6 DEF Continue, StepByInst, EvalBroken, DeleteAll, Quit, points, recs
<1>7. CASE Tick \/ Halted \/ CheckPause \/ Accept \/ WatchBroken \/ WatchQuiet
           \/ CheckStep
  BY <1>1, <1>7 DEF Tick, Halted, CheckPause, Accept, WatchBroken, WatchQuiet,
     CheckStep, points, recs
<1> QED BY <1>2, <1>3, <1>4, <1>5, <1>6, <1>7 DEF DebugNext, Check, Command

LEMMA IdsAlways == DebugSpec => []Ids
<1>1. DebugInit => Ids
  BY DEF DebugInit, Ids
<1>2. Ids /\ [DebugNext]_dvars => Ids'
  BY IdsInductive
<1> QED BY <1>1, <1>2, PTL DEF DebugSpec

\* The debugger's tables stay sound through every order of commands
\* (debugger.cpp:247-272, 437-510): the breakpoint that was hit exists, and a
\* watchpoint has its record.
THEOREM TablesAreSound == DebugSpec => []DebugTypeOK
<1>1. DebugInit => CountOK
  BY DebuggerAssumption DEF DebugInit, CountOK, NoStep
<1>2. CountOK /\ [DebugNext]_dvars => CountOK'
  BY CountInductive
<1>3. FlowInv /\ DebuggedInv /\ Ids /\ CountOK => DebugTypeOK
  BY DEF FlowInv, PlaceOK, Place, DebuggedInv, BreaksOK, Ids, CountOK, DebugTypeOK
<1> QED BY <1>1, <1>2, <1>3, FlowAlways, DebuggedAlways, IdsAlways, PTL DEF DebugSpec


----------------------------------------------------------------------------
\* The words of the breakpoints.

\* At the address of a breakpoint the bus holds a word of its own.
LEMMA PatchWord ==
  ASSUME NEW m \in Memory, NEW a \in BreakAddr, NEW v
  PROVE  /\ BusWrite(m, a, 4, v) = [m EXCEPT ![a] = v]
         /\ BusRead(m, a, 4) = m[a]
         /\ a \in MemAddr \ Volatile
<1>1. a \in Word /\ a % 4 = 0 /\ a \in RamAddr
  BY DebuggerAssumption, BusAssumption
<1>2. a - (a % 4) = a
  BY <1>1, WordAssumption DEF Word
<1>3. BusWrite(m, a, 4, v) = [m EXCEPT ![a] = v] /\ BusRead(m, a, 4) = m[a]
  BY <1>1, <1>2 DEF BusWrite, BusRead
<1>4. a \in MemAddr \ Volatile
  BY <1>1, BusAssumption, CoreAssumption DEF MemAddr
<1> QED BY <1>3, <1>4

\* pc_bp_ gives one breakpoint for an address.
OneEach ==
  \A k, n \in DOMAIN breaks : breaks[k].addr = breaks[n].addr => k = n

\* What CreateBreak does, once the operators of the bus are applied.
LEMMA Created ==
  ASSUME DebuggedInv, Ids, CreateBreak
  PROVE  \E a \in BreakAddr :
           /\ \A n \in DOMAIN breaks : breaks[n].addr # a
           /\ mem' = [mem EXCEPT ![a] = kBreakInst]
           /\ next_id \notin DOMAIN breaks
           /\ DOMAIN breaks' = DOMAIN breaks \cup {next_id}
           /\ breaks'[next_id].addr = a /\ breaks'[next_id].org_inst = mem[a]
           /\ \A n \in DOMAIN breaks : breaks'[n] = breaks[n]
<1>1. PICK a \in BreakAddr :
        /\ Free(a)
        /\ mem' = BusWrite(mem, a, 4, kBreakInst)
        /\ breaks' = [n \in DOMAIN breaks \cup {next_id} |->
                        IF n = next_id
                        THEN [addr |-> a, org_inst |-> BusRead(mem, a, 4)]
                        ELSE breaks[n]]
  BY DEF CreateBreak
<1> DEFINE b == [addr |-> a, org_inst |-> mem[a]]
<1>2. /\ mem' = [mem EXCEPT ![a] = kBreakInst] /\ BusRead(mem, a, 4) = mem[a]
  BY <1>1, PatchWord DEF DebuggedInv, CoreInv, TypeOK
<1>3. next_id \notin DOMAIN breaks
  BY DEF Ids
<1>4. /\ DOMAIN breaks' = DOMAIN breaks \cup {next_id} /\ breaks'[next_id] = b
      /\ \A n \in DOMAIN breaks : breaks'[n] = breaks[n]
  BY <1>1, <1>2, <1>3
<1>5. b.addr = a /\ b.org_inst = mem[a]
  OBVIOUS
<1> HIDE DEF b
<1>6. \A n \in DOMAIN breaks : breaks[n].addr # a
  BY <1>1 DEF Free, PointsAt
<1> QED BY <1>2, <1>3, <1>4, <1>5, <1>6

LEMMA OneEachInductive ==
  ASSUME DebuggedInv, Ids, OneEach, [DebugNext]_dvars
  PROVE  OneEach'
<1>1. ASSUME UNCHANGED breaks PROVE OneEach'
  BY <1>1 DEF OneEach
<1>2. CASE DeletePoint \/ DeleteNext
  <2>1. ASSUME NEW n, NEW next, DeleteBreak(n, next) PROVE OneEach'
    BY <2>1 DEF DeleteBreak, Without, OneEach
  <2>2. ASSUME NEW n, NEW next, DeleteWatch(n, next) PROVE UNCHANGED breaks
    BY <2>2 DEF DeleteWatch
  <2> QED BY <1>1, <1>2, <2>1, <2>2 DEF DeletePoint, DeleteNext, points
<1>3. CASE CreateBreak
  BY <1>3, Created DEF OneEach
<1>4. CASE Command /\ ~DeletePoint /\ ~CreateBreak
  <2>1. UNCHANGED breaks
    BY <1>4 DEF Command, Continue, StepByInst, CreateWatch, PrintExpr,
       EvalBroken, DeleteAll, Quit, points
  <2> QED BY <1>1, <2>1
<1>5. CASE (Check /\ ~DeleteNext) \/ Run
  <2>1. UNCHANGED breaks
    BY <1>5 DEF Check, Tick, Halted, CheckPause, Accept, WatchHit, WatchBroken,
       WatchQuiet, CheckStep, Run, RunNextCycle, RunReExecute, points
  <2> QED BY <1>1, <2>1
<1>6. CASE Signal \/ Stopped \/ UNCHANGED dvars
  <2>1. UNCHANGED breaks
    BY <1>6 DEF Signal, Stopped, dvars, points
  <2> QED BY <1>1, <2>1
<1> QED BY <1>2, <1>3, <1>4, <1>5, <1>6 DEF DebugNext

LEMMA OneEachAlways == DebugSpec => [](DebuggedInv /\ Ids /\ OneEach)
<1>1. DebugInit => OneEach
  BY DEF DebugInit, OneEach
<1>2. DebuggedInv /\ Ids /\ OneEach /\ [DebugNext]_dvars => OneEach'
  BY OneEachInductive
<1> QED BY <1>1, <1>2, DebuggedAlways, IdsAlways, PTL DEF DebugSpec

\* A step that runs an instruction of the program: a turn of the loop, or the
\* deletion of a breakpoint that was hit.
RunsInst == Run \/ cur_bp \notin {NoBreak, cur_bp'}

\* What BreaksInPlace asks of a program: it does not store over a breakpoint,
\* and the words where the user may set one are not the debugger's own.
SparesBreaks ==
  [][RunsInst => \A n \in DOMAIN breaks \cap DOMAIN breaks' :
                   mem'[breaks[n].addr] = mem[breaks[n].addr]]_dvars
HasOwnWords == \A a \in BreakAddr : PointsAt(a) = {} => mem[a] # kBreakInst

\* Steps that touch no word with a breakpoint.
LEMMA PlacedSame ==
  ASSUME BreaksInPlace, DOMAIN breaks' \subseteq DOMAIN breaks,
         \A n \in DOMAIN breaks' :
           /\ breaks'[n] = breaks[n]
           /\ mem'[breaks[n].addr] = mem[breaks[n].addr]
  PROVE  BreaksInPlace'
BY DEF BreaksInPlace

LEMMA PlacedCreate ==
  ASSUME DebuggedInv, Ids, BreaksInPlace, HasOwnWords, CreateBreak
  PROVE  BreaksInPlace'
<1>1. PICK a \in BreakAddr :
        /\ \A n \in DOMAIN breaks : breaks[n].addr # a
        /\ mem' = [mem EXCEPT ![a] = kBreakInst]
        /\ DOMAIN breaks' = DOMAIN breaks \cup {next_id}
        /\ breaks'[next_id].addr = a /\ breaks'[next_id].org_inst = mem[a]
        /\ \A n \in DOMAIN breaks : breaks'[n] = breaks[n]
  BY Created
<1>2. mem \in Memory /\ \A n \in DOMAIN breaks : breaks[n].addr \in BreakAddr
  BY DEF DebuggedInv, CoreInv, TypeOK, BreaksOK
<1>3. \A c \in BreakAddr : c \in DOMAIN mem
  BY <1>2, PatchWord DEF Memory
<1>4. /\ mem'[a] = kBreakInst
      /\ \A n \in DOMAIN breaks : mem'[breaks[n].addr] = mem[breaks[n].addr]
  BY <1>1, <1>2, <1>3
<1>5. mem[a] # kBreakInst
  BY <1>1 DEF PointsAt, HasOwnWords
<1> QED BY <1>1, <1>4, <1>5 DEF BreaksInPlace

LEMMA PlacedDelete ==
  ASSUME DebuggedInv, Ids, OneEach, BreaksInPlace, NEW n \in DOMAIN breaks, NEW next,
         DeleteBreak(n, next),
         RunsInst => \A k \in DOMAIN breaks \cap DOMAIN breaks' :
                       mem'[breaks[k].addr] = mem[breaks[k].addr]
  PROVE  BreaksInPlace'
<1>1. /\ DOMAIN breaks' = DOMAIN breaks \ {n}
      /\ \A k \in DOMAIN breaks' : breaks'[k] = breaks[k]
  BY DEF DeleteBreak, Without
<1>2. CASE cur_bp = n
  <2>1. cur_bp' = NoBreak /\ n # NoBreak
    BY <1>2 DEF DeleteBreak, Ids, NoBreak
  <2>2. RunsInst
    BY <1>2, <2>1 DEF RunsInst
  <2> QED BY <1>1, <2>2, PlacedSame
<1>3. CASE cur_bp # n
  <2>1. mem' = BusWrite(mem, breaks[n].addr, 4, breaks[n].org_inst)
    BY <1>3 DEF DeleteBreak
  <2>2. mem \in Memory /\ \A k \in DOMAIN breaks : breaks[k].addr \in BreakAddr
    BY DEF DebuggedInv, CoreInv, TypeOK, BreaksOK
  <2>3. mem' = [mem EXCEPT ![breaks[n].addr] = breaks[n].org_inst]
    BY <2>1, <2>2, PatchWord
  <2>4. \A k \in DOMAIN breaks' : mem'[breaks[k].addr] = mem[breaks[k].addr]
    BY <1>1, <2>2, <2>3 DEF OneEach, Memory
  <2> QED BY <1>1, <2>4, PlacedSame
<1> QED BY <1>2, <1>3

LEMMA PlacedInductive ==
  ASSUME DebuggedInv, Ids, OneEach, BreaksInPlace, HasOwnWords,
         [DebugNext]_dvars,
         RunsInst => \A n \in DOMAIN breaks \cap DOMAIN breaks' :
                       mem'[breaks[n].addr] = mem[breaks[n].addr]
  PROVE  BreaksInPlace'
<1>1. ASSUME UNCHANGED <<vars, breaks>> PROVE BreaksInPlace'
  BY <1>1, PlacedSame DEF vars
<1>2. CASE Tick
  <2>1. PICK words \in [Volatile -> Word] : mem' = Refreshed(words)
    BY <1>2 DEF Tick
  <2>2. mem \in Memory /\ \A n \in DOMAIN breaks : breaks[n].addr \in BreakAddr
    BY DEF DebuggedInv, CoreInv, TypeOK, BreaksOK
  <2>3. \A n \in DOMAIN breaks : breaks[n].addr \in MemAddr \ Volatile
    BY <2>2, PatchWord
  <2>4. \A n \in DOMAIN breaks : mem'[breaks[n].addr] = mem[breaks[n].addr]
    BY <2>1, <2>3 DEF Refreshed
  <2>5. breaks' = breaks
    BY <1>2 DEF Tick, points
  <2> QED BY <2>4, <2>5, PlacedSame
<1>3. CASE Run
  <2>1. breaks' = breaks
    BY <1>3 DEF Run, RunNextCycle, RunReExecute, points
  <2> QED BY <1>3, <2>1, PlacedSame DEF RunsInst
<1>4. CASE DeletePoint \/ DeleteNext
  <2>1. ASSUME NEW n, NEW next, DeleteWatch(n, next) PROVE BreaksInPlace'
    BY <1>1, <2>1 DEF DeleteWatch
  <2>2. ASSUME UNCHANGED <<vars, points, cur_bp>> PROVE BreaksInPlace'
    BY <1>1, <2>2 DEF points
  <2> QED BY <1>4, <2>1, <2>2, PlacedDelete DEF DeletePoint, DeleteNext
<1>5. CASE CreateBreak
  BY <1>5, PlacedCreate
<1>6. CASE Command /\ ~DeletePoint /\ ~CreateBreak
  <2>1. UNCHANGED <<vars, breaks>>
    BY <1>6 DEF Command, Continue, StepByInst, CreateWatch, PrintExpr,
       EvalBroken, DeleteAll, Quit, points
  <2> QED BY <1>1, <2>1
<1>7. CASE Check /\ ~Tick /\ ~DeleteNext
  <2>1. UNCHANGED <<vars, breaks>>
    BY <1>7 DEF Check, Halted, CheckPause, Accept, WatchHit, WatchBroken,
       WatchQuiet, CheckStep, points
  <2> QED BY <1>1, <2>1
<1>8. CASE Signal \/ Stopped \/ UNCHANGED dvars
  <2>1. UNCHANGED <<vars, breaks>>
    BY <1>8 DEF Signal, Stopped, dvars, points
  <2> QED BY <1>1, <2>1
<1> QED BY <1>2, <1>3, <1>4, <1>5, <1>6, <1>7, <1>8 DEF DebugNext

\* As long as the program spares them, the breakpoints stay where they were
\* set, each with the instruction of the program, in every order of commands
\* (debugger.cpp:247-264, 437-470): no breakpoint takes another's word for the
\* program's, and a deletion puts back no other's.
THEOREM BreaksStayInPlace ==
  DebugSpec /\ SparesBreaks /\ []HasOwnWords => []BreaksInPlace
<1>1. DebugInit => BreaksInPlace
  BY DEF DebugInit, BreaksInPlace
<1>2. DebuggedInv /\ Ids /\ OneEach /\ BreaksInPlace /\ HasOwnWords
        /\ [DebugNext]_dvars
        /\ [RunsInst => \A n \in DOMAIN breaks \cap DOMAIN breaks' :
                           mem'[breaks[n].addr] = mem[breaks[n].addr]]_dvars
      => BreaksInPlace'
  <2>1. ASSUME BreaksInPlace, UNCHANGED dvars PROVE BreaksInPlace'
    BY <2>1, PlacedSame DEF dvars, vars, points
  <2> QED BY <2>1, PlacedInductive
<1> QED BY <1>1, <1>2, OneEachAlways, PTL DEF DebugSpec, SparesBreaks

----------------------------------------------------------------------------
\* What the program sees of the debugger while none of its instructions is run.

GuestStutters ==
  UNCHANGED <<GuestPc, regs, csr, mon, GuestMem, latch, guest>>

LEMMA GuestWord ==
  ASSUME OneEach, NEW a \in MemAddr
  PROVE  /\ a \in DebugAddr => GuestMem[a] = 0
         /\ a \notin DebugAddr =>
              /\ \A n \in DOMAIN breaks :
                   breaks[n].addr = a => GuestMem[a] = breaks[n].org_inst
              /\ (\A n \in DOMAIN breaks : breaks[n].addr # a)
                   => GuestMem[a] = mem[a]
BY DEF OneEach, GuestMem, PointsAt

LEMMA GuestWordNext ==
  ASSUME OneEach', NEW a \in MemAddr
  PROVE  /\ a \in DebugAddr => GuestMem'[a] = 0
         /\ a \notin DebugAddr =>
              /\ \A n \in DOMAIN breaks' :
                   breaks'[n].addr = a => GuestMem'[a] = breaks'[n].org_inst
              /\ (\A n \in DOMAIN breaks' : breaks'[n].addr # a)
                   => GuestMem'[a] = mem'[a]
BY DEF OneEach, GuestMem, PointsAt

LEMMA GuestMemSame ==
  ASSUME \A a \in MemAddr : GuestMem'[a] = GuestMem[a]
  PROVE  GuestMem' = GuestMem
BY DEF GuestMem

\* A new breakpoint takes the word of memory into its table.
LEMMA UnseenCreate ==
  ASSUME DebuggedInv, Ids, OneEach, OneEach', CreateBreak
  PROVE  GuestStutters
<1>1. PICK a \in BreakAddr :
        /\ \A n \in DOMAIN breaks : breaks[n].addr # a
        /\ mem' = [mem EXCEPT ![a] = kBreakInst]
        /\ next_id \notin DOMAIN breaks
        /\ DOMAIN breaks' = DOMAIN breaks \cup {next_id}
        /\ breaks'[next_id].addr = a /\ breaks'[next_id].org_inst = mem[a]
        /\ \A n \in DOMAIN breaks : breaks'[n] = breaks[n]
  BY Created
<1>2. \A b \in MemAddr : b # a => mem'[b] = mem[b]
  BY <1>1 DEF DebuggedInv, CoreInv, TypeOK, Memory
<1>3. ASSUME NEW b \in MemAddr PROVE GuestMem'[b] = GuestMem[b]
  <2>1. CASE b \in DebugAddr
    BY <2>1, GuestWord, GuestWordNext
  <2>2. CASE b \notin DebugAddr /\ b = a
    BY <1>1, <2>2, GuestWord, GuestWordNext
  <2>3. CASE b \notin DebugAddr /\ \E n \in DOMAIN breaks : breaks[n].addr = b
    BY <1>1, <2>3, GuestWord, GuestWordNext
  <2>4. CASE b \notin DebugAddr /\ b # a /\ \A n \in DOMAIN breaks : breaks[n].addr # b
    BY <1>1, <1>2, <2>4, GuestWord, GuestWordNext
  <2> QED BY <2>1, <2>2, <2>3, <2>4
<1>4. GuestPc' = GuestPc
  <2>1. cur_bp' = cur_bp /\ pc' = pc
    BY DEF CreateBreak
  <2>2. cur_bp \in DOMAIN breaks \cup {NoBreak}
    BY DEF DebuggedInv, BreaksOK
  <2> QED BY <1>1, <2>1, <2>2 DEF GuestPc
<1> QED BY <1>3, <1>4, GuestMemSame DEF GuestStutters, CreateBreak, history

\* A deletion puts the word back, whatever the program has made of it.
LEMMA UnseenDelete ==
  ASSUME DebuggedInv, Ids, OneEach, OneEach', NEW n \in DOMAIN breaks, NEW next,
         DeleteBreak(n, next), cur_bp # n
  PROVE  GuestStutters
<1>1. /\ mem' = BusWrite(mem, breaks[n].addr, 4, breaks[n].org_inst)
      /\ cur_bp' = cur_bp
      /\ UNCHANGED <<pc, regs, csr, mon, latch, event, dbg_pause, guest, owed>>
  BY DEF DeleteBreak
<1>2. /\ DOMAIN breaks' = DOMAIN breaks \ {n}
      /\ \A k \in DOMAIN breaks' : breaks'[k] = breaks[k]
  BY DEF DeleteBreak, Without
<1>3. mem \in Memory /\ breaks[n].addr \in BreakAddr
      /\ cur_bp \in DOMAIN breaks \cup {NoBreak}
  BY DEF DebuggedInv, CoreInv, TypeOK, BreaksOK
<1> DEFINE a == breaks[n].addr
           inst == breaks[n].org_inst
<1>4. mem' = [mem EXCEPT ![a] = inst] /\ a \in MemAddr
  BY <1>1, <1>3, PatchWord
<1>5. \A k \in DOMAIN breaks : breaks[k].addr = a => k = n
  BY DEF OneEach
<1>6. breaks[n].addr = a /\ breaks[n].org_inst = inst
  OBVIOUS
<1> HIDE DEF a, inst
<1>7. mem'[a] = inst /\ \A b \in MemAddr : b # a => mem'[b] = mem[b]
  BY <1>3, <1>4 DEF Memory
<1>8. ASSUME NEW b \in MemAddr PROVE GuestMem'[b] = GuestMem[b]
  <2>1. CASE b \in DebugAddr
    BY <2>1, GuestWord, GuestWordNext
  <2>2. CASE b \notin DebugAddr /\ b = a
    <3>1. GuestMem[b] = inst
      BY <1>6, <2>2, GuestWord
    <3>2. \A k \in DOMAIN breaks' : breaks'[k].addr # b
      BY <1>2, <1>5, <2>2
    <3> QED BY <1>7, <2>2, <3>1, <3>2, GuestWordNext
  <2>3. CASE b \notin DebugAddr /\ b # a /\ \E k \in DOMAIN breaks : breaks[k].addr = b
    <3>1. PICK k \in DOMAIN breaks : breaks[k].addr = b
      BY <2>3
    <3>2. k \in DOMAIN breaks' /\ breaks'[k] = breaks[k]
      BY <1>2, <1>6, <2>3, <3>1
    <3> QED BY <2>3, <3>1, <3>2, GuestWord, GuestWordNext
  <2>4. CASE b \notin DebugAddr /\ b # a /\ \A k \in DOMAIN breaks : breaks[k].addr # b
    BY <1>2, <1>7, <2>4, GuestWord, GuestWordNext
  <2> QED BY <2>1, <2>2, <2>3, <2>4
<1>9. GuestPc' = GuestPc
  BY <1>1, <1>2, <1>3 DEF GuestPc
<1> QED BY <1>1, <1>8, <1>9, GuestMemSame DEF GuestStutters

\* What the timer changes the program sees, unless a breakpoint covers it.
LEMMA UnseenTick ==
  ASSUME DebuggedInv, OneEach, OneEach', Tick
  PROVE  Guest!Devices
<1>1. PICK words \in [Volatile -> Word] : mem' = Refreshed(words)
  BY DEF Tick
<1>2. /\ UNCHANGED <<pc, regs, csr, mon, latch, event, breaks, cur_bp, guest>>
  BY DEF Tick, points
<1>3. mem' \in Memory /\ \A a \in MemAddr \ Volatile : mem'[a] = mem[a]
  BY <1>1, RefreshedType DEF Refreshed, DebuggedInv
<1>4. GuestMem' \in Memory
  <2>1. ASSUME NEW a \in MemAddr PROVE GuestMem'[a] \in Word
    BY <1>2, <1>3, GuestWordNext, SmallWords DEF Memory, DebuggedInv, BreaksOK
  <2> QED BY <2>1 DEF GuestMem, Memory
<1>5. \A a \in MemAddr \ Volatile : GuestMem'[a] = GuestMem[a]
  BY <1>2, <1>3 DEF GuestMem, PointsAt
<1>6. GuestPc' = GuestPc
  BY <1>2 DEF GuestPc
<1>7. csr' = [csr EXCEPT !.mip = csr'.mip]
  BY <1>2 DEF DebuggedInv, CoreInv, TypeOK, Registers
<1>8. Guest!Memory = Memory /\ Guest!MemAddr = MemAddr
  BY DEF Guest!Memory, Guest!MemAddr, Guest!Word, Memory, MemAddr, Word
<1> QED BY <1>2, <1>4, <1>5, <1>6, <1>7, <1>8 DEF Guest!Devices

LEMMA UnseenStep ==
  ASSUME DebuggedInv, Ids, OneEach, OneEach', [DebugNext]_dvars, ~RunsInst
  PROVE  Guest!Devices \/ GuestStutters
<1>1. ASSUME UNCHANGED <<vars, breaks, cur_bp, guest>> PROVE GuestStutters
  BY <1>1 DEF vars, GuestStutters, GuestPc, GuestMem, PointsAt
<1>2. CASE Tick
  BY <1>2, UnseenTick
<1>3. CASE DeletePoint \/ DeleteNext
  <2>1. ASSUME NEW n \in DOMAIN breaks, NEW next, DeleteBreak(n, next)
        PROVE  GuestStutters
    <3>1. cur_bp # n
      <4>1. cur_bp = n => cur_bp' = NoBreak
        BY <2>1 DEF DeleteBreak
      <4>2. n # NoBreak
        BY DEF Ids, NoBreak
      <4> QED BY <4>1, <4>2 DEF RunsInst
    <3> QED BY <2>1, <3>1, UnseenDelete
  <2>2. ASSUME NEW n, NEW next, DeleteWatch(n, next) PROVE GuestStutters
    BY <1>1, <2>2 DEF DeleteWatch, history
  <2>3. ASSUME UNCHANGED <<vars, points, cur_bp, history>> PROVE GuestStutters
    BY <1>1, <2>3 DEF points, history
  <2> QED BY <1>3, <2>1, <2>2, <2>3 DEF DeletePoint, DeleteNext
<1>4. CASE Run
  BY <1>4 DEF RunsInst
<1>5. CASE Command /\ ~DeletePoint
  <2>1. CASE CreateBreak
    BY <2>1, UnseenCreate
  <2>2. CASE ~CreateBreak
    <3>1. UNCHANGED <<vars, breaks, cur_bp, guest>>
      BY <1>5, <2>2 DEF Command, Continue, StepByInst, CreateWatch, PrintExpr,
         EvalBroken, DeleteAll, Quit, points, history
    <3> QED BY <1>1, <3>1
  <2> QED BY <2>1, <2>2
<1>6. CASE Check /\ ~Tick /\ ~DeleteNext
  <2>1. UNCHANGED <<vars, breaks, cur_bp, guest>>
    BY <1>6 DEF Check, Halted, CheckPause, Accept, WatchHit, WatchBroken,
       WatchQuiet, CheckStep, points, history
  <2> QED BY <1>1, <2>1
<1>7. CASE Signal \/ Stopped \/ UNCHANGED dvars
  <2>1. UNCHANGED <<vars, breaks, cur_bp, guest>>
    BY <1>7 DEF Signal, Stopped, dvars, points, history
  <2> QED BY <1>1, <2>1
<1> QED BY <1>2, <1>3, <1>4, <1>5, <1>6, <1>7 DEF DebugNext

LEMMA UnseenStart == DebugInit => Guest!Init
<1> SUFFICES ASSUME DebugInit PROVE Guest!Init
  OBVIOUS
<1>1. Reset /\ mem = InitMemory /\ breaks = << >> /\ cur_bp = NoBreak /\ guest = event
  BY DEF DebugInit, Init
<1>2. GuestPc = pc
  BY <1>1 DEF GuestPc
<1>3. \A a \in MemAddr : PointsAt(a) = {} /\ (a \in DebugAddr => InitMemory[a] = 0)
  BY <1>1, BusAssumption DEF PointsAt, InitMemory
<1>4. GuestMem = InitMemory
  BY <1>1, <1>3 DEF GuestMem, InitMemory
<1>5. Guest!InitMemory = InitMemory /\ Guest!InitCSR = InitCSR
      /\ Guest!ClearFlag = ClearFlag
  BY DEF Guest!InitMemory, Guest!MemAddr, InitMemory, MemAddr, Guest!InitCSR,
     InitCSR, Guest!kPrivLevelM, kPrivLevelM, Guest!ClearFlag, ClearFlag
<1>6. Guest!Reset
  BY <1>1, <1>2, <1>5 DEF Guest!Reset, Reset
<1> QED BY <1>4, <1>5, <1>6 DEF Guest!Init

\* Whatever the user types and the program has done, the debugger's own steps
\* cannot be told from the passing of time: a prompt, a watchpoint, a signal,
\* and a breakpoint set or deleted leave the program's registers, its pc and
\* the memory it would see without the debugger as they are
\* (debugger.cpp:247-272, 437-470, 708-724).
THEOREM DebuggerIsUnseen ==
  DebugSpec => Guest!Init /\ [][RunsInst \/ Guest!Devices \/ GuestStutters]_dvars
<1>1. DebuggedInv /\ Ids /\ OneEach /\ (OneEach)' /\ [DebugNext]_dvars =>
        [RunsInst \/ Guest!Devices \/ GuestStutters]_dvars
  BY UnseenStep
<1> QED BY <1>1, UnseenStart, OneEachAlways, PTL DEF DebugSpec

=============================================================================
