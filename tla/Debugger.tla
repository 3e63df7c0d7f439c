------------------------------ MODULE Debugger ------------------------------
(***************************************************************************)
(* The debugger that drives the core in the loop of main.cpp when it is    *)
(* asked for: debugger/debugger.cpp, with the records of expressions of    *)
(* debugger/expreval.cpp.  A turn of the loop runs through places named    *)
(* after what the code does there; SIGINT can come at each of them.        *)
(*                                                                         *)
(* The word of the debugger in memory is not zero when the last cycle      *)
(* stored to it: Debugger::WriteWord, called in the middle of the cycle,   *)
(* is read from it at the end of the cycle.                                *)
(***************************************************************************)
EXTENDS Core

CONSTANTS
  kBreakInst,     \* the word that encodes a store to the debugger
  BreakAddr,      \* where the user sets breakpoints
  Typed,          \* the expressions the user types
  MaxPoints,      \* bounds: breakpoints and watchpoints, records, and
  MaxRecords,     \* the count of a stepi
  MaxStep

\* $x1, $pc, the word at an address, the word a register points to, and the
\* value of a record.
Expression == [kind : {"reg", "pc", "word", "at", "ref"}, of : Nat]

\* kBreakInst is 'sw zero, 0xff0(zero)' (debugger.cpp:22-24).
ASSUME DebuggerAssumption ==
  /\ kBreakInst \in Word /\ BreakAddr \subseteq RamAddr
  /\ LET i == Decode(kBreakInst)
     IN  i.op = "sw" /\ i.rs1 = 0 /\ i.imm \in DebugAddr /\ i.imm % 4 = 0
  /\ \A a \in BreakAddr : a % 4 = 0
  /\ MaxPoints \in Nat /\ MaxRecords \in Nat /\ MaxStep \in Nat
  /\ \A e \in Typed :
       /\ e \in Expression
       /\ e.kind \in {"reg", "at"} => e.of \in Reg
       /\ e.kind = "word" => e.of \in Word

VARIABLES
  where,        \* the place in the loop
  back,         \* the place that AcceptCommand returns to
  user_pause,   \* user_pause_: SIGINT, or the start
  dbg_pause,    \* dbg_pause_: a breakpoint was hit
  step_count,   \* step_count_
  breaks,       \* breaks_, and with it pc_bp_
  watches,      \* watches_
  next_id,      \* next_id_
  cur_bp,       \* cur_bp_: the breakpoint whose instruction is to be run
  records,      \* expr_eval_.records_
  next_record,  \* expr_eval_.next_id_
  guest,        \* history: the last instruction that was not kBreakInst
  prompted,     \* history: there was a prompt in this turn
  unserved,     \* history: cycles since a SIGINT without a prompt, plus one
  owed          \* history: instructions that a stepi has yet to run

pause   == <<user_pause, dbg_pause, step_count>>
points  == <<breaks, watches, next_id>>
recs    == <<records, next_record>>
history == <<guest, prompted, unserved, owed>>
dvars   == <<vars, where, back, pause, points, cur_bp, recs, history>>

NoBreak == -1
NoStep  == -1

----------------------------------------------------------------------------
\* Expressions: the value, "error" where Eval returns false, and "assert"
\* where an assertion stops the program.

Value(v) == [result |-> "value", val |-> v]
Failed(r) == [result |-> r, val |-> 0]

\* A record that is gone is an error of the lexer; one that is there and has
\* an error is an assertion of ParseValue.
Evaluated(e, sub) ==
  CASE e.kind = "reg"  -> Value(regs[e.of])
    [] e.kind = "pc"   -> Value(pc)
    [] e.kind = "word" -> IF e.of % 4 # 0 THEN Failed("error")
                          ELSE Value(BusRead(mem, e.of, 4))
    [] e.kind = "at"   -> IF regs[e.of] % 4 # 0 THEN Failed("error")
                          ELSE Value(BusRead(mem, regs[e.of], 4))
    [] e.kind = "ref"  -> IF e.of \notin DOMAIN sub THEN Failed("error")
                          ELSE IF sub[e.of].result # "value" THEN Failed("assert")
                          ELSE sub[e.of]

\* The value of every record; a record names earlier ones only.
Record ==
  LET value[n \in DOMAIN records] == Evaluated(records[n], value)
  IN  value

Eval(e) == Evaluated(e, Record)

\* Mutant: only a greater value is a change.
Changed_Greater(n) == Record[watches[n].record_id].val > watches[n].last_val

\* A watchpoint has a record until it is deleted.
Changed(n) == /\ Record[watches[n].record_id].result = "value"
              /\ Record[watches[n].record_id].val # watches[n].last_val
Broken(n) == Record[watches[n].record_id].result # "value"

----------------------------------------------------------------------------
\* The loop.

DebugInit ==
  /\ Init
  /\ where = "loop" /\ back = "loop"
  /\ user_pause = TRUE /\ dbg_pause = FALSE /\ step_count = NoStep
  /\ breaks = << >> /\ watches = << >> /\ next_id = 0
  /\ cur_bp = NoBreak
  /\ records = << >> /\ next_record = 0
  /\ guest = event /\ prompted = FALSE /\ unserved = 1
  /\ owed = 0

\* main: the halt flag, and UpdateTimer.
Tick ==
  /\ where = "loop" /\ mem[HaltAddr] = 0
  /\ \E words \in [Volatile -> Word] : mem' = Refreshed(words)
  /\ where' = "pause" /\ prompted' = FALSE
  /\ UNCHANGED <<pc, regs, csr, mon, latch, event, back, pause, points,
                 cur_bp, recs, guest, unserved, owed>>

Halted ==
  /\ where = "loop" /\ mem[HaltAddr] # 0
  /\ where' = "exit"
  /\ UNCHANGED <<vars, back, pause, points, cur_bp, recs, history>>

\* Mutant: the flag of the signal is not looked at.
Paused_BreakOnly == dbg_pause

\* Mutant: the flag of the breakpoint is not looked at.
Paused_SignalOnly == user_pause

Paused == user_pause \/ dbg_pause

Goto(place) == where' = place /\ back' = back
Call(place) == where' = "accept" /\ back' = place

CheckPause ==
  /\ where = "pause"
  /\ IF Paused THEN Call("watch") ELSE Goto("watch")
  /\ UNCHANGED <<vars, pause, points, cur_bp, recs, history>>

\* AcceptCommand clears what was asked for before it reads a command.
Accept ==
  /\ where = "accept" /\ Goto("prompt")
  /\ user_pause' = FALSE /\ dbg_pause' = FALSE /\ step_count' = NoStep
  /\ prompted' = TRUE /\ unserved' = 0 /\ owed' = 0
  /\ UNCHANGED <<vars, points, cur_bp, recs, guest>>

\* Mutant: the check ends at the first watchpoint that has not changed.
Unchanged_One ==
  watches = << >> \/ \E n \in DOMAIN watches : ~Changed(n) /\ ~Broken(n)

Unchanged == \A n \in DOMAIN watches : ~Changed(n) /\ ~Broken(n)

\* CheckWatchpoints: the first that has changed, in the order of the hash
\* table, is brought up to date and ends the check.
WatchHit ==
  /\ where = "watch"
  /\ \E n \in DOMAIN watches :
       /\ Changed(n)
       /\ watches' = [watches EXCEPT
                        ![n].last_val = Record[watches[n].record_id].val]
  /\ Call("step")
  /\ UNCHANGED <<vars, pause, breaks, next_id, cur_bp, recs, history>>

WatchBroken ==
  /\ where = "watch" /\ \E n \in DOMAIN watches : Broken(n)
  /\ Goto("abort")
  /\ UNCHANGED <<vars, pause, points, cur_bp, recs, history>>

WatchQuiet ==
  /\ where = "watch" /\ Unchanged
  /\ Goto("step")
  /\ UNCHANGED <<vars, pause, points, cur_bp, recs, history>>

CheckStep ==
  /\ where = "step" /\ step_count = 0
  /\ Call("run")
  /\ UNCHANGED <<vars, pause, points, cur_bp, recs, history>>

----------------------------------------------------------------------------
\* A cycle of the core under the debugger.

Upto(n, bound) == IF n < bound THEN n ELSE bound

\* Memory when a cycle starts: nothing is stored to the debugger yet.
Silent(m) == [a \in MemAddr |-> IF a \in DebugAddr THEN 0 ELSE m[a]]
Struck(m) == \E p \in DebugAddr : m[p] # 0

\* pc_bp_.
PointsAt(a) == {n \in DOMAIN breaks : breaks[n].addr = a}

\* WriteWord, if it was called in this cycle of the instruction at an address:
\* cur_bp_ is left as the caller of the cycle leaves it.
WriteWord(at, next) ==
  /\ Goto(IF Struck(mem') /\ PointsAt(at) = {} THEN "abort" ELSE next)
  /\ dbg_pause' = (dbg_pause \/ Struck(mem'))
  /\ guest' = IF Struck(mem') THEN guest ELSE event'
  /\ owed' = IF owed = 0 \/ Struck(mem') THEN owed ELSE owed - 1

\* Mutant: the count goes down by two.
CountStep_Twice == step_count' = IF step_count > 1 THEN step_count - 2 ELSE 0

CountStep == step_count' = IF step_count > 0 THEN step_count - 1 ELSE step_count
CountSignal == unserved' = IF unserved = 0 THEN 0 ELSE Upto(unserved + 1, 3)

\* After the check of the step count, and after its prompt.
Running == where = "run" \/ (where = "step" /\ step_count # 0)

RunNextCycle ==
  /\ Running /\ cur_bp = NoBreak
  /\ CountStep /\ CountSignal
  /\ \E lines \in Lines : NextCycle(Silent(mem), lines)
  /\ WriteWord(pc, "loop")
  /\ IF Struck(mem') /\ PointsAt(pc) # {}
     THEN cur_bp' \in PointsAt(pc) ELSE cur_bp' = NoBreak
  /\ UNCHANGED <<user_pause, points, recs, prompted>>

RunReExecute ==
  /\ Running /\ cur_bp # NoBreak
  /\ CountStep /\ CountSignal
  /\ \E lines \in Lines :
       ReExecute(Decode(breaks[cur_bp].org_inst), Silent(mem), lines)
  /\ WriteWord(Add(pc, WordSize - 4), "loop")
  /\ cur_bp' = NoBreak
  /\ UNCHANGED <<user_pause, points, recs, prompted>>

----------------------------------------------------------------------------
\* The commands.

AtPrompt(next) == where = "prompt" /\ Goto(next)
Leave == where = "prompt" /\ where' = back /\ back' = "loop"

Continue ==
  /\ Leave
  /\ UNCHANGED <<vars, pause, points, cur_bp, recs, history>>

StepByInst ==
  /\ Leave
  /\ \E n \in 1 .. MaxStep : step_count' = n /\ owed' = n
  /\ UNCHANGED <<vars, user_pause, dbg_pause, points, cur_bp, recs,
                 guest, prompted, unserved>>

\* Mutant: one address may have two breakpoints.
Free_Always(a) == TRUE

Free(a) == PointsAt(a) = {}

\* The address is an expression, or by default the pc.
CreateBreak ==
  /\ AtPrompt("prompt")
  /\ \E a \in BreakAddr :
       /\ Free(a) /\ next_id < MaxPoints
       /\ mem' = BusWrite(mem, a, 4, kBreakInst)
       /\ breaks' = [n \in DOMAIN breaks \cup {next_id} |->
                       IF n = next_id
                       THEN [addr |-> a, org_inst |-> BusRead(mem, a, 4)]
                       ELSE breaks[n]]
  /\ next_id' = next_id + 1
  /\ UNCHANGED <<pc, regs, csr, mon, latch, event, pause, watches,
                 cur_bp, recs, history>>

\* A new record of an expression that has a value.
AddRecord(e) ==
  /\ next_record < MaxRecords
  /\ records' = [n \in DOMAIN records \cup {next_record} |->
                   IF n = next_record THEN e ELSE records[n]]
  /\ next_record' = next_record + 1

CreateWatch ==
  /\ AtPrompt("prompt")
  /\ \E e \in Typed :
       /\ Eval(e).result = "value" /\ AddRecord(e) /\ next_id < MaxPoints
       /\ watches' = [n \in DOMAIN watches \cup {next_id} |->
                        IF n = next_id
                        THEN [record_id |-> next_record, last_val |-> Eval(e).val]
                        ELSE watches[n]]
  /\ next_id' = next_id + 1
  /\ UNCHANGED <<vars, pause, breaks, cur_bp, history>>

PrintExpr ==
  /\ AtPrompt("prompt")
  /\ \E e \in Typed : Eval(e).result = "value" /\ AddRecord(e)
  /\ UNCHANGED <<vars, pause, points, cur_bp, history>>

\* Any command with an expression, and print without one of a last record
\* that is gone or has no value.
EvalBroken ==
  /\ AtPrompt("abort")
  /\ \/ \E e \in Typed : Eval(e).result = "assert"
     \/ /\ next_record > 0
        /\ next_record - 1 \in DOMAIN records =>
             Record[next_record - 1].result # "value"
  /\ UNCHANGED <<vars, pause, points, cur_bp, recs, history>>

Without(f, n) == [k \in DOMAIN f \ {n} |-> f[k]]

\* Mutant: the breakpoint that was hit is deleted like any other.
DeleteBreak_Dangling(n, next) ==
  /\ mem' = BusWrite(mem, breaks[n].addr, 4, breaks[n].org_inst)
  /\ Goto(next)
  /\ breaks' = Without(breaks, n)
  /\ UNCHANGED <<pc, regs, csr, mon, latch, event, pause, watches, next_id,
                 cur_bp, recs, history>>

\* The instruction is put back; if it has not been run yet, it is run at once.
DeleteBreak(n, next) ==
  LET m == BusWrite(mem, breaks[n].addr, 4, breaks[n].org_inst)
  IN  /\ IF cur_bp = n
         THEN /\ \E lines \in Lines :
                   ReExecute(Decode(breaks[n].org_inst), Silent(m), lines)
              /\ WriteWord(Add(pc, WordSize - 4), next)
              /\ cur_bp' = NoBreak
         ELSE /\ mem' = m /\ cur_bp' = cur_bp /\ Goto(next)
              /\ UNCHANGED <<pc, regs, csr, mon, latch, event, dbg_pause,
                             guest, owed>>
      /\ breaks' = Without(breaks, n)
      /\ UNCHANGED <<user_pause, step_count, watches, next_id, recs,
                     prompted, unserved>>

DeleteWatch(n, next) ==
  /\ Goto(next)
  /\ watches' = Without(watches, n)
  /\ records' = Without(records, watches[n].record_id)
  /\ UNCHANGED <<vars, pause, breaks, next_id, cur_bp, next_record,
                 history>>

DeletePoint ==
  /\ where = "prompt"
  /\ \/ \E n \in DOMAIN breaks : DeleteBreak(n, "prompt")
     \/ \E n \in DOMAIN watches : DeleteWatch(n, "prompt")

\* All breakpoints, in the order of a hash table, then all watchpoints.
DeleteAll ==
  /\ AtPrompt("delete")
  /\ UNCHANGED <<vars, pause, points, cur_bp, recs, history>>

DeleteNext ==
  /\ where = "delete"
  /\ \/ \E n \in DOMAIN breaks : DeleteBreak(n, "delete")
     \/ /\ breaks = << >>
        /\ \E n \in DOMAIN watches : DeleteWatch(n, "delete")
     \/ /\ breaks = << >> /\ watches = << >>
        /\ Goto("prompt")
        /\ UNCHANGED <<vars, pause, points, cur_bp, recs, history>>

Quit ==
  /\ AtPrompt("exit")
  /\ UNCHANGED <<vars, pause, points, cur_bp, recs, history>>

Ended == where \in {"exit", "abort"}

\* SignalHandler.
Signal ==
  /\ ~Ended
  /\ user_pause' = TRUE
  /\ unserved' = IF unserved = 0 THEN 1 ELSE unserved
  /\ UNCHANGED <<vars, where, back, dbg_pause, step_count, points,
                 cur_bp, recs, guest, prompted, owed>>

Command == \/ Continue \/ StepByInst \/ CreateBreak \/ CreateWatch
           \/ PrintExpr \/ EvalBroken \/ DeletePoint \/ DeleteAll \/ Quit

Check == \/ Tick \/ Halted \/ CheckPause \/ Accept \/ WatchHit
         \/ WatchBroken \/ WatchQuiet \/ CheckStep \/ DeleteNext

Run == RunNextCycle \/ RunReExecute

Stopped == Ended /\ UNCHANGED dvars

DebugNext == Check \/ Run \/ Command \/ Signal \/ Stopped

DebugSpec == DebugInit /\ [][DebugNext]_dvars

\* One thread runs the loop; it waits for nothing but a command.
FairDebugSpec == DebugSpec /\ WF_dvars(Check \/ Run)

----------------------------------------------------------------------------
\* Properties.

\* Every part of the debugger's state stays in its range.
DebugTypeOK ==
  /\ where \in {"loop", "pause", "watch", "step", "run", "accept", "prompt",
               "delete", "exit", "abort"}
  /\ step_count \in NoStep .. MaxStep
  /\ breaks \in [DOMAIN breaks -> [addr : BreakAddr, org_inst : Word]]
  /\ \A n \in DOMAIN breaks \cup DOMAIN watches : n < next_id
  /\ cur_bp \in DOMAIN breaks \cup {NoBreak}
  /\ \A n \in DOMAIN watches : watches[n].record_id \in DOMAIN records

\* The saved instruction of a breakpoint is the program's, and the word in
\* memory is the debugger's, for as long as the breakpoint exists
\* (debugger.cpp:459-465, 253): no breakpoint saves what another has put there.
BreaksInPlace ==
  \A n \in DOMAIN breaks :
    /\ mem[breaks[n].addr] = kBreakInst
    /\ breaks[n].org_inst # kBreakInst

\* ReExecute goes back to the breakpoint: "rewind 1 instruction and then
\* execute specific instruction" (core.h:27).
RewindsToBreak == cur_bp # NoBreak => pc = Add(breaks[cur_bp].addr, 4)

\* The instruction of a breakpoint is not run before the prompt that shows it.
BreakStops == Running /\ cur_bp # NoBreak => prompted

\* After stepi N the next prompt that nothing else asked for comes when N
\* instructions of the program have been run: not those that a breakpoint
\* stands for, and not less for a breakpoint that was left (help, line 149).
StepStops ==
  /\ where = "accept" /\ back = "run" => owed = 0
  /\ step_count > 0 /\ ~dbg_pause => owed = step_count

\* Without a prompt in between no cycle follows one that has changed the value
\* of a watchpoint ("pause when EXPR changes", line 132): a turn goes on without a
\* prompt only when no watchpoint waits to be reported behind another one that
\* changed with it (lines 213-231).
WatchStops ==
  Running /\ ~prompted =>
    \A n \in DOMAIN watches :
      LET now == Record[watches[n].record_id]
      IN  now.result = "value" /\ now.val = watches[n].last_val

\* After SIGINT the program goes on for one cycle at most before the prompt,
\* whenever the signal comes: at the prompt too, and while it is opened.
SignalStops == unserved <= 2

\* And the user gets the prompt, if it is not there, unless the program ends.
SignalServed == unserved > 0 ~> (where = "prompt" \/ Ended)

----------------------------------------------------------------------------
\* The program as if there were no debugger: its pc while an instruction has
\* yet to be run, and its words under the breakpoints.

GuestPc == IF cur_bp = NoBreak THEN pc ELSE breaks[cur_bp].addr

GuestMem ==
  [a \in MemAddr |->
     IF a \in DebugAddr THEN 0
     ELSE IF PointsAt(a) = {} THEN mem[a]
     ELSE breaks[CHOOSE n \in PointsAt(a) : TRUE].org_inst]

Guest == INSTANCE Hart WITH pc <- GuestPc, mem <- GuestMem, event <- guest

\* The cycle hits a breakpoint, and ends in the trap of an interrupt.
HitInterrupted == cur_bp = NoBreak /\ cur_bp' # NoBreak /\ event'.trap # "none"

\* Breakpoints, steps, deletions and prompts are transparent: from any state
\* on the program runs as on a hart that has no debugger, except in the cycle
\* that hits a breakpoint and is interrupted, and the one that follows it.
ImplementsHart ==
  /\ Guest!Init
  /\ [][RewindsToBreak /\ ~HitInterrupted =>
          \/ Guest!Cycle \/ Guest!Devices
          \/ UNCHANGED <<GuestPc, regs, csr, mon, GuestMem, latch, guest>>]_dvars

=============================================================================
