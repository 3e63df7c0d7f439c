# A TLA+ model of Risky32

Risky32 emulates a single RISC-V hart (RV32IMA, machine, supervisor and user mode) with its
memories, an interrupt controller and a debugger. These modules model how the emulator starts, the
machine it emulates (what a cycle of the core does to the registers, the control registers, memory,
the page table and the reservation of LR/SC, how traps and interrupts cut into it, how the main loop
drives the core and the timer together), and the debugger that stops the machine and patches its
memory. TLC checks the model on small instances; TLAPS proves, for every word size, program, page
table, command line and session, the invariants and the protection of the core, the arithmetic of the
integer unit, the start of the program, what the debugger promises, and that a program runs under it
as it runs without it.

Paths below are relative to `src/src/` of the repository.

## The system

| Component | State | Operations | Talks to |
|---|---|---|---|
| `main.cpp` | memory size | reads options, builds the bus, then loops: `UpdateTimer`, `NextCycle` (of the core or of the debugger), until the halt flag | all |
| `util/argparse.cpp` | the values of the options | `Parse` | `main` |
| `core/core.cpp` | `state_`, the units, pointers to the three interrupt lines | `NextCycle`, `Execute`, `WriteBack`, `Reset`, `ReExecute` | MMU, units, CSR |
| `core/storage/state.cpp` | registers, `pc_`, `next_pc_`, `exc_code_`, the latched `mstatus` and `mie` | `RaiseException`, `CheckInterrupt`, `CheckAndClearExcFlag`, `ReturnFromTrap`, `LatchCSR` | CSR, monitor, lines |
| `core/storage/excmon.h` | one flag and one address | `SetFlag`, `ClearFlag`, `CheckFlag` | LR, SC, traps |
| `core/control/csr.cpp` | privilege level, control registers, counters | `ReadData`, `WriteData`, `trap_vec`, setters for traps | state, units, MMU |
| `core/unit/*.cpp` | none | one function per instruction format | working state, MMU, CSR |
| `bus/mmu.cpp` | `is_invalid_`, `last_vaddr_` | translated reads, writes and fetches | CSR, bus |
| `bus/bus.cpp` | list of address ranges | `AddPeripheral`, reads and writes by address | peripherals |
| RAM, ROM | bytes | reads and writes of bytes, halves, words | bus |
| `peripheral/interrupt/clint.cpp` | `mtime`, `mtimecmp`, two lines | word reads and writes, `UpdateTimer` | bus, main loop, core (by pointer) |
| `peripheral/general/gpio.cpp` | halt flag | byte reads and writes; a console port | bus, main loop |
| `debugger/debugger.cpp` | breakpoints, watchpoints, pause flags, step count, the breakpoint that was hit | commands, `NextCycle`, its own port on the bus | core, bus, SIGINT |
| `debugger/expreval.cpp` | recorded expressions | parsing, evaluation, records | core, bus |
| `debugger/disasm.cpp`, `util/style.h` | none | text | |

### What is hard about it

The emulator is one thread, but not sequential as a guest sees it.

* **An interrupt ends the cycle of any instruction.** `Execute` works on a copy of the registers,
  but on the CSRs, the monitor and the bus directly. When `WriteBack` takes a trap it drops the
  copy and nothing else, and the trap returns to the same instruction. Every instruction with an
  effect outside the registers is then done twice, or half (`core.cpp:131-135`).
* **The interrupt enables are those of the cycle before** (`state.cpp:96-97`), the lines those
  after the instruction's own stores (`state.cpp:102-105`).
* **Exceptions of one cycle compete**: a misaligned jump, a page fault, an interrupt. `mcause` and
  `mtval` are overwritten by each that outranks the last, and the fault flag and address of the
  MMU are shared by the fetch and up to two data accesses.
* **Two registers show the same bits** (`sstatus` and `mstatus`), kept in step by each writer.
* **Privilege levels** change by traps and returns whose inputs a program writes.
* **64-bit registers are read and written by halves** while the timer counts.
* **C++ arithmetic** is not that of RISC-V at its edges.
* **The page table is memory** that the program under it may write, and there is no TLB: the second
  access of an AMO may use another table than the first.
* **The debugger** patches guest memory, learns of a breakpoint by a store in the middle of a cycle,
  runs the instruction it replaced in the next turn, or in a deletion before that, and is entered by
  a signal that may come between any two of its steps.
* **Widths differ** in the bus: an end is computed in 32 bits in one place and in 64 in another.

`PROJECT.json` lists these as hazards, each at its line with the properties that would notice.

### What makes each part correct

* Cycle and traps: an exception is precise; a trap records where it came from; an interrupt taken
  was enabled and the most urgent; an enabled one is not passed over; the pc stays aligned.
* Privileges: they rise only by a trap, and protect the registers above them.
* Atomics: no update is lost; SC's report is the truth.
* MMU: the walk faults as the algorithm of the manual and leads where that does; what faults is what
  the leaf forbids, the address reported is the one at fault, and no store goes around the check.
* Integer unit: it computes what integer arithmetic says.
* CLINT: reading and moving the time by halves is safe when done in the usual order.
* Whole machine: the interrupted program goes on.
* Start and address map: an address has one owner, and a device that was attached answers.
* Evaluator: its stacks parse the grammar of its precedences, its operators are the guest's.
* Debugger: it stops when it was asked to, its tables are sound, and the program cannot tell that it
  is there.

## Modules

```
Words --+- IntUnit ------------------------+
        |                                  +-- Core --+-- Risky32 --- MCRisky32
        +- CSR --+                         |          |-- Hart (abstract)
        |        +-- MMU ------------------+          |      ^ implemented by
        +- Bus --+                                    |-- Debugger -- MCDebugger
        |                                             +-- MCCore
        +- Calc --+- ExprEval ------------+
        |         +- Calculator, IntUnit -+-- MCArithmetic
        +- Boot --- MCBoot

IntUnitProof <--+-- CoreProof <-- ProtectionProof <--+-- Risky32Proof       BootProof
                +-- CalculatorProof                  +-- DebuggerProof <-- TransparencyProof
```

| Module | Models | Correspondence |
|---|---|---|
| `Words` | `std::uint32_t` | a word is a number; `BitsOf` and `WordOf` convert it to the set of its one bits |
| `CSR` | `core/control/csr.*`, `define/csr.h` | operators over one record; a masked register is a set of bit positions and a mask an intersection |
| `Bus` | `bus/bus.cpp`, RAM, ROM, registers of CLINT, GPIO and the debugger's port | `BusRead` and `BusWrite` of 1, 2 or 4 bytes of a memory |
| `MMU` | `bus/mmu.*`, `define/vm.h` | `Walk`, `PageFault` and `GetPhysicalAddr` for an access of a kind (r, w, x), with the frame the code takes: for a page of 4 KB that of the second-level table (`mmu.cpp:118`, `:127`) |
| `IntUnit` | `core/unit/int.cpp` | `PerformIntOp` |
| `Core` | `core/core.*`, `core/storage`, the other units | below |
| `Risky32` | `main.cpp` (loop), the CLINT, the halt flag | `Cycle` is one turn of the loop; `Exit` is the end of the program |
| `Hart` | the hart as a program sees it | abstract: a cycle of the core, or a change of the devices |
| `Debugger` | `debugger/debugger.*`, the records of `expreval.cpp`, the loop of `main.cpp` with `-d` | below |
| `Calc` | `CalByOperator` of `debugger/expreval.cpp` | `CalcByOperator` of two words |
| `ExprEval` | the parser of `debugger/expreval.cpp` | the recursive descent as operators from tokens to a value and the tokens left |
| `Calculator` | `PerformIntOp` and `CalcByOperator` side by side | two operands and the results of all operations, with the properties of both |
| `Boot` | `main.cpp` up to the loop, `util/argparse.cpp`, `Bus::AddPeripheral`, `GetPeripheral` | one step an argument, one step a device |
| `MCCore`, `MCRisky32`, `MCDebugger`, `MCArithmetic`, `MCBoot` | | constants, programs and some properties for TLC |
| `IntUnitProof`, `CalculatorProof`, `CoreProof`, `ProtectionProof`, `Risky32Proof`, `BootProof`, `DebuggerProof`, `TransparencyProof` | | theorems |

### Core

The variables are the members of the code: `pc`, `regs`, `csr`, `mon`, `mem` (what the bus holds)
and `latch`; `event` is a history variable that says which operation the last step executed and
whether it trapped. One step is one `NextCycle`, as nothing can interrupt it: `Fetched` is the
working copy after the fetch, each `Execute...` action picks an instruction, hands the copy to its
unit, checks the page-fault flag where `Core::Execute` does, and ends in `WriteBack`. A unit is an
operator from working record to working record. The record holds the copy of the registers and
the *current* control registers, monitor and memory, and `Commit` says which of them a trap drops.

Abstractions:

* **Instructions are records.** A word of RAM is an instruction by `Decode`; a word elsewhere is code
  of the ROM, and `Code(a)` is the set of instructions it may encode, so that one run covers all
  programs over an alphabet. What does not decode is `illegal`. `Encode` is the word `mtval` gets.
* **Memory is what is accessed.** A data access outside `RamAddr`, `ClintAddr`, `HaltAddr` and
  `DebugAddr` meets a hole of the map: it reads 0 and its store is dropped. A ROM that is read or
  written as data is a part of `RamAddr`, as it is in the code, where both are vectors.
* **An address is two page numbers and an offset** as in the code; a page table has `VpnSize`
  entries, and the word size follows from it. A frame number is cut to the frames of a word, as
  `<< 12` does.
* **Counters** (`cycle`, `instret`) are left out. No other state depends on them.
* **The lines** from the timer and the external interrupt are nondeterministic in `Core` (any
  member of `Lines` in any cycle) and what `UpdateTimer` computes in `Risky32`. `main` connects no
  external interrupt; `Core` covers it because `core.h` has its setter. The software interrupt is
  the word `MSIP` of memory.
* **Volatile words**: in `Core` the words in `Volatile` may change arbitrarily before each cycle.
  In `Risky32` these are the halves of `mtime`, counted by `UpdateTimer`. A 64-bit register is two
  words, which is how the guest reads and writes it; the carry and the comparison go over both.
* **The console** port is left out: it blocks on stdin and writes stderr.

### Debugger

`Debugger` extends `Core` with the loop of `main.cpp:129-132`. A turn of it is split where the code
may call `AcceptCommand`, and where a signal or a command makes a difference; `where` is the place:

    loop -> pause -> watch -> step -> run -> loop          Debugger::NextCycle, main
              \        \       \
               accept -> prompt -> (delete) -> back        AcceptCommand, ParseCommand

`back` is the caller `AcceptCommand` returns to. Each command is an action at `prompt`. A deletion of
all points is a step a point, as each may execute an instruction. `abort` is a failed assertion,
`exit` the end of the process. The cycle itself is `NextCycle` or `ReExecute` of `Core`.

* The port of the debugger is a word of memory, `DebugAddr`: `WriteWord` is called in the middle of
  `Execute` and sets `dbg_pause_` and `cur_bp_`. In the model the store sets the word, and the end of the cycle
  (`Struck`) reads it. Nothing between the two looks at either flag.
* `pc_bp_` is not a variable: it is the inverse of `breaks` (`PointsAt`), each insertion and deletion
  changes both. `hit_count` only is printed.
* A record is an expression of five kinds: `$x1`, `$pc`, `*addr`, `*$x1` and `$0`. Evaluation has three
  outcomes: a value, an error, and the failed assertion of `ParseValue` for a reference to a record that
  has no value. Whole expressions are the subject of `ExprEval`.
* The interrupt lines are chosen anew in each cycle and in each `ReExecute` of a deletion. That is more
  than the code does, where they change only in `UpdateTimer`, once a turn, and `ImplementsHart`
  asks no more of them.
* `guest`, `prompted`, `unserved` and `owed` are history variables: the last instruction that was
  the program's, whether there was a prompt in this turn, the cycles since a SIGINT that has not been
  served, and the instructions a `stepi` has yet to run.

Commands that only print (`help`, `x`, `disasm`, `info`) are left out, and with them nothing but
text: `x` and `disasm` evaluate an expression without recording it, as `break` does.

### Start

In `Boot` an argument is an option or a text of which the model knows what `std::stoi`, the file system
and `isalpha` say of it (`Number`, `FileLength`, `Unit`). `argparse.cpp:24-28` cuts a text at a space
and refuses an empty one; texts with spaces and empty ones are not among the arguments.
The end of a started process is `Ended`, of which the loops are the modules above.

`ExprEval` starts from tokens. The lexer skips white space between any two characters
(`iss_ >> last_char_`), so `1 2` is the number 12: that is part of what a token is, not of the
parser. A value the standard does not define (a division by zero, a shift by the width or
more) is `Undefined` and spreads; `%` has a precedence and no case, and is 0.

## Runs

Words have 16 bits in the runs of the core and of the debugger: the smallest width with `mstatus.mpp`
(bits 11, 12) below `satp.mode` (the top bit), four equal bytes and pages of 4096 bytes, of which
there are 16, four to a table.

| Run | Module | Question | Result |
|---|---|---|---|
| `core_traps` | MCCore | all programs over an alphabet that traps, returns, raises and writes `mstatus`, `sstatus`, `mepc`, `mtvec`, `mie`; timer and external line arbitrary | 8 properties hold (148,037 states) |
| `core_memory` | MCCore | all sequences of loads, stores, LR, SC, AMOs and jumps in S and U mode over a page table that maps itself | precise, right fault address, no store around the check, faults as in Sv32 (511,780) |
| `system` | MCRisky32 | four programs under the loop of `main`: `mtime` read by halves, `mtimecmp` moved by halves, timer and software interrupt, LR/SC counter with a handler that counts too | 4 properties hold (12,852) |
| `arithmetic` | MCArithmetic | all operations on all pairs of operands of 4 bits; all lines of up to 5 of 12 tokens | agree with integer arithmetic, the guest (all but `%`) and the grammar (283,240) |
| `boot` | MCBoot | all command lines of an alphabet with small and huge sizes and files | 5 properties hold (24,484) |
| `debugger` | MCDebugger | all sessions with two points and two records over a program with a timer interrupt | 8 properties hold (502,457) |
| `atomic_sc` | MCRisky32 | does the loop of LR and SC add exactly one? | violated |
| `traps_mode` | MCCore | is the mode a trap records always that of its instruction? | violated |
| `walk_frame` | MCCore | does a page lead to the frame that its leaf names? | violated |
| `system_self` | MCRisky32 | does a store that interrupts its own hart ever complete? | violated |
| `debug_intr` | MCDebugger | does the rewind always reach the breakpoint? | violated |
| `debug_records` | MCDebugger | do the debugger's assertions hold? | violated |

Bounds and why they are enough:

* *Programs.* In `MCCore` the program is not fixed: at certain addresses any instruction of the
  alphabet may be there at each visit, so TLC explores all sequences, of any length, over it. The
  slots and the jump back give all orders.
* *Values.* The alphabets load the values that set and clear every bit the properties look at: 2440
  is all of `mie`, and `mpp` = S with `mpie`, `mie` and `spp` in `mstatus`; 4096 is `mpp` = H.
* *The page table* of `core_memory` has three superpages: one read only with the code, one writable whose
  frame number is beyond the address space and is cut to the same frames, one misaligned. A pointer leads to a second
  table with four leaves: read only, writable, executable by the user, and no leaf. Their pages all lead
  into the frame of that table, as in the code, and so a load finds an entry, a fetch executes one, and a store
  changes one: that of its own page, of another, or, through the superpage, the root's. The stores write
  entries without `a` (19, a nop when it is fetched), without `d` or beyond the frames, and parts of
  entries by bytes and AMOs: every check of the walk is met, before and after a change of the table.
* *MaxInterrupts* = 5: a lost update or a double store needs one interrupt, the delays 3 to 9 after each put
  the next into any instruction of the loop.
* *Delays* 1 to 10 in the third program of `system`: the timer is due while the other handler runs, in
  the cycle of its MRET, right after it, or later in the main part. Setting `mtime` back keeps the
  states finitely many.
* *Four bits* in `arithmetic`: widths matter only through the edges (0, -1, most negative, shift by the
  width), which all widths above one have. Five tokens hold two binary operators with brackets or
  a unary one, or three operands: what the stacks compare are two neighbours.
* *Six bits* of address in `boot`, with sizes that end before, at and after the next device, the middle and
  the end of the address space. An int is a word, so the product of `GetMemSize` overflows.
* *Points* = 2 in `debugger`, two records, `stepi` up to 2: breakpoints in the loop and in the handler, a
  breakpoint and a watchpoint, deletion of one while the other is hit, and two watchpoints that one
  cycle changes (the LUI before the loop changes the register and the word it points to). A mutant
  that stops the check at the first unchanged watchpoint is found with two only. A watchpoint may be on the
  register the program changes or on the word it points to, which is misaligned every other time. The program is a
  loop of two words, interrupted by the timer in any cycle, with a handler that can have a
  breakpoint as well.
* *Command lines* of `boot`: all of up to three arguments, among them doubled options, an option in the place of
  a value, flags before and after what is refused; and complete ones with every option.

Deadlock is checked in every run. A `Core` step is always possible, and `Risky32`, `Debugger` and `Boot`
end in a step of their own.

### Fairness

`FairSystemSpec` has weak fairness of `Cycle`: the loop of `main.cpp:136-139` is the only thread,
nothing in the modelled part of it blocks, and it goes on until the halt flag is set, which disables
`Cycle`. `FairDebugSpec` has weak fairness of `Check \/ Run`, the steps of `main.cpp:129-132` and
`debugger.cpp:708-724` that do not wait for the user; a command has none, as `readline` waits
for it. Nothing is assumed of interrupt lines or signals.

### Refinement

`Hart` is what a program may rely on, whatever drives the core: cycles, and changes of the devices
between them. `ImplementsHart` is that `Debugger` implements it under the mapping of `GuestPc`,
`GuestMem` and `guest`: while an instruction has yet to be run the program is at its breakpoint, and
under each breakpoint is the program's word. It says that the cycle that hits a breakpoint, the
prompt, the commands and a deletion are stutters, and that `ReExecute` is the cycle the program would have
had. It does not hold of the case `debug_intr` shows, where the cycle that hits a breakpoint is
interrupted and the pc to be taken back is at the handler: it leaves out that cycle (`HitInterrupted`,
by what the cycle does, not by where its pc ends) and the `ReExecute` that follows it
(`RewindsToBreak`). Everything else it asks of every step.

### What the violated runs show

The first three, and the fifth, come from the order of steps at the end of a cycle.

1. `atomic_sc`: interrupts are checked *after* `Execute`, whose effects outside the registers stay,
   while `mepc` is the pc of the instruction itself. An AMO is done twice, a CSR instruction loses the
   value it read, an SC reports failure after it has stored, which comments of the code exclude
   (`lsu.cpp:65`, `:70`).
2. `system_self`: for the same reason a store that raises `msip` with interrupts on never completes.
   `state.h:33` gives the avoidance of such deadlocks as the purpose of the latch.
3. `traps_mode`: an MRET interrupted in its own cycle, or one to a misaligned `mepc`, is recorded with
   its own pc and with the mode it returned to (`define/csr.h:62`).
4. `walk_frame`: `pte_ppn` is the frame number of the first entry (`mmu.cpp:118`). The second is read into
   `pte_val`, and its flags are checked, but the address is made of `pte_ppn` (`:127`), against the comment of the
   algorithm (`:71-72`). So every page of 4 KB leads into the frame of the second-level table. Superpages are
   right. All other properties of translation are of the walk as it is.
5. `debug_intr`: the store of a breakpoint is interrupted in its own cycle, after the debugger has
   been told. The pc is then at the handler, and `ReExecute` executes the instruction at the word
   before it (`core.cpp:170`, `core.h:27`).
6. `debug_records`: `watch $x1`, `print $0`, `delete 0`, `print` fails the assertion at
   `debugger.cpp:542`, and a watchpoint on such an expression the one at `:220`.

Two more disagreements are modelled as they are in the code and have no run of their own. `%` is one of
"all supported operators" (`expreval.cpp:93`), is read and has a precedence, but `CalcByOperator` has no
case for it (`:377`): `13 % 6` is 0, while the guest's REMU gives 1, so `CasesAsGuest` leaves it out. And the
`u` flag is looked at in supervisor mode only (`mmu.cpp:147`): user code fetches from, reads and writes
pages that are not "user accessible" (`define/vm.h:19`).

`TrapRecordsContext` and `ExceptionIsPrecise` state what does hold in spite of 1 to 3: the first
excludes the returns, the second is about synchronous exceptions.

## Proofs

The theorems assume the named assumptions only: the word size is even and has room for the fields
of the control registers (`WordAssumption`, `CSRAssumption`), a word is a page number and an offset
(`MMUAssumption`), the address map consists of words, of which those of the memories, the registers of
the devices and the debugger's word are apart and `MSIP` is a register
outside the memories (`BusAssumption`; `AddressesHaveOneOwner` is why), the
reset vector is aligned (`CoreAssumption`), code consists of instructions over
the register file (`CodeAssumption`), the timer's words are registers of the CLINT
(`ClintAssumption`), breakpoints are set on aligned words, and the debugger's instruction stores a
word to the debugger's address with `x0` as its base (`DebuggerAssumption`, as `debugger.cpp:450` and
the constant `kBreakInst`), the devices are attached in the order of their addresses and the RAM at the
middle of the address space (`BootAssumption`), and a command line is a sequence in which an option
and a text are not the same argument (`ArgvAssumption`). All hold in the code, where the word size is 2^32,
and TLC evaluates them in the runs.

| Theorem | States |
|---|---|
| `PerformIntOpType` | every integer operation yields a word |
| `DivisionIsRight`, `ProductIsWhole`, `CasesCalculateAsGuest` | `CalcSpec => []` of `DivisionIdentity`, `ProductHalves`, `CasesAsGuest` |
| `TypeCorrect`, `PcStaysAligned`, `StatusInStep` | `Spec => []TypeOK`, `[]PcAligned`, `[]StatusMirror` |
| `PrivilegeSound` | `Spec => PrivRisesOnlyByTrap` |
| `TrapSavesPc` | a trap saves the pc of its instruction in `mepc` |
| `InterruptsWereEnabled`, `InterruptsAreTaken` | `Spec => InterruptWasEnabled`, `InterruptTaken` |
| `TrapsRecordContext`, `ExceptionsArePrecise`, `FaultAddressIsAtFault` | `Spec => TrapRecordsContext`, `ExceptionIsPrecise`, `FaultAddress` |
| `PrivilegeGuardsCSRs`, `StoresGoThroughTheTable` | `Spec => PrivilegeProtectsCSRs`, `StoresAreChecked` |
| `FaultsAreSv32s` | `Spec => FaultsAsSv32`: the walk finds the leaf of the algorithm and, in a superpage, its address |
| `SystemImplementsCore` | `SystemSpec => Spec`: the main loop implements the core in an arbitrary environment |
| `SystemSound`, `SystemProtected` | hence the emulator has the core's invariants, and its protection |
| `BootTypes`, `AddressesHaveOneOwner`, `AttachedDevicesAnswer`, `RamHoldsWords` | `BootSpec => []` of `BootTypeOK`, `OneOwner`, `DevicesAnswer`, `WordsInRam` |
| `CommandLineIsObeyed` | `BootSpec => []StartsAsAsked` |
| `BreakpointsStop`, `StepsAreCounted`, `SignalsStop`, `WatchpointsStop`, `TablesAreSound` | `DebugSpec => []` of `BreakStops`, `StepStops`, `SignalStops`, `WatchStops`, `DebugTypeOK` |
| `DebuggedTypes`, `DebuggedPcAligned`, `DebuggedPrivileges` | `DebugSpec => []TypeOK`, `[]PcAligned`, `PrivRisesOnlyByTrap`, `PrivilegeProtectsCSRs`: the core under the debugger |
| `BreaksStayInPlace` | `DebugSpec => []BreaksInPlace` while the program spares its breakpoints |
| `DebuggerIsUnseen` | the debugger's own steps stutter for the program, or are changes of the devices |
| `DebuggerIsTransparent` | `DebugSpec /\ KeepsApart => ImplementsHart`: the debugger implements `Hart` |

**Core.** The argument follows the code. The inductive invariant is

    CoreInv == TypeOK /\ PcAligned /\ StatusMirror /\ MTVecLegal /\ LatchSame /\ ZeroReg

`PcAligned` alone is not inductive: the target of a trap is computed from `mtvec`, and is aligned
only because `WriteData` never stores a reserved mode there (`MTVecLegal`); nor is `StatusMirror`,
whose preservation by a write of `mstatus` needs the types. `Safe(w, x)` says that a unit which
starts on a sound working record `w` ends on a sound one `x` of the same pc and no higher privilege.
There is one lemma per unit that its operator is `Safe`, one per stage of the end of the cycle,
and `WriteBackGood` turns a sound record into a state with `CoreInv`. The alignment of the next pc is
not part of `Safe`, as a jump may break it; it is restored between `CheckNextPc` and the trap.

For the interrupts two more facts are carried through the cycle. Between two cycles the latch is
what the control registers hold (`LatchSame`), so what `CheckInterrupt` looks at are the enables the
instruction was entered with. And a sound record's exception is a synchronous one (`SyncExc`), so
that the priority of the interrupt, which is above all of them, decides.
`SystemImplementsCore` is a step simulation under the identity mapping: `UpdateTimer` is a choice of
the volatile words, and the timer's comparison a choice of the lines.

**Protection.** What a step may do to the state it has to protect is a question about the whole cycle,
from the fetch to the trap, and the proof answers it once. A unit that starts on a fresh record ends
in one of five ways (`Outcome`): it raised an exception and has changed `mcause` and `mtval` only, which
name an address at fault (`AtFault`); it ran without touching memory or control registers; it did one
store that the page table lets through (`Stored`); it wrote one control register; or it returned from a
trap. There is a lemma per unit (`LoadEnds` to `AccessCSREnds`), and the memory operations follow the sticky
fault flag of the MMU from access to access (`Accessed`): an AMO that fails at its second access
has stored nothing. `WriteBackKeeps` says what the end of the cycle leaves of a record, with and without a
trap, and a lemma per outcome (`RaisedContract` to `SReturnedContract`) turns it into `StepContract`, the
conjunction of which the theorems are the parts. `ZeroReg` is needed there: the write-back clears `x0` in a
cycle that traps as well, which leaves the registers as they are only because it was zero.

`StoresAreChecked` says that a store reaches no word but where `GetPhysicalAddr` leads from a page that its leaf lets
it write. Since a page of 4 KB leads into the frame of its table, that is no promise that the table is safe from the program
under it, and `walk_frame` shows why. The property is of words while the store is of bytes, half words and words at any aligned address: `WalkOfWord`
says that an address and the word around it are translated by the same leaf to places equally
far apart, so the word that changed has an address of its own that may be written. The property gives
it as a page and an offset, so that TLC has only the pages to try.

`FaultsAsSv32` compares two translations of different shape: the loop of `mmu.cpp:8-44` computes with
addresses of 34 bits that the bus cuts to a word, the code drops the upper bits of a frame number
first. `FrameWrap` says that this is the same, and then the cases are those of the unrolled code: there is a
leaf in both or in neither, with the same flags, and a superpage leads to the same address. In a page of 4 KB the
addresses differ (`WalkIsSv32`, which `walk_frame` finds violated).

**Boot.** `BootInv` says that the list holds exactly the devices main asked for and the bus took, at
their addresses and with their sizes (`Listed`), pairwise apart (`Apart`), and that a device that is
not in it was refused for an earlier one (`Answered`). That the two widths do no harm rests on the
order of the devices: the end of a new device is only cut at the end of the address space, where nothing is
attached before it.

`StartsAsAsked` compares the parser with a grammar of command lines (`Complete`), in both directions. The invariant
(`ReadInv`) is of the arguments read so far: each is an option, a flag that is set, the value of the option before it, or
the binary, there is one binary, the value of an option is that of its latest place, and the flags that are set have been
read. `Outcome` says of each place in `main` how it was reached. `WholeLine`: a line that was read to its end is complete, with its
flags and no others; `RejectedLine`: one that `Parse` returns false for is not; `LastGiven` turns the latest place
into the `CHOOSE` of the property.

**Debugger.** `FlowInv` says at each place of the loop what is known there of the flags: a signal that is
not served keeps `user_pause_` up; a breakpoint that was hit has its flag up until the prompt, and the
prompt behind it from then on; `owed` is `step_count_` whenever the flag is down. The four properties of
the prompts follow without a look at the core, by one case per action. `DebuggedInv` adds `CoreInv` and
the types of the tables; the stores of the debugger keep the types of memory, and `ReExecute`
takes an aligned pc back by four. `TablesAreSound` needs in addition that ids are fresh and that a watchpoint's
record is named by no other watchpoint. `DebuggedPrivileges` reuses `StepContract`: a
re-executed instruction starts on as fresh a record as a fetched one, so `ExecuteContract` is true of it too.

`BreaksStayInPlace` has two conditions, without which it is false: no instruction of the program stores over
a breakpoint (`SparesBreaks`), and where the user may set one the program has words that are not the
debugger's own (`HasOwnWords`). They are conditions on the program, and the one of the
`debugger` run meets them (its only store is to the halt flag); the proof shows that nothing the debugger does
breaks the property: its invariant `OneEach` says that no two breakpoints are on one address, so that a new one
never saves another's word as the program's, and a deletion never restores a word under
another. The re-execution in a deletion is where `SparesBreaks` is used for the debugger's own step.

`DebuggerIsUnseen` is the part of `ImplementsHart` about the steps in which no instruction of the program runs: under
the mapping of that refinement they are stutters of `Hart`, or changes of its devices. It needs no
condition: `GuestWord` gives the word the program would see at an address, with a breakpoint or
without, and each command leaves it.

**Transparency.** `DebuggerIsTransparent` is the whole refinement, the cycles included. The memory of the
machine and that of the program differ in the words the breakpoints have saved: `GuestMem` is `mem`
overlaid with them (`Over`, `GuestOver`). The cycle of the debugged core and that of `Hart` then work on two
records, one with each memory, that are alike in all else (`Twins`). There is a lemma per unit that it
takes twins to twins (`TwinLoad` to `TwinFenceVMA`), and one per stage of the end of the cycle up to what is
committed (`TwinWriteBack`). They need that the instruction's operand is in no patched word
(`Spared`), and that the walk for its address reads none (`Looked`, `WalkOver`). `TwinExecute` puts them together: what
the machine executes on its memory, the guest executes on the program's. With it

* `UnseenFetch` is an instruction without a breakpoint, or a fetch that faults;
* `UnseenHit` is the cycle that hits a breakpoint: the debugger's store changes its own word and the pc, nothing
  else (`PortStored`, `WriteBackQuiet`), and the mapping hides both;
* `UnseenRerun` and `UnseenDeleteHit` are `ReExecute`, with the breakpoint in place and after its deletion: the
  cycle that fetches the saved instruction from the program's memory.

The invariant that carries this from step to step is that each breakpoint's word is the debugger's (`Held`), with
`OneEach` and `DebuggedInv` from above. Since `Hart` is an instance, the prover takes
`Guest!PerformIntOp` and `PerformIntOp` for two operators; the first lemmas (`SameArithmetic` to `SameEnd`)
show them equal, definition by definition.

The condition `KeepsApart` says that `SparesPatches` holds in each state in which an instruction of the program is
run. It names what the debugger cannot hide from a program, and is about the instruction to be run:

* its operand is in no word with a breakpoint and not in the debugger's own word, unless the access is refused by a page fault;
* the walks for its address, and for that of its operand, read no word with a breakpoint;
* if it has a breakpoint, `GetPhysicalAddr` takes its address to itself (`pc_bp_` is looked up with the virtual pc, while
  the patch is at the physical address), and so the debugger's word, which can be stored to: otherwise the store of
  `kBreakInst` faults, or goes elsewhere. Code in machine mode or in a superpage can have that. In a page of 4 KB it is
  the code's own walk that decides: the fetch goes into the frame of the page table (`walk_frame`), so a table that maps
  such a page to itself on paper does not meet the condition.

Each stands for a way in which the code as it is lets the program see the patch, or misses the breakpoint; only
the page fault is asked for of both reads and writes, although a load needs the one alone. The programs of the `debugger` run keep to them in every reachable state: they run in
machine mode, untranslated, and their one operand is the halt flag. So the theorem's condition is met there, with
breakpoints on the loop and on the handler. It is a promise of the program, not of the emulator, and no
property of a run.

**Arithmetic.** Every result of the integer unit is a word that differs from the integer it stands for by a
multiple of the word size (`WrapForm`, `SignedForm`). The proofs compute with integers, keep these multiples apart
as a variable of their own, and drop them with `WrapSame`; uniqueness of quotient and remainder
(`DivisionUnique`) does the rest. The prover has no other way to reason about `%` of a size that is not a number.

Only model-checked:

* `ShiftsArePowers`: for the theorems `BitsOf` and `WordOf` are any conversion, and that a shift of a set of bits is a
  product with a power is an induction over the bits, which the provers cannot instantiate.
* `EvaluatesByPrecedence`: the parser is recursive.
* `NoTornRead`, `DeadlineKept`, `NoLostUpdate`: they are about the programs of
  `MCRisky32`, not about the emulator alone.
* `MainProgresses` and `SignalServed`: liveness is beyond the prover.
* `ImplementsHart` of the programs that do not keep apart from their breakpoints is not claimed at all;
  `BreaksInPlace` in general is false for the same reason. Both are proved under their conditions, and
  model-checked on a program that meets them.

That `SystemSpec` implements `Spec` is only proved: TLC would have to enumerate all values of the
volatile words.

## Not modelled

* The disassembler, the commands that print, the lexer of expressions, help texts and styles: text only.
* Reading the bytes of files, the console port of the GPIO, the line editor: I/O.
* The bits of instruction encodings: `Decode` and `Code` stand for them.
* The cycle and instret counters: no other state depends on them.
* `LoadHex`, `ReadDataForce` beyond the registers, `ExprEvaluator::Clear`: not called, or only to print.
* A program that stores to a word with a breakpoint: the debugger has no answer to it, and no property
  to check; `PROJECT.json` lists it as a hazard, and `BreaksStayInPlace` and `DebuggerIsTransparent`
  name the condition.

## What could come next

`NoLostUpdate` and `NoTornRead` as theorems about their programs: an invariant per address of the code.
