-------------------------------- MODULE Core --------------------------------
(***************************************************************************)
(* One hart of Risky32: core/core.cpp with its functional units            *)
(* (core/unit), its storage (core/storage) and, through CSR and MMU, its   *)
(* control registers and address translation.                              *)
(*                                                                         *)
(* Core::NextCycle works on a copy of the registers, and on the control    *)
(* registers, the exclusive monitor and the bus themselves.  The model     *)
(* does the same with a working record w, passed from stage to stage in    *)
(* the order of the code: only WriteBack tells what of w is kept.          *)
(***************************************************************************)
EXTENDS MMU, IntUnit

CONSTANTS
  Reg,            \* register numbers: 0 .. 31 in the code
  Volatile,       \* what changes between two cycles without a store
  Code(_),        \* what a word outside RamAddr may hold: any of a set of
                  \* instructions each time it is fetched
  Decode(_),      \* the instruction a word encodes
  Encode(_),      \* the word that encodes an instruction
  Lines,          \* which of the timer and external lines can be up together
  kResetVector

ASSUME CoreAssumption ==
  /\ 0 \in Reg /\ Reg \subseteq 0 .. 31
  /\ Lines \subseteq SUBSET {kMTI, kMEI}
  /\ Volatile \subseteq ClintAddr
  /\ kResetVector \in Word /\ kResetVector % 4 = 0

\* MulOp of funct5 in InstR: the read-modify-write ones.
AMOOp == {"amoswap", "amoadd", "amoxor", "amoand", "amoor",
          "amomin", "amomax", "amominu", "amomaxu"}
BranchOp == {"beq", "bne", "blt", "bge", "bltu", "bgeu"}
CSRImmOp == {"csrrwi", "csrrsi", "csrrci"}
CSROp == {"csrrw", "csrrs", "csrrc"} \cup CSRImmOp
PrivOp == {"ecall", "ebreak", "sret", "mret", "wfi"}
LoadOp == {"lb", "lbu", "lh", "lhu", "lw"}
StoreOp == {"sb", "sh", "sw"}
ComputeOp == RegOp \cup ImmOp \cup {"lui", "auipc"}
Op == AMOOp \cup BranchOp \cup CSROp \cup PrivOp \cup LoadOp \cup StoreOp
        \cup ComputeOp
        \cup {"lr", "sc", "fence", "jal", "jalr", "sfence", "illegal"}

\* rs1 is a number in csrrwi, csrrsi and csrrci, and a register elsewhere;
\* imm is the sign-extended immediate; csr is imm of a CSR instruction.
Inst ==
  [op : CSRImmOp, rd : Reg, rs1 : 0 .. 31, rs2 : Reg, imm : Word, csr : Nat]
    \cup
  [op : Op \ CSRImmOp, rd : Reg, rs1 : Reg, rs2 : Reg, imm : Word, csr : Nat]

ASSUME CodeAssumption ==
  \A a \in Word : \A i \in Code(a) \cup {Decode(a)} :
    /\ i \in Inst /\ i.csr \notin Counters
    /\ Encode(i) \in Word

VARIABLES
  pc,       \* state_.pc_
  regs,     \* state_.regs_
  csr,      \* csr_
  mon,      \* exc_mon_
  mem,      \* what the bus holds
  latch,    \* state_.last_mstatus_ and last_mie_
  event     \* history: the last instruction and whether it trapped

vars == <<pc, regs, csr, mon, mem, latch, event>>

Monitor == [flag : BOOLEAN, addr : Word]
Latch   == [mstatus : MStatusValues, mie : SUBSET kMaskMIE]
Event   == [op : Op \cup {"reset", "fetch"}, trap : {"none", "sync", "intr"}]

----------------------------------------------------------------------------
\* Exceptions: define/exception.h, core/storage/state.cpp.

kExcInstAddrMisalign  == 0
kExcIllegalInst       == 2
kExcBreakpoint        == 3
kExcLoadAddrMisalign  == 4
kExcStAMOAddrMisalign == 6
kExcUEnvCall          == 8
kExcSEnvCall          == 9
kExcMEnvCall          == 11
kExcInstPageFault     == 12
kExcLoadPageFault     == 13
kExcStAMOPageFault    == 15

kStateExcCodeReset == WordSize - 1

\* Mutant: an interrupt yields to an exception of the same cycle.
GetExcPriority_IntrLast(code) ==
  IF code = kStateExcCodeReset THEN 0 ELSE IF code >= kIntrBit THEN 1 ELSE 2

\* The access faults are ignored by the code and never raised.
GetExcPriority(code) ==
  CASE code \in {kExcStAMOPageFault, kExcLoadPageFault} -> 2
    [] code \in {kExcStAMOAddrMisalign, kExcLoadAddrMisalign} -> 3
    [] code \in {kExcIllegalInst, kExcInstAddrMisalign, kExcUEnvCall,
                 kExcSEnvCall, kExcMEnvCall, kExcBreakpoint} -> 4
    [] code = kExcInstPageFault -> 5
    [] code = kIntrBit + kMSI -> 6
    [] code = kIntrBit + kMTI -> 7
    [] code = kIntrBit + kMEI -> 8
    [] OTHER -> 0

RaiseException(w, code, tval) ==
  IF GetExcPriority(code) > GetExcPriority(w.exc)
  THEN [w EXCEPT !.exc = code,
                 !.csr = [w.csr EXCEPT !.mcause = code, !.mtval = tval]]
  ELSE w

SetFlag(a) == [flag |-> TRUE, addr |-> a]
ClearFlag == [flag |-> FALSE, addr |-> 0]

\* Mutant: SC does not ask for the reservation.
CheckFlag_Always(m, a) == TRUE

CheckFlag(m, a) == m.flag /\ m.addr = a

----------------------------------------------------------------------------
\* The bus, through the MMU.  is_invalid_ (w.bad) sticks for the cycle.

\* Mutant: last_vaddr_ is not brought up to date.
MmuAccess_StaleAddr(w, a, kind) ==
  IF w.bad THEN w ELSE [w EXCEPT !.bad = PageFault(w.csr, w.mem, a, kind)]

\* The translation a read, a write or a fetch begins with.
MmuAccess(w, a, kind) ==
  IF w.bad THEN w
  ELSE [w EXCEPT !.vaddr = a, !.bad = PageFault(w.csr, w.mem, a, kind)]

\* The value MMU::ReadByte, ReadHalf and ReadWord return.
Read(w, a, n) ==
  IF MmuAccess(w, a, "r").bad THEN 0
  ELSE BusRead(w.mem, GetPhysicalAddr(w.csr, w.mem, a), n)

\* Mutant: the store goes ahead although the translation failed.
Write_Unchecked(w, a, n, v) ==
  [MmuAccess(w, a, "w") EXCEPT
     !.mem = BusWrite(w.mem, GetPhysicalAddr(w.csr, w.mem, a), n, v)]

\* MMU::WriteByte, WriteHalf and WriteWord.
Write(w, a, n, v) ==
  LET x == MmuAccess(w, a, "w")
  IN  IF x.bad THEN x
      ELSE [x EXCEPT !.mem = BusWrite(w.mem, GetPhysicalAddr(w.csr, w.mem, a), n, v)]

\* The CHECK_PAGE_FAULT macro.
CheckPageFault(w, code) ==
  IF w.bad THEN RaiseException(w, code, w.vaddr) ELSE w

----------------------------------------------------------------------------
\* The functional units: what an instruction makes of the working record.

SetReg(w, rd, v) == [w EXCEPT !.regs = [w.regs EXCEPT ![rd] = v]]

Illegal(w, i) == RaiseException(w, kExcIllegalInst, Encode(i))

AMOResult(op, x, y) ==
  CASE op = "amoswap" -> y
    [] op = "amoadd"  -> Add(x, y)
    [] op = "amoxor"  -> PerformIntOp("xor", x, y)
    [] op = "amoand"  -> PerformIntOp("and", x, y)
    [] op = "amoor"   -> PerformIntOp("or", x, y)
    [] op = "amomin"  -> IF Signed(x) < Signed(y) THEN x ELSE y
    [] op = "amomax"  -> IF Signed(x) > Signed(y) THEN x ELSE y
    [] op = "amominu" -> IF x < y THEN x ELSE y
    [] op = "amomaxu" -> IF x > y THEN x ELSE y

LoadReserved(w, i) ==
  LET a == w.regs[i.rs1]
      r == [w EXCEPT !.mon = SetFlag(a)]
  IN  IF i.rs2 # 0 THEN Illegal(w, i)
      ELSE IF a % 4 # 0 THEN RaiseException(w, kExcStAMOAddrMisalign, a)
      ELSE SetReg(MmuAccess(r, a, "r"), i.rd, Read(r, a, 4))

StoreConditional(w, i) ==
  LET a == w.regs[i.rs1]
      r == IF CheckFlag(w.mon, a)
           THEN SetReg(Write(w, a, 4, w.regs[i.rs2]), i.rd, 0)
           ELSE SetReg(w, i.rd, 1)
  IN  IF a % 4 # 0 THEN RaiseException(w, kExcStAMOAddrMisalign, a)
      ELSE [r EXCEPT !.mon = ClearFlag]

ReadModifyWrite(w, i) ==
  LET a    == w.regs[i.rs1]
      data == Read(w, a, 4)
      r    == SetReg(MmuAccess(w, a, "r"), i.rd, data)
  IN  IF a % 4 # 0 THEN RaiseException(w, kExcStAMOAddrMisalign, a)
      ELSE Write(r, a, 4, AMOResult(i.op, data, w.regs[i.rs2]))

\* Bytes a load or a store moves: a multiple of which its address has to be.
Width(op) == CASE op \in {"lb", "lbu", "sb"} -> 1
               [] op \in {"lh", "lhu", "sh"} -> 2
               [] op \in {"lw", "sw"} -> 4

\* lb and lh extend the sign.
Extend(op, v) ==
  LET sign == Width(op) * ByteWidth - 1
  IN  IF op \in {"lb", "lh"} /\ sign \in BitsOf(v)
      THEN WordOf(BitsOf(v) \cup {b \in Bit : b > sign}) ELSE v

Load(w, i) ==
  LET a == Add(w.regs[i.rs1], i.imm)
      n == Width(i.op)
  IN  IF a % n # 0 THEN RaiseException(w, kExcLoadAddrMisalign, a)
      ELSE SetReg(MmuAccess(w, a, "r"), i.rd, Extend(i.op, Read(w, a, n)))

Store(w, i) ==
  LET a == Add(w.regs[i.rs1], i.imm)
      n == Width(i.op)
  IN  IF a % n # 0 THEN RaiseException(w, kExcStAMOAddrMisalign, a)
      ELSE Write(w, a, n, w.regs[i.rs2])

\* IntUnit: the second operand is a register or the immediate.
Compute(w, i) ==
  LET x == w.regs[i.rs1]
      v == IF i.op = "lui" THEN i.imm
           ELSE IF i.op = "auipc" THEN Add(w.pc, i.imm)
           ELSE IF i.op \in ImmOp THEN PerformIntOp(ImmBase[i.op], x, i.imm)
           ELSE PerformIntOp(i.op, x, w.regs[i.rs2])
  IN  SetReg(w, i.rd, v)

Taken(op, x, y) ==
  CASE op = "beq"  -> x = y
    [] op = "bne"  -> x # y
    [] op = "blt"  -> Signed(x) < Signed(y)
    [] op = "bge"  -> Signed(x) >= Signed(y)
    [] op = "bltu" -> x < y
    [] op = "bgeu" -> x >= y

Branch(w, i) ==
  IF Taken(i.op, w.regs[i.rs1], w.regs[i.rs2])
  THEN [w EXCEPT !.npc = Add(w.pc, i.imm)] ELSE w

\* jalr clears bit 0 of its target: bit 1 is left to WriteBack's check.
Jump(w, i) ==
  LET sum == Add(w.regs[i.rs1], i.imm)
      target == IF i.op = "jal" THEN Add(w.pc, i.imm) ELSE sum - (sum % 2)
  IN  [SetReg(w, i.rd, Add(w.pc, 4)) EXCEPT !.npc = target]

\* mret: mie = mpie, mpie = 1, mpp = U.
MretStatus(s) ==
  (s \ {kMIE, kMPPLo, kMPPHi})
    \cup (IF kMPIE \in s THEN {kMIE} ELSE {}) \cup {kMPIE}

\* sret: sie = spie, spie = 1, spp = U.
SretStatus(s) ==
  (s \ {kSIE, kSPP}) \cup (IF kSPIE \in s THEN {kSIE} ELSE {}) \cup {kSPIE}

ReturnFromM(w) ==
  [w EXCEPT
     !.npc = w.csr.mepc,
     !.csr = [WriteMStatus(w.csr, MretStatus(w.csr.mstatus)) EXCEPT
                !.priv = Mpp(w.csr.mstatus)],
     !.mon = ClearFlag]

ReturnFromS(w) ==
  [w EXCEPT
     !.npc = w.csr.sepc,
     !.csr = [WriteSStatus(w.csr, SretStatus(w.csr.sstatus)) EXCEPT
                !.priv = IF kSPP \in w.csr.sstatus
                         THEN kPrivLevelS ELSE kPrivLevelU],
     !.mon = ClearFlag]

\* Mutant: the privilege level is not checked.
ReturnFromTrap_AnyLevel(w, i, mode) ==
  IF mode = kPrivLevelM THEN ReturnFromM(w) ELSE ReturnFromS(w)

ReturnFromTrap(w, i, mode) ==
  IF w.csr.priv < mode THEN Illegal(w, i)
  ELSE IF mode = kPrivLevelM THEN ReturnFromM(w) ELSE ReturnFromS(w)

EnvCall(priv) == CASE priv = kPrivLevelU -> kExcUEnvCall
                   [] priv = kPrivLevelS -> kExcSEnvCall
                   [] priv = kPrivLevelM -> kExcMEnvCall

Privileged(w, i) ==
  IF i.rs1 # 0 \/ i.rd # 0 THEN Illegal(w, i)
  ELSE CASE i.op = "ecall"  -> RaiseException(w, EnvCall(w.csr.priv), 0)
         [] i.op = "ebreak" -> RaiseException(w, kExcBreakpoint, 0)
         [] i.op = "sret"   -> ReturnFromTrap(w, i, kPrivLevelS)
         [] i.op = "mret"   -> ReturnFromTrap(w, i, kPrivLevelM)
         [] i.op = "wfi"    -> w

\* csrrw does not read for rd = 0; csrrs and csrrc do not write for rs1 = 0.
AccessCSR(w, i) ==
  LET swap == i.op \in {"csrrw", "csrrwi"}
      src  == IF i.op \in CSRImmOp THEN i.rs1 ELSE w.regs[i.rs1]
      old  == ReadData(w.csr, i.csr)
      new  == IF swap THEN src
              ELSE IF i.op \in {"csrrs", "csrrsi"}
              THEN WordOf(BitsOf(old) \cup BitsOf(src))
              ELSE WordOf(BitsOf(old) \ BitsOf(src))
      writes == swap \/ i.rs1 # 0
      r == IF swap /\ i.rd = 0 THEN w ELSE SetReg(w, i.rd, old)
  IN  IF ~Readable(w.csr, i.csr) \/ (writes /\ ~Writable(w.csr, i.csr))
      THEN Illegal(w, i)
      ELSE [r EXCEPT !.csr = IF writes THEN WriteData(w.csr, i.csr, new)
                             ELSE w.csr]

\* There is no TLB to flush.
FenceVMA(w, i) ==
  IF i.rd = 0 /\ w.csr.priv >= kPrivLevelS THEN w ELSE Illegal(w, i)

----------------------------------------------------------------------------
\* The end of a cycle.

\* Mutant: the enables are those the instruction has just written.
CheckInterrupt_NoLatch(w, lines) ==
  LET mip   == lines \cup IF BusRead(w.mem, MSIP, 4) # 0 THEN {kMSI} ELSE {}
      taken == mip \cap w.csr.mie
      cause == IF kMEI \in taken THEN kMEI
               ELSE IF kMTI \in taken THEN kMTI ELSE kMSI
      x     == [w EXCEPT !.csr = [w.csr EXCEPT !.mip = mip]]
  IN  IF kMIE \in w.csr.mstatus /\ taken # {}
      THEN RaiseException(x, kIntrBit + cause, 0) ELSE x

\* The lines are read into mip; what is enabled is read from the latch.
CheckInterrupt(w, lines) ==
  LET mip   == lines \cup IF BusRead(w.mem, MSIP, 4) # 0 THEN {kMSI} ELSE {}
      taken == mip \cap latch.mie
      cause == IF kMEI \in taken THEN kMEI
               ELSE IF kMTI \in taken THEN kMTI ELSE kMSI
      x     == [w EXCEPT !.csr = [w.csr EXCEPT !.mip = mip]]
  IN  IF kMIE \in latch.mstatus /\ taken # {}
      THEN RaiseException(x, kIntrBit + cause, 0) ELSE x

\* mpie = mie, mie = 0, mpp = priv.
TrapStatus(s, priv) ==
  (s \ {kMIE, kMPIE, kMPPLo, kMPPHi})
    \cup (IF kMIE \in s THEN {kMPIE} ELSE {}) \cup MppBits(priv)

\* Mutant: the mode is read after it has been set.
TakeTrap_LateMode(w) ==
  LET c == [w.csr EXCEPT !.mepc = w.pc - (w.pc % 4), !.priv = kPrivLevelM]
  IN  [w EXCEPT !.exc = kStateExcCodeReset,
                !.npc = trap_vec(c),
                !.csr = WriteMStatus(c, TrapStatus(c.mstatus, c.priv)),
                !.mon = ClearFlag]

\* CheckAndClearExcFlag of a record that has an exception.
TakeTrap(w) ==
  LET c == [w.csr EXCEPT !.mepc = w.pc - (w.pc % 4), !.priv = kPrivLevelM]
  IN  [w EXCEPT !.exc = kStateExcCodeReset,
                !.npc = trap_vec(c),
                !.csr = WriteMStatus(c, TrapStatus(c.mstatus, w.csr.priv)),
                !.mon = ClearFlag]

\* Mutant: WriteBack does not look at the next pc.
CheckNextPc_None(w) == w

CheckNextPc(w) ==
  IF w.npc % 4 # 0 THEN RaiseException(w, kExcInstAddrMisalign, w.npc) ELSE w

TrapKind(w) == IF w.exc = kStateExcCodeReset THEN "none"
               ELSE IF w.exc >= kIntrBit THEN "intr" ELSE "sync"

\* A trap drops the registers of the working record, and nothing else of it.
Commit(op, x) ==
  LET y == IF x.exc # kStateExcCodeReset THEN TakeTrap(x) ELSE x
      r == IF x.exc # kStateExcCodeReset THEN regs ELSE x.regs
  IN  /\ regs' = [r EXCEPT ![0] = 0]
      /\ pc' = y.npc
      /\ csr' = y.csr
      /\ mon' = y.mon
      /\ mem' = y.mem
      /\ latch' = [mstatus |-> y.csr.mstatus, mie |-> y.csr.mie]
      /\ event' = [op |-> op, trap |-> TrapKind(x)]

\* The record is bound, not defined, so that TLC evaluates it once.
WriteBack(op, w, lines) ==
  \E x \in {CheckInterrupt(CheckNextPc(w), lines)} : Commit(op, x)

----------------------------------------------------------------------------
\* Core::NextCycle over the memory m: fetch, dispatch, write back.

\* The copy of state_ that is worked on, for the instruction at an address.
Copied(m, at) ==
  [pc |-> at, npc |-> Add(at, 4), regs |-> regs, exc |-> kStateExcCodeReset,
   csr |-> csr, mon |-> mon, mem |-> m, bad |-> FALSE, vaddr |-> at]

Fetched(m) == MmuAccess(Copied(m, pc), pc, "x")

\* What the word a fetch reads encodes.
InstsAt(m, pa) == IF pa \in RamAddr THEN {Decode(m[pa])} ELSE Code(pa)

FetchFault(w, lines) ==
  /\ w.bad
  /\ WriteBack("fetch", RaiseException(w, kExcInstPageFault, w.vaddr), lines)

ExecuteLR(w, i, lines) ==
  /\ i.op = "lr"
  /\ WriteBack(i.op, CheckPageFault(LoadReserved(w, i), kExcStAMOPageFault), lines)

ExecuteSC(w, i, lines) ==
  /\ i.op = "sc"
  /\ WriteBack(i.op, CheckPageFault(StoreConditional(w, i), kExcStAMOPageFault), lines)

ExecuteAMO(w, i, lines) ==
  /\ i.op \in AMOOp
  /\ WriteBack(i.op, CheckPageFault(ReadModifyWrite(w, i), kExcStAMOPageFault), lines)

ExecuteLoad(w, i, lines) ==
  /\ i.op \in LoadOp
  /\ WriteBack(i.op, CheckPageFault(Load(w, i), kExcLoadPageFault), lines)

ExecuteStore(w, i, lines) ==
  /\ i.op \in StoreOp
  /\ WriteBack(i.op, CheckPageFault(Store(w, i), kExcStAMOPageFault), lines)

ExecuteInt(w, i, lines) ==
  /\ i.op \in ComputeOp
  /\ WriteBack(i.op, Compute(w, i), lines)

ExecuteBranch(w, i, lines) ==
  /\ i.op \in BranchOp
  /\ WriteBack(i.op, Branch(w, i), lines)

ExecuteJump(w, i, lines) ==
  /\ i.op \in {"jal", "jalr"}
  /\ WriteBack(i.op, Jump(w, i), lines)

ExecutePrivileged(w, i, lines) ==
  /\ i.op \in PrivOp
  /\ WriteBack(i.op, Privileged(w, i), lines)

ExecuteCSR(w, i, lines) ==
  /\ i.op \in CSROp
  /\ WriteBack(i.op, AccessCSR(w, i), lines)

ExecuteSFence(w, i, lines) ==
  /\ i.op = "sfence"
  /\ WriteBack(i.op, FenceVMA(w, i), lines)

\* fence and fence.i: one hart, no instruction cache.
ExecuteFence(w, i, lines) ==
  /\ i.op = "fence"
  /\ WriteBack(i.op, w, lines)

ExecuteIllegal(w, i, lines) ==
  /\ i.op = "illegal"
  /\ WriteBack(i.op, Illegal(w, i), lines)

\* Core::Execute with the units it dispatches to, and the write-back.
Execute(w, i, lines) ==
  \/ ExecuteLR(w, i, lines)
  \/ ExecuteSC(w, i, lines)
  \/ ExecuteAMO(w, i, lines)
  \/ ExecuteLoad(w, i, lines)
  \/ ExecuteStore(w, i, lines)
  \/ ExecuteInt(w, i, lines)
  \/ ExecuteBranch(w, i, lines)
  \/ ExecuteJump(w, i, lines)
  \/ ExecutePrivileged(w, i, lines)
  \/ ExecuteCSR(w, i, lines)
  \/ ExecuteSFence(w, i, lines)
  \/ ExecuteFence(w, i, lines)
  \/ ExecuteIllegal(w, i, lines)

NextCycle(m, lines) ==
  \E w \in {Fetched(m)} :
    \/ FetchFault(w, lines)
    \/ /\ ~w.bad
       /\ \E i \in InstsAt(m, GetPhysicalAddr(csr, m, pc)) :
            Execute(w, i, lines)

\* Mutant: the pc is not taken back.
ReExecute_Ahead(i, m, lines) == \E w \in {Copied(m, pc)} : Execute(w, i, lines)

\* Core::ReExecute: one instruction back, and instead of a fetch the
\* instruction that it is given.
ReExecute(i, m, lines) ==
  \E w \in {Copied(m, Add(pc, WordSize - 4))} : Execute(w, i, lines)

Reset ==
  /\ pc = kResetVector
  /\ regs = [r \in Reg |-> 0]
  /\ csr = InitCSR
  /\ mon = ClearFlag
  /\ latch = [mstatus |-> {}, mie |-> {}]
  /\ event = [op |-> "reset", trap |-> "none"]

Init == Reset /\ mem = InitMemory

\* Memory at the start of a cycle, once the volatile words have changed.
Refreshed(words) ==
  [a \in MemAddr |-> IF a \in Volatile THEN words[a] ELSE mem[a]]

Next ==
  \E lines \in Lines, words \in [Volatile -> Word] :
    NextCycle(Refreshed(words), lines)

Spec == Init /\ [][Next]_vars

----------------------------------------------------------------------------
\* Properties.

\* Every part of the core's state stays in its range.
TypeOK ==
  /\ pc \in Word
  /\ regs \in [Reg -> Word]
  /\ csr \in Registers
  /\ mon \in Monitor
  /\ mem \in Memory
  /\ latch \in Latch
  /\ event \in Event

\* The pc is a multiple of four at every fetch, whatever mepc, mtvec, a jump
\* or a branch says: the word reads of RAM and ROM assert it.
PcAligned == pc % 4 = 0

\* sstatus is the view of mstatus that supervisor code has: the writes of
\* either, a trap and a return keep the two in step.
StatusMirror == csr.sstatus = csr.mstatus \cap kMaskSStatus

\* Privilege rises by taking a trap, to machine mode, and in no other way:
\* an xRET never returns to a mode above the one it runs in.
PrivRisesOnlyByTrap ==
  [][csr'.priv > csr.priv =>
       event'.trap # "none" /\ csr'.priv = kPrivLevelM]_vars

\* A trap records where it came from: mepc, mpp and mpie are the pc, the mode
\* and the interrupt enable of the instruction it was taken at, unless that
\* instruction is itself a return or, for mpie, writes mstatus.
TrapRecordsContext ==
  [][event'.trap # "none" =>
       /\ csr'.mepc = pc
       /\ kMIE \notin csr'.mstatus
       /\ event'.op \notin {"mret", "sret"} => Mpp(csr'.mstatus) = csr.priv
       /\ event'.op \notin CSROp \cup {"mret", "sret"} =>
            (kMPIE \in csr'.mstatus <=> kMIE \in csr.mstatus)]_vars

\* The return of a handler cannot be interrupted, nor any instruction that
\* ran with interrupts off: the latch delays an enable by one instruction.
\* And the interrupt taken is an enabled one, the most urgent of them.
InterruptWasEnabled ==
  [][event'.trap = "intr" =>
       LET cause == csr'.mcause - kIntrBit
       IN  /\ kMIE \in csr.mstatus
           /\ cause \in csr.mie \cap csr'.mip
           /\ \A other \in csr.mie \cap csr'.mip : other <= cause]_vars

\* An enabled interrupt that is pending is never passed over: the cycle ends
\* in its handler even when the instruction has an exception of its own.
InterruptTaken ==
  [][(kMIE \in csr.mstatus /\ csr.mie \cap csr'.mip # {}) =>
       event'.trap = "intr"]_vars

\* An exception is precise: the instruction leaves no trace in the registers,
\* in memory or in the control registers that a trap does not set.
ExceptionIsPrecise ==
  [][event'.trap = "sync" =>
       /\ \A a \in MemAddr \ Volatile : mem'[a] = mem[a]
       /\ regs' = regs
       /\ csr'.satp = csr.satp /\ csr'.mie = csr.mie
       /\ csr'.mtvec = csr.mtvec /\ csr'.mscratch = csr.mscratch
       /\ csr'.sscratch = csr.sscratch /\ csr'.sepc = csr.sepc
       /\ event'.op # "sret" => csr'.sstatus = csr.sstatus]_vars

\* mtval names an address that really is at fault, in the mode and under the
\* translation of the instruction: of the kind of access that mcause tells.
FaultAddress ==
  [][event'.trap = "sync" =>
       LET cause == csr'.mcause
           at    == csr'.mtval
       IN  /\ cause = kExcInstPageFault => at = pc /\ PageFault(csr, mem', at, "x")
           /\ cause = kExcLoadPageFault => PageFault(csr, mem', at, "r")
           /\ cause = kExcStAMOPageFault =>
                PageFault(csr, mem', at, "r") \/ PageFault(csr, mem', at, "w")
           /\ cause \in {kExcInstAddrMisalign, kExcLoadAddrMisalign,
                         kExcStAMOAddrMisalign} => at % 4 # 0]_vars

\* Code below a level cannot change the registers of that level but by a
\* trap: not mstatus through sstatus, and not through a return.
PrivilegeProtectsCSRs ==
  [][event'.trap = "none" =>
       /\ csr.priv < kPrivLevelM =>
            /\ csr'.mstatus \ kMaskSStatus = csr.mstatus \ kMaskSStatus
            /\ csr'.mie = csr.mie /\ csr'.mtvec = csr.mtvec
            /\ csr'.mscratch = csr.mscratch /\ csr'.mepc = csr.mepc
            /\ csr'.mcause = csr.mcause /\ csr'.mtval = csr.mtval
       /\ csr.priv < kPrivLevelS =>
            /\ csr'.sstatus = csr.sstatus /\ csr'.satp = csr.satp
            /\ csr'.sscratch = csr.sscratch /\ csr'.sepc = csr.sepc]_vars

\* Under translation no store goes around the MMU: a word changes only where
\* GetPhysicalAddr leads from an address that the leaf lets the instruction write
\* (mmu.cpp:98-140, 157-191), the table being the one that the instruction found,
\* with the word it stores as it was, though it may well be one of the table.
StoresAreChecked ==
  [][Translated(csr) =>
       \A a \in MemAddr \ Volatile : mem'[a] # mem[a] =>
         LET found == [mem' EXCEPT ![a] = mem[a]]
         IN  \E p \in Pages :
               /\ ~PageFault(csr, found, p + offset(a), "w")
               /\ GetPhysicalAddr(csr, found, p + offset(a)) = a]_vars

\* The algorithm of the comment (mmu.cpp:8-44), of which the walk should be the
\* unrolled version: the loop over the levels i of the table ends at the first
\* entry, from level 1 on, that is invalid or a leaf.  Of an address the bus
\* sees WordSize values.
Sv32(c, m, va) ==
  LET vpn == [i \in 0 .. 1 |-> IF i = 1 THEN vpn1(va) ELSE vpn0(va)]
      At(a, i) == PTE(BusRead(m, Wrap(a + vpn[i] * 4), 4))
      root == satp_ppn(c) * kPageSize
      first == At(root, 1)
      second == At(first.ppn * kPageSize, 0)
      pte == [i \in 0 .. 1 |-> IF i = 1 THEN first ELSE second]
      ends == {i \in 0 .. 1 : Invalid(pte[i]) \/ ~Pointer(pte[i])}
      last == IF 1 \in ends THEN 1 ELSE 0
      low == IF last = 1 THEN VpnSize ELSE 1
      ppn == pte[last].ppn + ((va \div kPageSize) % low)
  IN  IF ends = {} \/ Invalid(pte[last]) THEN NoLeaf
      ELSE [ok    |-> pte[last].ppn % low = 0,
            flags |-> pte[last].flags,
            pa    |-> Wrap(ppn * kPageSize + offset(va))]

\* What the walk does as the algorithm: it finds a leaf exactly when there is one,
\* with its flags, which decide about page faults, and a superpage leads where it
\* should.
WalkAgrees(c, m) ==
  \A va \in Pages :
    LET leaf == Sv32(c, m, va)
        walk == Walk(c, m, va)
    IN  /\ walk.ok = leaf.ok
        /\ leaf.ok => walk.flags = leaf.flags
        /\ leaf.ok /\ ~Pointer(Entry(m, satp_ppn(c), vpn1(va))) => walk = leaf

\* The walk, unrolled and cut to words (mmu.cpp:108-138), faults as the algorithm
\* it unrolls and translates superpages as it: all pages, after every change of
\* the table or of satp.
FaultsAsSv32 ==
  [][(mem' # mem \/ csr'.satp # csr.satp) => WalkAgrees(csr', mem')]_vars

=============================================================================
