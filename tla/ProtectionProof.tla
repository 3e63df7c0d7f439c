-------------------------- MODULE ProtectionProof --------------------------
(***************************************************************************)
(* What a cycle of Core may do to the state it has to protect: memory      *)
(* behind the page table, the control registers of a higher level, and     *)
(* everything an exception promises to leave alone.                        *)
(*                                                                         *)
(* Each functional unit is shown to end in one of five ways (Outcome): it  *)
(* raised an exception, ran without touching memory or control registers,  *)
(* stored, wrote a control register, or returned from a trap.  WriteBack   *)
(* makes of each of them a step that satisfies StepContract, from which    *)
(* the theorems follow.                                                    *)
(***************************************************************************)
EXTENDS CoreProof

\* The codes that the units raise.
RaisedCode ==
  {kExcInstAddrMisalign, kExcIllegalInst, kExcBreakpoint, kExcLoadAddrMisalign,
   kExcStAMOAddrMisalign, kExcUEnvCall, kExcSEnvCall, kExcMEnvCall,
   kExcInstPageFault, kExcLoadPageFault, kExcStAMOPageFault}

AddrMisalign ==
  {kExcInstAddrMisalign, kExcLoadAddrMisalign, kExcStAMOAddrMisalign}

\* The control registers once an exception is recorded in them.
Faulted(c, code, tval) == [c EXCEPT !.mcause = code, !.mtval = tval]

\* The exception of the instruction at `at` names an address at fault.
AtFault(c, m, at, code, tval) ==
  /\ code = kExcInstPageFault => tval = at /\ PageFault(c, m, tval, "x")
  /\ code = kExcLoadPageFault => PageFault(c, m, tval, "r")
  /\ code = kExcStAMOPageFault =>
       PageFault(c, m, tval, "r") \/ PageFault(c, m, tval, "w")
  /\ code \in AddrMisalign => tval % 4 # 0

\* Memory m2 is m after one store that the page table lets through.
Stored(c, m, m2) ==
  \E a \in Word, n \in {1, 2, 4}, v \in Word :
    /\ a % n = 0 /\ ~PageFault(c, m, a, "w")
    /\ m2 = BusWrite(m, GetPhysicalAddr(c, m, a), n, v)

\* A record that an instruction starts on.
Fresh(w) ==
  /\ GoodWork(w) /\ w.exc = kStateExcCodeReset /\ w.bad = FALSE
  /\ w.npc % 4 = 0

----------------------------------------------------------------------------
\* The ways in which a unit, started on w, ends with x.

Raised(w, x) ==
  /\ x.exc \in RaisedCode
  /\ x.csr = Faulted(w.csr, x.exc, x.csr.mtval)
  /\ x.npc = w.npc /\ x.mem = w.mem
  /\ AtFault(w.csr, w.mem, w.pc, x.exc, x.csr.mtval)

Ran(w, x) ==
  x.exc = kStateExcCodeReset /\ x.csr = w.csr /\ x.mem = w.mem

DidStore(w, x) ==
  /\ x.exc = kStateExcCodeReset /\ x.csr = w.csr /\ x.npc = w.npc
  /\ Stored(w.csr, w.mem, x.mem)

WroteCSR(w, x) ==
  /\ x.exc = kStateExcCodeReset /\ x.npc = w.npc /\ x.mem = w.mem
  /\ \E addr \in Nat, v \in Word :
       Writable(w.csr, addr) /\ x.csr = WriteData(w.csr, addr, v)

MReturned(w, x) ==
  /\ x.exc = kStateExcCodeReset /\ x.mem = w.mem
  /\ w.csr.priv = kPrivLevelM
  /\ x.csr = [WriteMStatus(w.csr, MretStatus(w.csr.mstatus)) EXCEPT
                !.priv = Mpp(w.csr.mstatus)]

SReturned(w, x) ==
  /\ x.exc = kStateExcCodeReset /\ x.mem = w.mem
  /\ w.csr.priv >= kPrivLevelS
  /\ x.csr = [WriteSStatus(w.csr, SretStatus(w.csr.sstatus)) EXCEPT
                !.priv = IF kSPP \in w.csr.sstatus
                         THEN kPrivLevelS ELSE kPrivLevelU]

Outcome(op, w, x) ==
  \/ Raised(w, x)
  \/ Ran(w, x)
  \/ DidStore(w, x)
  \/ op \in CSROp /\ WroteCSR(w, x)
  \/ op = "mret" /\ MReturned(w, x)
  \/ op = "sret" /\ SReturned(w, x)

\* What a unit has done to memory before its page fault is looked at: accesses
\* of these kinds.
Accessed(w, x, kinds) ==
  /\ x.exc = w.exc /\ x.csr = w.csr /\ x.npc = w.npc
  /\ x.bad => /\ x.mem = w.mem
              /\ \E k \in kinds : PageFault(w.csr, w.mem, x.vaddr, k)
  /\ ~x.bad => x.mem = w.mem \/ Stored(w.csr, w.mem, x.mem)

----------------------------------------------------------------------------
\* Exceptions.

LEMMA RaisedCodes ==
  ASSUME NEW code \in RaisedCode
  PROVE  /\ code \in 0 .. 31 /\ code \in SyncExc /\ code # kStateExcCodeReset
         /\ GetExcPriority(code) > 0
<1>1. code \in 0 .. 31
  BY DEF RaisedCode, kExcInstAddrMisalign,
     kExcIllegalInst, kExcBreakpoint, kExcLoadAddrMisalign,
     kExcStAMOAddrMisalign, kExcUEnvCall, kExcSEnvCall, kExcMEnvCall,
     kExcInstPageFault, kExcLoadPageFault, kExcStAMOPageFault
<1>2. code \notin {kIntrBit + 3, kIntrBit + 7, kIntrBit + 11}
  BY <1>1, IntrBitFacts
<1>3. GetExcPriority(code) > 0
  BY <1>1, <1>2 DEF GetExcPriority, kMSI, kMTI, kMEI, RaisedCode,
     kExcInstAddrMisalign,
     kExcIllegalInst, kExcBreakpoint, kExcLoadAddrMisalign,
     kExcStAMOAddrMisalign, kExcUEnvCall, kExcSEnvCall, kExcMEnvCall,
     kExcInstPageFault, kExcLoadPageFault, kExcStAMOPageFault
<1> QED BY <1>1, <1>3, SyncWords, ResetPriority

\* The first exception of an instruction is always recorded.
LEMMA FirstRaised ==
  ASSUME NEW w, GoodWork(w), w.exc = kStateExcCodeReset,
         NEW code \in RaisedCode, NEW tval \in Word
  PROVE  /\ RaiseException(w, code, tval).exc = code
         /\ RaiseException(w, code, tval).npc = w.npc
         /\ RaiseException(w, code, tval).mem = w.mem
         /\ RaiseException(w, code, tval).bad = w.bad
         /\ RaiseException(w, code, tval).csr = Faulted(w.csr, code, tval)
         /\ RaiseException(w, code, tval).csr.mtval = tval
<1> DEFINE c == Faulted(w.csr, code, tval)
           x == RaiseException(w, code, tval)
<1>1. GetExcPriority(code) > GetExcPriority(w.exc)
  BY RaisedCodes, ResetPriority
<1>2. x = [w EXCEPT !.exc = code, !.csr = c]
  BY <1>1 DEF RaiseException, Faulted
<1>3. c.mtval = tval
  BY DEF Faulted, GoodWork, GoodCSR, Registers
<1> HIDE DEF c, x
<1>4. /\ x.exc = code /\ x.npc = w.npc /\ x.mem = w.mem /\ x.bad = w.bad
      /\ x.csr = c
  BY <1>2 DEF GoodWork, Work
<1> QED BY <1>3, <1>4 DEF c, x

LEMMA RaiseOutcome ==
  ASSUME NEW w, Fresh(w), NEW code \in RaisedCode, NEW tval \in Word,
         AtFault(w.csr, w.mem, w.pc, code, tval)
  PROVE  /\ Raised(w, RaiseException(w, code, tval))
         /\ RaiseException(w, code, tval).bad = FALSE
BY FirstRaised DEF Raised, Fresh

\* An exception other than a page fault and a misaligned address.
LEMMA PlainFault ==
  ASSUME NEW c, NEW m, NEW at, NEW tval,
         NEW code \in {kExcIllegalInst, kExcBreakpoint, kExcUEnvCall,
                       kExcSEnvCall, kExcMEnvCall}
  PROVE  code \in RaisedCode /\ AtFault(c, m, at, code, tval)
BY DEF RaisedCode, AtFault, AddrMisalign, kExcInstAddrMisalign,
     kExcIllegalInst, kExcBreakpoint, kExcLoadAddrMisalign,
     kExcStAMOAddrMisalign, kExcUEnvCall, kExcSEnvCall, kExcMEnvCall,
     kExcInstPageFault, kExcLoadPageFault, kExcStAMOPageFault

LEMMA IllegalOutcome ==
  ASSUME NEW w, Fresh(w), NEW i, GoodInst(i)
  PROVE  Raised(w, Illegal(w, i)) /\ Illegal(w, i).bad = FALSE
BY PlainFault, RaiseOutcome DEF Illegal, GoodInst

LEMMA MisalignOutcome ==
  ASSUME NEW w, Fresh(w), NEW a \in Word, a % 4 # 0,
         NEW code \in {kExcLoadAddrMisalign, kExcStAMOAddrMisalign}
  PROVE  /\ Raised(w, RaiseException(w, code, a))
         /\ RaiseException(w, code, a).bad = FALSE
<1>1. code \in RaisedCode /\ AtFault(w.csr, w.mem, w.pc, code, a)
  BY DEF RaisedCode, AtFault, AddrMisalign, kExcInstAddrMisalign,
     kExcLoadAddrMisalign, kExcStAMOAddrMisalign, kExcInstPageFault,
     kExcLoadPageFault, kExcStAMOPageFault
<1> QED BY <1>1, RaiseOutcome

----------------------------------------------------------------------------
\* Loads and stores.

\* A read leaves memory as it is, whether it is refused or not.
LEMMA ReadAccess ==
  ASSUME NEW w, GoodWork(w), w.bad = FALSE, NEW a \in Word,
         NEW rd \in Reg, NEW v \in Word, NEW kind
  PROVE  Accessed(w, SetReg(MmuAccess(w, a, kind), rd, v), {kind})
<1> DEFINE fault == PageFault(w.csr, w.mem, a, kind)
           x == [w EXCEPT !.vaddr = a, !.bad = fault]
           r == [x.regs EXCEPT ![rd] = v]
           y == [x EXCEPT !.regs = r]
<1>1. fault = PageFault(w.csr, w.mem, a, kind)
  OBVIOUS
<1>2. SetReg(MmuAccess(w, a, kind), rd, v) = y
  BY DEF MmuAccess, SetReg
<1> HIDE DEF fault
<1>3. /\ x.exc = w.exc /\ x.csr = w.csr /\ x.npc = w.npc /\ x.mem = w.mem
      /\ x.vaddr = a /\ x.bad = fault
      /\ \A z : y = [x EXCEPT !.regs = z] =>
           /\ y.exc = x.exc /\ y.csr = x.csr /\ y.npc = x.npc /\ y.mem = x.mem
           /\ y.vaddr = x.vaddr /\ y.bad = x.bad
  BY DEF GoodWork, Work
<1> HIDE DEF x, r
<1>4. /\ y.exc = w.exc /\ y.csr = w.csr /\ y.npc = w.npc /\ y.mem = w.mem
      /\ y.vaddr = a /\ y.bad = fault
  BY <1>3
<1> HIDE DEF y
<1> QED BY <1>1, <1>2, <1>4 DEF Accessed

\* Setting a register or the monitor is no access.
LEMMA AccessedSame ==
  ASSUME NEW w, NEW x, NEW y, NEW kinds, Accessed(w, x, kinds),
         y.exc = x.exc, y.csr = x.csr, y.npc = x.npc, y.mem = x.mem,
         y.bad = x.bad, y.vaddr = x.vaddr
  PROVE  Accessed(w, y, kinds)
BY DEF Accessed

\* The same access, seen from a record that differs in what it does not use.
LEMMA AccessedFrom ==
  ASSUME NEW w, NEW r, NEW y, NEW kinds, Accessed(r, y, kinds),
         r.exc = w.exc, r.csr = w.csr, r.npc = w.npc, r.mem = w.mem
  PROVE  Accessed(w, y, kinds)
BY DEF Accessed

\* A write after reads that left memory as it was.
LEMMA WriteAccess ==
  ASSUME NEW w, NEW r, GoodWork(r), NEW kinds, Accessed(w, r, kinds),
         r.mem = w.mem, NEW a \in Word, NEW n \in {1, 2, 4}, a % n = 0,
         NEW v \in Word
  PROVE  Accessed(w, Write(r, a, n, v), kinds \cup {"w"})
<1> DEFINE fault == PageFault(r.csr, r.mem, a, "w")
           x == [r EXCEPT !.vaddr = a, !.bad = fault]
           m == BusWrite(r.mem, GetPhysicalAddr(r.csr, r.mem, a), n, v)
           y == [x EXCEPT !.mem = m]
<1>1. fault = PageFault(w.csr, w.mem, a, "w")
      /\ m = BusWrite(w.mem, GetPhysicalAddr(w.csr, w.mem, a), n, v)
  BY DEF Accessed
<1>2. CASE r.bad
  <2>1. Write(r, a, n, v) = r
    BY <1>2 DEF Write, MmuAccess
  <2> QED BY <1>2, <2>1 DEF Accessed
<1>3. CASE ~r.bad
  <2>1. Write(r, a, n, v) = IF x.bad THEN x ELSE y
    BY <1>3 DEF Write, MmuAccess
  <2> HIDE DEF fault, m
  <2>2. /\ x.exc = r.exc /\ x.csr = r.csr /\ x.npc = r.npc /\ x.mem = r.mem
        /\ x.vaddr = a /\ x.bad = fault
    BY DEF GoodWork, Work
  <2>3. /\ y.exc = r.exc /\ y.csr = r.csr /\ y.npc = r.npc /\ y.mem = m
        /\ y.bad = fault
    BY DEF GoodWork, Work
  <2> HIDE DEF x, y
  <2>4. CASE fault
    BY <1>1, <2>1, <2>2, <2>4 DEF Accessed
  <2>5. CASE ~fault
    <3>1. Stored(w.csr, w.mem, m)
      BY <1>1, <2>5 DEF Stored
    <3>2. Write(r, a, n, v) = y
      BY <2>1, <2>2, <2>5
    <3> QED BY <2>3, <2>5, <3>1, <3>2 DEF Accessed
  <2>6. fault \in BOOLEAN
    BY DEF fault, PageFault, Refuses, Translated, CheckPTEProperty
  <2> QED BY <2>4, <2>5, <2>6
<1> QED BY <1>2, <1>3 DEF GoodWork, Work

\* CHECK_PAGE_FAULT turns a refused access into an exception at the address
\* that was refused.
LEMMA PageFaultOutcome ==
  ASSUME NEW op, NEW w, Fresh(w), NEW x, GoodWork(x), NEW kinds,
         NEW code \in {kExcLoadPageFault, kExcStAMOPageFault},
         kinds \subseteq {"r", "w"},
         code = kExcLoadPageFault => kinds \subseteq {"r"},
         (Raised(w, x) /\ x.bad = FALSE) \/ Accessed(w, x, kinds)
  PROVE  Outcome(op, w, CheckPageFault(x, code))
<1>1. CASE Raised(w, x) /\ x.bad = FALSE
  BY <1>1 DEF CheckPageFault, Outcome
<1>2. CASE Accessed(w, x, kinds) /\ ~x.bad
  <2>1. CheckPageFault(x, code) = x
    BY <1>2 DEF CheckPageFault
  <2> QED BY <1>2, <2>1 DEF Outcome, Ran, DidStore, Accessed, Fresh
<1>3. CASE Accessed(w, x, kinds) /\ x.bad
  <2> DEFINE y == RaiseException(x, code, x.vaddr)
  <2>1. code \in RaisedCode /\ x.vaddr \in Word /\ x.exc = kStateExcCodeReset
    BY <1>3 DEF RaisedCode, GoodWork, Work, Accessed, Fresh
  <2>2. /\ y.exc = code /\ y.npc = x.npc /\ y.mem = x.mem
        /\ y.csr = Faulted(x.csr, code, x.vaddr) /\ y.csr.mtval = x.vaddr
    BY <2>1, FirstRaised
  <2>3. CheckPageFault(x, code) = y
    BY <1>3 DEF CheckPageFault
  <2> HIDE DEF y
  <2>4. AtFault(w.csr, w.mem, w.pc, code, x.vaddr)
    BY <1>3 DEF Accessed, AtFault, AddrMisalign, kExcInstAddrMisalign,
       kExcLoadAddrMisalign, kExcStAMOAddrMisalign, kExcInstPageFault,
       kExcLoadPageFault, kExcStAMOPageFault
  <2>5. Raised(w, y)
    BY <1>3, <2>1, <2>2, <2>4 DEF Raised, Accessed
  <2> QED BY <2>3, <2>5 DEF Outcome
<1> QED BY <1>1, <1>2, <1>3 DEF GoodWork, Work

LEMMA LoadReservedEnds ==
  ASSUME NEW w, Fresh(w), NEW i, GoodInst(i), i.op = "lr", NEW x,
         x = LoadReserved(w, i)
  PROVE  (Raised(w, x) /\ x.bad = FALSE) \/ Accessed(w, x, {"r"})
<1> DEFINE a == w.regs[i.rs1]
           mark == SetFlag(a)
           r == [w EXCEPT !.mon = mark]
           v == Read(r, a, 4)
           y == SetReg(MmuAccess(r, a, "r"), i.rd, v)
<1>1. GoodWork(w) /\ a \in Word /\ i.rd \in Reg
  BY InstFields, RegType DEF CSRImmOp, Fresh
<1>2. mark \in Monitor
  BY <1>1 DEF SetFlag, Monitor
<1>3. x = IF i.rs2 # 0 THEN Illegal(w, i)
          ELSE IF a % 4 # 0 THEN RaiseException(w, kExcStAMOAddrMisalign, a)
          ELSE y
  BY DEF LoadReserved
<1> HIDE DEF mark, a
<1>4. GoodWork(r)
  BY <1>1, <1>2, MonSafe DEF Safe
<1>5. r.exc = w.exc /\ r.csr = w.csr /\ r.npc = w.npc /\ r.mem = w.mem /\ r.bad = w.bad
  BY <1>1 DEF GoodWork, Work
<1> HIDE DEF r
<1>6. v \in Word
  BY <1>1, <1>4, ReadType
<1> HIDE DEF v
<1>7. Accessed(r, y, {"r"})
  BY <1>1, <1>4, <1>5, <1>6, ReadAccess DEF Fresh
<1> HIDE DEF y
<1>8. Accessed(w, y, {"r"})
  BY <1>5, <1>7, AccessedFrom
<1> QED BY <1>1, <1>3, <1>8, IllegalOutcome, MisalignOutcome

LEMMA StoreConditionalEnds ==
  ASSUME NEW w, Fresh(w), NEW i, GoodInst(i), i.op = "sc", NEW x,
         x = StoreConditional(w, i)
  PROVE  (Raised(w, x) /\ x.bad = FALSE) \/ Accessed(w, x, {"w"})
<1> DEFINE a == w.regs[i.rs1]
           stored == Write(w, a, 4, w.regs[i.rs2])
           s0 == SetReg(stored, i.rd, 0)
           s1 == SetReg(w, i.rd, 1)
           r == IF CheckFlag(w.mon, a) THEN s0 ELSE s1
           y == [r EXCEPT !.mon = ClearFlag]
<1>1. GoodWork(w) /\ a \in Word /\ i.rd \in Reg /\ w.regs[i.rs2] \in Word
      /\ w.bad = FALSE
  BY InstFields, RegType DEF CSRImmOp, Fresh
<1>2. x = IF a % 4 # 0 THEN RaiseException(w, kExcStAMOAddrMisalign, a) ELSE y
  BY DEF StoreConditional
<1>3. CASE a % 4 # 0
  BY <1>1, <1>2, <1>3, MisalignOutcome
<1>4. CASE a % 4 = 0
  <2>1. Accessed(w, w, {})
    BY <1>1 DEF Accessed
  <2>2. Accessed(w, stored, {"w"}) /\ GoodWork(stored)
    <3>1. Accessed(w, stored, {} \cup {"w"})
      BY <1>1, <1>4, <2>1, WriteAccess
    <3>2. GoodWork(stored)
      BY <1>1, WriteSafe DEF Safe
    <3> HIDE DEF stored
    <3> QED BY <3>1, <3>2 DEF Accessed
  <2>3. Accessed(w, w, {"w"})
    BY <2>1 DEF Accessed
  <2> HIDE DEF stored
  <2>4. ASSUME NEW z, NEW v, GoodWork(z), Accessed(w, z, {"w"})
        PROVE  /\ Accessed(w, SetReg(z, i.rd, v), {"w"})
    <3> DEFINE f == [z.regs EXCEPT ![i.rd] = v]
               u == [z EXCEPT !.regs = f]
    <3>1. SetReg(z, i.rd, v) = u
      BY DEF SetReg
    <3> HIDE DEF f
    <3>2. /\ u.exc = z.exc /\ u.csr = z.csr /\ u.npc = z.npc /\ u.mem = z.mem
          /\ u.bad = z.bad /\ u.vaddr = z.vaddr
      BY <2>4 DEF GoodWork, Work
    <3> HIDE DEF u
    <3>3. Accessed(w, u, {"w"})
      BY <2>4, <3>2, AccessedSame
    <3> QED BY <3>1, <3>3
  <2>5. Accessed(w, s0, {"w"}) /\ Accessed(w, s1, {"w"})
    BY <1>1, <2>2, <2>3, <2>4
  <2>6. GoodWork(s0) /\ GoodWork(s1)
    <3>1. 0 \in Word /\ 1 \in Word
      BY SmallWords
    <3> QED BY <1>1, <2>2, <3>1, SetRegSafe DEF Safe
  <2> HIDE DEF s0, s1
  <2>7. Accessed(w, r, {"w"}) /\ GoodWork(r)
    BY <2>5, <2>6
  <2> HIDE DEF r
  <2>8. /\ y.exc = r.exc /\ y.csr = r.csr /\ y.npc = r.npc /\ y.mem = r.mem
        /\ y.bad = r.bad /\ y.vaddr = r.vaddr
    BY <2>7 DEF GoodWork, Work
  <2> HIDE DEF y
  <2>9. Accessed(w, y, {"w"})
    BY <2>7, <2>8, AccessedSame
  <2> QED BY <1>2, <1>4, <2>9
<1> QED BY <1>1, <1>3, <1>4

LEMMA ReadModifyWriteEnds ==
  ASSUME NEW w, Fresh(w), NEW i, GoodInst(i), i.op \in AMOOp, NEW x,
         x = ReadModifyWrite(w, i)
  PROVE  (Raised(w, x) /\ x.bad = FALSE) \/ Accessed(w, x, {"r", "w"})
<1> DEFINE a == w.regs[i.rs1]
           data == Read(w, a, 4)
           r == SetReg(MmuAccess(w, a, "r"), i.rd, data)
           new == AMOResult(i.op, data, w.regs[i.rs2])
           y == Write(r, a, 4, new)
<1>1. GoodWork(w) /\ a \in Word /\ i.rd \in Reg /\ w.regs[i.rs2] \in Word
      /\ w.bad = FALSE
  BY InstFields, RegType DEF CSRImmOp, AMOOp, Fresh
<1>2. data \in Word
  BY <1>1, ReadType
<1>3. new \in Word
  BY <1>1, <1>2, AMOResultType
<1>4. x = IF a % 4 # 0 THEN RaiseException(w, kExcStAMOAddrMisalign, a) ELSE y
  BY DEF ReadModifyWrite
<1> HIDE DEF a, data, new
<1>5. GoodWork(r)
  BY <1>1, <1>2, ReadIntoSafe DEF Safe
<1>6. Accessed(w, r, {"r"}) /\ r.mem = w.mem
  <2>1. Accessed(w, r, {"r"})
    BY <1>1, <1>2, ReadAccess
  <2>2. r.mem = w.mem
    <3>1. /\ GoodWork(MmuAccess(w, a, "r"))
          /\ MmuAccess(w, a, "r").mem = w.mem
      BY <1>1, MmuAccessGood DEF Safe
    <3> QED BY <1>1, <1>2, <3>1, SetRegSafe
  <2> QED BY <2>1, <2>2
<1> HIDE DEF r
<1>7. CASE a % 4 # 0
  BY <1>1, <1>4, <1>7, MisalignOutcome
<1>8. CASE a % 4 = 0
  <2>1. Accessed(w, y, {"r"} \cup {"w"})
    BY <1>1, <1>3, <1>5, <1>6, <1>8, WriteAccess
  <2> HIDE DEF y
  <2> QED BY <1>4, <1>8, <2>1 DEF Accessed
<1> QED BY <1>1, <1>7, <1>8

LEMMA WidthFacts ==
  ASSUME NEW op \in LoadOp \cup StoreOp, NEW a \in Word
  PROVE  /\ Width(op) \in {1, 2, 4}
         /\ a % Width(op) # 0 => a % 4 # 0
<1>1. a \in Nat
  BY WordAssumption DEF Word
<1>2. Width(op) \in {1, 2, 4}
  BY DEF Width, LoadOp, StoreOp
<1> QED BY <1>1, <1>2

LEMMA LoadEnds ==
  ASSUME NEW w, Fresh(w), NEW i, GoodInst(i), i.op \in LoadOp, NEW x,
         x = Load(w, i)
  PROVE  (Raised(w, x) /\ x.bad = FALSE) \/ Accessed(w, x, {"r"})
<1> DEFINE a == Add(w.regs[i.rs1], i.imm)
           n == Width(i.op)
           v == Extend(i.op, Read(w, a, n))
           y == SetReg(MmuAccess(w, a, "r"), i.rd, v)
<1>1. GoodWork(w) /\ a \in Word /\ i.rd \in Reg /\ w.bad = FALSE
  BY InstFields, RegType, AddType DEF CSRImmOp, LoadOp, Fresh
<1>2. v \in Word
  BY <1>1, ReadType, ExtendType
<1>3. x = IF a % n # 0 THEN RaiseException(w, kExcLoadAddrMisalign, a) ELSE y
  BY DEF Load
<1>4. a % n # 0 => a % 4 # 0
  BY <1>1, WidthFacts
<1> HIDE DEF a, v, n
<1>5. Accessed(w, y, {"r"})
  BY <1>1, <1>2, ReadAccess
<1> HIDE DEF y
<1> QED BY <1>1, <1>3, <1>4, <1>5, MisalignOutcome

LEMMA StoreEnds ==
  ASSUME NEW w, Fresh(w), NEW i, GoodInst(i), i.op \in StoreOp, NEW x,
         x = Store(w, i)
  PROVE  (Raised(w, x) /\ x.bad = FALSE) \/ Accessed(w, x, {"w"})
<1> DEFINE a == Add(w.regs[i.rs1], i.imm)
           n == Width(i.op)
           v == w.regs[i.rs2]
           y == Write(w, a, n, v)
<1>1. GoodWork(w) /\ a \in Word /\ v \in Word /\ w.bad = FALSE
  BY InstFields, RegType, AddType DEF CSRImmOp, StoreOp, Fresh
<1>2. x = IF a % n # 0 THEN RaiseException(w, kExcStAMOAddrMisalign, a) ELSE y
  BY DEF Store
<1>3. n \in {1, 2, 4} /\ (a % n # 0 => a % 4 # 0)
  BY <1>1, WidthFacts
<1> HIDE DEF a, v, n
<1>4. CASE a % n # 0
  BY <1>1, <1>2, <1>3, <1>4, MisalignOutcome
<1>5. CASE a % n = 0
  <2>1. Accessed(w, w, {})
    BY <1>1 DEF Accessed
  <2>2. Accessed(w, y, {} \cup {"w"})
    BY <1>1, <1>3, <1>5, <2>1, WriteAccess
  <2> HIDE DEF y
  <2> QED BY <1>2, <1>5, <2>2 DEF Accessed
<1> QED BY <1>4, <1>5

----------------------------------------------------------------------------
\* The units that do not touch memory.

LEMMA RanSame ==
  ASSUME NEW w, Fresh(w), NEW x, x.exc = w.exc, x.csr = w.csr, x.mem = w.mem
  PROVE  Ran(w, x)
BY DEF Ran, Fresh

LEMMA ComputeEnds ==
  ASSUME NEW w, Fresh(w), NEW i PROVE Ran(w, Compute(w, i))
<1> DEFINE x == w.regs[i.rs1]
           v == IF i.op = "lui" THEN i.imm
                ELSE IF i.op = "auipc" THEN Add(w.pc, i.imm)
                ELSE IF i.op \in ImmOp THEN PerformIntOp(ImmBase[i.op], x, i.imm)
                ELSE PerformIntOp(i.op, x, w.regs[i.rs2])
           r == [w.regs EXCEPT ![i.rd] = v]
           y == [w EXCEPT !.regs = r]
<1>1. Compute(w, i) = y
  BY DEF Compute, SetReg
<1> HIDE DEF r
<1>2. y.exc = w.exc /\ y.csr = w.csr /\ y.mem = w.mem
  BY DEF Fresh, GoodWork, Work
<1> HIDE DEF y
<1> QED BY <1>1, <1>2, RanSame

LEMMA BranchEnds ==
  ASSUME NEW w, Fresh(w), NEW i PROVE Ran(w, Branch(w, i))
<1> DEFINE to == Add(w.pc, i.imm)
           y == [w EXCEPT !.npc = to]
<1>1. Branch(w, i) \in {y, w}
  BY DEF Branch
<1> HIDE DEF to
<1>2. y.exc = w.exc /\ y.csr = w.csr /\ y.mem = w.mem
  BY DEF Fresh, GoodWork, Work
<1> HIDE DEF y
<1> QED BY <1>1, <1>2, RanSame

LEMMA JumpEnds ==
  ASSUME NEW w, Fresh(w), NEW i PROVE Ran(w, Jump(w, i))
<1> DEFINE sum == Add(w.regs[i.rs1], i.imm)
           to == IF i.op = "jal" THEN Add(w.pc, i.imm) ELSE sum - (sum % 2)
           r == [w.regs EXCEPT ![i.rd] = Add(w.pc, 4)]
           y == [w EXCEPT !.regs = r]
           z == [y EXCEPT !.npc = to]
<1>1. Jump(w, i) = z
  BY DEF Jump, SetReg
<1> HIDE DEF to, r
<1>2. z.exc = w.exc /\ z.csr = w.csr /\ z.mem = w.mem
  BY DEF Fresh, GoodWork, Work
<1> HIDE DEF z
<1> QED BY <1>1, <1>2, RanSame

LEMMA ReturnEnds ==
  ASSUME NEW w, Fresh(w), NEW i, GoodInst(i),
         NEW mode \in {kPrivLevelS, kPrivLevelM}
  PROVE  \/ Raised(w, ReturnFromTrap(w, i, mode))
         \/ mode = kPrivLevelM /\ MReturned(w, ReturnFromTrap(w, i, mode))
         \/ mode = kPrivLevelS /\ SReturned(w, ReturnFromTrap(w, i, mode))
<1> DEFINE c == w.csr
           cM == [WriteMStatus(c, MretStatus(c.mstatus)) EXCEPT
                    !.priv = Mpp(c.mstatus)]
           cS == [WriteSStatus(c, SretStatus(c.sstatus)) EXCEPT
                    !.priv = IF kSPP \in c.sstatus
                             THEN kPrivLevelS ELSE kPrivLevelU]
           yM == [w EXCEPT !.npc = c.mepc, !.csr = cM, !.mon = ClearFlag]
           yS == [w EXCEPT !.npc = c.sepc, !.csr = cS, !.mon = ClearFlag]
           x == ReturnFromTrap(w, i, mode)
<1>1. x = IF c.priv < mode THEN Illegal(w, i)
          ELSE IF mode = kPrivLevelM THEN yM ELSE yS
  BY DEF ReturnFromTrap, ReturnFromM, ReturnFromS
<1>2. cM = [WriteMStatus(c, MretStatus(c.mstatus)) EXCEPT !.priv = Mpp(c.mstatus)]
      /\ cS = [WriteSStatus(c, SretStatus(c.sstatus)) EXCEPT
                 !.priv = IF kSPP \in c.sstatus
                          THEN kPrivLevelS ELSE kPrivLevelU]
      /\ c = w.csr
  OBVIOUS
<1> HIDE DEF cM, cS, c, x
<1>3. /\ yM.exc = w.exc /\ yM.csr = cM /\ yM.mem = w.mem
      /\ yS.exc = w.exc /\ yS.csr = cS /\ yS.mem = w.mem
      /\ w.exc = kStateExcCodeReset
  BY DEF Fresh, GoodWork, Work
<1> HIDE DEF yM, yS
<1>4. c.priv \in Priv
  BY <1>2 DEF Fresh, GoodWork, GoodCSR, Registers
<1>5. CASE c.priv < mode
  BY <1>1, <1>5, IllegalOutcome DEF x
<1>6. CASE ~(c.priv < mode) /\ mode = kPrivLevelM
  <2>1. c.priv = kPrivLevelM
    BY <1>4, <1>6 DEF Priv, kPrivLevelU, kPrivLevelS, kPrivLevelM
  <2>2. MReturned(w, x)
    BY <1>1, <1>2, <1>3, <1>6, <2>1 DEF MReturned
  <2> QED BY <1>6, <2>2 DEF x
<1>7. CASE ~(c.priv < mode) /\ mode = kPrivLevelS
  <2>1. c.priv >= kPrivLevelS /\ mode # kPrivLevelM
    BY <1>4, <1>7 DEF Priv, kPrivLevelU, kPrivLevelS, kPrivLevelM
  <2>2. SReturned(w, x)
    BY <1>1, <1>2, <1>3, <1>7, <2>1 DEF SReturned
  <2> QED BY <1>7, <2>2 DEF x
<1> QED BY <1>5, <1>6, <1>7

LEMMA PrivilegedEnds ==
  ASSUME NEW w, Fresh(w), NEW i, GoodInst(i), i.op \in PrivOp
  PROVE  Outcome(i.op, w, Privileged(w, i))
<1> DEFINE e1 == RaiseException(w, EnvCall(w.csr.priv), 0)
           e2 == RaiseException(w, kExcBreakpoint, 0)
           e3 == ReturnFromTrap(w, i, kPrivLevelS)
           e4 == ReturnFromTrap(w, i, kPrivLevelM)
           x == Privileged(w, i)
<1>1. Raised(w, e1) /\ Raised(w, e2)
  <2>1. EnvCall(w.csr.priv) \in {kExcUEnvCall, kExcSEnvCall, kExcMEnvCall}
    BY DEF Fresh, GoodWork, GoodCSR, Registers, EnvCall, Priv
  <2>2. 0 \in Word
    BY SmallWords
  <2> QED BY <2>1, <2>2, PlainFault, RaiseOutcome
<1>2. /\ Raised(w, e3) \/ SReturned(w, e3)
      /\ Raised(w, e4) \/ MReturned(w, e4)
  BY ReturnEnds DEF kPrivLevelS, kPrivLevelM
<1>3. CASE i.rs1 # 0 \/ i.rd # 0
  BY <1>3, IllegalOutcome DEF Privileged, Outcome
<1>4. CASE ~(i.rs1 # 0 \/ i.rd # 0)
  <2>1. x = CASE i.op = "ecall" -> e1 [] i.op = "ebreak" -> e2
              [] i.op = "sret" -> e3 [] i.op = "mret" -> e4 [] i.op = "wfi" -> w
    BY <1>4, Zenon DEF Privileged
  <2> HIDE DEF e1, e2, e3, e4, x
  <2>2. \/ x \in {e1, e2}
        \/ i.op = "sret" /\ x = e3
        \/ i.op = "mret" /\ x = e4
        \/ x = w
    BY <2>1 DEF PrivOp
  <2>3. Ran(w, w)
    BY DEF Ran, Fresh
  <2>4. Outcome(i.op, w, x)
    BY <1>1, <1>2, <2>2, <2>3 DEF Outcome
  <2> QED BY <2>4 DEF x
<1> QED BY <1>3, <1>4

LEMMA AccessCSREnds ==
  ASSUME NEW w, Fresh(w), NEW i, GoodInst(i), i.op \in CSROp
  PROVE  Outcome(i.op, w, AccessCSR(w, i))
<1> DEFINE swap == i.op \in {"csrrw", "csrrwi"}
           src  == IF i.op \in CSRImmOp THEN i.rs1 ELSE w.regs[i.rs1]
           old  == ReadData(w.csr, i.csr)
           set  == WordOf(BitsOf(old) \cup BitsOf(src))
           clear == WordOf(BitsOf(old) \ BitsOf(src))
           new  == IF swap THEN src
                   ELSE IF i.op \in {"csrrs", "csrrsi"} THEN set ELSE clear
           writes == swap \/ i.rs1 # 0
           r == IF swap /\ i.rd = 0 THEN w ELSE SetReg(w, i.rd, old)
           c == IF writes THEN WriteData(w.csr, i.csr, new) ELSE w.csr
           x == AccessCSR(w, i)
           y == [r EXCEPT !.csr = c]
<1>1. i.rd \in Reg /\ i.csr \in Nat /\ GoodCSR(w.csr) /\ GoodWork(w)
  BY InstFields DEF GoodWork, Fresh
<1>2. src \in Word
  BY <1>1, InstFields, RegType
<1>3. old \in Word
  BY <1>1, ReadDataType
<1>4. set \in Word /\ clear \in Word
  BY <1>2, <1>3, BitsOfType, WordOfType
<1>5. new \in Word
  BY <1>2, <1>4
<1>6. x = IF ~Readable(w.csr, i.csr) \/ (writes /\ ~Writable(w.csr, i.csr))
          THEN Illegal(w, i) ELSE y
  BY DEF AccessCSR
<1>7. r \in Work /\ r.exc = w.exc /\ r.npc = w.npc /\ r.mem = w.mem
  <2> DEFINE f == [w.regs EXCEPT ![i.rd] = old]
             u == [w EXCEPT !.regs = f]
  <2>1. r \in {w, u}
    BY DEF SetReg
  <2> HIDE DEF r
  <2>2. f \in [Reg -> Word]
    BY <1>1, <1>3 DEF GoodWork, Work
  <2> HIDE DEF f
  <2>3. u \in Work /\ u.exc = w.exc /\ u.npc = w.npc /\ u.mem = w.mem
    BY <1>1, <2>2 DEF GoodWork, Work
  <2> HIDE DEF u
  <2> QED BY <1>1, <2>1, <2>3 DEF GoodWork
<1>8. \/ c = w.csr
      \/ writes /\ c = WriteData(w.csr, i.csr, new)
  OBVIOUS
<1> HIDE DEF r, c, new, writes, x
<1>9. y.exc = w.exc /\ y.npc = w.npc /\ y.mem = w.mem /\ y.csr = c
  BY <1>7 DEF Work
<1> HIDE DEF y
<1>10. CASE x = Illegal(w, i)
  BY <1>10, IllegalOutcome DEF Outcome, x
<1>11. CASE x = y /\ c = w.csr
  BY <1>9, <1>11, RanSame DEF Outcome, x
<1>12. CASE x = y /\ Writable(w.csr, i.csr) /\ c = WriteData(w.csr, i.csr, new)
  <2>1. WroteCSR(w, x)
    BY <1>1, <1>5, <1>9, <1>12 DEF WroteCSR, Fresh
  <2> QED BY <2>1 DEF Outcome, x
<1> QED BY <1>6, <1>8, <1>10, <1>11, <1>12

----------------------------------------------------------------------------
\* The end of the cycle.

\* The fields of the control registers that the checks at the end of a cycle
\* leave alone.
SameState(c, d) ==
  /\ d.priv = c.priv /\ d.mstatus = c.mstatus /\ d.sstatus = c.sstatus
  /\ d.satp = c.satp /\ d.mie = c.mie /\ d.mtvec = c.mtvec
  /\ d.mscratch = c.mscratch /\ d.mepc = c.mepc
  /\ d.sscratch = c.sscratch /\ d.sepc = c.sepc

\* Those that a trap leaves alone.
SameOverTrap(c, d) ==
  /\ d.sstatus = c.sstatus /\ d.satp = c.satp /\ d.mie = c.mie
  /\ d.mtvec = c.mtvec /\ d.mscratch = c.mscratch
  /\ d.sscratch = c.sscratch /\ d.sepc = c.sepc

\* Where a trap has saved the mode and the interrupt enable of c.
SavedStatus(c, d) ==
  /\ kMIE \notin d.mstatus
  /\ Mpp(d.mstatus) = c.priv
  /\ kMPIE \in d.mstatus <=> kMIE \in c.mstatus

LEMMA NextPcKeeps ==
  ASSUME NEW w, GoodWork(w), NEW x, x = CheckNextPc(w)
  PROVE  /\ x.mem = w.mem /\ SameState(w.csr, x.csr) /\ GoodWork(x)
         /\ w.npc % 4 = 0 => x = w
         /\ w.npc % 4 # 0 /\ w.exc = kStateExcCodeReset =>
              /\ x.exc = kExcInstAddrMisalign
              /\ x.csr.mcause = kExcInstAddrMisalign /\ x.csr.mtval = w.npc
<1> DEFINE code == kExcInstAddrMisalign
           c == [w.csr EXCEPT !.mcause = code, !.mtval = w.npc]
           r == [w EXCEPT !.exc = code, !.csr = c]
<1>1. SameState(w.csr, c) /\ SameState(w.csr, w.csr)
      /\ c.mcause = code /\ c.mtval = w.npc
  BY DEF SameState, GoodWork, GoodCSR, Registers
<1>2. x \in {w, r} /\ (w.npc % 4 = 0 => x = w)
  BY DEF CheckNextPc, RaiseException
<1>3. code \in RaisedCode
  BY DEF RaisedCode
<1>4. w.npc % 4 # 0 /\ w.exc = kStateExcCodeReset => x = r
  BY <1>3, RaisedCodes, ResetPriority DEF CheckNextPc, RaiseException
<1>5. GoodWork(x)
  BY CheckNextPcSafe DEF Safe
<1> HIDE DEF c, code
<1>6. r.mem = w.mem /\ r.csr = c /\ r.exc = code
  BY DEF GoodWork, Work
<1> HIDE DEF r
<1> QED BY <1>1, <1>2, <1>4, <1>5, <1>6 DEF code

LEMMA InterruptKeeps ==
  ASSUME NEW w, GoodWork(w), NEW lines \in Lines, NEW x,
         x = CheckInterrupt(w, lines)
  PROVE  /\ x.mem = w.mem /\ SameState(w.csr, x.csr)
         /\ ~IsIntr(x.exc) =>
              /\ x.exc = w.exc /\ x.csr = [w.csr EXCEPT !.mip = x.csr.mip]
<1> DEFINE mip   == lines \cup IF BusRead(w.mem, MSIP, 4) # 0 THEN {kMSI} ELSE {}
           taken == mip \cap latch.mie
           cause == IF kMEI \in taken THEN kMEI
                    ELSE IF kMTI \in taken THEN kMTI ELSE kMSI
           c     == [w.csr EXCEPT !.mip = mip]
           v     == [w EXCEPT !.csr = c]
           code  == kIntrBit + cause
           d     == [c EXCEPT !.mcause = code, !.mtval = 0]
           r     == [v EXCEPT !.exc = code, !.csr = d]
<1>1. cause \in {3, 7, 11}
  BY DEF kMSI, kMTI, kMEI
<1>2. IsIntr(code)
  <2> HIDE DEF cause
  <2>1. cause \in Nat /\ cause <= 11
    BY <1>1
  <2> QED BY <2>1, IntrBitFacts DEF kStateExcCodeReset, IsIntr
<1>3. v.csr = c
  BY DEF GoodWork, Work
<1>4. x = v \/ x = RaiseException(v, code, 0)
  BY DEF CheckInterrupt
<1> HIDE DEF cause, code, mip, taken
<1>5. x \in {v, r}
  <2> HIDE DEF v, c
  <2> QED BY <1>3, <1>4 DEF RaiseException
<1>6. SameState(w.csr, c) /\ SameState(w.csr, d) /\ c.mip = mip
  <2>1. SameState(w.csr, c) /\ c.mip = mip
    BY DEF SameState, GoodWork, GoodCSR, Registers
  <2>2. SameState(c, d)
    BY DEF SameState, GoodWork, GoodCSR, Registers
  <2> HIDE DEF c, d
  <2> QED BY <2>1, <2>2 DEF SameState
<1>7. c = [w.csr EXCEPT !.mip = c.mip]
  <2> HIDE DEF c
  <2>1. c = [w.csr EXCEPT !.mip = mip]
    BY DEF c
  <2> QED BY <1>6, <2>1
<1> HIDE DEF c, d
<1>8. v.mem = w.mem /\ v.csr = c /\ v.exc = w.exc
      /\ r.mem = w.mem /\ r.csr = d /\ r.exc = code
  BY DEF GoodWork, Work
<1> HIDE DEF v, r
<1> QED BY <1>2, <1>5, <1>6, <1>7, <1>8

\* The status a trap writes, once it has gone through the mask of mstatus.
LEMMA TrapStatusFacts ==
  ASSUME NEW s \in MStatusValues, NEW priv \in Priv, NEW new,
         new = LegalMpp(TrapStatus(s, priv)) \cap kMaskMStatus
  PROVE  /\ kMIE \notin new /\ Mpp(new) = priv
         /\ kMPIE \in new <=> kMIE \in s
         /\ new \cap kMaskSStatus = s \cap kMaskSStatus
<1>1. /\ 11 \in TrapStatus(s, priv) <=> priv % 2 = 1
      /\ 12 \in TrapStatus(s, priv) <=> priv >= 2
      /\ 3 \notin TrapStatus(s, priv)
      /\ 7 \in TrapStatus(s, priv) <=> 3 \in s
      /\ 8 \in TrapStatus(s, priv) <=> 8 \in s
  BY DEF TrapStatus, MppBits, kMIE, kMPIE, kMPPLo, kMPPHi, Priv, kPrivLevelU,
     kPrivLevelS, kPrivLevelM
<1>2. LegalMpp(TrapStatus(s, priv)) = TrapStatus(s, priv)
  BY <1>1 DEF LegalMpp, kMPPLo, kMPPHi, Priv, kPrivLevelU, kPrivLevelS,
     kPrivLevelM
<1>3. \A b \in kMaskMStatus : b \in new <=> b \in TrapStatus(s, priv)
  BY <1>2
<1>4. Mpp(new) = priv
  <2>1. (11 \in new <=> priv % 2 = 1) /\ (12 \in new <=> priv >= 2)
    BY <1>1, <1>3 DEF kMaskMStatus, kMPPLo, kMPPHi
  <2> QED BY <2>1 DEF Mpp, kMPPLo, kMPPHi, Priv, kPrivLevelU, kPrivLevelS,
             kPrivLevelM
<1> QED BY <1>1, <1>3, <1>4
        DEF kMaskMStatus, kMaskSStatus, kMIE, kMPIE, kSPP, kMPPLo, kMPPHi

LEMMA TrapKeeps ==
  ASSUME NEW w, GoodChecked(w), NEW x, x = TakeTrap(w)
  PROVE  /\ x.mem = w.mem
         /\ SameOverTrap(w.csr, x.csr) /\ SavedStatus(w.csr, x.csr)
         /\ x.csr.mcause = w.csr.mcause /\ x.csr.mtval = w.csr.mtval
<1> DEFINE b == w.csr
           from == w.pc - (w.pc % 4)
           c == [b EXCEPT !.mepc = from, !.priv = kPrivLevelM]
           new == LegalMpp(TrapStatus(c.mstatus, b.priv)) \cap kMaskMStatus
           view == ((c.sstatus \ kMaskMStatus) \cup new) \cap kMaskSStatus
           d == [c EXCEPT !.mstatus = new, !.sstatus = view]
           y == [w EXCEPT !.exc = kStateExcCodeReset, !.npc = trap_vec(c),
                          !.csr = d, !.mon = ClearFlag]
<1>1. x = y
  BY DEF TakeTrap, WriteMStatus
<1>2. GoodCSR(b) /\ b = w.csr
  BY DEF GoodChecked
<1> HIDE DEF b, from
<1>3. c.mstatus = b.mstatus /\ c.sstatus = b.sstatus
  BY <1>2 DEF GoodCSR, Registers
<1>4. /\ c.satp = b.satp /\ c.mie = b.mie /\ c.mtvec = b.mtvec
      /\ c.mscratch = b.mscratch /\ c.sscratch = b.sscratch
      /\ c.sepc = b.sepc /\ c.mcause = b.mcause /\ c.mtval = b.mtval
  BY <1>2 DEF GoodCSR, Registers
<1>5. /\ d.satp = c.satp /\ d.mie = c.mie /\ d.mtvec = c.mtvec
      /\ d.mscratch = c.mscratch /\ d.sscratch = c.sscratch
      /\ d.sepc = c.sepc /\ d.mcause = c.mcause /\ d.mtval = c.mtval
      /\ d.mstatus = new /\ d.sstatus = view
  <2> HIDE DEF new, view
  <2> QED BY <1>2 DEF GoodCSR, Registers
<1>6. /\ b.mstatus \in MStatusValues /\ b.priv \in Priv
      /\ b.sstatus = b.mstatus \cap kMaskSStatus
  BY <1>2 DEF GoodCSR, Registers
<1> HIDE DEF c
<1>7. /\ kMIE \notin new /\ Mpp(new) = b.priv
      /\ kMPIE \in new <=> kMIE \in b.mstatus
      /\ new \cap kMaskSStatus = b.mstatus \cap kMaskSStatus
  BY <1>3, <1>6, TrapStatusFacts
<1>8. view = b.sstatus
  BY <1>3, <1>6, <1>7 DEF kMaskSStatus, kMaskMStatus
<1> HIDE DEF new, view, d
<1>9. y.mem = w.mem /\ y.csr = d
  BY DEF GoodChecked, Checked
<1> HIDE DEF y
<1> QED BY <1>1, <1>2, <1>4, <1>5, <1>7, <1>8, <1>9 DEF SameOverTrap, SavedStatus

\* What WriteBack keeps of the record of an instruction, whether there is a
\* trap or not.
LEMMA WriteBackKeeps ==
  ASSUME CoreInv, NEW x, GoodWork(x), NEW op, NEW lines \in Lines,
         WriteBack(op, x, lines)
  PROVE  /\ event'.op = op /\ mem' = x.mem
         /\ event'.trap = "none" =>
              /\ x.exc = kStateExcCodeReset
              /\ csr' = [x.csr EXCEPT !.mip = csr'.mip]
         /\ event'.trap # "none" =>
              SameOverTrap(x.csr, csr') /\ SavedStatus(x.csr, csr')
         /\ event'.trap = "sync" =>
              /\ regs' = regs
              /\ x.npc % 4 = 0 =>
                   /\ x.exc # kStateExcCodeReset
                   /\ csr'.mcause = x.csr.mcause /\ csr'.mtval = x.csr.mtval
              /\ x.npc % 4 # 0 /\ x.exc = kStateExcCodeReset =>
                   /\ csr'.mcause = kExcInstAddrMisalign
                   /\ csr'.mtval = x.npc
<1> DEFINE n == CheckNextPc(x)
           z == CheckInterrupt(n, lines)
           t == TakeTrap(z)
<1>1. /\ z.exc = kStateExcCodeReset => csr' = z.csr /\ mem' = z.mem
      /\ z.exc # kStateExcCodeReset =>
           csr' = t.csr /\ mem' = t.mem /\ regs' = [regs EXCEPT ![0] = 0]
      /\ event' = [op |-> op, trap |-> TrapKind(z)]
  <2>1. Commit(op, z)
    BY DEF WriteBack
  <2> QED BY <2>1 DEF Commit
<1>2. /\ n.mem = x.mem /\ SameState(x.csr, n.csr) /\ GoodWork(n)
      /\ x.npc % 4 = 0 => n = x
      /\ x.npc % 4 # 0 /\ x.exc = kStateExcCodeReset =>
           /\ n.exc = kExcInstAddrMisalign
           /\ n.csr.mcause = kExcInstAddrMisalign /\ n.csr.mtval = x.npc
  BY NextPcKeeps
<1>3. x.npc % 4 # 0 => n.exc # kStateExcCodeReset
  BY CheckNextPcSafe
<1> HIDE DEF n
<1>4. /\ z.mem = n.mem /\ SameState(n.csr, z.csr)
      /\ ~IsIntr(z.exc) =>
           /\ z.exc = n.exc /\ z.csr = [n.csr EXCEPT !.mip = z.csr.mip]
  BY <1>2, InterruptKeeps
<1>5. GoodChecked(z)
  BY <1>2, CheckInterruptGood
<1> HIDE DEF z
<1>6. /\ t.mem = z.mem
      /\ SameOverTrap(z.csr, t.csr) /\ SavedStatus(z.csr, t.csr)
      /\ t.csr.mcause = z.csr.mcause /\ t.csr.mtval = z.csr.mtval
  BY <1>5, TrapKeeps
<1> HIDE DEF t
<1>7. /\ TrapKind(z) = "none" <=> z.exc = kStateExcCodeReset
      /\ TrapKind(z) = "sync" => ~IsIntr(z.exc) /\ z.exc # kStateExcCodeReset
      /\ z.exc = kStateExcCodeReset => ~IsIntr(z.exc)
  BY DEF TrapKind, IsIntr
<1>8. event'.op = op /\ event'.trap = TrapKind(z)
  BY <1>1
<1>9. mem' = x.mem
  BY <1>1, <1>2, <1>4, <1>6
<1>10. CASE event'.trap = "none"
  <2>1. z.exc = kStateExcCodeReset /\ n.exc = kStateExcCodeReset
    BY <1>4, <1>7, <1>8, <1>10
  <2>2. n = x
    BY <1>2, <1>3, <2>1
  <2>3. csr' = [x.csr EXCEPT !.mip = csr'.mip]
    BY <1>1, <1>4, <1>7, <2>1, <2>2
  <2> QED BY <1>8, <1>9, <1>10, <2>1, <2>2, <2>3
<1>11. CASE event'.trap # "none"
  <2>1. csr' = t.csr /\ regs' = [regs EXCEPT ![0] = 0]
    BY <1>1, <1>7, <1>8, <1>11
  <2>2. SameOverTrap(x.csr, csr') /\ SavedStatus(x.csr, csr')
    BY <1>2, <1>4, <1>6, <2>1 DEF SameState, SameOverTrap, SavedStatus
  <2>3. regs' = regs
    BY <2>1 DEF CoreInv, TypeOK, ZeroReg
  <2>4. ASSUME event'.trap = "sync"
        PROVE  /\ n.exc # kStateExcCodeReset
               /\ csr'.mcause = n.csr.mcause /\ csr'.mtval = n.csr.mtval
    <3>1. z.exc = n.exc /\ z.csr = [n.csr EXCEPT !.mip = z.csr.mip]
          /\ z.exc # kStateExcCodeReset
      BY <1>4, <1>7, <1>8, <2>4
    <3> DEFINE mip == z.csr.mip
    <3>2. z.csr = [n.csr EXCEPT !.mip = mip]
      BY <3>1
    <3> HIDE DEF mip
    <3>3. z.csr.mcause = n.csr.mcause /\ z.csr.mtval = n.csr.mtval
      BY <1>2, <3>2 DEF GoodWork, GoodCSR, Registers
    <3> QED BY <1>6, <2>1, <3>1, <3>3
  <2> QED BY <1>2, <1>8, <1>9, <1>11, <2>2, <2>3, <2>4
<1> QED BY <1>10, <1>11

----------------------------------------------------------------------------
\* What a cycle over the memory m may do, for the instruction at `at`.

\* Code below a level does not change the registers of that level.
Guarded(c, d) ==
  /\ c.priv < kPrivLevelM =>
       /\ d.mstatus \ kMaskSStatus = c.mstatus \ kMaskSStatus
       /\ d.mie = c.mie /\ d.mtvec = c.mtvec
       /\ d.mscratch = c.mscratch /\ d.mepc = c.mepc
       /\ d.mcause = c.mcause /\ d.mtval = c.mtval
  /\ c.priv < kPrivLevelS =>
       /\ d.sstatus = c.sstatus /\ d.satp = c.satp
       /\ d.sscratch = c.sscratch /\ d.sepc = c.sepc

SavesStatus ==
  event'.trap # "none" =>
    /\ kMIE \notin csr'.mstatus
    /\ event'.op \notin {"mret", "sret"} => Mpp(csr'.mstatus) = csr.priv
    /\ event'.op \notin CSROp \cup {"mret", "sret"} =>
         (kMPIE \in csr'.mstatus <=> kMIE \in csr.mstatus)

IsPrecise(m) ==
  event'.trap = "sync" =>
    /\ mem' = m /\ regs' = regs
    /\ csr'.satp = csr.satp /\ csr'.mie = csr.mie /\ csr'.mtvec = csr.mtvec
    /\ csr'.mscratch = csr.mscratch /\ csr'.sscratch = csr.sscratch
    /\ csr'.sepc = csr.sepc
    /\ event'.op # "sret" => csr'.sstatus = csr.sstatus

StepContract(m, at) ==
  /\ SavesStatus
  /\ IsPrecise(m)
  /\ event'.trap = "sync" => AtFault(csr, m, at, csr'.mcause, csr'.mtval)
  /\ event'.trap = "none" => Guarded(csr, csr')
  /\ mem' # m => Stored(csr, m, mem')

----------------------------------------------------------------------------
\* Each outcome leads to the contract.

LEMMA FaultedFields ==
  ASSUME NEW c, GoodCSR(c), NEW code, NEW tval, NEW d, d = Faulted(c, code, tval)
  PROVE  SameState(c, d) /\ d.mcause = code
BY DEF Faulted, SameState, GoodCSR, Registers

\* An address that is misaligned for an instruction fetch.
LEMMA NextPcFault ==
  ASSUME NEW c, NEW m, NEW at, NEW a, a % 4 # 0
  PROVE  AtFault(c, m, at, kExcInstAddrMisalign, a)
BY DEF AtFault, kExcInstAddrMisalign, kExcInstPageFault, kExcLoadPageFault,
       kExcStAMOPageFault

LEMMA MipOnly ==
  ASSUME NEW c, GoodCSR(c), NEW p, NEW d, d = [c EXCEPT !.mip = p]
  PROVE  /\ SameState(c, d) /\ d.mcause = c.mcause /\ d.mtval = c.mtval
BY DEF SameState, GoodCSR, Registers

LEMMA RaisedContract ==
  ASSUME CoreInv, NEW w, Fresh(w), w.csr = csr, NEW x, GoodWork(x),
         Raised(w, x), NEW op, NEW lines \in Lines, WriteBack(op, x, lines)
  PROVE  StepContract(w.mem, w.pc)
<1>1. x.exc # kStateExcCodeReset /\ x.npc % 4 = 0
  BY RaisedCodes DEF Raised, Fresh
<1>2. SameState(csr, x.csr) /\ x.csr.mcause = x.exc
  <2>1. GoodCSR(csr) /\ x.csr = Faulted(csr, x.exc, x.csr.mtval)
    BY DEF Raised, Fresh, GoodWork
  <2> DEFINE code == x.exc
             tval == x.csr.mtval
  <2>2. x.csr = Faulted(csr, code, tval)
    BY <2>1
  <2> HIDE DEF code, tval
  <2>3. SameState(csr, x.csr) /\ x.csr.mcause = code
    BY <2>1, <2>2, FaultedFields
  <2> QED BY <2>3 DEF code
<1>3. event'.trap # "none"
  BY <1>1, WriteBackKeeps
<1>4. /\ mem' = w.mem
      /\ SameOverTrap(x.csr, csr') /\ SavedStatus(x.csr, csr')
      /\ event'.trap = "sync" =>
           /\ regs' = regs
           /\ csr'.mcause = x.exc /\ csr'.mtval = x.csr.mtval
  BY <1>1, <1>2, <1>3, WriteBackKeeps DEF Raised
<1>5. AtFault(csr, w.mem, w.pc, x.exc, x.csr.mtval)
  BY DEF Raised
<1>6. SavesStatus
  BY <1>2, <1>4 DEF SavesStatus, SavedStatus, SameState
<1>7. IsPrecise(w.mem)
  BY <1>2, <1>4 DEF IsPrecise, SameOverTrap, SameState
<1> QED BY <1>3, <1>4, <1>5, <1>6, <1>7 DEF StepContract

LEMMA GuardedSame ==
  ASSUME NEW c, NEW d, SameState(c, d), d.mcause = c.mcause, d.mtval = c.mtval
  PROVE  Guarded(c, d)
BY DEF Guarded, SameState

\* An instruction that left the control registers alone, stores among them.
LEMMA RanContract ==
  ASSUME CoreInv, NEW w, Fresh(w), w.csr = csr, NEW x, GoodWork(x),
         Ran(w, x) \/ DidStore(w, x),
         NEW op, NEW lines \in Lines, WriteBack(op, x, lines)
  PROVE  StepContract(w.mem, w.pc)
<1>1. /\ x.exc = kStateExcCodeReset /\ x.csr = csr /\ GoodCSR(csr)
      /\ x.mem = w.mem \/ (Stored(csr, w.mem, x.mem) /\ x.npc % 4 = 0)
  BY DEF Ran, DidStore, Fresh, GoodWork
<1>2. mem' = x.mem
  BY WriteBackKeeps
<1>3. CASE event'.trap = "none"
  <2> DEFINE mip == csr'.mip
  <2>1. csr' = [csr EXCEPT !.mip = mip]
    BY <1>1, <1>3, WriteBackKeeps
  <2> HIDE DEF mip
  <2>2. SameState(csr, csr') /\ csr'.mcause = csr.mcause /\ csr'.mtval = csr.mtval
    BY <1>1, <2>1, MipOnly
  <2>3. Guarded(csr, csr')
    BY <2>2, GuardedSame
  <2> QED BY <1>1, <1>2, <1>3, <2>3 DEF StepContract, SavesStatus, IsPrecise
<1>4. CASE event'.trap # "none"
  <2>1. SameOverTrap(csr, csr') /\ SavedStatus(csr, csr')
    BY <1>1, <1>4, WriteBackKeeps
  <2>2. ASSUME event'.trap = "sync"
        PROVE  /\ mem' = w.mem /\ regs' = regs
               /\ AtFault(csr, w.mem, w.pc, csr'.mcause, csr'.mtval)
    <3>1. x.npc % 4 # 0
      BY <1>1, <2>2, WriteBackKeeps
    <3>2. /\ regs' = regs
          /\ csr'.mcause = kExcInstAddrMisalign /\ csr'.mtval = x.npc
      BY <1>1, <2>2, <3>1, WriteBackKeeps
    <3>3. AtFault(csr, w.mem, w.pc, kExcInstAddrMisalign, x.npc)
      BY <3>1, NextPcFault
    <3> QED BY <1>1, <1>2, <3>1, <3>2, <3>3
  <2>3. SavesStatus
    BY <2>1 DEF SavesStatus, SavedStatus
  <2>4. IsPrecise(w.mem)
    BY <2>1, <2>2 DEF IsPrecise, SameOverTrap
  <2> QED BY <1>1, <1>2, <1>4, <2>2, <2>3, <2>4 DEF StepContract
<1> QED BY <1>3, <1>4

\* A write to a control register reaches no register of a higher level than
\* that of the address, which is at most the level the core is in.
LEMMA WriteDataGuarded ==
  ASSUME NEW c, GoodCSR(c), NEW addr \in Nat, Writable(c, addr), NEW v \in Word
  PROVE  Guarded(c, WriteData(c, addr, v))
<1> DEFINE x == WriteData(c, addr, v)
           e1 == WriteSStatus(c, BitsOf(v))
           e2 == WriteMStatus(c, BitsOf(v))
           e3 == [c EXCEPT !.satp = BitsOf(v) \cap kMaskSATP]
           e4 == [c EXCEPT !.mie = BitsOf(v) \cap kMaskMIE]
           e5 == [c EXCEPT !.mtvec = LegalMTVec(v)]
           e6 == [c EXCEPT !.sscratch = v]
           e7 == [c EXCEPT !.sepc = v]
           e8 == [c EXCEPT !.mscratch = v]
           e9 == [c EXCEPT !.mepc = v]
           e10 == [c EXCEPT !.mcause = v]
           e11 == [c EXCEPT !.mtval = v]
<1>1. x = CASE addr = kCSRSStatus  -> e1
            [] addr = kCSRMStatus  -> e2
            [] addr = kCSRSATP     -> e3
            [] addr = kCSRMIE      -> e4
            [] addr = kCSRMTVec    -> e5
            [] addr = kCSRSScratch -> e6
            [] addr = kCSRSEPC     -> e7
            [] addr = kCSRMScratch -> e8
            [] addr = kCSRMEPC     -> e9
            [] addr = kCSRMCause   -> e10
            [] addr = kCSRMTVal    -> e11
            [] OTHER               -> c
  BY Zenon DEF WriteData
<1>2. c.priv \in {0, 1, 3} /\ c.priv >= GetPrivByCSRAddr(addr)
  BY DEF GoodCSR, Registers, Priv, kPrivLevelU, kPrivLevelS, kPrivLevelM,
     Writable, Readable
<1>3. /\ addr \in {768, 772, 773, 832, 833, 834, 835} => c.priv = 3
      /\ addr \in {256, 384, 320, 321} => c.priv >= 1
  BY <1>2 DEF GetPrivByCSRAddr
<1>4. Guarded(c, c)
  BY DEF Guarded
<1>5. c.priv = 3 => Guarded(c, x)
  BY DEF Guarded, kPrivLevelM, kPrivLevelS
<1>6. c.priv >= 1 =>
        Guarded(c, e1) /\ Guarded(c, e3) /\ Guarded(c, e6) /\ Guarded(c, e7)
  <2> DEFINE new == ((c.mstatus \ kMaskSStatus) \cup (BitsOf(v) \cap kMaskSStatus))
                      \cap kMaskMStatus
             view == BitsOf(v) \cap kMaskSStatus
             satp == BitsOf(v) \cap kMaskSATP
             f1 == [c EXCEPT !.sstatus = view, !.mstatus = new]
  <2>1. e1 = f1 /\ e3 = [c EXCEPT !.satp = satp]
    BY DEF WriteSStatus
  <2>2. new \ kMaskSStatus = c.mstatus \ kMaskSStatus
    <3>1. c.mstatus \in SUBSET kMaskMStatus
      BY DEF GoodCSR, Registers, MStatusValues
    <3> QED BY <3>1
  <2> HIDE DEF new, view, satp
  <2>3. /\ f1.mstatus = new /\ f1.mie = c.mie /\ f1.mtvec = c.mtvec
        /\ f1.mscratch = c.mscratch /\ f1.mepc = c.mepc
        /\ f1.mcause = c.mcause /\ f1.mtval = c.mtval
    BY DEF GoodCSR, Registers
  <2>4. \A y \in {e3, e6, e7} :
          /\ y.mstatus = c.mstatus /\ y.mie = c.mie /\ y.mtvec = c.mtvec
          /\ y.mscratch = c.mscratch /\ y.mepc = c.mepc
          /\ y.mcause = c.mcause /\ y.mtval = c.mtval
    BY <2>1 DEF GoodCSR, Registers
  <2>5. c.priv >= 1 => ~(c.priv < kPrivLevelS)
    BY <1>2 DEF kPrivLevelS
  <2> HIDE DEF f1, e1, e3, e6, e7
  <2> QED BY <2>1, <2>2, <2>3, <2>4, <2>5 DEF Guarded
<1> HIDE DEF x, e1, e2, e3, e4, e5, e6, e7, e8, e9, e10, e11
<1>7. Guarded(c, x)
  <2>1. CASE addr \in {768, 772, 773, 832, 833, 834, 835}
    BY <1>3, <1>5, <2>1
  <2>2. CASE addr \in {256, 384, 320, 321}
    <3>1. x \in {e1, e3, e6, e7}
      BY <1>1, <2>2 DEF kCSRSStatus, kCSRSScratch, kCSRSEPC, kCSRSATP,
         kCSRMStatus, kCSRMIE, kCSRMTVec, kCSRMScratch, kCSRMEPC, kCSRMCause,
         kCSRMTVal
    <3> QED BY <1>3, <1>6, <2>2, <3>1
  <2>3. CASE addr \notin {768, 772, 773, 832, 833, 834, 835, 256, 384, 320, 321}
    <3>1. x = c
      BY <1>1, <2>3 DEF kCSRSStatus, kCSRSScratch, kCSRSEPC, kCSRSATP,
         kCSRMStatus, kCSRMIE, kCSRMTVec, kCSRMScratch, kCSRMEPC, kCSRMCause,
         kCSRMTVal
    <3> QED BY <1>4, <3>1
  <2> QED BY <2>1, <2>2, <2>3
<1> QED BY <1>7 DEF x

\* Only mip changes after an instruction that traps not.
LEMMA GuardedMip ==
  ASSUME NEW c, NEW d, Guarded(c, d), GoodCSR(d), NEW p, NEW e,
         e = [d EXCEPT !.mip = p]
  PROVE  Guarded(c, e)
<1>1. SameState(d, e) /\ e.mcause = d.mcause /\ e.mtval = d.mtval
  BY MipOnly
<1> QED BY <1>1 DEF Guarded, SameState

LEMMA WroteCSRContract ==
  ASSUME CoreInv, NEW w, Fresh(w), w.csr = csr, NEW x, GoodWork(x),
         WroteCSR(w, x), NEW op \in CSROp, NEW lines \in Lines,
         WriteBack(op, x, lines)
  PROVE  StepContract(w.mem, w.pc)
<1>1. /\ x.exc = kStateExcCodeReset /\ x.npc % 4 = 0 /\ x.mem = w.mem
      /\ GoodCSR(csr) /\ GoodCSR(x.csr)
  BY DEF WroteCSR, Fresh, GoodWork
<1>2. PICK addr \in Nat, v \in Word :
        Writable(csr, addr) /\ x.csr = WriteData(csr, addr, v)
  BY DEF WroteCSR
<1>3. Guarded(csr, x.csr) /\ x.csr.priv = csr.priv
  BY <1>1, <1>2, WriteDataGuarded, WriteDataGood
<1>4. mem' = w.mem /\ event'.op \in CSROp
  BY <1>1, WriteBackKeeps
<1>5. event'.trap # "sync"
  BY <1>1, WriteBackKeeps
<1>6. CASE event'.trap = "none"
  <2> DEFINE mip == csr'.mip
  <2>1. csr' = [x.csr EXCEPT !.mip = mip]
    BY <1>6, WriteBackKeeps
  <2> HIDE DEF mip
  <2>2. Guarded(csr, csr')
    BY <1>1, <1>3, <2>1, GuardedMip
  <2> QED BY <1>4, <1>6, <2>2 DEF StepContract, SavesStatus, IsPrecise
<1>7. CASE event'.trap # "none"
  <2>1. SavedStatus(x.csr, csr')
    BY <1>7, WriteBackKeeps
  <2>2. SavesStatus
    BY <1>3, <1>4, <2>1 DEF SavesStatus, SavedStatus
  <2> QED BY <1>4, <1>5, <1>7, <2>2 DEF StepContract, IsPrecise
<1> QED BY <1>6, <1>7

\* mret leaves sstatus and the registers that are not mstatus as they are.
LEMMA MReturnKeeps ==
  ASSUME NEW c, GoodCSR(c), NEW p, NEW d,
         d = [WriteMStatus(c, MretStatus(c.mstatus)) EXCEPT !.priv = p]
  PROVE  SameOverTrap(c, d)
<1> DEFINE new == LegalMpp(MretStatus(c.mstatus)) \cap kMaskMStatus
           view == ((c.sstatus \ kMaskMStatus) \cup new) \cap kMaskSStatus
           b == [c EXCEPT !.mstatus = new, !.sstatus = view]
           e == [b EXCEPT !.priv = p]
<1>1. d = e
  BY DEF WriteMStatus
<1>2. view = c.sstatus
  <2>1. 8 \in new <=> 8 \in c.mstatus
    BY DEF LegalMpp, MretStatus, kMaskMStatus, kMIE, kMPIE, kSPP, kMPPLo, kMPPHi
  <2>2. c.sstatus = c.mstatus \cap kMaskSStatus
    BY DEF GoodCSR
  <2> HIDE DEF new
  <2> QED BY <2>1, <2>2 DEF kMaskSStatus, kMaskMStatus, kSPP
<1> HIDE DEF new, view
<1>3. SameOverTrap(c, e)
  BY <1>2 DEF SameOverTrap, GoodCSR, Registers
<1> QED BY <1>1, <1>3

\* What sret leaves alone: everything but its view of mstatus.
KeptBySret(c, d) ==
  /\ d.mstatus \ kMaskSStatus = c.mstatus \ kMaskSStatus
  /\ d.satp = c.satp /\ d.mie = c.mie /\ d.mtvec = c.mtvec
  /\ d.mscratch = c.mscratch /\ d.sscratch = c.sscratch
  /\ d.sepc = c.sepc /\ d.mepc = c.mepc
  /\ d.mcause = c.mcause /\ d.mtval = c.mtval

LEMMA SReturnKeeps ==
  ASSUME NEW c, GoodCSR(c), NEW p, NEW d,
         d = [WriteSStatus(c, SretStatus(c.sstatus)) EXCEPT !.priv = p]
  PROVE  KeptBySret(c, d)
<1> DEFINE view == SretStatus(c.sstatus) \cap kMaskSStatus
           new == ((c.mstatus \ kMaskSStatus) \cup view) \cap kMaskMStatus
           b == [c EXCEPT !.sstatus = view, !.mstatus = new]
           e == [b EXCEPT !.priv = p]
<1>1. d = e
  BY DEF WriteSStatus
<1>2. new \ kMaskSStatus = c.mstatus \ kMaskSStatus
  <2>1. c.mstatus \in SUBSET kMaskMStatus
    BY DEF GoodCSR, Registers, MStatusValues
  <2> QED BY <2>1
<1> HIDE DEF new, view
<1>3. /\ e.mstatus = new
      /\ e.satp = c.satp /\ e.mie = c.mie /\ e.mtvec = c.mtvec
      /\ e.mscratch = c.mscratch /\ e.sscratch = c.sscratch
      /\ e.sepc = c.sepc /\ e.mepc = c.mepc
      /\ e.mcause = c.mcause /\ e.mtval = c.mtval
  BY DEF GoodCSR, Registers
<1> QED BY <1>1, <1>2, <1>3 DEF KeptBySret

LEMMA MReturnedContract ==
  ASSUME CoreInv, NEW w, Fresh(w), w.csr = csr, NEW x, GoodWork(x),
         MReturned(w, x), NEW op, op = "mret", NEW lines \in Lines,
         WriteBack(op, x, lines)
  PROVE  StepContract(w.mem, w.pc)
<1>1. x.exc = kStateExcCodeReset /\ x.mem = w.mem /\ csr.priv = kPrivLevelM
      /\ GoodCSR(csr)
  BY DEF MReturned, Fresh, GoodWork
<1>2. SameOverTrap(csr, x.csr)
  BY <1>1, MReturnKeeps DEF MReturned
<1>3. mem' = w.mem /\ event'.op = "mret"
  BY <1>1, WriteBackKeeps
<1>4. CASE event'.trap = "none"
  <2>1. Guarded(csr, csr')
    BY <1>1 DEF Guarded, kPrivLevelM, kPrivLevelS
  <2> QED BY <1>3, <1>4, <2>1 DEF StepContract, SavesStatus, IsPrecise
<1>5. CASE event'.trap # "none"
  <2>1. SameOverTrap(x.csr, csr') /\ SavedStatus(x.csr, csr')
    BY <1>5, WriteBackKeeps
  <2>2. ASSUME event'.trap = "sync"
        PROVE  regs' = regs /\ AtFault(csr, w.mem, w.pc, csr'.mcause, csr'.mtval)
    <3>1. x.npc % 4 # 0
      BY <1>1, <2>2, WriteBackKeeps
    <3>2. /\ regs' = regs
          /\ csr'.mcause = kExcInstAddrMisalign /\ csr'.mtval = x.npc
      BY <1>1, <2>2, <3>1, WriteBackKeeps
    <3>3. AtFault(csr, w.mem, w.pc, kExcInstAddrMisalign, x.npc)
      BY <3>1, NextPcFault
    <3> QED BY <3>2, <3>3
  <2>3. SavesStatus
    BY <1>3, <2>1 DEF SavesStatus, SavedStatus
  <2>4. IsPrecise(w.mem)
    BY <1>2, <1>3, <2>1, <2>2 DEF IsPrecise, SameOverTrap
  <2> QED BY <1>3, <1>5, <2>2, <2>3, <2>4 DEF StepContract
<1> QED BY <1>4, <1>5

LEMMA SReturnedContract ==
  ASSUME CoreInv, NEW w, Fresh(w), w.csr = csr, NEW x, GoodWork(x),
         SReturned(w, x), NEW op, op = "sret", NEW lines \in Lines,
         WriteBack(op, x, lines)
  PROVE  StepContract(w.mem, w.pc)
<1>1. /\ x.exc = kStateExcCodeReset /\ x.mem = w.mem
      /\ csr.priv >= kPrivLevelS /\ GoodCSR(csr) /\ GoodCSR(x.csr)
  BY DEF SReturned, Fresh, GoodWork
<1>2. KeptBySret(csr, x.csr)
  BY <1>1, SReturnKeeps DEF SReturned
<1>3. mem' = w.mem /\ event'.op = "sret"
  BY <1>1, WriteBackKeeps
<1>4. CASE event'.trap = "none"
  <2>1. Guarded(csr, x.csr)
    <3>1. ~(csr.priv < kPrivLevelS)
      BY <1>1, PrivRange DEF kPrivLevelS
    <3> QED BY <1>2, <3>1 DEF Guarded, KeptBySret
  <2> DEFINE mip == csr'.mip
  <2>2. csr' = [x.csr EXCEPT !.mip = mip]
    BY <1>4, WriteBackKeeps
  <2> HIDE DEF mip
  <2>3. Guarded(csr, csr')
    BY <1>1, <2>1, <2>2, GuardedMip
  <2> QED BY <1>3, <1>4, <2>3 DEF StepContract, SavesStatus, IsPrecise
<1>5. CASE event'.trap # "none"
  <2>1. SameOverTrap(x.csr, csr') /\ SavedStatus(x.csr, csr')
    BY <1>5, WriteBackKeeps
  <2>2. ASSUME event'.trap = "sync"
        PROVE  regs' = regs /\ AtFault(csr, w.mem, w.pc, csr'.mcause, csr'.mtval)
    <3>1. x.npc % 4 # 0
      BY <1>1, <2>2, WriteBackKeeps
    <3>2. /\ regs' = regs
          /\ csr'.mcause = kExcInstAddrMisalign /\ csr'.mtval = x.npc
      BY <1>1, <2>2, <3>1, WriteBackKeeps
    <3>3. AtFault(csr, w.mem, w.pc, kExcInstAddrMisalign, x.npc)
      BY <3>1, NextPcFault
    <3> QED BY <3>2, <3>3
  <2>3. SavesStatus
    BY <1>3, <2>1 DEF SavesStatus, SavedStatus
  <2>4. IsPrecise(w.mem)
    BY <1>2, <1>3, <2>1, <2>2 DEF IsPrecise, SameOverTrap, KeptBySret
  <2> QED BY <1>3, <1>5, <2>2, <2>3, <2>4 DEF StepContract
<1> QED BY <1>4, <1>5

LEMMA OutcomeContract ==
  ASSUME CoreInv, NEW w, Fresh(w), w.csr = csr, NEW x, GoodWork(x), NEW op,
         Outcome(op, w, x), NEW lines \in Lines, WriteBack(op, x, lines)
  PROVE  StepContract(w.mem, w.pc)
<1>1. CASE Raised(w, x)
  BY <1>1, RaisedContract
<1>2. CASE Ran(w, x) \/ DidStore(w, x)
  BY <1>2, RanContract
<1>3. CASE op \in CSROp /\ WroteCSR(w, x)
  BY <1>3, WroteCSRContract
<1>4. CASE op = "mret" /\ MReturned(w, x)
  BY <1>4, MReturnedContract
<1>5. CASE op = "sret" /\ SReturned(w, x)
  BY <1>5, SReturnedContract
<1> QED BY <1>1, <1>2, <1>3, <1>4, <1>5 DEF Outcome

----------------------------------------------------------------------------
\* Every instruction, and the fetch, ends in one of the outcomes.

LEMMA ExecuteContract ==
  ASSUME CoreInv, NEW w, Fresh(w), w.csr = csr, NEW i, GoodInst(i),
         NEW lines \in Lines, Execute(w, i, lines)
  PROVE  StepContract(w.mem, w.pc)
<1> USE DEF Fresh
<1>1. GoodWork(w)
  OBVIOUS
<1> DEFINE Ends(x) == GoodWork(x) /\ Outcome(i.op, w, x)
<1>2. ASSUME NEW x, Ends(x), WriteBack(i.op, x, lines)
      PROVE  StepContract(w.mem, w.pc)
  BY <1>2, OutcomeContract
<1>3. kExcLoadPageFault \in SyncExc /\ kExcStAMOPageFault \in SyncExc
  BY SyncWords DEF kExcLoadPageFault, kExcStAMOPageFault
<1>4. ASSUME NEW x, Safe(w, x), NEW code \in {kExcLoadPageFault, kExcStAMOPageFault},
             NEW kinds, kinds \subseteq {"r", "w"},
             code = kExcLoadPageFault => kinds \subseteq {"r"},
             (Raised(w, x) /\ x.bad = FALSE) \/ Accessed(w, x, kinds)
      PROVE  Ends(CheckPageFault(x, code))
  <2>1. GoodWork(CheckPageFault(x, code))
    BY <1>1, <1>3, <1>4, CheckPageFaultSafe DEF Safe
  <2>2. Outcome(i.op, w, CheckPageFault(x, code))
    BY <1>4, PageFaultOutcome DEF Safe
  <2> QED BY <2>1, <2>2
<1>5. kExcStAMOPageFault # kExcLoadPageFault
  BY DEF kExcLoadPageFault, kExcStAMOPageFault
<1>6. CASE ExecuteLR(w, i, lines)
  <2>1. Ends(CheckPageFault(LoadReserved(w, i), kExcStAMOPageFault))
    BY <1>1, <1>4, <1>5, <1>6, LoadReservedSafe, LoadReservedEnds DEF ExecuteLR
  <2> HIDE DEF Ends
  <2> QED BY <1>2, <1>6, <2>1 DEF ExecuteLR
<1>7. CASE ExecuteSC(w, i, lines)
  <2>1. Ends(CheckPageFault(StoreConditional(w, i), kExcStAMOPageFault))
    BY <1>1, <1>4, <1>5, <1>7, StoreConditionalSafe, StoreConditionalEnds
       DEF ExecuteSC
  <2> HIDE DEF Ends
  <2> QED BY <1>2, <1>7, <2>1 DEF ExecuteSC
<1>8. CASE ExecuteAMO(w, i, lines)
  <2>1. Ends(CheckPageFault(ReadModifyWrite(w, i), kExcStAMOPageFault))
    BY <1>1, <1>4, <1>5, <1>8, ReadModifyWriteSafe, ReadModifyWriteEnds
       DEF ExecuteAMO
  <2> HIDE DEF Ends
  <2> QED BY <1>2, <1>8, <2>1 DEF ExecuteAMO
<1>9. CASE ExecuteLoad(w, i, lines)
  <2>1. Ends(CheckPageFault(Load(w, i), kExcLoadPageFault))
    BY <1>1, <1>4, <1>9, LoadSafe, LoadEnds DEF ExecuteLoad
  <2> HIDE DEF Ends
  <2> QED BY <1>2, <1>9, <2>1 DEF ExecuteLoad
<1>10. CASE ExecuteStore(w, i, lines)
  <2>1. Ends(CheckPageFault(Store(w, i), kExcStAMOPageFault))
    BY <1>1, <1>4, <1>5, <1>10, StoreSafe, StoreEnds DEF ExecuteStore
  <2> HIDE DEF Ends
  <2> QED BY <1>2, <1>10, <2>1 DEF ExecuteStore
<1>11. CASE ExecuteInt(w, i, lines)
  <2>1. Ends(Compute(w, i))
    BY <1>1, <1>11, ComputeSafe, ComputeEnds DEF ExecuteInt, Safe, Outcome
  <2> HIDE DEF Ends
  <2> QED BY <1>2, <1>11, <2>1 DEF ExecuteInt
<1>12. CASE ExecuteBranch(w, i, lines)
  <2>1. Ends(Branch(w, i))
    BY <1>1, <1>12, BranchSafe, BranchEnds DEF ExecuteBranch, Safe, Outcome
  <2> HIDE DEF Ends
  <2> QED BY <1>2, <1>12, <2>1 DEF ExecuteBranch
<1>13. CASE ExecuteJump(w, i, lines)
  <2>1. Ends(Jump(w, i))
    BY <1>1, <1>13, JumpSafe, JumpEnds DEF ExecuteJump, Safe, Outcome
  <2> HIDE DEF Ends
  <2> QED BY <1>2, <1>13, <2>1 DEF ExecuteJump
<1>14. CASE ExecutePrivileged(w, i, lines)
  <2>1. Ends(Privileged(w, i))
    BY <1>1, <1>14, PrivilegedSafe, PrivilegedEnds DEF ExecutePrivileged, Safe
  <2> HIDE DEF Ends
  <2> QED BY <1>2, <1>14, <2>1 DEF ExecutePrivileged
<1>15. CASE ExecuteCSR(w, i, lines)
  <2>1. Ends(AccessCSR(w, i))
    BY <1>1, <1>15, AccessCSRSafe, AccessCSREnds DEF ExecuteCSR, Safe
  <2> HIDE DEF Ends
  <2> QED BY <1>2, <1>15, <2>1 DEF ExecuteCSR
<1>16. Ends(w) /\ Ends(Illegal(w, i))
  BY <1>1, RanSame, IllegalOutcome, IllegalSafe DEF Outcome, Safe
<1>17. CASE ExecuteSFence(w, i, lines)
  <2>1. FenceVMA(w, i) \in {w, Illegal(w, i)}
    BY DEF FenceVMA
  <2> HIDE DEF Ends
  <2> QED BY <1>2, <1>16, <1>17, <2>1 DEF ExecuteSFence
<1>18. CASE ExecuteFence(w, i, lines) \/ ExecuteIllegal(w, i, lines)
  <2> HIDE DEF Ends
  <2> QED BY <1>2, <1>16, <1>18 DEF ExecuteFence, ExecuteIllegal
<1> QED BY <1>6, <1>7, <1>8, <1>9, <1>10, <1>11, <1>12, <1>13, <1>14, <1>15,
           <1>17, <1>18 DEF Execute

\* The address of the next instruction, where the pc is aligned.
LEMMA NextAligned ==
  ASSUME NEW at \in Word, at % 4 = 0 PROVE Add(at, 4) % 4 = 0
<1>1. at \in Nat /\ WordSize \in Nat /\ WordSize % 8 = 0
  BY WordAssumption, CSRAssumption DEF Word
<1> QED BY <1>1 DEF Add

LEMMA CopiedFresh ==
  ASSUME CoreInv, NEW m \in Memory, NEW at \in Word, at % 4 = 0
  PROVE  /\ Fresh(Copied(m, at)) /\ Copied(m, at).mem = m
         /\ Copied(m, at).csr = csr /\ Copied(m, at).pc = at
<1> DEFINE w == Copied(m, at)
<1>1. GoodWork(w)
  BY CopiedGood
<1>2. /\ w.exc = kStateExcCodeReset /\ w.bad = FALSE /\ w.npc = Add(at, 4)
      /\ w.mem = m /\ w.csr = csr /\ w.pc = at
  BY DEF Copied
<1> HIDE DEF w
<1> QED BY <1>1, <1>2, NextAligned DEF Fresh, w

LEMMA CycleContract ==
  ASSUME CoreInv, NEW m \in Memory, NEW lines \in Lines, NextCycle(m, lines)
  PROVE  StepContract(m, pc)
<1> DEFINE u == Copied(m, pc)
           fault == PageFault(csr, m, pc, "x")
           w == [u EXCEPT !.vaddr = pc, !.bad = fault]
<1>1. /\ Fresh(u) /\ u.mem = m /\ u.csr = csr /\ u.pc = pc /\ pc \in Word
  BY CopiedFresh DEF CoreInv, TypeOK, PcAligned
<1>2. Fetched(m) = w
  <2>1. u.bad = FALSE /\ u.csr = csr /\ u.mem = m
    BY <1>1 DEF Fresh
  <2> HIDE DEF u
  <2> QED BY <2>1 DEF Fetched, MmuAccess, u
<1>3. fault = PageFault(csr, m, pc, "x") /\ fault \in BOOLEAN
  BY DEF PageFault, Refuses, Translated, CheckPTEProperty
<1>4. GoodWork(w) /\ w.pc = pc /\ w.csr = csr
  BY <1>2, FetchedGood
<1> HIDE DEF u, fault
<1>5. /\ w.mem = m /\ w.exc = kStateExcCodeReset /\ w.npc = u.npc
      /\ w.vaddr = pc /\ w.bad = fault
  BY <1>1 DEF Fresh, GoodWork, Work
<1> HIDE DEF w
<1>6. CASE FetchFault(w, lines)
  <2> DEFINE x == RaiseException(w, kExcInstPageFault, pc)
  <2>1. kExcInstPageFault \in RaisedCode
    BY DEF RaisedCode
  <2>2. /\ x.exc = kExcInstPageFault /\ x.npc = w.npc /\ x.mem = w.mem
        /\ x.csr = Faulted(w.csr, kExcInstPageFault, pc) /\ x.csr.mtval = pc
    BY <1>1, <1>4, <1>5, <2>1, FirstRaised
  <2>3. GoodWork(x)
    BY <1>1, <1>4, <2>1, RaisedCodes, RaiseSafe DEF Safe
  <2>4. WriteBack("fetch", x, lines) /\ fault
    BY <1>5, <1>6 DEF FetchFault
  <2> HIDE DEF x
  <2>5. AtFault(csr, m, pc, kExcInstPageFault, pc)
    BY <1>3, <2>4 DEF AtFault, AddrMisalign, kExcInstAddrMisalign,
       kExcLoadAddrMisalign, kExcStAMOAddrMisalign, kExcInstPageFault,
       kExcLoadPageFault, kExcStAMOPageFault
  <2>6. Raised(u, x)
    BY <1>1, <1>4, <1>5, <2>1, <2>2, <2>5 DEF Raised
  <2> QED BY <1>1, <2>3, <2>4, <2>6, RaisedContract
<1>7. ASSUME ~w.bad, NEW i \in InstsAt(m, GetPhysicalAddr(csr, m, pc)),
             Execute(w, i, lines)
      PROVE  StepContract(m, pc)
  <2>1. GoodInst(i)
    BY <1>1, <1>7, InstGood DEF Fresh, GoodWork
  <2>2. Fresh(w)
    BY <1>1, <1>3, <1>4, <1>5, <1>7 DEF Fresh
  <2> QED BY <1>4, <1>5, <1>7, <2>1, <2>2, ExecuteContract
<1> QED BY <1>2, <1>6, <1>7 DEF NextCycle


----------------------------------------------------------------------------
\* A store below machine mode: the page that let it through.

\* The word an address lies in is on the same page as the address.
LEMMA SamePage ==
  ASSUME NEW a \in Word
  PROVE  LET va == a - (a % 4)
         IN  /\ va \in Word /\ offset(va) = offset(a) - (a % 4)
             /\ vpn0(va) = vpn0(a) /\ vpn1(va) = vpn1(a)
<1> DEFINE va == a - (a % 4)
<1>1. a \in Nat /\ WordSize \in Nat
  BY WordAssumption DEF Word
<1>2. va \in Word
  BY <1>1 DEF Word
<1>3. offset(va) = offset(a) - (a % 4) /\ va \div 4096 = a \div 4096
  BY <1>1 DEF offset, kPageSize
<1>4. vpn0(va) = vpn0(a)
  BY <1>3 DEF vpn0, kPageSize
<1> DEFINE N == 4096 * VpnSize
           q == a \div N
           r == a % N
<1>5. N \in Nat \ {0} /\ N % 4 = 0 /\ VpnSize \in Nat \ {0}
  BY MMUAssumption
<1>6. q \in Nat /\ r \in Nat /\ r < N /\ a = N * q + r
  <2> HIDE DEF N
  <2> QED BY <1>1, <1>5, NatDivision
<1>7. a % 4 = r % 4
  <2>1. PICK k \in Nat : N = 4 * k
    BY <1>5
  <2> HIDE DEF N, q, r
  <2>2. PICK j \in Nat : j = k * q
    BY <1>6, <2>1
  <2>3. a = 4 * j + r
    BY <1>6, <2>1, <2>2
  <2> QED BY <1>6, <2>3
<1>8. va \div N = q
  <2> DEFINE s == r - (r % 4)
  <2> HIDE DEF N, q, r
  <2>1. s \in Nat /\ s < N
    BY <1>5, <1>6
  <2>2. va = N * q + s
    BY <1>5, <1>6, <1>7
  <2> HIDE DEF va, s
  <2> QED BY <1>5, <1>6, <2>1, <2>2, DivisionUnique
<1>9. vpn1(va) = vpn1(a)
  BY <1>8 DEF vpn1, kPageSize
<1> QED BY <1>2, <1>3, <1>4, <1>9

\* So the walk for that word is the walk for the address.
LEMMA WalkOfWord ==
  ASSUME NEW c, GoodCSR(c), NEW m \in Memory, NEW a \in Word,
         Walk(c, m, a).ok
  PROVE  LET x == Walk(c, m, a)
             y == Walk(c, m, a - (a % 4))
         IN  y.ok /\ y.flags = x.flags /\ y.pa = x.pa - (a % 4)
<1> DEFINE va == a - (a % 4)
           root == Entry(m, satp_ppn(c), vpn1(a))
           leaf == Entry(m, root.ppn, vpn0(a))
           to(ppn, flags, b) ==
             [ok |-> TRUE, flags |-> flags, pa |-> PageAddr(ppn) + offset(b)]
           walk(b) ==
             IF Invalid(root) THEN NoLeaf
             ELSE IF ~Pointer(root)
             THEN IF root.ppn % VpnSize # 0 THEN NoLeaf
                  ELSE to(root.ppn + vpn0(a), root.flags, b)
             ELSE IF Invalid(leaf) \/ Pointer(leaf) THEN NoLeaf
             ELSE to(root.ppn, leaf.flags, b)
<1>1. /\ va \in Word /\ offset(va) = offset(a) - (a % 4)
      /\ vpn0(va) = vpn0(a) /\ vpn1(va) = vpn1(a)
  BY SamePage
<1>2. Walk(c, m, a) = walk(a) /\ Walk(c, m, va) = walk(va)
  BY <1>1, Zenon DEF Walk
<1>3. \A n \in Int : PageAddr(n) \in Int
  BY MMUAssumption DEF PageAddr, kPageSize, Frames
<1>4. PICK ppn, flags :
        walk(a) = to(ppn, flags, a) /\ walk(va) = to(ppn, flags, va)
        /\ ppn \in {root.ppn + vpn0(a), root.ppn}
  <2>1. walk(a) # NoLeaf
    BY <1>2 DEF NoLeaf
  <2> HIDE DEF root, leaf, to
  <2> QED BY <2>1, Zenon
<1>5. PageAddr(ppn) \in Int /\ offset(a) \in Int /\ a % 4 \in Int
  <2>1. a \in Nat /\ satp_ppn(c) \in Nat
    <3>1. c.satp \ {kSATPMode} \in SUBSET Bit
      BY DEF GoodCSR, Registers
    <3> QED BY <3>1, WordOfType, WordAssumption DEF satp_ppn, Word
  <2>2. root.ppn \in Nat
    BY <2>1, OffsetFacts, EntryType
  <2> HIDE DEF root
  <2>3. ppn \in Int
    BY <1>4, <2>2, OffsetFacts
  <2> QED BY <1>3, <2>1, <2>3, OffsetFacts
<1> HIDE DEF walk, root, leaf
<1>6. PageAddr(ppn) + offset(va) = (PageAddr(ppn) + offset(a)) - (a % 4)
  BY <1>1, <1>5
<1> QED BY <1>2, <1>4, <1>6

\* A translated address is at the same place in its page and in its frame.
LEMMA OffsetKept ==
  ASSUME NEW c, GoodCSR(c), NEW m \in Memory, NEW a \in Word,
         Walk(c, m, a).ok
  PROVE  offset(Walk(c, m, a).pa) = offset(a)
<1> DEFINE o == offset(a)
<1>1. \E n : Walk(c, m, a).pa = PageAddr(n) + o /\ n \in Nat
  <2> DEFINE root == Entry(m, satp_ppn(c), vpn1(a))
             leaf == Entry(m, root.ppn, vpn0(a))
             to(ppn, flags) == [ok |-> TRUE, flags |-> flags,
                                pa |-> PageAddr(ppn) + o]
  <2>1. satp_ppn(c) \in Nat
    <3>1. c.satp \ {kSATPMode} \in SUBSET Bit
      BY DEF GoodCSR, Registers
    <3> QED BY <3>1, WordOfType, WordAssumption DEF satp_ppn, Word
  <2>2. root.ppn \in Nat
    BY <2>1, OffsetFacts, EntryType
  <2>3. Walk(c, m, a) \in {NoLeaf, to(root.ppn + vpn0(a), root.flags),
                           to(root.ppn, leaf.flags)}
    BY DEF Walk
  <2>4. root.ppn + vpn0(a) \in Nat
    BY <2>2, OffsetFacts
  <2> HIDE DEF root, leaf, o
  <2> QED BY <2>2, <2>3, <2>4 DEF NoLeaf
<1>2. PICK n \in Nat : Walk(c, m, a).pa = PageAddr(n) + o
  BY <1>1
<1>3. Frames \in Nat \ {0}
  BY MMUAssumption DEF Frames
<1> DEFINE f == n % Frames
<1>4. f \in Nat
  BY <1>3
<1>5. PageAddr(n) = 4096 * f
  BY DEF PageAddr, kPageSize
<1>6. o \in Nat /\ o < 4096
  BY OffsetFacts
<1> HIDE DEF f, o
<1>7. (4096 * f + o) % 4096 = o
  BY <1>4, <1>6
<1> QED BY <1>2, <1>5, <1>7 DEF offset, kPageSize, o

\* The page that an address lies in.
LEMMA PageOf ==
  ASSUME NEW a \in Word
  PROVE  a - offset(a) \in Pages
<1>1. Frames \in Nat \ {0} /\ WordSize = 4096 * Frames
  BY MMUAssumption DEF Frames, kPageSize
<1> DEFINE n == a \div 4096
<1>2. n \in 0 .. Frames - 1 /\ a - (a % 4096) = n * 4096
  BY <1>1 DEF Word
<1> HIDE DEF n
<1> QED BY <1>2 DEF Pages, offset, kPageSize

\* An access of n bytes changes at most one word or register, at the address
\* or where its word begins.
LEMMA OneWordWritten ==
  ASSUME NEW m \in Memory, NEW pa \in Word, NEW n, NEW v \in Word,
         NEW b \in MemAddr, BusWrite(m, pa, n, v)[b] # m[b]
  PROVE  /\ b \in {pa, pa - (pa % 4)}
         /\ [BusWrite(m, pa, n, v) EXCEPT ![b] = m[b]] = m
<1> DEFINE m2 == BusWrite(m, pa, n, v)
           at == pa - (pa % 4)
<1>1. m2 = m \/ \E x \in Word, e \in {pa, at} : m2 = [m EXCEPT ![e] = x]
  <2> DEFINE bits == (BitsOf(m[at]) \ Lanes(pa % 4, n)) \cup
                     {i \in Lanes(pa % 4, n) :
                        i - (pa % 4) * ByteWidth \in BitsOf(v)}
             new == IF n = 4 THEN v ELSE WordOf(bits)
             flag == IF BitsOf(v) \cap Lanes(0, n) = {} THEN 0 ELSE 1
  <2>1. m2 = IF at \in RamAddr THEN [m EXCEPT ![at] = new]
             ELSE IF IsPort(pa, n) THEN [m EXCEPT ![pa] = 1]
             ELSE IF ~IsRegister(pa, n) THEN m
             ELSE IF pa \notin {MSIP, HaltAddr} THEN [m EXCEPT ![pa] = v]
             ELSE [m EXCEPT ![pa] = flag]
    BY DEF BusWrite
  <2>2. at \in RamAddr => new \in Word
    <3> SUFFICES ASSUME at \in RamAddr PROVE WordOf(bits) \in Word
      OBVIOUS
    <3>1. m[at] \in Word
      BY DEF Memory, MemAddr
    <3>2. bits \in SUBSET Bit
      BY <3>1, BitsOfType DEF Lanes
    <3> QED BY <3>2, WordOfType
  <2>3. flag \in Word /\ 1 \in Word
    BY SmallWords
  <2> HIDE DEF m2, at, new, flag
  <2> QED BY <2>1, <2>2, <2>3
<1>2. m2[b] # m[b]
  OBVIOUS
<1> HIDE DEF m2
<1>3. PICK x \in Word, e \in {pa, at} : m2 = [m EXCEPT ![e] = x]
  BY <1>1, <1>2
<1> HIDE DEF at
<1>4. b = e
  BY <1>2, <1>3 DEF Memory
<1>5. [m2 EXCEPT ![b] = m[b]] = m
  BY <1>3, <1>4 DEF Memory
<1> QED BY <1>3, <1>4, <1>5 DEF m2, at

\* A word that a store changes is one the page table, as the store found it,
\* maps a writable page to.
LEMMA StoredInPage ==
  ASSUME NEW c, GoodCSR(c), Translated(c), NEW m \in Memory, NEW m2,
         Stored(c, m, m2), NEW b \in MemAddr, m2[b] # m[b]
  PROVE  /\ [m2 EXCEPT ![b] = m[b]] = m
         /\ \E p \in Pages :
              /\ ~PageFault(c, m, p + offset(b), "w")
              /\ GetPhysicalAddr(c, m, p + offset(b)) = b
<1>1. PICK a \in Word, n \in {1, 2, 4}, v \in Word :
        /\ a % n = 0 /\ ~PageFault(c, m, a, "w")
        /\ m2 = BusWrite(m, GetPhysicalAddr(c, m, a), n, v)
  BY DEF Stored
<1> DEFINE x == Walk(c, m, a)
           va == a - (a % 4)
           y == Walk(c, m, va)
<1>2. ~Refuses(c.priv, x, "w") /\ GetPhysicalAddr(c, m, a) = x.pa
  BY <1>1 DEF PageFault, GetPhysicalAddr
<1>3. x.ok /\ x.pa \in Word /\ x.pa % 4 = a % 4
  BY <1>2, WalkType DEF Refuses
<1>4. b \in {x.pa, x.pa - (x.pa % 4)} /\ [m2 EXCEPT ![b] = m[b]] = m
  <2> HIDE DEF x
  <2> QED BY <1>1, <1>2, <1>3, OneWordWritten
<1>5. va \in Word
  BY SamePage
<1>6. y.ok /\ y.flags = x.flags /\ y.pa = x.pa - (a % 4)
  BY <1>3, WalkOfWord
<1> HIDE DEF x, y, va
<1>7. ~Refuses(c.priv, y, "w")
  BY <1>2, <1>3, <1>6 DEF Refuses
<1>8. PICK e \in Word : Walk(c, m, e).ok /\ Walk(c, m, e).pa = b
                         /\ ~Refuses(c.priv, Walk(c, m, e), "w")
  BY <1>2, <1>3, <1>4, <1>5, <1>6, <1>7 DEF x, y
<1> DEFINE p == e - offset(e)
<1>9. offset(b) = offset(e) /\ p \in Pages /\ offset(e) \in Nat /\ e \in Nat
  BY <1>8, OffsetKept, PageOf, OffsetFacts, WordAssumption DEF Word
<1>10. p + offset(b) = e
  BY <1>9
<1>11. ~PageFault(c, m, e, "w") /\ GetPhysicalAddr(c, m, e) = b
  BY <1>8 DEF PageFault, GetPhysicalAddr
<1> QED BY <1>4, <1>9, <1>10, <1>11

----------------------------------------------------------------------------
\* The unrolled walk.

\* An address in a frame, cut to a word.
LEMMA FrameWrap ==
  ASSUME NEW n \in Nat, NEW d \in Nat, d < 4096
  PROVE  Wrap(n * kPageSize + d) = PageAddr(n) + d
<1> DEFINE q == n \div Frames
           r == n % Frames
           e == 4096 * r + d
<1>1. Frames \in Nat \ {0} /\ WordSize = 4096 * Frames
  BY MMUAssumption DEF Frames, kPageSize
<1>2. q \in Nat /\ r \in Nat /\ r < Frames /\ n = Frames * q + r
  BY <1>1, NatDivision
<1>3. PageAddr(n) + d = e
  BY DEF PageAddr, kPageSize
<1> HIDE DEF q, r
<1>4. e \in Nat /\ e < WordSize
  BY <1>1, <1>2
<1>5. n * kPageSize + d = WordSize * q + e
  <2>1. (Frames * q) * 4096 = (4096 * Frames) * q
    BY <1>1, <1>2
  <2>2. (Frames * q + r) * 4096 + d = (Frames * q) * 4096 + (4096 * r + d)
    BY <1>1, <1>2
  <2> QED BY <1>1, <1>2, <2>1, <2>2 DEF kPageSize
<1> HIDE DEF e
<1>6. (WordSize * q + e) % WordSize = e
  <2>1. WordSize \in Nat \ {0}
    BY WordAssumption
  <2>2. q \in Int /\ e \in Nat /\ e < WordSize
    BY <1>2, <1>4
  <2> QED BY <2>1, <2>2, DivisionUnique
<1> QED BY <1>3, <1>5, <1>6 DEF Wrap

LEMMA LookedUp ==
  ASSUME NEW m, NEW n \in Nat, NEW i \in Nat, i < 1024
  PROVE  PTE(BusRead(m, Wrap(n * kPageSize + i * 4), 4)) = Entry(m, n, i)
<1> DEFINE d == i * 4
<1>1. d \in Nat /\ d < 4096 /\ d = 4 * i
  OBVIOUS
<1>2. Entry(m, n, i) = PTE(BusRead(m, PageAddr(n) + d, 4))
  BY <1>1 DEF Entry
<1> HIDE DEF d
<1>3. Wrap(n * kPageSize + d) = PageAddr(n) + d
  BY <1>1, FrameWrap
<1> QED BY <1>2, <1>3 DEF d

\* It ends as the loop, and a superpage leads where it does in the loop.
LEMMA WalkUnrolls ==
  ASSUME NEW c, GoodCSR(c), NEW m \in Memory, NEW va \in Word
  PROVE  LET leaf == Sv32(c, m, va)
             walk == Walk(c, m, va)
         IN  /\ walk.ok = leaf.ok
             /\ leaf.ok => walk.flags = leaf.flags
             /\ leaf.ok /\ ~Pointer(Entry(m, satp_ppn(c), vpn1(va))) =>
                  walk = leaf
<1> DEFINE vpn == [i \in 0 .. 1 |-> IF i = 1 THEN vpn1(va) ELSE vpn0(va)]
           At(a, i) == PTE(BusRead(m, Wrap(a + vpn[i] * 4), 4))
           root == satp_ppn(c) * kPageSize
           pte == [i \in 0 .. 1 |-> IF i = 1 THEN At(root, 1)
                                    ELSE At(At(root, 1).ppn * kPageSize, 0)]
           ends == {i \in 0 .. 1 : Invalid(pte[i]) \/ ~Pointer(pte[i])}
           last == IF 1 \in ends THEN 1 ELSE 0
           low == IF last = 1 THEN VpnSize ELSE 1
           ppn == pte[last].ppn + ((va \div kPageSize) % low)
           first == Entry(m, satp_ppn(c), vpn1(va))
           second == Entry(m, first.ppn, vpn0(va))
           o == offset(va)
           to(n, flags) == [ok |-> TRUE, flags |-> flags, pa |-> PageAddr(n) + o]
<1>1. Sv32(c, m, va) =
        IF ends = {} \/ Invalid(pte[last]) THEN NoLeaf
        ELSE [ok    |-> pte[last].ppn % low = 0,
              flags |-> pte[last].flags,
              pa    |-> Wrap(ppn * kPageSize + o)]
  BY DEF Sv32
<1>2. Walk(c, m, va) =
        IF Invalid(first) THEN NoLeaf
        ELSE IF ~Pointer(first)
        THEN IF first.ppn % VpnSize # 0 THEN NoLeaf
             ELSE to(first.ppn + vpn0(va), first.flags)
        ELSE IF Invalid(second) \/ Pointer(second) THEN NoLeaf
        ELSE to(first.ppn, second.flags)
  BY DEF Walk
<1>3. /\ vpn0(va) \in Nat /\ vpn0(va) < 1024 /\ vpn1(va) \in Nat /\ vpn1(va) < 1024
      /\ o \in Nat /\ o < 4096
  BY OffsetFacts
<1>4. satp_ppn(c) \in Nat
  <2>1. c.satp \ {kSATPMode} \in SUBSET Bit
    BY DEF GoodCSR, Registers
  <2> QED BY <2>1, WordOfType, WordAssumption DEF satp_ppn, Word
<1>5. first.ppn \in Nat
  BY <1>3, <1>4, EntryType
<1>6. second.ppn \in Nat
  <2> HIDE DEF first
  <2> QED BY <1>3, <1>5, EntryType
<1>7. vpn[1] = vpn1(va) /\ vpn[0] = vpn0(va)
  OBVIOUS
<1>8. At(root, 1) = first
  <2> HIDE DEF vpn
  <2> QED BY <1>3, <1>4, <1>7, LookedUp
<1>9. At(first.ppn * kPageSize, 0) = second
  <2> HIDE DEF vpn, first
  <2> QED BY <1>3, <1>5, <1>7, LookedUp DEF second
<1> HIDE DEF vpn, At, first, second, root
<1>10. pte[1] = first /\ pte[0] = second
  BY <1>8, <1>9
<1> HIDE DEF pte
<1>11. \A n \in Nat : Wrap(n * kPageSize + o) = PageAddr(n) + o
  BY <1>3, FrameWrap
<1>12. va \in Nat /\ VpnSize \in Nat \ {0}
  BY WordAssumption, MMUAssumption DEF Word
<1>13. (va \div kPageSize) % VpnSize = vpn0(va)
  BY DEF vpn0
<1> HIDE DEF to, o
<1>14. CASE Invalid(first)
  <2>1. last = 1 /\ Invalid(pte[last])
    BY <1>10, <1>14
  <2> HIDE DEF last, ends
  <2> QED BY <1>1, <1>2, <1>14, <2>1 DEF NoLeaf
<1>15. CASE ~Invalid(first) /\ ~Pointer(first)
  <2>1. last = 1 /\ low = VpnSize /\ ends # {} /\ ~Invalid(pte[last])
    BY <1>10, <1>15
  <2>2. pte[last] = first /\ ppn = first.ppn + vpn0(va)
    BY <1>10, <1>13, <2>1
  <2> HIDE DEF last, low, ends, ppn
  <2>3. first.ppn + vpn0(va) \in Nat
    BY <1>3, <1>5
  <2>4. Wrap(ppn * kPageSize + o) = PageAddr(first.ppn + vpn0(va)) + o
    BY <1>11, <2>2, <2>3
  <2>5. Sv32(c, m, va) = [ok |-> first.ppn % VpnSize = 0, flags |-> first.flags,
                          pa |-> PageAddr(first.ppn + vpn0(va)) + o]
    BY <1>1, <2>1, <2>2, <2>4
  <2>6. CASE first.ppn % VpnSize = 0
    BY <1>2, <1>15, <2>5, <2>6 DEF to
  <2>7. CASE first.ppn % VpnSize # 0
    <3> DEFINE aligned == first.ppn % VpnSize = 0
               place == PageAddr(first.ppn + vpn0(va)) + o
    <3>1. Walk(c, m, va) = NoLeaf
      BY <1>2, <1>15, <2>7
    <3>2. [ok |-> aligned, flags |-> first.flags, pa |-> place].ok = aligned
      <4> HIDE DEF aligned, place
      <4> QED OBVIOUS
    <3>3. Sv32(c, m, va).ok = (first.ppn % VpnSize = 0)
      BY <2>5, <3>2, Zenon
    <3>4. Sv32(c, m, va).ok = FALSE
      BY <2>7, <3>3, Zenon
    <3>5. NoLeaf.ok = FALSE
      BY DEF NoLeaf
    <3> QED BY <3>1, <3>4, <3>5, Zenon
  <2> QED BY <2>6, <2>7
<1>16. CASE ~Invalid(first) /\ Pointer(first)
  <2>1. last = 0 /\ low = 1 /\ pte[last] = second
    BY <1>10, <1>16
  <2>2. ends = {} <=> ~Invalid(second) /\ Pointer(second)
    BY <1>10, <1>16
  <2> HIDE DEF last, ends
  <2>3. CASE Invalid(second) \/ Pointer(second)
    <3>1. Sv32(c, m, va) = NoLeaf /\ Walk(c, m, va) = NoLeaf
      BY <1>1, <1>2, <1>16, <2>1, <2>2, <2>3
    <3> QED BY <3>1 DEF NoLeaf
  <2>4. CASE ~Invalid(second) /\ ~Pointer(second)
    <3>1. ppn = second.ppn /\ second.ppn % low = 0
      BY <1>6, <1>12, <2>1 DEF kPageSize
    <3> HIDE DEF low, ppn
    <3>2. Wrap(ppn * kPageSize + o) = PageAddr(second.ppn) + o
      BY <1>6, <1>11, <3>1
    <3>3. Sv32(c, m, va) = [ok |-> TRUE, flags |-> second.flags,
                            pa |-> PageAddr(second.ppn) + o]
      BY <1>1, <2>1, <2>2, <2>4, <3>1, <3>2
    <3>4. Walk(c, m, va) = to(first.ppn, second.flags)
      BY <1>2, <1>16, <2>4
    <3> QED BY <1>16, <3>3, <3>4 DEF to, first
  <2> QED BY <2>3, <2>4
<1> QED BY <1>14, <1>15, <1>16

----------------------------------------------------------------------------
\* What holds of every step.

\* The table that a step found lets it change the words it changes.
Protected ==
  Translated(csr) =>
    \A a \in MemAddr \ Volatile : mem'[a] # mem[a] =>
      LET found == [mem' EXCEPT ![a] = mem[a]]
      IN  \E p \in Pages :
            /\ ~PageFault(csr, found, p + offset(a), "w")
            /\ GetPhysicalAddr(csr, found, p + offset(a)) = a

LEMMA CycleProtected ==
  ASSUME CoreInv, NEW words \in [Volatile -> Word], NEW lines \in Lines,
         NextCycle(Refreshed(words), lines)
  PROVE  Protected
<1> DEFINE m == Refreshed(words)
<1>1. m \in Memory /\ \A a \in MemAddr \ Volatile : m[a] = mem[a]
  BY RefreshedType DEF Refreshed
<1>2. mem' # m => Stored(csr, m, mem')
  BY <1>1, CycleContract DEF StepContract
<1>3. GoodCSR(csr)
  BY DEF CoreInv, TypeOK, GoodCSR, StatusMirror, MTVecLegal
<1> HIDE DEF m
<1>4. SUFFICES ASSUME Translated(csr), NEW a \in MemAddr \ Volatile,
                      mem'[a] # mem[a]
               PROVE  /\ [mem' EXCEPT ![a] = mem[a]] = m
                      /\ \E p \in Pages :
                           /\ ~PageFault(csr, m, p + offset(a), "w")
                           /\ GetPhysicalAddr(csr, m, p + offset(a)) = a
  BY Zenon DEF Protected
<1>5. mem[a] = m[a] /\ mem'[a] # m[a] /\ Stored(csr, m, mem')
  BY <1>1, <1>2, <1>4
<1>6. [mem' EXCEPT ![a] = m[a]] = m
  BY <1>1, <1>3, <1>4, <1>5, StoredInPage
<1>7. \E p \in Pages :
        /\ ~PageFault(csr, m, p + offset(a), "w")
        /\ GetPhysicalAddr(csr, m, p + offset(a)) = a
  BY <1>1, <1>3, <1>4, <1>5, StoredInPage
<1> QED BY <1>5, <1>6, <1>7

\* A cycle over the memory as it is when the cycle begins.
StepAllowed ==
  /\ Protected /\ EpcStep(pc)
  /\ \E m \in Memory :
       /\ \A a \in MemAddr \ Volatile : m[a] = mem[a]
       /\ StepContract(m, pc)

LEMMA StepIsAllowed ==
  ASSUME CoreInv, Next
  PROVE  StepAllowed
<1>1. PICK lines \in Lines, words \in [Volatile -> Word] :
        NextCycle(Refreshed(words), lines)
  BY DEF Next
<1> DEFINE m == Refreshed(words)
<1>2. m \in Memory /\ \A a \in MemAddr \ Volatile : m[a] = mem[a]
  BY RefreshedType DEF Refreshed
<1>3. StepContract(m, pc) /\ EpcStep(pc)
  BY <1>1, <1>2, CycleContract, CycleGood
<1> HIDE DEF m
<1> QED BY <1>1, <1>2, <1>3, CycleProtected DEF StepAllowed

----------------------------------------------------------------------------
\* The theorems.

\* A trap saves in mepc, mpp and mpie the pc, the mode and the interrupt enable
\* of the instruction it was taken at (state.cpp: CheckAndClearExcFlag).
THEOREM TrapsRecordContext == Spec => TrapRecordsContext
<1>1. CoreInv /\ [Next]_vars =>
        [event'.trap # "none" =>
           /\ csr'.mepc = pc
           /\ kMIE \notin csr'.mstatus
           /\ event'.op \notin {"mret", "sret"} => Mpp(csr'.mstatus) = csr.priv
           /\ event'.op \notin CSROp \cup {"mret", "sret"} =>
                (kMPIE \in csr'.mstatus <=> kMIE \in csr.mstatus)]_vars
  BY StepIsAllowed DEF StepAllowed, StepContract, SavesStatus, EpcStep
<1> QED BY SpecInv, <1>1, PTL DEF Spec, TrapRecordsContext

\* An instruction that raises an exception leaves no trace of itself in the
\* registers, in memory or in the control registers that a trap does not set:
\* the units write none of them before the last of their checks.
THEOREM ExceptionsArePrecise == Spec => ExceptionIsPrecise
<1>1. CoreInv /\ [Next]_vars =>
        [event'.trap = "sync" =>
           /\ \A a \in MemAddr \ Volatile : mem'[a] = mem[a]
           /\ regs' = regs
           /\ csr'.satp = csr.satp /\ csr'.mie = csr.mie
           /\ csr'.mtvec = csr.mtvec /\ csr'.mscratch = csr.mscratch
           /\ csr'.sscratch = csr.sscratch /\ csr'.sepc = csr.sepc
           /\ event'.op # "sret" => csr'.sstatus = csr.sstatus]_vars
  BY StepIsAllowed DEF StepAllowed, StepContract, IsPrecise
<1> QED BY SpecInv, <1>1, PTL DEF Spec, ExceptionIsPrecise

\* mtval names an address that is at fault, for the kind of access mcause tells
\* (mmu.cpp: last_vaddr_, lsu.cpp: CHECK_PAGE_FAULT).
THEOREM FaultAddressIsAtFault == Spec => FaultAddress
<1>1. CoreInv /\ [Next]_vars =>
        [event'.trap = "sync" =>
           LET cause == csr'.mcause
               at    == csr'.mtval
           IN  /\ cause = kExcInstPageFault =>
                    at = pc /\ PageFault(csr, mem', at, "x")
               /\ cause = kExcLoadPageFault => PageFault(csr, mem', at, "r")
               /\ cause = kExcStAMOPageFault =>
                    PageFault(csr, mem', at, "r") \/ PageFault(csr, mem', at, "w")
               /\ cause \in {kExcInstAddrMisalign, kExcLoadAddrMisalign,
                             kExcStAMOAddrMisalign} => at % 4 # 0]_vars
  BY StepIsAllowed DEF StepAllowed, StepContract, IsPrecise, AtFault, AddrMisalign
<1> QED BY SpecInv, <1>1, PTL DEF Spec, FaultAddress

\* Code below a level changes the registers of that level by a trap only
\* (csr.cpp: the level in a register's number, and the mask of sstatus).
THEOREM PrivilegeGuardsCSRs == Spec => PrivilegeProtectsCSRs
<1>1. CoreInv /\ [Next]_vars =>
        [event'.trap = "none" =>
           /\ csr.priv < kPrivLevelM =>
                /\ csr'.mstatus \ kMaskSStatus = csr.mstatus \ kMaskSStatus
                /\ csr'.mie = csr.mie /\ csr'.mtvec = csr.mtvec
                /\ csr'.mscratch = csr.mscratch /\ csr'.mepc = csr.mepc
                /\ csr'.mcause = csr.mcause /\ csr'.mtval = csr.mtval
           /\ csr.priv < kPrivLevelS =>
                /\ csr'.sstatus = csr.sstatus /\ csr'.satp = csr.satp
                /\ csr'.sscratch = csr.sscratch /\ csr'.sepc = csr.sepc]_vars
  BY StepIsAllowed DEF StepAllowed, StepContract, Guarded
<1> QED BY SpecInv, <1>1, PTL DEF Spec, PrivilegeProtectsCSRs

\* While addresses are translated, a step changes a word of memory or of a
\* device only where GetPhysicalAddr leads from a page that the table it found
\* lets it write (mmu.cpp: the writes return early when GetPhysicalAddr fails).
THEOREM StoresGoThroughTheTable == Spec => StoresAreChecked
<1>1. CoreInv /\ [Next]_vars =>
        [Translated(csr) =>
           \A a \in MemAddr \ Volatile : mem'[a] # mem[a] =>
             LET found == [mem' EXCEPT ![a] = mem[a]]
             IN  \E p \in Pages :
                   /\ ~PageFault(csr, found, p + offset(a), "w")
                   /\ GetPhysicalAddr(csr, found, p + offset(a)) = a]_vars
  BY StepIsAllowed DEF StepAllowed, Protected
<1> QED BY SpecInv, <1>1, PTL DEF Spec, StoresAreChecked

\* The unrolled walk of the MMU finds a leaf when the loop of its comment does
\* (mmu.cpp:8-44 beside :108-138), the same flags in it and, in a superpage, the
\* same address: for every table, page and size of the address space, though it
\* keeps no more of an address than a word holds.
THEOREM FaultsAreSv32s == Spec => FaultsAsSv32
<1>1. CoreInv' => WalkAgrees(csr', mem')
  <2> SUFFICES ASSUME CoreInv' PROVE WalkAgrees(csr', mem')
    OBVIOUS
  <2>1. GoodCSR(csr') /\ mem' \in Memory
    BY DEF CoreInv, TypeOK, GoodCSR, StatusMirror, MTVecLegal
  <2>2. Pages \subseteq Word
    <3>1. Frames \in Nat \ {0} /\ WordSize = 4096 * Frames
      BY MMUAssumption DEF Frames, kPageSize
    <3> QED BY <3>1 DEF Pages, Word, kPageSize
  <2> QED BY <2>1, <2>2, WalkUnrolls DEF WalkAgrees
<1>2. CoreInv /\ [Next]_vars =>
        [(mem' # mem \/ csr'.satp # csr.satp) => WalkAgrees(csr', mem')]_vars
  BY <1>1, StepGood
<1> QED BY SpecInv, <1>2, PTL DEF Spec, FaultsAsSv32

=============================================================================
