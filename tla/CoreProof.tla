----------------------------- MODULE CoreProof -----------------------------
(***************************************************************************)
(* Proofs about Core, for every word size, register file, address map,     *)
(* page table and program.                                                 *)
(*                                                                         *)
(* The inductive invariant is CoreInv.  Each functional unit is shown to   *)
(* turn a sound working record into a sound one (Safe), and WriteBack to   *)
(* turn a sound working record into a state with CoreInv.                  *)
(***************************************************************************)
EXTENDS Core, IntUnitProof

\* What holds of the control registers at every point of a cycle.
GoodCSR(c) ==
  /\ c \in Registers
  /\ c.sstatus = c.mstatus \cap kMaskSStatus
  /\ c.mtvec % 4 < 2

\* mtvec never has a reserved mode, so that the target of a trap is aligned.
MTVecLegal == csr.mtvec % 4 < 2

\* Between two cycles the latch holds the enables as they are.
LatchSame == latch = [mstatus |-> csr.mstatus, mie |-> csr.mie]

\* Register 0 is zero: a trap, which clears it, changes no register.
ZeroReg == regs[0] = 0

CoreInv ==
  TypeOK /\ PcAligned /\ StatusMirror /\ MTVecLegal /\ LatchSame /\ ZeroReg

\* What an instruction can raise: no unit raises an interrupt.
SyncExc == 0 .. 31 \cup {kStateExcCodeReset}

\* The working records, and those that CheckInterrupt has seen.
Work ==
  [pc : Word, npc : Word, regs : [Reg -> Word], exc : SyncExc, csr : Registers,
   mon : Monitor, mem : Memory, bad : BOOLEAN, vaddr : Word]
Checked ==
  [pc : Word, npc : Word, regs : [Reg -> Word], exc : Word, csr : Registers,
   mon : Monitor, mem : Memory, bad : BOOLEAN, vaddr : Word]

GoodWork(w) == w \in Work /\ GoodCSR(w.csr) /\ w.pc % 4 = 0
GoodChecked(w) == w \in Checked /\ GoodCSR(w.csr) /\ w.pc % 4 = 0

\* A unit, started on w, leaves a sound record x that has no more privilege.
Safe(w, x) ==
  /\ GoodWork(x)
  /\ x.pc = w.pc
  /\ x.csr.priv <= w.csr.priv

----------------------------------------------------------------------------
\* Words.

\* The small numbers the code names are words.
LEMMA SmallWords == 0 .. 31 \subseteq Word
BY WordAssumption, CSRAssumption DEF Word

LEMMA SyncWords == SyncExc \subseteq Word /\ 0 .. 31 \subseteq SyncExc
<1>1. kStateExcCodeReset \in Word
  BY WordAssumption DEF kStateExcCodeReset, Word
<1> QED BY <1>1, SmallWords DEF SyncExc

LEMMA IntrBitFacts ==
  /\ kIntrBit \in Nat /\ kIntrBit >= 32 /\ WordSize = 2 * kIntrBit
  /\ kIntrBit % 4 = 0
BY CSRAssumption, WordBounds DEF kIntrBit

----------------------------------------------------------------------------
\* Control registers.

LEMMA LegalMppValue ==
  ASSUME NEW bits PROVE LegalMpp(bits) \cap kMaskMStatus \in MStatusValues
BY DEF LegalMpp, kMaskMStatus, MStatusValues, Mpp, kMPPLo, kMPPHi, Priv,
       kPrivLevelU, kPrivLevelS, kPrivLevelM

LEMMA WriteMStatusGood ==
  ASSUME NEW c, GoodCSR(c), NEW bits
  PROVE  /\ GoodCSR(WriteMStatus(c, bits))
         /\ WriteMStatus(c, bits).priv = c.priv
<1> DEFINE new == LegalMpp(bits) \cap kMaskMStatus
           view == ((c.sstatus \ kMaskMStatus) \cup new) \cap kMaskSStatus
<1>1. new \in MStatusValues
  BY LegalMppValue
<1>2. view = new \cap kMaskSStatus /\ view \in SUBSET kMaskSStatus
  BY DEF kMaskSStatus, kMaskMStatus
<1>3. WriteMStatus(c, bits) = [c EXCEPT !.mstatus = new, !.sstatus = view]
  BY DEF WriteMStatus
<1> HIDE DEF new, view
<1> QED BY <1>1, <1>2, <1>3 DEF GoodCSR, Registers

LEMMA WriteSStatusGood ==
  ASSUME NEW c, GoodCSR(c), NEW bits
  PROVE  /\ GoodCSR(WriteSStatus(c, bits))
         /\ WriteSStatus(c, bits).priv = c.priv
<1> DEFINE view == bits \cap kMaskSStatus
           new == ((c.mstatus \ kMaskSStatus) \cup view) \cap kMaskMStatus
<1>1. new \in MStatusValues
  BY DEF GoodCSR, Registers, MStatusValues, Mpp, kMPPLo, kMPPHi, kMaskSStatus,
         kMaskMStatus, kSPP
<1>2. view = new \cap kMaskSStatus /\ view \in SUBSET kMaskSStatus
  BY DEF kMaskSStatus, kMaskMStatus
<1>3. WriteSStatus(c, bits) = [c EXCEPT !.sstatus = view, !.mstatus = new]
  BY DEF WriteSStatus
<1> HIDE DEF new, view
<1> QED BY <1>1, <1>2, <1>3 DEF GoodCSR, Registers

LEMMA LegalMTVecType ==
  ASSUME NEW x \in Word
  PROVE  LegalMTVec(x) \in Word /\ LegalMTVec(x) % 4 < 2
<1>1. x \in Nat /\ x < WordSize
  BY WordAssumption DEF Word
<1> QED BY <1>1, WordAssumption DEF LegalMTVec, Word

LEMMA WriteDataGood ==
  ASSUME NEW c, GoodCSR(c), NEW addr \in Nat, NEW value \in Word
  PROVE  /\ GoodCSR(WriteData(c, addr, value))
         /\ WriteData(c, addr, value).priv = c.priv
<1> DEFINE x == WriteData(c, addr, value)
           satp == BitsOf(value) \cap kMaskSATP
           mie == BitsOf(value) \cap kMaskMIE
           mtvec == LegalMTVec(value)
<1>1. \/ x = WriteSStatus(c, BitsOf(value))
      \/ x = WriteMStatus(c, BitsOf(value))
      \/ x = [c EXCEPT !.satp = satp]
      \/ x = [c EXCEPT !.mie = mie]
      \/ x = [c EXCEPT !.mtvec = mtvec]
      \/ x = [c EXCEPT !.sscratch = value]
      \/ x = [c EXCEPT !.sepc = value]
      \/ x = [c EXCEPT !.mscratch = value]
      \/ x = [c EXCEPT !.mepc = value]
      \/ x = [c EXCEPT !.mcause = value]
      \/ x = [c EXCEPT !.mtval = value]
      \/ x = c
  <2> DEFINE e1 == WriteSStatus(c, BitsOf(value))
             e2 == WriteMStatus(c, BitsOf(value))
             e3 == [c EXCEPT !.satp = satp]
             e4 == [c EXCEPT !.mie = mie]
             e5 == [c EXCEPT !.mtvec = mtvec]
             e6 == [c EXCEPT !.sscratch = value]
             e7 == [c EXCEPT !.sepc = value]
             e8 == [c EXCEPT !.mscratch = value]
             e9 == [c EXCEPT !.mepc = value]
             e10 == [c EXCEPT !.mcause = value]
             e11 == [c EXCEPT !.mtval = value]
  <2>1. x = CASE addr = kCSRSStatus  -> e1
              [] addr = kCSRMStatus  -> e2
              [] addr = kCSRSATP     -> e3
              [] addr = kCSRMIE      -> e4
              [] addr = kCSRMTVec    -> e5
              [] addr = kCSRSScratch -> e6
              [] addr = kCSRSEPC     -> e7
              [] addr = kCSRMScratch -> e8
              [] addr = kCSRMEPC     -> e9
              [] addr = kCSRMCause   -> e10
              [] addr = kCSRMTVal    -> e11
              [] OTHER               -> c
    BY Zenon DEF WriteData
  <2> HIDE DEF x, e1, e2, e3, e4, e5, e6, e7, e8, e9, e10, e11
  <2>2. x \in {e1, e2, e3, e4, e5, e6, e7, e8, e9, e10, e11, c}
    BY <2>1
  <2> QED BY <2>2 DEF e1, e2, e3, e4, e5, e6, e7, e8, e9, e10, e11
<1>2. /\ satp \in SUBSET Bit /\ mie \in SUBSET kMaskMIE
      /\ mtvec \in Word /\ mtvec % 4 < 2
  BY BitsOfType, LegalMTVecType
<1> HIDE DEF x, satp, mie, mtvec
<1>3. /\ GoodCSR([c EXCEPT !.satp = satp])
      /\ GoodCSR([c EXCEPT !.mie = mie])
      /\ GoodCSR([c EXCEPT !.mtvec = mtvec])
  BY <1>2 DEF GoodCSR, Registers
<1>4. GoodCSR(x) /\ x.priv = c.priv
  <2>1. CASE x = WriteSStatus(c, BitsOf(value))
    BY <2>1, WriteSStatusGood
  <2>2. CASE x = WriteMStatus(c, BitsOf(value))
    BY <2>2, WriteMStatusGood
  <2>3. CASE x \in {[c EXCEPT !.satp = satp], [c EXCEPT !.mie = mie],
                    [c EXCEPT !.mtvec = mtvec]}
    <3>1. x.priv = c.priv
      BY <2>3 DEF GoodCSR, Registers
    <3> QED BY <2>3, <3>1, <1>3
  <2>4. CASE x \in {[c EXCEPT !.sscratch = value], [c EXCEPT !.sepc = value],
                    [c EXCEPT !.mscratch = value], [c EXCEPT !.mepc = value],
                    [c EXCEPT !.mcause = value], [c EXCEPT !.mtval = value], c}
    <3>1. x.priv = c.priv
      BY <2>4 DEF GoodCSR, Registers
    <3>2. GoodCSR(x)
      BY <2>4 DEF GoodCSR, Registers
    <3> QED BY <3>1, <3>2
  <2> QED BY <1>1, <2>1, <2>2, <2>3, <2>4
<1> QED BY <1>4 DEF x

LEMMA ReadDataType ==
  ASSUME NEW c, GoodCSR(c), NEW addr \in Nat
  PROVE  ReadData(c, addr) \in Word
<1>1. /\ c.sstatus \in SUBSET Bit /\ c.mstatus \in SUBSET Bit
      /\ c.mie \in SUBSET Bit /\ c.mip \in SUBSET Bit /\ c.satp \in SUBSET Bit
      /\ kMISA \in SUBSET Bit
  BY WordAssumption, CSRAssumption
     DEF GoodCSR, Registers, Bit, MStatusValues, kMaskSStatus, kMaskMStatus,
         kMaskMIE, kMISA, kMIE, kMPIE, kSPP, kMPPLo, kMPPHi, kMSI, kMTI, kMEI
<1>2. /\ WordOf(c.sstatus) \in Word /\ WordOf(c.mstatus) \in Word
      /\ WordOf(c.mie) \in Word /\ WordOf(c.mip) \in Word
      /\ WordOf(c.satp) \in Word /\ WordOf(kMISA) \in Word
  BY <1>1, WordOfType
<1>3. /\ c.sscratch \in Word /\ c.sepc \in Word /\ c.mtvec \in Word
      /\ c.mscratch \in Word /\ c.mepc \in Word /\ c.mcause \in Word
      /\ c.mtval \in Word /\ 0 \in Word
  BY SmallWords DEF GoodCSR, Registers
<1> QED BY <1>2, <1>3 DEF ReadData

LEMMA ModFact ==
  ASSUME NEW q \in Nat \ {0}, NEW x \in Nat, x % 4 = 0
  PROVE  x % (4 * q) \in 0 .. 4 * q - 1 /\ (x % (4 * q)) % 4 = 0
<1> DEFINE d == x \div (4 * q)
           r == x % (4 * q)
<1>1. d \in Int /\ r \in 0 .. 4 * q - 1 /\ x = (4 * q) * d + r
  OBVIOUS
<1>2. PICK p \in Int : p = q * d
  BY <1>1
<1>3. x = 4 * p + r
  BY <1>1, <1>2
<1> QED BY <1>1, <1>3

\* A trap goes to an aligned word, in vectored mode too.
LEMMA TrapVecAligned ==
  ASSUME NEW c, GoodCSR(c)
  PROVE  trap_vec(c) \in Word /\ trap_vec(c) % 4 = 0
<1>1. c.mtvec \in Nat /\ c.mtvec < WordSize /\ c.mcause \in Nat
  BY WordAssumption DEF GoodCSR, Registers, Word
<1>2. CASE c.mtvec % 4 = 1 /\ c.mcause >= kIntrBit
  <2> DEFINE x == c.mtvec - 1 + (c.mcause - kIntrBit) * 4
             q == WordSize \div 4
  <2>1. x \in Nat /\ x % 4 = 0
    BY <1>1, <1>2, IntrBitFacts
  <2>2. q \in Nat \ {0} /\ WordSize = 4 * q
    BY WordAssumption, CSRAssumption
  <2>3. trap_vec(c) = x % (4 * q)
    BY <1>2, <2>2 DEF trap_vec
  <2> HIDE DEF x, q
  <2> QED BY <2>1, <2>2, <2>3, ModFact DEF Word
<1>3. CASE ~(c.mtvec % 4 = 1 /\ c.mcause >= kIntrBit)
  <2> DEFINE m == c.mtvec
  <2>1. m \in 0 .. WordSize - 1 /\ WordSize \in Nat
    BY <1>1, WordAssumption
  <2>2. trap_vec(c) = m - (m % 4)
    BY <1>3 DEF trap_vec
  <2> HIDE DEF m
  <2> QED BY <2>1, <2>2 DEF Word
<1> QED BY <1>2, <1>3

----------------------------------------------------------------------------
\* Exceptions and the bus.

\* The levels are ordered as numbers.
LEMMA PrivRange ==
  ASSUME NEW c, GoodCSR(c)
  PROVE  c.priv \in 0 .. 3 /\ c.priv <= c.priv
BY DEF GoodCSR, Registers, Priv, kPrivLevelU, kPrivLevelS, kPrivLevelM

LEMMA RaiseSafe ==
  ASSUME NEW w, GoodWork(w), NEW code \in SyncExc, NEW tval \in Word
  PROVE  /\ Safe(w, RaiseException(w, code, tval))
         /\ RaiseException(w, code, tval).csr.priv = w.csr.priv
<1> DEFINE b == w.csr
           c == [b EXCEPT !.mcause = code, !.mtval = tval]
<1>1. GoodCSR(b) /\ b.priv <= b.priv
  BY PrivRange DEF GoodWork
<1>2. RaiseException(w, code, tval) \in {w, [w EXCEPT !.exc = code, !.csr = c]}
  BY DEF RaiseException
<1> HIDE DEF b
<1>3. GoodCSR(c) /\ c.priv = b.priv
  BY <1>1, SyncWords DEF GoodCSR, Registers
<1> HIDE DEF c
<1>4. CASE RaiseException(w, code, tval) = w
  BY <1>1, <1>4 DEF Safe, b
<1>5. CASE RaiseException(w, code, tval) = [w EXCEPT !.exc = code, !.csr = c]
  <2> DEFINE x == [w EXCEPT !.exc = code, !.csr = c]
  <2>1. x \in Work /\ x.csr = c /\ x.pc = w.pc
    BY <1>3 DEF GoodWork, Work, GoodCSR
  <2> HIDE DEF x
  <2>2. RaiseException(w, code, tval) = x
    BY <1>5 DEF x
  <2> QED BY <1>1, <1>3, <2>1, <2>2 DEF Safe, GoodWork, b
<1> QED BY <1>2, <1>4, <1>5

LEMMA ResetPriority == GetExcPriority(kStateExcCodeReset) = 0
<1>1. /\ kStateExcCodeReset \notin 0 .. 31
      /\ kStateExcCodeReset \notin {kIntrBit + 3, kIntrBit + 7, kIntrBit + 11}
  BY IntrBitFacts DEF kStateExcCodeReset
<1> QED
  BY <1>1 DEF GetExcPriority, kMSI, kMTI, kMEI, kExcInstAddrMisalign,
     kExcIllegalInst, kExcBreakpoint, kExcLoadAddrMisalign,
     kExcStAMOAddrMisalign, kExcUEnvCall, kExcSEnvCall, kExcMEnvCall,
     kExcInstPageFault, kExcLoadPageFault, kExcStAMOPageFault

LEMMA BusReadType ==
  ASSUME NEW m \in Memory, NEW pa \in Word, NEW n
  PROVE  BusRead(m, pa, n) \in Word
<1> DEFINE bits == {b \in Lanes(0, n) :
                      b + (pa % 4) * ByteWidth \in BitsOf(m[pa - (pa % 4)])}
<1>1. WordOf(bits) \in Word
  <2>1. bits \in SUBSET Bit
    BY DEF Lanes
  <2> QED BY <2>1, WordOfType
<1> HIDE DEF bits
<1>2. BusRead(m, pa, n) \in
        {m[pa - (pa % 4)], WordOf(bits), m[pa], 0}
      /\ (BusRead(m, pa, n) = m[pa - (pa % 4)] => pa - (pa % 4) \in RamAddr
            \/ BusRead(m, pa, n) \in {WordOf(bits), m[pa], 0})
  BY DEF BusRead, bits
<1>3. IsRegister(pa, n) => m[pa] \in Word
  BY DEF IsRegister, IsClint, IsHalt, Memory, MemAddr
<1>4. pa - (pa % 4) \in RamAddr => m[pa - (pa % 4)] \in Word
  BY DEF Memory, MemAddr
<1> QED BY <1>1, <1>3, <1>4, SmallWords DEF BusRead, bits

LEMMA BusWriteType ==
  ASSUME NEW m \in Memory, NEW pa \in Word, NEW n, NEW v \in Word
  PROVE  BusWrite(m, pa, n, v) \in Memory
<1> DEFINE at == pa - (pa % 4)
           bits == (BitsOf(m[at]) \ Lanes(pa % 4, n)) \cup
                   {b \in Lanes(pa % 4, n) :
                      b - (pa % 4) * ByteWidth \in BitsOf(v)}
           new == IF n = 4 THEN v ELSE WordOf(bits)
           flag == IF BitsOf(v) \cap Lanes(0, n) = {} THEN 0 ELSE 1
<1>1. at \in RamAddr => new \in Word
  <2> SUFFICES ASSUME at \in RamAddr PROVE WordOf(bits) \in Word
    OBVIOUS
  <2>1. m[at] \in Word
    BY DEF Memory, MemAddr
  <2>2. bits \in SUBSET Bit
    BY <2>1, BitsOfType DEF Lanes
  <2> QED BY <2>2, WordOfType
<1>2. flag \in Word /\ 1 \in Word
  BY SmallWords
<1>3. BusWrite(m, pa, n, v) =
        IF at \in RamAddr THEN [m EXCEPT ![at] = new]
        ELSE IF IsPort(pa, n) THEN [m EXCEPT ![pa] = 1]
        ELSE IF ~IsRegister(pa, n) THEN m
        ELSE IF pa \notin {MSIP, HaltAddr} THEN [m EXCEPT ![pa] = v]
        ELSE [m EXCEPT ![pa] = flag]
  BY DEF BusWrite
<1> HIDE DEF at, new, flag
<1> QED BY <1>1, <1>2, <1>3 DEF Memory

LEMMA OffsetFacts ==
  ASSUME NEW a \in Word
  PROVE  /\ offset(a) \in Nat /\ offset(a) < 4096 /\ offset(a) % 4 = a % 4
         /\ vpn0(a) \in Nat /\ vpn0(a) < 1024
         /\ vpn1(a) \in Nat /\ vpn1(a) < 1024
<1>1. a \in Nat
  BY WordAssumption DEF Word
<1>2. offset(a) \in Nat /\ offset(a) < 4096 /\ offset(a) % 4 = a % 4
  BY <1>1 DEF offset, kPageSize
<1> DEFINE n == a \div kPageSize
           k == a \div (kPageSize * VpnSize)
<1>3. n \in Nat /\ k \in Nat /\ VpnSize \in Nat \ {0}
  BY <1>1, MMUAssumption DEF kPageSize
<1> HIDE DEF n, k
<1>4. n % VpnSize \in 0 .. VpnSize - 1 /\ k % VpnSize \in 0 .. VpnSize - 1
  BY <1>3
<1>5. vpn0(a) = n % VpnSize /\ vpn1(a) = k % VpnSize
  BY DEF vpn0, vpn1, n, k
<1>6. VpnSize <= 1024 /\ VpnSize \in Nat
  BY MMUAssumption
<1> QED BY <1>2, <1>4, <1>5, <1>6

\* A page lies within the words, whatever the frame number.
LEMMA PageInWords ==
  ASSUME NEW ppn \in Nat, NEW d \in Nat, d < 4096
  PROVE  /\ PageAddr(ppn) + d \in Word
         /\ (PageAddr(ppn) + d) % 4 = d % 4
<1>1. Frames \in Nat \ {0}
  BY MMUAssumption DEF Frames
<1> DEFINE f == ppn % Frames
<1>2. f \in 0 .. Frames - 1
  BY <1>1
<1>3. PageAddr(ppn) = 4096 * f
  BY DEF PageAddr, kPageSize
<1>4. WordSize = 4096 * Frames
  BY MMUAssumption DEF kPageSize
<1> HIDE DEF f
<1> QED BY <1>1, <1>2, <1>3, <1>4 DEF Word

LEMMA EntryType ==
  ASSUME NEW m \in Memory, NEW ppn \in Nat, NEW i \in Nat, i < 1024
  PROVE  /\ Entry(m, ppn, i).ppn \in Nat
         /\ Entry(m, ppn, i).flags \in SUBSET Flag
<1> DEFINE d == 4 * i
           x == BusRead(m, PageAddr(ppn) + d, 4)
<1>1. d \in Nat /\ d < 4096
  OBVIOUS
<1>2. Entry(m, ppn, i) = PTE(x)
  BY DEF Entry
<1> HIDE DEF d
<1>3. PageAddr(ppn) + d \in Word
  BY <1>1, PageInWords
<1>4. x \in Nat
  BY <1>3, BusReadType, WordAssumption DEF Word
<1> HIDE DEF x
<1>5. x \div 1024 \in Nat
  BY <1>4
<1> QED BY <1>2, <1>5 DEF PTE

\* Where a walk ends up: at a word, and at the same offset in its page.
LEMMA WalkType ==
  ASSUME NEW c, GoodCSR(c), NEW m \in Memory, NEW a \in Word
  PROVE  /\ Walk(c, m, a).pa \in Word
         /\ Walk(c, m, a).ok => Walk(c, m, a).pa % 4 = a % 4
<1> DEFINE root == Entry(m, satp_ppn(c), vpn1(a))
           leaf == Entry(m, root.ppn, vpn0(a))
           pa(ppn) == PageAddr(ppn) + offset(a)
           to(ppn, flags) == [ok |-> TRUE, flags |-> flags, pa |-> pa(ppn)]
<1>1. satp_ppn(c) \in Nat
  <2>1. c.satp \ {kSATPMode} \in SUBSET Bit
    BY DEF GoodCSR, Registers
  <2> QED BY <2>1, WordOfType, WordAssumption DEF satp_ppn, Word
<1> DEFINE d == offset(a)
           j == vpn0(a)
<1>6. /\ d \in Nat /\ d < 4096 /\ d % 4 = a % 4
      /\ j \in Nat /\ j < 1024 /\ vpn1(a) \in Nat /\ vpn1(a) < 1024
  BY OffsetFacts
<1> HIDE DEF d, j
<1>2. root.ppn \in Nat /\ leaf.ppn \in Nat
  <2>1. root.ppn \in Nat
    BY <1>1, <1>6, EntryType
  <2> HIDE DEF root
  <2> QED BY <2>1, <1>6, EntryType DEF j
<1>3. \A ppn \in Nat : pa(ppn) \in Word /\ pa(ppn) % 4 = a % 4
  <2> TAKE ppn \in Nat
  <2>1. PageAddr(ppn) + d \in Word /\ (PageAddr(ppn) + d) % 4 = d % 4
    BY <1>6, PageInWords
  <2> QED BY <1>6, <2>1 DEF d
<1>4. root.ppn + vpn0(a) \in Nat
  BY <1>2, <1>6 DEF j
<1>5. Walk(c, m, a) \in {NoLeaf, to(root.ppn + vpn0(a), root.flags),
                         to(root.ppn, leaf.flags)}
  BY DEF Walk
<1> HIDE DEF root, leaf, pa
<1> QED BY <1>2, <1>3, <1>4, <1>5, SmallWords DEF NoLeaf

LEMMA PhysicalAddr ==
  ASSUME NEW c, GoodCSR(c), NEW m \in Memory, NEW a \in Word
  PROVE  GetPhysicalAddr(c, m, a) \in Word
BY WalkType DEF GetPhysicalAddr

LEMMA MmuAccessGood ==
  ASSUME NEW w, GoodWork(w), NEW a \in Word, NEW kind
  PROVE  /\ Safe(w, MmuAccess(w, a, kind))
         /\ MmuAccess(w, a, kind).regs = w.regs
         /\ MmuAccess(w, a, kind).csr = w.csr
         /\ MmuAccess(w, a, kind).mem = w.mem
<1> DEFINE fault == PageFault(w.csr, w.mem, a, kind)
<1>1. fault \in BOOLEAN
  BY DEF PageFault, Refuses, Translated, CheckPTEProperty
<1> DEFINE x == [w EXCEPT !.vaddr = a, !.bad = fault]
<1>2. w.csr.priv <= w.csr.priv
  BY PrivRange DEF GoodWork
<1>3. MmuAccess(w, a, kind) \in {w, x}
  BY DEF MmuAccess
<1> HIDE DEF fault
<1>4. /\ x \in Work /\ x.pc = w.pc /\ x.regs = w.regs /\ x.csr = w.csr
      /\ x.mem = w.mem
  BY <1>1 DEF GoodWork, Work
<1> HIDE DEF x
<1> QED BY <1>2, <1>3, <1>4 DEF Safe, GoodWork

LEMMA ReadType ==
  ASSUME NEW w, GoodWork(w), NEW a \in Word, NEW n
  PROVE  Read(w, a, n) \in Word
<1>1. w.mem \in Memory /\ GoodCSR(w.csr)
  BY DEF GoodWork, Work
<1> QED BY <1>1, BusReadType, PhysicalAddr, SmallWords DEF Read

LEMMA WriteSafe ==
  ASSUME NEW w, GoodWork(w), NEW a \in Word, NEW n, NEW v \in Word
  PROVE  /\ Safe(w, Write(w, a, n, v))
         /\ Write(w, a, n, v).csr = w.csr
<1> DEFINE x == MmuAccess(w, a, "w")
           m == BusWrite(w.mem, GetPhysicalAddr(w.csr, w.mem, a), n, v)
<1>1. Safe(w, x) /\ x.csr = w.csr
  BY MmuAccessGood
<1>2. m \in Memory
  BY BusWriteType, PhysicalAddr DEF GoodWork, Work
<1>3. Write(w, a, n, v) \in {x, [x EXCEPT !.mem = m]}
  BY DEF Write
<1> HIDE DEF x, m
<1> QED BY <1>1, <1>2, <1>3 DEF Safe, GoodWork, Work

LEMMA SetRegSafe ==
  ASSUME NEW w, GoodWork(w), NEW rd \in Reg, NEW v \in Word
  PROVE  /\ Safe(w, SetReg(w, rd, v))
         /\ SetReg(w, rd, v).csr = w.csr
         /\ SetReg(w, rd, v).mem = w.mem
<1> DEFINE r == [w.regs EXCEPT ![rd] = v]
<1>1. r \in [Reg -> Word]
  BY DEF GoodWork, Work
<1>2. SetReg(w, rd, v) = [w EXCEPT !.regs = r]
  BY DEF SetReg
<1>3. w.csr.priv \in 0 .. 3
  BY PrivRange DEF GoodWork
<1> HIDE DEF r
<1> QED BY <1>1, <1>2, <1>3 DEF Safe, GoodWork, Work

LEMMA SafeTrans ==
  ASSUME NEW w, NEW x, NEW y, GoodWork(w), Safe(w, x), Safe(x, y)
  PROVE  Safe(w, y)
<1>1. w.csr.priv \in 0 .. 3 /\ x.csr.priv \in 0 .. 3 /\ y.csr.priv \in 0 .. 3
  BY PrivRange DEF Safe, GoodWork
<1> QED BY <1>1 DEF Safe

----------------------------------------------------------------------------
\* The functional units.

\* What the decoder hands to a unit.
GoodInst(i) == i \in Inst /\ Encode(i) \in Word

LEMMA InstFields ==
  ASSUME NEW i, GoodInst(i)
  PROVE  /\ i.rd \in Reg /\ i.rs2 \in Reg /\ i.imm \in Word /\ i.csr \in Nat
         /\ i.rs1 \in Word
         /\ i.op \in Op
         /\ i.op \notin CSRImmOp => i.rs1 \in Reg
BY CoreAssumption, SmallWords DEF GoodInst, Inst, Op, CSROp

\* A unit reads the register a non-immediate instruction names.
LEMMA RegType ==
  ASSUME NEW w, GoodWork(w), NEW r \in Reg PROVE w.regs[r] \in Word
BY DEF GoodWork, Work

LEMMA SafeSame == ASSUME NEW w, GoodWork(w) PROVE Safe(w, w)
BY PrivRange DEF Safe, GoodWork

LEMMA IllegalSafe ==
  ASSUME NEW w, GoodWork(w), NEW i, GoodInst(i) PROVE Safe(w, Illegal(w, i))
<1>1. kExcIllegalInst \in SyncExc
  BY SyncWords DEF kExcIllegalInst
<1> QED BY <1>1, RaiseSafe DEF Illegal, GoodInst

\* The exclusive monitor is no part of what the other fields promise.
LEMMA MonSafe ==
  ASSUME NEW w, GoodWork(w), NEW m \in Monitor
  PROVE  Safe(w, [w EXCEPT !.mon = m])
<1> DEFINE x == [w EXCEPT !.mon = m]
<1>1. x \in Work /\ x.csr = w.csr /\ x.pc = w.pc
  BY DEF GoodWork, Work
<1> HIDE DEF x
<1>2. Safe(w, x)
  BY <1>1, PrivRange DEF Safe, GoodWork
<1> QED BY <1>2 DEF x

LEMMA ClearFlagType == ClearFlag \in Monitor
BY SmallWords DEF ClearFlag, Monitor

\* A store to a misaligned address, and the other address exceptions.
LEMMA AddressSafe ==
  ASSUME NEW w, GoodWork(w), NEW a \in Word,
         NEW code \in {kExcStAMOAddrMisalign, kExcLoadAddrMisalign,
                       kExcInstAddrMisalign}
  PROVE  Safe(w, RaiseException(w, code, a))
<1>1. code \in 0 .. 31
  BY DEF kExcStAMOAddrMisalign, kExcLoadAddrMisalign, kExcInstAddrMisalign
<1>2. code \in SyncExc
  BY <1>1, SyncWords
<1> QED BY <1>2, RaiseSafe

\* A load into a register.
LEMMA ReadIntoSafe ==
  ASSUME NEW w, GoodWork(w), NEW a \in Word, NEW rd \in Reg, NEW v \in Word
  PROVE  Safe(w, SetReg(MmuAccess(w, a, "r"), rd, v))
<1>1. Safe(w, MmuAccess(w, a, "r"))
  BY MmuAccessGood
<1>2. Safe(MmuAccess(w, a, "r"), SetReg(MmuAccess(w, a, "r"), rd, v))
  BY <1>1, SetRegSafe DEF Safe
<1> QED BY <1>1, <1>2, SafeTrans

LEMMA LoadReservedSafe ==
  ASSUME NEW w, GoodWork(w), NEW i, GoodInst(i), i.op = "lr"
  PROVE  Safe(w, LoadReserved(w, i))
<1> DEFINE a == w.regs[i.rs1]
           r == [w EXCEPT !.mon = SetFlag(a)]
<1>1. a \in Word /\ i.rd \in Reg
  BY InstFields, RegType DEF CSRImmOp
<1>2. SetFlag(a) \in Monitor
  BY <1>1 DEF SetFlag, Monitor
<1>3. Safe(w, r)
  BY <1>2, MonSafe
<1> HIDE DEF r
<1>4. Read(r, a, 4) \in Word
  BY <1>1, <1>3, ReadType DEF Safe
<1>5. Safe(r, SetReg(MmuAccess(r, a, "r"), i.rd, Read(r, a, 4)))
  BY <1>1, <1>3, <1>4, ReadIntoSafe DEF Safe
<1>6. Safe(w, SetReg(MmuAccess(r, a, "r"), i.rd, Read(r, a, 4)))
  BY <1>3, <1>5, SafeTrans
<1>7. Safe(w, RaiseException(w, kExcStAMOAddrMisalign, a))
  BY <1>1, AddressSafe
<1>8. Safe(w, Illegal(w, i))
  BY IllegalSafe
<1> QED BY <1>6, <1>7, <1>8 DEF LoadReserved, r

LEMMA StoreConditionalSafe ==
  ASSUME NEW w, GoodWork(w), NEW i, GoodInst(i), i.op = "sc"
  PROVE  Safe(w, StoreConditional(w, i))
<1> DEFINE a == w.regs[i.rs1]
           stored == Write(w, a, 4, w.regs[i.rs2])
           r == IF CheckFlag(w.mon, a) THEN SetReg(stored, i.rd, 0)
                ELSE SetReg(w, i.rd, 1)
<1>1. a \in Word /\ i.rd \in Reg /\ w.regs[i.rs2] \in Word
  BY InstFields, RegType DEF CSRImmOp
<1>2. 0 \in Word /\ 1 \in Word
  BY SmallWords
<1>3. Safe(w, stored)
  BY <1>1, WriteSafe
<1>4. Safe(w, SetReg(stored, i.rd, 0))
  <2>1. Safe(stored, SetReg(stored, i.rd, 0))
    BY <1>1, <1>2, <1>3, SetRegSafe DEF Safe
  <2> QED BY <1>3, <2>1, SafeTrans
<1>5. Safe(w, SetReg(w, i.rd, 1))
  BY <1>1, <1>2, SetRegSafe
<1>6. Safe(w, r)
  BY <1>4, <1>5
<1> HIDE DEF r
<1>7. Safe(w, [r EXCEPT !.mon = ClearFlag])
  <2>1. Safe(r, [r EXCEPT !.mon = ClearFlag])
    BY <1>6, ClearFlagType, MonSafe DEF Safe
  <2> QED BY <1>6, <2>1, SafeTrans
<1>8. Safe(w, RaiseException(w, kExcStAMOAddrMisalign, a))
  BY <1>1, AddressSafe
<1> QED BY <1>7, <1>8 DEF StoreConditional, r

LEMMA AMOResultType ==
  ASSUME NEW op \in AMOOp, NEW x \in Word, NEW y \in Word
  PROVE  AMOResult(op, x, y) \in Word
<1> DEFINE b1 == PerformIntOp("xor", x, y)
           b2 == PerformIntOp("and", x, y)
           b3 == PerformIntOp("or", x, y)
<1>1. b1 \in Word /\ b2 \in Word /\ b3 \in Word
  BY PerformIntOpType DEF RegOp, IntOp
<1>2. Add(x, y) \in Word
  BY AddType
<1> HIDE DEF b1, b2, b3
<1> QED BY <1>1, <1>2 DEF AMOResult, AMOOp, b1, b2, b3

LEMMA ReadModifyWriteSafe ==
  ASSUME NEW w, GoodWork(w), NEW i, GoodInst(i), i.op \in AMOOp
  PROVE  Safe(w, ReadModifyWrite(w, i))
<1> DEFINE a == w.regs[i.rs1]
           data == Read(w, a, 4)
           r == SetReg(MmuAccess(w, a, "r"), i.rd, data)
           new == AMOResult(i.op, data, w.regs[i.rs2])
<1>1. a \in Word /\ i.rd \in Reg /\ w.regs[i.rs2] \in Word
  BY InstFields, RegType DEF CSRImmOp, AMOOp
<1>2. data \in Word
  BY <1>1, ReadType
<1>3. new \in Word
  BY <1>1, <1>2, AMOResultType
<1>4. Safe(w, r)
  BY <1>1, <1>2, ReadIntoSafe
<1>5. Safe(r, Write(r, a, 4, new))
  BY <1>1, <1>3, <1>4, WriteSafe DEF Safe
<1>6. Safe(w, Write(r, a, 4, new))
  BY <1>4, <1>5, SafeTrans
<1>7. Safe(w, RaiseException(w, kExcStAMOAddrMisalign, a))
  BY <1>1, AddressSafe
<1> QED BY <1>6, <1>7 DEF ReadModifyWrite

LEMMA ExtendType ==
  ASSUME NEW op, NEW v \in Word PROVE Extend(op, v) \in Word
<1> DEFINE bits == BitsOf(v) \cup {b \in Bit : b > Width(op) * ByteWidth - 1}
<1>1. WordOf(bits) \in Word
  BY BitsOfType, WordOfType
<1>2. Extend(op, v) \in {WordOf(bits), v}
  BY DEF Extend
<1> QED BY <1>1, <1>2

LEMMA LoadSafe ==
  ASSUME NEW w, GoodWork(w), NEW i, GoodInst(i), i.op \in LoadOp
  PROVE  Safe(w, Load(w, i))
<1> DEFINE a == Add(w.regs[i.rs1], i.imm)
           v == Extend(i.op, Read(w, a, Width(i.op)))
<1>1. a \in Word /\ i.rd \in Reg
  BY InstFields, RegType, AddType DEF CSRImmOp, LoadOp
<1>2. v \in Word
  BY <1>1, ReadType, ExtendType
<1>3. Safe(w, SetReg(MmuAccess(w, a, "r"), i.rd, v))
  BY <1>1, <1>2, ReadIntoSafe
<1>4. Safe(w, RaiseException(w, kExcLoadAddrMisalign, a))
  BY <1>1, AddressSafe
<1> QED BY <1>3, <1>4 DEF Load

LEMMA StoreSafe ==
  ASSUME NEW w, GoodWork(w), NEW i, GoodInst(i), i.op \in StoreOp
  PROVE  Safe(w, Store(w, i))
<1> DEFINE a == Add(w.regs[i.rs1], i.imm)
<1>1. a \in Word /\ w.regs[i.rs2] \in Word
  BY InstFields, RegType, AddType DEF CSRImmOp, StoreOp
<1>2. Safe(w, Write(w, a, Width(i.op), w.regs[i.rs2]))
  BY <1>1, WriteSafe
<1>3. Safe(w, RaiseException(w, kExcStAMOAddrMisalign, a))
  BY <1>1, AddressSafe
<1> QED BY <1>2, <1>3 DEF Store

LEMMA ComputeSafe ==
  ASSUME NEW w, GoodWork(w), NEW i, GoodInst(i),
         i.op \in ComputeOp
  PROVE  Safe(w, Compute(w, i))
<1> DEFINE x == w.regs[i.rs1]
           v == IF i.op = "lui" THEN i.imm
                ELSE IF i.op = "auipc" THEN Add(w.pc, i.imm)
                ELSE IF i.op \in ImmOp THEN PerformIntOp(ImmBase[i.op], x, i.imm)
                ELSE PerformIntOp(i.op, x, w.regs[i.rs2])
<1>1. /\ i.rd \in Reg /\ i.imm \in Word /\ x \in Word /\ w.pc \in Word
      /\ w.regs[i.rs2] \in Word
  <2>1. i.op \notin CSRImmOp
    BY DEF CSRImmOp, ComputeOp, RegOp, IntOp, MulOp, DivOp, ImmOp, ImmBase
  <2> QED BY <2>1, InstFields, RegType DEF GoodWork, Work
<1>2. Add(w.pc, i.imm) \in Word
  BY <1>1, AddType
<1>3. i.op \in ImmOp => PerformIntOp(ImmBase[i.op], x, i.imm) \in Word
  <2>1. i.op \in ImmOp => ImmBase[i.op] \in RegOp
    BY DEF ImmOp, ImmBase, RegOp, IntOp
  <2> QED BY <1>1, <2>1, PerformIntOpType
<1>4. i.op \in RegOp => PerformIntOp(i.op, x, w.regs[i.rs2]) \in Word
  BY <1>1, PerformIntOpType
<1>5. v \in Word
  BY <1>1, <1>2, <1>3, <1>4 DEF ComputeOp
<1>6. Compute(w, i) = SetReg(w, i.rd, v)
  BY DEF Compute
<1> HIDE DEF v
<1> QED BY <1>1, <1>5, <1>6, SetRegSafe

\* Where the next instruction is, is checked by WriteBack.
LEMMA NextPcSafe ==
  ASSUME NEW w, GoodWork(w), NEW a \in Word
  PROVE  Safe(w, [w EXCEPT !.npc = a])
<1> DEFINE x == [w EXCEPT !.npc = a]
<1>1. x \in Work /\ x.csr = w.csr /\ x.pc = w.pc
  BY DEF GoodWork, Work
<1> HIDE DEF x
<1>2. Safe(w, x)
  BY <1>1, PrivRange DEF Safe, GoodWork
<1> QED BY <1>2 DEF x

LEMMA BranchSafe ==
  ASSUME NEW w, GoodWork(w), NEW i, GoodInst(i) PROVE Safe(w, Branch(w, i))
<1>1. Add(w.pc, i.imm) \in Word
  BY InstFields, AddType DEF GoodWork, Work
<1>2. Safe(w, [w EXCEPT !.npc = Add(w.pc, i.imm)])
  BY <1>1, NextPcSafe
<1> QED BY <1>2, SafeSame DEF Branch

LEMMA EvenType == ASSUME NEW x \in Word PROVE x - (x % 2) \in Word
<1>1. x \in 0 .. WordSize - 1 /\ WordSize \in Nat
  BY WordAssumption DEF Word
<1> QED BY <1>1 DEF Word

LEMMA JumpSafe ==
  ASSUME NEW w, GoodWork(w), NEW i, GoodInst(i), i.op \in {"jal", "jalr"}
  PROVE  Safe(w, Jump(w, i))
<1> DEFINE sum == Add(w.regs[i.rs1], i.imm)
           even == sum - (sum % 2)
           target == IF i.op = "jal" THEN Add(w.pc, i.imm) ELSE even
           r == SetReg(w, i.rd, Add(w.pc, 4))
<1>1. /\ i.rd \in Reg /\ i.imm \in Word /\ w.regs[i.rs1] \in Word
      /\ w.pc \in Word /\ 4 \in Word
  BY InstFields, RegType, SmallWords DEF CSRImmOp, GoodWork, Work
<1>2. sum \in Word /\ Add(w.pc, i.imm) \in Word /\ Add(w.pc, 4) \in Word
  BY <1>1, AddType
<1>3. even \in Word
  BY <1>2, EvenType
<1>4. Safe(w, r)
  BY <1>1, <1>2, SetRegSafe
<1>5. target \in Word
  BY <1>2, <1>3
<1>6. Jump(w, i) = [r EXCEPT !.npc = target]
  BY DEF Jump
<1> HIDE DEF r, target
<1>7. Safe(r, [r EXCEPT !.npc = target])
  BY <1>4, <1>5, NextPcSafe DEF Safe
<1> QED BY <1>4, <1>6, <1>7, SafeTrans

\* A return goes to the saved pc, in a mode the caller chooses.
LEMMA ReturnSafe ==
  ASSUME NEW w, GoodWork(w), NEW target \in Word, NEW c, GoodCSR(c),
         c.priv = w.csr.priv, NEW mode \in Priv, mode <= w.csr.priv
  PROVE  Safe(w, [w EXCEPT !.npc = target, !.csr = [c EXCEPT !.priv = mode],
                           !.mon = ClearFlag])
<1> DEFINE d == [c EXCEPT !.priv = mode]
           x == [w EXCEPT !.npc = target, !.csr = d, !.mon = ClearFlag]
<1>1. GoodCSR(d) /\ d.priv = mode
  BY DEF GoodCSR, Registers
<1> HIDE DEF d
<1>2. x \in Work /\ x.csr = d /\ x.pc = w.pc
  BY <1>1, ClearFlagType DEF GoodWork, Work, GoodCSR
<1> HIDE DEF x
<1>3. Safe(w, x)
  BY <1>1, <1>2 DEF Safe, GoodWork
<1> QED BY <1>3 DEF x, d

LEMMA ReturnFromTrapSafe ==
  ASSUME NEW w, GoodWork(w), NEW i, GoodInst(i),
         NEW mode \in {kPrivLevelS, kPrivLevelM}
  PROVE  Safe(w, ReturnFromTrap(w, i, mode))
<1> DEFINE c == w.csr
           cM == WriteMStatus(c, MretStatus(c.mstatus))
           cS == WriteSStatus(c, SretStatus(c.sstatus))
           toS == IF kSPP \in c.sstatus THEN kPrivLevelS ELSE kPrivLevelU
<1>1. GoodCSR(c) /\ c.mepc \in Word /\ c.sepc \in Word /\ c.priv \in Priv
  BY DEF GoodWork, GoodCSR, Registers
<1>2. GoodCSR(cM) /\ cM.priv = c.priv /\ GoodCSR(cS) /\ cS.priv = c.priv
  BY <1>1, WriteMStatusGood, WriteSStatusGood
<1>3. CASE c.priv < mode
  BY <1>3, IllegalSafe DEF ReturnFromTrap
<1>4. CASE ~(c.priv < mode) /\ mode = kPrivLevelM
  <2>1. Mpp(c.mstatus) \in Priv /\ Mpp(c.mstatus) <= c.priv
    BY <1>1, <1>4 DEF GoodCSR, Registers, MStatusValues, Priv, kPrivLevelU,
       kPrivLevelS, kPrivLevelM
  <2>2. Safe(w, [w EXCEPT !.npc = c.mepc, !.csr = [cM EXCEPT !.priv = Mpp(c.mstatus)],
                          !.mon = ClearFlag])
    <3> DEFINE to == c.mepc
               after == cM
               p == Mpp(c.mstatus)
    <3>1. /\ to \in Word /\ GoodCSR(after) /\ after.priv = w.csr.priv
          /\ p \in Priv /\ p <= w.csr.priv
      BY <1>1, <1>2, <2>1
    <3> HIDE DEF c, to, after, p
    <3>2. Safe(w, [w EXCEPT !.npc = to, !.csr = [after EXCEPT !.priv = p],
                            !.mon = ClearFlag])
      BY <3>1, ReturnSafe
    <3> QED BY <3>2 DEF to, after, p
  <2> QED BY <1>4, <2>2 DEF ReturnFromTrap, ReturnFromM
<1>5. CASE ~(c.priv < mode) /\ mode # kPrivLevelM
  <2>1. toS \in Priv /\ toS <= c.priv
    BY <1>1, <1>5 DEF Priv, kPrivLevelU, kPrivLevelS, kPrivLevelM
  <2>2. Safe(w, [w EXCEPT !.npc = c.sepc, !.csr = [cS EXCEPT !.priv = toS],
                          !.mon = ClearFlag])
    <3> DEFINE to == c.sepc
               after == cS
               p == toS
    <3>1. /\ to \in Word /\ GoodCSR(after) /\ after.priv = w.csr.priv
          /\ p \in Priv /\ p <= w.csr.priv
      BY <1>1, <1>2, <2>1
    <3> HIDE DEF c, to, after, p
    <3>2. Safe(w, [w EXCEPT !.npc = to, !.csr = [after EXCEPT !.priv = p],
                            !.mon = ClearFlag])
      BY <3>1, ReturnSafe
    <3> QED BY <3>2 DEF to, after, p
  <2> QED BY <1>5, <2>2 DEF ReturnFromTrap, ReturnFromS
<1> QED BY <1>3, <1>4, <1>5

LEMMA PrivilegedSafe ==
  ASSUME NEW w, GoodWork(w), NEW i, GoodInst(i), i.op \in PrivOp
  PROVE  Safe(w, Privileged(w, i))
<1> DEFINE e1 == RaiseException(w, EnvCall(w.csr.priv), 0)
           e2 == RaiseException(w, kExcBreakpoint, 0)
           e3 == ReturnFromTrap(w, i, kPrivLevelS)
           e4 == ReturnFromTrap(w, i, kPrivLevelM)
           x == Privileged(w, i)
<1>1. EnvCall(w.csr.priv) \in SyncExc
  <2>1. EnvCall(w.csr.priv) \in 0 .. 31
    BY DEF GoodWork, GoodCSR, Registers, EnvCall, Priv, kPrivLevelU,
       kPrivLevelS, kPrivLevelM, kExcUEnvCall, kExcSEnvCall, kExcMEnvCall
  <2> QED BY <2>1, SyncWords
<1>2. Safe(w, e1) /\ Safe(w, e2)
  <2>1. kExcBreakpoint \in SyncExc
    BY SyncWords DEF kExcBreakpoint
  <2> QED BY <1>1, <2>1, RaiseSafe, SmallWords
<1>3. Safe(w, e3) /\ Safe(w, e4)
  BY ReturnFromTrapSafe
<1>4. CASE i.rs1 # 0 \/ i.rd # 0
  BY <1>4, IllegalSafe DEF Privileged
<1>5. CASE ~(i.rs1 # 0 \/ i.rd # 0)
  <2>1. x = CASE i.op = "ecall" -> e1 [] i.op = "ebreak" -> e2
              [] i.op = "sret" -> e3 [] i.op = "mret" -> e4 [] i.op = "wfi" -> w
    BY <1>5, Zenon DEF Privileged
  <2> HIDE DEF e1, e2, e3, e4, x
  <2>2. x \in {e1, e2, e3, e4, w}
    BY <2>1 DEF PrivOp
  <2>3. Safe(w, x)
    BY <1>2, <1>3, <2>2, SafeSame
  <2> QED BY <2>3 DEF x
<1> QED BY <1>4, <1>5

LEMMA AccessCSRSafe ==
  ASSUME NEW w, GoodWork(w), NEW i, GoodInst(i), i.op \in CSROp
  PROVE  Safe(w, AccessCSR(w, i))
<1> DEFINE swap == i.op \in {"csrrw", "csrrwi"}
           src  == IF i.op \in CSRImmOp THEN i.rs1 ELSE w.regs[i.rs1]
           old  == ReadData(w.csr, i.csr)
           set  == WordOf(BitsOf(old) \cup BitsOf(src))
           clear == WordOf(BitsOf(old) \ BitsOf(src))
           new  == IF swap THEN src
                   ELSE IF i.op \in {"csrrs", "csrrsi"} THEN set ELSE clear
           writes == swap \/ i.rs1 # 0
           r == IF swap /\ i.rd = 0 THEN w ELSE SetReg(w, i.rd, old)
           c == IF writes THEN WriteData(w.csr, i.csr, new) ELSE w.csr
<1>1. i.rd \in Reg /\ i.csr \in Nat /\ GoodCSR(w.csr)
  BY InstFields DEF GoodWork
<1>2. src \in Word
  BY InstFields, RegType
<1>3. old \in Word
  BY <1>1, ReadDataType
<1>4. set \in Word /\ clear \in Word
  BY <1>2, <1>3, BitsOfType, WordOfType
<1>5. new \in Word
  BY <1>2, <1>4
<1>6. GoodCSR(c) /\ c.priv = w.csr.priv
  BY <1>1, <1>5, WriteDataGood
<1>7. Safe(w, r)
  BY <1>1, <1>3, SetRegSafe, SafeSame
<1>8. r.csr = w.csr
  BY <1>1, <1>3, SetRegSafe
<1>9. AccessCSR(w, i) \in {Illegal(w, i), [r EXCEPT !.csr = c]}
  BY DEF AccessCSR
<1> HIDE DEF r, c
<1>10. Safe(w, [r EXCEPT !.csr = c])
  <2> DEFINE x == [r EXCEPT !.csr = c]
  <2>1. x \in Work /\ x.csr = c /\ x.pc = w.pc
    BY <1>6, <1>7 DEF Safe, GoodWork, Work, GoodCSR
  <2> HIDE DEF x
  <2>2. Safe(w, x)
    BY <1>6, <2>1, PrivRange DEF Safe, GoodWork
  <2> QED BY <2>2 DEF x
<1> QED BY <1>9, <1>10, IllegalSafe

LEMMA FenceVMASafe ==
  ASSUME NEW w, GoodWork(w), NEW i, GoodInst(i) PROVE Safe(w, FenceVMA(w, i))
BY IllegalSafe, SafeSame DEF FenceVMA

LEMMA CheckPageFaultSafe ==
  ASSUME NEW w, NEW x, GoodWork(w), Safe(w, x), NEW code \in SyncExc
  PROVE  Safe(w, CheckPageFault(x, code))
<1>1. GoodWork(x) /\ x.vaddr \in Word
  BY DEF Safe, GoodWork, Work
<1>2. Safe(x, RaiseException(x, code, x.vaddr))
  BY <1>1, RaiseSafe
<1> QED BY <1>2, SafeTrans DEF CheckPageFault

----------------------------------------------------------------------------
\* The end of the cycle.

\* An exception, once raised, is never withdrawn; npc is left alone.
LEMMA RaiseFields ==
  ASSUME NEW w, GoodWork(w), NEW code \in SyncExc, NEW tval \in Word
  PROVE  /\ RaiseException(w, code, tval).npc = w.npc
         /\ RaiseException(w, code, tval).exc \in {w.exc, code}
<1> DEFINE c == [w.csr EXCEPT !.mcause = code, !.mtval = tval]
<1>1. RaiseException(w, code, tval) \in {w, [w EXCEPT !.exc = code, !.csr = c]}
  BY DEF RaiseException
<1> HIDE DEF c
<1> QED BY <1>1 DEF GoodWork, Work

LEMMA CheckNextPcSafe ==
  ASSUME NEW w, GoodWork(w)
  PROVE  /\ Safe(w, CheckNextPc(w))
         /\ CheckNextPc(w).npc = w.npc
         /\ w.npc % 4 # 0 => CheckNextPc(w).exc # kStateExcCodeReset
<1> DEFINE code == kExcInstAddrMisalign
           x == RaiseException(w, code, w.npc)
<1>1. w.npc \in Word /\ w \in Work
  BY DEF GoodWork, Work
<1>2. code \in SyncExc
  BY SyncWords DEF kExcInstAddrMisalign
<1>3. Safe(w, x) /\ x.npc = w.npc
  BY <1>1, <1>2, RaiseSafe, RaiseFields
<1>4. x.exc # kStateExcCodeReset
  <2>1. GetExcPriority(code) = 4
    BY IntrBitFacts
    DEF GetExcPriority, kMSI, kMTI, kMEI, kExcInstAddrMisalign,
        kExcStAMOPageFault, kExcLoadPageFault, kExcInstPageFault,
        kExcStAMOAddrMisalign, kExcLoadAddrMisalign, kExcIllegalInst,
        kExcUEnvCall, kExcSEnvCall, kExcMEnvCall, kExcBreakpoint
  <2>2. CASE GetExcPriority(code) > GetExcPriority(w.exc)
    <3> DEFINE c == [w.csr EXCEPT !.mcause = code, !.mtval = w.npc]
    <3>1. x = [w EXCEPT !.exc = code, !.csr = c]
      BY <2>2 DEF RaiseException
    <3> HIDE DEF c, code, x
    <3>2. x.exc = code
      BY <1>1, <3>1 DEF Work
    <3>3. code # kStateExcCodeReset
      BY <2>1, ResetPriority
    <3> QED BY <3>2, <3>3
  <2>3. CASE ~(GetExcPriority(code) > GetExcPriority(w.exc))
    <3>1. x = w
      BY <2>3 DEF RaiseException
    <3>2. GetExcPriority(w.exc) # 0
      BY <2>1, <2>3
    <3> HIDE DEF x
    <3> QED BY <3>1, <3>2, ResetPriority
  <2> QED BY <2>2, <2>3
<1> HIDE DEF x
<1> QED BY <1>3, <1>4, SafeSame DEF CheckNextPc, x

\* The priorities of exceptions and of interrupts do not overlap.
LEMMA Priorities ==
  /\ \A code \in SyncExc : GetExcPriority(code) \in 0 .. 5
  /\ \A cause \in {3, 7, 11} : GetExcPriority(kIntrBit + cause) \in 6 .. 8
<1>1. ASSUME NEW code \in 0 .. 31 PROVE GetExcPriority(code) \in 0 .. 5
  <2>1. code \notin {kIntrBit + 3, kIntrBit + 7, kIntrBit + 11}
    BY IntrBitFacts
  <2> QED BY <2>1 DEF GetExcPriority, kMSI, kMTI, kMEI
<1>2. ASSUME NEW cause \in {3, 7, 11}
      PROVE  GetExcPriority(kIntrBit + cause) \in 6 .. 8
  <2> DEFINE code == kIntrBit + cause
  <2>1. code \notin 0 .. 31 /\ code \in {kIntrBit + 3, kIntrBit + 7, kIntrBit + 11}
    BY IntrBitFacts
  <2>2. \/ code = kIntrBit + 3
        \/ code = kIntrBit + 7 /\ code # kIntrBit + 3
        \/ code = kIntrBit + 11 /\ code # kIntrBit + 3 /\ code # kIntrBit + 7
    BY IntrBitFacts
  <2> HIDE DEF code
  <2>3. GetExcPriority(code) \in 6 .. 8
    BY <2>1, <2>2 DEF GetExcPriority, kMSI, kMTI, kMEI, kExcInstAddrMisalign,
       kExcIllegalInst, kExcBreakpoint, kExcLoadAddrMisalign,
       kExcStAMOAddrMisalign, kExcUEnvCall, kExcSEnvCall, kExcMEnvCall,
       kExcInstPageFault, kExcLoadPageFault, kExcStAMOPageFault
  <2> QED BY <2>3 DEF code
<1> QED BY <1>1, <1>2, ResetPriority DEF SyncExc

IsIntr(code) == code # kStateExcCodeReset /\ code >= kIntrBit

LEMMA SyncIsNoIntr == ASSUME NEW code \in SyncExc PROVE ~IsIntr(code)
BY IntrBitFacts DEF SyncExc, IsIntr

\* What is pending and was enabled when the cycle began.
Urgent(x) == latch.mie \cap x.csr.mip

\* An interrupt is raised exactly when one is pending and was enabled, and it
\* is the most urgent of those, whatever the instruction has raised itself.
InterruptChoice(x) ==
  /\ IsIntr(x.exc) <=> kMIE \in latch.mstatus /\ Urgent(x) # {}
  /\ IsIntr(x.exc) =>
       /\ x.csr.mcause - kIntrBit \in Urgent(x)
       /\ \A other \in Urgent(x) : other <= x.csr.mcause - kIntrBit

LEMMA CheckInterruptGood ==
  ASSUME NEW w, GoodWork(w), NEW lines \in Lines, NEW x,
         x = CheckInterrupt(w, lines)
  PROVE  /\ GoodChecked(x) /\ x.pc = w.pc /\ x.npc = w.npc
         /\ x.csr.priv = w.csr.priv
         /\ w.exc # kStateExcCodeReset => x.exc # kStateExcCodeReset
         /\ InterruptChoice(x)
<1> DEFINE mip   == lines \cup IF BusRead(w.mem, MSIP, 4) # 0 THEN {kMSI} ELSE {}
           taken == mip \cap latch.mie
           cause == IF kMEI \in taken THEN kMEI
                    ELSE IF kMTI \in taken THEN kMTI ELSE kMSI
           c     == [w.csr EXCEPT !.mip = mip]
           v     == [w EXCEPT !.csr = c]
           code  == kIntrBit + cause
           d     == [c EXCEPT !.mcause = code, !.mtval = 0]
           r     == [v EXCEPT !.exc = code, !.csr = d]
<1>1. mip \in SUBSET kMaskMIE
  BY CoreAssumption DEF kMaskMIE
<1>2. /\ cause \in {3, 7, 11}
      /\ taken # {} => cause \in taken
      /\ \A other \in taken : other <= cause
  BY <1>1 DEF kMSI, kMTI, kMEI, kMaskMIE
<1>3. code \in Word /\ IsIntr(code) /\ code - kIntrBit = cause
  <2> HIDE DEF cause
  <2>1. cause \in Nat /\ cause <= 11
    BY <1>2
  <2> QED BY <2>1, IntrBitFacts DEF Word, kStateExcCodeReset, IsIntr
<1>4. GetExcPriority(code) > GetExcPriority(w.exc)
  <2>1. w.exc \in SyncExc
    BY DEF GoodWork, Work
  <2> HIDE DEF cause
  <2> QED BY <1>2, <2>1, Priorities
<1>5. v.exc = w.exc /\ v.csr = c
  BY DEF GoodWork, Work
<1>6. RaiseException(v, code, 0) = r
  <2> HIDE DEF v, code, c
  <2> QED BY <1>4, <1>5 DEF RaiseException
<1>7. x = IF kMIE \in latch.mstatus /\ taken # {} THEN r ELSE v
  <2>1. x = IF kMIE \in latch.mstatus /\ taken # {}
            THEN RaiseException(v, code, 0) ELSE v
    BY DEF CheckInterrupt
  <2> QED BY <1>6, <2>1
<1>8. taken = latch.mie \cap mip
  OBVIOUS
<1> HIDE DEF mip, code, cause, taken
<1>9. /\ GoodCSR(c) /\ c.priv = w.csr.priv /\ c.mip = mip
  BY <1>1 DEF GoodWork, GoodCSR, Registers
<1> HIDE DEF c
<1>10. /\ GoodCSR(d) /\ d.priv = w.csr.priv /\ d.mip = mip /\ d.mcause = code
  <2>1. c \in Registers /\ code \in Word /\ 0 \in Word
    BY <1>3, <1>9, SmallWords DEF GoodCSR
  <2>2. d = [c EXCEPT !.mcause = code, !.mtval = 0]
    OBVIOUS
  <2> HIDE DEF d
  <2>3. d \in Registers
    BY <2>1, <2>2 DEF Registers
  <2>4. /\ d.priv = c.priv /\ d.mip = c.mip /\ d.mcause = code
        /\ d.sstatus = c.sstatus /\ d.mstatus = c.mstatus /\ d.mtvec = c.mtvec
    BY <2>1, <2>2 DEF Registers
  <2> QED BY <1>9, <2>3, <2>4 DEF GoodCSR
<1> HIDE DEF d
<1>11. /\ GoodChecked(v) /\ v.pc = w.pc /\ v.npc = w.npc /\ v.csr = c
       /\ v.exc = w.exc /\ ~IsIntr(v.exc)
  BY <1>9, SyncIsNoIntr, SyncWords
     DEF GoodWork, Work, GoodChecked, Checked, GoodCSR
<1> HIDE DEF v
<1>12. /\ GoodChecked(r) /\ r.pc = w.pc /\ r.npc = w.npc /\ r.csr = d
       /\ r.exc = code
  BY <1>3, <1>10, <1>11 DEF GoodChecked, Checked, GoodCSR
<1> HIDE DEF r
<1>13. CASE kMIE \in latch.mstatus /\ taken # {}
  <2>1. x = r
    BY <1>7, <1>13
  <2>2. Urgent(x) = taken /\ x.csr.mcause - kIntrBit = cause
    BY <1>3, <1>8, <1>10, <1>12, <2>1 DEF Urgent
  <2>3. InterruptChoice(x)
    BY <1>2, <1>3, <1>12, <1>13, <2>1, <2>2 DEF InterruptChoice
  <2> QED BY <1>3, <1>10, <1>12, <2>1, <2>3 DEF IsIntr
<1>14. CASE ~(kMIE \in latch.mstatus /\ taken # {})
  <2>1. x = v
    BY <1>7, <1>14
  <2>2. Urgent(x) = taken
    BY <1>8, <1>9, <1>11, <2>1 DEF Urgent
  <2>3. InterruptChoice(x)
    BY <1>11, <1>14, <2>1, <2>2 DEF InterruptChoice
  <2> QED BY <1>9, <1>11, <2>1, <2>3
<1> QED BY <1>13, <1>14

LEMMA TakeTrapGood ==
  ASSUME NEW w, GoodChecked(w)
  PROVE  /\ TakeTrap(w).npc \in Word /\ TakeTrap(w).npc % 4 = 0
         /\ GoodCSR(TakeTrap(w).csr)
         /\ TakeTrap(w).csr.priv = kPrivLevelM
         /\ TakeTrap(w).csr.mepc = w.pc
         /\ TakeTrap(w).csr.mip = w.csr.mip
         /\ TakeTrap(w).csr.mcause = w.csr.mcause
         /\ TakeTrap(w).mon \in Monitor
         /\ TakeTrap(w).mem \in Memory
<1> DEFINE from == w.pc - (w.pc % 4)
           c == [w.csr EXCEPT !.mepc = from, !.priv = kPrivLevelM]
           d == WriteMStatus(c, TrapStatus(c.mstatus, w.csr.priv))
           x == [w EXCEPT !.exc = kStateExcCodeReset, !.npc = trap_vec(c),
                          !.csr = d, !.mon = ClearFlag]
<1>1. from = w.pc /\ w.pc \in Word
  <2>1. w.pc \in Nat /\ w.pc % 4 = 0 /\ w.pc \in Word
    BY WordAssumption DEF GoodChecked, Checked, Word
  <2> QED BY <2>1
<1>2. TakeTrap(w) = x
  BY DEF TakeTrap
<1> HIDE DEF from
<1>3. /\ GoodCSR(c) /\ c.priv = kPrivLevelM /\ c.mepc = w.pc
      /\ c.mip = w.csr.mip /\ c.mcause = w.csr.mcause
  BY <1>1 DEF GoodChecked, GoodCSR, Registers, Priv
<1> HIDE DEF c
<1>4. GoodCSR(d) /\ d.priv = kPrivLevelM
  BY <1>3, WriteMStatusGood
<1>5. d.mepc = w.pc /\ d.mip = w.csr.mip /\ d.mcause = w.csr.mcause
  <2> DEFINE bits == TrapStatus(c.mstatus, w.csr.priv)
             new == LegalMpp(bits) \cap kMaskMStatus
             view == ((c.sstatus \ kMaskMStatus) \cup new) \cap kMaskSStatus
  <2>1. d = [c EXCEPT !.mstatus = new, !.sstatus = view]
    BY DEF WriteMStatus
  <2> HIDE DEF d, new, view
  <2> QED BY <2>1, <1>3 DEF GoodCSR, Registers
<1>6. trap_vec(c) \in Word /\ trap_vec(c) % 4 = 0
  BY <1>3, TrapVecAligned
<1> HIDE DEF d
<1>7. x.npc = trap_vec(c) /\ x.csr = d /\ x.mon = ClearFlag /\ x.mem = w.mem
  BY DEF GoodChecked, Checked
<1>8. w.mem \in Memory
  BY DEF GoodChecked, Checked
<1> HIDE DEF x
<1> QED BY <1>2, <1>3, <1>4, <1>5, <1>6, <1>7, <1>8, ClearFlagType

\* The part of PrivRisesOnlyByTrap that a step has to satisfy.
PrivStep ==
  csr'.priv > csr.priv => event'.trap # "none" /\ csr'.priv = kPrivLevelM

\* The part of TrapRecordsContext that holds whatever the program is.
EpcStep(at) == event'.trap # "none" => csr'.mepc = at

\* The interrupts a step takes.
IntrStep ==
  /\ event'.trap = "intr" =>
       LET cause == csr'.mcause - kIntrBit
       IN  /\ kMIE \in csr.mstatus
           /\ cause \in csr.mie \cap csr'.mip
           /\ \A other \in csr.mie \cap csr'.mip : other <= cause
  /\ kMIE \in csr.mstatus /\ csr.mie \cap csr'.mip # {} => event'.trap = "intr"

LEMMA WriteBackGood ==
  ASSUME CoreInv, NEW w, GoodWork(w), w.csr.priv <= csr.priv,
         NEW op \in Op \cup {"reset", "fetch"}, NEW lines \in Lines,
         WriteBack(op, w, lines)
  PROVE  CoreInv' /\ PrivStep /\ IntrStep /\ EpcStep(w.pc)
<1> DEFINE n == CheckNextPc(w)
           x == CheckInterrupt(n, lines)
           t == TakeTrap(x)
           y == IF x.exc # kStateExcCodeReset THEN t ELSE x
           r == IF x.exc # kStateExcCodeReset THEN regs ELSE x.regs
<1>1. /\ regs' = [r EXCEPT ![0] = 0]
      /\ pc' = y.npc /\ csr' = y.csr /\ mon' = y.mon /\ mem' = y.mem
      /\ latch' = [mstatus |-> y.csr.mstatus, mie |-> y.csr.mie]
      /\ event' = [op |-> op, trap |-> TrapKind(x)]
  <2>1. Commit(op, x)
    BY DEF WriteBack
  <2> QED BY <2>1 DEF Commit
<1>2. /\ Safe(w, n) /\ n.npc = w.npc
      /\ w.npc % 4 # 0 => n.exc # kStateExcCodeReset
  BY CheckNextPcSafe
<1> HIDE DEF n
<1>3. /\ GoodChecked(x) /\ x.pc = n.pc /\ x.npc = n.npc
      /\ x.csr.priv = n.csr.priv
      /\ n.exc # kStateExcCodeReset => x.exc # kStateExcCodeReset
      /\ InterruptChoice(x)
  BY <1>2, CheckInterruptGood DEF Safe
<1> HIDE DEF x
<1>4. x.csr.priv <= w.csr.priv
  BY <1>2, <1>3 DEF Safe
<1>5. GoodChecked(x) /\ x \in Checked /\ x.pc = w.pc
  BY <1>2, <1>3 DEF Safe, GoodChecked
<1>6. /\ t.npc \in Word /\ t.npc % 4 = 0 /\ GoodCSR(t.csr)
      /\ t.csr.priv = kPrivLevelM /\ t.csr.mepc = w.pc
      /\ t.csr.mip = x.csr.mip /\ t.csr.mcause = x.csr.mcause
      /\ t.mon \in Monitor /\ t.mem \in Memory
  BY <1>5, TakeTrapGood
<1> HIDE DEF t
<1>7. y.npc \in Word /\ y.npc % 4 = 0
  BY <1>2, <1>3, <1>5, <1>6 DEF Checked
<1>8. GoodCSR(y.csr) /\ y.mon \in Monitor /\ y.mem \in Memory
  BY <1>5, <1>6 DEF GoodChecked, Checked
<1>9. r \in [Reg -> Word]
  BY <1>5 DEF Checked, CoreInv, TypeOK
<1>10. TrapKind(x) \in {"none", "sync", "intr"}
       /\ (TrapKind(x) # "none" <=> x.exc # kStateExcCodeReset)
       /\ (TrapKind(x) = "intr" <=> IsIntr(x.exc))
  BY DEF TrapKind, IsIntr
<1>11. y.csr.priv > csr.priv =>
         x.exc # kStateExcCodeReset /\ y.csr.priv = kPrivLevelM
  <2>1. CASE x.exc # kStateExcCodeReset
    BY <2>1, <1>6
  <2>2. CASE x.exc = kStateExcCodeReset
    <3>1. x.csr.priv <= w.csr.priv
      BY <1>4
    <3>2. x.csr.priv \in 0 .. 3 /\ w.csr.priv \in 0 .. 3
      BY <1>5, PrivRange DEF GoodWork, GoodChecked
    <3>3. csr.priv \in 0 .. 3
      BY DEF CoreInv, TypeOK, Registers, Priv, kPrivLevelU, kPrivLevelS,
         kPrivLevelM
    <3> QED BY <2>2, <3>1, <3>2, <3>3
  <2> QED BY <2>1, <2>2
<1>12. /\ x.exc # kStateExcCodeReset => y.csr.mepc = w.pc
       /\ y.csr.mip = x.csr.mip /\ y.csr.mcause = x.csr.mcause
  BY <1>6
<1> HIDE DEF y, r
<1>13. TypeOK'
  <2>1. pc' \in Word /\ csr' \in Registers /\ mon' \in Monitor /\ mem' \in Memory
    BY <1>1, <1>7, <1>8 DEF GoodCSR
  <2>2. regs' \in [Reg -> Word]
    <3>1. 0 \in Word
      BY SmallWords
    <3> QED BY <1>1, <1>9, <3>1
  <2>3. latch' \in Latch
    BY <1>1, <1>8 DEF Latch, GoodCSR, Registers
  <2>4. event' \in Event
    BY <1>1, <1>10 DEF Event
  <2> QED BY <2>1, <2>2, <2>3, <2>4 DEF TypeOK
<1>14. PcAligned' /\ StatusMirror' /\ MTVecLegal' /\ LatchSame' /\ ZeroReg'
  <2>1. ZeroReg'
    BY <1>1, <1>9, CoreAssumption DEF ZeroReg
  <2> QED
    BY <1>1, <1>7, <1>8, <2>1
    DEF PcAligned, StatusMirror, MTVecLegal, LatchSame, GoodCSR
<1>15. PrivStep /\ EpcStep(w.pc)
  BY <1>1, <1>10, <1>11, <1>12 DEF PrivStep, EpcStep
<1>16. IntrStep
  <2>1. latch.mstatus = csr.mstatus /\ latch.mie = csr.mie
    BY DEF CoreInv, LatchSame
  <2>2. Urgent(x) = csr.mie \cap csr'.mip /\ csr'.mcause = x.csr.mcause
    BY <1>1, <1>12, <2>1 DEF Urgent
  <2>3. event'.trap = "intr" <=> IsIntr(x.exc)
    BY <1>1, <1>10
  <2> QED BY <1>3, <2>1, <2>2, <2>3 DEF InterruptChoice, IntrStep
<1> QED BY <1>13, <1>14, <1>15, <1>16 DEF CoreInv

----------------------------------------------------------------------------
\* A cycle preserves the invariant: every instruction ends in WriteBack.

LEMMA InitInv == Init => CoreInv
<1> SUFFICES ASSUME Init PROVE CoreInv
  OBVIOUS
<1>1. pc \in Word /\ pc % 4 = 0
  BY CoreAssumption DEF Init, Reset
<1>2. 0 \in Word
  BY SmallWords
<1>3. {} \in MStatusValues
  BY DEF MStatusValues, Mpp, Priv, kPrivLevelU
<1>4. csr \in Registers /\ csr.mstatus = {} /\ csr.sstatus = {} /\ csr.mtvec = 0
  <2>1. csr = InitCSR
    BY DEF Init, Reset
  <2>2. InitCSR \in Registers
    BY <1>2, <1>3 DEF InitCSR, Registers, Priv
  <2> QED BY <2>1, <2>2 DEF InitCSR
<1>5. mem \in Memory
  BY <1>2, BusAssumption DEF Init, InitMemory, Memory
<1>6. TypeOK
  BY <1>1, <1>2, <1>3, <1>4, <1>5, ClearFlagType
     DEF Init, Reset, TypeOK, Latch, Event
<1>7. LatchSame
  BY DEF Init, Reset, LatchSame, InitCSR
<1>8. ZeroReg
  BY CoreAssumption DEF Init, Reset, ZeroReg
<1> QED BY <1>1, <1>4, <1>6, <1>7, <1>8
        DEF CoreInv, PcAligned, StatusMirror, MTVecLegal

LEMMA CopiedGood ==
  ASSUME CoreInv, NEW m \in Memory, NEW at \in Word, at % 4 = 0
  PROVE  GoodWork(Copied(m, at)) /\ Copied(m, at).pc = at
         /\ Copied(m, at).csr = csr
<1> DEFINE w == Copied(m, at)
<1>1. Add(at, 4) \in Word /\ kStateExcCodeReset \in SyncExc
  <2>1. 4 \in Word
    BY SmallWords
  <2>2. kStateExcCodeReset \in SyncExc
    BY DEF SyncExc
  <2> QED BY <2>1, <2>2, AddType
<1>2. w \in Work
  BY <1>1 DEF Work, CoreInv, TypeOK, Copied
<1>3. w.pc = at /\ w.csr = csr
  BY DEF Copied
<1> HIDE DEF w
<1>4. GoodWork(w)
  BY <1>2, <1>3 DEF GoodWork, GoodCSR, CoreInv, TypeOK, StatusMirror, MTVecLegal
<1> QED BY <1>3, <1>4 DEF w

LEMMA FetchedGood ==
  ASSUME CoreInv, NEW m \in Memory
  PROVE  GoodWork(Fetched(m)) /\ Fetched(m).pc = pc /\ Fetched(m).csr = csr
<1> DEFINE w == Copied(m, pc)
<1>1. GoodWork(w) /\ w.pc = pc /\ w.csr = csr /\ pc \in Word
  BY CopiedGood DEF CoreInv, TypeOK, PcAligned
<1> HIDE DEF w
<1>2. Safe(w, MmuAccess(w, pc, "x")) /\ MmuAccess(w, pc, "x").csr = w.csr
  BY <1>1, MmuAccessGood
<1> QED BY <1>1, <1>2 DEF Safe, Fetched, w

LEMMA InstGood ==
  ASSUME NEW c, GoodCSR(c), NEW m \in Memory, NEW a \in Word,
         NEW i \in InstsAt(m, GetPhysicalAddr(c, m, a))
  PROVE  GoodInst(i)
<1> DEFINE pa == GetPhysicalAddr(c, m, a)
<1>1. pa \in Word
  BY PhysicalAddr
<1> HIDE DEF pa
<1>2. CASE pa \in RamAddr
  <2>1. m[pa] \in Word /\ i = Decode(m[pa])
    BY <1>2 DEF InstsAt, Memory, MemAddr, pa
  <2> QED BY <2>1, CodeAssumption DEF GoodInst
<1>3. CASE pa \notin RamAddr
  BY <1>1, <1>3, CodeAssumption DEF InstsAt, GoodInst, pa
<1> QED BY <1>2, <1>3

\* What a unit makes of a sound record may be written back.
LEMMA SafeWriteBack ==
  ASSUME CoreInv, NEW w, w.csr = csr, NEW x, Safe(w, x),
         NEW op \in Op \cup {"reset", "fetch"}, NEW lines \in Lines,
         WriteBack(op, x, lines)
  PROVE  CoreInv' /\ PrivStep /\ IntrStep /\ EpcStep(w.pc)
<1>1. GoodWork(x) /\ x.pc = w.pc /\ x.csr.priv <= csr.priv
  BY DEF Safe
<1> QED BY <1>1, WriteBackGood

LEMMA ExecuteGood ==
  ASSUME CoreInv, NEW w, GoodWork(w), w.csr = csr, NEW i, GoodInst(i),
         NEW lines \in Lines, Execute(w, i, lines)
  PROVE  CoreInv' /\ PrivStep /\ IntrStep /\ EpcStep(w.pc)
<1>1. i.op \in Op
  BY InstFields
<1>2. kExcLoadPageFault \in SyncExc /\ kExcStAMOPageFault \in SyncExc
  BY SyncWords DEF kExcLoadPageFault, kExcStAMOPageFault
<1>3. CASE ExecuteLR(w, i, lines)
  <2>1. Safe(w, CheckPageFault(LoadReserved(w, i), kExcStAMOPageFault))
    BY <1>2, <1>3, LoadReservedSafe, CheckPageFaultSafe DEF ExecuteLR
  <2> QED BY <1>1, <1>3, <2>1, SafeWriteBack DEF ExecuteLR
<1>4. CASE ExecuteSC(w, i, lines)
  <2>1. Safe(w, CheckPageFault(StoreConditional(w, i), kExcStAMOPageFault))
    BY <1>2, <1>4, StoreConditionalSafe, CheckPageFaultSafe DEF ExecuteSC
  <2> QED BY <1>1, <1>4, <2>1, SafeWriteBack DEF ExecuteSC
<1>5. CASE ExecuteAMO(w, i, lines)
  <2>1. Safe(w, CheckPageFault(ReadModifyWrite(w, i), kExcStAMOPageFault))
    BY <1>2, <1>5, ReadModifyWriteSafe, CheckPageFaultSafe DEF ExecuteAMO
  <2> QED BY <1>1, <1>5, <2>1, SafeWriteBack DEF ExecuteAMO
<1>6. CASE ExecuteLoad(w, i, lines)
  <2>1. Safe(w, CheckPageFault(Load(w, i), kExcLoadPageFault))
    BY <1>2, <1>6, LoadSafe, CheckPageFaultSafe DEF ExecuteLoad
  <2> QED BY <1>1, <1>6, <2>1, SafeWriteBack DEF ExecuteLoad
<1>7. CASE ExecuteStore(w, i, lines)
  <2>1. Safe(w, CheckPageFault(Store(w, i), kExcStAMOPageFault))
    BY <1>2, <1>7, StoreSafe, CheckPageFaultSafe DEF ExecuteStore
  <2> QED BY <1>1, <1>7, <2>1, SafeWriteBack DEF ExecuteStore
<1>8. CASE ExecuteInt(w, i, lines)
  BY <1>1, <1>8, ComputeSafe, SafeWriteBack DEF ExecuteInt
<1>9. CASE ExecuteBranch(w, i, lines)
  BY <1>1, <1>9, BranchSafe, SafeWriteBack DEF ExecuteBranch
<1>10. CASE ExecuteJump(w, i, lines)
  BY <1>1, <1>10, JumpSafe, SafeWriteBack DEF ExecuteJump
<1>11. CASE ExecutePrivileged(w, i, lines)
  BY <1>1, <1>11, PrivilegedSafe, SafeWriteBack DEF ExecutePrivileged
<1>12. CASE ExecuteCSR(w, i, lines)
  BY <1>1, <1>12, AccessCSRSafe, SafeWriteBack DEF ExecuteCSR
<1>13. CASE ExecuteSFence(w, i, lines)
  BY <1>1, <1>13, FenceVMASafe, SafeWriteBack DEF ExecuteSFence
<1>14. CASE ExecuteFence(w, i, lines)
  BY <1>1, <1>14, SafeSame, SafeWriteBack DEF ExecuteFence
<1>15. CASE ExecuteIllegal(w, i, lines)
  BY <1>1, <1>15, IllegalSafe, SafeWriteBack DEF ExecuteIllegal
<1> QED BY <1>3, <1>4, <1>5, <1>6, <1>7, <1>8,
           <1>9, <1>10, <1>11, <1>12, <1>13, <1>14, <1>15 DEF Execute

LEMMA CycleGood ==
  ASSUME CoreInv, NEW m \in Memory, NEW lines \in Lines, NextCycle(m, lines)
  PROVE  CoreInv' /\ PrivStep /\ IntrStep /\ EpcStep(pc)
<1> DEFINE w == Fetched(m)
<1>1. GoodWork(w) /\ w.vaddr \in Word /\ w.pc = pc /\ w.csr = csr
  BY FetchedGood DEF GoodWork, Work
<1> HIDE DEF w
<1>2. CASE FetchFault(w, lines)
  <2>1. kExcInstPageFault \in SyncExc
    BY SyncWords DEF kExcInstPageFault
  <2>2. Safe(w, RaiseException(w, kExcInstPageFault, w.vaddr))
    BY <1>1, <2>1, RaiseSafe
  <2> QED BY <1>1, <1>2, <2>2, SafeWriteBack DEF FetchFault
<1>3. ASSUME NEW i \in InstsAt(m, GetPhysicalAddr(csr, m, pc)),
             Execute(w, i, lines)
      PROVE  CoreInv' /\ PrivStep /\ IntrStep /\ EpcStep(pc)
  <2>1. GoodInst(i)
    BY <1>1, InstGood DEF CoreInv, TypeOK, GoodWork
  <2> QED BY <1>1, <1>3, <2>1, ExecuteGood
<1> QED BY <1>2, <1>3 DEF NextCycle, w

LEMMA RefreshedType ==
  ASSUME CoreInv, NEW words \in [Volatile -> Word]
  PROVE  Refreshed(words) \in Memory
BY DEF Refreshed, CoreInv, TypeOK, Memory

LEMMA StepGood ==
  ASSUME CoreInv, [Next]_vars
  PROVE  CoreInv' /\ (UNCHANGED vars \/ (PrivStep /\ IntrStep /\ EpcStep(pc)))
<1>1. CASE Next
  <2>1. PICK lines \in Lines, words \in [Volatile -> Word] :
          NextCycle(Refreshed(words), lines)
    BY <1>1 DEF Next
  <2> QED BY <2>1, RefreshedType, CycleGood
<1>2. CASE UNCHANGED vars
  BY <1>2 DEF vars, CoreInv, TypeOK, PcAligned, StatusMirror, MTVecLegal,
     LatchSame, ZeroReg
<1> QED BY <1>1, <1>2

----------------------------------------------------------------------------
\* The theorems.

LEMMA SpecInv == Spec => []CoreInv
<1>1. CoreInv /\ [Next]_vars => CoreInv'
  BY StepGood
<1> QED BY InitInv, <1>1, PTL DEF Spec

\* Every register, word of memory and control register stays in its range.
THEOREM TypeCorrect == Spec => []TypeOK
BY SpecInv, PTL DEF CoreInv

\* No jump, trap or return ever leaves the pc on an address that is not a
\* multiple of four, where the memories assert.
THEOREM PcStaysAligned == Spec => []PcAligned
BY SpecInv, PTL DEF CoreInv

\* sstatus and mstatus never disagree on the bits they share.
THEOREM StatusInStep == Spec => []StatusMirror
BY SpecInv, PTL DEF CoreInv

\* Privilege rises by a trap to machine mode, and in no other way.
THEOREM PrivilegeSound == Spec => PrivRisesOnlyByTrap
<1>1. CoreInv /\ [Next]_vars =>
        [csr'.priv > csr.priv =>
           event'.trap # "none" /\ csr'.priv = kPrivLevelM]_vars
  BY StepGood DEF PrivStep
<1> QED BY SpecInv, <1>1, PTL DEF Spec, PrivRisesOnlyByTrap

\* A trap saves in mepc the pc of the instruction it was taken at.
THEOREM TrapSavesPc == Spec => [][event'.trap # "none" => csr'.mepc = pc]_vars
<1>1. CoreInv /\ [Next]_vars => [event'.trap # "none" => csr'.mepc = pc]_vars
  BY StepGood DEF EpcStep
<1> QED BY SpecInv, <1>1, PTL DEF Spec

\* The interrupt taken was enabled when the cycle began, and is the most urgent
\* of those that were (core.cpp:132-137, csr.cpp): none slips in between the
\* instruction that turns interrupts on and the one after it.
THEOREM InterruptsWereEnabled == Spec => InterruptWasEnabled
<1>1. CoreInv /\ [Next]_vars =>
        [event'.trap = "intr" =>
           LET cause == csr'.mcause - kIntrBit
           IN  /\ kMIE \in csr.mstatus
               /\ cause \in csr.mie \cap csr'.mip
               /\ \A other \in csr.mie \cap csr'.mip : other <= cause]_vars
  BY StepGood DEF IntrStep
<1> QED BY SpecInv, <1>1, PTL DEF Spec, InterruptWasEnabled

\* And one that was enabled and is pending is taken in this very cycle,
\* whatever exception the instruction has.
THEOREM InterruptsAreTaken == Spec => InterruptTaken
<1>1. CoreInv /\ [Next]_vars =>
        [(kMIE \in csr.mstatus /\ csr.mie \cap csr'.mip # {}) =>
           event'.trap = "intr"]_vars
  BY StepGood DEF IntrStep
<1> QED BY SpecInv, <1>1, PTL DEF Spec, InterruptTaken

=============================================================================
