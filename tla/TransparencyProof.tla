------------------------- MODULE TransparencyProof -------------------------
(***************************************************************************)
(* Proof that the debugger implements the hart: a program runs under it as *)
(* it runs without it.                                                     *)
(*                                                                         *)
(* The program's memory is the machine's, overlaid with the words that the *)
(* breakpoints have saved (Over).  A cycle of the debugged core and one of *)
(* the hart alone work on two records that differ in those words only      *)
(* (Twins); each unit and each stage of the end of a cycle keeps them so,  *)
(* as long as the instruction names no such word (Spared) and the page     *)
(* table is read from none (Looked).  So what the one commits the other    *)
(* commits (TwinExecute).  What is left are the cycles the debugger takes  *)
(* part in: the one that hits a breakpoint (UnseenHit) and the one that    *)
(* runs the instruction it replaced, in the next turn (UnseenRerun) or in  *)
(* its deletion (UnseenDeleteHit).                                         *)
(*                                                                         *)
(* Hart is instantiated as Guest, with the program's view of pc and memory *)
(* for its variables.  The prover sees the operators of that instance as   *)
(* operators of their own: the lemmas named Same... say which are equal.   *)
(***************************************************************************)
EXTENDS DebuggerProof

\* The arithmetic of the guest is that of the machine.
LEMMA SameArithmetic ==
  /\ \A x, y : Guest!Add(x, y) = Add(x, y)
  /\ \A n : Guest!Wrap(n) = Wrap(n)
  /\ \A x : Guest!Signed(x) = Signed(x)
  /\ \A op, x, y : Guest!PerformIntOp(op, x, y) = PerformIntOp(op, x, y)
<1>1. \A x : Guest!Signed(x) = Signed(x)
  BY DEF Guest!Signed, Signed, Guest!TopBit, TopBit
<1>2. \A x, y : Guest!Add(x, y) = Add(x, y)
  BY DEF Guest!Add, Add
<1>3. \A n : Guest!Wrap(n) = Wrap(n)
  BY DEF Guest!Wrap, Wrap
<1>4. \A y : Guest!ShiftAmount(y) = ShiftAmount(y)
  BY DEF Guest!ShiftAmount, ShiftAmount
<1>5. \A x, k : Guest!Sll(x, k) = Sll(x, k)
  BY DEF Guest!Sll, Sll, Guest!Bit, Bit
<1>6. \A x, k : Guest!Srl(x, k) = Srl(x, k)
  BY DEF Guest!Srl, Srl, Guest!Bit, Bit
<1>7. \A x, k : Guest!Sra(x, k) = Sra(x, k)
  BY DEF Guest!Sra, Sra, Guest!Bit, Bit
<1>8. \A x, y : Guest!MulHSU(x, y) = MulHSU(x, y)
  BY <1>1 DEF Guest!MulHSU, MulHSU, Guest!Wide, Wide
<1>9. \A n : Guest!Abs(n) = Abs(n)
  BY DEF Guest!Abs, Abs
<1>10. \A a, b : Guest!Quotient(a, b) = Quotient(a, b)
  BY <1>9 DEF Guest!Quotient, Quotient
<1>11. \A a, b : Guest!Remainder(a, b) = Remainder(a, b)
  BY <1>9 DEF Guest!Remainder, Remainder
<1>12. \A x, y : Guest!Overflows(x, y) = Overflows(x, y)
  BY <1>1 DEF Guest!Overflows, Overflows, Guest!TopBit, TopBit
<1>13. \A x, y : Guest!Div(x, y) = Div(x, y)
  BY <1>12, <1>3, <1>10, <1>1 DEF Guest!Div, Div, Guest!TopBit, TopBit
<1>14. \A x, y : Guest!DivU(x, y) = DivU(x, y)
  BY DEF Guest!DivU, DivU
<1>15. \A x, y : Guest!Rem(x, y) = Rem(x, y)
  BY <1>12, <1>3, <1>11, <1>1 DEF Guest!Rem, Rem
<1>16. \A x, y : Guest!RemU(x, y) = RemU(x, y)
  BY DEF Guest!RemU, RemU
<1>17. \A op, x, y : Guest!PerformIntOp(op, x, y) = PerformIntOp(op, x, y)
  BY SMT DEF Guest!Bit, Bit, Guest!TopBit, TopBit, Guest!Signed, Signed,
     Guest!Add, Add, Guest!Wrap, Wrap, Guest!ShiftAmount, ShiftAmount,
     Guest!Sll, Sll, Guest!Srl, Srl, Guest!Sra, Sra, Guest!Wide, Wide,
     Guest!MulHSU, MulHSU, Guest!Abs, Abs, Guest!Quotient, Quotient,
     Guest!Remainder, Remainder, Guest!Overflows, Overflows, Guest!Div, Div,
     Guest!DivU, DivU, Guest!Rem, Rem, Guest!RemU, RemU, Guest!PerformIntOp,
     PerformIntOp
<1> QED BY <1>2, <1>3, <1>1, <1>17

\* And so are its control registers,
LEMMA SameControl ==
  /\ \A status : Guest!Mpp(status) = Mpp(status)
  /\ \A priv : Guest!MppBits(priv) = MppBits(priv)
  /\ \A c, addr : Guest!Readable(c, addr) = Readable(c, addr)
  /\ \A c, addr : Guest!Writable(c, addr) = Writable(c, addr)
  /\ \A c, addr : Guest!ReadData(c, addr) = ReadData(c, addr)
  /\ \A c, bits : Guest!WriteSStatus(c, bits) = WriteSStatus(c, bits)
  /\ \A c, bits : Guest!WriteMStatus(c, bits) = WriteMStatus(c, bits)
  /\ \A c, addr, value : Guest!WriteData(c, addr, value)
         = WriteData(c, addr, value)
  /\ \A c : Guest!trap_vec(c) = trap_vec(c)
<1>1. \A status : Guest!Mpp(status) = Mpp(status)
  BY DEF Guest!Mpp, Mpp, Guest!kMPPLo, kMPPLo, Guest!kMPPHi, kMPPHi
<1>2. \A priv : Guest!MppBits(priv) = MppBits(priv)
  BY DEF Guest!MppBits, MppBits, Guest!kMPPLo, kMPPLo, Guest!kMPPHi, kMPPHi
<1>3. \A addr : Guest!GetPrivByCSRAddr(addr) = GetPrivByCSRAddr(addr)
  BY DEF Guest!GetPrivByCSRAddr, GetPrivByCSRAddr
<1>4. \A addr : Guest!IsReadOnly(addr) = IsReadOnly(addr)
  BY DEF Guest!IsReadOnly, IsReadOnly
<1>5. \A c, addr : Guest!Readable(c, addr) = Readable(c, addr)
  BY <1>3 DEF Guest!Readable, Readable, Guest!csrs, csrs, Guest!HardwiredZero,
     HardwiredZero, Guest!kCSRSStatus, kCSRSStatus, Guest!kCSRSScratch,
     kCSRSScratch, Guest!kCSRSEPC, kCSRSEPC, Guest!kCSRSATP, kCSRSATP,
     Guest!kCSRMStatus, kCSRMStatus, Guest!kCSRMISA, kCSRMISA, Guest!kCSRMIE,
     kCSRMIE, Guest!kCSRMTVec, kCSRMTVec, Guest!kCSRMScratch, kCSRMScratch,
     Guest!kCSRMEPC, kCSRMEPC, Guest!kCSRMCause, kCSRMCause, Guest!kCSRMTVal,
     kCSRMTVal, Guest!kCSRMIP, kCSRMIP
<1>6. \A c, addr : Guest!Writable(c, addr) = Writable(c, addr)
  BY <1>5, <1>4 DEF Guest!Writable, Writable
<1>7. \A c, addr : Guest!ReadData(c, addr) = ReadData(c, addr)
  BY DEF Guest!ReadData, ReadData, Guest!kCSRSStatus, kCSRSStatus,
     Guest!kCSRSScratch, kCSRSScratch, Guest!kCSRSEPC, kCSRSEPC,
     Guest!kCSRSATP, kCSRSATP, Guest!kCSRMStatus, kCSRMStatus, Guest!kCSRMISA,
     kCSRMISA, Guest!kMISA, kMISA, Guest!Bit, Bit, Guest!kCSRMIE, kCSRMIE,
     Guest!kCSRMIP, kCSRMIP, Guest!kCSRMTVec, kCSRMTVec, Guest!kCSRMScratch,
     kCSRMScratch, Guest!kCSRMEPC, kCSRMEPC, Guest!kCSRMCause, kCSRMCause,
     Guest!kCSRMTVal, kCSRMTVal
<1>8. \A bits : Guest!LegalMpp(bits) = LegalMpp(bits)
  BY DEF Guest!LegalMpp, LegalMpp, Guest!kMPPHi, kMPPHi, Guest!kMPPLo, kMPPLo
<1>9. \A c, bits : Guest!WriteSStatus(c, bits) = WriteSStatus(c, bits)
  BY DEF Guest!WriteSStatus, WriteSStatus, Guest!kMaskSStatus, kMaskSStatus,
     Guest!kSPP, kSPP, Guest!kMaskMStatus, kMaskMStatus, Guest!kMIE, kMIE,
     Guest!kMPIE, kMPIE, Guest!kMPPLo, kMPPLo, Guest!kMPPHi, kMPPHi
<1>10. \A c, bits : Guest!WriteMStatus(c, bits) = WriteMStatus(c, bits)
  BY <1>8 DEF Guest!WriteMStatus, WriteMStatus, Guest!kMaskMStatus,
     kMaskMStatus, Guest!kMIE, kMIE, Guest!kMPIE, kMPIE, Guest!kSPP, kSPP,
     Guest!kMPPLo, kMPPLo, Guest!kMPPHi, kMPPHi, Guest!kMaskSStatus,
     kMaskSStatus
<1>11. \A x : Guest!LegalMTVec(x) = LegalMTVec(x)
  BY DEF Guest!LegalMTVec, LegalMTVec
<1>12. \A c, addr, value : Guest!WriteData(c, addr, value)
         = WriteData(c, addr, value)
  BY <1>9, <1>10, <1>11 DEF Guest!WriteData, WriteData, Guest!kCSRSStatus,
     kCSRSStatus, Guest!kCSRMStatus, kCSRMStatus, Guest!kCSRSATP, kCSRSATP,
     Guest!kMaskSATP, kMaskSATP, Guest!kSATPMode, kSATPMode, Guest!kCSRMIE,
     kCSRMIE, Guest!kMaskMIE, kMaskMIE, Guest!kMSI, kMSI, Guest!kMTI, kMTI,
     Guest!kMEI, kMEI, Guest!kCSRMTVec, kCSRMTVec, Guest!kCSRSScratch,
     kCSRSScratch, Guest!kCSRSEPC, kCSRSEPC, Guest!kCSRMScratch, kCSRMScratch,
     Guest!kCSRMEPC, kCSRMEPC, Guest!kCSRMCause, kCSRMCause, Guest!kCSRMTVal,
     kCSRMTVal
<1>13. \A c : Guest!trap_vec(c) = trap_vec(c)
  BY DEF Guest!trap_vec, trap_vec, Guest!kIntrBit, kIntrBit, Guest!TopBit,
     TopBit
<1> QED BY <1>1, <1>2, <1>5, <1>6, <1>7, <1>9, <1>10, <1>12, <1>13

\* its bus,
LEMMA SameBus ==
  /\ \A m, pa, n : Guest!BusRead(m, pa, n) = BusRead(m, pa, n)
  /\ \A m, pa, n, v : Guest!BusWrite(m, pa, n, v) = BusWrite(m, pa, n, v)
<1>1. \A k, n : Guest!Lanes(k, n) = Lanes(k, n)
  BY DEF Guest!Lanes, Lanes, Guest!Bit, Bit, Guest!ByteWidth, ByteWidth
<1>2. \A pa, n : Guest!IsClint(pa, n) = IsClint(pa, n)
  BY DEF Guest!IsClint, IsClint
<1>3. \A pa, n : Guest!IsHalt(pa, n) = IsHalt(pa, n)
  BY DEF Guest!IsHalt, IsHalt
<1>4. \A pa, n : Guest!IsPort(pa, n) = IsPort(pa, n)
  BY DEF Guest!IsPort, IsPort
<1>5. \A pa, n : Guest!IsRegister(pa, n) = IsRegister(pa, n)
  BY <1>2, <1>3 DEF Guest!IsRegister, IsRegister
<1>6. \A m, pa, n : Guest!BusRead(m, pa, n) = BusRead(m, pa, n)
  BY <1>1, <1>5 DEF Guest!BusRead, BusRead, Guest!ByteWidth, ByteWidth
<1>7. \A m, pa, n, v : Guest!BusWrite(m, pa, n, v) = BusWrite(m, pa, n, v)
  BY SMT DEF Guest!Bit, Bit, Guest!ByteWidth, ByteWidth, Guest!Lanes, Lanes,
     Guest!IsClint, IsClint, Guest!IsHalt, IsHalt, Guest!IsPort, IsPort,
     Guest!IsRegister, IsRegister, Guest!BusWrite, BusWrite
<1> QED BY <1>6, <1>7

\* its page tables,
LEMMA SameMMU ==
  /\ \A c : Guest!Translated(c) = Translated(c)
  /\ \A c, m, a, kind : Guest!PageFault(c, m, a, kind)
         = PageFault(c, m, a, kind)
  /\ \A c, m, a : Guest!GetPhysicalAddr(c, m, a) = GetPhysicalAddr(c, m, a)
<1>1. \A a : Guest!offset(a) = offset(a)
  BY DEF Guest!offset, offset, Guest!kPageSize, kPageSize
<1>2. \A a : Guest!vpn0(a) = vpn0(a)
  BY DEF Guest!vpn0, vpn0, Guest!kPageSize, kPageSize
<1>3. \A a : Guest!vpn1(a) = vpn1(a)
  BY DEF Guest!vpn1, vpn1, Guest!kPageSize, kPageSize
<1>4. \A x : Guest!PTE(x) = PTE(x)
  BY DEF Guest!PTE, PTE, Guest!Flag, Flag, Guest!FlagBit, FlagBit
<1>5. \A ppn : Guest!PageAddr(ppn) = PageAddr(ppn)
  BY DEF Guest!PageAddr, PageAddr, Guest!kPageSize, kPageSize, Guest!Frames,
     Frames
<1>6. \A c : Guest!satp_ppn(c) = satp_ppn(c)
  BY DEF Guest!satp_ppn, satp_ppn, Guest!kSATPMode, kSATPMode
<1>7. \A m, ppn, i : Guest!Entry(m, ppn, i) = Entry(m, ppn, i)
  BY <1>4, SameBus, <1>5 DEF Guest!Entry, Entry
<1>8. \A pte : Guest!Invalid(pte) = Invalid(pte)
  BY DEF Guest!Invalid, Invalid
<1>9. \A pte : Guest!Pointer(pte) = Pointer(pte)
  BY DEF Guest!Pointer, Pointer
<1>10. \A c, m, a : Guest!Walk(c, m, a) = Walk(c, m, a)
  <2> TAKE c, m, a
  <2> DEFINE root == Entry(m, satp_ppn(c), vpn1(a))
             leaf == Entry(m, root.ppn, vpn0(a))
  <2>1. Guest!Entry(m, Guest!satp_ppn(c), Guest!vpn1(a)) = root
    BY <1>3, <1>6, <1>7
  <2>2. Guest!Entry(m, root.ppn, Guest!vpn0(a)) = leaf
    BY <1>2, <1>7
  <2>3. /\ Guest!offset(a) = offset(a) /\ Guest!vpn0(a) = vpn0(a)
        /\ Guest!Invalid(root) = Invalid(root) /\ Guest!Pointer(root) = Pointer(root)
        /\ Guest!Invalid(leaf) = Invalid(leaf) /\ Guest!Pointer(leaf) = Pointer(leaf)
    BY <1>1, <1>2, <1>8, <1>9
  <2> HIDE DEF root, leaf
  <2> QED BY <1>5, <2>1, <2>2, <2>3
          DEF Guest!Walk, Walk, Guest!NoLeaf, NoLeaf, root, leaf
<1>11. \A c : Guest!Translated(c) = Translated(c)
  BY DEF Guest!Translated, Translated, Guest!kPrivLevelM, kPrivLevelM,
     Guest!kSATPMode, kSATPMode
<1>12. \A priv, flags, kind : Guest!CheckPTEProperty(priv, flags, kind)
         = CheckPTEProperty(priv, flags, kind)
  BY DEF Guest!CheckPTEProperty, CheckPTEProperty, Guest!kPrivLevelS,
     kPrivLevelS
<1>13. \A priv, leaf, kind : Guest!Refuses(priv, leaf, kind)
         = Refuses(priv, leaf, kind)
  BY <1>12 DEF Guest!Refuses, Refuses
<1>14. \A c, m, a, kind : Guest!PageFault(c, m, a, kind)
         = PageFault(c, m, a, kind)
  BY <1>11, <1>13, <1>10 DEF Guest!PageFault, PageFault
<1>15. \A c, m, a : Guest!GetPhysicalAddr(c, m, a) = GetPhysicalAddr(c, m, a)
  BY <1>11, <1>10 DEF Guest!GetPhysicalAddr, GetPhysicalAddr
<1> QED BY <1>11, <1>14, <1>15

\* what the units share
LEMMA SameStages ==
  /\ \A w, code, tval : Guest!RaiseException(w, code, tval)
         = RaiseException(w, code, tval)
  /\ \A a : Guest!SetFlag(a) = SetFlag(a)
  /\ \A m, a : Guest!CheckFlag(m, a) = CheckFlag(m, a)
  /\ \A w, a, kind : Guest!MmuAccess(w, a, kind) = MmuAccess(w, a, kind)
  /\ \A w, a, n : Guest!Read(w, a, n) = Read(w, a, n)
  /\ \A w, a, n, v : Guest!Write(w, a, n, v) = Write(w, a, n, v)
  /\ \A w, code : Guest!CheckPageFault(w, code) = CheckPageFault(w, code)
  /\ \A w, rd, v : Guest!SetReg(w, rd, v) = SetReg(w, rd, v)
  /\ \A w, i : Guest!Illegal(w, i) = Illegal(w, i)
<1>1. \A code : Guest!GetExcPriority(code) = GetExcPriority(code)
  BY DEF Guest!GetExcPriority, GetExcPriority, Guest!kExcStAMOPageFault,
     kExcStAMOPageFault, Guest!kExcLoadPageFault, kExcLoadPageFault,
     Guest!kExcStAMOAddrMisalign, kExcStAMOAddrMisalign,
     Guest!kExcLoadAddrMisalign, kExcLoadAddrMisalign, Guest!kExcIllegalInst,
     kExcIllegalInst, Guest!kExcInstAddrMisalign, kExcInstAddrMisalign,
     Guest!kExcUEnvCall, kExcUEnvCall, Guest!kExcSEnvCall, kExcSEnvCall,
     Guest!kExcMEnvCall, kExcMEnvCall, Guest!kExcBreakpoint, kExcBreakpoint,
     Guest!kExcInstPageFault, kExcInstPageFault, Guest!kIntrBit, kIntrBit,
     Guest!TopBit, TopBit, Guest!kMSI, kMSI, Guest!kMTI, kMTI, Guest!kMEI,
     kMEI
<1>2. \A w, code, tval : Guest!RaiseException(w, code, tval)
         = RaiseException(w, code, tval)
  BY <1>1 DEF Guest!RaiseException, RaiseException
<1>3. \A a : Guest!SetFlag(a) = SetFlag(a)
  BY DEF Guest!SetFlag, SetFlag
<1>4. \A m, a : Guest!CheckFlag(m, a) = CheckFlag(m, a)
  BY DEF Guest!CheckFlag, CheckFlag
<1>5. \A w, a, kind : Guest!MmuAccess(w, a, kind) = MmuAccess(w, a, kind)
  BY SameMMU DEF Guest!MmuAccess, MmuAccess
<1>6. \A w, a, n : Guest!Read(w, a, n) = Read(w, a, n)
  BY <1>5, SameBus, SameMMU DEF Guest!Read, Read
<1>7. \A w, a, n, v : Guest!Write(w, a, n, v) = Write(w, a, n, v)
  BY <1>5, SameBus, SameMMU DEF Guest!Write, Write
<1>8. \A w, code : Guest!CheckPageFault(w, code) = CheckPageFault(w, code)
  BY <1>2 DEF Guest!CheckPageFault, CheckPageFault
<1>9. \A w, rd, v : Guest!SetReg(w, rd, v) = SetReg(w, rd, v)
  BY DEF Guest!SetReg, SetReg
<1>10. \A w, i : Guest!Illegal(w, i) = Illegal(w, i)
  BY <1>2 DEF Guest!Illegal, Illegal, Guest!kExcIllegalInst, kExcIllegalInst
<1> QED BY <1>2, <1>3, <1>4, <1>5, <1>6, <1>7, <1>8, <1>9, <1>10

\* the units that use memory
LEMMA SameMemoryUnits ==
  /\ \A w, i : Guest!LoadReserved(w, i) = LoadReserved(w, i)
  /\ \A w, i : Guest!StoreConditional(w, i) = StoreConditional(w, i)
  /\ \A w, i : Guest!ReadModifyWrite(w, i) = ReadModifyWrite(w, i)
  /\ \A w, i : Guest!Load(w, i) = Load(w, i)
  /\ \A w, i : Guest!Store(w, i) = Store(w, i)
<1>1. \A op, x, y : Guest!AMOResult(op, x, y) = AMOResult(op, x, y)
  BY SameArithmetic DEF Guest!AMOResult, AMOResult
<1>2. \A w, i : Guest!LoadReserved(w, i) = LoadReserved(w, i)
  BY SameStages DEF Guest!LoadReserved, LoadReserved,
     Guest!kExcStAMOAddrMisalign, kExcStAMOAddrMisalign
<1>3. \A w, i : Guest!StoreConditional(w, i) = StoreConditional(w, i)
  BY SameStages DEF Guest!StoreConditional, StoreConditional,
     Guest!kExcStAMOAddrMisalign, kExcStAMOAddrMisalign, Guest!ClearFlag,
     ClearFlag
<1>4. \A w, i : Guest!ReadModifyWrite(w, i) = ReadModifyWrite(w, i)
  BY SameStages, <1>1 DEF Guest!ReadModifyWrite, ReadModifyWrite,
     Guest!kExcStAMOAddrMisalign, kExcStAMOAddrMisalign
<1>5. \A op : Guest!Width(op) = Width(op)
  BY DEF Guest!Width, Width
<1>6. \A op, v : Guest!Extend(op, v) = Extend(op, v)
  BY <1>5 DEF Guest!Extend, Extend, Guest!ByteWidth, ByteWidth, Guest!Bit, Bit
<1>7. \A w, i : Guest!Load(w, i) = Load(w, i)
  BY SameArithmetic, <1>5, SameStages, <1>6 DEF Guest!Load, Load,
     Guest!kExcLoadAddrMisalign, kExcLoadAddrMisalign
<1>8. \A w, i : Guest!Store(w, i) = Store(w, i)
  BY SameArithmetic, <1>5, SameStages DEF Guest!Store, Store,
     Guest!kExcStAMOAddrMisalign, kExcStAMOAddrMisalign
<1> QED BY <1>2, <1>3, <1>4, <1>7, <1>8

\* the others
LEMMA SameUnits ==
  /\ \A w, i : Guest!Compute(w, i) = Compute(w, i)
  /\ \A w, i : Guest!Branch(w, i) = Branch(w, i)
  /\ \A w, i : Guest!Jump(w, i) = Jump(w, i)
  /\ \A w, i : i.op \in PrivOp => Guest!Privileged(w, i) = Privileged(w, i)
  /\ \A w, i : Guest!AccessCSR(w, i) = AccessCSR(w, i)
  /\ \A w, i : Guest!FenceVMA(w, i) = FenceVMA(w, i)
<1>1. \A w, i : Guest!Compute(w, i) = Compute(w, i)
  BY SameArithmetic, SameStages DEF Guest!Compute, Compute, Guest!ImmOp,
     ImmOp, Guest!ImmBase, ImmBase
<1>2. \A op, x, y : Guest!Taken(op, x, y) = Taken(op, x, y)
  BY SameArithmetic DEF Guest!Taken, Taken
<1>3. \A w, i : Guest!Branch(w, i) = Branch(w, i)
  BY <1>2, SameArithmetic DEF Guest!Branch, Branch
<1>4. \A w, i : Guest!Jump(w, i) = Jump(w, i)
  BY SameArithmetic, SameStages DEF Guest!Jump, Jump
<1>5. \A s : Guest!MretStatus(s) = MretStatus(s)
  BY DEF Guest!MretStatus, MretStatus, Guest!kMIE, kMIE, Guest!kMPPLo, kMPPLo,
     Guest!kMPPHi, kMPPHi, Guest!kMPIE, kMPIE
<1>6. \A s : Guest!SretStatus(s) = SretStatus(s)
  BY DEF Guest!SretStatus, SretStatus, Guest!kSIE, kSIE, Guest!kSPP, kSPP,
     Guest!kSPIE, kSPIE
<1>7. \A w : Guest!ReturnFromM(w) = ReturnFromM(w)
  BY SameControl, <1>5 DEF Guest!ReturnFromM, ReturnFromM, Guest!ClearFlag,
     ClearFlag
<1>8. \A w : Guest!ReturnFromS(w) = ReturnFromS(w)
  BY SameControl, <1>6 DEF Guest!ReturnFromS, ReturnFromS, Guest!kSPP, kSPP,
     Guest!kPrivLevelS, kPrivLevelS, Guest!kPrivLevelU, kPrivLevelU,
     Guest!ClearFlag, ClearFlag
<1>9. \A w, i, mode : Guest!ReturnFromTrap(w, i, mode)
         = ReturnFromTrap(w, i, mode)
  BY SameStages, <1>7, <1>8 DEF Guest!ReturnFromTrap, ReturnFromTrap,
     Guest!kPrivLevelM, kPrivLevelM
<1>10. \A priv : Guest!EnvCall(priv) = EnvCall(priv)
  BY DEF Guest!EnvCall, EnvCall, Guest!kPrivLevelU, kPrivLevelU,
     Guest!kExcUEnvCall, kExcUEnvCall, Guest!kPrivLevelS, kPrivLevelS,
     Guest!kExcSEnvCall, kExcSEnvCall, Guest!kPrivLevelM, kPrivLevelM,
     Guest!kExcMEnvCall, kExcMEnvCall
<1>11. \A w, i : i.op \in PrivOp => Guest!Privileged(w, i) = Privileged(w, i)
  BY SameStages, <1>9, <1>10 DEF Guest!Privileged, Privileged, PrivOp,
     Guest!kExcBreakpoint, kExcBreakpoint, Guest!kPrivLevelS, kPrivLevelS,
     Guest!kPrivLevelM, kPrivLevelM
<1>12. \A w, i : Guest!AccessCSR(w, i) = AccessCSR(w, i)
  BY SameControl, SameStages DEF Guest!AccessCSR, AccessCSR, Guest!CSRImmOp,
     CSRImmOp
<1>13. \A w, i : Guest!FenceVMA(w, i) = FenceVMA(w, i)
  BY SameStages DEF Guest!FenceVMA, FenceVMA, Guest!kPrivLevelS, kPrivLevelS
<1> QED BY <1>1, <1>3, <1>4, <1>11, <1>12, <1>13

\* and the ends of a cycle
LEMMA SameEnd ==
  /\ \A w : Guest!CheckNextPc(w) = CheckNextPc(w)
  /\ \A w, lines : Guest!CheckInterrupt(w, lines)
         = CheckInterrupt(w, lines)
  /\ \A w : Guest!TakeTrap(w) = TakeTrap(w)
  /\ \A w : Guest!TrapKind(w) = TrapKind(w)
  /\ \A m, at : Guest!Copied(m, at) = Copied(m, at)
  /\ \A m, pa : Guest!InstsAt(m, pa) = InstsAt(m, pa)
<1>1. \A w, lines : Guest!CheckInterrupt(w, lines)
         = CheckInterrupt(w, lines)
  <2>1. /\ Guest!kMSI = kMSI /\ Guest!kMEI = kMEI /\ Guest!kMTI = kMTI
        /\ Guest!kMIE = kMIE
    BY DEF Guest!kMSI, kMSI, Guest!kMEI, kMEI, Guest!kMTI, kMTI, Guest!kMIE, kMIE
  <2>2. Guest!kIntrBit = kIntrBit
    BY DEF Guest!kIntrBit, kIntrBit, Guest!TopBit, TopBit
  <2>3. /\ \A m, a, n : Guest!BusRead(m, a, n) = BusRead(m, a, n)
        /\ \A w, cause, v :
             Guest!RaiseException(w, cause, v) = RaiseException(w, cause, v)
    BY SameBus, SameStages
  <2> QED BY <2>1, <2>2, <2>3 DEF Guest!CheckInterrupt, CheckInterrupt
<1>2. \A s, priv : Guest!TrapStatus(s, priv) = TrapStatus(s, priv)
  BY SameControl DEF Guest!TrapStatus, TrapStatus, Guest!kMIE, kMIE,
     Guest!kMPIE, kMPIE, Guest!kMPPLo, kMPPLo, Guest!kMPPHi, kMPPHi
<1>3. \A w : Guest!TakeTrap(w) = TakeTrap(w)
  BY SameControl, <1>2 DEF Guest!TakeTrap, TakeTrap, Guest!kPrivLevelM,
     kPrivLevelM, Guest!kStateExcCodeReset, kStateExcCodeReset,
     Guest!ClearFlag, ClearFlag
<1>4. \A w : Guest!CheckNextPc(w) = CheckNextPc(w)
  BY SameStages DEF Guest!CheckNextPc, CheckNextPc,
     Guest!kExcInstAddrMisalign, kExcInstAddrMisalign
<1>5. \A w : Guest!TrapKind(w) = TrapKind(w)
  BY DEF Guest!TrapKind, TrapKind, Guest!kStateExcCodeReset,
     kStateExcCodeReset, Guest!kIntrBit, kIntrBit, Guest!TopBit, TopBit
<1>6. \A m, at : Guest!Copied(m, at) = Copied(m, at)
  BY SameArithmetic DEF Guest!Copied, Copied, Guest!kStateExcCodeReset,
     kStateExcCodeReset
<1>7. \A m, pa : Guest!InstsAt(m, pa) = InstsAt(m, pa)
  BY DEF Guest!InstsAt, InstsAt
<1> QED BY <1>4, <1>1, <1>3, <1>5, <1>6, <1>7

----------------------------------------------------------------------------
\* Words of memory with others in their place: those that the breakpoints
\* have saved.

Patch(f) == f \in [DOMAIN f -> Word] /\ DOMAIN f \subseteq BreakAddr

Over(m, f) == [a \in MemAddr |-> IF a \in DOMAIN f THEN f[a] ELSE m[a]]

LEMMA PatchAddr ==
  ASSUME NEW f, Patch(f), NEW a \in DOMAIN f
  PROVE  /\ a \in RamAddr /\ a \in Word /\ a \in MemAddr /\ a - (a % 4) = a
         /\ a \notin ClintAddr \cup {HaltAddr} \cup DebugAddr \cup {MSIP}
<1>1. a \in BreakAddr
  BY DEF Patch
<1>2. a \in RamAddr /\ a \in Word /\ a % 4 = 0
  BY <1>1, DebuggerAssumption, BusAssumption
<1>3. a - (a % 4) = a
  BY <1>2, WordAssumption DEF Word
<1> QED BY <1>2, <1>3, BusAssumption DEF MemAddr

LEMMA OverType ==
  ASSUME NEW m \in Memory, NEW f, Patch(f)
  PROVE  Over(m, f) \in Memory
BY DEF Over, Memory, Patch

Put(m, a, x) == [m EXCEPT ![a] = x]

LEMMA OverPut ==
  ASSUME NEW m \in Memory, NEW f, NEW a, a \notin DOMAIN f, NEW x
  PROVE  Over(Put(m, a, x), f) = Put(Over(m, f), a, x)
BY DEF Over, Memory, Put

\* A read of another word, and a store to one, are the same in both.
LEMMA ReadOver ==
  ASSUME NEW m \in Memory, NEW f, Patch(f), NEW pa \in Word,
         pa - (pa % 4) \notin DOMAIN f, NEW n
  PROVE  BusRead(Over(m, f), pa, n) = BusRead(m, pa, n)
<1> DEFINE at == pa - (pa % 4)
           Part(x) == IF n = 4 THEN x
                      ELSE WordOf({b \in Lanes(0, n) :
                                     b + (pa % 4) * ByteWidth \in BitsOf(x)})
<1>1. \A k : BusRead(k, pa, n) =
               IF at \in RamAddr THEN Part(k[at])
               ELSE IF IsRegister(pa, n) THEN k[pa] ELSE 0
  BY DEF BusRead
<1>2. at \in RamAddr => Over(m, f)[at] = m[at]
  BY DEF Over, MemAddr
<1>3. IsRegister(pa, n) => Over(m, f)[pa] = m[pa]
  BY PatchAddr DEF IsRegister, IsClint, IsHalt, Over, MemAddr
<1> HIDE DEF at, Part
<1> QED BY <1>1, <1>2, <1>3

LEMMA WriteOver ==
  ASSUME NEW m \in Memory, NEW f, Patch(f), NEW pa \in Word,
         pa - (pa % 4) \notin DOMAIN f, NEW n, NEW v
  PROVE  BusWrite(Over(m, f), pa, n, v) = Over(BusWrite(m, pa, n, v), f)
<1> DEFINE at == pa - (pa % 4)
           Part(x) == IF n = 4 THEN v
                      ELSE WordOf((BitsOf(x) \ Lanes(pa % 4, n))
                             \cup {b \in Lanes(pa % 4, n) :
                                     b - (pa % 4) * ByteWidth \in BitsOf(v)})
           flag == IF BitsOf(v) \cap Lanes(0, n) = {} THEN 0 ELSE 1
<1>1. \A k : BusWrite(k, pa, n, v) =
               IF at \in RamAddr THEN Put(k, at, Part(k[at]))
               ELSE IF IsPort(pa, n) THEN Put(k, pa, 1)
               ELSE IF ~IsRegister(pa, n) THEN k
               ELSE IF pa \notin {MSIP, HaltAddr} THEN Put(k, pa, v)
               ELSE Put(k, pa, flag)
  BY DEF BusWrite, Put
<1>2. at \in RamAddr => Over(m, f)[at] = m[at]
  BY DEF Over, MemAddr
<1>3. at \notin DOMAIN f /\ (pa \in DOMAIN f => at \in RamAddr)
  BY PatchAddr
<1> HIDE DEF at, Part, flag
<1> QED BY <1>1, <1>2, <1>3, OverPut

LEMMA WriteElsewhere ==
  ASSUME NEW m \in Memory, NEW pa, NEW n, NEW v,
         NEW a \in MemAddr, a # pa, a # pa - (pa % 4)
  PROVE  BusWrite(m, pa, n, v)[a] = m[a]
BY DEF BusWrite, Memory

----------------------------------------------------------------------------
\* The page table.

\* The words of the page table that the walk for an address reads.
Looked(c, m, a) ==
  LET root == Entry(m, satp_ppn(c), vpn1(a))
  IN  IF ~Translated(c) THEN {}
      ELSE {PageAddr(satp_ppn(c)) + 4 * vpn1(a)}
             \cup IF Invalid(root) \/ ~Pointer(root) THEN {}
                  ELSE {PageAddr(root.ppn) + 4 * vpn0(a)}

LEMMA EntryOver ==
  ASSUME NEW m \in Memory, NEW f, Patch(f), NEW ppn \in Nat,
         NEW j \in Nat, j < 1024, PageAddr(ppn) + 4 * j \notin DOMAIN f
  PROVE  Entry(Over(m, f), ppn, j) = Entry(m, ppn, j)
<1> DEFINE d == 4 * j
           pa == PageAddr(ppn) + d
<1>1. d \in Nat /\ d < 4096 /\ d % 4 = 0
  OBVIOUS
<1>2. pa \notin DOMAIN f
  OBVIOUS
<1>3. \A k : Entry(k, ppn, j) = PTE(BusRead(k, pa, 4))
  BY DEF Entry
<1> HIDE DEF d
<1>4. pa \in Word /\ pa % 4 = 0
  BY <1>1, PageInWords
<1> HIDE DEF pa
<1>5. pa - (pa % 4) = pa
  BY <1>4, WordAssumption DEF Word
<1> QED BY <1>2, <1>3, <1>4, <1>5, ReadOver

\* A walk that reads no patched word is the same in both memories.
LEMMA WalkOver ==
  ASSUME NEW m \in Memory, NEW f, Patch(f), NEW c, GoodCSR(c),
         NEW a \in Word, Translated(c), Looked(c, Over(m, f), a) \cap DOMAIN f = {}
  PROVE  Walk(c, Over(m, f), a) = Walk(c, m, a)
<1> DEFINE i == vpn1(a)
           j == vpn0(a)
           ppn == satp_ppn(c)
           root == Entry(Over(m, f), ppn, i)
           ends == Invalid(root) \/ ~Pointer(root)
<1>1. i \in Nat /\ i < 1024 /\ j \in Nat /\ j < 1024
  BY OffsetFacts
<1>2. ppn \in Nat
  <2>1. c.satp \ {kSATPMode} \in SUBSET Bit
    BY DEF GoodCSR, Registers
  <2> QED BY <2>1, WordOfType, WordAssumption DEF satp_ppn, Word
<1>3. /\ PageAddr(ppn) + 4 * i \notin DOMAIN f
      /\ ~ends => PageAddr(root.ppn) + 4 * j \notin DOMAIN f
  BY DEF Looked
<1> HIDE DEF i, j, ppn
<1>4. Entry(m, ppn, i) = root
  BY <1>1, <1>2, <1>3, EntryOver
<1>5. root.ppn \in Nat
  BY <1>1, <1>2, OverType, EntryType
<1> HIDE DEF root
<1>6. ~ends => Entry(Over(m, f), root.ppn, j) = Entry(m, root.ppn, j)
  BY <1>1, <1>3, <1>5, EntryOver
<1>7. \A k : Entry(k, ppn, i) = root =>
        /\ ends => Walk(c, k, a) =
                     IF Invalid(root) \/ root.ppn % VpnSize # 0 THEN NoLeaf
                     ELSE [ok |-> TRUE, flags |-> root.flags,
                           pa |-> PageAddr(root.ppn + j) + offset(a)]
        /\ ~ends => Walk(c, k, a) =
                      LET leaf == Entry(k, root.ppn, j)
                      IN  IF Invalid(leaf) \/ Pointer(leaf) THEN NoLeaf
                          ELSE [ok |-> TRUE, flags |-> leaf.flags,
                                pa |-> PageAddr(root.ppn) + offset(a)]
  BY DEF Walk, i, j, ppn
<1>8. Entry(Over(m, f), ppn, i) = root
  BY DEF root
<1> HIDE DEF ends
<1>9. CASE ends
  BY <1>4, <1>7, <1>8, <1>9
<1>10. CASE ~ends
  BY <1>4, <1>6, <1>7, <1>8, <1>10
<1> QED BY <1>9, <1>10

LEMMA AccessOver ==
  ASSUME NEW m \in Memory, NEW f, Patch(f), NEW c, GoodCSR(c),
         NEW a \in Word, Looked(c, Over(m, f), a) \cap DOMAIN f = {}
  PROVE  /\ GetPhysicalAddr(c, Over(m, f), a) = GetPhysicalAddr(c, m, a)
         /\ \A k : PageFault(c, Over(m, f), a, k) = PageFault(c, m, a, k)
BY WalkOver DEF GetPhysicalAddr, PageFault

----------------------------------------------------------------------------
\* Two working records that differ in the patched words only.

Alike(w, v, f) ==
  /\ v.pc = w.pc /\ v.npc = w.npc /\ v.regs = w.regs /\ v.exc = w.exc
  /\ v.csr = w.csr /\ v.mon = w.mon /\ v.bad = w.bad /\ v.vaddr = w.vaddr
  /\ v.mem = Over(w.mem, f)

\* The debugger's words are where it has put them, and nothing is stored to it.
Kept(m, f) ==
  /\ \A a \in DebugAddr : m[a] = 0
  /\ \A a \in DOMAIN f : m[a] = kBreakInst

Twins(w, v, f) == GoodWork(w) /\ GoodWork(v) /\ Alike(w, v, f) /\ Kept(w.mem, f)

\* An access at an address comes near no patched word and not to the debugger.
Spared(c, m, P, a) ==
  LET pa == GetPhysicalAddr(c, m, a)
  IN  /\ Looked(c, m, a) \cap P = {}
      /\ pa \in DebugAddr \/ pa - (pa % 4) \in P =>
           PageFault(c, m, a, "r") /\ PageFault(c, m, a, "w")

LEMMA TwinRaise ==
  ASSUME NEW f, NEW w, NEW v, Twins(w, v, f), NEW code \in SyncExc,
         NEW tval \in Word
  PROVE  Twins(RaiseException(w, code, tval), RaiseException(v, code, tval), f)
<1> DEFINE x == RaiseException(w, code, tval)
           y == RaiseException(v, code, tval)
<1>1. GoodWork(x) /\ GoodWork(y)
  BY RaiseSafe DEF Safe, Twins
<1>2. Alike(x, y, f) /\ x.mem = w.mem
  BY DEF RaiseException, Twins, Alike, GoodWork, Work
<1> QED BY <1>1, <1>2 DEF Twins

LEMMA TwinSetReg ==
  ASSUME NEW f, NEW w, NEW v, Twins(w, v, f), NEW rd \in Reg, NEW n \in Word
  PROVE  Twins(SetReg(w, rd, n), SetReg(v, rd, n), f)
<1>1. GoodWork(SetReg(w, rd, n)) /\ GoodWork(SetReg(v, rd, n))
  BY SetRegSafe DEF Safe, Twins
<1>2. Alike(SetReg(w, rd, n), SetReg(v, rd, n), f) /\ SetReg(w, rd, n).mem = w.mem
  BY DEF SetReg, Twins, Alike, GoodWork, Work
<1> QED BY <1>1, <1>2 DEF Twins

LEMMA TwinMon ==
  ASSUME NEW f, NEW w, NEW v, Twins(w, v, f), NEW k \in Monitor
  PROVE  Twins([w EXCEPT !.mon = k], [v EXCEPT !.mon = k], f)
<1> DEFINE x == [w EXCEPT !.mon = k]
           y == [v EXCEPT !.mon = k]
<1>1. GoodWork(x) /\ GoodWork(y)
  BY MonSafe DEF Safe, Twins
<1>2. Alike(x, y, f) /\ x.mem = w.mem
  BY DEF Twins, Alike, GoodWork, Work
<1> QED BY <1>1, <1>2 DEF Twins

LEMMA TwinAccess ==
  ASSUME NEW f, Patch(f), NEW w, NEW v, Twins(w, v, f), NEW a \in Word,
         Looked(v.csr, v.mem, a) \cap DOMAIN f = {}, NEW kind
  PROVE  Twins(MmuAccess(w, a, kind), MmuAccess(v, a, kind), f)
<1> DEFINE x == MmuAccess(w, a, kind)
           y == MmuAccess(v, a, kind)
           bad == PageFault(w.csr, w.mem, a, kind)
<1>1. GoodWork(x) /\ GoodWork(y)
  BY MmuAccessGood DEF Safe, Twins
<1>2. PageFault(v.csr, v.mem, a, kind) = bad
  BY AccessOver DEF Twins, Alike, GoodWork, Work
<1> HIDE DEF bad
<1>3. /\ x = IF w.bad THEN w ELSE [w EXCEPT !.vaddr = a, !.bad = bad]
      /\ y = IF v.bad THEN v ELSE [v EXCEPT !.vaddr = a, !.bad = bad]
  BY <1>2 DEF MmuAccess, bad
<1> HIDE DEF x, y
<1>4. Alike(x, y, f) /\ x.mem = w.mem
  BY <1>3 DEF Twins, Alike, GoodWork, Work
<1> QED BY <1>1, <1>4 DEF Twins, x, y

\* Where an access that is not refused leads to.
LEMMA TwinPlace ==
  ASSUME NEW f, Patch(f), NEW w, NEW v, Twins(w, v, f), NEW a \in Word,
         Spared(v.csr, v.mem, DOMAIN f, a), NEW kind \in {"r", "w"},
         ~MmuAccess(w, a, kind).bad, NEW pa,
         pa = GetPhysicalAddr(w.csr, w.mem, a)
  PROVE  /\ pa = GetPhysicalAddr(v.csr, v.mem, a)
         /\ pa \in Word /\ pa - (pa % 4) \notin DOMAIN f /\ pa \notin DebugAddr
<1>1. GoodCSR(w.csr) /\ w.mem \in Memory /\ v.csr = w.csr /\ v.mem = Over(w.mem, f)
  BY DEF Twins, Alike, GoodWork, Work
<1>2. pa \in Word
  BY <1>1, PhysicalAddr
<1>3. /\ GetPhysicalAddr(v.csr, v.mem, a) = pa
      /\ PageFault(v.csr, v.mem, a, kind) = PageFault(w.csr, w.mem, a, kind)
  BY <1>1, AccessOver DEF Spared
<1>4. ~PageFault(w.csr, w.mem, a, kind)
  <2> DEFINE bad == PageFault(w.csr, w.mem, a, kind)
  <2>1. MmuAccess(w, a, kind) = IF w.bad THEN w ELSE [w EXCEPT !.vaddr = a, !.bad = bad]
    BY DEF MmuAccess
  <2> HIDE DEF bad
  <2>2. ~bad
    BY <2>1 DEF Twins, GoodWork, Work
  <2> QED BY <2>2 DEF bad
<1> QED BY <1>2, <1>3, <1>4 DEF Spared

LEMMA TwinRead ==
  ASSUME NEW f, Patch(f), NEW w, NEW v, Twins(w, v, f), NEW a \in Word,
         Spared(v.csr, v.mem, DOMAIN f, a), NEW n
  PROVE  Read(v, a, n) = Read(w, a, n)
<1> DEFINE pa == GetPhysicalAddr(w.csr, w.mem, a)
<1>1. MmuAccess(v, a, "r").bad = MmuAccess(w, a, "r").bad
  BY TwinAccess DEF Twins, Alike, Spared
<1>2. CASE MmuAccess(w, a, "r").bad
  BY <1>1, <1>2 DEF Read
<1>3. CASE ~MmuAccess(w, a, "r").bad
  <2>1. /\ pa = GetPhysicalAddr(v.csr, v.mem, a)
        /\ pa \in Word /\ pa - (pa % 4) \notin DOMAIN f
    BY <1>3, TwinPlace
  <2>2. w.mem \in Memory /\ v.mem = Over(w.mem, f)
    BY DEF Twins, Alike, GoodWork, Work
  <2>3. /\ Read(w, a, n) = BusRead(w.mem, pa, n)
        /\ Read(v, a, n) = BusRead(v.mem, pa, n)
    BY <1>1, <1>3, <2>1 DEF Read
  <2> HIDE DEF pa
  <2> QED BY <2>1, <2>2, <2>3, ReadOver
<1> QED BY <1>2, <1>3

LEMMA TwinWrite ==
  ASSUME NEW f, Patch(f), NEW w, NEW v, Twins(w, v, f), NEW a \in Word,
         Spared(v.csr, v.mem, DOMAIN f, a), NEW n, NEW d \in Word
  PROVE  Twins(Write(w, a, n, d), Write(v, a, n, d), f)
<1> DEFINE pa == GetPhysicalAddr(w.csr, w.mem, a)
           x == MmuAccess(w, a, "w")
           y == MmuAccess(v, a, "w")
           m == BusWrite(w.mem, pa, n, d)
<1>1. Twins(x, y, f)
  BY TwinAccess DEF Spared
<1>2. GoodWork(Write(w, a, n, d)) /\ GoodWork(Write(v, a, n, d))
  BY WriteSafe DEF Safe, Twins
<1>3. CASE x.bad
  <2>1. Write(w, a, n, d) = x /\ Write(v, a, n, d) = y
    BY <1>1, <1>3 DEF Write, Twins, Alike
  <2> QED BY <1>1, <2>1
<1>4. CASE ~x.bad
  <2>1. /\ pa = GetPhysicalAddr(v.csr, v.mem, a) /\ pa \notin DebugAddr
        /\ pa \in Word /\ pa - (pa % 4) \notin DOMAIN f
    BY <1>4, TwinPlace
  <2>2. w.mem \in Memory /\ v.mem = Over(w.mem, f) /\ Kept(w.mem, f)
    BY DEF Twins, Alike, GoodWork, Work
  <2>3. /\ Write(w, a, n, d) = [x EXCEPT !.mem = m]
        /\ Write(v, a, n, d) = [y EXCEPT !.mem = BusWrite(v.mem, pa, n, d)]
    BY <1>1, <1>4, <2>1 DEF Write, Twins, Alike
  <2> HIDE DEF pa, x, y
  <2>4. BusWrite(v.mem, pa, n, d) = Over(m, f)
    BY <2>1, <2>2, WriteOver
  <2>5. Kept(m, f)
    <3>1. ASSUME NEW b \in DebugAddr PROVE m[b] = 0
      <4>1. b \in MemAddr /\ b \notin RamAddr /\ b # pa
        BY <2>1, BusAssumption DEF MemAddr
      <4>2. pa - (pa % 4) \in RamAddr => pa - (pa % 4) # b
        BY <4>1
      <4>3. m[b] = w.mem[b]
        BY <2>2, <4>1, <4>2 DEF BusWrite, Memory
      <4> QED BY <2>2, <4>3 DEF Kept
    <3>2. ASSUME NEW b \in DOMAIN f PROVE m[b] = kBreakInst
      <4>1. b \in MemAddr /\ b # pa - (pa % 4) /\ b # pa
        BY <2>1, PatchAddr
      <4>2. m[b] = w.mem[b]
        BY <2>2, <4>1, WriteElsewhere
      <4> QED BY <2>2, <4>2 DEF Kept
    <3> QED BY <3>1, <3>2 DEF Kept
  <2>6. Alike(Write(w, a, n, d), Write(v, a, n, d), f) /\ Write(w, a, n, d).mem = m
    <3> HIDE DEF m
    <3> QED BY <1>1, <2>3, <2>4 DEF Twins, Alike, GoodWork, Work
  <2> QED BY <1>2, <2>5, <2>6 DEF Twins
<1> QED BY <1>3, <1>4

----------------------------------------------------------------------------
\* The units that use memory.

\* Where an instruction has its operand in memory.
Named(r, i) ==
  IF i.op \in AMOOp \cup {"lr", "sc"} THEN {r[i.rs1]}
  ELSE IF i.op \in LoadOp \cup StoreOp THEN {Add(r[i.rs1], i.imm)} ELSE {}

LEMMA TwinIllegal ==
  ASSUME NEW f, NEW w, NEW v, Twins(w, v, f), NEW i, GoodInst(i)
  PROVE  Twins(Illegal(w, i), Illegal(v, i), f)
<1>1. kExcIllegalInst \in SyncExc
  BY SyncWords DEF kExcIllegalInst
<1> QED BY <1>1, TwinRaise DEF Illegal, GoodInst

LEMMA TwinMisaligned ==
  ASSUME NEW f, NEW w, NEW v, Twins(w, v, f), NEW a \in Word,
         NEW code \in {kExcStAMOAddrMisalign, kExcLoadAddrMisalign,
                       kExcInstAddrMisalign}
  PROVE  Twins(RaiseException(w, code, a), RaiseException(v, code, a), f)
<1>1. code \in 0 .. 31
  BY DEF kExcStAMOAddrMisalign, kExcLoadAddrMisalign, kExcInstAddrMisalign
<1>2. code \in SyncExc
  BY <1>1, SyncWords
<1> QED BY <1>2, TwinRaise

LEMMA TwinPageFault ==
  ASSUME NEW f, NEW w, NEW v, Twins(w, v, f),
         NEW code \in {kExcLoadPageFault, kExcStAMOPageFault, kExcInstPageFault}
  PROVE  Twins(CheckPageFault(w, code), CheckPageFault(v, code), f)
<1>1. code \in 0 .. 31
  BY DEF kExcLoadPageFault, kExcStAMOPageFault, kExcInstPageFault
<1>2. code \in SyncExc
  BY <1>1, SyncWords
<1>3. w.vaddr \in Word /\ v.vaddr = w.vaddr /\ v.bad = w.bad
  BY DEF Twins, Alike, GoodWork, Work
<1> QED BY <1>2, <1>3, TwinRaise DEF CheckPageFault

LEMMA TwinReadInto ==
  ASSUME NEW f, Patch(f), NEW w, NEW v, Twins(w, v, f), NEW a \in Word,
         Spared(v.csr, v.mem, DOMAIN f, a), NEW rd \in Reg, NEW n \in Word
  PROVE  Twins(SetReg(MmuAccess(w, a, "r"), rd, n),
               SetReg(MmuAccess(v, a, "r"), rd, n), f)
BY TwinAccess, TwinSetReg DEF Spared

LEMMA TwinLoadReserved ==
  ASSUME NEW f, Patch(f), NEW w, NEW v, Twins(w, v, f), NEW i, GoodInst(i),
         i.op = "lr",
         \A a \in Named(v.regs, i) : Spared(v.csr, v.mem, DOMAIN f, a)
  PROVE  Twins(LoadReserved(w, i), LoadReserved(v, i), f)
<1> DEFINE a == w.regs[i.rs1]
           r == [w EXCEPT !.mon = SetFlag(a)]
           s == [v EXCEPT !.mon = SetFlag(a)]
           d == Read(r, a, 4)
           x == SetReg(MmuAccess(r, a, "r"), i.rd, d)
           y == SetReg(MmuAccess(s, a, "r"), i.rd, d)
<1>1. GoodWork(w) /\ v.regs = w.regs
  BY DEF Twins, Alike
<1>2. a \in Word /\ i.rd \in Reg
  BY <1>1, InstFields, RegType DEF CSRImmOp
<1>3. SetFlag(a) \in Monitor
  BY <1>2 DEF SetFlag, Monitor
<1>4. Twins(r, s, f)
  BY <1>3, TwinMon
<1>5. s.csr = v.csr /\ s.mem = v.mem
  BY DEF Twins, GoodWork, Work
<1>6. Spared(v.csr, v.mem, DOMAIN f, a)
  BY <1>1 DEF Named
<1>7. /\ Twins(RaiseException(w, kExcStAMOAddrMisalign, a),
               RaiseException(v, kExcStAMOAddrMisalign, a), f)
      /\ Twins(Illegal(w, i), Illegal(v, i), f)
  BY <1>2, TwinMisaligned, TwinIllegal
<1>8. /\ LoadReserved(w, i) = IF i.rs2 # 0 THEN Illegal(w, i)
           ELSE IF a % 4 # 0 THEN RaiseException(w, kExcStAMOAddrMisalign, a) ELSE x
      /\ LoadReserved(v, i) = IF i.rs2 # 0 THEN Illegal(v, i)
           ELSE IF a % 4 # 0 THEN RaiseException(v, kExcStAMOAddrMisalign, a)
           ELSE SetReg(MmuAccess(s, a, "r"), i.rd, Read(s, a, 4))
  BY <1>1 DEF LoadReserved
<1> HIDE DEF a, r, s
<1>9. d \in Word /\ d = Read(s, a, 4)
  BY <1>2, <1>4, <1>5, <1>6, TwinRead, ReadType DEF Twins
<1> HIDE DEF d
<1>10. Twins(x, y, f)
  BY <1>2, <1>4, <1>5, <1>6, <1>9, TwinReadInto
<1> QED BY <1>7, <1>8, <1>9, <1>10

LEMMA TwinStoreConditional ==
  ASSUME NEW f, Patch(f), NEW w, NEW v, Twins(w, v, f), NEW i, GoodInst(i),
         i.op = "sc",
         \A a \in Named(v.regs, i) : Spared(v.csr, v.mem, DOMAIN f, a)
  PROVE  Twins(StoreConditional(w, i), StoreConditional(v, i), f)
<1> DEFINE a == w.regs[i.rs1]
           d == w.regs[i.rs2]
           open == CheckFlag(w.mon, a)
           r == IF open THEN SetReg(Write(w, a, 4, d), i.rd, 0) ELSE SetReg(w, i.rd, 1)
           s == IF open THEN SetReg(Write(v, a, 4, d), i.rd, 0) ELSE SetReg(v, i.rd, 1)
<1>1. GoodWork(w) /\ v.regs = w.regs /\ v.mon = w.mon
  BY DEF Twins, Alike
<1>2. a \in Word /\ d \in Word /\ i.rd \in Reg /\ 0 \in Word /\ 1 \in Word
  BY <1>1, InstFields, RegType, SmallWords DEF CSRImmOp
<1>3. Spared(v.csr, v.mem, DOMAIN f, a)
  BY <1>1 DEF Named
<1>4. Twins(RaiseException(w, kExcStAMOAddrMisalign, a),
            RaiseException(v, kExcStAMOAddrMisalign, a), f)
  BY <1>2, TwinMisaligned
<1>5. /\ StoreConditional(w, i) =
           IF a % 4 # 0 THEN RaiseException(w, kExcStAMOAddrMisalign, a)
           ELSE [r EXCEPT !.mon = ClearFlag]
      /\ StoreConditional(v, i) =
           IF a % 4 # 0 THEN RaiseException(v, kExcStAMOAddrMisalign, a)
           ELSE [s EXCEPT !.mon = ClearFlag]
  BY <1>1 DEF StoreConditional
<1> HIDE DEF a, d, open
<1>6. Twins(r, s, f)
  BY <1>2, <1>3, TwinWrite, TwinSetReg
<1> HIDE DEF r, s
<1>7. Twins([r EXCEPT !.mon = ClearFlag], [s EXCEPT !.mon = ClearFlag], f)
  BY <1>6, TwinMon, ClearFlagType
<1> QED BY <1>4, <1>5, <1>7

LEMMA TwinReadModifyWrite ==
  ASSUME NEW f, Patch(f), NEW w, NEW v, Twins(w, v, f), NEW i, GoodInst(i),
         i.op \in AMOOp,
         \A a \in Named(v.regs, i) : Spared(v.csr, v.mem, DOMAIN f, a)
  PROVE  Twins(ReadModifyWrite(w, i), ReadModifyWrite(v, i), f)
<1> DEFINE a == w.regs[i.rs1]
           data == Read(w, a, 4)
           d == AMOResult(i.op, data, w.regs[i.rs2])
           r == SetReg(MmuAccess(w, a, "r"), i.rd, data)
           s == SetReg(MmuAccess(v, a, "r"), i.rd, data)
<1>1. GoodWork(w) /\ v.regs = w.regs
  BY DEF Twins, Alike
<1>2. a \in Word /\ w.regs[i.rs2] \in Word /\ i.rd \in Reg
  BY <1>1, InstFields, RegType DEF CSRImmOp, AMOOp
<1>3. Spared(v.csr, v.mem, DOMAIN f, a)
  BY <1>1 DEF Named
<1>4. Twins(RaiseException(w, kExcStAMOAddrMisalign, a),
            RaiseException(v, kExcStAMOAddrMisalign, a), f)
  BY <1>2, TwinMisaligned
<1>5. data \in Word /\ data = Read(v, a, 4)
  BY <1>1, <1>2, <1>3, ReadType, TwinRead
<1>6. d \in Word
  BY <1>2, <1>5, AMOResultType
<1>7. /\ ReadModifyWrite(w, i) =
           IF a % 4 # 0 THEN RaiseException(w, kExcStAMOAddrMisalign, a)
           ELSE Write(r, a, 4, d)
      /\ ReadModifyWrite(v, i) =
           IF a % 4 # 0 THEN RaiseException(v, kExcStAMOAddrMisalign, a)
           ELSE Write(s, a, 4, d)
  BY <1>1, <1>5 DEF ReadModifyWrite
<1>8. s.csr = v.csr /\ s.mem = v.mem
  BY <1>2, <1>5, MmuAccessGood, SetRegSafe DEF Twins, Safe
<1> HIDE DEF a, data, d
<1>9. Twins(r, s, f)
  BY <1>2, <1>3, <1>5, TwinReadInto
<1> HIDE DEF r, s
<1>10. Twins(Write(r, a, 4, d), Write(s, a, 4, d), f)
  BY <1>2, <1>3, <1>6, <1>8, <1>9, TwinWrite
<1> QED BY <1>4, <1>7, <1>10

LEMMA TwinLoad ==
  ASSUME NEW f, Patch(f), NEW w, NEW v, Twins(w, v, f), NEW i, GoodInst(i),
         i.op \in LoadOp,
         \A a \in Named(v.regs, i) : Spared(v.csr, v.mem, DOMAIN f, a)
  PROVE  Twins(Load(w, i), Load(v, i), f)
<1> DEFINE a == Add(w.regs[i.rs1], i.imm)
           n == Width(i.op)
           d == Extend(i.op, Read(w, a, n))
<1>1. GoodWork(w) /\ v.regs = w.regs
  BY DEF Twins, Alike
<1>2. a \in Word /\ i.rd \in Reg
  BY <1>1, InstFields, RegType, AddType DEF CSRImmOp, LoadOp
<1>3. Spared(v.csr, v.mem, DOMAIN f, a)
  BY <1>1 DEF Named, LoadOp, AMOOp
<1>4. Twins(RaiseException(w, kExcLoadAddrMisalign, a),
            RaiseException(v, kExcLoadAddrMisalign, a), f)
  BY <1>2, TwinMisaligned
<1>5. Read(w, a, n) \in Word /\ Read(v, a, n) = Read(w, a, n)
  BY <1>1, <1>2, <1>3, ReadType, TwinRead
<1>6. d \in Word
  BY <1>5, ExtendType
<1>7. /\ Load(w, i) =
           IF a % n # 0 THEN RaiseException(w, kExcLoadAddrMisalign, a)
           ELSE SetReg(MmuAccess(w, a, "r"), i.rd, d)
      /\ Load(v, i) =
           IF a % n # 0 THEN RaiseException(v, kExcLoadAddrMisalign, a)
           ELSE SetReg(MmuAccess(v, a, "r"), i.rd, d)
  BY <1>1, <1>5 DEF Load
<1> HIDE DEF a, n, d
<1>8. Twins(SetReg(MmuAccess(w, a, "r"), i.rd, d),
            SetReg(MmuAccess(v, a, "r"), i.rd, d), f)
  BY <1>2, <1>3, <1>6, TwinReadInto
<1> QED BY <1>4, <1>7, <1>8

LEMMA TwinStore ==
  ASSUME NEW f, Patch(f), NEW w, NEW v, Twins(w, v, f), NEW i, GoodInst(i),
         i.op \in StoreOp,
         \A a \in Named(v.regs, i) : Spared(v.csr, v.mem, DOMAIN f, a)
  PROVE  Twins(Store(w, i), Store(v, i), f)
<1> DEFINE a == Add(w.regs[i.rs1], i.imm)
           n == Width(i.op)
           d == w.regs[i.rs2]
<1>1. GoodWork(w) /\ v.regs = w.regs
  BY DEF Twins, Alike
<1>2. a \in Word /\ d \in Word
  BY <1>1, InstFields, RegType, AddType DEF CSRImmOp, StoreOp
<1>3. Spared(v.csr, v.mem, DOMAIN f, a)
  BY <1>1 DEF Named, StoreOp, AMOOp
<1>4. Twins(RaiseException(w, kExcStAMOAddrMisalign, a),
            RaiseException(v, kExcStAMOAddrMisalign, a), f)
  BY <1>2, TwinMisaligned
<1>5. /\ Store(w, i) =
           IF a % n # 0 THEN RaiseException(w, kExcStAMOAddrMisalign, a)
           ELSE Write(w, a, n, d)
      /\ Store(v, i) =
           IF a % n # 0 THEN RaiseException(v, kExcStAMOAddrMisalign, a)
           ELSE Write(v, a, n, d)
  BY <1>1 DEF Store
<1> HIDE DEF a, n, d
<1>6. Twins(Write(w, a, n, d), Write(v, a, n, d), f)
  BY <1>2, <1>3, TwinWrite
<1> QED BY <1>4, <1>5, <1>6

----------------------------------------------------------------------------
\* The units without memory.

LEMMA TwinNextPc ==
  ASSUME NEW f, NEW w, NEW v, Twins(w, v, f), NEW a \in Word
  PROVE  Twins([w EXCEPT !.npc = a], [v EXCEPT !.npc = a], f)
<1> DEFINE x == [w EXCEPT !.npc = a]
           y == [v EXCEPT !.npc = a]
<1>1. GoodWork(x) /\ GoodWork(y)
  BY NextPcSafe DEF Safe, Twins
<1>2. Alike(x, y, f) /\ x.mem = w.mem
  BY DEF Twins, Alike, GoodWork, Work
<1> QED BY <1>1, <1>2 DEF Twins

LEMMA TwinCompute ==
  ASSUME NEW f, NEW w, NEW v, Twins(w, v, f), NEW i, GoodInst(i),
         i.op \in ComputeOp
  PROVE  Twins(Compute(w, i), Compute(v, i), f)
<1> DEFINE d == IF i.op = "lui" THEN i.imm
                ELSE IF i.op = "auipc" THEN Add(w.pc, i.imm)
                ELSE IF i.op \in ImmOp
                THEN PerformIntOp(ImmBase[i.op], w.regs[i.rs1], i.imm)
                ELSE PerformIntOp(i.op, w.regs[i.rs1], w.regs[i.rs2])
<1>1. GoodWork(Compute(w, i)) /\ GoodWork(Compute(v, i))
  BY ComputeSafe DEF Safe, Twins
<1>2. v.regs = w.regs /\ v.pc = w.pc
  BY DEF Twins, Alike
<1>3. Compute(w, i) = SetReg(w, i.rd, d) /\ Compute(v, i) = SetReg(v, i.rd, d)
  BY <1>2 DEF Compute
<1> HIDE DEF d
<1>4. /\ Alike(SetReg(w, i.rd, d), SetReg(v, i.rd, d), f)
      /\ SetReg(w, i.rd, d).mem = w.mem
  BY DEF SetReg, Twins, Alike, GoodWork, Work
<1> QED BY <1>1, <1>3, <1>4 DEF Twins

LEMMA TwinBranch ==
  ASSUME NEW f, NEW w, NEW v, Twins(w, v, f), NEW i, GoodInst(i)
  PROVE  Twins(Branch(w, i), Branch(v, i), f)
<1>1. v.regs = w.regs /\ v.pc = w.pc /\ w.pc \in Word /\ i.imm \in Word
  BY InstFields DEF Twins, Alike, GoodWork, Work
<1>2. Add(w.pc, i.imm) \in Word
  BY <1>1, AddType
<1> QED BY <1>1, <1>2, TwinNextPc DEF Branch

LEMMA TwinJump ==
  ASSUME NEW f, NEW w, NEW v, Twins(w, v, f), NEW i, GoodInst(i),
         i.op \in {"jal", "jalr"}
  PROVE  Twins(Jump(w, i), Jump(v, i), f)
<1> DEFINE sum == Add(w.regs[i.rs1], i.imm)
           a == IF i.op = "jal" THEN Add(w.pc, i.imm) ELSE sum - (sum % 2)
           d == Add(w.pc, 4)
<1>1. v.regs = w.regs /\ v.pc = w.pc /\ GoodWork(w)
  BY DEF Twins, Alike
<1>2. /\ i.rd \in Reg /\ i.imm \in Word /\ w.regs[i.rs1] \in Word
      /\ w.pc \in Word /\ 4 \in Word
  BY <1>1, InstFields, RegType, SmallWords DEF CSRImmOp, GoodWork, Work
<1>3. d \in Word /\ a \in Word
  BY <1>2, AddType, EvenType
<1>4. /\ Jump(w, i) = [SetReg(w, i.rd, d) EXCEPT !.npc = a]
      /\ Jump(v, i) = [SetReg(v, i.rd, d) EXCEPT !.npc = a]
  BY <1>1 DEF Jump
<1> HIDE DEF a, d
<1> QED BY <1>2, <1>3, <1>4, TwinSetReg, TwinNextPc

LEMMA TwinReturn ==
  ASSUME NEW f, NEW w, NEW v, Twins(w, v, f), NEW i, GoodInst(i),
         NEW mode \in {kPrivLevelS, kPrivLevelM}
  PROVE  Twins(ReturnFromTrap(w, i, mode), ReturnFromTrap(v, i, mode), f)
<1> DEFINE c == w.csr
           cM == [WriteMStatus(c, MretStatus(c.mstatus)) EXCEPT
                    !.priv = Mpp(c.mstatus)]
           cS == [WriteSStatus(c, SretStatus(c.sstatus)) EXCEPT
                    !.priv = IF kSPP \in c.sstatus
                             THEN kPrivLevelS ELSE kPrivLevelU]
           x == ReturnFromTrap(w, i, mode)
           y == ReturnFromTrap(v, i, mode)
           Back(u, a, d) == [u EXCEPT !.npc = a, !.csr = d, !.mon = ClearFlag]
<1>1. GoodWork(x) /\ GoodWork(y)
  BY ReturnFromTrapSafe DEF Safe, Twins
<1>2. v.csr = c
  BY DEF Twins, Alike
<1>3. /\ x = IF c.priv < mode THEN Illegal(w, i)
             ELSE IF mode = kPrivLevelM THEN Back(w, c.mepc, cM)
             ELSE Back(w, c.sepc, cS)
      /\ y = IF c.priv < mode THEN Illegal(v, i)
             ELSE IF mode = kPrivLevelM THEN Back(v, c.mepc, cM)
             ELSE Back(v, c.sepc, cS)
  BY <1>2 DEF ReturnFromTrap, ReturnFromM, ReturnFromS
<1>4. Twins(Illegal(w, i), Illegal(v, i), f)
  BY TwinIllegal
<1>5. ASSUME NEW a, NEW d
      PROVE  Alike(Back(w, a, d), Back(v, a, d), f) /\ Back(w, a, d).mem = w.mem
  BY DEF Twins, Alike, GoodWork, Work
<1> HIDE DEF c, cM, cS, x, y, Back
<1>6. CASE c.priv < mode
  BY <1>3, <1>4, <1>6 DEF x, y
<1>7. CASE ~(c.priv < mode)
  <2>1. Alike(x, y, f) /\ x.mem = w.mem
    BY <1>3, <1>5, <1>7
  <2> QED BY <1>1, <2>1 DEF Twins, x, y
<1> QED BY <1>6, <1>7

LEMMA TwinPrivileged ==
  ASSUME NEW f, NEW w, NEW v, Twins(w, v, f), NEW i, GoodInst(i),
         i.op \in PrivOp
  PROVE  Twins(Privileged(w, i), Privileged(v, i), f)
<1> DEFINE call(u) == RaiseException(u, EnvCall(w.csr.priv), 0)
           stop(u) == RaiseException(u, kExcBreakpoint, 0)
           sret(u) == ReturnFromTrap(u, i, kPrivLevelS)
           mret(u) == ReturnFromTrap(u, i, kPrivLevelM)
           P(u) == IF i.rs1 # 0 \/ i.rd # 0 THEN Illegal(u, i)
                   ELSE IF i.op = "ecall" THEN call(u)
                   ELSE IF i.op = "ebreak" THEN stop(u)
                   ELSE IF i.op = "sret" THEN sret(u)
                   ELSE IF i.op = "mret" THEN mret(u)
                   ELSE u
<1>1. v.csr = w.csr /\ 0 \in Word
  BY SmallWords DEF Twins, Alike
<1>2. Privileged(w, i) = P(w) /\ Privileged(v, i) = P(v)
  BY <1>1 DEF Privileged, PrivOp
<1>3. EnvCall(w.csr.priv) \in SyncExc /\ kExcBreakpoint \in SyncExc
  <2>1. w.csr.priv \in {kPrivLevelU, kPrivLevelS, kPrivLevelM}
    BY DEF Twins, GoodWork, GoodCSR, Registers, Priv
  <2>2. EnvCall(w.csr.priv) \in 0 .. 31 /\ kExcBreakpoint \in 0 .. 31
    BY <2>1 DEF EnvCall, kPrivLevelU, kPrivLevelS, kPrivLevelM, kExcUEnvCall,
                kExcSEnvCall, kExcMEnvCall, kExcBreakpoint
  <2> QED BY <2>2, SyncWords
<1>4. Twins(call(w), call(v), f) /\ Twins(stop(w), stop(v), f)
  BY <1>1, <1>3, TwinRaise
<1>5. Twins(sret(w), sret(v), f) /\ Twins(mret(w), mret(v), f)
  BY TwinReturn
<1>6. Twins(Illegal(w, i), Illegal(v, i), f)
  BY TwinIllegal
<1> HIDE DEF call, stop, sret, mret
<1> QED BY <1>2, <1>4, <1>5, <1>6

LEMMA TwinAccessCSR ==
  ASSUME NEW f, NEW w, NEW v, Twins(w, v, f), NEW i, GoodInst(i),
         i.op \in CSROp
  PROVE  Twins(AccessCSR(w, i), AccessCSR(v, i), f)
<1> DEFINE swap == i.op \in {"csrrw", "csrrwi"}
           src  == IF i.op \in CSRImmOp THEN i.rs1 ELSE w.regs[i.rs1]
           old  == ReadData(w.csr, i.csr)
           new  == IF swap THEN src
                   ELSE IF i.op \in {"csrrs", "csrrsi"}
                   THEN WordOf(BitsOf(old) \cup BitsOf(src))
                   ELSE WordOf(BitsOf(old) \ BitsOf(src))
           writes == swap \/ i.rs1 # 0
           refused == ~Readable(w.csr, i.csr) \/ (writes /\ ~Writable(w.csr, i.csr))
           c == IF writes THEN WriteData(w.csr, i.csr, new) ELSE w.csr
           kept == swap /\ i.rd = 0
           R(u) == [(IF kept THEN u ELSE SetReg(u, i.rd, old)) EXCEPT !.csr = c]
<1>1. GoodWork(AccessCSR(w, i)) /\ GoodWork(AccessCSR(v, i))
  BY AccessCSRSafe DEF Safe, Twins
<1>2. v.csr = w.csr /\ v.regs = w.regs
  BY DEF Twins, Alike
<1>3. /\ AccessCSR(w, i) = IF refused THEN Illegal(w, i) ELSE R(w)
      /\ AccessCSR(v, i) = IF refused THEN Illegal(v, i) ELSE R(v)
  BY <1>2 DEF AccessCSR
<1> HIDE DEF old, c, kept, refused
<1>4. Alike(R(w), R(v), f) /\ R(w).mem = w.mem
  BY DEF SetReg, Twins, Alike, GoodWork, Work
<1>5. Twins(Illegal(w, i), Illegal(v, i), f)
  BY TwinIllegal
<1> HIDE DEF R
<1> QED BY <1>1, <1>3, <1>4, <1>5 DEF Twins

LEMMA TwinFenceVMA ==
  ASSUME NEW f, NEW w, NEW v, Twins(w, v, f), NEW i, GoodInst(i)
  PROVE  Twins(FenceVMA(w, i), FenceVMA(v, i), f)
<1>1. v.csr = w.csr
  BY DEF Twins, Alike
<1> QED BY <1>1, TwinIllegal DEF FenceVMA

----------------------------------------------------------------------------
\* The write-back.

LEMMA TwinNext ==
  ASSUME NEW f, NEW w, NEW v, Twins(w, v, f)
  PROVE  Twins(CheckNextPc(w), CheckNextPc(v), f)
<1>1. w.npc \in Word /\ v.npc = w.npc
  BY DEF Twins, Alike, GoodWork, Work
<1> QED BY <1>1, TwinMisaligned DEF CheckNextPc

LEMMA TwinInterrupt ==
  ASSUME NEW f, Patch(f), NEW w, NEW v, Twins(w, v, f), NEW lines \in Lines,
         NEW x, x = CheckInterrupt(w, lines), NEW y, y = CheckInterrupt(v, lines)
  PROVE  Alike(x, y, f) /\ x.mem = w.mem
<1>1. BusRead(v.mem, MSIP, 4) = BusRead(w.mem, MSIP, 4)
  <2>1. MSIP - (MSIP % 4) = MSIP /\ MSIP \in Word
    BY BusAssumption, WordAssumption DEF Word
  <2>2. MSIP \notin DOMAIN f
    BY PatchAddr
  <2>3. w.mem \in Memory /\ v.mem = Over(w.mem, f)
    BY DEF Twins, Alike, GoodWork, Work
  <2> QED BY <2>1, <2>2, <2>3, ReadOver
<1> DEFINE mip   == lines \cup IF BusRead(w.mem, MSIP, 4) # 0 THEN {kMSI} ELSE {}
           taken == mip \cap latch.mie
           cause == IF kMEI \in taken THEN kMEI
                    ELSE IF kMTI \in taken THEN kMTI ELSE kMSI
           asked == kMIE \in latch.mstatus /\ taken # {}
           code  == kIntrBit + cause
           X(u)  == [u EXCEPT !.csr = [u.csr EXCEPT !.mip = mip]]
<1>2. /\ x = IF asked THEN RaiseException(X(w), code, 0) ELSE X(w)
      /\ y = IF asked THEN RaiseException(X(v), code, 0) ELSE X(v)
  BY <1>1 DEF CheckInterrupt
<1> HIDE DEF mip, asked, code
<1>3. Alike(X(w), X(v), f) /\ X(w).mem = w.mem
  BY DEF Twins, Alike, GoodWork, Work
<1>4. /\ Alike(RaiseException(X(w), code, 0), RaiseException(X(v), code, 0), f)
      /\ RaiseException(X(w), code, 0).mem = w.mem
  <2> DEFINE a == X(w)
             b == X(v)
  <2>1. a \in [pc : Word, npc : Word, regs : [Reg -> Word], exc : SyncExc,
               csr : {a.csr}, mon : Monitor, mem : Memory, bad : BOOLEAN, vaddr : Word]
    BY DEF Twins, GoodWork, Work
  <2>2. b \in [pc : Word, npc : Word, regs : [Reg -> Word], exc : SyncExc,
               csr : {b.csr}, mon : Monitor, mem : Memory, bad : BOOLEAN, vaddr : Word]
    BY DEF Twins, GoodWork, Work
  <2>3. Alike(a, b, f) /\ a.mem = w.mem
    BY <1>3
  <2> HIDE DEF a, b, X
  <2>4. /\ Alike(RaiseException(a, code, 0), RaiseException(b, code, 0), f)
        /\ RaiseException(a, code, 0).mem = w.mem
    BY <2>1, <2>2, <2>3 DEF RaiseException, Alike
  <2> QED BY <2>4 DEF a, b
<1> HIDE DEF X
<1> QED BY <1>2, <1>3, <1>4

LEMMA TwinTrap ==
  ASSUME NEW f, NEW x, NEW y, GoodChecked(x), GoodChecked(y), Alike(x, y, f)
  PROVE  /\ TakeTrap(y).npc = TakeTrap(x).npc
         /\ TakeTrap(y).csr = TakeTrap(x).csr
         /\ TakeTrap(y).mon = TakeTrap(x).mon
         /\ TakeTrap(y).mem = Over(TakeTrap(x).mem, f)
         /\ TakeTrap(x).mem = x.mem
<1> DEFINE c == [x.csr EXCEPT !.mepc = x.pc - (x.pc % 4), !.priv = kPrivLevelM]
           to == trap_vec(c)
           d == WriteMStatus(c, TrapStatus(c.mstatus, x.csr.priv))
           T(u) == [u EXCEPT !.exc = kStateExcCodeReset, !.npc = to, !.csr = d,
                             !.mon = ClearFlag]
<1>1. y.csr = x.csr /\ y.pc = x.pc
  BY DEF Alike
<1>2. TakeTrap(x) = T(x) /\ TakeTrap(y) = T(y)
  BY <1>1 DEF TakeTrap
<1> HIDE DEF to, d
<1> QED BY <1>2 DEF GoodChecked, Checked, Alike

\* What the debugged machine commits, the guest commits, when there is nothing
\* of the debugger in its pc, its memory and its event afterwards.
LEMMA TwinCommit ==
  ASSUME NEW f, NEW x, NEW y, GoodChecked(x), GoodChecked(y), Alike(x, y, f),
         NEW op, Commit(op, x),
         GuestPc' = pc', GuestMem' = Over(mem', f), guest' = event'
  PROVE  Guest!Commit(op, y)
<1> DEFINE s == IF x.exc # kStateExcCodeReset THEN TakeTrap(x) ELSE x
           t == IF y.exc # kStateExcCodeReset THEN TakeTrap(y) ELSE y
<1>1. y.exc = x.exc /\ y.regs = x.regs /\ TrapKind(y) = TrapKind(x)
  BY DEF Alike, TrapKind
<1>2. t.npc = s.npc /\ t.csr = s.csr /\ t.mon = s.mon /\ t.mem = Over(s.mem, f)
  BY <1>1, TwinTrap DEF Alike
<1>3. /\ regs' = [(IF x.exc # kStateExcCodeReset THEN regs ELSE x.regs) EXCEPT ![0] = 0]
      /\ pc' = s.npc /\ csr' = s.csr /\ mon' = s.mon /\ mem' = s.mem
      /\ latch' = [mstatus |-> s.csr.mstatus, mie |-> s.csr.mie]
      /\ event' = [op |-> op, trap |-> TrapKind(x)]
  BY DEF Commit
<1>4. t = IF y.exc # Guest!kStateExcCodeReset THEN Guest!TakeTrap(y) ELSE y
  BY SameEnd DEF Guest!kStateExcCodeReset, kStateExcCodeReset
<1>5. Guest!kStateExcCodeReset = kStateExcCodeReset
  BY DEF Guest!kStateExcCodeReset, kStateExcCodeReset
<1>6. Guest!TrapKind(y) = TrapKind(y)
  BY SameEnd
<1> HIDE DEF s, t
<1> QED BY <1>1, <1>2, <1>3, <1>4, <1>5, <1>6 DEF Guest!Commit

LEMMA TwinWriteBack ==
  ASSUME NEW f, Patch(f), NEW w, NEW v, Twins(w, v, f), NEW op,
         NEW lines \in Lines, WriteBack(op, w, lines)
  PROVE  /\ Kept(mem', f)
         /\ GuestPc' = pc' /\ GuestMem' = Over(mem', f) /\ guest' = event'
              => Guest!WriteBack(op, v, lines)
<1> DEFINE x == CheckInterrupt(CheckNextPc(w), lines)
           y == CheckInterrupt(CheckNextPc(v), lines)
<1>1. Twins(CheckNextPc(w), CheckNextPc(v), f)
  BY TwinNext
<1>2. CheckNextPc(w).mem = w.mem
  BY DEF CheckNextPc, RaiseException, Twins, GoodWork, Work
<1>3. Alike(x, y, f) /\ x.mem = w.mem
  BY <1>1, <1>2, TwinInterrupt
<1>4. GoodChecked(x) /\ GoodChecked(y)
  BY <1>1, CheckInterruptGood DEF Twins
<1>5. Commit(op, x)
  BY DEF WriteBack
<1>6. Guest!CheckInterrupt(Guest!CheckNextPc(v), lines) = y
  BY SameEnd
<1> HIDE DEF x, y
<1>7. mem' = w.mem
  BY <1>3, <1>4, <1>5, TwinTrap DEF Commit
<1>8. Kept(mem', f)
  BY <1>7 DEF Twins
<1>9. ASSUME GuestPc' = pc', GuestMem' = Over(mem', f), guest' = event'
      PROVE  Guest!WriteBack(op, v, lines)
  BY <1>3, <1>4, <1>5, <1>6, <1>9, TwinCommit DEF Guest!WriteBack
<1> QED BY <1>8, <1>9

----------------------------------------------------------------------------
\* An instruction.

\* Nothing of the debugger shows after a step, but for the words f stands for.
Shown(f) == GuestPc' = pc' /\ GuestMem' = Over(mem', f) /\ guest' = event'

\* The guest executes what the machine executes.
LEMMA TwinExecute ==
  ASSUME NEW f, Patch(f), NEW w, NEW v, Twins(w, v, f), NEW i, GoodInst(i),
         \A a \in Named(v.regs, i) : Spared(v.csr, v.mem, DOMAIN f, a),
         NEW lines \in Lines, Execute(w, i, lines)
  PROVE  Kept(mem', f) /\ (Shown(f) => Guest!Execute(v, i, lines))
<1>1. ASSUME NEW x, NEW y, Twins(x, y, f), WriteBack(i.op, x, lines)
      PROVE  Kept(mem', f) /\ (Shown(f) => Guest!WriteBack(i.op, y, lines))
  BY <1>1, TwinWriteBack DEF Shown
<1>2. /\ Guest!kExcStAMOPageFault = kExcStAMOPageFault
      /\ Guest!kExcLoadPageFault = kExcLoadPageFault
  BY DEF Guest!kExcStAMOPageFault, kExcStAMOPageFault,
         Guest!kExcLoadPageFault, kExcLoadPageFault
<1>3. /\ Guest!AMOOp = AMOOp /\ Guest!LoadOp = LoadOp /\ Guest!StoreOp = StoreOp
      /\ Guest!ComputeOp = ComputeOp /\ Guest!BranchOp = BranchOp
      /\ Guest!PrivOp = PrivOp /\ Guest!CSROp = CSROp
  BY DEF Guest!AMOOp, AMOOp, Guest!LoadOp, LoadOp, Guest!StoreOp, StoreOp,
         Guest!ComputeOp, ComputeOp, Guest!BranchOp, BranchOp,
         Guest!PrivOp, PrivOp, Guest!CSROp, CSROp, Guest!CSRImmOp,
         CSRImmOp, Guest!RegOp, RegOp, Guest!IntOp, IntOp,
         Guest!MulOp, MulOp, Guest!DivOp, DivOp, Guest!ImmOp, ImmOp,
         Guest!ImmBase, ImmBase
<1>4. CASE ExecuteLR(w, i, lines)
  <2> DEFINE x == CheckPageFault(LoadReserved(w, i), kExcStAMOPageFault)
             y == CheckPageFault(LoadReserved(v, i), kExcStAMOPageFault)
  <2>1. i.op = "lr" /\ WriteBack(i.op, x, lines)
    BY <1>4 DEF ExecuteLR
  <2>2. Twins(x, y, f)
    BY <2>1, TwinLoadReserved, TwinPageFault
  <2>3. Guest!WriteBack(i.op, y, lines) => Guest!ExecuteLR(v, i, lines)
    BY <1>2, <1>3, <2>1, SameStages, SameMemoryUnits DEF Guest!ExecuteLR
  <2> HIDE DEF x, y
  <2> QED BY <1>1, <2>1, <2>2, <2>3 DEF Guest!Execute
<1>5. CASE ExecuteSC(w, i, lines)
  <2> DEFINE x == CheckPageFault(StoreConditional(w, i), kExcStAMOPageFault)
             y == CheckPageFault(StoreConditional(v, i), kExcStAMOPageFault)
  <2>1. i.op = "sc" /\ WriteBack(i.op, x, lines)
    BY <1>5 DEF ExecuteSC
  <2>2. Twins(x, y, f)
    BY <2>1, TwinStoreConditional, TwinPageFault
  <2>3. Guest!WriteBack(i.op, y, lines) => Guest!ExecuteSC(v, i, lines)
    BY <1>2, <1>3, <2>1, SameStages, SameMemoryUnits DEF Guest!ExecuteSC
  <2> HIDE DEF x, y
  <2> QED BY <1>1, <2>1, <2>2, <2>3 DEF Guest!Execute
<1>6. CASE ExecuteAMO(w, i, lines)
  <2> DEFINE x == CheckPageFault(ReadModifyWrite(w, i), kExcStAMOPageFault)
             y == CheckPageFault(ReadModifyWrite(v, i), kExcStAMOPageFault)
  <2>1. i.op \in AMOOp /\ WriteBack(i.op, x, lines)
    BY <1>6 DEF ExecuteAMO
  <2>2. Twins(x, y, f)
    BY <2>1, TwinReadModifyWrite, TwinPageFault
  <2>3. Guest!WriteBack(i.op, y, lines) => Guest!ExecuteAMO(v, i, lines)
    BY <1>2, <1>3, <2>1, SameStages, SameMemoryUnits DEF Guest!ExecuteAMO
  <2> HIDE DEF x, y
  <2> QED BY <1>1, <2>1, <2>2, <2>3 DEF Guest!Execute
<1>7. CASE ExecuteLoad(w, i, lines)
  <2> DEFINE x == CheckPageFault(Load(w, i), kExcLoadPageFault)
             y == CheckPageFault(Load(v, i), kExcLoadPageFault)
  <2>1. i.op \in LoadOp /\ WriteBack(i.op, x, lines)
    BY <1>7 DEF ExecuteLoad
  <2>2. Twins(x, y, f)
    BY <2>1, TwinLoad, TwinPageFault
  <2>3. Guest!WriteBack(i.op, y, lines) => Guest!ExecuteLoad(v, i, lines)
    BY <1>2, <1>3, <2>1, SameStages, SameMemoryUnits DEF Guest!ExecuteLoad
  <2> HIDE DEF x, y
  <2> QED BY <1>1, <2>1, <2>2, <2>3 DEF Guest!Execute
<1>8. CASE ExecuteStore(w, i, lines)
  <2> DEFINE x == CheckPageFault(Store(w, i), kExcStAMOPageFault)
             y == CheckPageFault(Store(v, i), kExcStAMOPageFault)
  <2>1. i.op \in StoreOp /\ WriteBack(i.op, x, lines)
    BY <1>8 DEF ExecuteStore
  <2>2. Twins(x, y, f)
    BY <2>1, TwinStore, TwinPageFault
  <2>3. Guest!WriteBack(i.op, y, lines) => Guest!ExecuteStore(v, i, lines)
    BY <1>2, <1>3, <2>1, SameStages, SameMemoryUnits DEF Guest!ExecuteStore
  <2> HIDE DEF x, y
  <2> QED BY <1>1, <2>1, <2>2, <2>3 DEF Guest!Execute
<1>9. CASE ExecuteInt(w, i, lines)
  <2> DEFINE x == Compute(w, i)
             y == Compute(v, i)
  <2>1. i.op \in ComputeOp /\ WriteBack(i.op, x, lines)
    BY <1>9 DEF ExecuteInt
  <2>2. Twins(x, y, f)
    BY <2>1, TwinCompute
  <2>3. Guest!WriteBack(i.op, y, lines) => Guest!ExecuteInt(v, i, lines)
    BY <1>2, <1>3, <2>1, SameStages, SameUnits DEF Guest!ExecuteInt
  <2> HIDE DEF x, y
  <2> QED BY <1>1, <2>1, <2>2, <2>3 DEF Guest!Execute
<1>10. CASE ExecuteBranch(w, i, lines)
  <2> DEFINE x == Branch(w, i)
             y == Branch(v, i)
  <2>1. i.op \in BranchOp /\ WriteBack(i.op, x, lines)
    BY <1>10 DEF ExecuteBranch
  <2>2. Twins(x, y, f)
    BY <2>1, TwinBranch
  <2>3. Guest!WriteBack(i.op, y, lines) => Guest!ExecuteBranch(v, i, lines)
    BY <1>2, <1>3, <2>1, SameStages, SameUnits DEF Guest!ExecuteBranch
  <2> HIDE DEF x, y
  <2> QED BY <1>1, <2>1, <2>2, <2>3 DEF Guest!Execute
<1>11. CASE ExecuteJump(w, i, lines)
  <2> DEFINE x == Jump(w, i)
             y == Jump(v, i)
  <2>1. i.op \in {"jal", "jalr"} /\ WriteBack(i.op, x, lines)
    BY <1>11 DEF ExecuteJump
  <2>2. Twins(x, y, f)
    BY <2>1, TwinJump
  <2>3. Guest!WriteBack(i.op, y, lines) => Guest!ExecuteJump(v, i, lines)
    BY <1>2, <1>3, <2>1, SameStages, SameUnits DEF Guest!ExecuteJump
  <2> HIDE DEF x, y
  <2> QED BY <1>1, <2>1, <2>2, <2>3 DEF Guest!Execute
<1>12. CASE ExecutePrivileged(w, i, lines)
  <2> DEFINE x == Privileged(w, i)
             y == Privileged(v, i)
  <2>1. i.op \in PrivOp /\ WriteBack(i.op, x, lines)
    BY <1>12 DEF ExecutePrivileged
  <2>2. Twins(x, y, f)
    BY <2>1, TwinPrivileged
  <2>3. Guest!WriteBack(i.op, y, lines) => Guest!ExecutePrivileged(v, i, lines)
    BY <1>2, <1>3, <2>1, SameStages, SameUnits DEF Guest!ExecutePrivileged
  <2> HIDE DEF x, y
  <2> QED BY <1>1, <2>1, <2>2, <2>3 DEF Guest!Execute
<1>13. CASE ExecuteCSR(w, i, lines)
  <2> DEFINE x == AccessCSR(w, i)
             y == AccessCSR(v, i)
  <2>1. i.op \in CSROp /\ WriteBack(i.op, x, lines)
    BY <1>13 DEF ExecuteCSR
  <2>2. Twins(x, y, f)
    BY <2>1, TwinAccessCSR
  <2>3. Guest!WriteBack(i.op, y, lines) => Guest!ExecuteCSR(v, i, lines)
    BY <1>2, <1>3, <2>1, SameStages, SameUnits DEF Guest!ExecuteCSR
  <2> HIDE DEF x, y
  <2> QED BY <1>1, <2>1, <2>2, <2>3 DEF Guest!Execute
<1>14. CASE ExecuteSFence(w, i, lines)
  <2> DEFINE x == FenceVMA(w, i)
             y == FenceVMA(v, i)
  <2>1. i.op = "sfence" /\ WriteBack(i.op, x, lines)
    BY <1>14 DEF ExecuteSFence
  <2>2. Twins(x, y, f)
    BY <2>1, TwinFenceVMA
  <2>3. Guest!WriteBack(i.op, y, lines) => Guest!ExecuteSFence(v, i, lines)
    BY <1>2, <1>3, <2>1, SameStages, SameUnits DEF Guest!ExecuteSFence
  <2> HIDE DEF x, y
  <2> QED BY <1>1, <2>1, <2>2, <2>3 DEF Guest!Execute
<1>15. CASE ExecuteFence(w, i, lines)
  <2> DEFINE x == w
             y == v
  <2>1. i.op = "fence" /\ WriteBack(i.op, x, lines)
    BY <1>15 DEF ExecuteFence
  <2>2. Twins(x, y, f)
    OBVIOUS
  <2>3. Guest!WriteBack(i.op, y, lines) => Guest!ExecuteFence(v, i, lines)
    BY <1>2, <1>3, <2>1, SameStages, SameUnits DEF Guest!ExecuteFence
  <2> HIDE DEF x, y
  <2> QED BY <1>1, <2>1, <2>2, <2>3 DEF Guest!Execute
<1>16. CASE ExecuteIllegal(w, i, lines)
  <2> DEFINE x == Illegal(w, i)
             y == Illegal(v, i)
  <2>1. i.op = "illegal" /\ WriteBack(i.op, x, lines)
    BY <1>16 DEF ExecuteIllegal
  <2>2. Twins(x, y, f)
    BY <2>1, TwinIllegal
  <2>3. Guest!WriteBack(i.op, y, lines) => Guest!ExecuteIllegal(v, i, lines)
    BY <1>2, <1>3, <2>1, SameStages, SameStages DEF Guest!ExecuteIllegal
  <2> HIDE DEF x, y
  <2> QED BY <1>1, <2>1, <2>2, <2>3 DEF Guest!Execute
<1> QED BY <1>4, <1>5, <1>6, <1>7, <1>8, <1>9, <1>10, <1>11, <1>12, <1>13, <1>14, <1>15, <1>16 DEF Execute

----------------------------------------------------------------------------
\* The words that the breakpoints have saved.

Patched == {breaks[n].addr : n \in DOMAIN breaks}

Saved(b) ==
  [a \in {b[n].addr : n \in DOMAIN b} |->
     b[CHOOSE n \in DOMAIN b : b[n].addr = a].org_inst]

\* A breakpoint's word in memory is the debugger's.
Held == \A n \in DOMAIN breaks : mem[breaks[n].addr] = kBreakInst

LEMMA SavedWord ==
  ASSUME NEW b, NEW n \in DOMAIN b,
         \A j, k \in DOMAIN b : b[j].addr = b[k].addr => j = k
  PROVE  Saved(b)[b[n].addr] = b[n].org_inst
<1> DEFINE a == b[n].addr
           k == CHOOSE j \in DOMAIN b : b[j].addr = a
<1>1. k \in DOMAIN b /\ b[k].addr = a
  OBVIOUS
<1>2. k = n
  BY <1>1
<1>3. Saved(b)[a] = b[k].org_inst
  BY DEF Saved
<1> QED BY <1>2, <1>3

LEMMA SavedPatch ==
  ASSUME NEW b, b \in [DOMAIN b -> [addr : BreakAddr, org_inst : Word]]
  PROVE  Patch(Saved(b)) /\ DOMAIN Saved(b) = {b[n].addr : n \in DOMAIN b}
<1> DEFINE D == {b[n].addr : n \in DOMAIN b}
           N(a) == CHOOSE n \in DOMAIN b : b[n].addr = a
<1>1. DOMAIN Saved(b) = D /\ \A a \in D : Saved(b)[a] = b[N(a)].org_inst
  BY DEF Saved
<1>2. \A a \in D : N(a) \in DOMAIN b
  OBVIOUS
<1>3. \A a \in D : Saved(b)[a] \in Word
  BY <1>1, <1>2
<1>4. D \subseteq BreakAddr
  OBVIOUS
<1>5. Saved(b) = [a \in D |-> Saved(b)[a]]
  BY <1>1 DEF Saved
<1> HIDE DEF D
<1>6. \A f : DOMAIN f = D /\ (\A a \in D : f[a] \in Word)
              /\ f = [a \in D |-> f[a]] => f \in [D -> Word]
  OBVIOUS
<1>7. Saved(b) \in [D -> Word]
  BY <1>1, <1>3, <1>5, <1>6
<1> QED BY <1>1, <1>4, <1>7 DEF Patch, D

\* The program's memory is the machine's with the saved words in their place.
LEMMA GuestOver ==
  ASSUME DebuggedInv, OneEach
  PROVE  GuestMem = Over(Silent(mem), Saved(breaks))
<1> DEFINE f == Saved(breaks)
<1>1. Patch(f) /\ DOMAIN f = Patched
  BY SavedPatch DEF DebuggedInv, BreaksOK, Patched
<1>2. \A n \in DOMAIN breaks : f[breaks[n].addr] = breaks[n].org_inst
  BY SavedWord DEF OneEach
<1> HIDE DEF f
<1>3. ASSUME NEW a \in MemAddr PROVE GuestMem[a] = Over(Silent(mem), f)[a]
  <2>1. Over(Silent(mem), f)[a] = IF a \in Patched THEN f[a]
                                  ELSE IF a \in DebugAddr THEN 0 ELSE mem[a]
    BY <1>1 DEF Over, Silent
  <2>2. a \in Patched => a \notin DebugAddr
    BY <1>1, PatchAddr
  <2> QED BY <1>2, <2>1, <2>2, GuestWord DEF Patched
<1>4. GuestMem = [a \in MemAddr |-> GuestMem[a]]
  BY DEF GuestMem
<1>5. Over(Silent(mem), f) = [a \in MemAddr |-> Over(Silent(mem), f)[a]]
  BY DEF Over
<1> HIDE DEF GuestMem
<1> QED BY <1>3, <1>4, <1>5 DEF f

LEMMA GuestOverNext ==
  ASSUME DebuggedInv', OneEach', NEW f, f = Saved(breaks'),
         \A a \in DebugAddr : mem'[a] = 0
  PROVE  GuestMem' = Over(mem', f)
<1>1. Patch(f) /\ DOMAIN f = {breaks'[n].addr : n \in DOMAIN breaks'}
  BY SavedPatch DEF DebuggedInv, BreaksOK
<1>2. \A n \in DOMAIN breaks' : f[breaks'[n].addr] = breaks'[n].org_inst
  BY SavedWord DEF OneEach
<1>3. ASSUME NEW a \in MemAddr PROVE GuestMem'[a] = Over(mem', f)[a]
  <2>1. Over(mem', f)[a] = IF a \in DOMAIN f THEN f[a] ELSE mem'[a]
    BY DEF Over
  <2>2. a \in DOMAIN f => a \notin DebugAddr
    BY <1>1, PatchAddr
  <2> QED BY <1>1, <1>2, <2>1, <2>2, GuestWordNext
<1>4. GuestMem' = [a \in MemAddr |-> GuestMem'[a]]
  BY DEF GuestMem
<1>5. Over(mem', f) = [a \in MemAddr |-> Over(mem', f)[a]]
  BY DEF Over
<1> QED BY <1>3, <1>4, <1>5

LEMMA HeldKept ==
  ASSUME DebuggedInv, Held PROVE Kept(Silent(mem), Saved(breaks))
<1>1. Patch(Saved(breaks)) /\ DOMAIN Saved(breaks) = Patched
  BY SavedPatch DEF DebuggedInv, BreaksOK, Patched
<1>2. \A a \in DebugAddr : a \in MemAddr
  BY DEF MemAddr
<1>3. \A a \in Patched : a \in MemAddr /\ a \notin DebugAddr /\ mem[a] = kBreakInst
  BY <1>1, PatchAddr DEF Held, Patched
<1> QED BY <1>1, <1>2, <1>3 DEF Kept, Silent

LEMMA HeldUnseen ==
  ASSUME DebuggedInv, Ids, OneEach, Held, [DebugNext]_dvars, ~RunsInst
  PROVE  Held'
<1>1. mem \in Memory /\ \A n \in DOMAIN breaks : breaks[n].addr \in BreakAddr
  BY DEF DebuggedInv, CoreInv, TypeOK, BreaksOK
<1>2. ASSUME UNCHANGED <<vars, breaks>> PROVE Held'
  BY <1>2 DEF vars, Held
<1>3. CASE Tick
  <2>1. PICK words \in [Volatile -> Word] : mem' = Refreshed(words)
    BY <1>3 DEF Tick
  <2>2. \A n \in DOMAIN breaks : breaks[n].addr \in MemAddr \ Volatile
    BY <1>1, PatchWord
  <2>3. breaks' = breaks
    BY <1>3 DEF Tick, points
  <2> QED BY <2>1, <2>2, <2>3 DEF Refreshed, Held
<1>4. CASE DeletePoint \/ DeleteNext
  <2>1. ASSUME NEW n \in DOMAIN breaks, NEW next, DeleteBreak(n, next) PROVE Held'
    <3>1. cur_bp # n
      <4>1. cur_bp = n => cur_bp' = NoBreak
        BY <2>1 DEF DeleteBreak
      <4>2. n # NoBreak
        BY DEF Ids, NoBreak
      <4> QED BY <4>1, <4>2 DEF RunsInst
    <3>2. mem' = BusWrite(mem, breaks[n].addr, 4, breaks[n].org_inst)
      BY <2>1, <3>1 DEF DeleteBreak
    <3>3. mem' = [mem EXCEPT ![breaks[n].addr] = breaks[n].org_inst]
      BY <1>1, <3>2, PatchWord
    <3>4. /\ DOMAIN breaks' = DOMAIN breaks \ {n}
          /\ \A k \in DOMAIN breaks' : breaks'[k] = breaks[k]
      BY <2>1 DEF DeleteBreak, Without
    <3> QED BY <1>1, <3>3, <3>4 DEF OneEach, Memory, Held
  <2>2. ASSUME NEW n, NEW next, DeleteWatch(n, next) PROVE Held'
    BY <1>2, <2>2 DEF DeleteWatch
  <2>3. ASSUME UNCHANGED <<vars, points>> PROVE Held'
    BY <1>2, <2>3 DEF points
  <2> QED BY <1>4, <2>1, <2>2, <2>3 DEF DeletePoint, DeleteNext
<1>5. CASE CreateBreak
  <2>1. PICK a \in BreakAddr :
          /\ \A n \in DOMAIN breaks : breaks[n].addr # a
          /\ mem' = [mem EXCEPT ![a] = kBreakInst]
          /\ DOMAIN breaks' = DOMAIN breaks \cup {next_id}
          /\ breaks'[next_id].addr = a
          /\ \A n \in DOMAIN breaks : breaks'[n] = breaks[n]
    BY <1>5, Created
  <2>2. \A c \in BreakAddr : c \in DOMAIN mem
    BY <1>1, PatchWord DEF Memory
  <2> QED BY <1>1, <2>1, <2>2 DEF Held
<1>6. CASE Command /\ ~DeletePoint /\ ~CreateBreak
  <2>1. UNCHANGED <<vars, breaks>>
    BY <1>6 DEF Command, Continue, StepByInst, CreateWatch, PrintExpr,
       EvalBroken, DeleteAll, Quit, points
  <2> QED BY <1>2, <2>1
<1>7. CASE Check /\ ~Tick /\ ~DeleteNext
  <2>1. UNCHANGED <<vars, breaks>>
    BY <1>7 DEF Check, Halted, CheckPause, Accept, WatchHit, WatchBroken,
       WatchQuiet, CheckStep, points
  <2> QED BY <1>2, <2>1
<1>8. CASE Signal \/ Stopped \/ UNCHANGED dvars
  <2>1. UNCHANGED <<vars, breaks>>
    BY <1>8 DEF Signal, Stopped, dvars, points
  <2> QED BY <1>2, <2>1
<1>9. ~Run
  BY DEF RunsInst
<1> QED BY <1>3, <1>4, <1>5, <1>6, <1>7, <1>8, <1>9 DEF DebugNext

----------------------------------------------------------------------------
\* What the debugger asks of the program, in a state where an instruction is to
\* be run.

GuestAt(a) == GetPhysicalAddr(csr, GuestMem, a)
GuestFault(a, kind) == PageFault(csr, GuestMem, a, kind)
Apart(a) == Looked(csr, GuestMem, a) \cap Patched = {}

\* The debugger's word is mapped to itself, and can be stored to.
Port == Decode(kBreakInst).imm
PortOpen == Apart(Port) /\ ~GuestFault(Port, "w") /\ GuestAt(Port) = Port

\* The instruction to be run has a breakpoint, by its address or by its word.
AtBreak == \/ GuestPc \in Patched
           \/ ~GuestFault(GuestPc, "x") /\ GuestAt(GuestPc) \in Patched

\* No breakpoint is on a word of the page table that leads to the code, and code
\* with a breakpoint is at its own address by GetPhysicalAddr: pc_bp_ is looked up
\* with the pc, while the patch is stored past the page table (debugger.cpp:461,
\* 697).  Machine mode and superpages can have that; a page of 4 KB leads to the
\* frame of its table, so code in one has no breakpoint.
CodeApart ==
  /\ Apart(GuestPc)
  /\ AtBreak => ~GuestFault(GuestPc, "x") /\ GuestAt(GuestPc) = GuestPc /\ PortOpen

\* The instruction's operand is no word with a breakpoint, and not the
\* debugger's own.
DataApart ==
  ~GuestFault(GuestPc, "x") =>
    \A i \in InstsAt(GuestMem, GuestAt(GuestPc)) :
      \A a \in Named(regs, i) : Spared(csr, GuestMem, Patched, a)

SparesPatches == CodeApart /\ DataApart

----------------------------------------------------------------------------
\* The cycles.

LEMMA GuestPcType ==
  ASSUME DebuggedInv PROVE GuestPc \in Word /\ GuestPc % 4 = 0
<1>1. CASE cur_bp = NoBreak
  BY <1>1 DEF GuestPc, DebuggedInv, CoreInv, TypeOK, PcAligned
<1>2. CASE cur_bp # NoBreak
  <2>1. breaks[cur_bp].addr \in BreakAddr
    BY <1>2 DEF DebuggedInv, BreaksOK
  <2> QED BY <1>2, <2>1, DebuggerAssumption, BusAssumption DEF GuestPc
<1> QED BY <1>1, <1>2

LEMMA GuestMemType == ASSUME DebuggedInv, OneEach PROVE GuestMem \in Memory
<1>1. Silent(mem) \in Memory /\ Patch(Saved(breaks))
  BY SilentType, SavedPatch DEF DebuggedInv, CoreInv, TypeOK, BreaksOK
<1> QED BY <1>1, GuestOver, OverType

\* The copies of the state that the two cycles work on.
LEMMA TwinCopied ==
  ASSUME CoreInv, NEW f, Patch(f), NEW m \in Memory, Kept(m, f),
         NEW at \in Word, at % 4 = 0
  PROVE  Twins(Copied(m, at), Copied(Over(m, f), at), f)
<1>1. GoodWork(Copied(m, at)) /\ GoodWork(Copied(Over(m, f), at))
  BY OverType, CopiedGood
<1>2. Alike(Copied(m, at), Copied(Over(m, f), at), f) /\ Copied(m, at).mem = m
  BY DEF Copied, Alike
<1> QED BY <1>1, <1>2 DEF Twins

LEMMA FetchOk ==
  ASSUME CoreInv, NEW m \in Memory, NEW at \in Word
  PROVE  LET v == MmuAccess(Copied(m, at), at, "x")
         IN  /\ v.bad = PageFault(csr, m, at, "x")
             /\ ~v.bad => v = Copied(m, at)
<1> DEFINE bad == PageFault(csr, m, at, "x")
           w == Copied(m, at)
           v == MmuAccess(w, at, "x")
<1>1. bad \in BOOLEAN
  BY DEF PageFault, Refuses, Translated, CheckPTEProperty
<1>2. w.csr = csr /\ w.mem = m /\ w.bad = FALSE
  BY DEF Copied
<1>3. v = [w EXCEPT !.vaddr = at, !.bad = bad]
  BY <1>2 DEF MmuAccess
<1> HIDE DEF bad, v
<1>4. v.bad = bad
  BY <1>1, <1>3 DEF Copied
<1>5. ~bad => v = w
  BY <1>1, <1>3 DEF Copied
<1> QED BY <1>4, <1>5 DEF v, bad

LEMMA GuestCycles ==
  ASSUME NEW lines \in Lines,
         NEW v, v = MmuAccess(Copied(GuestMem, GuestPc), GuestPc, "x"),
         \/ /\ v.bad
            /\ Guest!WriteBack("fetch", RaiseException(v, kExcInstPageFault, v.vaddr),
                               lines)
         \/ /\ ~v.bad
            /\ \E i \in InstsAt(GuestMem, GuestAt(GuestPc)) :
                 Guest!Execute(v, i, lines)
  PROVE  Guest!Cycle
<1>1. Guest!Fetched(GuestMem) = v
  BY SameEnd, SameStages DEF Guest!Fetched
<1>2. Guest!kExcInstPageFault = kExcInstPageFault
  BY DEF Guest!kExcInstPageFault, kExcInstPageFault
<1>3. v.bad /\ Guest!WriteBack("fetch", RaiseException(v, kExcInstPageFault, v.vaddr),
                               lines)
        => Guest!FetchFault(v, lines)
  BY <1>2, SameStages DEF Guest!FetchFault
<1>4. Guest!InstsAt(GuestMem, Guest!GetPhysicalAddr(csr, GuestMem, GuestPc))
        = InstsAt(GuestMem, GuestAt(GuestPc))
  BY SameEnd, SameMMU DEF GuestAt
<1>5. Guest!NextCycle(GuestMem, lines)
  BY <1>1, <1>3, <1>4 DEF Guest!NextCycle
<1> QED BY <1>5 DEF Guest!Cycle

\* A cycle in which nothing is stored to the debugger ends with nothing of it
\* to be seen.
LEMMA EndsShown ==
  ASSUME DebuggedInv', OneEach', NEW f, f = Saved(breaks'), Kept(mem', f),
         NEW at, NEW next, WriteWord(at, next), cur_bp' = NoBreak
  PROVE  ~Struck(mem') /\ Shown(f) /\ Held'
<1>1. \A a \in DebugAddr : mem'[a] = 0
  BY DEF Kept
<1>2. ~Struck(mem')
  BY <1>1 DEF Struck
<1>3. guest' = event'
  BY <1>2 DEF WriteWord
<1>4. GuestMem' = Over(mem', f)
  BY <1>1, GuestOverNext
<1>5. GuestPc' = pc'
  BY DEF GuestPc
<1>6. DOMAIN f = {breaks'[n].addr : n \in DOMAIN breaks'}
  BY SavedPatch DEF DebuggedInv, BreaksOK
<1>7. Held'
  BY <1>6 DEF Kept, Held
<1> QED BY <1>2, <1>3, <1>4, <1>5, <1>7 DEF Shown

LEMMA SparedFewer ==
  ASSUME NEW c, NEW m, NEW P, NEW Q, Q \subseteq P, NEW a, Spared(c, m, P, a)
  PROVE  Spared(c, m, Q, a)
<1> DEFINE pa == GetPhysicalAddr(c, m, a)
<1>1. /\ Looked(c, m, a) \cap P = {}
      /\ pa \in DebugAddr \/ pa - (pa % 4) \in P =>
           PageFault(c, m, a, "r") /\ PageFault(c, m, a, "w")
  BY DEF Spared
<1> HIDE DEF pa
<1>2. /\ Looked(c, m, a) \cap Q = {}
      /\ pa \in DebugAddr \/ pa - (pa % 4) \in Q =>
           PageFault(c, m, a, "r") /\ PageFault(c, m, a, "w")
  BY <1>1
<1> QED BY <1>2 DEF Spared, pa

\* An instruction of the program that is fetched, or that is not because of a
\* page fault.
LEMMA UnseenFetch ==
  ASSUME DebuggedInv, DebuggedInv', OneEach, OneEach', Held, SparesPatches,
         RunNextCycle, ~GuestFault(GuestPc, "x") => GuestAt(GuestPc) \notin Patched
  PROVE  Guest!Cycle /\ Held'
<1>1. PICK f : f = Saved(breaks)
  OBVIOUS
<1> DEFINE m == Silent(mem)
<1>2. Patch(f) /\ DOMAIN f = Patched /\ m \in Memory
  BY <1>1, SavedPatch, SilentType DEF DebuggedInv, CoreInv, TypeOK, BreaksOK, Patched
<1>3. Kept(m, f) /\ GuestMem = Over(m, f)
  BY <1>1, HeldKept, GuestOver
<1>4. PICK lines \in Lines : NextCycle(m, lines)
  BY DEF RunNextCycle
<1>5. /\ GuestPc = pc /\ WriteWord(pc, "loop") /\ breaks' = breaks
      /\ ~Struck(mem') => cur_bp' = NoBreak
  BY DEF RunNextCycle, points, GuestPc
<1>6. CoreInv /\ GoodCSR(csr) /\ GuestPc \in Word /\ GuestPc % 4 = 0
  BY GuestPcType DEF DebuggedInv, CoreInv, GoodCSR, TypeOK, StatusMirror, MTVecLegal
<1> HIDE DEF m
<1> DEFINE w == MmuAccess(Copied(m, GuestPc), GuestPc, "x")
           v == MmuAccess(Copied(GuestMem, GuestPc), GuestPc, "x")
<1>7. Twins(Copied(m, GuestPc), Copied(GuestMem, GuestPc), f)
  BY <1>2, <1>3, <1>6, TwinCopied
<1>8. /\ Copied(GuestMem, GuestPc).csr = csr
      /\ Copied(GuestMem, GuestPc).mem = GuestMem
      /\ Copied(GuestMem, GuestPc).regs = regs
  BY DEF Copied
<1>9. Looked(csr, GuestMem, GuestPc) \cap DOMAIN f = {}
  BY <1>2 DEF SparesPatches, CodeApart, Apart
<1>10. Twins(w, v, f)
  BY <1>2, <1>6, <1>7, <1>8, <1>9, TwinAccess
<1>11. v.csr = csr /\ v.mem = GuestMem /\ v.regs = regs
  BY <1>6, <1>7, <1>8, MmuAccessGood DEF Twins
<1>12. v.bad = w.bad /\ v.vaddr = w.vaddr /\ w.vaddr \in Word
  BY <1>10 DEF Twins, Alike, GoodWork, Work
<1>13. v.bad = GuestFault(GuestPc, "x")
  BY <1>6, FetchOk, GuestMemType DEF GuestFault
<1>14. /\ GetPhysicalAddr(csr, m, GuestPc) = GuestAt(GuestPc)
  BY <1>2, <1>3, <1>6, <1>9, AccessOver DEF GuestAt
<1>15. \/ FetchFault(w, lines)
       \/ /\ ~w.bad
          /\ \E i \in InstsAt(m, GuestAt(GuestPc)) : Execute(w, i, lines)
  BY <1>4, <1>5, <1>14 DEF NextCycle, Fetched
<1> HIDE DEF w, v
<1>16. ASSUME Kept(mem', f) PROVE Shown(f) /\ Held'
  <2>1. ~Struck(mem')
    BY <1>16 DEF Struck, Kept
  <2> QED BY <1>1, <1>5, <1>16, <2>1, EndsShown
<1>17. CASE w.bad
  <2>1. WriteBack("fetch", RaiseException(w, kExcInstPageFault, w.vaddr), lines)
    BY <1>15, <1>17 DEF FetchFault
  <2>2. kExcInstPageFault \in SyncExc
    BY SyncWords DEF kExcInstPageFault
  <2>3. Twins(RaiseException(w, kExcInstPageFault, w.vaddr),
              RaiseException(v, kExcInstPageFault, v.vaddr), f)
    BY <1>10, <1>12, <2>2, TwinRaise
  <2>4. /\ Kept(mem', f)
        /\ Shown(f) => Guest!WriteBack("fetch",
                         RaiseException(v, kExcInstPageFault, v.vaddr), lines)
    BY <1>2, <2>1, <2>3, TwinWriteBack DEF Shown
  <2> QED BY <1>12, <1>16, <1>17, <2>4, GuestCycles DEF v
<1>18. CASE ~w.bad
  <2>1. PICK i \in InstsAt(m, GuestAt(GuestPc)) : Execute(w, i, lines)
    BY <1>15, <1>18 DEF FetchFault
  <2>2. GuestAt(GuestPc) \notin Patched /\ ~GuestFault(GuestPc, "x")
    BY <1>12, <1>13, <1>18
  <2>3. InstsAt(m, GuestAt(GuestPc)) = InstsAt(GuestMem, GuestAt(GuestPc))
    <3>1. GuestAt(GuestPc) \in RamAddr => m[GuestAt(GuestPc)] = GuestMem[GuestAt(GuestPc)]
      BY <1>2, <1>3, <2>2 DEF Over, MemAddr
    <3> QED BY <3>1 DEF InstsAt
  <2>4. GoodInst(i)
    BY <1>6, <2>1, <2>3, InstGood, GuestMemType DEF GuestAt
  <2>5. \A a \in Named(v.regs, i) : Spared(v.csr, v.mem, DOMAIN f, a)
    BY <1>2, <1>11, <2>1, <2>2, <2>3 DEF SparesPatches, DataApart
  <2>6. Kept(mem', f) /\ (Shown(f) => Guest!Execute(v, i, lines))
    BY <1>2, <1>10, <2>1, <2>4, <2>5, TwinExecute
  <2> QED BY <1>12, <1>16, <1>18, <2>1, <2>3, <2>6, GuestCycles DEF v
<1> QED BY <1>17, <1>18

\* The instruction of the breakpoint that was hit, on the memory m that it is
\* run on: with the other breakpoints in place, or after it was deleted.
LEMMA UnseenReExecute ==
  ASSUME DebuggedInv, DebuggedInv', OneEach, OneEach', SparesPatches,
         cur_bp # NoBreak, cur_bp' = NoBreak,
         NEW f, f = Saved(breaks'), Patch(f), DOMAIN f \subseteq Patched,
         NEW m \in Memory, Kept(m, f), GuestMem = Over(m, f),
         NEW lines \in Lines, ReExecute(Decode(breaks[cur_bp].org_inst), m, lines),
         NEW at, NEW next, WriteWord(at, next)
  PROVE  (RewindsToBreak => Guest!Cycle) /\ Held'
<1> DEFINE i == Decode(breaks[cur_bp].org_inst)
           from == Add(pc, WordSize - 4)
<1>1. cur_bp \in DOMAIN breaks /\ breaks[cur_bp].addr \in BreakAddr
      /\ breaks[cur_bp].org_inst \in Word
  BY DEF DebuggedInv, BreaksOK
<1>2. GuestPc = breaks[cur_bp].addr /\ GuestPc \in Patched
  BY <1>1 DEF GuestPc, Patched
<1>3. ~GuestFault(GuestPc, "x") /\ GuestAt(GuestPc) = GuestPc
  BY <1>2 DEF SparesPatches, CodeApart, AtBreak
<1>4. GuestPc \in RamAddr /\ GuestPc \notin DebugAddr /\ GuestPc \in MemAddr
  BY <1>1, <1>2, DebuggerAssumption, BusAssumption DEF MemAddr
<1>5. GuestMem[GuestPc] = breaks[cur_bp].org_inst
  BY <1>1, <1>2, <1>4, GuestWord
<1>6. InstsAt(GuestMem, GuestAt(GuestPc)) = {i}
  BY <1>3, <1>4, <1>5 DEF InstsAt
<1>7. GoodInst(i)
  BY <1>1, CodeAssumption DEF GoodInst
<1>8. CoreInv /\ from \in Word /\ from % 4 = 0
  BY BackAligned DEF DebuggedInv
<1>9. \A a \in Named(regs, i) : Spared(csr, GuestMem, DOMAIN f, a)
  BY <1>3, <1>6, SparedFewer DEF SparesPatches, DataApart
<1>10. Execute(Copied(m, from), i, lines)
  BY DEF ReExecute
<1> HIDE DEF i, from
<1>11. Twins(Copied(m, from), Copied(GuestMem, from), f)
  BY <1>8, TwinCopied
<1>12. /\ Copied(GuestMem, from).csr = csr /\ Copied(GuestMem, from).mem = GuestMem
       /\ Copied(GuestMem, from).regs = regs
  BY DEF Copied
<1>13. /\ Kept(mem', f)
       /\ Shown(f) => Guest!Execute(Copied(GuestMem, from), i, lines)
  BY <1>7, <1>9, <1>10, <1>11, <1>12, TwinExecute
<1>14. Shown(f) /\ Held'
  BY <1>13, EndsShown
<1>15. ASSUME RewindsToBreak PROVE Guest!Cycle
  <2>1. from = GuestPc
    <3>1. pc = Add(GuestPc, 4)
      BY <1>2, <1>15 DEF RewindsToBreak
    <3>2. GuestPc \in Nat /\ GuestPc < WordSize /\ WordSize \in Nat /\ WordSize >= 64
          /\ GuestPc % 4 = 0 /\ WordSize % 4 = 0
      BY GuestPcType, WordAssumption, CSRAssumption DEF Word
    <3> QED BY <3>1, <3>2 DEF from, Add
  <2> DEFINE v == MmuAccess(Copied(GuestMem, GuestPc), GuestPc, "x")
  <2>2. ~v.bad /\ v = Copied(GuestMem, GuestPc)
    BY <1>3, <1>8, FetchOk, GuestMemType, GuestPcType DEF GuestFault
  <2>3. Guest!Execute(v, i, lines)
    BY <1>13, <1>14, <2>1, <2>2
  <2> HIDE DEF v
  <2> QED BY <1>6, <2>2, <2>3, GuestCycles DEF v
<1> QED BY <1>14, <1>15

LEMMA UnseenRerun ==
  ASSUME DebuggedInv, DebuggedInv', OneEach, OneEach', Held, SparesPatches,
         RunReExecute
  PROVE  (RewindsToBreak => Guest!Cycle) /\ Held'
<1>1. PICK f : f = Saved(breaks)
  OBVIOUS
<1>2. Patch(f) /\ DOMAIN f = Patched /\ Silent(mem) \in Memory
  BY <1>1, SavedPatch, SilentType DEF DebuggedInv, CoreInv, TypeOK, BreaksOK, Patched
<1>3. Kept(Silent(mem), f) /\ GuestMem = Over(Silent(mem), f)
  BY <1>1, HeldKept, GuestOver
<1>4. PICK lines \in Lines :
        ReExecute(Decode(breaks[cur_bp].org_inst), Silent(mem), lines)
  BY DEF RunReExecute
<1>5. /\ cur_bp # NoBreak /\ cur_bp' = NoBreak /\ breaks' = breaks
      /\ WriteWord(Add(pc, WordSize - 4), "loop")
  BY DEF RunReExecute, points
<1> QED BY <1>1, <1>2, <1>3, <1>4, <1>5, UnseenReExecute

LEMMA UnseenDeleteHit ==
  ASSUME DebuggedInv, DebuggedInv', OneEach, OneEach', Held, SparesPatches, Ids,
         NEW n \in DOMAIN breaks, NEW next, DeleteBreak(n, next), cur_bp = n
  PROVE  (RewindsToBreak => Guest!Cycle) /\ Held'
<1> DEFINE a == breaks[n].addr
           inst == breaks[n].org_inst
           m == Silent(BusWrite(mem, a, 4, inst))
<1>1. PICK lines \in Lines : ReExecute(Decode(inst), m, lines)
  BY DEF DeleteBreak
<1>2. /\ cur_bp' = NoBreak /\ WriteWord(Add(pc, WordSize - 4), next)
      /\ DOMAIN breaks' = DOMAIN breaks \ {n}
      /\ \A k \in DOMAIN breaks' : breaks'[k] = breaks[k]
  BY DEF DeleteBreak, Without
<1>3. mem \in Memory /\ a \in BreakAddr /\ inst \in Word /\ n # NoBreak
  BY DEF DebuggedInv, CoreInv, TypeOK, BreaksOK, Ids, NoBreak
<1>4. a \in MemAddr /\ BusWrite(mem, a, 4, inst) = [mem EXCEPT ![a] = inst]
  BY <1>3, PatchWord
<1>5. m \in Memory
  <2>1. [mem EXCEPT ![a] = inst] \in Memory
    BY <1>3 DEF Memory
  <2> QED BY <1>4, <2>1, SilentType
<1>6. PICK f : f = Saved(breaks')
  OBVIOUS
<1>7. /\ Patch(f) /\ DOMAIN f = {breaks'[k].addr : k \in DOMAIN breaks'}
      /\ \A k \in DOMAIN breaks' : f[breaks'[k].addr] = breaks'[k].org_inst
  <2>1. Patch(f) /\ DOMAIN f = {breaks'[k].addr : k \in DOMAIN breaks'}
    BY <1>6, SavedPatch DEF DebuggedInv, BreaksOK
  <2>2. \A k \in DOMAIN breaks' : f[breaks'[k].addr] = breaks'[k].org_inst
    BY <1>6, SavedWord DEF OneEach
  <2> QED BY <2>1, <2>2
<1>8. DOMAIN f \subseteq Patched /\ a \notin DOMAIN f
  BY <1>2, <1>7 DEF OneEach, Patched
<1>9. /\ \A b \in MemAddr : m[b] = IF b \in DebugAddr THEN 0
                                  ELSE IF b = a THEN inst ELSE mem[b]
  BY <1>3, <1>4 DEF Silent, Memory
<1>10. breaks[n].addr = a /\ breaks[n].org_inst = inst
  OBVIOUS
<1> HIDE DEF a, inst, m
<1>11. Kept(m, f)
  <2>1. \A b \in DebugAddr : m[b] = 0
    BY <1>9 DEF MemAddr
  <2>2. ASSUME NEW b \in DOMAIN f PROVE m[b] = kBreakInst
    <3>1. b \in MemAddr /\ b \notin DebugAddr /\ b # a
      BY <1>7, <1>8, <2>2, PatchAddr
    <3>2. mem[b] = kBreakInst
      BY <1>8, <2>2 DEF Held, Patched
    <3> QED BY <1>9, <3>1, <3>2
  <2> QED BY <2>1, <2>2 DEF Kept
<1>12. GuestMem = Over(m, f)
  <2>1. ASSUME NEW b \in MemAddr PROVE GuestMem[b] = Over(m, f)[b]
    <3>1. Over(m, f)[b] = IF b \in DOMAIN f THEN f[b] ELSE m[b]
      BY DEF Over
    <3>2. b \in DOMAIN f => b \notin DebugAddr
      BY <1>7, PatchAddr
    <3>3. CASE b \in DOMAIN f
      <4>1. PICK k \in DOMAIN breaks' : breaks'[k].addr = b
        BY <1>7, <3>3
      <4>2. k \in DOMAIN breaks /\ breaks'[k] = breaks[k]
        BY <1>2, <4>1
      <4> QED BY <1>7, <3>1, <3>2, <3>3, <4>1, <4>2, GuestWord
    <3>4. CASE b \notin DOMAIN f /\ b = a
      BY <1>9, <1>10, <3>1, <3>4, GuestWord
    <3>5. CASE b \notin DOMAIN f /\ b # a
      <4>1. \A k \in DOMAIN breaks : breaks[k].addr # b
        BY <1>2, <1>7, <1>10, <3>5
      <4> QED BY <1>9, <3>1, <3>5, <4>1, GuestWord
    <3> QED BY <3>3, <3>4, <3>5
  <2>2. GuestMem = [b \in MemAddr |-> GuestMem[b]]
    BY DEF GuestMem
  <2>3. Over(m, f) = [b \in MemAddr |-> Over(m, f)[b]]
    BY DEF Over
  <2> QED BY <2>1, <2>2, <2>3
<1>13. ReExecute(Decode(breaks[cur_bp].org_inst), m, lines)
  BY <1>1, <1>10
<1> QED BY <1>2, <1>3, <1>5, <1>6, <1>7, <1>8, <1>11, <1>12, <1>13, UnseenReExecute

\* What a write-back without a trap leaves as the instruction has left it.
LEMMA WriteBackQuiet ==
  ASSUME NEW x, GoodWork(x), NEW op, NEW lines, WriteBack(op, x, lines),
         event'.trap = "none"
  PROVE  /\ regs' = [x.regs EXCEPT ![0] = 0] /\ mon' = x.mon
         /\ latch' = [mstatus |-> csr'.mstatus, mie |-> csr'.mie]
<1> DEFINE y == CheckNextPc(x)
           z == CheckInterrupt(y, lines)
<1>1. Commit(op, z)
  BY DEF WriteBack
<1>2. GoodWork(y) /\ y.regs = x.regs /\ y.mon = x.mon
  <2>1. GoodWork(y)
    BY CheckNextPcSafe DEF Safe
  <2> QED BY <2>1 DEF CheckNextPc, RaiseException, GoodWork, Work
<1> HIDE DEF y
<1>3. z.regs = y.regs /\ z.mon = y.mon
  <2> DEFINE mip   == lines \cup IF BusRead(y.mem, MSIP, 4) # 0 THEN {kMSI} ELSE {}
             taken == mip \cap latch.mie
             cause == IF kMEI \in taken THEN kMEI
                      ELSE IF kMTI \in taken THEN kMTI ELSE kMSI
             asked == kMIE \in latch.mstatus /\ taken # {}
             code  == kIntrBit + cause
             u     == [y EXCEPT !.csr = [y.csr EXCEPT !.mip = mip]]
  <2>1. z = IF asked THEN RaiseException(u, code, 0) ELSE u
    BY DEF CheckInterrupt
  <2> HIDE DEF mip, asked, code, z
  <2>2. u.regs = y.regs /\ u.mon = y.mon
    BY <1>2 DEF GoodWork, Work
  <2>3. /\ u = [pc |-> u.pc, npc |-> u.npc, regs |-> u.regs, exc |-> u.exc,
                csr |-> u.csr, mon |-> u.mon, mem |-> u.mem, bad |-> u.bad,
                vaddr |-> u.vaddr]
    BY <1>2 DEF GoodWork, Work
  <2> HIDE DEF u
  <2> QED BY <2>1, <2>2, <2>3 DEF RaiseException
<1> HIDE DEF z
<1>4. z.exc = kStateExcCodeReset
  <2>1. TrapKind(z) = "none"
    BY <1>1 DEF Commit
  <2> QED BY <2>1 DEF TrapKind
<1> QED BY <1>1, <1>2, <1>3, <1>4 DEF Commit

\* The debugger's instruction stores to its port, and does nothing else.
LEMMA PortStored ==
  ASSUME CoreInv, NEW m \in Memory, NEW at \in Word, at % 4 = 0,
         ~PageFault(csr, m, Port, "w"), GetPhysicalAddr(csr, m, Port) = Port,
         NEW lines \in Lines, Execute(Copied(m, at), Decode(kBreakInst), lines)
  PROVE  /\ mem' = [m EXCEPT ![Port] = 1]
         /\ event'.trap = "none" =>
              /\ csr' = [csr EXCEPT !.mip = csr'.mip]
              /\ UNCHANGED <<regs, mon, latch>>
<1> DEFINE i == Decode(kBreakInst)
           w == Copied(m, at)
           d == regs[i.rs2]
           r == MmuAccess(w, Port, "w")
           x == Store(w, i)
<1>1. GoodInst(i) /\ i.op = "sw" /\ i.rs1 = 0 /\ i.imm = Port
  BY CodeAssumption, DebuggerAssumption DEF GoodInst, Port
<1>2. Port \in DebugAddr /\ Port % 4 = 0 /\ Port \in Word /\ Port \notin RamAddr
  BY DebuggerAssumption, BusAssumption DEF Port
<1>3. /\ GoodWork(w) /\ w.csr = csr /\ w.mem = m /\ w.regs = regs /\ w.mon = mon
      /\ w.bad = FALSE /\ w.exc = kStateExcCodeReset
  BY CopiedGood DEF Copied
<1>4. WriteBack(i.op, CheckPageFault(x, kExcStAMOPageFault), lines)
  BY <1>1 DEF Execute, ExecuteLR, ExecuteSC, ExecuteAMO, ExecuteLoad, ExecuteStore,
     ExecuteInt, ExecuteBranch, ExecuteJump, ExecutePrivileged, ExecuteCSR,
     ExecuteSFence, ExecuteFence, ExecuteIllegal, AMOOp, LoadOp, ComputeOp, RegOp,
     IntOp, MulOp, DivOp, ImmOp, ImmBase, BranchOp, PrivOp, CSROp, CSRImmOp
<1>5. GoodWork(x)
  BY <1>1, <1>3, StoreSafe DEF Safe, StoreOp
<1>6. x = Write(w, Port, 4, d)
  <2>1. regs[0] = 0
    BY DEF CoreInv, ZeroReg
  <2>2. Add(0, Port) = Port
    BY <1>2, WordAssumption DEF Add, Word
  <2>3. Width("sw") = 4
    BY DEF Width
  <2> QED BY <1>1, <1>2, <1>3, <2>1, <2>2, <2>3 DEF Store
<1>7. r.bad = FALSE /\ r = [w EXCEPT !.vaddr = Port, !.bad = FALSE]
  <2>1. PageFault(csr, m, Port, "w") = FALSE
    BY DEF PageFault, Refuses, Translated, CheckPTEProperty
  <2>2. r = [w EXCEPT !.vaddr = Port, !.bad = FALSE]
    BY <1>3, <2>1 DEF MmuAccess
  <2> HIDE DEF r, w
  <2> QED BY <1>3, <2>2 DEF GoodWork, Work
<1>8. BusWrite(m, Port, 4, d) = [m EXCEPT ![Port] = 1]
  <2>1. Port - (Port % 4) = Port
    BY <1>2, WordAssumption DEF Word
  <2> QED BY <1>2, <2>1 DEF BusWrite, IsPort
<1>9. x = [r EXCEPT !.mem = [m EXCEPT ![Port] = 1]]
  BY <1>3, <1>6, <1>7, <1>8 DEF Write
<1> HIDE DEF i, w, d, r
<1>10. /\ x.mem = [m EXCEPT ![Port] = 1] /\ x.bad = FALSE /\ x.csr = csr
       /\ x.regs = regs /\ x.mon = mon
  BY <1>3, <1>7, <1>9 DEF GoodWork, Work
<1> HIDE DEF x
<1>11. WriteBack(i.op, x, lines)
  BY <1>4, <1>10 DEF CheckPageFault
<1>12. mem' = x.mem /\ (event'.trap = "none" => csr' = [x.csr EXCEPT !.mip = csr'.mip])
  BY <1>5, <1>11, WriteBackKeeps
<1>13. ASSUME event'.trap = "none" PROVE UNCHANGED <<regs, mon, latch>>
  <2>1. /\ regs' = [x.regs EXCEPT ![0] = 0] /\ mon' = x.mon
        /\ latch' = [mstatus |-> csr'.mstatus, mie |-> csr'.mie]
    BY <1>5, <1>11, <1>13, WriteBackQuiet
  <2>2. csr'.mstatus = csr.mstatus /\ csr'.mie = csr.mie
    BY <1>10, <1>12, <1>13 DEF CoreInv, TypeOK, Registers
  <2>3. [regs EXCEPT ![0] = 0] = regs
    BY DEF CoreInv, ZeroReg, TypeOK
  <2> QED BY <1>10, <2>1, <2>2, <2>3 DEF CoreInv, LatchSame
<1> QED BY <1>10, <1>12, <1>13

\* The cycle that hits a breakpoint.
LEMMA UnseenHit ==
  ASSUME DebuggedInv, DebuggedInv', Ids, OneEach, OneEach', Held, SparesPatches,
         RunNextCycle, ~GuestFault(GuestPc, "x"), GuestAt(GuestPc) \in Patched
  PROVE  (~HitInterrupted => Guest!Devices) /\ Held'
<1>1. PICK f : f = Saved(breaks)
  OBVIOUS
<1> DEFINE m == Silent(mem)
<1>2. Patch(f) /\ DOMAIN f = Patched /\ m \in Memory
  BY <1>1, SavedPatch, SilentType DEF DebuggedInv, CoreInv, TypeOK, BreaksOK, Patched
<1>3. Kept(m, f) /\ GuestMem = Over(m, f)
  BY <1>1, HeldKept, GuestOver
<1>4. PICK lines \in Lines : NextCycle(m, lines)
  BY DEF RunNextCycle
<1>5. /\ GuestPc = pc /\ cur_bp = NoBreak /\ breaks' = breaks
      /\ WriteWord(pc, "loop")
      /\ Struck(mem') /\ PointsAt(pc) # {} => cur_bp' \in PointsAt(pc)
  BY DEF RunNextCycle, points, GuestPc
<1>6. CoreInv /\ GoodCSR(csr) /\ pc \in Word /\ pc % 4 = 0
  BY DEF DebuggedInv, CoreInv, GoodCSR, TypeOK, StatusMirror, MTVecLegal, PcAligned
<1>7. GuestAt(pc) = pc /\ PortOpen /\ pc \in Patched /\ Apart(pc)
  BY <1>5 DEF SparesPatches, CodeApart, AtBreak
<1>8. Port \in Word /\ Port \in DebugAddr
  BY DebuggerAssumption, BusAssumption DEF Port
<1> HIDE DEF m
<1>9. /\ ~PageFault(csr, m, pc, "x") /\ GetPhysicalAddr(csr, m, pc) = pc
      /\ ~PageFault(csr, m, Port, "w") /\ GetPhysicalAddr(csr, m, Port) = Port
  BY <1>2, <1>3, <1>5, <1>6, <1>7, <1>8, AccessOver
     DEF GuestFault, GuestAt, PortOpen, Apart
<1>10. Fetched(m) = Copied(m, pc) /\ ~Fetched(m).bad
  BY <1>2, <1>6, <1>9, FetchOk DEF Fetched
<1>11. InstsAt(m, pc) = {Decode(kBreakInst)}
  BY <1>2, <1>3, <1>7, PatchAddr DEF InstsAt, Kept
<1>12. Execute(Copied(m, pc), Decode(kBreakInst), lines)
  BY <1>4, <1>9, <1>10, <1>11 DEF NextCycle, FetchFault
<1>13. /\ mem' = [m EXCEPT ![Port] = 1]
       /\ event'.trap = "none" =>
            /\ csr' = [csr EXCEPT !.mip = csr'.mip]
            /\ UNCHANGED <<regs, mon, latch>>
  BY <1>2, <1>6, <1>9, <1>12, PortStored
<1>14. mem'[Port] = 1 /\ \A b \in MemAddr \ DebugAddr : mem'[b] = mem[b]
  BY <1>2, <1>8, <1>13 DEF m, Silent, Memory, MemAddr
<1>15. Struck(mem')
  BY <1>8, <1>14 DEF Struck
<1>16. cur_bp' \in PointsAt(pc)
  <2>1. PointsAt(pc) # {}
    BY <1>7 DEF PointsAt, Patched
  <2> QED BY <1>5, <1>15, <2>1
<1>17. cur_bp' \in DOMAIN breaks /\ breaks[cur_bp'].addr = pc /\ cur_bp' # NoBreak
  BY <1>16 DEF PointsAt, Ids, NoBreak
<1>18. Held'
  <2>1. \A n \in DOMAIN breaks : breaks[n].addr \in MemAddr \ DebugAddr
    BY <1>2, PatchAddr DEF Patched
  <2> QED BY <1>5, <1>14, <2>1 DEF Held
<1>19. ASSUME ~HitInterrupted PROVE Guest!Devices
  <2>1. event'.trap = "none"
    BY <1>5, <1>17, <1>19 DEF HitInterrupted
  <2>2. csr' = [csr EXCEPT !.mip = csr'.mip] /\ UNCHANGED <<regs, mon, latch>>
    BY <1>13, <2>1
  <2>3. guest' = guest
    BY <1>5, <1>15 DEF WriteWord
  <2>4. GuestPc' = GuestPc
    BY <1>5, <1>17 DEF GuestPc
  <2>5. GuestMem' = GuestMem
    <3>1. ASSUME NEW b \in MemAddr PROVE GuestMem'[b] = GuestMem[b]
      BY <1>5, <1>14, GuestWord, GuestWordNext
    <3> QED BY <3>1, GuestMemSame
  <2>6. GuestMem' \in Memory
    BY <2>5, GuestMemType
  <2>7. Guest!Memory = Memory /\ Guest!MemAddr = MemAddr
    BY DEF Guest!Memory, Guest!MemAddr, Guest!Word, Memory, MemAddr, Word
  <2> QED BY <2>2, <2>3, <2>4, <2>5, <2>6, <2>7 DEF Guest!Devices
<1> QED BY <1>18, <1>19

LEMMA TransparentStep ==
  ASSUME DebuggedInv, DebuggedInv', Ids, OneEach, OneEach', Held,
         [DebugNext]_dvars, RunsInst => SparesPatches
  PROVE  /\ Held'
         /\ RewindsToBreak /\ ~HitInterrupted =>
              Guest!Cycle \/ Guest!Devices \/ GuestStutters
<1>1. CASE ~RunsInst
  BY <1>1, UnseenStep, HeldUnseen
<1>2. CASE RunNextCycle
  <2>1. SparesPatches
    BY <1>2 DEF RunsInst, Run
  <2> QED BY <1>2, <2>1, UnseenFetch, UnseenHit
<1>3. CASE RunReExecute
  <2>1. SparesPatches
    BY <1>3 DEF RunsInst, Run
  <2> QED BY <1>3, <2>1, UnseenRerun
<1>4. CASE RunsInst /\ ~Run
  <2>1. SparesPatches /\ cur_bp # cur_bp' /\ cur_bp # NoBreak
    BY <1>4 DEF RunsInst
  <2>2. PICK n \in DOMAIN breaks, next \in {"prompt", "delete"} : DeleteBreak(n, next)
    <3>1. ASSUME NEW n, NEW next, DeleteWatch(n, next) PROVE cur_bp' = cur_bp
      BY <3>1 DEF DeleteWatch
    <3>2. CASE DeletePoint \/ DeleteNext
      BY <2>1, <3>1, <3>2 DEF DeletePoint, DeleteNext
    <3>3. CASE Command /\ ~DeletePoint
      <4>1. cur_bp' = cur_bp
        BY <3>3 DEF Command, Continue, StepByInst, CreateBreak, CreateWatch, PrintExpr,
           EvalBroken, DeleteAll, Quit
      <4> QED BY <2>1, <4>1
    <3>4. CASE Check /\ ~DeleteNext
      <4>1. cur_bp' = cur_bp
        BY <3>4 DEF Check, Tick, Halted, CheckPause, Accept, WatchHit, WatchBroken,
           WatchQuiet, CheckStep
      <4> QED BY <2>1, <4>1
    <3>5. CASE Signal \/ Stopped \/ UNCHANGED dvars
      <4>1. cur_bp' = cur_bp
        BY <3>5 DEF Signal, Stopped, dvars
      <4> QED BY <2>1, <4>1
    <3> QED BY <1>4, <3>2, <3>3, <3>4, <3>5 DEF DebugNext
  <2>3. cur_bp = n
    BY <2>1, <2>2 DEF DeleteBreak
  <2> QED BY <2>1, <2>2, <2>3, UnseenDeleteHit
<1> QED BY <1>1, <1>2, <1>3, <1>4 DEF Run

\* The words of the breakpoints stay the debugger's as long as the program has
\* nothing to do with them.
KeepsApart == [][RunsInst => SparesPatches]_dvars

\* A program that keeps apart from the breakpoints runs under the debugger as it
\* runs without one, whatever is set, deleted, stepped and printed, in every
\* order (debugger.cpp:247-261, 437-527, 691-724, core.cpp:166-177): every cycle
\* is a cycle of the hart alone, on the memory without breakpoints, or a cycle
\* that hits a breakpoint and shows nothing of it; an instruction is neither
\* lost nor run twice.
THEOREM DebuggerIsTransparent == DebugSpec /\ KeepsApart => ImplementsHart
<1>1. DebugInit => Held
  BY DEF DebugInit, Held
<1>2. /\ DebuggedInv /\ (DebuggedInv)' /\ Ids /\ OneEach /\ (OneEach)' /\ Held
      /\ [DebugNext]_dvars /\ [RunsInst => SparesPatches]_dvars
      => Held'
  <2>1. ASSUME Held, UNCHANGED dvars PROVE Held'
    BY <2>1 DEF Held, dvars, vars, points
  <2> QED BY <2>1, TransparentStep
<1>3. /\ DebuggedInv /\ (DebuggedInv)' /\ Ids /\ OneEach /\ (OneEach)' /\ Held
      /\ [DebugNext]_dvars /\ [RunsInst => SparesPatches]_dvars
      => [RewindsToBreak /\ ~HitInterrupted =>
            \/ Guest!Cycle \/ Guest!Devices
            \/ UNCHANGED <<GuestPc, regs, csr, mon, GuestMem, latch, guest>>]_dvars
  BY TransparentStep DEF GuestStutters
<1> QED BY <1>1, <1>2, <1>3, UnseenStart, OneEachAlways, PTL
        DEF DebugSpec, KeepsApart, ImplementsHart

=============================================================================
