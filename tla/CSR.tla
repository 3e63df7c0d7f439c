-------------------------------- MODULE CSR --------------------------------
(***************************************************************************)
(* The control and status registers of the core, core/control/csr.{h,cpp}  *)
(* and define/csr.h, as operators over one record c.  A register the code  *)
(* treats as a bit field is the set of its one bits (so a mask is an       *)
(* intersection); the others are words.  The cycle and instret counters    *)
(* are left out: nothing but a read of them depends on their value.        *)
(***************************************************************************)
EXTENDS Words

\* A word has four bytes; bit 12 (mpp) is not its top bit (satp.mode).
ASSUME CSRAssumption ==
  /\ XLEN >= 16 /\ XLEN % 4 = 0
  /\ WordSize >= 64 /\ WordSize % 8 = 0

----------------------------------------------------------------------------
kPrivLevelU == 0
kPrivLevelS == 1
kPrivLevelM == 3
Priv == {kPrivLevelU, kPrivLevelS, kPrivLevelM}

\* Bit positions of SStatus and MStatus.
kSIE == 1
kMIE == 3
kSPIE == 5
kMPIE == 7
kSPP == 8
kMPPLo == 11
kMPPHi == 12
\* Bit positions of MIE and MIP.
kMSI == 3
kMTI == 7
kMEI == 11
kSATPMode == XLEN - 1

kMaskSStatus == {kSPP}
kMaskMStatus == {kMIE, kMPIE, kSPP, kMPPLo, kMPPHi}
kMaskMIE     == {kMSI, kMTI, kMEI}
kMaskSATP    == (0 .. XLEN - 11) \cup {kSATPMode}
kMISA        == {0, 8, 12, 18, 20, 30} \cap Bit

kCSRSStatus == 256
kCSRSScratch == 320
kCSRSEPC == 321
kCSRSATP == 384
kCSRMStatus == 768
kCSRMISA == 769
kCSRMIE == 772
kCSRMTVec == 773
kCSRMScratch == 832
kCSRMEPC == 833
kCSRMCause == 834
kCSRMTVal == 835
kCSRMIP == 836

\* Mapped to the register that is hardwired to zero.
HardwiredZero ==
  {260, 261, 262, 322, 323, 324, 800, 774} \cup (3857 .. 3860)
    \cup (928 .. 931) \cup (944 .. 959)

\* cycle, instret and their machine level aliases, which are not modelled.
Counters == {3072, 3074, 3200, 3202, 2816, 2818, 2944, 2946}

\* The addresses csrs_ maps, the counters apart.
csrs == HardwiredZero \cup
  {kCSRSStatus, kCSRSScratch, kCSRSEPC, kCSRSATP, kCSRMStatus, kCSRMISA,
   kCSRMIE, kCSRMTVec, kCSRMScratch, kCSRMEPC, kCSRMCause, kCSRMTVal, kCSRMIP}

\* mstatus.mpp as a level, and a level as mpp.
Mpp(status) == (IF kMPPLo \in status THEN 1 ELSE 0)
                 + (IF kMPPHi \in status THEN 2 ELSE 0)
MppBits(priv) == (IF priv % 2 = 1 THEN {kMPPLo} ELSE {})
                   \cup (IF priv >= 2 THEN {kMPPHi} ELSE {})

\* What mstatus can hold: mpp is never the level H, which is not implemented.
MStatusValues == {s \in SUBSET kMaskMStatus : Mpp(s) \in Priv}

Registers ==
  [priv : Priv, sstatus : SUBSET kMaskSStatus, sscratch : Word, sepc : Word,
   satp : SUBSET Bit, mstatus : MStatusValues, mie : SUBSET kMaskMIE,
   mip : SUBSET kMaskMIE, mtvec : Word, mscratch : Word, mepc : Word,
   mcause : Word, mtval : Word]

InitCSR ==
  [priv |-> kPrivLevelM, sstatus |-> {}, sscratch |-> 0, sepc |-> 0,
   satp |-> {}, mstatus |-> {}, mie |-> {}, mip |-> {}, mtvec |-> 0,
   mscratch |-> 0, mepc |-> 0, mcause |-> 0, mtval |-> 0]

----------------------------------------------------------------------------
GetPrivByCSRAddr(addr) == (addr \div 256) % 4

IsReadOnly(addr) == (addr \div 1024) % 4 = 3

\* Mutant: the check of the privilege level is dropped.
Readable_AnyLevel(c, addr) == addr \in csrs

\* ReadData and WriteData return true.
Readable(c, addr) == addr \in csrs /\ c.priv >= GetPrivByCSRAddr(addr)
Writable(c, addr) == Readable(c, addr) /\ ~IsReadOnly(addr)

\* The value ReadData hands out.
ReadData(c, addr) ==
  CASE addr = kCSRSStatus  -> WordOf(c.sstatus)
    [] addr = kCSRSScratch -> c.sscratch
    [] addr = kCSRSEPC     -> c.sepc
    [] addr = kCSRSATP     -> WordOf(c.satp)
    [] addr = kCSRMStatus  -> WordOf(c.mstatus)
    [] addr = kCSRMISA     -> WordOf(kMISA)
    [] addr = kCSRMIE      -> WordOf(c.mie)
    [] addr = kCSRMIP      -> WordOf(c.mip)
    [] addr = kCSRMTVec    -> c.mtvec
    [] addr = kCSRMScratch -> c.mscratch
    [] addr = kCSRMEPC     -> c.mepc
    [] addr = kCSRMCause   -> c.mcause
    [] addr = kCSRMTVal    -> c.mtval
    [] OTHER               -> 0

\* Mutant: mpp is not legalised.
LegalMpp_AnyLevel(bits) == bits

\* A write of level H to mpp makes it U.
LegalMpp(bits) == IF kMPPHi \in bits /\ kMPPLo \notin bits
                  THEN bits \ {kMPPHi} ELSE bits

\* The sstatus case of WriteData: the bits it shows are those of mstatus.
WriteSStatus(c, bits) ==
  [c EXCEPT !.sstatus = bits \cap kMaskSStatus,
            !.mstatus = ((c.mstatus \ kMaskSStatus) \cup (bits \cap kMaskSStatus))
                          \cap kMaskMStatus]

\* Mutant: sstatus is not brought up to date.
WriteMStatus_NoMirror(c, bits) ==
  [c EXCEPT !.mstatus = LegalMpp(bits) \cap kMaskMStatus]

\* The mstatus case of WriteData, which mirrors the other way.
WriteMStatus(c, bits) ==
  LET new == LegalMpp(bits) \cap kMaskMStatus
  IN  [c EXCEPT !.mstatus = new,
                !.sstatus = ((c.sstatus \ kMaskMStatus) \cup new) \cap kMaskSStatus]

\* mtvec.mode >= 2 is written as mode 0.
LegalMTVec(x) == IF x % 4 >= 2 THEN x - (x % 4) ELSE x

\* WriteData once it has passed its checks.
WriteData(c, addr, value) ==
  CASE addr = kCSRSStatus  -> WriteSStatus(c, BitsOf(value))
    [] addr = kCSRMStatus  -> WriteMStatus(c, BitsOf(value))
    [] addr = kCSRSATP     -> [c EXCEPT !.satp = BitsOf(value) \cap kMaskSATP]
    [] addr = kCSRMIE      -> [c EXCEPT !.mie = BitsOf(value) \cap kMaskMIE]
    [] addr = kCSRMTVec    -> [c EXCEPT !.mtvec = LegalMTVec(value)]
    [] addr = kCSRSScratch -> [c EXCEPT !.sscratch = value]
    [] addr = kCSRSEPC     -> [c EXCEPT !.sepc = value]
    [] addr = kCSRMScratch -> [c EXCEPT !.mscratch = value]
    [] addr = kCSRMEPC     -> [c EXCEPT !.mepc = value]
    [] addr = kCSRMCause   -> [c EXCEPT !.mcause = value]
    [] addr = kCSRMTVal    -> [c EXCEPT !.mtval = value]
    [] OTHER               -> c

----------------------------------------------------------------------------
\* The top bit of mcause tells an interrupt from an exception.
kIntrBit == TopBit

\* Where a trap goes: the vectored mode of mtvec is for interrupts only.
trap_vec(c) ==
  IF c.mtvec % 4 = 1 /\ c.mcause >= kIntrBit
  THEN (c.mtvec - 1 + (c.mcause - kIntrBit) * 4) % WordSize
  ELSE c.mtvec - (c.mtvec % 4)

=============================================================================
