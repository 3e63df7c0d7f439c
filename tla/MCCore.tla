------------------------------- MODULE MCCore -------------------------------
(***************************************************************************)
(* Core on words of 16 bits, which have room for mstatus.mpp below         *)
(* satp.mode and make four bytes of four bits, with an address map of a    *)
(* few words, and the programs that the runs of the core execute.          *)
(***************************************************************************)
EXTENDS Core, FiniteSetsExt, Sequences

MCXLEN == 16
MCWordSize == 65536
MCBits == [x \in 0 .. 65535 |-> {b \in 0 .. 15 : (x \div (2 ^ b)) % 2 = 1}]
MCBitsOf(x) == MCBits[x]
\* Words of a byte are looked up, which is faster than to add them up.
MCWords == [S \in SUBSET (0 .. 7) |-> SumSet({2 ^ b : b \in S})]
MCWordOf(S) ==
  MCWords[S \cap 0 .. 7] + 256 * MCWords[{b - 8 : b \in S \cap 8 .. 15}]

I(op, rd, rs1, rs2, imm, addr) ==
  [op |-> op, rd |-> rd, rs1 |-> rs1, rs2 |-> rs2, imm |-> imm, csr |-> addr]

\* Instruction formats.
R(op, rd, rs1, rs2) == I(op, rd, rs1, rs2, 0, 0)
Imm(op, rd, rs1, imm) == I(op, rd, rs1, 0, imm, 0)
S(op, rs2, rs1, imm) == I(op, 0, rs1, rs2, imm, 0)
C(op, rd, addr, rs1) == I(op, rd, rs1, 0, 0, addr)
P(op) == I(op, 0, 0, 0, 0, 0)

\* A negative offset as a word.
Back(n) == WordSize - n

\* An instruction that is not one has its word as imm; a nop is 19 and no
\* other instruction is executed from a word of memory.
MCEncode(i) == IF i.op = "illegal" THEN i.imm ELSE 19
MCDecode(x) ==
  IF x = 19 THEN Imm("addi", 0, 0, 0) ELSE Imm("illegal", 0, 0, x)
NoImage(a) == 0

----------------------------------------------------------------------------
\* Any program over an alphabet, in the first two words of the ROM; after
\* them a jump back, and nothing that decodes elsewhere.
Arbitrary(alphabet, a) ==
  IF a \in {0, 4} THEN alphabet
  ELSE IF a = 8 THEN {Imm("jal", 0, 0, Back(8))}
  ELSE {P("illegal")}

\* Traps, privileges and interrupts: 2440 has mie, mpie, spp and mpp = S set,
\* and all three bits of mie; 4096 only the upper bit of mpp; 2 is a
\* misaligned address, 1 a vectored mtvec, 20 is msip.
TrapAlphabet ==
  {Imm("lui", 1, 0, v) : v \in {2440, 4096}}
    \cup {C("csrrw", 0, x, 1) : x \in {kCSRMStatus, kCSRSStatus, kCSRMIE}}
    \cup {C("csrrwi", 0, kCSRMEPC, 2), C("csrrwi", 0, kCSRMTVec, 1),
          C("csrrci", 0, kCSRMStatus, 8)}
    \cup {P("ecall"), P("mret"), P("sret"), Imm("jalr", 0, 0, 2),
          S("sw", 1, 0, 20)}
TrapCode(a) == Arbitrary(TrapAlphabet, a)

\* A page table entry.
Pte(ppn, flags) == ppn * 1024 + SumSet({2 ^ FlagBit[f] : f \in flags})

\* The page table: the root in frame 2 has two superpages of frames 0-3, one
\* with the code, read only, the other at frame 16, which is 0 again, writable,
\* and a misaligned one; and a table in frame 3, whose pages, wherever their
\* leaves say, lead to that frame: one is read only, one writable, one
\* executable by the user, and one is no leaf.
TableImage(a) ==
  CASE a = 8192  -> Pte(0, {"v", "r", "x", "a"})
    [] a = 8196  -> Pte(3, {"v"})
    [] a = 8200  -> Pte(16, {"v", "r", "w", "a", "d"})
    [] a = 8204  -> Pte(1, {"v", "r", "w", "a", "d"})
    [] a = 12288 -> Pte(1, {"v", "r", "a"})
    [] a = 12292 -> Pte(1, {"v", "r", "w", "a", "d"})
    [] a = 12296 -> Pte(1, {"v", "r", "x", "u", "a", "d"})
    [] a = 12300 -> Pte(1, {"v"})
    [] OTHER     -> 0

\* Memory: machine code that turns translation on (32768 is satp.mode, 2 the
\* frame of the root) and drops to S or U (2048 and 0 as mpp); then any
\* program that takes an address and a value and reads, writes, reserves or
\* jumps.  16384 is in the page that is read only at first, and reaches the entry
\* of that page; 20480 reaches that entry too, 20484 the one of its own page,
\* 20482 is misaligned; 40968 is the root's entry of the superpage it is reached
\* through, and 49152 in the misaligned one.  The values are entries: not
\* accessed (a nop as an instruction), not dirty, beyond the frames.
MemAddress == {16384, 20480, 20482, 20484, 40968, 49152}
MemValue ==
  {19, Pte(1, {"v", "r", "w", "a"}), Pte(16, {"v", "r", "w", "x", "a", "d"})}
MemAlphabet ==
  {R("amoswap", 1, 2, 1), R("amoor", 0, 2, 0), R("lr", 1, 2, 0),
   R("sc", 1, 2, 1), Imm("lw", 1, 2, 0), Imm("lb", 1, 2, 1), S("sw", 1, 2, 0),
   S("sb", 0, 0, 20481), P("fence"), P("sfence"),
   Imm("jal", 0, 0, 24576 - 8)}
MemSetup ==
  <<Imm("lui", 1, 0, 128), C("csrrw", 0, kCSRMTVec, 1),
    Imm("lui", 1, 0, 32770), C("csrrw", 0, kCSRSATP, 1),
    C("csrrwi", 0, kCSRMEPC, 0)>>
MemCode(a) ==
  CASE a \in {64, 68, 72, 76, 80} -> {MemSetup[(a - 60) \div 4]}
    [] a = 84 -> {Imm("lui", 1, 0, v) : v \in {0, 2048}}
    [] a = 88 -> {C("csrrw", 0, kCSRMStatus, 1)}
    [] a = 92 -> {P("mret")}
    [] a = 0 -> {Imm("lui", 2, 0, v) : v \in MemAddress}
    [] a = 4 -> {Imm("lui", 1, 0, v) : v \in MemValue}
    [] a = 8 -> MemAlphabet
    [] a = 12 -> {Imm("jal", 0, 0, Back(12))}
    [] a = 128 -> {C("csrrwi", 0, kCSRMCause, 0)}
    [] a = 132 -> {C("csrrwi", 0, kCSRMTVal, 0)}
    [] a = 136 -> {P("mret"), Imm("jal", 0, 0, Back(64))}
    [] OTHER -> {P("illegal")}

----------------------------------------------------------------------------
\* mpp is the "previous privilege level" (define/csr.h:62): the level that the
\* instruction a trap is taken at runs in, a return among them.
TrapRecordsMode ==
  [][event'.trap # "none" => Mpp(csr'.mstatus) = csr.priv]_vars

\* A page of 4 KB leads to the frame that its leaf names: "let pa.offset =
\* va.offset, pa.ppn[1 : 0] = pte.ppn[1 : 0]" (mmu.cpp:71-72).
WalkIsSv32 ==
  [][(mem' # mem \/ csr'.satp # csr.satp) =>
       \A va \in Pages : Sv32(csr', mem', va).ok =>
         Walk(csr', mem', va).pa = Sv32(csr', mem', va).pa]_vars

=============================================================================
