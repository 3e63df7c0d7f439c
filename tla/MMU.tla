-------------------------------- MODULE MMU --------------------------------
(***************************************************************************)
(* The MMU, bus/mmu.cpp: whether an access of a kind ("r", "w" or "x") at  *)
(* a virtual address is refused and, if it is not, the physical address it *)
(* reaches.  The page table is read from the memory m at every access:     *)
(* there is no TLB, so what a store does to it counts from the next        *)
(* access on.                                                              *)
(***************************************************************************)
EXTENDS CSR, Bus

CONSTANT VpnSize   \* entries of a page table: 1024 in the code

kPageSize == 4096
Frames == VpnSize * VpnSize

\* An address is a page number of two levels and an offset.
ASSUME MMUAssumption ==
  /\ VpnSize \in Nat \ {0} /\ VpnSize <= 1024
  /\ WordSize = kPageSize * Frames

----------------------------------------------------------------------------
\* Sv32VAddr and Sv32PTE of define/vm.h.

offset(a) == a % kPageSize
vpn0(a) == (a \div kPageSize) % VpnSize
vpn1(a) == (a \div (kPageSize * VpnSize)) % VpnSize

\* The first address of every virtual page.
Pages == {n * kPageSize : n \in 0 .. Frames - 1}

FlagBit == [v |-> 0, r |-> 1, w |-> 2, x |-> 3, u |-> 4, a |-> 6, d |-> 7]
Flag == DOMAIN FlagBit

PTE(x) == [flags |-> {f \in Flag : FlagBit[f] \in BitsOf(x)},
           ppn   |-> x \div 1024]

\* The page of a frame.  A frame number has two bits more than a word has
\* room for: `ppn << 12` is computed in an int, which drops them.
PageAddr(ppn) == kPageSize * (ppn % Frames)

satp_ppn(c) == WordOf(c.satp \ {kSATPMode})

\* Entry i of the page table in a frame, read from the bus.
Entry(m, ppn, i) == PTE(BusRead(m, PageAddr(ppn) + 4 * i, 4))

Invalid(pte) ==
  "v" \notin pte.flags \/ ("r" \notin pte.flags /\ "w" \in pte.flags)

Pointer(pte) == pte.flags \cap {"r", "x"} = {}

----------------------------------------------------------------------------
\* The flags of the leaf entry an address is checked by, and where it leads to.
Leaf == [ok : BOOLEAN, flags : SUBSET Flag, pa : Word]

NoLeaf == [ok |-> FALSE, flags |-> {}, pa |-> 0]

\* Mutant: a leaf of the first level need not be aligned to a superpage.
Walk_AnySuperpage(c, m, a) ==
  LET root == Entry(m, satp_ppn(c), vpn1(a))
      leaf == Entry(m, root.ppn, vpn0(a))
      To(ppn, flags) == [ok |-> TRUE, flags |-> flags,
                         pa |-> PageAddr(ppn) + offset(a)]
  IN  IF Invalid(root) THEN NoLeaf
      ELSE IF ~Pointer(root) THEN To(root.ppn, root.flags)
      ELSE IF Invalid(leaf) \/ Pointer(leaf) THEN NoLeaf
      ELSE To(root.ppn, leaf.flags)

\* The two levels, unrolled as in the code; a leaf of the first level is a
\* superpage, whose lower frame number has to be zero.  pte_ppn is computed once,
\* of the first entry (line 118): when pte_val is read again it stays the frame
\* of the second table, and that is where a page of 4 KB leads to (line 127).
Walk(c, m, a) ==
  LET root == Entry(m, satp_ppn(c), vpn1(a))
      leaf == Entry(m, root.ppn, vpn0(a))
      To(ppn, flags) == [ok |-> TRUE, flags |-> flags,
                         pa |-> PageAddr(ppn) + offset(a)]
  IN  IF Invalid(root) THEN NoLeaf
      ELSE IF ~Pointer(root)
      THEN IF root.ppn % VpnSize # 0 THEN NoLeaf
           ELSE To(root.ppn + vpn0(a), root.flags)
      ELSE IF Invalid(leaf) \/ Pointer(leaf) THEN NoLeaf
      ELSE To(root.ppn, leaf.flags)

\* Translation is off in machine mode and while satp.mode is clear.
Translated(c) == c.priv # kPrivLevelM /\ kSATPMode \in c.satp

CheckPTEProperty(priv, flags, kind) ==
  /\ kind \in flags
  /\ ~(priv = kPrivLevelS /\ "u" \in flags)

\* A leaf refuses an access.
Refuses(priv, leaf, kind) ==
  \/ ~leaf.ok
  \/ ~CheckPTEProperty(priv, leaf.flags, kind)
  \/ "a" \notin leaf.flags
  \/ kind = "w" /\ "d" \notin leaf.flags

\* GetPhysicalAddr sets is_invalid_.
PageFault(c, m, a, kind) ==
  Translated(c) /\ Refuses(c.priv, Walk(c, m, a), kind)

\* What GetPhysicalAddr returns when there is no page fault.
GetPhysicalAddr(c, m, a) == IF Translated(c) THEN Walk(c, m, a).pa ELSE a

=============================================================================
