-------------------------------- MODULE Bus --------------------------------
(***************************************************************************)
(* What the bus holds and how it answers: bus/bus.cpp and the storage and  *)
(* devices behind it, for accesses to physical addresses.  RAM, ROM and    *)
(* flash are words with initial contents (all can be written); the CLINT   *)
(* and the GPIO are registers; an attached debugger is one word, not zero  *)
(* while dbg_pause_ is set.                                                *)
(***************************************************************************)
EXTENDS Words

CONSTANTS
  RamAddr,        \* the words of RAM and ROM that are loaded or stored
  ClintAddr,      \* the registers of the CLINT
  MSIP,           \* the one of them that raises the software interrupt
  HaltAddr,       \* the halt flag of the GPIO
  DebugAddr,      \* the word of the debugger: {} when none is attached
  Image(_)        \* what a word holds at first

ASSUME BusAssumption ==
  /\ RamAddr \subseteq Word /\ ClintAddr \subseteq Word /\ HaltAddr \in Word
  /\ DebugAddr \subseteq Word
  /\ MSIP \in Word \ RamAddr /\ MSIP % 4 = 0
  /\ RamAddr \cap (ClintAddr \cup {HaltAddr}) = {}
  /\ DebugAddr \cap (RamAddr \cup ClintAddr \cup {HaltAddr}) = {}
  /\ \A a \in RamAddr : Image(a) \in Word

MemAddr == RamAddr \cup ClintAddr \cup {HaltAddr} \cup DebugAddr
Memory == [MemAddr -> Word]

InitMemory == [a \in MemAddr |-> IF a \in RamAddr THEN Image(a) ELSE 0]

ByteWidth == XLEN \div 4

\* The bits of the n bytes of a word from byte k on.
Lanes(k, n) == {b \in Bit : b \div ByteWidth \in k .. k + n - 1}

\* The CLINT and the debugger answer to words only, the GPIO to bytes only.
IsClint(pa, n) == pa \in ClintAddr /\ n = 4
IsHalt(pa, n) == pa = HaltAddr /\ n = 1
IsPort(pa, n) == pa \in DebugAddr /\ n = 4
IsRegister(pa, n) == IsClint(pa, n) \/ IsHalt(pa, n)

\* n bytes at pa; 0 from a hole of the map and from the debugger.
BusRead(m, pa, n) ==
  LET k == pa % 4
  IN  IF pa - k \in RamAddr
      THEN IF n = 4 THEN m[pa - k]
           ELSE WordOf({b \in Lanes(0, n) :
                          b + k * ByteWidth \in BitsOf(m[pa - k])})
      ELSE IF IsRegister(pa, n) THEN m[pa] ELSE 0

\* Mutant: msip and halt can be set, not cleared.
BusWrite_Sticky(m, pa, n, v) ==
  LET k == pa % 4
  IN  IF pa - k \in RamAddr THEN [m EXCEPT ![pa - k] = v]
      ELSE IF ~IsRegister(pa, n) THEN m
      ELSE IF pa \notin {MSIP, HaltAddr} THEN [m EXCEPT ![pa] = v]
      ELSE [m EXCEPT ![pa] = IF m[pa] # 0 \/ v # 0 THEN 1 ELSE 0]

\* msip and halt are bools; any word stored to the debugger sets dbg_pause_;
\* a store to a hole of the map is dropped.
BusWrite(m, pa, n, v) ==
  LET k == pa % 4
      merged == (BitsOf(m[pa - k]) \ Lanes(k, n))
                  \cup {b \in Lanes(k, n) : b - k * ByteWidth \in BitsOf(v)}
  IN  IF pa - k \in RamAddr
      THEN [m EXCEPT ![pa - k] = IF n = 4 THEN v ELSE WordOf(merged)]
      ELSE IF IsPort(pa, n) THEN [m EXCEPT ![pa] = 1]
      ELSE IF ~IsRegister(pa, n) THEN m
      ELSE IF pa \notin {MSIP, HaltAddr} THEN [m EXCEPT ![pa] = v]
      ELSE [m EXCEPT ![pa] = IF BitsOf(v) \cap Lanes(0, n) = {} THEN 0 ELSE 1]

=============================================================================
