------------------------------- MODULE Words -------------------------------
(***************************************************************************)
(* The words of the machine: std::uint32_t in the code.  A word is a       *)
(* number; where the code takes it apart bit by bit it is the set of its   *)
(* one bits, which BitsOf and WordOf convert to and from.                  *)
(***************************************************************************)
EXTENDS Integers

CONSTANTS
  XLEN,         \* bits in a word: 32 in the code
  WordSize,     \* values of a word: 2^32 in the code
  BitsOf(_),    \* the one bits of a word
  WordOf(_)     \* the word with these one bits

Word == 0 .. WordSize - 1
Bit  == 0 .. XLEN - 1

ASSUME WordAssumption ==
  /\ XLEN \in Nat \ {0}
  /\ WordSize \in Nat /\ WordSize >= 2 /\ WordSize % 2 = 0
  /\ \A x \in Word : BitsOf(x) \in SUBSET Bit
  /\ \A S \in SUBSET Bit : WordOf(S) \in Word

\* The word that has its top bit set, and no other.
TopBit == WordSize \div 2

\* A word as a signed number: the conversion to std::int32_t.
Signed(x) == IF x >= TopBit THEN x - WordSize ELSE x

\* The sum of two words, and the word an integer is truncated to.
Add(x, y) == IF x + y >= WordSize THEN x + y - WordSize ELSE x + y
Wrap(n) == n % WordSize

=============================================================================
