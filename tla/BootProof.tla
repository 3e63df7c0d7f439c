----------------------------- MODULE BootProof -----------------------------
(***************************************************************************)
(* The address map of the emulator for files and memories of any size: the *)
(* devices are attached in the order of their addresses, so each one lies  *)
(* above all that are listed.                                              *)
(***************************************************************************)
EXTENDS Boot, TLAPS

Base(k) == kMMIOAddr[Order[k]]
ItemOf(k) == [base |-> Base(k), size |-> Size(Order[k]), device |-> Order[k]]

Attached == stage \in {"attach", "run"}

\* The values main goes on with.
ValuesOK ==
  /\ vals \in [set : SUBSET Flag, binary : Text \cup {""}, mem : Text,
               flash : Text \cup {""}]
  /\ stage = "create" \/ Attached => vals.binary # ""
  /\ Attached => Usable

MemoryOK ==
  /\ mem_size \in 0 .. TopBit - 1
  /\ mem_size % 4 = 0
  /\ next \in 1 .. 7
  /\ peripherals \in Seq(Item)
  /\ ~Attached => peripherals = <<>> /\ next = 1

\* Each listed device is one that was asked for before.
Listed == \A i \in DOMAIN peripherals :
            \E k \in 1 .. next - 1 : peripherals[i] = ItemOf(k)

\* A device begins at the end of those before it in the list or later.
Apart == \A i, j \in DOMAIN peripherals :
           i < j => peripherals[i].base + peripherals[i].size
                      <= peripherals[j].base

\* A device that is not listed would have begun inside one that is.
Answered ==
  \A k \in 1 .. next - 1 :
    Asked(Order[k]) =>
      \/ \E i \in DOMAIN peripherals : peripherals[i] = ItemOf(k)
      \/ \E i \in DOMAIN peripherals : \E j \in 1 .. k - 1 :
           peripherals[i] = ItemOf(j) /\ Claims(peripherals[i], Base(k))

BootInv == ValuesOK /\ MemoryOK /\ Listed /\ Apart /\ Answered

----------------------------------------------------------------------------
LEMMA WordFacts == WordSize \in Nat /\ TopBit \in Nat /\ 2 * TopBit = WordSize
BY WordAssumption DEF TopBit

LEMMA Ordered ==
  /\ \A k \in 1 .. 6 : Order[k] \in Device /\ Base(k) \in Word
  /\ \A j, k \in 1 .. 6 : j < k => Base(j) < Base(k)
<1>1. \A k \in 1 .. 6 : Order[k] \in Device /\ Base(k) \in Word
  BY BootAssumption DEF Device, Base
<1>2. \A k \in 1 .. 5 : Base(k) < Base(k + 1)
  BY BootAssumption DEF Base
<1>3. /\ Base(1) < Base(2) /\ Base(2) < Base(3) /\ Base(3) < Base(4)
      /\ Base(4) < Base(5) /\ Base(5) < Base(6)
  <2> HIDE DEF Base
  <2> QED BY <1>2
<1>4. Word \subseteq Int
  BY WordFacts DEF Word
<1>5. ASSUME NEW j \in 1 .. 6, NEW k \in 1 .. 6, j < k PROVE Base(j) < Base(k)
  <2> HIDE DEF Base
  <2>1. \A i \in 1 .. 6 : Base(i) \in Int
    BY <1>1, <1>4
  <2>2. /\ j = 1 \/ j = 2 \/ j = 3 \/ j = 4 \/ j = 5
        /\ k = 2 \/ k = 3 \/ k = 4 \/ k = 5 \/ k = 6
    BY <1>5
  <2> QED BY <1>3, <2>1, <2>2, <1>5
<1> QED BY <1>1, <1>5

\* Where main attaches devices their sizes are words.
LEMMA Sizes ==
  ASSUME ValuesOK, MemoryOK, Attached
  PROVE  \A d \in Device : /\ Length(d) \in Nat /\ Size(d) \in Word
                           /\ Size(d) <= Length(d)
<1>1. ASSUME NEW d \in Device PROVE Length(d) \in Nat
  <2>1. d \in {"rom", "ram", "gpio", "clint", "flash", "debugger"}
    BY DEF Device, Order
  <2>0. /\ vals.binary \in Text /\ FileLength(vals.binary) >= 0
        /\ vals.flash # "" => vals.flash \in Text /\ FileLength(vals.flash) >= 0
    BY DEF ValuesOK, Usable, Opens
  <2>1a. \A t \in Text : FileLength(t) >= 0 => FileLength(t) \in Nat
    BY BootAssumption
  <2>2. FileLength(vals.binary) \in Nat
    BY <2>0, <2>1a
  <2>3. vals.flash # "" => FileLength(vals.flash) \in Nat
    BY <2>0, <2>1a
  <2>4. mem_size \in Nat
    BY WordFacts DEF MemoryOK
  <2>5. \A e \in {"gpio", "clint", "debugger"} : DeviceSize[e] \in Nat
    BY BootAssumption
  <2> QED BY <2>1, <2>2, <2>3, <2>4, <2>5 DEF Length
<1>2. \A n \in Nat : Wrap(n) \in Word /\ Wrap(n) <= n
  BY WordAssumption DEF Wrap, Word
<1> QED BY <1>1, <1>2 DEF Size

LEMMA Starts == Init => BootInv
<1>1. 0 \in 0 .. TopBit - 1 /\ 0 % 4 = 0
  BY WordAssumption DEF TopBit
<1>2. <<>> \in Seq(Item)
  OBVIOUS
<1> SUFFICES ASSUME Init PROVE BootInv
  OBVIOUS
<1>3. ~Attached /\ peripherals = <<>> /\ next = 1 /\ stage = "parse"
  BY DEF Init, Attached
<1>4. ValuesOK
  BY <1>3, BootAssumption DEF Init, ValuesOK
<1>5. MemoryOK
  <2>1. mem_size = 0
    BY <1>3 DEF Init
  <2>2. peripherals \in Seq(Item) /\ next \in 1 .. 7
    BY <1>2, <1>3
  <2> QED BY <1>1, <1>3, <2>1, <2>2 DEF MemoryOK
<1>6. Listed /\ Apart /\ Answered
  BY <1>3 DEF Listed, Apart, Answered
<1> QED BY <1>4, <1>5, <1>6 DEF BootInv

\* Before the devices are attached nothing is listed.
LEMMA Nothing ==
  ASSUME MemoryOK, ~Attached
  PROVE  Listed /\ Apart /\ Answered
BY DEF MemoryOK, Listed, Apart, Answered

LEMMA ParseKeeps ==
  ASSUME BootInv, ParseFlag \/ ParseOption \/ ParseArgument
  PROVE  BootInv'
<1>1. stage = "parse" /\ UNCHANGED <<stage, mem_size, next, peripherals>>
  BY DEF ParseFlag, ParseOption, ParseArgument, Parsing, Onward
<1>2. MemoryOK' /\ ~Attached /\ ~Attached'
  BY <1>1 DEF BootInv, MemoryOK, Attached
<1>3. ValuesOK'
  <2>1. CASE ParseFlag
    BY <2>1, <1>1, <1>2 DEF BootInv, ValuesOK, ParseFlag
  <2>2. CASE ParseOption
    BY <2>2, <1>1, <1>2 DEF BootInv, ValuesOK, ParseOption, IsValue
  <2>3. CASE ParseArgument
    BY <2>3, <1>1, <1>2 DEF BootInv, ValuesOK, ParseArgument
  <2> QED BY <2>1, <2>2, <2>3
<1>4. (Listed /\ Apart /\ Answered)'
  BY <1>2 DEF MemoryOK, Listed, Apart, Answered
<1> QED BY <1>2, <1>3, <1>4 DEF BootInv

LEMMA ParseEndKeeps ==
  ASSUME BootInv, ParseEnd \/ Refuse
  PROVE  BootInv'
<1>1. /\ UNCHANGED <<vals, mem_size, next, peripherals>>
      /\ ~Attached /\ ~Attached'
      /\ stage' = "create" => vals.binary # ""
  BY DEF ParseEnd, Refuse, parser, Attached, Rejected
<1>2. MemoryOK' /\ ValuesOK'
  BY <1>1 DEF BootInv, MemoryOK, ValuesOK
<1>3. (Listed /\ Apart /\ Answered)'
  <2>1. peripherals' = <<>> /\ next' = 1
    BY <1>1, <1>2 DEF MemoryOK
  <2> QED BY <2>1 DEF Listed, Apart, Answered
<1> QED BY <1>2, <1>3 DEF BootInv

LEMMA CreateKeeps ==
  ASSUME BootInv, Create
  PROVE  BootInv'
<1>1. /\ UNCHANGED <<vals, next, peripherals>> /\ Usable
      /\ ~Attached /\ stage = "create" /\ Attached'
      /\ mem_size' \in GetMemSize(vals.mem) /\ MemSizeAllowed(mem_size')
  BY DEF Create, parser, Attached
<1>2. mem_size' \in CppInt
  BY <1>1 DEF GetMemSize
<1>3. mem_size' \in 0 .. TopBit - 1 /\ mem_size' % 4 = 0
  <2>1. mem_size' \in Int /\ mem_size' <= TopBit - 1
    BY <1>2, WordFacts DEF CppInt
  <2>2. mem_size' > 0 /\ mem_size' % 4 = 0
    BY <1>1 DEF MemSizeAllowed
  <2>3. mem_size' \in 0 .. TopBit - 1
    BY <2>1, <2>2, WordFacts
  <2> QED BY <2>2, <2>3
<1>4. peripherals = <<>> /\ next = 1
  BY <1>1 DEF BootInv, MemoryOK
<1>5. MemoryOK' /\ ValuesOK'
  BY <1>1, <1>3, <1>4 DEF BootInv, MemoryOK, ValuesOK, Usable, Opens
<1>6. (Listed /\ Apart /\ Answered)'
  BY <1>1, <1>4 DEF Listed, Apart, Answered
<1> QED BY <1>5, <1>6 DEF BootInv

\* Each device of the list is below the one that comes next.
LEMMA Below ==
  ASSUME BootInv, Attached
  PROVE  \A i \in DOMAIN peripherals :
           /\ peripherals[i] \in Item
           /\ next <= 6 => peripherals[i].base < Base(next)
<1>1. ASSUME NEW i \in DOMAIN peripherals
      PROVE  /\ peripherals[i] \in Item
             /\ next <= 6 => peripherals[i].base < Base(next)
  <2>1. PICK k \in 1 .. next - 1 : peripherals[i] = ItemOf(k)
    BY DEF BootInv, Listed
  <2>2. next \in 1 .. 7
    BY DEF BootInv, MemoryOK
  <2>3. peripherals[i].base = Base(k)
    BY <2>1 DEF ItemOf
  <2>4. peripherals[i] \in Item
    BY DEF BootInv, MemoryOK
  <2>5. next <= 6 => Base(k) < Base(next)
    BY <2>2, Ordered
  <2> QED BY <2>3, <2>4, <2>5
<1> QED BY <1>1

LEMMA AttachKeeps ==
  ASSUME BootInv, Attach
  PROVE  BootInv'
<1> DEFINE d == Order[next]
           new == ItemOf(next)
<1>1. /\ UNCHANGED <<vals, stage, mem_size>> /\ next' = next + 1
      /\ Attached /\ Attached' /\ next \in 1 .. 6
      /\ peripherals \in Seq(Item)
  BY DEF Attach, parser, Attached, BootInv, MemoryOK
<1>2. \A k : ItemOf(k)' = ItemOf(k)
  BY <1>1 DEF ItemOf, Base, Size, Length
<1>3. \A k : Asked(Order[k])' = Asked(Order[k])
  BY <1>1 DEF Asked, Size, Length
<1>4. ValuesOK'
  BY <1>1 DEF BootInv, ValuesOK, Usable, Opens, Attached
<1>5. new \in Item /\ new.base = Base(next) /\ Base(next) \in Word
  <2>1. Size(Order[next]) \in Word
    BY <1>1, Sizes, Ordered DEF BootInv
  <2> QED BY <1>1, <2>1, Ordered DEF ItemOf, Item
<1>6. CASE peripherals' = peripherals
           /\ (Asked(d) => \E i \in DOMAIN peripherals :
                             Claims(peripherals[i], Base(next)))
  <2>1. MemoryOK'
    BY <1>1, <1>6 DEF BootInv, MemoryOK
  <2>2. Listed'
    <3> SUFFICES ASSUME NEW i \in DOMAIN peripherals
                 PROVE  \E k \in 1 .. next : peripherals[i] = ItemOf(k)
      BY <1>1, <1>2, <1>6 DEF Listed
    <3> QED BY <1>1 DEF BootInv, Listed
  <2>3. Apart'
    BY <1>6 DEF BootInv, Apart
  <2>4. Answered'
    <3> SUFFICES ASSUME NEW k \in 1 .. next, Asked(Order[k])
                 PROVE  \/ \E i \in DOMAIN peripherals :
                             peripherals[i] = ItemOf(k)
                        \/ \E i \in DOMAIN peripherals : \E j \in 1 .. k - 1 :
                             /\ peripherals[i] = ItemOf(j)
                             /\ Claims(peripherals[i], Base(k))
      BY <1>1, <1>2, <1>3, <1>6 DEF Answered, Base
    <3>1. CASE k \in 1 .. next - 1
      BY <3>1 DEF BootInv, Answered
    <3>2. CASE k = next
      <4>1. PICK i \in DOMAIN peripherals : Claims(peripherals[i], Base(next))
        BY <1>6, <3>2
      <4>2. PICK j \in 1 .. next - 1 : peripherals[i] = ItemOf(j)
        BY DEF BootInv, Listed
      <4> QED BY <3>2, <4>1, <4>2
    <3> QED BY <1>1, <3>1, <3>2
  <2> QED BY <1>4, <2>1, <2>2, <2>3, <2>4 DEF BootInv
<1>7. CASE /\ peripherals' = Append(peripherals, new)
           /\ \A i \in DOMAIN peripherals : ~Claims(peripherals[i], Base(next))
  <2> DEFINE n == Len(peripherals)
  <2>1. /\ DOMAIN peripherals' = 1 .. n + 1 /\ DOMAIN peripherals = 1 .. n
        /\ n \in Nat
        /\ peripherals'[n + 1] = new
        /\ \A i \in 1 .. n : peripherals'[i] = peripherals[i]
    BY <1>1, <1>5, <1>7
  <2>2. MemoryOK'
    <3>1. peripherals' \in Seq(Item)
      BY <1>1, <1>5, <1>7
    <3> QED BY <1>1, <3>1 DEF BootInv, MemoryOK
  <2>3. Listed'
    <3> SUFFICES ASSUME NEW i \in 1 .. n + 1
                 PROVE  \E k \in 1 .. next : peripherals'[i] = ItemOf(k)
      BY <1>1, <1>2, <2>1 DEF Listed
    <3>1. CASE i = n + 1
      BY <1>1, <2>1, <3>1
    <3>2. CASE i \in 1 .. n
      <4>1. PICK k \in 1 .. next - 1 : peripherals[i] = ItemOf(k)
        BY <2>1, <3>2 DEF BootInv, Listed
      <4> QED BY <1>1, <2>1, <3>2, <4>1
    <3> QED BY <2>1, <3>1, <3>2
  <2>4. Apart'
    <3> SUFFICES ASSUME NEW i \in 1 .. n + 1, NEW j \in 1 .. n + 1, i < j
                 PROVE  peripherals'[i].base + peripherals'[i].size
                          <= peripherals'[j].base
      BY <2>1 DEF Apart
    <3>1. i \in 1 .. n
      BY <2>1
    <3>2. CASE j \in 1 .. n
      BY <2>1, <3>1, <3>2 DEF BootInv, Apart
    <3>3. CASE j = n + 1
      <4>1. /\ peripherals[i] \in Item /\ peripherals[i].base < Base(next)
            /\ ~Claims(peripherals[i], Base(next))
        BY <1>1, <1>7, <2>1, <3>1, Below
      <4>2. /\ peripherals[i].base \in Word /\ peripherals[i].size \in Word
            /\ Word \subseteq Nat
        BY <4>1, WordFacts DEF Item, Word
      <4>3. peripherals[i].base + peripherals[i].size <= Base(next)
        <5>1. \A b, z, a \in Nat : b < a /\ ~(a >= b /\ a < b + z) => b + z <= a
          OBVIOUS
        <5>2. Base(next) \in Nat
          BY <1>5, <4>2
        <5> QED BY <4>1, <4>2, <5>1, <5>2 DEF Claims
      <4> QED BY <1>5, <2>1, <3>1, <3>3, <4>3
    <3> QED BY <2>1, <3>2, <3>3
  <2>5. Answered'
    <3> SUFFICES ASSUME NEW k \in 1 .. next, Asked(Order[k])
                 PROVE  \/ \E i \in 1 .. n + 1 : peripherals'[i] = ItemOf(k)
                        \/ \E i \in 1 .. n + 1 : \E j \in 1 .. k - 1 :
                             /\ peripherals'[i] = ItemOf(j)
                             /\ Claims(peripherals'[i], Base(k))
      BY <1>1, <1>2, <1>3, <2>1 DEF Answered, Base
    <3>1. CASE k \in 1 .. next - 1
      <4>1. \/ \E i \in 1 .. n : peripherals[i] = ItemOf(k)
            \/ \E i \in 1 .. n : \E j \in 1 .. k - 1 :
                 peripherals[i] = ItemOf(j) /\ Claims(peripherals[i], Base(k))
        BY <2>1, <3>1 DEF BootInv, Answered
      <4>2. 1 .. n \subseteq 1 .. n + 1
        BY <2>1
      <4> QED BY <2>1, <4>1, <4>2
    <3>2. CASE k = next
      BY <2>1, <3>2
    <3> QED BY <1>1, <3>1, <3>2
  <2> QED BY <1>4, <2>2, <2>3, <2>4, <2>5 DEF BootInv
<1>8. \A i \in DOMAIN peripherals :
        Overlaps(peripherals[i], Base(next), Size(d))
          <=> Claims(peripherals[i], Base(next))
  <2> SUFFICES ASSUME NEW i \in DOMAIN peripherals
               PROVE  ~(peripherals[i].base >= Base(next))
    BY DEF Overlaps, Claims
  <2>1. peripherals[i] \in Item /\ peripherals[i].base < Base(next)
    BY <1>1, Below
  <2>2. peripherals[i].base \in Int /\ Base(next) \in Int
    BY <1>5, <2>1, WordFacts DEF Item, Word
  <2> QED BY <2>1, <2>2
<1>9. CASE Asked(d) /\ \A i \in DOMAIN peripherals :
                        ~Claims(peripherals[i], Base(next))
  <2>1. peripherals' = Append(peripherals, new)
    BY <1>8, <1>9 DEF Attach, AddPeripheral, ItemOf, Base
  <2> QED BY <1>7, <1>9, <2>1
<1>10. CASE ~Asked(d)
  BY <1>6, <1>10 DEF Attach
<1>11. CASE Asked(d) /\ \E i \in DOMAIN peripherals :
                         Claims(peripherals[i], Base(next))
  <2>1. peripherals' = peripherals
    BY <1>8, <1>11 DEF Attach, AddPeripheral, Base
  <2> QED BY <1>6, <1>11, <2>1
<1> QED BY <1>9, <1>10, <1>11

LEMMA SameList ==
  ASSUME BootInv, UNCHANGED <<vals, mem_size, next, peripherals>>
  PROVE  (Listed /\ Apart /\ Answered)'
<1>1. \A k : ItemOf(k)' = ItemOf(k)
  BY DEF ItemOf, Base, Size, Length
<1>2. \A k : Asked(Order[k])' = Asked(Order[k])
  BY DEF Asked, Size, Length
<1>3. Listed' /\ Apart'
  BY <1>1 DEF BootInv, Listed, Apart
<1>4. Answered'
  BY <1>1, <1>2 DEF BootInv, Answered, Claims, Base
<1> QED BY <1>3, <1>4

LEMMA StepKeeps == BootInv /\ [Next]_vars => BootInv'
<1> SUFFICES ASSUME BootInv, [Next]_vars PROVE BootInv'
  OBVIOUS
<1>1. CASE Enter
  <2>1. /\ UNCHANGED <<vals, mem_size, next, peripherals>>
        /\ Attached /\ Attached'
    BY <1>1 DEF Enter, parser, Attached
  <2>2. ValuesOK' /\ MemoryOK'
    BY <2>1 DEF BootInv, ValuesOK, MemoryOK, Usable, Opens
  <2> QED BY <2>1, <2>2, SameList DEF BootInv
<1>2. CASE UNCHANGED vars
  <2>1. /\ UNCHANGED <<vals, mem_size, next, peripherals>>
        /\ ValuesOK' /\ MemoryOK'
    BY <1>2 DEF vars, BootInv, ValuesOK, MemoryOK, Attached, Usable, Opens
  <2> QED BY <2>1, SameList DEF BootInv
<1>3. CASE Ended
  BY <1>2, <1>3 DEF Ended
<1> QED BY <1>1, <1>2, <1>3, ParseKeeps, ParseEndKeeps, CreateKeeps,
           AttachKeeps DEF Next

\* The invariant the properties of the address map follow from.
THEOREM BootInvariant == BootSpec => []BootInv
BY Starts, StepKeeps, PTL DEF BootSpec

----------------------------------------------------------------------------
LEMMA Alone ==
  ASSUME BootInv, NEW a \in Int
  PROVE  \A i, j \in DOMAIN peripherals :
           Claims(peripherals[i], a) /\ Claims(peripherals[j], a) => i = j
<1> SUFFICES ASSUME NEW i \in DOMAIN peripherals,
                    NEW j \in DOMAIN peripherals, i < j,
                    Claims(peripherals[i], a), Claims(peripherals[j], a)
             PROVE  FALSE
  <2>1. DOMAIN peripherals \subseteq Nat
    BY DEF BootInv, MemoryOK
  <2> QED BY <2>1
<1>1. peripherals[i] \in Item /\ peripherals[j] \in Item
  BY DEF BootInv, MemoryOK
<1>2. Word \subseteq Int
  BY WordFacts DEF Word
<1>3. /\ peripherals[i].base \in Int /\ peripherals[i].size \in Int
      /\ peripherals[j].base \in Int
  BY <1>1, <1>2 DEF Item
<1>4. peripherals[i].base + peripherals[i].size <= peripherals[j].base
  BY DEF BootInv, Apart
<1> QED BY <1>2, <1>3, <1>4 DEF Claims

LEMMA Found ==
  ASSUME BootInv, NEW a \in Int, NEW i \in DOMAIN peripherals,
         Claims(peripherals[i], a)
  PROVE  GetPeripheral(peripherals, a) = peripherals[i].device
<1> DEFINE found == {j \in DOMAIN peripherals : Claims(peripherals[j], a)}
<1>1. found = {i}
  BY Alone
<1>2. i \in Nat
  BY DEF BootInv, MemoryOK
<1>3. (CHOOSE k \in found : \A j \in found : k <= j) = i
  BY <1>1, <1>2
<1> QED BY <1>1, <1>3 DEF GetPeripheral

LEMMA Answer ==
  ASSUME BootInv
  PROVE  DevicesAnswer
<1>1. CASE ~Attached
  <2>1. next = 1
    BY <1>1 DEF BootInv, MemoryOK
  <2> QED BY <2>1 DEF DevicesAnswer
<1>2. CASE Attached
  <2> SUFFICES
        ASSUME NEW k \in 1 .. next - 1, Asked(Order[k])
        PROVE  \/ \A a \in Base(k) .. Base(k) + Size(Order[k]) - 1 :
                    GetPeripheral(peripherals, a) = Order[k]
               \/ \E j \in 1 .. k - 1 :
                    /\ GetPeripheral(peripherals, Base(k)) = Order[j]
                    /\ Base(j) + Length(Order[j]) > Base(k)
    BY DEF DevicesAnswer, Base
  <2>1. k \in 1 .. 6
    BY DEF BootInv, MemoryOK
  <2>2. \A j \in 1 .. k : j \in 1 .. 6
    BY <2>1
  <2>3. \A j \in 1 .. k : /\ Base(j) \in Nat /\ Base(j) < WordSize
                        /\ Order[j] \in Device
                        /\ Size(Order[j]) \in Nat /\ Length(Order[j]) \in Nat
                        /\ Size(Order[j]) <= Length(Order[j])
    BY <1>2, <2>2, Ordered, Sizes, WordFacts DEF BootInv, Word
  <2>4. CASE \E i \in DOMAIN peripherals : peripherals[i] = ItemOf(k)
    <3>1. PICK i \in DOMAIN peripherals : peripherals[i] = ItemOf(k)
      BY <2>4
    <3> SUFFICES ASSUME NEW a \in Base(k) .. Base(k) + Size(Order[k]) - 1
                 PROVE  GetPeripheral(peripherals, a) = Order[k]
      OBVIOUS
    <3>2. Claims(peripherals[i], a)
      BY <2>3, <3>1 DEF Claims, ItemOf
    <3>3. a \in Int
      BY <2>3
    <3> QED BY <3>1, <3>2, <3>3, Found DEF ItemOf
  <2>5. CASE \E i \in DOMAIN peripherals : \E j \in 1 .. k - 1 :
               peripherals[i] = ItemOf(j) /\ Claims(peripherals[i], Base(k))
    <3>1. PICK i \in DOMAIN peripherals, j \in 1 .. k - 1 :
                 peripherals[i] = ItemOf(j) /\ Claims(peripherals[i], Base(k))
      BY <2>5
    <3>2. Base(k) \in Int
      BY <2>1, <2>3
    <3>3. GetPeripheral(peripherals, Base(k)) = Order[j]
      BY <3>1, <3>2, Found DEF ItemOf
    <3>4. Base(k) < Base(j) + Size(Order[j])
      BY <3>1 DEF Claims, ItemOf
    <3>5. j \in 1 .. k /\ k \in 1 .. k
      BY <2>1
    <3>6. Base(j) + Length(Order[j]) > Base(k)
      BY <2>3, <3>4, <3>5
    <3> QED BY <3>3, <3>6
  <2> QED BY <2>4, <2>5 DEF BootInv, Answered
<1> QED BY <1>1, <1>2

LEMMA Whole ==
  ASSUME BootInv
  PROVE  WordsInRam
<1> SUFFICES ASSUME NEW a \in Word, a % 4 = 0,
                    GetPeripheral(peripherals, a) = "ram"
             PROVE  a + 3 < kMMIOAddr["ram"] + mem_size
  BY DEF WordsInRam
<1>1. PICK i \in DOMAIN peripherals :
             peripherals[i].device = "ram" /\ Claims(peripherals[i], a)
  <2> DEFINE found == {j \in DOMAIN peripherals : Claims(peripherals[j], a)}
  <2>1. CASE found = {}
    BY <2>1 DEF GetPeripheral
  <2>2. CASE found # {}
    <3>1. PICK i \in found : TRUE
      BY <2>2
    <3>2. Word \subseteq Int
      BY WordFacts DEF Word
    <3> QED BY <3>1, <3>2, Found
  <2> QED BY <2>1, <2>2
<1>2. PICK k \in 1 .. next - 1 : peripherals[i] = ItemOf(k)
  BY DEF BootInv, Listed
<1>3. Order[k] = "ram"
  BY <1>1, <1>2 DEF ItemOf
<1>4. /\ mem_size \in Nat /\ mem_size % 4 = 0 /\ mem_size < WordSize
      /\ kMMIOAddr["ram"] \in Nat /\ kMMIOAddr["ram"] % 4 = 0
  BY WordFacts, BootAssumption DEF BootInv, MemoryOK
<1>5. Size("ram") = mem_size
  BY <1>4, WordAssumption DEF Size, Length, Wrap
<1>6. a \in Nat /\ a < kMMIOAddr["ram"] + mem_size
  BY <1>1, <1>2, <1>3, <1>5, WordFacts DEF Claims, ItemOf, Base, Word
<1>7. \A x, b, n \in Nat : x % 4 = 0 /\ b % 4 = 0 /\ n % 4 = 0 /\ x < b + n
                           => x + 3 < b + n
  OBVIOUS
<1> QED BY <1>4, <1>6, <1>7

----------------------------------------------------------------------------
\* The command line: what has been read of it.

Read == 1 .. arg - 1

\* The value of an option that was given is the last one given.
Latest(places, o, value, default) ==
  \/ value = default /\ \A i \in places : argv[i] # o
  \/ \E i \in places : /\ argv[i] = o /\ value = argv[i + 1]
                       /\ \A j \in places : argv[j] = o => j <= i

\* The binary is the one text that is not a value.
TheBinary ==
  /\ vals.binary = "" => \A i \in Read : argv[i] \in Text => ValueAt(i)
  /\ vals.binary # "" =>
       \E i \in Read : /\ argv[i] \in Text /\ ~ValueAt(i)
                       /\ \A j \in Read \ {i} : argv[j] \in Text => ValueAt(j)

Understood(i) ==
  /\ argv[i] \in Option => i + 1 \in Read /\ argv[i + 1] \in Text
  /\ argv[i] \in Text /\ ~ValueAt(i) => argv[i] = vals.binary
  /\ argv[i] \in Text \cup Option \cup Flag
  /\ argv[i] \in Flag => argv[i] \in vals.set

ReadInv ==
  /\ argv \in Argv /\ arg \in 1 .. Len(argv) + 1
  /\ ~ValueAt(arg)
  /\ \A i \in Read : Understood(i)
  /\ TheBinary
  /\ Latest(Read, "-m", vals.mem, DefaultMem) /\ Latest(Read, "-f", vals.flash, "")
  /\ \A f \in vals.set : f \in Flag /\ \E i \in Read : argv[i] = f

\* Where main is, by what has been read.
Outcome ==
  /\ stage \in {"parse", "help", "version", "usage"}
            \cup {"create", "error", "attach", "run"}
  /\ stage # "parse" => arg > Len(argv) \/ Rejected
  /\ stage = "help" => "-h" \in vals.set
  /\ stage = "version" => "-v" \in vals.set /\ "-h" \notin vals.set
  /\ stage = "usage" => Rejected
  /\ stage \in {"create", "error", "attach", "run"} =>
       arg > Len(argv) /\ ~Rejected /\ {"-h", "-v"} \cap vals.set = {}
  /\ stage \in {"attach", "run"} =>
       mem_size \in GetMemSize(vals.mem) /\ MemSizeAllowed(mem_size) /\ Usable
  /\ stage = "error" =>
       \/ GetMemSize(vals.mem) = {} \/ ~Usable
       \/ \E n \in GetMemSize(vals.mem) : ~MemSizeAllowed(n)

LEMMA ReadTypes ==
  ASSUME ReadInv
  PROVE  /\ Len(argv) \in Nat /\ arg \in Nat /\ arg >= 1
         /\ DOMAIN argv = 1 .. Len(argv) /\ arg <= Len(argv) + 1
         /\ \A i \in Read : i \in Int /\ i < arg
<1>1. Len(argv) \in Nat /\ DOMAIN argv = 1 .. Len(argv)
  BY ArgvAssumption DEF ReadInv
<1>2. arg \in 1 .. Len(argv) + 1
  BY DEF ReadInv
<1>3. arg \in Nat /\ arg >= 1 /\ arg <= Len(argv) + 1
  BY <1>1, <1>2
<1>4. \A i \in Read : i \in Int /\ i < arg
  BY <1>3 DEF Read
<1> QED BY <1>1, <1>3, <1>4

\* The places once n more arguments have been read.
LEMMA ReadMore ==
  ASSUME ReadInv, NEW n \in {1, 2}, arg' = arg + n
  PROVE  Read' = Read \cup {arg, arg + n - 1} /\ arg \notin Read
         /\ arg + 1 \notin Read
<1>1. arg \in Nat /\ arg >= 1
  BY ReadTypes
<1>2. Read = 1 .. arg - 1 /\ Read' = 1 .. arg + n - 1
  BY <1>1 DEF Read
<1> QED BY <1>1, <1>2

LEMMA ReadAll ==
  ASSUME ReadInv, arg > Len(argv) PROVE Read = DOMAIN argv
<1>1. /\ Len(argv) \in Nat /\ arg \in Nat /\ arg <= Len(argv) + 1
      /\ DOMAIN argv = 1 .. Len(argv)
  BY ReadTypes
<1>2. arg - 1 = Len(argv)
  BY <1>1
<1> QED BY <1>1, <1>2 DEF Read

LEMMA ReadStarts == Init => ReadInv /\ Outcome
<1> SUFFICES ASSUME Init PROVE ReadInv /\ Outcome
  OBVIOUS
<1>1. argv \in Argv /\ arg = 1 /\ stage = "parse"
      /\ vals.binary = "" /\ vals.mem = DefaultMem /\ vals.flash = ""
      /\ vals.set = {}
  BY ArgvAssumption DEF Init
<1>2. Read = {} /\ arg \in 1 .. Len(argv) + 1 /\ ~ValueAt(arg)
  <2>0. Len(argv) \in Nat
    BY <1>1, ArgvAssumption
  <2>1. arg = 1
    BY <1>1
  <2>2. arg \in 1 .. Len(argv) + 1
    BY <2>0, <2>1
  <2>3. ~ValueAt(arg)
    BY <2>1 DEF ValueAt
  <2>4. Read = {}
    BY <2>1 DEF Read
  <2> QED BY <2>2, <2>3, <2>4
<1>3. TheBinary /\ Latest(Read, "-m", vals.mem, DefaultMem)
      /\ Latest(Read, "-f", vals.flash, "")
  BY <1>1, <1>2 DEF TheBinary, Latest
<1>4. Outcome
  BY <1>1 DEF Outcome
<1> QED BY <1>1, <1>2, <1>3, <1>4 DEF ReadInv

\* An option that is read again has the value it was given last.
LEMMA LatestGiven ==
  ASSUME ReadInv, NEW o, argv[arg] = o, argv[arg + 1] # o, NEW d
  PROVE  Latest(Read \cup {arg, arg + 1}, o, argv[arg + 1], d)
<1>1. arg \in Int /\ \A i \in Read : i \in Int /\ i < arg
  BY ReadTypes
<1> QED BY <1>1 DEF Latest

\* Other arguments leave its value alone.
LEMMA LatestOther ==
  ASSUME NEW more, NEW o, \A i \in more : argv[i] # o, NEW v, NEW d,
         Latest(Read, o, v, d)
  PROVE  Latest(Read \cup more, o, v, d)
BY DEF Latest

LEMMA ReadFlag ==
  ASSUME BootInv, ReadInv, ParseFlag
  PROVE  ReadInv'
<1>1. /\ argv' = argv /\ arg' = arg + 1 /\ arg <= Len(argv)
      /\ argv[arg] \in Flag /\ vals' = [vals EXCEPT !.set = @ \cup {argv[arg]}]
      /\ argv \in Argv /\ arg \in 1 .. Len(argv) + 1 /\ Len(argv) \in Nat
  BY ReadTypes DEF ParseFlag, Parsing, Onward, ReadInv
<1>2. /\ vals'.set = vals.set \cup {argv[arg]} /\ vals'.binary = vals.binary
      /\ vals'.mem = vals.mem /\ vals'.flash = vals.flash
  BY <1>1 DEF BootInv, ValuesOK
<1>3. Read' = Read \cup {arg} /\ arg \notin Read
  <2>1. Read' = Read \cup {arg, arg + 1 - 1} /\ arg \notin Read
    BY <1>1, ReadMore
  <2> QED BY <1>1, <2>1
<1>4. argv[arg] \notin Option /\ argv[arg] \notin Text
      /\ argv[arg] # "-m" /\ argv[arg] # "-f"
  BY <1>1, ArgvAssumption DEF Flag, Option
<1>5. \A i : ValueAt(i)' = ValueAt(i)
  BY <1>1 DEF ValueAt
<1>6. ~ValueAt(arg)' /\ arg' \in 1 .. Len(argv) + 1
  <2>1. arg + 1 - 1 = arg /\ arg + 1 \in 1 .. Len(argv) + 1
    BY <1>1
  <2> QED BY <1>1, <1>4, <2>1 DEF ValueAt
<1>7. ASSUME NEW i \in Read' PROVE Understood(i)'
  <2>1. i \in Read => Understood(i)
    BY DEF ReadInv
  <2> QED BY <1>1, <1>2, <1>3, <1>4, <1>5, <2>1 DEF Understood
<1>8. TheBinary'
  BY <1>1, <1>2, <1>3, <1>4, <1>5 DEF ReadInv, TheBinary
<1>9. /\ Latest(Read, "-m", vals.mem, DefaultMem)'
      /\ Latest(Read, "-f", vals.flash, "")'
  <2>1. /\ Latest(Read', "-m", vals.mem, DefaultMem)
        /\ Latest(Read', "-f", vals.flash, "")
    BY <1>3, <1>4, LatestOther DEF ReadInv
  <2> QED BY <1>1, <1>2, <2>1 DEF Latest
<1>10. \A f \in vals'.set : f \in Flag /\ \E i \in Read' : argv'[i] = f
  BY <1>1, <1>2, <1>3 DEF ReadInv
<1> QED BY <1>1, <1>6, <1>7, <1>8, <1>9, <1>10 DEF ReadInv

LEMMA ReadArgument ==
  ASSUME BootInv, ReadInv, ParseArgument
  PROVE  ReadInv'
<1>1. /\ argv' = argv /\ arg' = arg + 1 /\ arg <= Len(argv)
      /\ argv[arg] \in Text /\ vals' = [vals EXCEPT !.binary = argv[arg]]
      /\ argv \in Argv /\ arg \in 1 .. Len(argv) + 1 /\ Len(argv) \in Nat
      /\ vals.binary = "" /\ ~ValueAt(arg)
  BY ReadTypes DEF ParseArgument, Parsing, Onward, ReadInv, Full
<1>2. /\ vals'.set = vals.set /\ vals'.binary = argv[arg]
      /\ vals'.mem = vals.mem /\ vals'.flash = vals.flash
  BY <1>1 DEF BootInv, ValuesOK
<1>at. arg \in Nat /\ arg >= 1 /\ Len(argv) \in Nat /\ arg <= Len(argv)
  <2>1. arg <= Len(argv)
    BY <1>1
  <2> QED BY <2>1, ReadTypes
<1>3. Read' = Read \cup {arg} /\ arg \notin Read
  <2>1. Read' = Read \cup {arg, arg + 1 - 1} /\ arg \notin Read
    BY <1>1, ReadMore
  <2>2. arg + 1 - 1 = arg
    BY <1>at
  <2> QED BY <2>1, <2>2
<1>4. argv[arg] \notin Option /\ argv[arg] \notin Flag /\ argv[arg] # ""
      /\ argv[arg] # "-m" /\ argv[arg] # "-f"
  BY <1>1, ArgvAssumption DEF Flag, Option
<1>5. \A i : ValueAt(i)' = ValueAt(i)
  BY <1>1 DEF ValueAt
<1>6. ~ValueAt(arg)' /\ arg' \in 1 .. Len(argv) + 1
  <2>1. arg + 1 - 1 = arg /\ arg + 1 \in 1 .. Len(argv) + 1
    BY <1>at
  <2>2. arg' = arg + 1 /\ argv' = argv
    BY <1>1
  <2>3. argv'[arg' - 1] = argv[arg] /\ arg' \in 1 .. Len(argv) + 1
    <3>1. arg' - 1 = arg
      BY <1>at, <2>2
    <3>2. argv'[arg' - 1] = argv'[arg]
      BY <3>1
    <3>3. argv'[arg] = argv[arg]
      BY <2>2
    <3>4. arg' \in 1 .. Len(argv) + 1
      BY <1>at, <2>2
    <3> QED BY <3>2, <3>3, <3>4
  <2>4. argv'[arg' - 1] \notin Option
    BY <1>4, <2>3
  <2> QED BY <2>2, <2>3, <2>4 DEF ValueAt
<1>7. \A i \in Read : argv[i] \in Text => ValueAt(i)
  BY <1>1 DEF ReadInv, TheBinary
<1>8. ASSUME NEW i \in Read' PROVE Understood(i)'
  <2>1. i \in Read => Understood(i)
    BY DEF ReadInv
  <2> QED BY <1>1, <1>2, <1>3, <1>4, <1>5, <1>7, <2>1 DEF Understood
<1>9. TheBinary'
  BY <1>1, <1>2, <1>3, <1>4, <1>5, <1>7 DEF TheBinary
<1>10. /\ Latest(Read, "-m", vals.mem, DefaultMem)'
       /\ Latest(Read, "-f", vals.flash, "")'
  <2>1. /\ Latest(Read', "-m", vals.mem, DefaultMem)
        /\ Latest(Read', "-f", vals.flash, "")
    BY <1>3, <1>4, LatestOther DEF ReadInv
  <2> QED BY <1>1, <1>2, <2>1 DEF Latest
<1>11. \A f \in vals'.set : f \in Flag /\ \E i \in Read' : argv'[i] = f
  BY <1>1, <1>2, <1>3 DEF ReadInv
<1> QED BY <1>1, <1>6, <1>8, <1>9, <1>10, <1>11 DEF ReadInv

LEMMA ReadOption ==
  ASSUME BootInv, ReadInv, ParseOption
  PROVE  ReadInv'
<1>1. /\ argv' = argv /\ arg' = arg + 2 /\ arg + 1 <= Len(argv)
      /\ argv[arg] \in Option /\ argv[arg + 1] \in Text
      /\ vals' = IF argv[arg] = "-m" THEN [vals EXCEPT !.mem = argv[arg + 1]]
                 ELSE [vals EXCEPT !.flash = argv[arg + 1]]
      /\ argv \in Argv /\ arg \in 1 .. Len(argv) + 1 /\ Len(argv) \in Nat
      /\ ~ValueAt(arg)
  BY ReadTypes DEF ParseOption, Parsing, IsValue, Onward, ReadInv
<1>2. /\ vals'.set = vals.set /\ vals'.binary = vals.binary
      /\ argv[arg] = "-m" => vals'.mem = argv[arg + 1] /\ vals'.flash = vals.flash
      /\ argv[arg] # "-m" => vals'.flash = argv[arg + 1] /\ vals'.mem = vals.mem
  BY <1>1 DEF BootInv, ValuesOK
<1>3. Read' = Read \cup {arg, arg + 1} /\ arg \notin Read /\ arg + 1 \notin Read
      /\ arg + 1 # arg
  <2>1. Read' = Read \cup {arg, arg + 2 - 1} /\ arg \notin Read
        /\ arg + 1 \notin Read
    BY <1>1, ReadMore
  <2> QED BY <1>1, <2>1
<1>4. /\ argv[arg] \notin Text /\ argv[arg] \notin Flag
      /\ argv[arg + 1] \notin Option /\ argv[arg + 1] \notin Flag
      /\ argv[arg + 1] # "-m" /\ argv[arg + 1] # "-f"
      /\ argv[arg] # "-m" => argv[arg] = "-f"
  BY <1>1, ArgvAssumption DEF Flag, Option
<1>5. \A i : ValueAt(i)' = ValueAt(i)
  BY <1>1 DEF ValueAt
<1>6. ~ValueAt(arg)' /\ arg' \in 1 .. Len(argv) + 1 /\ ValueAt(arg + 1)
  <2>1. arg + 1 > 1 /\ arg + 1 - 1 = arg /\ arg + 2 - 1 = arg + 1
        /\ arg + 2 \in 1 .. Len(argv) + 1
    BY <1>1
  <2> QED BY <1>1, <1>4, <2>1 DEF ValueAt
<1>7. ASSUME NEW i \in Read' PROVE Understood(i)'
  <2>1. i \in Read => Understood(i)
    BY DEF ReadInv
  <2> QED BY <1>1, <1>2, <1>3, <1>4, <1>5, <1>6, <2>1 DEF Understood
<1>8. TheBinary'
  <2>1. argv'[arg] = argv[arg] /\ argv'[arg + 1] = argv[arg + 1]
        /\ vals'.binary = vals.binary
    BY <1>1, <1>2
  <2>2. CASE vals.binary = ""
    <3>1. \A i \in Read : argv[i] \in Text => ValueAt(i)
      BY <2>2 DEF ReadInv, TheBinary
    <3>2. \A i \in Read' : argv[i] \in Text => ValueAt(i)
      BY <1>3, <1>4, <1>6, <3>1
    <3> QED BY <1>1, <1>5, <2>1, <2>2, <3>2 DEF TheBinary
  <2>3. CASE vals.binary # ""
    <3>1. PICK i \in Read :
            /\ argv[i] \in Text /\ ~ValueAt(i)
            /\ \A j \in Read \ {i} : argv[j] \in Text => ValueAt(j)
      BY <2>3 DEF ReadInv, TheBinary
    <3>2. /\ i \in Read'
          /\ \A j \in Read' \ {i} : argv[j] \in Text => ValueAt(j)
      BY <1>3, <1>4, <1>6, <3>1
    <3> QED BY <1>1, <1>5, <2>1, <2>3, <3>1, <3>2 DEF TheBinary
  <2> QED BY <2>2, <2>3
<1>9. /\ Latest(Read, "-m", vals.mem, DefaultMem)'
      /\ Latest(Read, "-f", vals.flash, "")'
  <2>1. Latest(Read, "-m", vals.mem, DefaultMem) /\ Latest(Read, "-f", vals.flash, "")
    BY DEF ReadInv
  <2>2. CASE argv[arg] = "-m"
    <3>1. /\ Latest(Read', "-m", argv[arg + 1], DefaultMem)
          /\ Latest(Read', "-f", vals.flash, "")
      BY <1>3, <1>4, <2>1, <2>2, LatestGiven, LatestOther
    <3> QED BY <1>1, <1>2, <2>2, <3>1 DEF Latest
  <2>3. CASE argv[arg] # "-m"
    <3>1. /\ Latest(Read', "-f", argv[arg + 1], "")
          /\ Latest(Read', "-m", vals.mem, DefaultMem)
      BY <1>3, <1>4, <2>1, <2>3, LatestGiven, LatestOther
    <3> QED BY <1>1, <1>2, <2>3, <3>1 DEF Latest
  <2> QED BY <2>2, <2>3
<1>10. \A f \in vals'.set : f \in Flag /\ \E i \in Read' : argv'[i] = f
  BY <1>1, <1>2, <1>3 DEF ReadInv
<1> QED BY <1>1, <1>6, <1>7, <1>8, <1>9, <1>10 DEF ReadInv

LEMMA ReadKeeps ==
  BootInv /\ ReadInv /\ Outcome /\ [Next]_vars => ReadInv' /\ Outcome'
<1> SUFFICES ASSUME BootInv, ReadInv, Outcome, [Next]_vars
             PROVE  ReadInv' /\ Outcome'
  OBVIOUS
<1>1. ASSUME UNCHANGED <<argv, arg, vals>>
      PROVE  ReadInv' /\ Rejected' = Rejected /\ Usable' = Usable
  <2>1. ReadInv'
    BY <1>1 DEF ReadInv, Read, ValueAt, Understood, TheBinary, Latest
  <2>2. Rejected' = Rejected
    BY <1>1, Zenon DEF Rejected, IsValue, Full
  <2>3. Usable' = Usable
    BY <1>1, Zenon DEF Usable
  <2> QED BY <2>1, <2>2, <2>3
<1>2. CASE ParseFlag \/ ParseOption \/ ParseArgument
  <2>1. stage' = "parse"
    BY <1>2 DEF ParseFlag, ParseOption, ParseArgument, Parsing, Onward
  <2> QED BY <1>2, <2>1, ReadFlag, ReadOption, ReadArgument DEF Outcome
<1>3. CASE ParseEnd
  <2>1. UNCHANGED <<argv, arg, vals>>
    BY <1>3 DEF ParseEnd, parser
  <2>2. /\ arg > Len(argv) \/ Rejected
        /\ stage' = IF "-h" \in vals.set THEN "help"
                    ELSE IF "-v" \in vals.set THEN "version"
                    ELSE IF Rejected THEN "usage" ELSE "create"
    BY <1>3 DEF ParseEnd
  <2> QED BY <1>1, <2>1, <2>2 DEF Outcome
<1>4. CASE Refuse
  <2>1. UNCHANGED <<argv, arg, vals>> /\ stage = "create" /\ stage' = "error"
    BY <1>4 DEF Refuse, parser
  <2>2. \/ GetMemSize(vals.mem) = {} \/ ~Usable
        \/ \E n \in GetMemSize(vals.mem) : ~MemSizeAllowed(n)
    BY <1>4 DEF Refuse
  <2> QED BY <1>1, <2>1, <2>2 DEF Outcome
<1>5. CASE Create
  <2>1. UNCHANGED <<argv, arg, vals>> /\ stage = "create" /\ stage' = "attach"
    BY <1>5 DEF Create, parser
  <2>2. mem_size' \in GetMemSize(vals.mem) /\ MemSizeAllowed(mem_size') /\ Usable
    BY <1>5 DEF Create
  <2> QED BY <1>1, <2>1, <2>2 DEF Outcome
<1>6. CASE Attach \/ Enter
  <2>1. /\ UNCHANGED <<argv, arg, vals, mem_size>>
        /\ stage = "attach" /\ stage' \in {"attach", "run"}
    BY <1>6 DEF Attach, Enter, parser
  <2> QED BY <1>1, <2>1 DEF Outcome
<1>7. CASE Ended \/ UNCHANGED vars
  <2>1. UNCHANGED <<argv, arg, vals, stage, mem_size>>
    BY <1>7 DEF Ended, vars
  <2> QED BY <1>1, <2>1 DEF Outcome
<1> QED BY <1>2, <1>3, <1>4, <1>5, <1>6, <1>7 DEF Next

LEMMA ReadAlways == BootSpec => [](ReadInv /\ Outcome)
BY ReadStarts, ReadKeeps, BootInvariant, PTL DEF BootSpec

\* The flags that are set are some of the line.
LEMMA FlagsGiven == ReadInv => vals.set \subseteq Given
<1> SUFFICES ASSUME ReadInv, NEW f \in vals.set PROVE f \in Given
  OBVIOUS
<1>1. f \in Flag /\ \E i \in Read : argv[i] = f
  BY DEF ReadInv
<1>2. Read \subseteq DOMAIN argv
  BY ReadTypes DEF Read
<1> QED BY <1>1, <1>2 DEF Given

\* A line that was read to its end is complete.
LEMMA WholeLine ==
  ASSUME ReadInv, arg > Len(argv), ~Rejected
  PROVE  Complete /\ vals.set = Given
<1>1. Read = DOMAIN argv
  BY ReadAll
<1>2. vals.binary # ""
  BY DEF Rejected
<1>3. PICK i \in DOMAIN argv :
        /\ argv[i] \in Text /\ ~ValueAt(i)
        /\ \A j \in DOMAIN argv \ {i} : argv[j] \in Text => ValueAt(j)
  BY <1>1, <1>2 DEF ReadInv, TheBinary
<1>4. Named = {i}
  BY <1>3 DEF Named
<1>5. Complete
  BY <1>1, <1>4 DEF Complete, ReadInv, Understood
<1>6. Given \subseteq vals.set
  BY <1>1 DEF Given, ReadInv, Understood
<1> QED BY <1>5, <1>6, FlagsGiven

\* A line that Parse returns false for is not complete.
LEMMA RejectedLine ==
  ASSUME ReadInv, Rejected PROVE ~Complete
<1> SUFFICES ASSUME Complete PROVE FALSE
  OBVIOUS
<1>0. /\ Len(argv) \in Nat /\ arg \in Nat /\ arg >= 1
      /\ DOMAIN argv = 1 .. Len(argv)
  BY ReadTypes
<1>1. PICK n \in DOMAIN argv : Named = {n}
  BY DEF Complete
<1>2. CASE arg > Len(argv)
  <2>1. vals.binary = "" /\ Read = DOMAIN argv
    BY <1>2, ReadAll DEF Rejected
  <2>2. Named = {}
    BY <2>1 DEF ReadInv, TheBinary, Named
  <2> QED BY <1>1, <2>2
<1>3. CASE ~(arg > Len(argv))
  <2>1. arg \in DOMAIN argv
    BY <1>0, <1>3
  <2>2. argv[arg] \in Text \cup Option \cup Flag
    BY <2>1 DEF Complete
  <2>3. argv[arg] \in Option => IsValue(arg + 1)
    BY <1>0, <2>1 DEF Complete, IsValue
  <2>4. argv[arg] \in Text /\ vals.binary # ""
    BY <1>3, <2>2, <2>3 DEF Rejected, Full
  <2>5. PICK i \in Read : argv[i] \in Text /\ ~ValueAt(i)
    BY <2>4 DEF ReadInv, TheBinary
  <2>6. i \in DOMAIN argv /\ i # arg
    BY <1>0, <1>3, <2>5 DEF Read
  <2>7. arg \in Named /\ i \in Named
    BY <2>1, <2>4, <2>5, <2>6 DEF Named, ReadInv
  <2> QED BY <1>1, <2>6, <2>7
<1> QED BY <1>2, <1>3

\* The value of an option in a line that was read to its end.
LEMMA LastGiven ==
  ASSUME ReadInv, arg > Len(argv), NEW o, NEW v, NEW d, Latest(Read, o, v, d)
  PROVE  v = LastOf(o, d)
<1> DEFINE given == {i \in DOMAIN argv : argv[i] = o}
<1>1. Read = DOMAIN argv /\ \A i \in Read : i \in Int
  BY ReadAll, ReadTypes
<1>2. CASE v = d /\ \A i \in Read : argv[i] # o
  BY <1>1, <1>2 DEF LastOf
<1>3. CASE \E i \in Read : /\ argv[i] = o /\ v = argv[i + 1]
                           /\ \A j \in Read : argv[j] = o => j <= i
  <2>1. PICK i \in given : v = argv[i + 1] /\ \A j \in given : j <= i
    BY <1>1, <1>3
  <2> DEFINE last == CHOOSE k \in given : \A j \in given : j <= k
  <2>2. last \in given /\ \A j \in given : j <= last
    BY <2>1
  <2>3. last = i
    BY <1>1, <2>1, <2>2
  <2>4. 1 + last = i + 1 /\ given # {}
    BY <1>1, <2>1, <2>3
  <2> QED BY <2>1, <2>4 DEF LastOf
<1> QED BY <1>2, <1>3 DEF Latest

----------------------------------------------------------------------------
\* What main keeps has its type: the sizes the bus knows are words, for files
\* of any length (rom.h:24, ram.h:23).
THEOREM BootTypes == BootSpec => []BootTypeOK
<1>1. BootInv => BootTypeOK
  BY DEF BootInv, MemoryOK, BootTypeOK
<1> QED BY <1>1, BootInvariant, PTL

\* No address has two devices, for all sizes and however sums wrap around
\* (bus.cpp:3-19).
THEOREM AddressesHaveOneOwner == BootSpec => []OneOwner
<1>1. BootInv => OneOwner
  <2>1. Word \subseteq Int
    BY WordFacts DEF Word
  <2> QED BY <2>1, Alone DEF OneOwner
<1> QED BY <1>1, BootInvariant, PTL

\* Only an earlier device that is too long takes a device off the map
\* (main.cpp:107-128).
THEOREM AttachedDevicesAnswer == BootSpec => []DevicesAnswer
BY Answer, BootInvariant, PTL

\* Words of RAM end inside it (main.cpp:87, ram.cpp:29-42).
THEOREM RamHoldsWords == BootSpec => []WordsInRam
BY Whole, BootInvariant, PTL

\* main goes on exactly for a complete command line that does not ask for help
\* or version, with the files, the size and the debugger of that line, and
\* starts when they can be used (argparse.cpp:53-83, main.cpp:63-104).
THEOREM CommandLineIsObeyed == BootSpec => []StartsAsAsked
<1>1. ReadInv /\ Outcome => StartsAsAsked
  <2> SUFFICES ASSUME ReadInv, Outcome, stage # "parse"
               PROVE  StartsAsAsked
    BY DEF StartsAsAsked
  <2>1. arg > Len(argv) /\ ~Rejected => Complete /\ vals.set = Given
    BY WholeLine
  <2>2. Rejected => ~Complete /\ vals.set \subseteq Given
    BY RejectedLine, FlagsGiven
  <2>3. arg > Len(argv) \/ Rejected
    BY DEF Outcome
  <2>4. CASE stage = "help"
    <3>1. "-h" \in Given
      BY <2>1, <2>2, <2>3, <2>4 DEF Outcome
    <3> QED BY <2>4, <3>1, Zenon DEF StartsAsAsked
  <2>5. CASE stage = "version"
    <3>1. "-v" \in Given /\ (Complete => "-h" \notin Given)
      BY <2>1, <2>2, <2>3, <2>5 DEF Outcome
    <3> QED BY <2>5, <3>1, Zenon DEF StartsAsAsked
  <2>6. CASE stage = "usage"
    <3>1. ~Complete
      BY <2>2, <2>6 DEF Outcome
    <3> QED BY <2>6, <3>1, Zenon DEF StartsAsAsked
  <2>7. CASE stage \in {"create", "error", "attach", "run"}
    <3>1. /\ arg > Len(argv) /\ ~Rejected
          /\ Complete /\ vals.set = Given /\ {"-h", "-v"} \cap vals.set = {}
      BY <2>1, <2>7 DEF Outcome
    <3>2. \A i \in Named : vals.binary = argv[i]
      BY <3>1, ReadAll DEF ReadInv, Understood, Named
    <3>3. vals.mem = LastOf("-m", DefaultMem) /\ vals.flash = LastOf("-f", "")
      BY <3>1, LastGiven DEF ReadInv
    <3>4. stage \in {"attach", "run"} =>
            /\ mem_size \in GetMemSize(vals.mem)
            /\ MemSizeAllowed(mem_size) /\ Usable
      BY DEF Outcome
    <3>5. stage = "error" =>
            \/ GetMemSize(vals.mem) = {} \/ ~Usable
            \/ \E n \in GetMemSize(vals.mem) : ~MemSizeAllowed(n)
      BY DEF Outcome
    <3>6. "-h" \notin Given /\ "-v" \notin Given
      BY <3>1
    <3>7. stage \notin {"help", "version", "usage"}
      BY <2>7
    <3> QED BY <2>7, <3>1, <3>2, <3>3, <3>4, <3>5, <3>6, <3>7, Zenon
            DEF StartsAsAsked
  <2> QED BY <2>4, <2>5, <2>6, <2>7 DEF Outcome
<1> QED BY <1>1, ReadAlways, PTL

=============================================================================
