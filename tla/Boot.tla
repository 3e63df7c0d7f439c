-------------------------------- MODULE Boot --------------------------------
(***************************************************************************)
(* How the emulator starts: main.cpp up to its loop, with the command line *)
(* of util/argparse.cpp, the files of peripheral/storage/rom.cpp and the   *)
(* address map that bus/bus.cpp makes of the devices main attaches.  What  *)
(* the loop then does is in modules Core, Risky32 and Debugger.            *)
(***************************************************************************)
EXTENDS Words, Sequences

CONSTANTS
  Argv,             \* command lines, without the name of the program
  Text,             \* the words that do not begin with '-'
  Number(_),        \* the number std::stoi finds in a text, or NaN
  Unit(_),          \* the letter it ends with: "", "k", "m" or "other"
  FileLength(_),    \* the length of the file it names; -1: it cannot be opened
  Kilo,             \* 1024
  DefaultMem,       \* "64k"
  DeviceSize,       \* the sizes of the devices that store no program
  kMMIOAddr,        \* where main attaches each device
  NaN

\* The devices in the order in which main attaches them.
Order == <<"rom", "ram", "gpio", "clint", "flash", "debugger">>
Device == {Order[k] : k \in 1 .. 6}

Flag == {"-h", "-v", "-d"}
Option == {"-m", "-f"}

\* ReadArgValue refuses an argument that is empty.
ASSUME ArgvAssumption ==
  /\ \A line \in Argv : Len(line) \in Nat /\ DOMAIN line = 1 .. Len(line)
  /\ Text \cap (Flag \cup Option \cup {""}) = {}

ASSUME BootAssumption ==
  /\ kMMIOAddr \in [Device -> Word]
  /\ \A k \in 1 .. 5 : kMMIOAddr[Order[k]] < kMMIOAddr[Order[k + 1]]
  /\ kMMIOAddr["ram"] = TopBit /\ TopBit % 4 = 0
  /\ DeviceSize \in [{"gpio", "clint", "debugger"} -> Nat]
  /\ Kilo \in Nat /\ DefaultMem \in Text
  /\ \A t \in Text : /\ FileLength(t) \in Nat \cup {-1}
                     /\ Number(t) \in Int \cup {NaN}
  /\ NaN \notin Int

VARIABLES
  argv,
  arg,            \* i of ArgParser::Parse
  vals,           \* vals_ of the parser: options that are set, and texts
  stage,          \* what main is at
  mem_size,
  next,           \* the device to attach, a place in Order
  peripherals     \* peripherals_ of the bus

parser == <<argv, arg, vals>>
vars == <<argv, arg, vals, stage, mem_size, next, peripherals>>

\* "" is the text of an option that was not given.
Init ==
  /\ argv \in Argv
  /\ arg = 1
  /\ vals = [set |-> {}, binary |-> "", mem |-> DefaultMem, flash |-> ""]
  /\ stage = "parse"
  /\ mem_size = 0
  /\ next = 1
  /\ peripherals = <<>>

----------------------------------------------------------------------------
(* ArgParser::Parse: one step an argument.                                 *)

\* Whether there is an argument that can be the value of an option.
IsValue(i) == i <= Len(argv) /\ argv[i] \in Text

\* Mutant: the last binary counts.
Full_Never == FALSE

\* Whether the one argument that is not an option has been read: arg_ofs.
Full == vals.binary # ""

Parsing == stage = "parse" /\ arg <= Len(argv)
Onward(n) ==
  /\ arg' = arg + n
  /\ UNCHANGED <<argv, stage, mem_size, next, peripherals>>

ParseFlag ==
  /\ Parsing /\ argv[arg] \in Flag
  /\ vals' = [vals EXCEPT !.set = @ \cup {argv[arg]}]
  /\ Onward(1)

ParseOption ==
  /\ Parsing /\ argv[arg] \in Option /\ IsValue(arg + 1)
  /\ vals' = IF argv[arg] = "-m" THEN [vals EXCEPT !.mem = argv[arg + 1]]
             ELSE [vals EXCEPT !.flash = argv[arg + 1]]
  /\ Onward(2)

ParseArgument ==
  /\ Parsing /\ argv[arg] \in Text /\ ~Full
  /\ vals' = [vals EXCEPT !.binary = argv[arg]]
  /\ Onward(1)

\* Where Parse returns false, in the loop or after it.
Rejected ==
  IF arg > Len(argv) THEN vals.binary = ""
  ELSE \/ argv[arg] \notin Flag \cup Option \cup Text
       \/ argv[arg] \in Option /\ ~IsValue(arg + 1)
       \/ argv[arg] \in Text /\ Full

\* main asks for help and version before it looks at the result of Parse.
ParseEnd ==
  /\ stage = "parse" /\ (arg > Len(argv) \/ Rejected)
  /\ stage' = IF "-h" \in vals.set THEN "help"
              ELSE IF "-v" \in vals.set THEN "version"
              ELSE IF Rejected THEN "usage" ELSE "create"
  /\ UNCHANGED <<parser, mem_size, next, peripherals>>

----------------------------------------------------------------------------
(* main: the checks, the devices, the loop.                                *)

Scale(unit) == CASE unit = "" -> 1 [] unit = "k" -> Kilo
                 [] unit = "m" -> Kilo * Kilo [] unit = "other" -> 0

CppInt == -TopBit .. TopBit - 1

\* The product is an int, and undefined when it is too large for one.  No
\* number: std::stoi throws.
GetMemSize(t) ==
  IF Number(t) \notin CppInt THEN {}
  ELSE LET size == Number(t) * Scale(Unit(t))
       IN  IF size \in CppInt THEN {size} ELSE CppInt

\* Mutant: the test of the last bits is missing.
MemSizeAllowed_Any(n) == n > 0

\* A negative size is a std::size_t for which there is no memory.
MemSizeAllowed(n) == n > 0 /\ n % 4 = 0

Opens(t) == FileLength(t) >= 0

Usable == /\ Opens(vals.binary)
          /\ vals.flash # "" => Opens(vals.flash)

\* A size or a file that cannot be used; no number ends the process as well.
Refuse ==
  /\ stage = "create"
  /\ \/ GetMemSize(vals.mem) = {}
     \/ \E n \in GetMemSize(vals.mem) : ~MemSizeAllowed(n)
     \/ ~Usable
  /\ stage' = "error"
  /\ UNCHANGED <<parser, mem_size, next, peripherals>>

Create ==
  /\ stage = "create" /\ Usable
  /\ mem_size' \in {n \in GetMemSize(vals.mem) : MemSizeAllowed(n)}
  /\ stage' = "attach"
  /\ UNCHANGED <<parser, next, peripherals>>

\* The bytes a device has.
Length(d) ==
  CASE d = "rom" -> FileLength(vals.binary)
    [] d = "ram" -> mem_size
    [] d = "flash" -> IF vals.flash = "" THEN 0 ELSE FileLength(vals.flash)
    [] OTHER -> DeviceSize[d]

\* Mutant: the size has as many bits as the vector needs.
Size_Whole(d) == Length(d)

\* size() of the devices returns a std::uint32_t.
Size(d) == Wrap(Length(d))

\* Mutant: only the start of a new device is not compared.
Overlaps_StartOnly(item, base, size) ==
  item.base >= base /\ item.base < Wrap(base + size)

\* The end of the new device is computed in a word, that of an attached one
\* in 64 bits.
Overlaps(item, base, size) ==
  \/ item.base >= base /\ item.base < Wrap(base + size)
  \/ base >= item.base /\ base < item.base + item.size

AddPeripheral(p, d) ==
  IF \E i \in DOMAIN p : Overlaps(p[i], kMMIOAddr[d], Size(d)) THEN p
  ELSE Append(p, [base |-> kMMIOAddr[d], size |-> Size(d), device |-> d])

\* The devices main attaches; whether the bus takes one is not looked at.
Asked(d) == CASE d = "flash" -> Size(d) # 0
              [] d = "debugger" -> "-d" \in vals.set
              [] OTHER -> TRUE

Attach ==
  /\ stage = "attach" /\ next <= 6
  /\ peripherals' = IF Asked(Order[next])
                    THEN AddPeripheral(peripherals, Order[next])
                    ELSE peripherals
  /\ next' = next + 1
  /\ UNCHANGED <<parser, stage, mem_size>>

Enter ==
  /\ stage = "attach" /\ next > 6
  /\ stage' = "run"
  /\ UNCHANGED <<parser, mem_size, next, peripherals>>

\* The loop of main, and a process that has ended.
Ended ==
  /\ stage \in {"run", "help", "version", "usage", "error"}
  /\ UNCHANGED vars

Next == \/ ParseFlag \/ ParseOption \/ ParseArgument \/ ParseEnd
        \/ Refuse \/ Create \/ Attach \/ Enter \/ Ended

BootSpec == Init /\ [][Next]_vars

----------------------------------------------------------------------------
(* The address map.                                                        *)

\* Mutant: the end of the device is computed in a word.
Claims_Wrapped(item, a) == a >= item.base /\ a < Wrap(item.base + item.size)

Claims(item, a) == a >= item.base /\ a < item.base + item.size

\* The first device that claims an address; "none": the access is dropped.
GetPeripheral(p, a) ==
  LET found == {i \in DOMAIN p : Claims(p[i], a)}
  IN  IF found = {} THEN "none"
      ELSE p[CHOOSE i \in found : \A j \in found : i <= j].device

----------------------------------------------------------------------------
Item == [base : Word, size : Word, device : Device]

BootTypeOK ==
  /\ mem_size \in 0 .. TopBit - 1
  /\ next \in 1 .. 7
  /\ peripherals \in Seq(Item)

\* An address belongs to one device at most, whatever the sizes of the files
\* and of the memory: the answer of Bus::GetPeripheral (bus.cpp:21-41) does
\* not depend on the order of the list.
OneOwner ==
  \A a \in Word : \A i, j \in DOMAIN peripherals :
    Claims(peripherals[i], a) /\ Claims(peripherals[j], a) => i = j

\* A device that main has attached answers at every address of its range
\* (main.cpp:107-128, bus.cpp:3-19) unless an earlier one reaches into its
\* range and answers in its place: nothing else takes a device off the map,
\* and not the sum that is zero in a word at the end of the address space.
DevicesAnswer ==
  \A k \in 1 .. next - 1 :
    LET d == Order[k]
        base == kMMIOAddr[d]
    IN  Asked(d) =>
          \/ \A a \in base .. base + Size(d) - 1 :
               GetPeripheral(peripherals, a) = d
          \/ \E j \in 1 .. k - 1 :
               /\ GetPeripheral(peripherals, base) = Order[j]
               /\ kMMIOAddr[Order[j]] + Length(Order[j]) > base

\* The bytes of a word the bus gives to the RAM are all in its vector
\* (ram.cpp:29-42 index without a test; main.cpp:87 refuses other sizes).
WordsInRam ==
  \A a \in Word :
    a % 4 = 0 /\ GetPeripheral(peripherals, a) = "ram" =>
      a + 3 < kMMIOAddr["ram"] + mem_size

\* The grammar of a command line: an option has a text after it, its value, and
\* one text, the binary, is no value.
ValueAt(i) == i > 1 /\ argv[i - 1] \in Option
Named == {i \in DOMAIN argv : argv[i] \in Text /\ ~ValueAt(i)}
Complete ==
  /\ \A i \in DOMAIN argv :
       /\ argv[i] \in Text \cup Option \cup Flag
       /\ argv[i] \in Option => i + 1 \in DOMAIN argv /\ argv[i + 1] \in Text
  /\ \E i \in DOMAIN argv : Named = {i}

\* The flags in a command line, and the value of an option, the last one given.
Given == {f \in Flag : \E i \in DOMAIN argv : argv[i] = f}
LastOf(o, default) ==
  LET given == {i \in DOMAIN argv : argv[i] = o}
  IN  IF given = {} THEN default
      ELSE argv[1 + CHOOSE i \in given : \A j \in given : j <= i]

\* The command line is obeyed, by one parser and three tests of main
\* (argparse.cpp:53-83, main.cpp:63-104): main goes on to its devices exactly for
\* a complete line without -h and -v, of which -h wins, and one that is not
\* complete ends at most in the help or the version that it asks for.  It goes on
\* with the binary of the line, the last -m, the last -f and, if the line has -d,
\* the debugger; with the number of bytes that -m says if they are whole words
\* and the files can be read, and ends in an error only if that is not so.
StartsAsAsked ==
  stage # "parse" =>
    /\ Complete =>
         stage \in IF "-h" \in Given THEN {"help"}
                  ELSE IF "-v" \in Given THEN {"version"}
                  ELSE {"create", "error", "attach", "run"}
    /\ ~Complete => stage \in {"help", "version", "usage"}
    /\ stage = "help" => "-h" \in Given
    /\ stage = "version" => "-v" \in Given
    /\ stage \in {"create", "error", "attach", "run"} =>
         /\ \A i \in Named : vals.binary = argv[i]
         /\ vals.mem = LastOf("-m", DefaultMem)
         /\ vals.flash = LastOf("-f", "")
         /\ vals.set = Given
    /\ stage \in {"attach", "run"} =>
         mem_size \in GetMemSize(vals.mem) /\ MemSizeAllowed(mem_size) /\ Usable
    /\ stage = "error" =>
         \/ GetMemSize(vals.mem) = {} \/ ~Usable
         \/ \E n \in GetMemSize(vals.mem) : ~MemSizeAllowed(n)

=============================================================================
