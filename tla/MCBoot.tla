------------------------------- MODULE MCBoot -------------------------------
(***************************************************************************)
(* Boot on words of six bits: ROM from 4, RAM from 32, GPIO at 36, CLINT   *)
(* at 40, flash from 52 and the debugger in the last four addresses.  The  *)
(* texts name files that are empty, fit before the next device or reach    *)
(* into it or beyond the end of the address space, and sizes of memory.    *)
(***************************************************************************)
EXTENDS Boot, FiniteSetsExt

MCBitsOf(x) == {b \in Bit : (x \div (2 ^ b)) % 2 = 1}
MCWordOf(S) == SumSet({2 ^ b : b \in S})

MCMMIOAddr == [rom |-> 4, ram |-> 32, gpio |-> 36, clint |-> 40,
               flash |-> 52, debugger |-> 60]
MCDeviceSize == [gpio |-> 2, clint |-> 4, debugger |-> 4]

\* What a text is as the name of a file, and as a size.
Texts ==
  [none  |-> [len |-> -1, n |-> NaN, unit |-> "other"],
   empty |-> [len |-> 0,  n |-> 0,   unit |-> ""],
   small |-> [len |-> 3,  n |-> 4,   unit |-> ""],
   fits  |-> [len |-> 8,  n |-> 1,   unit |-> "k"],
   odd   |-> [len |-> 9,  n |-> 5,   unit |-> ""],
   large |-> [len |-> 30, n |-> 1,   unit |-> "m"],
   over  |-> [len |-> 34, n |-> 7,   unit |-> "k"],
   huge  |-> [len |-> 70, n |-> 2,   unit |-> "m"],
   least |-> [len |-> 64, n |-> -4,  unit |-> ""]]
MCText == DOMAIN Texts
MCFileLength(t) == Texts[t].len
MCNumber(t) == Texts[t].n
MCUnit(t) == Texts[t].unit

\* All short command lines, and the complete ones.
MCArgv ==
  LET args == MCText \cup Flag \cup Option \cup {"-x"}
      files == MCText \ {"none"}
  IN  UNION {[1 .. n -> args] : n \in 0 .. 3}
        \cup {<<b, "-m", m, "-f", f, "-d">> :
                b \in files, m \in MCText, f \in files}

=============================================================================
