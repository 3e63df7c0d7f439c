-------------------------------- MODULE Hart --------------------------------
(***************************************************************************)
(* What a hart promises whatever drives it: its cycles, and between them   *)
(* the devices.  Core::NextCycle takes both in one step; a driver that     *)
(* puts more between them, such as the debugger, has to implement this.    *)
(***************************************************************************)
EXTENDS Core

Cycle == \E lines \in Lines : NextCycle(mem, lines)

\* The devices change their registers, and mip with them.
Devices ==
  /\ mem' \in Memory
  /\ \A a \in MemAddr \ Volatile : mem'[a] = mem[a]
  /\ csr' = [csr EXCEPT !.mip = csr'.mip]
  /\ UNCHANGED <<pc, regs, mon, latch, event>>

HartSpec == Init /\ [][Cycle \/ Devices]_vars

=============================================================================
