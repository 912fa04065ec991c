------------------------------- MODULE Memory -------------------------------
(***************************************************************************)
(* The frame allocator and the address space over it, the swap             *)
(* configuration, the swap manager and page replacement.  Each is guarded  *)
(* by a lock of its own and, but for the address space, which contains the *)
(* frame allocator, they share no state at this level, so their composite  *)
(* is a sum: `part' is the one that moves in a behaviour, the others stay  *)
(* in an initial state.                                                    *)
(***************************************************************************)
EXTENDS Vmm, SwapConfig, SwapManager, PageSwapper

VARIABLE part

memoryVars == <<part, vars, vmmVars, configVars, managerVars, swapperVars>>

MemoryParts == {"frames", "vmm", "config", "manager", "swapper"}

MemoryStart ==
    /\ Init /\ VmmInit /\ ConfigInit /\ ManagerInit /\ SwapperInit
    /\ part # "config" => configs = << >>
    /\ part # "swapper" => algorithm = CHOOSE a \in Algorithms : TRUE

MemoryInit == part \in MemoryParts /\ MemoryStart

MemoryNext ==
    /\ UNCHANGED part
    /\ \/ /\ part = "frames" /\ Next
          /\ UNCHANGED <<vmmVars, configVars, managerVars, swapperVars>>
       \/ /\ part = "vmm" /\ VmmNext
          /\ UNCHANGED <<configVars, managerVars, swapperVars>>
       \/ /\ part = "config" /\ ConfigNext
          /\ UNCHANGED <<vars, vmmVars, managerVars, swapperVars>>
       \/ /\ part = "manager" /\ ManagerNext
          /\ UNCHANGED <<vars, vmmVars, configVars, swapperVars>>
       \/ /\ part = "swapper" /\ SwapperNext
          /\ UNCHANGED <<vars, vmmVars, configVars, managerVars>>

MemorySpec == MemoryInit /\ [][MemoryNext]_memoryVars
=============================================================================
