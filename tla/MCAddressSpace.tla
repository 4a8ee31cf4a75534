--------------------------- MODULE MCAddressSpace ---------------------------
(***************************************************************************)
(* Two kinds of behaviours: two processes with all of their pages, and     *)
(* three generations of processes that use only the page of their stack.   *)
(* No step depends on which frame it is given.                             *)
(***************************************************************************)
EXTENDS AddressSpace, TLC

VARIABLE scene

Small ==
    IF scene = "pair" THEN \A p \in Procs : p > 2 => state[p] = "none"
    ELSE /\ \A p \in Procs, v \in Pages \ {Stack} : vma[p][v] = NoArea
         /\ \A i \in Slots : block[i] = NoBlock

AllInit == Init /\ scene \in {"pair", "family"}
AllSpec == AllInit /\ [][Next /\ UNCHANGED scene /\ Small']_<<vars, scene>>

FrameSymmetry == Permutations(Frames)
=============================================================================
