------------------------------ MODULE MCMemory ------------------------------
(* GuestMemory with two VMs of three frames on seven pages and, one at a    *)
(* time with it, the allocator HostPages with buckets of two pages.         *)
EXTENDS Memory, TLC

CONSTANTS v1, v2, p1, p2, p3, p4, p5, low, top

MCPlain     == {p1, p2, p3, p4, p5}
MCPfns      == MCPlain \cup {low, top}
MCHigh      == {top}
MCUncovered == {low}
MCSymmetry  == Permutations(MCPlain) \cup Permutations({v1, v2})

MCInit == Init /\ Host!Init
MCNext ==
    \/ Host!Init /\ Next /\ UNCHANGED hostVars
    \/ Init /\ Host!Next /\ UNCHANGED vars
MCSpec == MCInit /\ [][MCNext]_<<vars, hostVars>>
=============================================================================
