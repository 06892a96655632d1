----------------------- MODULE MCRosUmdCommandBuffer -----------------------
(* Constant values for TLC: two swap chain buffers, one dynamic resource   *)
(* and the dummy buffer, with one spare allocation to discard into.  An    *)
(* allocation bears the name of the resource that has it first, so that    *)
(* exchanging the swap chain buffers exchanges their allocations too.      *)
EXTENDS RosUmdCommandBuffer, TLC

CONSTANTS dummy, t1, t2, d1, spare

MCResources == {dummy, t1, t2, d1}
MCSwapChain == {t1, t2}
MCDynamic == {d1}
MCAllocations == MCResources \cup {spare}
MCFirstAllocation == [r \in MCResources |-> r]
MCStateSizes == {2, 3}

MCSymmetry == Permutations(MCSwapChain)
==============================================================================
