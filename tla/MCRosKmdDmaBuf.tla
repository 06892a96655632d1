--------------------------- MODULE MCRosKmdDmaBuf ---------------------------
EXTENDS RosKmdDmaBuf
CONSTANTS a1, a2, p1, p2, d1, d2, g1, o1, o2

MCAllocations == {a1, a2}
MCPlaces == {p1, p2}
MCRenderBuffers == {d1, d2}
MCPagingBuffers == {g1}
MCApertureOffsets == {o1, o2}
Symmetry == Permutations(MCPlaces) \cup Permutations(MCRenderBuffers)
              \cup Permutations(MCApertureOffsets)

Ref(slot, alloc) == [slot |-> slot, alloc |-> alloc]
Tiles(alloc) == <<Ref("tileAlloc", alloc), Ref("tileState", alloc)>>

(* A copy; a frame with clear colors, a self reference and a texture; and  *)
(* what Render refuses: two render targets, no tile memory, too many self  *)
(* references, no header.                                                  *)
Hardware(clears, patches) == [header |-> TRUE, sw |-> FALSE, clears |-> clears, patches |-> patches]
MCCommands ==
  { [header |-> TRUE, sw |-> TRUE, clears |-> FALSE,
     patches |-> <<Ref("default", a1), Ref("default", a2)>>],
    Hardware(TRUE, <<Ref("self", a1), Ref("rt", a1), Ref("default", a2)>> \o Tiles(a1)),
    Hardware(FALSE, <<Ref("self", a1), Ref("rt", a1), Ref("rt", a1)>> \o Tiles(a1)),
    Hardware(FALSE, <<Ref("self", a1), Ref("rt", a1)>>),
    Hardware(FALSE, <<Ref("self", a1), Ref("rt", a1), Ref("self", a1)>> \o Tiles(a1)),
    [header |-> FALSE, sw |-> TRUE, clears |-> FALSE, patches |-> << >>] }
=============================================================================
