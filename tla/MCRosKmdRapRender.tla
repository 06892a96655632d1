------------------------- MODULE MCRosKmdRapRender -------------------------
(***************************************************************************)
(* RosKmdRapRender with two buffers that run on the GPU and one that the   *)
(* processor copies.  A paging buffer takes the same path as the latter.   *)
(***************************************************************************)
EXTENDS RosKmdRapRender

CONSTANTS h1, h2, s1

MCBuffers == {h1, h2, s1}
MCPaging == {}
MCSw == {s1}
=============================================================================
