-------------------------- MODULE MCCosKmdScheduler --------------------------
(* Constant values for TLC: one render and one paging buffer; the .cfg     *)
(* files choose the bounds.                                                *)
EXTENDS CosKmdScheduler

CONSTANTS r1, p1

MCBuffers == {r1, p1}
MCPaging == {p1}
==============================================================================
