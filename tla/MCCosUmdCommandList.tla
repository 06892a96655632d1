------------------------ MODULE MCCosUmdCommandList ------------------------
EXTENDS CosUmdCommandList
CONSTANTS a1, a2

MCAllocations == {a1, a2}
Symmetry == Permutations(MCAllocations)

(* A view, constants and a table of two classes; a table and a view whose  *)
(* registers are not in order.  The filter is true of both; testing it, TLC *)
(* normalizes the records in them before its workers share them.           *)
MCSignatures ==
  {sig \in
     { <<View("uav", 0), Constants(1, 2),
         Table(<<DescriptorRange("srv", 0, 1, 1), DescriptorRange("uav", 1, 2, 0)>>)>>,
       <<Table(<<DescriptorRange("cbv", 1, 1, 0)>>), View("srv", 1)>> } :
     sig \in Seq(RootParameters)}

(* A shader that fits beside its root arguments, and one that never does.  *)
MCShaderSizes == {2, 60}

(* Two tensors, or the second one only. *)
MCTensorBindings == {<<1, 0>>, <<-1, 1>>}
=============================================================================
