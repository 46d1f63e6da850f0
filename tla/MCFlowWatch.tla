---------------------------- MODULE MCFlowWatch ----------------------------
(* Values for checking FlowWatch with TLC. *)
EXTENDS FlowWatch, TLC

Symmetry == Permutations(Zones)
=============================================================================
