--------------------------- MODULE MCFlowRegistry ---------------------------
(* Model-checking instance of FlowRegistry. *)
EXTENDS FlowRegistry, TLC

Symmetry == Permutations(Key)

=============================================================================
