-------------------------- MODULE MCEvidenceStore --------------------------
(* Model-checking instance of EvidenceStore. *)
EXTENDS EvidenceStore, TLC

Symmetry == Permutations(Flow)

=============================================================================
