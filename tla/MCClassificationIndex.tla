------------------------ MODULE MCClassificationIndex ------------------------
EXTENDS ClassificationIndex, TLC

Symmetry == Permutations(Flow) \cup Permutations(Key)

=============================================================================
