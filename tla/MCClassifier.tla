---------------------------- MODULE MCClassifier ----------------------------
EXTENDS Classifier, TLC

\* Contracts have negative identities: evidence derived from them sorts first.
OneContract == {-1}
TwoContracts == {-2, -1}

OneBody == {[class |-> c, scope |-> Flow] : c \in Class}

Strict == [allow_heuristic |-> FALSE, penalty |-> 2000, minimum |-> 1000,
           max_considered |-> 32, window |-> 1]
Demanding == [Strict EXCEPT !.minimum = 8500]
OnePolicy == {Strict}
TwoPolicies == {Strict, Demanding}

\* Identities that do not follow the order of boots and generations: 7, 1, 8, 2, ...
ScatteredIds ==
  [x \in Publisher \X (1 .. MaxBoot) \X (1 .. MaxEvidenceGeneration) |->
     (7 * (((x[1] - 1) * MaxBoot + x[2] - 1) * MaxEvidenceGeneration + x[3])) % 13]

Symmetry == Permutations(Session) \cup Permutations(Class)

=============================================================================
