------------------------- MODULE MCWorkloadRegistry -------------------------
(* Instances of WorkloadRegistry for TLC. *)
EXTENDS WorkloadRegistry, TLC

\* Publishers, workloads and contracts are interchangeable.
Symmetry == Permutations(Publisher) \cup Permutations(Workload) \cup Permutations(Contract)

=============================================================================
