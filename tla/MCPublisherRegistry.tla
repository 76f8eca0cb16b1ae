------------------------ MODULE MCPublisherRegistry ------------------------
(* Instances of PublisherRegistry for TLC. *)
EXTENDS PublisherRegistry, TLC

\* Publishers and sessions are interchangeable.
Symmetry == Permutations(Publisher) \cup Permutations(Session)

=============================================================================
