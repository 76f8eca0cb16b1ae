------------------------- MODULE PartialMapsProofs -------------------------
(* Facts about the containers of PartialMaps, used by the other proofs. *)
EXTENDS PartialMaps, TLAPS

\* What IsMap means, key by key: the stores' tables hold only
\* known keys and well-formed records.
LEMMA MapElim ==
  ASSUME NEW K, NEW V, NEW f, IsMap(f, K, V)
  PROVE  /\ DOMAIN f \subseteq K
         /\ \A k \in DOMAIN f : f[k] \in V
         /\ f = [k \in DOMAIN f |-> f[k]]
BY DEF IsMap

\* The converse: a function with known keys and well-formed records is a table.
LEMMA MapIntro ==
  ASSUME NEW K, NEW V, NEW D \in SUBSET K, NEW f \in [D -> V]
  PROVE  IsMap(f, K, V)
BY DEF IsMap

\* The empty table is a table.
LEMMA EmptyMapFacts ==
  ASSUME NEW K, NEW V
  PROVE  IsMap(EmptyMap, K, V) /\ DOMAIN EmptyMap = {}
<1>1. EmptyMap \in [{} -> V] /\ {} \in SUBSET K
  BY DEF EmptyMap
<1> QED
  BY <1>1, MapIntro, Zenon DEF EmptyMap

=============================================================================
