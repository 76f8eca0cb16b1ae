---------------------------- MODULE PartialMaps ----------------------------
(***************************************************************************)
(* The keyed containers of the stores (std::unordered_map) as functions    *)
(* whose domain is the set of keys present.                                *)
(***************************************************************************)

\* An empty container.
EmptyMap == [k \in {} |-> k]

\* f is a container with keys in K and values in V.
IsMap(f, K, V) == DOMAIN f \subseteq K /\ f \in [DOMAIN f -> V]

\* f with key k (present or not) bound to v: operator[] or emplace.
Put(f, k, v) == [x \in DOMAIN f \cup {k} |-> IF x = k THEN v ELSE f[x]]

\* f without the keys in D: erase.
Drop(f, D) == [x \in DOMAIN f \ D |-> f[x]]

=============================================================================
