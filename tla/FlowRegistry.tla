---------------------------- MODULE FlowRegistry ----------------------------
(***************************************************************************)
(* The flow registry (src/store/flow_registry.cpp): the current generation *)
(* of every registered flow key and a bounded history of the generations   *)
(* that were superseded or retired.                                        *)
(*                                                                         *)
(* derive_flow_id() is taken to be injective, so a key stands for its flow *)
(* id.  Of a FlowRecord only the generation takes part in a decision; the  *)
(* registering session, the activity ticks and the renewal count are left  *)
(* out, so that a renewal changes nothing here.                            *)
(*                                                                         *)
(* `fenced' and `retired' are history variables: the generations some      *)
(* larger one has superseded, and the keys retire_flow() was called for;   *)
(* `covered' is what the two were when the last snapshot was taken.        *)
(***************************************************************************)
EXTENDS Integers, FiniteSets, Sequences, PartialMaps

CONSTANTS Key,
          MaxAcceptable,   \* kMaxAcceptableGeneration
          MaxHistory,      \* kMaxHistoryPerKey
          MaxFlows,        \* max_flows_
          MaxGeneration    \* bound of the model: the largest generation reached

ASSUME FlowBoundsAssumption ==
  /\ MaxAcceptable \in Nat \ {0} /\ MaxGeneration \in Nat /\ MaxAcceptable <= MaxGeneration
ASSUME FlowLimitAssumption == MaxHistory \in Nat \ {0} /\ MaxFlows \in Nat

VARIABLES current,    \* current_: FlowKey -> generation
          history,    \* history_: FlowId -> superseded generations, oldest first
          saved,      \* the flows in the last snapshot taken
          fenced, retired, covered

vars == <<current, history, saved, fenced, retired, covered>>

Generation == 1 .. MaxGeneration

Init == /\ current = EmptyMap
        /\ history = EmptyMap
        /\ saved = EmptyMap
        /\ fenced = {}
        /\ retired = {}
        /\ covered = [fenced |-> {}, retired |-> {}]

-----------------------------------------------------------------------------
(* Helpers. *)

\* The generations history_ holds for a key.
Past(k) ==
  IF k \in DOMAIN history THEN {history[k][i] : i \in DOMAIN history[k]} ELSE {}

\* highest_known, zero for a key never seen.
Known(k) == {0} \cup Past(k) \cup (IF k \in DOMAIN current THEN {current[k]} ELSE {})
HighestKnown(k) == CHOOSE n \in Known(k) : \A m \in Known(k) : m <= n

\* The generation a request stands for: zero means "next".
Resolved(k, requested) == IF requested = 0 THEN HighestKnown(k) + 1 ELSE requested

\* history_[id].push_back(), then erase from the front down to the bound.
Pushed(k, g) ==
  LET h == IF k \in DOMAIN history THEN Append(history[k], g) ELSE <<g>>
  IN  Put(history, k, IF Len(h) > MaxHistory THEN Tail(h) ELSE h)

-----------------------------------------------------------------------------
(* Operations.  A refused call changes nothing and is not a step. *)

\* What register_flow() refuses before it looks at the key.
Acceptable(k, requested) ==
  /\ requested <= MaxAcceptable
  /\ Resolved(k, requested) <= MaxGeneration       \* bound of the model

\* register_flow() for the generation the key is at: an idempotent repeat.
RegisterRepeat(k, requested) ==
  /\ Acceptable(k, requested)
  /\ k \in DOMAIN current
  /\ Resolved(k, requested) = current[k]
  /\ UNCHANGED vars

\* Faulty variant: any other generation replaces the current one.
RegisterAdvanceAny(k, requested) ==
  /\ Acceptable(k, requested)
  /\ k \in DOMAIN current
  /\ Resolved(k, requested) # current[k]
  /\ history' = Pushed(k, current[k])
  /\ current' = [current EXCEPT ![k] = Resolved(k, requested)]
  /\ fenced' = fenced \cup {<<k, current[k]>>}
  /\ UNCHANGED <<saved, retired, covered>>

\* register_flow() with a strictly larger generation: the previous is fenced.
RegisterAdvance(k, requested) ==
  /\ Acceptable(k, requested)
  /\ k \in DOMAIN current
  /\ Resolved(k, requested) > current[k]
  /\ history' = Pushed(k, current[k])
  /\ current' = [current EXCEPT ![k] = Resolved(k, requested)]
  /\ fenced' = fenced \cup {<<k, current[k]>>}
  /\ UNCHANGED <<saved, retired, covered>>

\* Faulty variants: generation zero is registered as it stands; the bound on the
\* number of flows admits one more.
RegisterNewZero(k, requested) ==
  /\ k \notin DOMAIN current
  /\ requested \notin Past(k)
  /\ Cardinality(DOMAIN current) < MaxFlows
  /\ current' = Put(current, k, requested)
  /\ UNCHANGED <<history, saved, fenced, retired, covered>>
RegisterNewOneMore(k, requested) ==
  /\ Acceptable(k, requested)
  /\ k \notin DOMAIN current
  /\ Resolved(k, requested) \notin Past(k)
  /\ Cardinality(DOMAIN current) <= MaxFlows
  /\ current' = Put(current, k, Resolved(k, requested))
  /\ UNCHANGED <<history, saved, fenced, retired, covered>>

\* register_flow() for a key with no current incarnation: refused only for a
\* generation the history still holds.
RegisterNew(k, requested) ==
  /\ Acceptable(k, requested)
  /\ k \notin DOMAIN current
  /\ Resolved(k, requested) \notin Past(k)
  /\ Cardinality(DOMAIN current) < MaxFlows
  /\ current' = Put(current, k, Resolved(k, requested))
  /\ UNCHANGED <<history, saved, fenced, retired, covered>>

\* retire_flow() for the current incarnation.
RetireFlow(k) ==
  /\ k \in DOMAIN current
  /\ history' = Pushed(k, current[k])
  /\ current' = Drop(current, {k})
  /\ retired' = retired \cup {k}
  /\ UNCHANGED <<saved, fenced, covered>>

\* snapshot_flows(): only current incarnations are saved, no history.
SnapshotFlows ==
  /\ saved' = current
  /\ covered' = [fenced |-> fenced, retired |-> retired]
  /\ UNCHANGED <<current, history, fenced, retired>>

\* Faulty variant: a restored record always replaces the current one.
RestoreFlowReplaces(k, g) ==
  /\ k \in DOMAIN current \/ Cardinality(DOMAIN current) < MaxFlows
  /\ current' = Put(current, k, g)
  /\ UNCHANGED <<history, saved, fenced, retired, covered>>

\* restore_flow(): an older record goes to the history, any other becomes current
\* (an overwritten smaller generation does not go to the history).
RestoreFlow(k, g) ==
  /\ IF k \in DOMAIN current /\ current[k] > g
     THEN /\ history' = Pushed(k, g)
          /\ fenced' = fenced \cup {<<k, g>>}
          /\ UNCHANGED current
     ELSE /\ k \in DOMAIN current \/ Cardinality(DOMAIN current) < MaxFlows
          /\ current' = Put(current, k, g)
          /\ fenced' = IF k \in DOMAIN current /\ current[k] # g
                       THEN fenced \cup {<<k, current[k]>>} ELSE fenced
          /\ UNCHANGED history
  /\ UNCHANGED <<saved, retired, covered>>

\* A restart: Classifier::restore() hands the flows of the snapshot to restore_flow()
\* one by one, into a registry that is still empty.  What was fenced or retired after
\* the snapshot is not known to it; what was before has to stay so.
Restart ==
  /\ current' = saved
  /\ history' = EmptyMap
  /\ fenced' = covered.fenced
  /\ retired' = covered.retired
  /\ UNCHANGED <<saved, covered>>

Next ==
  \/ \E k \in Key :
       \/ \E requested \in 0 .. MaxGeneration :
            \/ RegisterRepeat(k, requested)
            \/ RegisterAdvance(k, requested)
            \/ RegisterNew(k, requested)
       \/ RetireFlow(k)
       \/ k \in DOMAIN saved /\ RestoreFlow(k, saved[k])
  \/ SnapshotFlows
  \/ Restart

Spec == Init /\ [][Next]_vars

-----------------------------------------------------------------------------
(* Properties. *)

\* Generation zero is never an incarnation; histories hold incarnations.
TypeOK == /\ IsMap(current, Key, Generation)
          /\ IsMap(history, Key, Seq(Generation))
          /\ IsMap(saved, Key, Generation)
          /\ fenced \subseteq Key \X Generation
          /\ retired \subseteq Key
          /\ covered \in [fenced : SUBSET (Key \X Generation), retired : SUBSET Key]

\* A fenced generation stays fenced: register_flow() and restore_flow(), in any
\* order and with the history bound dropping entries, never make a superseded
\* generation current again unless the key was retired in between.  A restart, which
\* saves no history, keeps every fence the snapshot was taken after.
FencedStaysFenced ==
  \A f \in fenced :
    (f[1] \notin retired /\ f[1] \in DOMAIN current) => f[2] < current[f[1]]

\* The history of a key that was never retired lies below its current
\* generation, so that "next" is the generation after the current one.
HistoryBelowCurrent ==
  \A k \in DOMAIN current \ retired : \A g \in Past(k) : g < current[k]

\* The configured bounds hold, and a restore respects them.
LimitsHold == /\ Cardinality(DOMAIN current) <= MaxFlows
              /\ \A k \in DOMAIN history : Len(history[k]) \in 1 .. MaxHistory

\* "A retired or fenced generation may not be resurrected" and dropping the oldest
\* history can turn a refusal "never into an acceptance" (flow_registry.cpp).  It
\* fails for a key that is retired after its history has dropped an entry.
\* A statement of the repository that the code does not keep (README, section 4).
NeverResurrected ==
  \A f \in fenced : f[1] \in DOMAIN current => f[2] # current[f[1]]

\* "The same key with the same generation is an idempotent repeat"
\* (flow_registry.hpp).  It fails at the ceiling: "next" passes it, and the
\* generation it made is then refused when named.
\* A statement of the repository that the code does not keep (README, section 4).
CurrentCanBeRepeated ==
  \A k \in DOMAIN current : Acceptable(k, current[k])

=============================================================================
