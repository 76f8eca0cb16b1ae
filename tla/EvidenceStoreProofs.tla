------------------------ MODULE EvidenceStoreProofs ------------------------
(* Proofs about EvidenceStore for every set of ids and flows and every limit:
   what a stored record's state may do.  Only by_id_ takes part. *)
EXTENDS EvidenceStore, TLAPS

\* The inductive invariant: the shape of by_id_, and that CURRENT is of this epoch.
IInv ==
  /\ store = [by_id |-> store.by_id, by_flow |-> store.by_flow, order |-> store.order]
  /\ IsMap(store.by_id, Evidence, EvidenceRecord)
  /\ epoch \in 1 .. MaxEpoch /\ seq \in 0 .. MaxSeq
  /\ CurrentIsOfThisEpoch

\* What a step does to by_id_: the stored records stay what they were but for
\* their state, which is left for CURRENT by no one; new records are of this epoch.
Moves(old, new, e) ==
  /\ IsMap(new, Evidence, EvidenceRecord)
  /\ \A id \in DOMAIN old \cap DOMAIN new :
       /\ new[id].state = "CURRENT" => old[id].state = "CURRENT"
       /\ new[id] = [old[id] EXCEPT !.state = new[id].state]
  /\ \A id \in DOMAIN new :
       new[id].state = "CURRENT" => new[id].accepted_epoch = e

\* Such a step keeps the invariant and the action property.
LEMMA MovesKeep ==
  ASSUME IInv, Moves(store.by_id, store'.by_id, epoch'),
         store' = [by_id |-> store'.by_id, by_flow |-> store'.by_flow, order |-> store'.order],
         epoch' \in 1 .. MaxEpoch, seq' \in 0 .. MaxSeq
  PROVE  IInv' /\ KeepsAcceptance
BY DEF IInv, Moves, CurrentIsOfThisEpoch, KeepsAcceptance

\* Nothing moves when by_id_ only loses records.
LEMMA DropMoves ==
  ASSUME IInv, NEW D
  PROVE  Moves(store.by_id, Drop(store.by_id, D), epoch)
BY DEF IInv, Moves, Drop, IsMap, CurrentIsOfThisEpoch, EvidenceRecord

\* Taking CURRENT records to STALE moves them, and covers an advancing epoch when
\* every record of another epoch is taken.
LEMMA StaleInMoves ==
  ASSUME IInv, NEW S, NEW e,
         \A id \in DOMAIN store.by_id \ S : store.by_id[id].state = "CURRENT" =>
                                              store.by_id[id].accepted_epoch = e
  PROVE  Moves(store.by_id, StaleIn(store.by_id, S), e)
<1> DEFINE n == StaleIn(store.by_id, S)
<1>1. DOMAIN n = DOMAIN store.by_id /\ n = [id \in DOMAIN store.by_id |-> n[id]]
  BY DEF StaleIn
<1>2. ASSUME NEW id \in DOMAIN store.by_id
      PROVE  /\ n[id] \in EvidenceRecord
             /\ n[id].state = "CURRENT" => n[id] = store.by_id[id] /\ id \notin S
             /\ n[id] = [store.by_id[id] EXCEPT !.state = n[id].state]
  <2>1. store.by_id[id] \in EvidenceRecord
    BY DEF IInv, IsMap
  <2>2. n[id] = IF id \in S /\ store.by_id[id].state = "CURRENT"
                THEN [store.by_id[id] EXCEPT !.state = "STALE"] ELSE store.by_id[id]
    BY DEF StaleIn
  <2> HIDE DEF n
  <2>3. CASE id \in S /\ store.by_id[id].state = "CURRENT"
    <3>1. n[id].state = "STALE"
      BY <2>1, <2>2, <2>3 DEF EvidenceRecord
    <3> QED
      BY <2>1, <2>2, <2>3, <3>1 DEF EvidenceRecord, EvidenceState
  <2>4. CASE ~ (id \in S /\ store.by_id[id].state = "CURRENT")
    BY <2>1, <2>2, <2>4 DEF EvidenceRecord
  <2> QED
    BY <2>3, <2>4
<1> HIDE DEF n
<1>3. IsMap(n, Evidence, EvidenceRecord)
  BY <1>1, <1>2 DEF IInv, IsMap
<1>4. Moves(store.by_id, n, e)
  BY <1>1, <1>2, <1>3, Zenon DEF Moves
<1> QED
  BY <1>4 DEF n

-----------------------------------------------------------------------------
(* One step per operation. *)

LEMMA InsertKeeps ==
  ASSUME IInv, NEW id \in Evidence, NEW f \in Flow, Insert(id, f)
  PROVE  IInv' /\ KeepsAcceptance
<1> DEFINE s == EvictOldest(store)
           r == [flow |-> f, state |-> "CURRENT", accepted_epoch |-> epoch,
                 accepted_seq |-> seq + 1]
<1>1. /\ id \notin DOMAIN store.by_id /\ seq < MaxSeq /\ seq' = seq + 1 /\ epoch' = epoch
      /\ store' = [by_id |-> Put(s.by_id, id, r), by_flow |-> Ringed(s.by_flow, f, id),
                   order |-> Append(s.order, id)]
  BY DEF Insert
<1>2. PICK D : s.by_id = Drop(store.by_id, D)
  <2>1. store.by_id = Drop(store.by_id, {})
    BY DEF Drop, IInv, IsMap
  <2> QED
    BY <2>1 DEF EvictOldest
<1>3. Moves(store.by_id, s.by_id, epoch)
  BY <1>2, DropMoves
<1>4. r \in EvidenceRecord /\ r.accepted_epoch = epoch
  BY <1>1, EvidenceBoundsAssumption DEF IInv, EvidenceRecord, EvidenceState
<1>5. id \notin DOMAIN s.by_id
  BY <1>1, <1>2 DEF Drop
<1> HIDE DEF s, r
<1>6. store'.by_id = Put(s.by_id, id, r) /\
      store' = [by_id |-> store'.by_id, by_flow |-> store'.by_flow, order |-> store'.order]
  BY <1>1
<1>7. /\ DOMAIN store'.by_id = DOMAIN s.by_id \cup {id}
      /\ store'.by_id[id] = r
      /\ \A x \in DOMAIN s.by_id : store'.by_id[x] = s.by_id[x]
  BY <1>5, <1>6 DEF Put
<1>8. IsMap(store'.by_id, Evidence, EvidenceRecord)
  BY <1>3, <1>4, <1>6 DEF Moves, IsMap, Put
<1>9. Moves(store.by_id, store'.by_id, epoch')
  BY <1>1, <1>3, <1>4, <1>7, <1>8 DEF Moves
<1>10. epoch' \in 1 .. MaxEpoch /\ seq' \in 0 .. MaxSeq
  BY <1>1, EvidenceBoundsAssumption DEF IInv
<1> QED
  BY <1>6, <1>9, <1>10, MovesKeep

LEMMA InsertRefusedKeeps ==
  ASSUME IInv, NEW id \in Evidence, NEW f \in Flow, InsertRefused(id, f)
  PROVE  IInv' /\ KeepsAcceptance
<1>1. /\ seq < MaxSeq /\ seq' = seq + 1 /\ epoch' = epoch /\ store' = EvictOldest(store)
  BY DEF InsertRefused
<1>2. /\ \E D : store'.by_id = Drop(store.by_id, D)
      /\ store' = [by_id |-> store'.by_id, by_flow |-> store'.by_flow, order |-> store'.order]
  <2>1. store.by_id = Drop(store.by_id, {})
    BY DEF Drop, IInv, IsMap
  <2> QED
    BY <1>1, <2>1, Zenon DEF EvictOldest, IInv
<1>3. Moves(store.by_id, store'.by_id, epoch')
  BY <1>1, <1>2, DropMoves
<1>4. epoch' \in 1 .. MaxEpoch /\ seq' \in 0 .. MaxSeq
  BY <1>1, EvidenceBoundsAssumption DEF IInv
<1> QED
  BY <1>2, <1>3, <1>4, MovesKeep

LEMMA SetStateKeeps ==
  ASSUME IInv, NEW id \in Evidence, NEW state \in EvidenceState, SetState(id, state)
  PROVE  IInv' /\ KeepsAcceptance
<1> DEFINE n == [store.by_id EXCEPT ![id].state = state]
<1>1. /\ id \in DOMAIN store.by_id /\ (state = "CURRENT" => store.by_id[id].state = "CURRENT")
      /\ store' = [store EXCEPT !.by_id = n] /\ epoch' = epoch /\ seq' = seq
  BY DEF SetState, IInv
<1>2. /\ store'.by_id = n
      /\ store' = [by_id |-> store'.by_id, by_flow |-> store'.by_flow, order |-> store'.order]
  BY <1>1 DEF IInv
<1>3. \A x \in DOMAIN store.by_id : store.by_id[x] \in EvidenceRecord
  BY DEF IInv, IsMap
<1>4. /\ DOMAIN n = DOMAIN store.by_id /\ n = [x \in DOMAIN n |-> n[x]]
      /\ n[id] = [store.by_id[id] EXCEPT !.state = state]
      /\ \A x \in DOMAIN store.by_id : x # id => n[x] = store.by_id[x]
  BY <1>1 DEF IInv, IsMap
<1> HIDE DEF n
<1>5. n[id] \in EvidenceRecord /\ n[id].state = state
      /\ n[id].accepted_epoch = store.by_id[id].accepted_epoch
  BY <1>1, <1>3, <1>4 DEF EvidenceRecord
<1>6. IsMap(n, Evidence, EvidenceRecord)
  BY <1>3, <1>4, <1>5 DEF IInv, IsMap
<1>7. ASSUME NEW x \in DOMAIN n
      PROVE  /\ n[x].state = "CURRENT" => store.by_id[x].state = "CURRENT"
             /\ n[x] = [store.by_id[x] EXCEPT !.state = n[x].state]
             /\ n[x].state = "CURRENT" => n[x].accepted_epoch = epoch
  <2>1. CASE x = id
    BY <1>1, <1>4, <1>5, <2>1, Zenon DEF IInv, CurrentIsOfThisEpoch
  <2>2. CASE x # id
    BY <1>3, <1>4, <2>2 DEF IInv, CurrentIsOfThisEpoch, EvidenceRecord
  <2> QED
    BY <2>1, <2>2
<1>8. Moves(store.by_id, n, epoch)
  BY <1>4, <1>6, <1>7, Zenon DEF Moves
<1> QED
  BY <1>1, <1>2, <1>8, MovesKeep DEF IInv

\* A step that only takes CURRENT records to STALE.
LEMMA StaleKeeps ==
  ASSUME IInv, NEW S, store'.by_id = StaleIn(store.by_id, S),
         store' = [by_id |-> store'.by_id, by_flow |-> store'.by_flow, order |-> store'.order],
         epoch' \in 1 .. MaxEpoch, seq' \in 0 .. MaxSeq,
         \A id \in DOMAIN store.by_id \ S : store.by_id[id].state = "CURRENT" =>
                                              store.by_id[id].accepted_epoch = epoch'
  PROVE  IInv' /\ KeepsAcceptance
BY StaleInMoves, MovesKeep

\* Every step keeps the invariant and the action property.
LEMMA NextKeeps == IInv /\ [Next]_vars => IInv' /\ [KeepsAcceptance]_vars
<1> SUFFICES ASSUME IInv, [Next]_vars PROVE IInv' /\ [KeepsAcceptance]_vars
  OBVIOUS
<1>1. ASSUME NEW id \in Evidence, NEW f \in Flow, Insert(id, f) \/ InsertRefused(id, f)
      PROVE  IInv' /\ KeepsAcceptance
  BY <1>1, InsertKeeps, InsertRefusedKeeps
<1>2. ASSUME NEW id \in Evidence, NEW state \in EvidenceState, SetState(id, state)
      PROVE  IInv' /\ KeepsAcceptance
  BY <1>2, SetStateKeeps
<1>3. ASSUME NEW S, MarkStaleByPredicate(S) PROVE IInv' /\ KeepsAcceptance
  <2>1. /\ store'.by_id = StaleIn(store.by_id, S) /\ epoch' = epoch /\ seq' = seq
        /\ store' = [by_id |-> store'.by_id, by_flow |-> store'.by_flow, order |-> store'.order]
    BY <1>3 DEF MarkStaleByPredicate, IInv
  <2> QED
    BY <2>1, StaleKeeps DEF IInv, CurrentIsOfThisEpoch
<1>4. CASE MarkEpochStale
  <2> DEFINE S == {id \in DOMAIN store.by_id : store.by_id[id].accepted_epoch # epoch'}
  <2>1. /\ store'.by_id = StaleIn(store.by_id, S) /\ epoch' = epoch + 1 /\ epoch < MaxEpoch
        /\ seq' = seq
        /\ store' = [by_id |-> store'.by_id, by_flow |-> store'.by_flow, order |-> store'.order]
    BY <1>4 DEF MarkEpochStale, IInv
  <2>2. epoch' \in 1 .. MaxEpoch /\ seq' \in 0 .. MaxSeq
    BY <2>1, EvidenceBoundsAssumption DEF IInv
  <2>3. \A id \in DOMAIN store.by_id \ S : store.by_id[id].accepted_epoch = epoch'
    OBVIOUS
  <2> HIDE DEF S
  <2> QED
    BY <2>1, <2>2, <2>3, StaleKeeps
<1>5. CASE Restart
  <2>1. /\ store'.by_id = StaleIn(store.by_id, DOMAIN store.by_id) /\ epoch' = epoch /\ seq' = seq
        /\ store' = [by_id |-> store'.by_id, by_flow |-> store'.by_flow, order |-> store'.order]
    BY <1>5 DEF Restart
  <2> QED
    BY <2>1, StaleKeeps DEF IInv
<1>6. CASE UNCHANGED vars
  BY <1>6 DEF vars, IInv, CurrentIsOfThisEpoch
<1> QED
  BY <1>1, <1>2, <1>3, <1>4, <1>5, <1>6, Zenon DEF Next

LEMMA InitIInv == Init => IInv
<1> SUFFICES ASSUME Init PROVE IInv
  OBVIOUS
<1>1. DOMAIN store.by_id = {} /\ store.by_id = EmptyMap
  BY DEF Init, EmptyMap
<1>2. IsMap(store.by_id, Evidence, EvidenceRecord)
  BY <1>1 DEF IsMap, EmptyMap
<1> QED
  BY <1>1, <1>2, EvidenceBoundsAssumption DEF Init, IInv, CurrentIsOfThisEpoch

\* No record accepted in an earlier epoch is CURRENT, for every store.
THEOREM EpochAuthority == Spec => []CurrentIsOfThisEpoch
<1>1. IInv => CurrentIsOfThisEpoch
  BY DEF IInv
<1> QED
  BY <1>1, InitIInv, NextKeeps, PTL DEF Spec

\* A stored record never returns to CURRENT and is never rewritten.
THEOREM AcceptanceIsKept == Spec => NeverBackToCurrent
BY InitIInv, NextKeeps, PTL DEF Spec, NeverBackToCurrent

=============================================================================
