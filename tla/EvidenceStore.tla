--------------------------- MODULE EvidenceStore ---------------------------
(***************************************************************************)
(* The evidence store (src/store/evidence_store.cpp): records by id, a     *)
(* bounded ring of ids per flow that classification reads through, and the *)
(* insertion order the global ring evicts in.                              *)
(*                                                                         *)
(* Evidence ids are naturals, for their order (snapshots are sorted by id) *)
(* and not for when they were minted: an id is a hash, so its place in     *)
(* that order says nothing of its age.  A second insert of an id           *)
(* changes nothing whether it is answered as a repeat or as a duplicate,   *)
(* and is not a step.  epoch and seq are the caller's counters.            *)
(***************************************************************************)
EXTENDS Integers, FiniteSets, Sequences, PartialMaps

CONSTANTS Evidence, Flow,
          MaxSeq, MaxEpoch,                       \* bounds of the model
          MaxRecords, MaxPerFlow, MaxFlowIndex    \* configured limits

ASSUME EvidenceAssumption == Evidence \subseteq Nat
ASSUME EvidenceBoundsAssumption == MaxSeq \in Nat /\ MaxEpoch \in Nat \ {0}
ASSUME StoreLimitAssumption ==
  MaxRecords \in Nat /\ MaxPerFlow \in Nat /\ MaxFlowIndex \in Nat

VARIABLES store,   \* by_id_, by_flow_ and order_
          epoch,   \* the coordinator epoch
          seq      \* the last accepted_seq given out

vars == <<store, epoch, seq>>

EvidenceState == {"CURRENT", "STALE", "SUPERSEDED", "REVOKED"}

EvidenceRecord ==
  [flow : Flow, state : EvidenceState, accepted_epoch : 1 .. MaxEpoch, accepted_seq : 1 .. MaxSeq]

Init == /\ store = [by_id |-> EmptyMap, by_flow |-> EmptyMap, order |-> <<>>]
        /\ epoch = 1
        /\ seq = 0

-----------------------------------------------------------------------------
(* Helpers on the store. *)

\* The elements of a sequence.
Elements(q) == {q[i] : i \in DOMAIN q}

\* unindex_flow(): a flow whose ring empties leaves the index.
UnindexFlow(by_flow, f, id) ==
  IF f \notin DOMAIN by_flow THEN by_flow
  ELSE LET q == SelectSeq(by_flow[f], LAMBDA x : x # id)
       IN  IF q = <<>> THEN Drop(by_flow, {f}) ELSE [by_flow EXCEPT ![f] = q]

\* Faulty variant: the evicted record stays in its flow's ring.
EvictOldestKeepsIndex(s) ==
  IF Cardinality(DOMAIN s.by_id) < MaxRecords \/ s.order = <<>> THEN s
  ELSE [by_id |-> Drop(s.by_id, {Head(s.order)}),
        by_flow |-> s.by_flow,
        order |-> Tail(s.order)]

\* evict_oldest(): order_ and by_id_ hold the same ids, so one turn of its loop
\* makes room.
EvictOldest(s) ==
  IF Cardinality(DOMAIN s.by_id) < MaxRecords \/ s.order = <<>> THEN s
  ELSE LET id == Head(s.order)
       IN  [by_id |-> Drop(s.by_id, {id}),
            by_flow |-> UnindexFlow(s.by_flow, s.by_id[id].flow, id),
            order |-> Tail(s.order)]

\* A per-flow ring with room for one more: pop_front() down to below the bound.
Trimmed(q) ==
  IF Len(q) < MaxPerFlow THEN q ELSE SubSeq(q, Len(q) - MaxPerFlow + 2, Len(q))

\* Faulty variant: the ring drops the newest id.
RingedNewest(by_flow, f, id) ==
  IF f \in DOMAIN by_flow
  THEN [by_flow EXCEPT ![f] = IF Len(@) < MaxPerFlow THEN Append(@, id) ELSE @]
  ELSE Put(by_flow, f, <<id>>)

\* Faulty variant: the ring holds one more than its bound.
RingedOneMore(by_flow, f, id) ==
  IF f \in DOMAIN by_flow
  THEN [by_flow EXCEPT ![f] = IF Len(@) > MaxPerFlow THEN Append(Tail(@), id) ELSE Append(@, id)]
  ELSE Put(by_flow, f, <<id>>)

\* The flow index with id added to the ring of f, as insert() does it.
Ringed(by_flow, f, id) ==
  IF f \in DOMAIN by_flow
  THEN [by_flow EXCEPT ![f] = Append(Trimmed(@), id)]
  ELSE Put(by_flow, f, <<id>>)

\* Records in S taken to STALE when they are CURRENT.
StaleIn(by_id, S) ==
  [id \in DOMAIN by_id |->
     IF id \in S /\ by_id[id].state = "CURRENT"
     THEN [by_id[id] EXCEPT !.state = "STALE"] ELSE by_id[id]]

\* The ids in S in ascending order, as snapshot_records() sorts them.
Ascending(S) ==
  CHOOSE q \in [1 .. Cardinality(S) -> S] :
    \A i, j \in DOMAIN q : i < j => q[i] < q[j]

\* The ring index_flow() builds from the ids of one flow, restored in this order.
\* With a bound of zero the first id still goes in, and the second empties it.
IndexFlow(q) ==
  IF MaxPerFlow = 0
  THEN IF Len(q) = 1 THEN q ELSE <<>>
  ELSE IF Len(q) <= MaxPerFlow THEN q ELSE SubSeq(q, Len(q) - MaxPerFlow + 1, Len(q))

-----------------------------------------------------------------------------
(* Operations. *)

\* The index is full for a flow it does not hold.
IndexFull(s, f) == f \notin DOMAIN s.by_flow /\ Cardinality(DOMAIN s.by_flow) >= MaxFlowIndex

\* Faulty variant: the record carries the counter as it was before it advanced.
InsertEarlySeq(id, f) ==
  LET s == EvictOldest(store) IN
  /\ id \notin DOMAIN store.by_id
  /\ seq < MaxSeq
  /\ Cardinality(DOMAIN s.by_id) < MaxRecords
  /\ ~ IndexFull(s, f)
  /\ seq' = seq + 1
  /\ store' = [by_id |-> Put(s.by_id, id, [flow |-> f, state |-> "CURRENT",
                                           accepted_epoch |-> epoch, accepted_seq |-> seq]),
               by_flow |-> Ringed(s.by_flow, f, id),
               order |-> Append(s.order, id)]
  /\ UNCHANGED epoch

\* insert() of a record with a new id, accepted now.
Insert(id, f) ==
  LET s == EvictOldest(store) IN
  /\ id \notin DOMAIN store.by_id
  /\ seq < MaxSeq
  /\ Cardinality(DOMAIN s.by_id) < MaxRecords
  /\ ~ IndexFull(s, f)
  /\ seq' = seq + 1
  /\ store' = [by_id |-> Put(s.by_id, id, [flow |-> f, state |-> "CURRENT",
                                           accepted_epoch |-> epoch, accepted_seq |-> seq + 1]),
               by_flow |-> Ringed(s.by_flow, f, id),
               order |-> Append(s.order, id)]
  /\ UNCHANGED epoch

\* insert() answered CAPACITY_EXCEEDED because of the flow index: the eviction that
\* made room in the global ring has already happened.
InsertRefused(id, f) ==
  LET s == EvictOldest(store) IN
  /\ id \notin DOMAIN store.by_id
  /\ seq < MaxSeq
  /\ Cardinality(DOMAIN s.by_id) < MaxRecords
  /\ IndexFull(s, f)
  /\ seq' = seq + 1
  /\ store' = s
  /\ UNCHANGED epoch

\* Faulty variant: any state may be set.
SetStateAny(id, state) ==
  /\ id \in DOMAIN store.by_id
  /\ store.by_id[id].state # state
  /\ store' = [store EXCEPT !.by_id[id].state = state]
  /\ UNCHANGED <<epoch, seq>>

\* set_state(): never back to CURRENT.
SetState(id, state) ==
  /\ id \in DOMAIN store.by_id
  /\ store.by_id[id].state # state
  /\ ~ (store.by_id[id].state # "CURRENT" /\ state = "CURRENT")
  /\ store' = [store EXCEPT !.by_id[id].state = state]
  /\ UNCHANGED <<epoch, seq>>

\* mark_stale_by_predicate(), for the records S the predicate holds of.
MarkStaleByPredicate(S) ==
  /\ store' = [store EXCEPT !.by_id = StaleIn(@, S)]
  /\ UNCHANGED <<epoch, seq>>

\* Faulty variant: records of the epoch just ended are kept.
MarkEpochStaleLate ==
  /\ epoch < MaxEpoch
  /\ epoch' = epoch + 1
  /\ store' = [store EXCEPT !.by_id =
                 StaleIn(@, {id \in DOMAIN @ : @[id].accepted_epoch < epoch})]
  /\ UNCHANGED seq

\* mark_epoch_stale(), called with the epoch the coordinator advances to.
MarkEpochStale ==
  /\ epoch < MaxEpoch
  /\ epoch' = epoch + 1
  /\ store' = [store EXCEPT !.by_id =
                 StaleIn(@, {id \in DOMAIN @ : @[id].accepted_epoch # epoch'})]
  /\ UNCHANGED seq

\* A restart: snapshot_records() sorts by id, and restore_record() is called in
\* that order on an empty store.  No restored record is CURRENT.
Restart ==
  LET by_id == StaleIn(store.by_id, DOMAIN store.by_id)
      OfFlow(f) == {id \in DOMAIN by_id : by_id[id].flow = f}
  IN  /\ store' = [by_id |-> by_id,
                   by_flow |-> [f \in {by_id[id].flow : id \in DOMAIN by_id} |->
                                  IndexFlow(Ascending(OfFlow(f)))],
                   order |-> Ascending(DOMAIN by_id)]
      /\ UNCHANGED <<epoch, seq>>

Next ==
  \/ \E id \in Evidence :
       \/ \E f \in Flow : Insert(id, f) \/ InsertRefused(id, f)
       \/ \E state \in EvidenceState : SetState(id, state)
  \/ \E f \in Flow :
       MarkStaleByPredicate({id \in DOMAIN store.by_id : store.by_id[id].flow = f})
  \/ MarkEpochStale
  \/ Restart

Spec == Init /\ [][Next]_vars

-----------------------------------------------------------------------------
(* Properties. *)

\* Records and counters keep their shape, rings hold ids.
TypeOK ==
  /\ IsMap(store.by_id, Evidence, EvidenceRecord)
  /\ IsMap(store.by_flow, Flow, Seq(Evidence))
  /\ store.order \in Seq(Evidence)
  /\ epoch \in 1 .. MaxEpoch
  /\ seq \in 0 .. MaxSeq

NoRepeats(q) == \A i, j \in DOMAIN q : q[i] = q[j] => i = j

\* The three containers agree: order_ lists every stored id once, and a flow's
\* ring lists stored records of that flow, each once.  evict_oldest() counts on
\* the first, classification and supersession on the second.
IndexesAgree ==
  /\ NoRepeats(store.order) /\ Elements(store.order) = DOMAIN store.by_id
  /\ \A f \in DOMAIN store.by_flow :
       /\ NoRepeats(store.by_flow[f])
       /\ \A id \in Elements(store.by_flow[f]) :
            id \in DOMAIN store.by_id /\ store.by_id[id].flow = f

\* The bounds hold for a positive per-flow bound, and no flow is indexed in vain.
RingsBounded ==
  /\ Cardinality(DOMAIN store.by_id) <= MaxRecords
  /\ \A f \in DOMAIN store.by_flow : Len(store.by_flow[f]) \in 1 .. MaxPerFlow

\* CURRENT is an authority of this epoch: no record accepted in an earlier epoch
\* is CURRENT, through any sequence of inserts, state edits and restarts.
CurrentIsOfThisEpoch ==
  \A id \in DOMAIN store.by_id :
    store.by_id[id].state = "CURRENT" => store.by_id[id].accepted_epoch = epoch

\* A CURRENT record is out of its flow's reach only when MaxPerFlow newer records
\* of the flow are in the store: eviction and restart never hide one earlier.
Newer(id) == {j \in DOMAIN store.by_id :
                /\ store.by_id[j].flow = store.by_id[id].flow
                /\ store.by_id[j].accepted_seq > store.by_id[id].accepted_seq}
Reachable(id) ==
  LET f == store.by_id[id].flow
  IN  f \in DOMAIN store.by_flow /\ id \in Elements(store.by_flow[f])
CurrentIsReachable ==
  \A id \in DOMAIN store.by_id :
    (store.by_id[id].state = "CURRENT" /\ ~ Reachable(id)) => Cardinality(Newer(id)) >= MaxPerFlow

\* A stored record that is not CURRENT never becomes CURRENT, and what was
\* accepted is never rewritten: only its state changes while it is stored.
KeepsAcceptance ==
  \A id \in DOMAIN store.by_id \cap DOMAIN store'.by_id :
    LET r == store.by_id[id]
        n == store'.by_id[id]
    IN  /\ n.state = "CURRENT" => r.state = "CURRENT"
        /\ n = [r EXCEPT !.state = n.state]
NeverBackToCurrent == [][KeepsAcceptance]_vars

\* "The ring is full: the oldest accepted record is evicted" (evidence_store.cpp).
\* It fails after a restart, which orders the ring by id.
\* A statement of the repository that the code does not keep (README, section 4).
EvictsOldestAccepted ==
  [][\A id \in DOMAIN store.by_id \ DOMAIN store'.by_id :
       \A j \in DOMAIN store.by_id :
         store.by_id[id].accepted_seq <= store.by_id[j].accepted_seq]_vars

\* "A configured per-flow bound of zero is legal, and it means index nothing"
\* (evidence_store.cpp).  It fails: the first record of a flow is always indexed.
\* A statement of the repository that the code does not keep (README, section 4).
ZeroBoundIndexesNothing ==
  MaxPerFlow = 0 => \A f \in DOMAIN store.by_flow : store.by_flow[f] = <<>>

=============================================================================
