------------------------ MODULE ClassificationIndex ------------------------
(***************************************************************************)
(* The classification index (src/store/classification_index.cpp): a        *)
(* bounded history of decisions per flow, the decision memo with its       *)
(* eviction order, and the bounded list of revocations.                    *)
(*                                                                         *)
(* A decision is [generation, state, tick]; the state "CURRENT" stands for *)
(* every state but STALE.  The contradictions a decision brings and the    *)
(* supersessions of evidence are kept in rings of their own that only      *)
(* reports read; they are left out.                                        *)
(*                                                                         *)
(* `damaged' is the outcome of erasing the first element of an empty       *)
(* vector, which is undefined: any later state of the list is possible.    *)
(***************************************************************************)
EXTENDS Integers, FiniteSets, Sequences, PartialMaps

CONSTANTS Flow, Evidence,
          NoEvidence,                          \* the empty EvidenceId
          Key, Answer,                         \* memo keys and memoised decisions
          MaxGeneration, MaxTick,              \* bounds of the model
          MaxDecisions, MaxMemo, MaxRevocations   \* configured limits

ASSUME IndexBoundsAssumption == MaxGeneration \in Nat /\ MaxTick \in Nat
ASSUME IndexLimitAssumption == MaxDecisions \in Nat /\ MaxMemo \in Nat /\ MaxRevocations \in Nat
ASSUME NoEvidenceAssumption == NoEvidence \notin Evidence

VARIABLES history,       \* history_: FlowId -> decisions, oldest first
          memo,          \* memo_ and memo_order_
          revocations,   \* revocations_
          tick,          \* the tick of the last decision recorded
          damaged        \* the list of revocations is no longer a valid vector

vars == <<history, memo, revocations, tick, damaged>>

Generation == 1 .. MaxGeneration

Decision == [generation : Generation, state : {"CURRENT", "STALE"}, tick : 1 .. MaxTick]

Revocation == [flow : Flow, generation : Generation, evidence : Evidence \cup {NoEvidence}]

EmptyMemo == [entries |-> EmptyMap, order |-> <<>>]

Init == /\ history = EmptyMap
        /\ memo = EmptyMemo
        /\ revocations = <<>>
        /\ tick = 0
        /\ damaged = FALSE

-----------------------------------------------------------------------------
(* Helpers. *)

Elements(q) == {q[i] : i \in DOMAIN q}

\* The last n elements of q, as a loop of pop_front() leaves them.
LastOf(q, n) == IF Len(q) <= n THEN q ELSE SubSeq(q, Len(q) - n + 1, Len(q))

\* The decisions of a flow; operator[] of a flow not yet there is an empty history.
DecisionsOf(h, f) == IF f \in DOMAIN h THEN h[f] ELSE <<>>

\* record(): the history with decision d appended to the ring of f.
Recorded(h, f, d) == Put(h, f, LastOf(Append(DecisionsOf(h, f), d), MaxDecisions))

\* latest(): the ticks of the decisions it may return, none or one.
Latest(f, g) ==
  LET q == DecisionsOf(history, f)
      S == {i \in DOMAIN q : q[i].generation = g}
  IN  {q[i].tick : i \in {j \in S : \A k \in S : k <= j}}

\* supersede_generation(): decisions for lower generations become STALE.
Superseded(h, f, g) ==
  IF f \notin DOMAIN h THEN h
  ELSE [h EXCEPT ![f] = [i \in DOMAIN @ |->
          IF @[i].generation < g THEN [@[i] EXCEPT !.state = "STALE"] ELSE @[i]]]

\* Faulty variant: an overwritten key enters the eviction order again.
MemoStoredTwice(m, k, a) ==
  IF MaxMemo = 0 THEN m
  ELSE LET full == k \notin DOMAIN m.entries /\ Cardinality(DOMAIN m.entries) >= MaxMemo
       IN  [entries |-> Put(IF full THEN Drop(m.entries, {Head(m.order)}) ELSE m.entries, k, a),
            order |-> Append(IF full THEN Tail(m.order) ELSE m.order, k)]

\* memo_store(): an equal key is overwritten in place, a full memo evicts the
\* oldest key, and a memo of size zero stores nothing.
MemoStored(m, k, a) ==
  IF k \in DOMAIN m.entries THEN [m EXCEPT !.entries = Put(@, k, a)]
  ELSE IF Cardinality(DOMAIN m.entries) < MaxMemo
  THEN [entries |-> Put(m.entries, k, a), order |-> Append(m.order, k)]
  ELSE IF MaxMemo = 0 THEN m
  ELSE [entries |-> Put(Drop(m.entries, {Head(m.order)}), k, a),
        order |-> Append(Tail(m.order), k)]

\* record_revocation() into a list whose bound is positive.
Revoked(revs, r) == Append(IF Len(revs) >= MaxRevocations THEN Tail(revs) ELSE revs, r)

\* is_revoked(): a generation level revocation names no evidence.
IsRevoked(revs, f, g) == [flow |-> f, generation |-> g, evidence |-> NoEvidence] \in Elements(revs)

-----------------------------------------------------------------------------
(* Operations. *)

\* Faulty variant: the ring is trimmed before the decision is appended.
RecordTrimFirst(f, g, state) ==
  /\ tick < MaxTick
  /\ tick' = tick + 1
  /\ history' = Put(history, f, Append(LastOf(DecisionsOf(history, f), MaxDecisions),
                                       [generation |-> g, state |-> state, tick |-> tick']))
  /\ UNCHANGED <<memo, revocations, damaged>>

\* record() of a new decision.
Record(f, g, state) ==
  /\ tick < MaxTick
  /\ tick' = tick + 1
  /\ history' = Recorded(history, f, [generation |-> g, state |-> state, tick |-> tick'])
  /\ UNCHANGED <<memo, revocations, damaged>>

\* memo_store() after a miss.
MemoStore(k, a) ==
  /\ memo' = MemoStored(memo, k, a)
  /\ UNCHANGED <<history, revocations, tick, damaged>>

\* record_revocation(), of a generation or (a withdrawal) of one record.
RecordRevocation(f, g, e) ==
  LET r == [flow |-> f, generation |-> g, evidence |-> e] IN
  /\ ~ damaged
  /\ IF MaxRevocations = 0
     THEN /\ \/ revocations' = Append(revocations, r)
             \/ revocations' = revocations
          /\ damaged' = TRUE
     ELSE revocations' = Revoked(revocations, r) /\ UNCHANGED damaged
  /\ UNCHANGED <<history, memo, tick>>

SupersedeGeneration(f, g) ==
  /\ history' = Superseded(history, f, g)
  /\ UNCHANGED <<memo, revocations, tick, damaged>>

\* clear(), which Classifier::set_policy() calls.
Clear ==
  /\ history' = EmptyMap
  /\ memo' = EmptyMemo
  /\ revocations' = <<>>
  /\ UNCHANGED <<tick, damaged>>

\* The orders in which the decisions of a flow may come back: snapshot_classifications()
\* sorts by flow and generation, and std::sort promises no order of equal elements.
\* (libstdc++ keeps their order up to 16 decisions in the whole snapshot and loses it
\* beyond; the bounds here stand for a snapshot of more.)
Reordered(q) ==
  {p \in [DOMAIN q -> Elements(q)] :
     /\ Elements(p) = Elements(q)
     /\ \A i, j \in DOMAIN p : i < j => p[i].generation <= p[j].generation}

\* The histories a restart may turn h into.
Reorderings(h) ==
  LET kept == {f \in DOMAIN h : h[f] # <<>>}
  IN  {n \in [kept -> UNION {Reordered(h[f]) : f \in kept}] :
         \A f \in kept : n[f] \in Reordered(h[f])}

\* A restart from a snapshot of this state: restore_classification() appends the
\* decisions in snapshot order, restore_revocation() the revocations in theirs, and
\* the memo is not rebuilt.
Restart ==
  /\ ~ damaged
  /\ history' \in Reorderings(history)
  /\ memo' = EmptyMemo
  /\ UNCHANGED <<revocations, tick, damaged>>

Next ==
  \/ \E f \in Flow, g \in Generation :
       \/ \E state \in {"CURRENT", "STALE"} : Record(f, g, state)
       \/ \E e \in Evidence \cup {NoEvidence} : RecordRevocation(f, g, e)
       \/ SupersedeGeneration(f, g)
  \/ \E k \in Key, a \in Answer : MemoStore(k, a)
  \/ Clear
  \/ Restart

Spec == Init /\ [][Next]_vars

-----------------------------------------------------------------------------
(* Properties. *)

\* Decisions, memo entries and revocations keep their shape and their bounds.
TypeOK ==
  /\ IsMap(history, Flow, Seq(Decision))
  /\ \A f \in DOMAIN history : Len(history[f]) <= MaxDecisions
  /\ IsMap(memo.entries, Key, Answer)
  /\ revocations \in Seq(Revocation)
  /\ tick \in 0 .. MaxTick
  /\ MaxRevocations > 0 => Len(revocations) <= MaxRevocations /\ ~ damaged

\* The memo and its eviction order hold the same keys, each once: memo_store()
\* counts on it to make room by popping one key, and the memo stays bounded.
MemoOrderAgrees ==
  /\ Elements(memo.order) = DOMAIN memo.entries
  /\ \A i, j \in DOMAIN memo.order : memo.order[i] = memo.order[j] => i = j
  /\ Cardinality(DOMAIN memo.entries) <= MaxMemo

\* classification_index.hpp says latest() returns "the most recent decision for a
\* (flow, generation)".  It fails after a restart: the decisions of one generation
\* come back in any order.
\* A statement of the repository that the code does not keep (README, section 4).
LatestIsMostRecent ==
  \A f \in DOMAIN history, g \in Generation :
    \A t \in Latest(f, g) :
      \A d \in Elements(history[f]) : d.generation = g => d.tick <= t

\* classification_index.hpp: "a revoked generation must not be re-reported as current
\* even if evidence remains".  Recording one more entry un-revokes no generation.  It
\* fails: a full list, which withdrawals of single records share, evicts its oldest.
\* A statement of the repository that the code does not keep (README, section 4).
RevocationsAccumulate ==
  [][revocations' # <<>> =>
       \A f \in Flow, g \in Generation :
         IsRevoked(revocations, f, g) => IsRevoked(revocations', f, g)]_vars

\* config.cpp says of the bounds: "a zero bound means the corresponding structure
\* refuses every insert".  It fails: with a bound of zero record_revocation() erases
\* the first element of an empty vector.
\* A statement of the repository that the code does not keep (README, section 4).
ZeroBoundRefuses == MaxRevocations = 0 => revocations = <<>> /\ ~ damaged

=============================================================================
