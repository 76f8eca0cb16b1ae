----------------------------- MODULE Classifier -----------------------------
(***************************************************************************)
(* The classifier facade (src/classify/classifier.cpp): the five stores    *)
(* and the decision engine behind one mutex.  Every public operation holds *)
(* the mutex from its first read to its last write, so it is one step; the *)
(* interleavings are those of the callers.                                 *)
(*                                                                         *)
(* The stores are instances of their own modules, and a step is made of    *)
(* their operations in the order the code calls them.  A refused call that *)
(* changes nothing is a disabled action.  classify_batch() runs classify() *)
(* for each of its keys, so a batch is a run of Classify steps.            *)
(*                                                                         *)
(* `revoked' is a history variable: the flow generations that              *)
(* revoke_generation() was called for.                                     *)
(***************************************************************************)
EXTENDS DecisionEngine, Sequences, PartialMaps

CONSTANTS Publisher, Session, NoSession, Source, Claim, Topic, Class,
          Flow, Workload, NoWorkload, Contract, NoContract, Body,
          PolicyBody,              \* the policies an operator may set
          EvidenceIdOf,            \* the hash that makes evidence ids
          Ask,                     \* the flow generations clients ask about
          MaxBoot, MaxEvidenceGeneration, MaxFlowGeneration, MaxWorkloadGeneration,
          MaxTick, MaxEpoch, MaxSeq, MaxAuthority, MaxPolicy,   \* bounds of the model
          IdleTicks, MaxHistory,
          MaxRecords, MaxPerFlow, MaxFlowIndex,
          MaxDecisions, MaxMemo, MaxRevocations                 \* configured limits

\* The hash is taken to be injective; nothing is assumed of the order of the ids.
ASSUME EvidenceIdAssumption ==
  LET submissions == Publisher \X (1 .. MaxBoot) \X (1 .. MaxEvidenceGeneration) IN
    /\ EvidenceIdOf \in [submissions -> Nat \ {NoEvidence}]
    /\ \A x, y \in submissions : EvidenceIdOf[x] = EvidenceIdOf[y] => x = y

VARIABLES publishers, records, now, open,     \* PublisherRegistry
          workloads, contracts,               \* WorkloadRegistry
          current, past,                      \* FlowRegistry
          store, epoch, seq,                  \* EvidenceStore
          decisions, memo, revocations,       \* ClassificationIndex
          policy,                             \* policy_: [generation, body]
          authority,                          \* authority_sequence_
          revoked

publisher_vars == <<publishers, records, now, open>>
workload_vars == <<workloads, contracts>>
flow_vars == <<current, past>>
evidence_vars == <<store, epoch, seq>>
index_vars == <<decisions, memo, revocations, revoked>>
vars == <<publisher_vars, workload_vars, flow_vars, evidence_vars, index_vars, policy, authority>>

PR == INSTANCE PublisherRegistry WITH
        MaxGeneration <- MaxEvidenceGeneration, MaxPublishers <- Cardinality(Publisher)
WR == INSTANCE WorkloadRegistry WITH
        MaxGeneration <- MaxWorkloadGeneration, MaxWorkloads <- Cardinality(Workload),
        MaxContracts <- Cardinality(Contract), MaxPending <- Cardinality(Contract)
FR == INSTANCE FlowRegistry WITH
        Key <- Flow, history <- past, saved <- EmptyMap, covered <- [fenced |-> {}, retired |-> {}],
        fenced <- {}, retired <- {},
        MaxAcceptable <- MaxFlowGeneration, MaxGeneration <- MaxFlowGeneration,
        MaxFlows <- Cardinality(Flow)
ES == INSTANCE EvidenceStore WITH Evidence <- Nat
CI == INSTANCE ClassificationIndex WITH
        history <- decisions, tick <- now, damaged <- FALSE, Evidence <- Nat \ {NoEvidence},
        Key <- {}, Answer <- {}, MaxGeneration <- MaxFlowGeneration

Init == /\ PR!Init /\ WR!Init /\ ES!Init
        /\ current = EmptyMap /\ past = EmptyMap
        /\ decisions = EmptyMap /\ memo = CI!EmptyMemo /\ revocations = <<>> /\ revoked = {}
        /\ policy \in [generation : {1}, body : PolicyBody]
        /\ authority = 1

-----------------------------------------------------------------------------
(* Helpers. *)

Stored == {store.by_id[id] : id \in DOMAIN store.by_id}

\* The store after mark_stale_by_predicate(), whose predicate holds of the records chosen.
Stale(chosen) == [store EXCEPT !.by_id = ES!StaleIn(@, {r.id : r \in chosen})]

\* ++authority_sequence_: a volatile authority fact has changed.
Bump == authority < MaxAuthority /\ authority' = authority + 1

\* Whether register_flow() accepts the request, and what it makes of it.
FlowAccepted(f, requested) ==
  /\ FR!Acceptable(f, requested)
  /\ IF f \in DOMAIN current THEN FR!Resolved(f, requested) >= current[f]
     ELSE FR!Resolved(f, requested) \notin FR!Past(f)
FlowCreated(f, requested) == f \notin DOMAIN current \/ FR!Resolved(f, requested) > current[f]
FlowFenced(f, requested) == f \in DOMAIN current /\ FR!Resolved(f, requested) > current[f]

\* Faulty variant: a new incarnation leaves the evidence alone.
RefreshedStoreKeeps(f, requested) == store

\* refresh_flow(): a new incarnation stales all evidence of the flow, and when it
\* replaces an older one mark_flow_generation_stale() stales its decisions too.
RefreshedStore(f, requested) ==
  IF FlowCreated(f, requested) THEN Stale({r \in Stored : r.flow = f}) ELSE store

\* The flow tables and the history of decisions refresh_flow() leaves.
RefreshFlow(f, requested) ==
  LET g == FR!Resolved(f, requested) IN
  /\ FlowAccepted(f, requested)
  /\ current' = Put(current, f, g)
  /\ past' = IF FlowFenced(f, requested) THEN FR!Pushed(f, current[f]) ELSE past
  /\ decisions' = IF FlowFenced(f, requested) THEN CI!Superseded(decisions, f, g) ELSE decisions


-----------------------------------------------------------------------------
(* Publishers. *)

\* Faulty variant: a new incarnation does not count as a change of authority.
RegisterPublisherQuiet(p, boot, source, s) ==
  /\ PR!BindSession(p, boot, source, s)
  /\ UNCHANGED <<workload_vars, flow_vars, evidence_vars, index_vars, policy, authority>>

RegisterPublisher(p, boot, source, s) ==
  /\ PR!BindSession(p, boot, source, s)
  /\ Bump
  /\ UNCHANGED <<workload_vars, flow_vars, evidence_vars, index_vars, policy>>

\* Faulty variant: only the last session to close takes evidence with it.
EndPublisherSessionLast(p, boot, s) ==
  /\ PR!EndSpecificSession(p, boot, s)
  /\ store' = IF publishers'[p].live_sessions = <<>>
              THEN Stale({r \in Stored : r.publisher = p /\ r.boot = boot}) ELSE store
  /\ Bump
  /\ UNCHANGED <<workload_vars, flow_vars, epoch, seq, index_vars, policy>>

\* end_publisher_session(): what was published through the session, or with the
\* last session through any, stops being current.
EndPublisherSession(p, boot, s) ==
  /\ PR!EndSpecificSession(p, boot, s)
  /\ store' = Stale({r \in Stored :
                       /\ r.publisher = p /\ r.boot = boot
                       /\ publishers'[p].live_sessions = <<>> \/ r.session = s})
  /\ Bump
  /\ UNCHANGED <<workload_vars, flow_vars, epoch, seq, index_vars, policy>>

\* end_publisher_session() with the empty session: all sessions of the incarnation.
EndPublisherSessions(p, boot) ==
  /\ PR!EndSession(p, boot)
  /\ store' = Stale({r \in Stored : r.publisher = p /\ r.boot = boot})
  /\ Bump
  /\ UNCHANGED <<workload_vars, flow_vars, epoch, seq, index_vars, policy>>

Heartbeat(p, boot) ==
  /\ PR!Touch(p, boot)
  /\ Bump
  /\ UNCHANGED <<workload_vars, flow_vars, evidence_vars, index_vars, policy>>

\* Faulty variant: the sweep retires registrations and leaves their evidence current.
ExpirePublisherLivenessKeeps ==
  /\ PR!ExpireLiveness
  /\ publishers' # publishers
  /\ Bump
  /\ UNCHANGED <<workload_vars, flow_vars, evidence_vars, index_vars, policy>>

\* expire_publisher_liveness(), when the sweep changes a registration.
ExpirePublisherLiveness ==
  /\ PR!ExpireLiveness
  /\ publishers' # publishers
  /\ Bump
  /\ store' = Stale({r \in Stored : ~ PR!IsLive(r.publisher, r.boot)'})
  /\ UNCHANGED <<workload_vars, flow_vars, epoch, seq, index_vars, policy>>

\* advance_epoch(): sessions are dropped, earlier evidence goes stale.
AdvanceEpoch ==
  /\ seq < MaxSeq /\ seq' = seq + 1
  /\ epoch < MaxEpoch /\ epoch' = epoch + 1
  /\ PR!ClearSessions
  /\ store' = Stale({r \in Stored : r.accepted_epoch # epoch'})
  /\ Bump
  /\ UNCHANGED <<workload_vars, flow_vars, index_vars, policy>>

AdvanceClock ==
  /\ PR!AdvanceClock
  /\ UNCHANGED <<workload_vars, flow_vars, evidence_vars, index_vars, policy, authority>>

-----------------------------------------------------------------------------
(* Workloads and contracts.  Evidence that cites a contract goes stale with it. *)

RestUnchanged == UNCHANGED <<publisher_vars, flow_vars, epoch, seq, index_vars, policy, authority>>

\* The contracts this step takes out of ACTIVE.
Retired == {c \in WR!ActiveContracts : contracts'[c].state # "ACTIVE"}

DeclareWorkload(w, p, g) ==
  /\ WR!DeclareNew(w, p, g) \/ WR!DeclareAdvance(w, p, g)
  /\ store' = Stale({r \in Stored : r.contract \in Retired})
  /\ RestUnchanged

ProposeContract(c, p, w, g, body) ==
  /\ WR!ProposeContract(c, p, w, g, body)
  /\ UNCHANGED store
  /\ RestUnchanged

ActivateContract(c, p) ==
  /\ WR!ActivateContract(c, p)
  /\ store' = Stale({r \in Stored : r.contract \in Retired})
  /\ RestUnchanged

RetireContract(c, p) ==
  /\ WR!RetireContract(c, p)
  /\ store' = Stale({r \in Stored : r.contract = c})
  /\ RestUnchanged

RetireWorkload(w, g) ==
  /\ WR!RetireWorkload(w, g)
  /\ store' = Stale({r \in Stored : r.workload = w})
  /\ RestUnchanged

-----------------------------------------------------------------------------
(* Flows and evidence. *)

RegisterFlow(f, requested) ==
  /\ RefreshFlow(f, requested)
  /\ store' = RefreshedStore(f, requested)
  /\ UNCHANGED <<publisher_vars, workload_vars, epoch, seq, memo, revocations, revoked,
                 policy, authority>>


\* The weaker of the claim, the session's ceiling and the registration's.
EffectiveSource(claim, ceiling, registered) ==
  CHOOSE r \in {claim, ceiling, registered} : \A o \in {claim, ceiling, registered} : r <= o

\* The session of the envelope is the one evidence is accepted through.
SessionAdmitted(p, boot, s) ==
  /\ p \in DOMAIN publishers
  /\ publishers[p].boot = boot
  /\ publishers[p].session = s
  /\ PR!IsLive(p, boot)

\* The workload a record names is the publisher's own and in use.
WorkloadAdmitted(p, w) ==
  w # NoWorkload =>
    /\ w \in DOMAIN workloads
    /\ workloads[w].owner = p
    /\ workloads[w].state # "RETIRED"

\* Faulty variant: a cited contract need not be ACTIVE.
ContractAdmittedAny(p, c, w, wg) ==
  c # NoContract =>
    c \in DOMAIN contracts /\ contracts[c].owner = p /\ contracts[c].workload = w

\* A contract it cites is the publisher's, ACTIVE and of the same workload generation.
ContractAdmitted(p, c, w, wg) ==
  c # NoContract =>
    /\ c \in DOMAIN contracts
    /\ contracts[c].owner = p
    /\ contracts[c].state = "ACTIVE"
    /\ contracts[c].workload = w
    /\ contracts[c].workload_generation = wg

\* Faulty variant: the incarnation is left out of the identity.
MintedNoBoot(p, boot, generation) == EvidenceIdOf[<<p, 1, generation>>]

\* The identity minted for a submission.  The code hashes publisher, boot, topic,
\* generation and flow; the first, second and fourth are enough to tell any two
\* accepted submissions apart, because a boot uses a generation once.
Minted(p, boot, generation) == EvidenceIdOf[<<p, boot, generation>>]

\* Faulty variant: the record replaced must be the generation just before.
SupersededInNext(s, r) ==
  [s EXCEPT !.by_id = [id \in DOMAIN @ |->
     IF /\ @[id].flow = r.flow /\ @[id].publisher = r.publisher /\ @[id].boot = r.boot
        /\ @[id].topic = r.topic /\ @[id].generation + 1 = r.generation
     THEN [@[id] EXCEPT !.state = "SUPERSEDED"] ELSE @[id]]]

\* The supersession loop of admit_evidence(): the older records on the topic that
\* the ring of the flow still lists, whatever their flow generation and state.
SupersededIn(s, r) ==
  LET ring == IF r.flow \in DOMAIN s.by_flow THEN ES!Elements(s.by_flow[r.flow]) ELSE {}
  IN  [s EXCEPT !.by_id = [id \in DOMAIN @ |->
         IF /\ id \in ring
            /\ @[id].publisher = r.publisher /\ @[id].boot = r.boot
            /\ @[id].topic = r.topic /\ @[id].generation < r.generation
         THEN [@[id] EXCEPT !.state = "SUPERSEDED"] ELSE @[id]]]

\* EvidenceStore::insert() of r: room is made first, and a full flow index refuses.
Inserted(s, r) ==
  LET e == ES!EvictOldest(s)
  IN  IF ES!IndexFull(e, r.flow) THEN e
      ELSE [by_id |-> Put(e.by_id, r.id, r),
            by_flow |-> ES!Ringed(e.by_flow, r.flow, r.id),
            order |-> Append(e.order, r.id)]

\* submit_evidence() past the checks on session, source, class and workload.  The
\* flow is refreshed before the generation is compared with the replay mark, so a
\* replay that is refused has already fenced the flow.  A record that names no
\* workload has workload generation zero here; a peer may send any, and only the
\* ranking reads it.  The payload names no freshness window of its own, and the hint
\* a heuristic claim must cite is taken to be declared by the policy.
SubmitEvidence(p, boot, s, ceiling, x) ==
  LET source == EffectiveSource(x.claim, ceiling, publishers[p].max_source)
      wg == IF x.workload = NoWorkload THEN 0 ELSE workloads[x.workload].generation
      r == [id |-> Minted(p, boot, x.generation), publisher |-> p, boot |-> boot, session |-> s,
            topic |-> x.topic, generation |-> x.generation,
            flow |-> x.flow, flow_generation |-> FR!Resolved(x.flow, x.requested),
            workload |-> x.workload, workload_generation |-> wg, contract |-> x.contract,
            accepted_epoch |-> epoch, accepted_seq |-> seq + 1, fresh_until |-> now + policy.body.window,
            semantic |-> x.semantic, source |-> source, state |-> "CURRENT"]
      final == Inserted(SupersededIn(RefreshedStore(x.flow, x.requested), r), r)
      observed == [publishers[p] EXCEPT !.highest_generation = x.generation]
  IN  /\ SessionAdmitted(p, boot, s)
      /\ IsHeuristic(source) => policy.body.allow_heuristic
      /\ WorkloadAdmitted(p, x.workload)
      /\ ContractAdmitted(p, x.contract, x.workload, wg)
      /\ RefreshFlow(x.flow, x.requested)
      /\ IF x.generation <= publishers[p].highest_generation
         THEN store' = RefreshedStore(x.flow, x.requested) /\ UNCHANGED <<publishers, records, seq>>
         ELSE /\ seq < MaxSeq /\ seq' = seq + 1
              /\ store' = final
              /\ publishers' = [publishers EXCEPT ![p] =
                   IF r.id \in DOMAIN final.by_id THEN PR!Touched(observed) ELSE observed]
              /\ records' = [records EXCEPT ![p].highest_generation = x.generation]
      /\ UNCHANGED <<now, open, workload_vars, epoch, memo, revocations, revoked, policy, authority>>

\* withdraw_evidence() for the incarnation that published it: no session of it is
\* looked for, so a superseded one may still withdraw.
WithdrawEvidence(p, boot, id) ==
  /\ id \in DOMAIN store.by_id
  /\ store.by_id[id].publisher = p /\ store.by_id[id].boot = boot
  /\ seq < MaxSeq /\ seq' = seq + 1
  /\ store' = [store EXCEPT !.by_id[id].state = "SUPERSEDED"]
  /\ revocations' = CI!Revoked(revocations,
       [flow |-> store.by_id[id].flow, generation |-> store.by_id[id].flow_generation,
        evidence |-> id])
  /\ UNCHANGED <<publisher_vars, workload_vars, flow_vars, epoch, decisions, memo, revoked,
                 policy, authority>>


-----------------------------------------------------------------------------
(* Classification, revocation, policy and restart. *)

\* build_authority_context(): an incarnation counts as live by its state alone.
LiveBoots == {<<p, publishers[p].boot>> : p \in {q \in DOMAIN publishers : publishers[q].state = "LIVE"}}

\* The input of a decision about generation g of flow f.
InputFor(f, g) ==
  [flow |-> f, generation |-> g, epoch |-> epoch, tick |-> now, live |-> LiveBoots,
   revoked |-> CI!IsRevoked(revocations, f, g), policy |-> policy.body]

\* The stored records the ring of the flow lists.
EvidenceForFlow(f) ==
  IF f \in DOMAIN store.by_flow
  THEN {store.by_id[id] : id \in ES!Elements(store.by_flow[f]) \cap DOMAIN store.by_id} ELSE {}

\* The fields of a record decide() reads: one shape for stored and derived evidence.
AsCandidate(r) ==
  [id |-> r.id, publisher |-> r.publisher, boot |-> r.boot, flow |-> r.flow,
   flow_generation |-> r.flow_generation, workload |-> r.workload,
   workload_generation |-> r.workload_generation, accepted_epoch |-> r.accepted_epoch,
   accepted_seq |-> r.accepted_seq, fresh_until |-> r.fresh_until,
   semantic |-> r.semantic, source |-> r.source, state |-> r.state]

PoolFor(f, g) ==
  {AsCandidate(r) : r \in EvidenceForFlow(f)}
    \cup DerivedEvidence(contracts, workloads, InputFor(f, g))

\* Faulty variant: the digest leaves the contracts out.
DecisionKeyNoContracts(f, g) ==
  [flow |-> f, generation |-> g, policy |-> policy.generation, authority |-> authority,
   epoch |-> epoch, tick |-> now,
   evidence |-> {<<r.id, r.state, r.fresh_until>> : r \in EvidenceForFlow(f)},
   revoked |-> CI!IsRevoked(revocations, f, g)]

\* The memo key: what compute_evidence_set_digest() folds, with the flow generation
\* and the policy generation.  A record's content is fixed by its id and a contract's
\* by its own; the workloads are not part of it, nor is who is live.
DecisionKey(f, g) ==
  [flow |-> f, generation |-> g, policy |-> policy.generation, authority |-> authority,
   epoch |-> epoch, tick |-> now,
   evidence |-> {<<r.id, r.state, r.fresh_until>> : r \in EvidenceForFlow(f)},
   contracts |-> WR!ActiveContracts, revoked |-> CI!IsRevoked(revocations, f, g)]

\* classify() of the current generation, or of one the history still holds.  A memo
\* hit changes nothing.
Classify(f, g) ==
  LET answer == Decide(PoolFor(f, g), InputFor(f, g))
      key == DecisionKey(f, g)
  IN  /\ f \in DOMAIN current
      /\ g \in {current[f]} \cup FR!Past(f)
      /\ key \notin DOMAIN memo.entries
      /\ memo' = CI!MemoStored(memo, key, answer)
      /\ decisions' = CI!Recorded(decisions, f, [generation |-> g, state |-> answer.state, tick |-> now])
      /\ UNCHANGED <<publisher_vars, workload_vars, flow_vars, evidence_vars, revocations, revoked,
                     policy, authority>>

\* revoke_generation(): any session of this epoch may ask for it.
RevokeGeneration(f, g) ==
  /\ f \in DOMAIN current \cup DOMAIN past
  /\ g \in FR!Past(f) \cup (IF f \in DOMAIN current THEN {current[f]} ELSE {})
  /\ seq < MaxSeq /\ seq' = seq + 1
  /\ revocations' = CI!Revoked(revocations, [flow |-> f, generation |-> g, evidence |-> NoEvidence])
  /\ revoked' = revoked \cup {<<f, g>>}
  /\ UNCHANGED <<publisher_vars, workload_vars, flow_vars, store, epoch, decisions, memo,
                 policy, authority>>

\* set_policy() with a different content: the whole index is cleared.
SetPolicy(body) ==
  /\ body # policy.body
  /\ policy.generation < MaxPolicy
  /\ policy' = [generation |-> policy.generation + 1, body |-> body]
  /\ decisions' = EmptyMap /\ memo' = CI!EmptyMemo /\ revocations' = <<>>
  /\ UNCHANGED <<publisher_vars, workload_vars, flow_vars, evidence_vars, revoked, authority>>

\* A restart: durable_state() of this process and restore() in the next.  Workloads
\* and contracts come back as they were; flows without their history.
Restart ==
  /\ PR!RestoreRecords
  /\ ES!Restart
  /\ past' = EmptyMap
  /\ decisions' \in CI!Reorderings(decisions)
  /\ memo' = CI!EmptyMemo
  /\ authority' = 1
  /\ UNCHANGED <<workload_vars, current, revocations, revoked, policy>>

\* What a peer may submit.
Payload == [flow : Flow, requested : 0 .. MaxFlowGeneration, topic : Topic, semantic : Class,
            generation : 1 .. MaxEvidenceGeneration, claim : Claim,
            workload : Workload \cup {NoWorkload}, contract : Contract \cup {NoContract}]

Next ==
  \/ \E p \in Publisher, b \in 1 .. MaxBoot :
       \/ \E s \in Session :
            \/ \E source \in Source : RegisterPublisher(p, b, source, s)
            \/ EndPublisherSession(p, b, s)
            \/ \E ceiling \in Source, x \in Payload : SubmitEvidence(p, b, s, ceiling, x)
       \/ EndPublisherSessions(p, b)
       \/ Heartbeat(p, b)
       \/ \E id \in DOMAIN store.by_id : WithdrawEvidence(p, b, id)
  \/ ExpirePublisherLiveness
  \/ AdvanceEpoch
  \/ AdvanceClock
  \/ \E w \in Workload, g \in 1 .. MaxWorkloadGeneration :
       \/ RetireWorkload(w, g)
       \/ \E p \in Publisher :
            \/ DeclareWorkload(w, p, g)
            \/ \E c \in Contract, body \in Body : ProposeContract(c, p, w, g, body)
  \/ \E c \in Contract, p \in Publisher : ActivateContract(c, p) \/ RetireContract(c, p)
  \/ \E f \in Flow :
       \/ \E requested \in 0 .. MaxFlowGeneration : RegisterFlow(f, requested)
       \/ \E g \in Ask : Classify(f, g) \/ RevokeGeneration(f, g)
  \/ \E body \in PolicyBody : SetPolicy(body)
  \/ Restart

Spec == Init /\ [][Next]_vars


-----------------------------------------------------------------------------
(* Properties. *)

StoredCurrent == {id \in DOMAIN store.by_id : store.by_id[id].state = "CURRENT"}

\* The tables keep the shapes of the stores they come from, their indexes agree, and a
\* record is filed under its own id: no two submissions are minted the same one.
TypeOK ==
  /\ PR!TypeOK
  /\ WR!TypeOK
  /\ IsMap(current, Flow, FR!Generation)
  /\ ES!IndexesAgree
  /\ \A id \in DOMAIN store.by_id : store.by_id[id].id = id
  /\ authority \in 1 .. MaxAuthority

\* Fencing by flow incarnation: evidence that is CURRENT is about the current
\* generation of its flow, whoever advanced it (register_flow() or the submission
\* of another publisher, accepted or refused as a replay).
FlowFencesEvidence ==
  \A id \in StoredCurrent :
    /\ store.by_id[id].flow \in DOMAIN current
    /\ store.by_id[id].flow_generation = current[store.by_id[id].flow]

\* Fencing by contract: evidence that is CURRENT and cites a contract cites an ACTIVE
\* one, bound to the present generation of a workload in use, through every order of
\* declare, activate, retire and submit.
ContractFencesEvidence ==
  \A id \in StoredCurrent :
    LET r == store.by_id[id] IN
      r.contract # NoContract =>
        /\ r.contract \in WR!ActiveContracts
        /\ workloads[r.workload].generation = r.workload_generation
        /\ workloads[r.workload].state = "ACTIVE"

\* Authority ends with the session: a record whose source needs a live session, and
\* which the engine would take for current, came through a session its registration
\* still lists, whatever sessions of the publisher were opened, closed and dropped
\* since.  A listed session need not be connected (ClearedIsNotLive of
\* PublisherRegistry): one that advance_epoch() dropped can publish again.
SelectableHasSession ==
  \A id \in StoredCurrent :
    LET r == store.by_id[id] IN
      (RequiresLiveSession(r.source) /\ <<r.publisher, r.boot>> \in LiveBoots) =>
        r.session \in PR!Elements(publishers[r.publisher].live_sessions)

\* The idle sweep is final for what was published before it: an incarnation that is
\* IDLE has no CURRENT evidence, so the heartbeat or the reconnection that makes it
\* LIVE again revives none, however sweep, heartbeat and submission interleave.
IdleHasNoCurrent ==
  \A id \in StoredCurrent :
    LET r == store.by_id[id] IN
      (r.publisher \in DOMAIN publishers /\ publishers[r.publisher].boot = r.boot) =>
        publishers[r.publisher].state # "IDLE"

\* Supersession: of the records a flow's ring lists, at most one per publisher
\* incarnation and topic is CURRENT, and it is the newest generation of its topic.
OneCurrentPerTopic ==
  \A f \in DOMAIN store.by_flow :
    \A q, r \in EvidenceForFlow(f) :
      (/\ q.publisher = r.publisher /\ q.boot = r.boot /\ q.topic = r.topic
       /\ q.state = "CURRENT") => r.generation <= q.generation

\* The memo is sound: an entry that a question would hit now holds the answer that
\* deciding it now would give.  The key does not list who is live nor the workloads,
\* so this rests on the authority sequence and on the fencing of contracts.
MemoSound ==
  \A f \in DOMAIN current, g \in Ask :
    DecisionKey(f, g) \in DOMAIN memo.entries =>
      memo.entries[DecisionKey(f, g)] = Decide(PoolFor(f, g), InputFor(f, g))

\* decision_engine.hpp: "A record whose publisher is absent from this set cannot be
\* CURRENT, whatever its recorded state says".  It fails for a record a peer claimed
\* as CONTRACT_DERIVED: its boot is superseded and it stays current.
CurrentNeedsLiveBoot ==
  \A f \in DOMAIN current :
    \A r \in EvidenceForFlow(f) :
      EvaluatedState(AsCandidate(r), InputFor(f, current[f])) = "CURRENT" =>
        <<r.publisher, r.boot>> \in LiveBoots

\* classifier.cpp: decisions for a lower generation are marked stale "so history does
\* not report a superseded decision as the current answer".  It fails: a question about
\* the fenced generation is answered from a contract and recorded afterwards.
\* A statement of the repository that the code does not keep (README, section 4).
SupersededDecisionsStale ==
  \A f \in DOMAIN decisions \cap DOMAIN current :
    \A i \in DOMAIN decisions[f] :
      decisions[f][i].generation < current[f] =>
        decisions[f][i].state \notin {"CURRENT", "CORROBORATED", "CONTRADICTED"}

\* classification_index.hpp: "A revoked generation must not be re-reported as current
\* even if evidence remains".  It fails: a change of policy clears the revocations.
RevokedNotReported ==
  \A f \in DOMAIN current :
    <<f, current[f]>> \in revoked =>
      Decide(PoolFor(f, current[f]), InputFor(f, current[f])).semantic = UnknownClass

=============================================================================
