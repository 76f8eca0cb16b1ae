--------------------------- MODULE DecisionEngine ---------------------------
(***************************************************************************)
(* The decision engine (src/classify/decision_engine.cpp): a pure function *)
(* from the evidence about one flow generation, the active contracts, the  *)
(* authority context and the policy to a classification.                   *)
(*                                                                         *)
(* A candidate is a record with the fields decide() reads.  Its source is  *)
(* its rank.  Identities are integers, for their order: stored evidence    *)
(* ("ev-...") has positive ids and evidence derived from a contract        *)
(* ("ctr-...", which sorts first) the negative identity of its contract.   *)
(* Candidates have different ids: the store lists none twice.              *)
(*                                                                         *)
(* An input is [flow, generation, epoch, tick, live, revoked, policy].     *)
(***************************************************************************)
EXTENDS Integers, FiniteSets

UnknownClass == "UNKNOWN"      \* SemanticClass::UNKNOWN
NoEvidence == 0                \* the empty EvidenceId
TickNone == 0                  \* kTickNone

-----------------------------------------------------------------------------
(* Sources, by rank: HEURISTIC 1, TOPOLOGY_CORRELATED 2,                    *)
(* COORDINATOR_CORRELATED 3, CONTRACT_DERIVED 4, DECLARED_AUTHENTICATED 5.  *)

ContractDerived == 4

\* source_confidence(), in basis points; rank 0 (UNKNOWN) justifies nothing.
SourceConfidence(rank) ==
  IF rank = 0 THEN 0 ELSE <<2000, 5000, 7000, 8000, 9000>>[rank]

IsHeuristic(rank) == rank = 1

\* source_requires_live_session().
RequiresLiveSession(rank) == rank \in {2, 3, 5}

\* Confidence::reduced_by(), which stops at zero.
ReducedBy(confidence, points) == IF confidence > points THEN confidence - points ELSE 0

-----------------------------------------------------------------------------
(* Candidates and whether they are current. *)

\* The candidates of the active contracts that cover the flow and are bound to
\* the current generation of their workload.  The coordinator writes the source
\* CONTRACT_DERIVED into every contract it is sent (Coordinator, handle_propose_contract).
DerivedEvidence(contracts, workloads, inp) ==
  {[id |-> c, publisher |-> contracts[c].owner, boot |-> 0,
    flow |-> inp.flow, flow_generation |-> inp.generation,
    workload |-> contracts[c].workload, workload_generation |-> contracts[c].workload_generation,
    accepted_epoch |-> inp.epoch, accepted_seq |-> 0,
    fresh_until |-> IF inp.tick = TickNone THEN TickNone ELSE inp.tick + inp.policy.window,
    semantic |-> contracts[c].body.class, source |-> ContractDerived, state |-> "CURRENT"] :
   c \in {d \in DOMAIN contracts :
            /\ contracts[d].state = "ACTIVE"
            /\ inp.flow \in contracts[d].body.scope
            /\ contracts[d].workload \in DOMAIN workloads
            /\ workloads[contracts[d].workload].generation = contracts[d].workload_generation}}

\* The state of r as this decision sees it: a CURRENT record is checked again.
EvaluatedState(r, inp) ==
  IF r.flow # inp.flow \/ r.flow_generation # inp.generation THEN "STALE"
  ELSE IF r.state # "CURRENT" THEN r.state
  ELSE IF r.accepted_epoch # inp.epoch THEN "STALE"
  ELSE IF IsHeuristic(r.source) /\ ~ inp.policy.allow_heuristic THEN "REJECTED"
  ELSE IF RequiresLiveSession(r.source) /\ <<r.publisher, r.boot>> \notin inp.live THEN "STALE"
  ELSE IF inp.tick # TickNone /\ r.fresh_until # TickNone /\ inp.tick > r.fresh_until THEN "STALE"
  ELSE "CURRENT"

Current(pool, inp) == {r \in pool : EvaluatedState(r, inp) = "CURRENT"}

\* Faulty variant: a heuristic record is a candidate like any other.
AuthoritativeAny(pool, inp) == Current(pool, inp)

\* The current records that may decide or contradict.
Authoritative(pool, inp) == {r \in Current(pool, inp) : ~ IsHeuristic(r.source)}

-----------------------------------------------------------------------------
(* Precedence. *)

\* Faulty variant: the latest acceptance outranks a stronger source.
RanksAboveLatest(l, r) ==
  \/ l.accepted_seq > r.accepted_seq
  \/ /\ l.accepted_seq = r.accepted_seq
     /\ l.source > r.source \/ (l.source = r.source /\ l.id < r.id)

\* Faulty variant: no tie-break on the identity.
RanksAbovePartial(l, r) ==
  \/ l.source > r.source
  \/ /\ l.source = r.source
     /\ \/ l.workload_generation > r.workload_generation
        \/ /\ l.workload_generation = r.workload_generation
           /\ l.accepted_seq > r.accepted_seq

\* ranks_above(): source, then workload generation, then acceptance, then id.
RanksAbove(l, r) ==
  \/ l.source > r.source
  \/ /\ l.source = r.source
     /\ \/ l.workload_generation > r.workload_generation
        \/ /\ l.workload_generation = r.workload_generation
           /\ \/ l.accepted_seq > r.accepted_seq
              \/ l.accepted_seq = r.accepted_seq /\ l.id < r.id

\* The winner, as a set: empty when nothing may decide.  It is the head of the
\* sorted candidates that are authoritative and name a class.
Winners(pool, inp) ==
  LET eligible == {r \in Authoritative(pool, inp) : r.semantic # UnknownClass}
  IN  IF inp.revoked THEN {}
      ELSE {r \in eligible : \A o \in eligible \ {r} : RanksAbove(r, o)}

\* Records that agree, and that disagree, with winner w.
Corroborating(pool, inp, w) == {r \in Authoritative(pool, inp) \ {w} : r.semantic = w.semantic}
Contradicting(pool, inp, w) ==
  {r \in Authoritative(pool, inp) : r.semantic # w.semantic /\ r.semantic # UnknownClass}

-----------------------------------------------------------------------------
(* The decision. *)

\* Faulty variant: a corroborated winner is spared the penalty.
ConfidenceInSpared(pool, inp, w) ==
  IF Contradicting(pool, inp, w) = {} \/ Corroborating(pool, inp, w) # {}
  THEN SourceConfidence(w.source)
  ELSE ReducedBy(SourceConfidence(w.source), inp.policy.penalty)

\* The confidence in winner w, with the penalty a contradiction costs.
ConfidenceIn(pool, inp, w) ==
  IF Contradicting(pool, inp, w) = {} THEN SourceConfidence(w.source)
  ELSE ReducedBy(SourceConfidence(w.source), inp.policy.penalty)

BelowThreshold(pool, inp, w) == ConfidenceIn(pool, inp, w) < inp.policy.minimum

\* A decision that names no class.
Undecided(state) ==
  [semantic |-> UnknownClass, state |-> state, selected |-> NoEvidence,
   confidence |-> 0, contradictions |-> {}]

\* decide(): class, state, selected evidence, confidence and contradictions.
Decide(pool, inp) ==
  IF inp.revoked THEN Undecided("REVOKED")
  ELSE IF Winners(pool, inp) = {}
  THEN Undecided(IF /\ Current(pool, inp) = {}
                    /\ \E r \in pool : EvaluatedState(r, inp) \in {"STALE", "SUPERSEDED"}
                 THEN "STALE" ELSE "INSUFFICIENT")
  ELSE LET w == CHOOSE r \in Winners(pool, inp) : TRUE
           against == Contradicting(pool, inp, w)
       IN  IF BelowThreshold(pool, inp, w) THEN Undecided("INSUFFICIENT")
           ELSE [semantic |-> w.semantic,
                 state |-> IF against # {} THEN "CONTRADICTED"
                           ELSE IF Corroborating(pool, inp, w) # {} THEN "CORROBORATED"
                           ELSE "CURRENT",
                 selected |-> w.id,
                 confidence |-> ConfidenceIn(pool, inp, w),
                 contradictions |-> {r.id : r \in against}]

-----------------------------------------------------------------------------
(* Citations: every candidate is cited with one disposition. *)

\* The disposition of r before the consideration cap.
Disposition(pool, inp, r) ==
  LET state == EvaluatedState(r, inp)
      W == Winners(pool, inp)
  IN  CASE state = "STALE" -> "STALE"
        [] state = "SUPERSEDED" -> "WITHDRAWN"
        [] state \in {"REVOKED", "REJECTED"} -> state
        [] state = "CURRENT" /\ r \in W ->
             IF BelowThreshold(pool, inp, r) THEN "BELOW_THRESHOLD" ELSE "SELECTED"
        [] state = "CURRENT" /\ r \notin W ->
             IF IsHeuristic(r.source) \/ W = {} THEN "SUBORDINATE"
             ELSE IF \E w \in W : w.semantic = r.semantic THEN "CORROBORATING"
             ELSE IF r.semantic = UnknownClass THEN "SUBORDINATE" ELSE "CONTRADICTING"

IsDecisive(disposition) == disposition \in {"SELECTED", "CORROBORATING", "CONTRADICTING"}

\* Where a citation stands in the order the cap is applied in.  The citations were
\* sorted while the winner was still SELECTED, so it stays first.
Place(disposition) ==
  CASE disposition = "BELOW_THRESHOLD" -> 0
    [] disposition = "SUBORDINATE" -> 3
    [] disposition = "STALE" -> 4
    [] disposition = "WITHDRAWN" -> 5
    [] disposition = "REVOKED" -> 6
    [] disposition = "REJECTED" -> 7

\* Faulty variant: the cap counts every citation alike.
CitationsCapAll(pool, inp) ==
  LET first(o, r) == o.id < r.id
  IN  [r \in pool |-> IF Cardinality({o \in pool : first(o, r)}) < inp.policy.max_considered
                      THEN Disposition(pool, inp, r) ELSE "EXCLUDED_BY_LIMIT"]

\* The dispositions after the consideration cap: decisive ones stay, the others
\* are kept while the budget lasts.
Citations(pool, inp) ==
  LET d == [r \in pool |-> Disposition(pool, inp, r)]
      decisive == {r \in pool : IsDecisive(d[r])}
      others == pool \ decisive
      cap == inp.policy.max_considered
      budget == IF Cardinality(pool) <= cap THEN Cardinality(others)
                ELSE IF cap > Cardinality(decisive) THEN cap - Cardinality(decisive) ELSE 0
      before(o, r) == \/ Place(d[o]) < Place(d[r])
                      \/ Place(d[o]) = Place(d[r]) /\ o.id < r.id
  IN  [r \in pool |->
         IF r \in decisive \/ Cardinality({o \in others : before(o, r)}) < budget
         THEN d[r] ELSE "EXCLUDED_BY_LIMIT"]

=============================================================================
