--------------------------- MODULE DecisionInputs ---------------------------
(***************************************************************************)
(* The decision engine under a growing evidence set and a changing         *)
(* context: what may happen to the answer for one flow generation between  *)
(* one classification and the next.  Every reachable pair of a pool and an *)
(* input is a call of decide().                                            *)
(***************************************************************************)
EXTENDS DecisionEngine

CONSTANTS Candidate,   \* the records that may be considered
          Input,       \* the contexts a decision starts in
          MaxPool,     \* the largest pool explored
          MaxTick

VARIABLES pool,   \* the candidates: DecisionInput::evidence and the derived records
          inp     \* the rest of DecisionInput

vars == <<pool, inp>>

Init == pool = {} /\ inp \in Input

\* One more record about the flow is handed to the engine.
Consider(r) ==
  /\ Cardinality(pool) < MaxPool
  /\ \A o \in pool : o.id # r.id
  /\ pool' = pool \cup {r}
  /\ UNCHANGED inp

\* A publisher incarnation stops being live.
LoseLiveness(p) ==
  /\ p \in inp.live
  /\ inp' = [inp EXCEPT !.live = @ \ {p}]
  /\ UNCHANGED pool

\* The decision is made at a later tick.
LaterTick ==
  /\ inp.tick < MaxTick
  /\ inp' = [inp EXCEPT !.tick = @ + 1]
  /\ UNCHANGED pool

\* The flow generation is revoked.
Revoke ==
  /\ ~ inp.revoked
  /\ inp' = [inp EXCEPT !.revoked = TRUE]
  /\ UNCHANGED pool

Next ==
  \/ \E r \in Candidate : Consider(r)
  \/ \E p \in inp.live : LoseLiveness(p)
  \/ LaterTick
  \/ Revoke

Spec == Init /\ [][Next]_vars

-----------------------------------------------------------------------------
(* Properties. *)

Answer == Decide(pool, inp)
Winner == CHOOSE r \in Winners(pool, inp) : TRUE

\* decision_engine.hpp asks of the order that "which record won" be a question with
\* one answer.  Whenever an authoritative record names a class there is exactly one
\* winner, whatever order the candidates come in, ties between two contracts
\* (both with acceptance sequence zero) included.
OneWinner ==
  (~ inp.revoked /\ \E r \in Authoritative(pool, inp) : r.semantic # UnknownClass)
    => Cardinality(Winners(pool, inp)) = 1

\* A record that is heuristic or no longer current changes neither the class, nor
\* the evidence selected, nor the confidence, nor the contradictions reported.
InertLeavesAnswer ==
  \A r \in pool' \ pool :
    (IsHeuristic(r.source) \/ EvaluatedState(r, inp) # "CURRENT") =>
      /\ Answer'.semantic = Answer.semantic
      /\ Answer'.selected = Answer.selected
      /\ Answer'.confidence = Answer.confidence
      /\ Answer'.contradictions = Answer.contradictions
InertIsInert == [][InertLeavesAnswer]_vars

\* A record with a weaker source than the winner's never takes its place: it can
\* silence the class through the contradiction penalty, never replace it.
WeakerCannotReplace ==
  \A r \in pool' \ pool :
    (Winners(pool, inp) # {} /\ r.source < Winner.source) =>
      Answer'.semantic \in {Answer.semantic, UnknownClass}
WeakerNeverReplaces == [][WeakerCannotReplace]_vars

\* Losing other evidence never turns an answer: when a deadline passes or a publisher
\* goes away and the record decide() had selected is still authoritative, it stays
\* selected, with its class, and no less confidently.  A corroborating record that
\* expires costs nothing, and a contradicting one gives back what it had cost.
LossKeepsAnswer ==
  (/\ pool' = pool /\ inp'.revoked = inp.revoked
   /\ Answer.selected # NoEvidence
   /\ \E r \in Authoritative(pool, inp)' : r.id = Answer.selected) =>
     /\ Answer'.selected = Answer.selected
     /\ Answer'.semantic = Answer.semantic
     /\ Answer'.confidence >= Answer.confidence
LossNeverTurns == [][LossKeepsAnswer]_vars

\* The consideration cap is a display bound: no decisive citation is dropped, and
\* past the decisive ones no more than the cap are kept.
CapKeepsReasons ==
  LET c == Citations(pool, inp)
      kept == {r \in pool : c[r] # "EXCLUDED_BY_LIMIT"}
      decisive == {r \in pool : IsDecisive(Disposition(pool, inp, r))}
  IN  /\ decisive \subseteq kept
      /\ \/ Cardinality(kept) <= inp.policy.max_considered
         \/ kept = decisive

\* domain/policy.hpp: a class below the threshold is reported UNKNOWN "with the
\* losing candidate kept in the explanation as below threshold".  It fails: the cap
\* may take that citation, which is not a decisive one any more.
\* A statement of the repository that the code does not keep (README, section 4).
LoserKeptBelowThreshold ==
  \A w \in Winners(pool, inp) :
    BelowThreshold(pool, inp, w) => Citations(pool, inp)[w] = "BELOW_THRESHOLD"

\* decision_engine.hpp, rule 3: "a higher generation of the same workload outranks a
\* lower one", and rule 4: "a later accepted sequence outranks an earlier one".  It
\* fails: generations of different workloads are compared as well.
\* A statement of the repository that the code does not keep (README, section 4).
LaterAcceptedWins ==
  \A w \in Winners(pool, inp) : \A r \in Authoritative(pool, inp) :
    (r.source = w.source /\ r.workload # w.workload) => r.accepted_seq <= w.accepted_seq

=============================================================================
