# TLA+ verification of the AI Flow Classifier

Specifications, model-checking instances and machine-checked proofs for the
coordinator of the AI Flow Classifier. The reference is the C++ code under `src/`;
`PROJECT.json` maps every definition to the lines it translates.

Contents: [the system](#1-the-system), [modules](#2-modules-and-the-code-they-model),
[runs](#3-runs), [disagreements](#4-where-code-and-comments-disagree),
[proofs](#5-proofs), [limits of the model](#6-abstractions-and-what-is-not-modelled),
[plan](#7-plan).

## 1. The system

A coordinator answers the question "what is flow F, generation G, doing?". Publishers
connect, register an incarnation (a boot number), declare workloads, propose and
activate contracts, register flows and submit evidence. A pure decision engine ranks
the evidence that is current and the classifier records the answer.

| Part | State | Operations that change it | Hard behaviour | Correctness |
|---|---|---|---|---|
| `WorkloadRegistry` | workloads, contracts, active pointer | declare, propose, activate, retire | generation advance racing contracts of several owners; three limits | an ACTIVE contract is of the current generation, and the only one |
| `PublisherRegistry` | records for the next save, volatile registrations, sessions | bind, end session(s), touch, expire, revalidate, observe generation, clear sessions, restore | several connections of one incarnation closing in any order; restart | fences never fall; a connection still open keeps its incarnation alive |
| `FlowRegistry` | current generation, bounded history | register, retire, snapshot, restore, restart | "next" at the ceiling; history forgotten at its bound and in a restart | a fenced generation stays fenced |
| `EvidenceStore` | id table, ring per flow, eviction order | insert, set state, mark stale, restore | three containers trimmed separately; a refused insert that has evicted | indexes agree; CURRENT is never regained nor outlives its epoch |
| `ClassificationIndex` | decision history, memo, revocations | record, memo store, revoke, supersede, clear, restore | bounded lists; restart order | memo and its queue agree; every list is bounded |
| `DecisionEngine` | none | `decide()` | order of candidates, ties, the cap, the threshold | one winner; weaker or inert evidence does not replace it, lost evidence does not turn it |
| `Classifier` | the five stores, policy, epoch, sequences | every public call, under one mutex | handlers that touch several stores; memo keyed by part of the state | fencing across stores; memo soundness |
| `Coordinator` | sessions of connections, saved state | handshake, message handlers, `persist()` | save after unlock; restart | planned |
| `CoordinatorService` | acceptor, workers, queue | start, accept, serve, stop | shutdown against full queue | planned |
| Snapshot, `atomic_replace` | files | save, load, recover | crash between steps | planned |
| `FrameStream`, `Channel`, TCP | buffer, send sequence, socket count | feed, next, send, receive | arbitrary chunks, partial sends | planned |
| Codecs, policy, domain values, foundation, tools | none between calls | - | - | see section 6 |

Interaction: `CoordinatorService` threads read frames from a `Channel`, hand messages to
`Coordinator`, which calls one `Classifier` operation per message and saves the durable
part afterwards. `Classifier` holds its mutex for a whole public operation (except
`explain()`), so an operation is one atomic step. The interleavings that matter inside
it are those of *calls* of different publishers, sessions and the clock.

## 2. Modules and the code they model

Conventions: a call the code refuses without changing state is a disabled action; one
that changes state before refusing is an action. Hash maps and maps are functions over
the keys present (`PartialMaps`). A definition marked *Faulty variant* is a deliberately
wrong form of the one after it, used to show that a property can fail; no specification
uses it. History variables are marked in the module headers.

| Module | Models |
|---|---|
| `PartialMaps` | vocabulary for containers: `EmptyMap`, `IsMap`, `Put`, `Drop` |
| `WorkloadRegistry` | `store/workload_registry.cpp` |
| `PublisherRegistry` | `store/publisher_registry.cpp`; `open` is a history of sessions bound and not ended |
| `FlowRegistry` | `store/flow_registry.cpp`; `fenced` and `retired` are histories of generations overtaken and keys retired, `covered` what they were at the snapshot |
| `EvidenceStore` | `store/evidence_store.cpp` |
| `ClassificationIndex` | `store/classification_index.cpp`; `revoked` is a history of revocations |
| `DecisionEngine` | `classify/decision_engine.cpp`, as operators with no variables |
| `DecisionInputs` | a machine that builds decision inputs one candidate at a time, so that one step is the difference between two inputs |
| `Classifier` | `classify/classifier.cpp`, composing the five store modules by `INSTANCE` and using the operators of `DecisionEngine` |
| `MC*` | the instances: sets, bounds, symmetry |
| `*Proofs` | theorems and lemmas about the module named |

`Classifier` is where stores meet. An action is a whole public call: `SubmitEvidence`
refreshes the flow (advancing it and staling older evidence) before it compares the
replay mark, supersedes records on the topic, inserts with eviction, then touches the
publisher. A session that closes is `EndPublisherSession`, the empty session (all of
them) `EndPublisherSessions`. Evidence ids are an injective constant function of publisher,
boot and generation; the instances choose one whose order is not the order of acceptance.
`Restart` is `restore()` into a fresh process and `AdvanceEpoch` the separate
step that start-up makes after it.

## 3. Runs

No fairness is assumed and all properties so far are safety properties: the modelled
part is a passive store that does nothing unless called. `CHECK_DEADLOCK FALSE` is set
where an instance ends because its bounded counters (ticks, sequence numbers,
generations) run out, or because every call that remains would be refused.

### Passing runs

| Run | Properties besides `TypeOK` | Instance |
|---|---|---|
| `workload_registry` | contract fencing, owner bond, active pointer, no resurrection, limits | 2 publishers, 3 workloads, 4 contracts, 3 generations, limits 2 workloads, 3 contracts, 2 pending |
| `publisher_registry` | the two tables in step, session list, open connections never DEAD, fences never fall | 2 publishers, 3 sessions, 2 sources, 2 boots, 2 generations, 3 ticks, limit 1, idle after 1 |
| `flow_registry` | fenced stays fenced, history below current, limits | 2 keys, ceiling 2, 3 generations, history 2, 1 flow |
| `evidence_store` | agreement of the indexes, ring bounds, reachability, epoch authority, no return to CURRENT | 3 flows, 4 ids, 5 acceptances, 2 epochs, limits 3 records, 2 per flow, 2 flows |
| `decision_engine` | one winner, weaker and inert records never replace it, a loss of other evidence never turns it, cap keeps the decisive citations | up to 3 stored and 2 derived candidates, 2 classes, 3 sources, threshold 1000 with caps 1 and 2 and threshold 6500 with cap 1, heuristics on and off |
| `classification_index` | memo and queue agree | 1 flow, 3 keys, 2 answers, 3 generations, all limits 2 |
| `classifier_authority` | flow fencing, session authority, one CURRENT record per topic | 1 publisher, 2 sessions, 2 boots, 3 evidence and 2 flow generations, 2 epochs; time stands still |
| `classifier_publishers` | flow fencing across publishers, finality of the idle sweep | 2 publishers, 2 sessions, 3 ticks, 1 boot, 1 evidence and 2 flow generations, 1 epoch |
| `classifier_memo` | memo soundness | 1 session, 2 boots, 2 policies, 3 ticks, 2 epochs |
| `classifier_contracts` | contract fencing of evidence, memo soundness | 1 workload with 2 generations, 2 contracts, 1 session; time and epoch stand still |

`PROJECT.json` lists the exact properties and says of each run what it shows. Every
property of these runs also has a mutant in `PROJECT.json`: a plausible mistake in one
mapped definition under which TLC finds that property violated.

Why the bounds are enough to be informative. In the five store runs every configured
limit is below what the instance offers, so eviction, refusal and forgetting all happen;
in `evidence_store` the limits are also related on purpose: with two flows indexed, the
store evicts records that their ring still lists as well as records it has dropped (with
one flow it would only ever evict the latter). Each fence has at least two values, and
three generations where "older than the one before" matters. Ticks reach past the idle
time in `publisher_registry`, `classifier_publishers` and `classifier_memo`, so that a
sweep, and a heartbeat after it, occur. `publisher_registry` and `flow_registry` hold
one registration at a time, because their limit is one: their entries do not read each
other, and the theorems cover any number.

No single instance of `Classifier` varies everything: the full product is out of TLC's
reach, so four instances each vary the dimensions one question is about, and the table
says which stand still. A defect that needs, for example, two publishers *and* an epoch
advance *and* contracts would not be found by these runs.

## 4. Where code and comments disagree

Modelling showed fifteen places where the code does not do what a comment beside it
says. Two are kept as runs that TLC must find violated, with the comment quoted in
`findings` of `PROJECT.json`: both concern authority that should have ended, and both
were reproduced with the compiled library.

| Run | Property | What the code does | What the comment says |
|---|---|---|---|
| `classifier_boot` | `CurrentNeedsLiveBoot` | submitted evidence whose source is CONTRACT_DERIVED stays selectable after its publisher binds a new boot | `decision_engine.hpp:70` |
| `classifier_revoked` | `RevokedNotReported` | `set_policy()` drops the revocations together with the memo | `classification_index.hpp:97` |

The exemption of CONTRACT_DERIVED from the liveness rule is deliberate (`src/README.md:90`,
`evidence.hpp:73`, `test_precedence_properties.cpp:843`): such evidence stands with its
contract. What `classifier_boot` shows is that a peer may submit a record of that source
that cites no contract, which then stands with nothing.

`ClearedIsNotLive` below has a consequence in the composed system. A session that
`advance_epoch()` dropped stays listed; when a newer session of the same boot closes,
`end_specific_session()` falls back to it, and it can publish again. The model allows it,
and `SelectableHasSession` therefore asks for a session that is still *listed*, which is
what the code maintains, and not for one that is still connected.

The other thirteen statements stay in the modules as definitions that no run checks. To
see one fail, replace the properties of the configuration named by it alone, and change
the constants shown. The `SupersededDecisionsStale` and `LatestIsMostRecent` cases were
also reproduced with the compiled library; the remaining eleven rest on the model and on
reading the code.

| Property | Configuration, changes | What the code does | What the comment says |
|---|---|---|---|
| `LowerGenerationsRetired` | `MCWorkloadRegistry` | a generation advance leaves PENDING contracts PENDING | `workload_registry.hpp:52` |
| `LiveHasSession` | `MCPublisherRegistry` | a heartbeat makes a restored registration LIVE with no session | `publisher.hpp:35` |
| `ClearedIsNotLive` | `MCPublisherRegistry` | `clear_sessions()` leaves the session list, so a touch makes the publisher live | `publisher_registry.hpp:100` |
| `NeverResurrected` | `MCFlowRegistry`, MaxHistory 1 | after a retirement, a generation dropped from the history is accepted again | `flow_registry.cpp:17` |
| `CurrentCanBeRepeated` | `MCFlowRegistry` | "next" at the ceiling passes it; the flow's own generation is then refused | `flow_registry.hpp:59` |
| `EvictsOldestAccepted` | `MCEvidenceStore` | after a restart eviction follows ids, not acceptance | `evidence_store.cpp:39` |
| `ZeroBoundIndexesNothing` | `MCEvidenceStore`, MaxPerFlow 0 | a per-flow bound of zero indexes one record | `evidence_store.cpp:223` |
| `LoserKeptBelowThreshold` | `MCDecisionInputs` | the cap can replace the "below threshold" reason | `policy.hpp:85` |
| `LaterAcceptedWins` | `MCDecisionInputs` | generations of unrelated workloads are compared | `decision_engine.hpp:17` |
| `LatestIsMostRecent` | `MCClassificationIndex` | an unstable sort may restore decisions of one generation in another order (with libstdc++, once more than 16 are saved) | `classification_index.hpp:80` |
| `RevocationsAccumulate` | `MCClassificationIndex` | a full list forgets the oldest revocation | `classification_index.hpp:97` |
| `ZeroBoundRefuses` | `MCClassificationIndex`, MaxRevocations 0 | a bound of zero erases from an empty vector, then stores the record | `config.cpp:46` |
| `SupersededDecisionsStale` | `MCClassifierContracts`, MaxFlowGeneration 2 | a question about a fenced generation is recorded as a current decision | `classifier.cpp:394` |

Several need a configuration or a caller that the shipped coordinator may not use (zero
bounds, generations at the ceiling, a direct call of `retire_flow()`). They are
statements about the library's functions, not about a particular deployment.

## 5. Proofs

TLAPS proves the following for every value of the constants that satisfies the named
assumptions of the modules.

| Theorem | Module | States |
|---|---|---|
| `FencingHolds` | `WorkloadRegistryProofs` | types, owner bond, contract fencing, active pointer |
| `NoResurrectionHolds`, `LimitsAreKept` | same | nothing comes back; limits |
| `RegistryHolds` | `PublisherRegistryProofs` | types, the two tables in step, session list, open connections never DEAD |
| `FencesHold` | same | no step lowers a fence |
| `FencesHold`, `LimitsAreKept` | `FlowRegistryProofs` | fenced stays fenced through restarts, history below current; limits |
| `EpochAuthority`, `AcceptanceIsKept` | `EvidenceStoreProofs` | CURRENT is of this epoch; nothing regains CURRENT or is rewritten |

**Assumptions.** Bounds are natural numbers (positive where the code starts counting at
one), limits are natural numbers, and the "none" values are not members of the sets
they complete. TLC evaluates each of them in the runs.

**Argument.** Each proof shows `Init => IInv`, one lemma per action for
`IInv /\ Next => IInv'`, and `IInv => property`.

- *Workloads.* Fencing is not inductive alone. `activate_contract()` and
  `retire_contract()` follow the workload's active pointer and compare owners, so
  `IInv` adds `ContractBond` (a contract's owner owns its workload) and
  `PointerNotDangling` (the pointer names the ACTIVE contract).
- *Publishers.* `IInv` states, per publisher, one relation `Good` between the volatile
  registration, the durable record and the open sessions. Its conjuncts need each other:
  closing one session keeps the others only because the list has no duplicates.
- *Flows.* `Unseen` is added: a key that is not registered and was never retired has no
  history and no fence. Without it a generation could be registered below a fence.
  `SavedAboveFences` says the same of the snapshot, for the restart that loads it.
- *Evidence.* All actions are shown to be instances of one relation `Moves` on the id
  table (records leave, weaken or are new of this epoch); `Moves` keeps `IInv`. The
  theorems speak of the id table only. The agreement of rings and eviction order is
  model-checked, not proved.

**Only model-checked.** The decision engine, the classification index and the composed
`Classifier` (its invariants are the next proofs planned). Out of the prover's reach, and
so for TLC whenever they are added: liveness and `ENABLED`, what a recursive definition
computes for every input, and modules that reach a `RECURSIVE` operator.

## 6. Abstractions and what is not modelled

- The proved modules describe the stores alone. That `Classifier` calls them only in
  ways their actions allow follows from using those actions through `INSTANCE` where it
  does; evidence changes in `Classifier` are written out, because one call makes several.
- Identities are model values or small numbers; digests are the values they are computed
  from, so collisions do not exist in the model.
- Freshness windows are policy values; a peer's own window, and `tick + window` wrapping,
  are left out. The hint a heuristic claim must cite is taken to be declared. A record
  with no workload has workload generation zero. A derived window is at least one.
- `Restart` saves the state of the moment it happens. Mutations acknowledged and lost
  because they were not saved belong to the planned `Coordinator` module, so no run says
  anything about durability yet.
- `PublisherRegistry::clear()` and `FlowRegistry::clear()` have no caller in the runtime and
  are not actions; both would forget fences.
- `restore_workload()` and `restore_contract()` hand the tables back unchanged.
- Left out because nothing decides from them: counters, reasons and other text, the
  contradiction ring, the list of supersessions, `explain()`, `render_explanation()`.
- Not modelled at all: codecs (no state between calls), domain values (parsing and
  names), foundation (buffers, hashing, logging), command line tools (argument handling).
- Not modelled yet: section 7. The hazards of those parts are in `PROJECT.json`, with a
  note instead of a property.

## 7. Plan

1. `Coordinator`: connections, handshake, session binding, one action per handler, and
   `persist()` as its own step after the classifier's; crash at any point; composed with
   `Classifier` at a coarse grain. Abstract specification: acknowledged authority is
   fenced across restarts, which `Coordinator` refines as far as the code saves it.
2. `DurableState`: `atomic_replace`, flush, rename, orphan recovery under crashes.
   Refines "the file holds the old or the new image".
3. `CoordinatorService`: acceptor, workers, bounded queue, start and stop. Safety: no
   connection served after stop. Liveness: stop returns, under weak fairness of each
   thread, which the operating system's scheduling justifies.
4. `FrameStream` (the frames delivered do not depend on the chunks), `Channel` (sequence
   under partial sends), `SocketSubsystem` (reference count), policy operators, `Counter`
   with its width.
5. Proofs: index agreement of `EvidenceStore`; `MemoOrderAgrees`; for `Classifier`,
   `FlowFencesEvidence`, `IdleHasNoCurrent` and `SelectableHasSession`; refinement steps
   of 1 and 2. The module limit leaves room for three more proof modules.
6. A larger share of the source mapped: items 1 to 4 are about half of what is left that
   has state.
