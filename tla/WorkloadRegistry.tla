-------------------------- MODULE WorkloadRegistry --------------------------
(***************************************************************************)
(* The workload registry (src/store/workload_registry.cpp): workloads,     *)
(* each owned by one publisher and fenced by a generation, and the         *)
(* contracts that give a workload's flows a class while they are ACTIVE.   *)
(*                                                                         *)
(* A call that is refused changes nothing and is a disabled action.  Ticks,*)
(* descriptions, digests and statistics are not read by any decision of    *)
(* this registry and are left out.  The content of a contract (its class   *)
(* and its scope) is one value of Body; the checks on its shape (no empty  *)
(* identity, no UNKNOWN class, at least one scope) define Body.            *)
(***************************************************************************)
EXTENDS Integers, FiniteSets, PartialMaps

CONSTANTS Publisher, Workload, Contract, Body,
          NoContract,      \* the empty ContractId
          MaxGeneration,   \* the largest generation a caller presents
          MaxWorkloads, MaxContracts, MaxPending   \* the configured limits

ASSUME GenerationAssumption == MaxGeneration \in Nat
ASSUME LimitAssumption == MaxWorkloads \in Nat /\ MaxContracts \in Nat /\ MaxPending \in Nat
ASSUME NoContractAssumption == NoContract \notin Contract

VARIABLES workloads,   \* workloads_: WorkloadId -> WorkloadRecord
          contracts    \* contracts_: ContractId -> WorkloadContract

vars == <<workloads, contracts>>

Generation == 1 .. MaxGeneration

WorkloadRecord == [owner : Publisher, generation : Generation,
                   state : {"ACTIVE", "RETIRED"},
                   active_contract : Contract \cup {NoContract}]

WorkloadContract == [owner : Publisher, workload : Workload,
                     workload_generation : Generation,
                     state : {"PENDING", "ACTIVE", "RETIRED"}, body : Body]

Init == /\ workloads = EmptyMap
        /\ contracts = EmptyMap

-----------------------------------------------------------------------------
(* Lookups and helpers. *)

InState(state) == {c \in DOMAIN contracts : contracts[c].state = state}

\* active_contracts(): what the decision engine is given.
ActiveContracts == InState("ACTIVE")

\* The ACTIVE contracts of workload w.
ActiveOf(w) == {c \in ActiveContracts : contracts[c].workload = w}

\* The contract table with the contracts in D marked RETIRED.
Retiring(D) ==
  [c \in DOMAIN contracts |->
     IF c \in D THEN [contracts[c] EXCEPT !.state = "RETIRED"] ELSE contracts[c]]

-----------------------------------------------------------------------------
(* Operations. *)

\* declare_workload() of an identity not seen before.
DeclareNew(id, owner, generation) ==
  /\ id \notin DOMAIN workloads
  /\ Cardinality(DOMAIN workloads) < MaxWorkloads
  /\ workloads' = Put(workloads, id, [owner |-> owner, generation |-> generation,
                                      state |-> "ACTIVE", active_contract |-> NoContract])
  /\ UNCHANGED contracts

\* Faulty variant: the generation stored is one too large.
DeclareAdvanceOffByOne(id, owner, generation) ==
  /\ id \in DOMAIN workloads
  /\ owner = workloads[id].owner
  /\ generation > workloads[id].generation
  /\ contracts' = Retiring(ActiveOf(id))
  /\ workloads' = [workloads EXCEPT ![id] =
                     [@ EXCEPT !.generation = generation + 1, !.state = "ACTIVE",
                               !.active_contract = NoContract]]

\* Faulty variant: the advance retires nothing.
DeclareAdvanceKeepsContracts(id, owner, generation) ==
  /\ id \in DOMAIN workloads
  /\ owner = workloads[id].owner
  /\ generation > workloads[id].generation
  /\ UNCHANGED contracts
  /\ workloads' = [workloads EXCEPT ![id] =
                     [@ EXCEPT !.generation = generation, !.state = "ACTIVE",
                               !.active_contract = NoContract]]

\* declare_workload() by the owner at a strictly larger generation.  Equal
\* generations only replace the description; lower ones are refused.
DeclareAdvance(id, owner, generation) ==
  /\ id \in DOMAIN workloads
  /\ owner = workloads[id].owner
  /\ generation > workloads[id].generation
  /\ contracts' = Retiring({c \in ActiveOf(id) : contracts[c].workload_generation < generation})
  /\ workloads' = [workloads EXCEPT ![id] =
                     [@ EXCEPT !.generation = generation, !.state = "ACTIVE",
                               !.active_contract = NoContract]]

\* retire_workload(): the pointer to the contract it retires stays behind.
RetireWorkload(id, generation) ==
  /\ id \in DOMAIN workloads
  /\ generation = workloads[id].generation
  /\ workloads' = [workloads EXCEPT ![id].state = "RETIRED"]
  /\ contracts' = Retiring(ActiveOf(id))

\* Faulty variant: the generation named by the contract is not compared, and the
\* limit on pending contracts is off by one.
ProposeContractUnchecked(id, owner, w, generation, body) ==
  /\ id \notin DOMAIN contracts
  /\ w \in DOMAIN workloads
  /\ workloads[w].owner = owner
  /\ Cardinality(InState("PENDING")) <= MaxPending
  /\ Cardinality(DOMAIN contracts) < MaxContracts
  /\ contracts' = Put(contracts, id, [owner |-> owner, workload |-> w,
                                      workload_generation |-> generation,
                                      state |-> "PENDING", body |-> body])
  /\ UNCHANGED workloads

\* propose_contract(): the workload may be RETIRED, and contracts of every
\* generation count against the limit on pending ones.
ProposeContract(id, owner, w, generation, body) ==
  /\ id \notin DOMAIN contracts
  /\ w \in DOMAIN workloads
  /\ workloads[w].owner = owner
  /\ workloads[w].generation = generation
  /\ Cardinality(InState("PENDING")) < MaxPending
  /\ Cardinality(DOMAIN contracts) < MaxContracts
  /\ contracts' = Put(contracts, id, [owner |-> owner, workload |-> w,
                                      workload_generation |-> generation,
                                      state |-> "PENDING", body |-> body])
  /\ UNCHANGED workloads

\* Faulty variant: neither contract nor workload is checked for retirement.
ActivateContractRetired(id, caller) ==
  /\ id \in DOMAIN contracts
  /\ contracts[id].owner = caller
  /\ LET w == contracts[id].workload IN
       /\ workloads[w].generation = contracts[id].workload_generation
       /\ contracts' = [Retiring(ActiveOf(w)) EXCEPT ![id].state = "ACTIVE"]
       /\ workloads' = [workloads EXCEPT ![w] =
                          [@ EXCEPT !.active_contract = id, !.state = "ACTIVE"]]

\* activate_contract(): a contract already ACTIVE is left as it is.
ActivateContract(id, caller) ==
  /\ id \in DOMAIN contracts
  /\ contracts[id].owner = caller
  /\ contracts[id].state = "PENDING"
  /\ LET w == contracts[id].workload IN
       /\ w \in DOMAIN workloads
       /\ workloads[w].generation = contracts[id].workload_generation
       /\ workloads[w].state # "RETIRED"
       /\ contracts' = [Retiring(ActiveOf(w)) EXCEPT ![id].state = "ACTIVE"]
       /\ workloads' = [workloads EXCEPT ![w] =
                          [@ EXCEPT !.active_contract = id, !.state = "ACTIVE"]]

\* Faulty variant: the workload's pointer is left alone.
RetireContractKeepsPointer(id, caller) ==
  /\ id \in DOMAIN contracts
  /\ contracts[id].owner = caller
  /\ contracts' = [contracts EXCEPT ![id].state = "RETIRED"]
  /\ UNCHANGED workloads

\* retire_contract(): from any state, by its owner.
RetireContract(id, caller) ==
  /\ id \in DOMAIN contracts
  /\ contracts[id].owner = caller
  /\ contracts' = [contracts EXCEPT ![id].state = "RETIRED"]
  /\ LET w == contracts[id].workload IN
       workloads' = IF w \in DOMAIN workloads /\ workloads[w].active_contract = id
                    THEN [workloads EXCEPT ![w].active_contract = NoContract]
                    ELSE workloads

Next ==
  \/ \E w \in Workload, p \in Publisher, g \in Generation :
       \/ DeclareNew(w, p, g)
       \/ DeclareAdvance(w, p, g)
  \/ \E w \in Workload, g \in Generation : RetireWorkload(w, g)
  \/ \E c \in Contract, p \in Publisher, w \in Workload, g \in Generation, b \in Body :
       ProposeContract(c, p, w, g, b)
  \/ \E c \in Contract, p \in Publisher :
       \/ ActivateContract(c, p)
       \/ RetireContract(c, p)

Spec == Init /\ [][Next]_vars

-----------------------------------------------------------------------------
(* Properties. *)

\* Workloads and contracts keep the shape of WorkloadRecord and WorkloadContract.
TypeOK == /\ IsMap(workloads, Workload, WorkloadRecord)
          /\ IsMap(contracts, Contract, WorkloadContract)

\* propose_contract() binds a contract to a declared workload, to its owner and
\* to a generation the workload has reached; no later operation breaks the bond.
ContractBond ==
  \A c \in DOMAIN contracts :
    /\ contracts[c].workload \in DOMAIN workloads
    /\ contracts[c].owner = workloads[contracts[c].workload].owner
    /\ contracts[c].workload_generation <= workloads[contracts[c].workload].generation

\* Fencing: a contract that is ACTIVE, and so derives evidence, is bound to the
\* current generation of a workload that is not RETIRED, and it is the one the
\* workload names, whatever order activate, retire and declare are called in.  So
\* find_active_contract(), which walks a hash table, has one contract to return.
ActiveContractFenced ==
  \A c \in ActiveContracts :
    LET w == workloads[contracts[c].workload] IN
      /\ w.state = "ACTIVE"
      /\ w.generation = contracts[c].workload_generation
      /\ w.active_contract = c

\* A workload in use names no contract that has been retired: the pointer set by
\* activate_contract() is reset by every operation that retires its target.
\* (A RETIRED workload keeps the pointer; see RetireWorkload.)
PointerNotDangling ==
  \A w \in DOMAIN workloads :
    (workloads[w].state = "ACTIVE" /\ workloads[w].active_contract # NoContract)
      => workloads[w].active_contract \in ActiveOf(w)

\* The three configured limits hold, the one on pending contracts included.
LimitsHold ==
  /\ Cardinality(DOMAIN workloads) <= MaxWorkloads
  /\ Cardinality(DOMAIN contracts) <= MaxContracts
  /\ Cardinality(InState("PENDING")) <= MaxPending

\* What every step keeps: the retirement of contracts, the owner and the
\* generation of workloads.
KeepsFences ==
  /\ \A c \in DOMAIN contracts :
       /\ c \in DOMAIN contracts'
       /\ contracts[c].state = "RETIRED" => contracts'[c].state = "RETIRED"
       /\ contracts[c].state = "ACTIVE" => contracts'[c].state # "PENDING"
  /\ \A w \in DOMAIN workloads :
       /\ w \in DOMAIN workloads'
       /\ workloads'[w].owner = workloads[w].owner
       /\ workloads'[w].generation >= workloads[w].generation
       /\ (workloads[w].state = "RETIRED" /\ workloads'[w].state = "ACTIVE")
            => workloads'[w].generation > workloads[w].generation

\* No step undoes retirement or moves a fence back: a RETIRED contract stays so,
\* an ACTIVE one is never PENDING again, a workload keeps its owner, its
\* generation never falls, and it leaves RETIRED only at a larger generation
\* (the early returns of declare_workload() and activate_contract()).
NoResurrection == [][KeepsFences]_vars

\* The header's claim that a generation advance "retires every contract bound to
\* a lower generation" (workload_registry.hpp, declare_workload).  It fails: only
\* ACTIVE contracts are retired, PENDING ones stay and count as pending.
\* A statement of the repository that the code does not keep (README, section 4).
LowerGenerationsRetired ==
  \A c \in DOMAIN contracts :
    contracts[c].workload_generation < workloads[contracts[c].workload].generation
      => contracts[c].state = "RETIRED"

=============================================================================
