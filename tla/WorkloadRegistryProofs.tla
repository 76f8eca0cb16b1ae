----------------------- MODULE WorkloadRegistryProofs -----------------------
(* Proofs about WorkloadRegistry for every set of publishers, workloads and
   contracts and every value of the limits. *)
EXTENDS WorkloadRegistry, PartialMapsProofs, FiniteSetTheorems

\* The inductive invariant.  ActiveContractFenced alone is not inductive: that an
\* ACTIVE contract is retired with its generation needs ContractBond, and that
\* no other workload's pointer is disturbed needs PointerNotDangling.
IInv == TypeOK /\ ContractBond /\ ActiveContractFenced /\ PointerNotDangling

-----------------------------------------------------------------------------

\* What the tables hold, key by key.
LEMMA TableFacts ==
  ASSUME TypeOK
  PROVE  /\ DOMAIN workloads \subseteq Workload
         /\ \A w \in DOMAIN workloads : workloads[w] \in WorkloadRecord
         /\ DOMAIN contracts \subseteq Contract
         /\ \A c \in DOMAIN contracts : contracts[c] \in WorkloadContract
BY MapElim DEF TypeOK

\* c and d agree on everything but their state: no operation edits a definition.
SameDefinition(c, d) ==
  /\ c.owner = d.owner
  /\ c.workload = d.workload
  /\ c.workload_generation = d.workload_generation

\* Retiring(D) marks the contracts in D and touches nothing else.
LEMMA RetiringFacts ==
  ASSUME TypeOK, NEW D
  PROVE  /\ IsMap(Retiring(D), Contract, WorkloadContract)
         /\ DOMAIN Retiring(D) = DOMAIN contracts
         /\ \A c \in DOMAIN contracts :
              /\ SameDefinition(Retiring(D)[c], contracts[c])
              /\ c \in D => Retiring(D)[c].state = "RETIRED"
              /\ c \notin D => Retiring(D)[c].state = contracts[c].state
<1>1. \A c \in DOMAIN contracts : contracts[c] \in WorkloadContract
  BY TableFacts
<1>2. \A c \in DOMAIN contracts :
        /\ [contracts[c] EXCEPT !.state = "RETIRED"] \in WorkloadContract
        /\ [contracts[c] EXCEPT !.state = "RETIRED"].state = "RETIRED"
        /\ SameDefinition([contracts[c] EXCEPT !.state = "RETIRED"], contracts[c])
  BY <1>1 DEF WorkloadContract, SameDefinition
<1>3. Retiring(D) \in [DOMAIN contracts -> WorkloadContract]
  BY <1>1, <1>2 DEF Retiring
<1>4. DOMAIN contracts \in SUBSET Contract
  BY TableFacts
<1>5. IsMap(Retiring(D), Contract, WorkloadContract)
  BY <1>3, <1>4, MapIntro, Zenon
<1>6. ASSUME NEW c \in DOMAIN contracts
      PROVE  /\ SameDefinition(Retiring(D)[c], contracts[c])
             /\ c \in D => Retiring(D)[c].state = "RETIRED"
             /\ c \notin D => Retiring(D)[c].state = contracts[c].state
  BY <1>2 DEF Retiring, SameDefinition
<1> QED
  BY <1>3, <1>5, <1>6

\* The empty registry satisfies the invariant.
LEMMA InitIInv == Init => IInv
<1> SUFFICES ASSUME Init PROVE IInv
  OBVIOUS
<1>1. workloads = EmptyMap /\ contracts = EmptyMap
  BY DEF Init
<1>2. DOMAIN workloads = {} /\ DOMAIN contracts = {}
  BY <1>1, EmptyMapFacts
<1>3. TypeOK
  BY <1>1, EmptyMapFacts DEF TypeOK
<1> QED
  BY <1>2, <1>3 DEF IInv, ContractBond, ActiveContractFenced, PointerNotDangling,
                    ActiveContracts, InState

-----------------------------------------------------------------------------
(* One lemma per operation: it preserves the invariant. *)

\* declare_workload() of a new identity preserves the invariant.
LEMMA DeclareNewIInv ==
  ASSUME IInv, NEW id \in Workload, NEW p \in Publisher, NEW g \in Generation,
         DeclareNew(id, p, g)
  PROVE  IInv'
<1> DEFINE r == [owner |-> p, generation |-> g, state |-> "ACTIVE",
                 active_contract |-> NoContract]
<1>1. TypeOK /\ ContractBond /\ ActiveContractFenced /\ PointerNotDangling
  BY DEF IInv
<1>2. r \in WorkloadRecord /\ r.active_contract = NoContract
  BY DEF WorkloadRecord
<1>3. /\ workloads' = Put(workloads, id, r) /\ contracts' = contracts
      /\ id \notin DOMAIN workloads
  BY DEF DeclareNew
<1> HIDE DEF r
<1>4. /\ IsMap(workloads', Workload, WorkloadRecord)
      /\ DOMAIN workloads' = DOMAIN workloads \cup {id}
      /\ workloads'[id] = r
      /\ \A w \in DOMAIN workloads : workloads'[w] = workloads[w]
  BY <1>1, <1>2, <1>3 DEF TypeOK, Put, IsMap
<1>5. TypeOK'
  BY <1>1, <1>3, <1>4 DEF TypeOK
<1>6. ContractBond'
  BY <1>1, <1>3, <1>4 DEF ContractBond
<1>7. ActiveContractFenced'
  BY <1>1, <1>3, <1>4 DEF ActiveContractFenced, ContractBond, ActiveContracts, InState
<1>8. PointerNotDangling'
  BY <1>1, <1>2, <1>3, <1>4 DEF PointerNotDangling, ActiveOf, ActiveContracts, InState
<1> QED
  BY <1>5, <1>6, <1>7, <1>8 DEF IInv

\* declare_workload() at a larger generation preserves it: the contract it must
\* retire is below the new generation because it was at the old one.
LEMMA DeclareAdvanceIInv ==
  ASSUME IInv, NEW id \in Workload, NEW p \in Publisher, NEW g \in Generation,
         DeclareAdvance(id, p, g)
  PROVE  IInv'
<1> DEFINE D == {c \in ActiveOf(id) : contracts[c].workload_generation < g}
           r == [workloads[id] EXCEPT !.generation = g, !.state = "ACTIVE",
                                      !.active_contract = NoContract]
<1>1. TypeOK /\ ContractBond /\ ActiveContractFenced /\ PointerNotDangling
  BY DEF IInv
<1>2. /\ id \in DOMAIN workloads /\ g > workloads[id].generation
      /\ contracts' = Retiring(D)
      /\ workloads' = [workloads EXCEPT ![id] = r]
  BY DEF DeclareAdvance
<1>3. /\ DOMAIN workloads \subseteq Workload
      /\ \A w \in DOMAIN workloads : workloads[w] \in WorkloadRecord
      /\ \A c \in DOMAIN contracts : contracts[c] \in WorkloadContract
  BY <1>1, TableFacts
<1>4. /\ r \in WorkloadRecord /\ r.generation = g /\ r.owner = workloads[id].owner
      /\ r.active_contract = NoContract
  BY <1>2, <1>3, Zenon DEF WorkloadRecord
<1>5. /\ workloads' \in [DOMAIN workloads -> WorkloadRecord]
      /\ workloads'[id] = r
      /\ \A w \in DOMAIN workloads : w # id => workloads'[w] = workloads[w]
  BY <1>2, <1>3, <1>4, MapElim, <1>1 DEF TypeOK
<1>6. /\ IsMap(contracts', Contract, WorkloadContract)
      /\ DOMAIN contracts' = DOMAIN contracts
      /\ \A c \in DOMAIN contracts :
           /\ SameDefinition(contracts'[c], contracts[c])
           /\ c \in D => contracts'[c].state = "RETIRED"
           /\ c \notin D => contracts'[c].state = contracts[c].state
  BY <1>1, <1>2, RetiringFacts
<1>7. ASSUME NEW c \in ActiveOf(id) PROVE c \in D
  BY <1>1, <1>2, <1>7 DEF ActiveContractFenced, ActiveOf
<1>8. TypeOK'
  BY <1>3, <1>5, <1>6, MapIntro DEF TypeOK
<1>9. ContractBond'
  BY <1>1, <1>2, <1>3, <1>4, <1>5, <1>6 DEF ContractBond, SameDefinition, Generation,
     WorkloadRecord, WorkloadContract
<1>10. ActiveContractFenced'
  <2> SUFFICES ASSUME NEW c \in ActiveContracts'
               PROVE  /\ workloads'[contracts'[c].workload].state = "ACTIVE"
                      /\ workloads'[contracts'[c].workload].generation
                           = contracts'[c].workload_generation
                      /\ workloads'[contracts'[c].workload].active_contract = c
    BY DEF ActiveContractFenced
  <2>1. c \in ActiveContracts /\ c \notin D /\ SameDefinition(contracts'[c], contracts[c])
    BY <1>6 DEF ActiveContracts, InState
  <2>2. contracts[c].workload # id
    BY <2>1, <1>7 DEF ActiveOf
  <2> QED
    BY <1>1, <1>5, <2>1, <2>2 DEF ActiveContractFenced, ContractBond, SameDefinition,
       ActiveContracts, InState
<1>11. PointerNotDangling'
  <2> SUFFICES ASSUME NEW w \in DOMAIN workloads', workloads'[w].state = "ACTIVE",
                      workloads'[w].active_contract # NoContract
               PROVE  workloads'[w].active_contract \in ActiveOf(w)'
    BY DEF PointerNotDangling
  <2>1. w # id /\ workloads'[w] = workloads[w] /\ w \in DOMAIN workloads
    BY <1>4, <1>5, Zenon
  <2>2. PICK c : c = workloads[w].active_contract /\ c \in ActiveOf(w)
    BY <2>1, <1>1 DEF PointerNotDangling
  <2>3. c \notin D /\ c \in DOMAIN contracts
    BY <2>1, <2>2 DEF ActiveOf, ActiveContracts, InState
  <2>4. c \in ActiveOf(w)'
    BY <2>2, <2>3, <1>6 DEF ActiveOf, ActiveContracts, InState, SameDefinition
  <2> QED
    BY <2>1, <2>2, <2>4
<1> QED
  BY <1>8, <1>9, <1>10, <1>11 DEF IInv

\* retire_workload() preserves the invariant: it retires every ACTIVE contract.
LEMMA RetireWorkloadIInv ==
  ASSUME IInv, NEW id \in Workload, NEW g \in Generation, RetireWorkload(id, g)
  PROVE  IInv'
<1>1. TypeOK /\ ContractBond /\ ActiveContractFenced /\ PointerNotDangling
  BY DEF IInv
<1>2. /\ id \in DOMAIN workloads
      /\ contracts' = Retiring(ActiveOf(id))
      /\ workloads' = [workloads EXCEPT ![id].state = "RETIRED"]
  BY DEF RetireWorkload
<1>3. /\ DOMAIN workloads \subseteq Workload
      /\ \A w \in DOMAIN workloads : workloads[w] \in WorkloadRecord
  BY <1>1, TableFacts
<1>4. /\ workloads' \in [DOMAIN workloads -> WorkloadRecord]
      /\ workloads'[id].owner = workloads[id].owner
      /\ workloads'[id].generation = workloads[id].generation
      /\ workloads'[id].state = "RETIRED"
      /\ \A w \in DOMAIN workloads : w # id => workloads'[w] = workloads[w]
  BY <1>2, <1>3, MapElim, <1>1 DEF TypeOK, WorkloadRecord
<1>5. /\ IsMap(contracts', Contract, WorkloadContract)
      /\ DOMAIN contracts' = DOMAIN contracts
      /\ \A c \in DOMAIN contracts :
           /\ SameDefinition(contracts'[c], contracts[c])
           /\ c \in ActiveOf(id) => contracts'[c].state = "RETIRED"
           /\ c \notin ActiveOf(id) => contracts'[c].state = contracts[c].state
  BY <1>1, <1>2, RetiringFacts
<1>6. TypeOK'
  BY <1>3, <1>4, <1>5, MapIntro DEF TypeOK
<1>7. ContractBond'
  BY <1>1, <1>4, <1>5 DEF ContractBond, SameDefinition
<1>8. ActiveContractFenced'
  <2> SUFFICES ASSUME NEW c \in ActiveContracts'
               PROVE  /\ workloads'[contracts'[c].workload].state = "ACTIVE"
                      /\ workloads'[contracts'[c].workload].generation
                           = contracts'[c].workload_generation
                      /\ workloads'[contracts'[c].workload].active_contract = c
    BY DEF ActiveContractFenced
  <2>1. /\ c \in ActiveContracts /\ SameDefinition(contracts'[c], contracts[c])
        /\ contracts[c].workload # id
    BY <1>5 DEF ActiveContracts, InState, ActiveOf
  <2> QED
    BY <1>1, <1>4, <2>1 DEF ActiveContractFenced, ContractBond, SameDefinition,
       ActiveContracts, InState
<1>9. PointerNotDangling'
  <2> SUFFICES ASSUME NEW w \in DOMAIN workloads', workloads'[w].state = "ACTIVE",
                      workloads'[w].active_contract # NoContract
               PROVE  workloads'[w].active_contract \in ActiveOf(w)'
    BY DEF PointerNotDangling
  <2>1. w # id /\ workloads'[w] = workloads[w] /\ w \in DOMAIN workloads
    BY <1>4
  <2>2. PICK c : c = workloads[w].active_contract /\ c \in ActiveOf(w)
    BY <2>1, <1>1 DEF PointerNotDangling
  <2>3. c \in ActiveOf(w)'
    BY <2>1, <2>2, <1>5 DEF ActiveOf, ActiveContracts, InState, SameDefinition
  <2> QED
    BY <2>1, <2>2, <2>3
<1> QED
  BY <1>6, <1>7, <1>8, <1>9 DEF IInv

\* propose_contract() preserves the invariant: the new contract is not ACTIVE.
LEMMA ProposeContractIInv ==
  ASSUME IInv, NEW id \in Contract, NEW p \in Publisher, NEW w \in Workload,
         NEW g \in Generation, NEW b \in Body, ProposeContract(id, p, w, g, b)
  PROVE  IInv'
<1> DEFINE r == [owner |-> p, workload |-> w, workload_generation |-> g,
                 state |-> "PENDING", body |-> b]
<1>1. TypeOK /\ ContractBond /\ ActiveContractFenced /\ PointerNotDangling
  BY DEF IInv
<1>2. /\ id \notin DOMAIN contracts /\ w \in DOMAIN workloads
      /\ workloads[w].owner = p /\ workloads[w].generation = g
      /\ contracts' = Put(contracts, id, r) /\ workloads' = workloads
  BY DEF ProposeContract
<1>3. /\ r \in WorkloadContract /\ r.owner = p /\ r.workload = w
      /\ r.workload_generation = g /\ r.state = "PENDING"
  BY DEF WorkloadContract
<1> HIDE DEF r
<1>4. /\ IsMap(contracts', Contract, WorkloadContract)
      /\ DOMAIN contracts' = DOMAIN contracts \cup {id}
      /\ contracts'[id] = r
      /\ \A c \in DOMAIN contracts : contracts'[c] = contracts[c]
  BY <1>1, <1>2, <1>3 DEF TypeOK, Put, IsMap
<1>5. TypeOK'
  BY <1>1, <1>2, <1>4 DEF TypeOK
<1>6. ContractBond'
  BY <1>1, <1>2, <1>3, <1>4 DEF ContractBond, Generation
<1>7. ActiveContractFenced'
  BY <1>1, <1>2, <1>3, <1>4 DEF ActiveContractFenced, ActiveContracts, InState
<1>8. PointerNotDangling'
  <2>1. \A v \in DOMAIN workloads : ActiveOf(v) \subseteq ActiveOf(v)'
    BY <1>4 DEF ActiveOf, ActiveContracts, InState
  <2> QED
    BY <1>1, <1>2, <2>1 DEF PointerNotDangling
<1> QED
  BY <1>5, <1>6, <1>7, <1>8 DEF IInv

\* activate_contract() preserves the invariant: the contract it activates is at
\* its workload's generation, and the one it displaces is retired.
LEMMA ActivateContractIInv ==
  ASSUME IInv, NEW id \in Contract, NEW p \in Publisher, ActivateContract(id, p)
  PROVE  IInv'
<1> DEFINE w == contracts[id].workload
           R == Retiring(ActiveOf(w))
           r == [workloads[w] EXCEPT !.active_contract = id, !.state = "ACTIVE"]
<1>1. TypeOK /\ ContractBond /\ ActiveContractFenced /\ PointerNotDangling
  BY DEF IInv
<1>2. /\ id \in DOMAIN contracts /\ contracts[id].state = "PENDING"
      /\ w \in DOMAIN workloads
      /\ workloads[w].generation = contracts[id].workload_generation
      /\ contracts' = [R EXCEPT ![id].state = "ACTIVE"]
      /\ workloads' = [workloads EXCEPT ![w] = r]
  BY DEF ActivateContract
<1>3. /\ DOMAIN workloads \subseteq Workload
      /\ DOMAIN contracts \subseteq Contract
      /\ \A v \in DOMAIN workloads : workloads[v] \in WorkloadRecord
  BY <1>1, TableFacts
<1>4. /\ IsMap(R, Contract, WorkloadContract)
      /\ DOMAIN R = DOMAIN contracts
      /\ \A c \in DOMAIN contracts :
           /\ SameDefinition(R[c], contracts[c])
           /\ c \in ActiveOf(w) => R[c].state = "RETIRED"
           /\ c \notin ActiveOf(w) => R[c].state = contracts[c].state
  BY <1>1, RetiringFacts
<1>5. \A c \in DOMAIN contracts : R[c] \in WorkloadContract
  BY <1>4, MapElim
<1> HIDE DEF R
<1>6. /\ contracts' \in [DOMAIN contracts -> WorkloadContract]
      /\ SameDefinition(contracts'[id], R[id])
      /\ contracts'[id].state = "ACTIVE"
      /\ \A c \in DOMAIN contracts : c # id => contracts'[c] = R[c]
  BY <1>2, <1>4, <1>5, MapElim DEF WorkloadContract, SameDefinition
<1>7. /\ DOMAIN contracts' = DOMAIN contracts
      /\ \A c \in DOMAIN contracts :
           /\ SameDefinition(contracts'[c], contracts[c])
           /\ (c # id /\ c \in ActiveOf(w)) => contracts'[c].state = "RETIRED"
           /\ (c # id /\ c \notin ActiveOf(w)) => contracts'[c].state = contracts[c].state
  BY <1>4, <1>6 DEF SameDefinition
<1>8. /\ r \in WorkloadRecord /\ r.owner = workloads[w].owner
       /\ r.generation = workloads[w].generation
       /\ r.state = "ACTIVE" /\ r.active_contract = id
  BY <1>2, <1>3, Zenon DEF WorkloadRecord
<1> HIDE DEF r, w
<1>9. /\ workloads' \in [DOMAIN workloads -> WorkloadRecord]
      /\ workloads'[w].owner = workloads[w].owner
      /\ workloads'[w].generation = workloads[w].generation
      /\ workloads'[w].state = "ACTIVE"
      /\ workloads'[w].active_contract = id
      /\ \A v \in DOMAIN workloads : v # w => workloads'[v] = workloads[v]
  BY <1>1, <1>2, <1>3, <1>8, MapElim DEF TypeOK
<1>10. TypeOK'
  BY <1>3, <1>6, <1>9, MapIntro, Zenon DEF TypeOK
<1>11. ContractBond'
  BY <1>1, <1>7, <1>9 DEF ContractBond, SameDefinition
<1>12. ActiveContractFenced'
  <2> SUFFICES ASSUME NEW c \in ActiveContracts'
               PROVE  /\ workloads'[contracts'[c].workload].state = "ACTIVE"
                      /\ workloads'[contracts'[c].workload].generation
                           = contracts'[c].workload_generation
                      /\ workloads'[contracts'[c].workload].active_contract = c
    BY DEF ActiveContractFenced
  <2>1. CASE c = id
    BY <1>2, <1>7, <1>9, <2>1 DEF SameDefinition, w
  <2>2. CASE c # id
    <3>1. c \in ActiveContracts /\ SameDefinition(contracts'[c], contracts[c])
          /\ contracts[c].workload # w
      BY <1>7, <2>2 DEF ActiveContracts, InState, ActiveOf
    <3> QED
      BY <1>1, <1>9, <3>1 DEF ActiveContractFenced, ContractBond, SameDefinition,
         ActiveContracts, InState
  <2> QED
    BY <2>1, <2>2
<1>13. PointerNotDangling'
  <2> SUFFICES ASSUME NEW v \in DOMAIN workloads', workloads'[v].state = "ACTIVE",
                      workloads'[v].active_contract # NoContract
               PROVE  workloads'[v].active_contract \in ActiveOf(v)'
    BY DEF PointerNotDangling
  <2>1. CASE v = w
    BY <1>2, <1>6, <1>7, <1>9, <2>1 DEF ActiveOf, ActiveContracts, InState, SameDefinition, w
  <2>2. CASE v # w
    <3>1. workloads'[v] = workloads[v] /\ v \in DOMAIN workloads
      BY <1>9, <2>2
    <3>2. PICK c : c = workloads[v].active_contract /\ c \in ActiveOf(v)
      BY <3>1, <1>1 DEF PointerNotDangling
    <3>3. c \in DOMAIN contracts /\ c # id /\ c \notin ActiveOf(w)
      BY <1>2, <2>2, <3>2 DEF ActiveOf, ActiveContracts, InState
    <3>4. c \in ActiveOf(v)'
      BY <3>2, <3>3, <1>7 DEF ActiveOf, ActiveContracts, InState, SameDefinition
    <3> QED
      BY <3>1, <3>2, <3>4
  <2> QED
    BY <2>1, <2>2
<1> QED
  BY <1>10, <1>11, <1>12, <1>13 DEF IInv

\* retire_contract() preserves the invariant: it resets the pointer to the
\* contract it retires.
LEMMA RetireContractIInv ==
  ASSUME IInv, NEW id \in Contract, NEW p \in Publisher, RetireContract(id, p)
  PROVE  IInv'
<1> DEFINE w == contracts[id].workload
           q == [contracts[id] EXCEPT !.state = "RETIRED"]
           r == [workloads[w] EXCEPT !.active_contract = NoContract]
<1>1. TypeOK /\ ContractBond /\ ActiveContractFenced /\ PointerNotDangling
  BY DEF IInv
<1>2. /\ id \in DOMAIN contracts
      /\ contracts' = [contracts EXCEPT ![id] = q]
      /\ workloads' = IF w \in DOMAIN workloads /\ workloads[w].active_contract = id
                      THEN [workloads EXCEPT ![w] = r] ELSE workloads
  BY DEF RetireContract
<1>3. /\ DOMAIN workloads \subseteq Workload /\ DOMAIN contracts \subseteq Contract
      /\ \A v \in DOMAIN workloads : workloads[v] \in WorkloadRecord
      /\ \A c \in DOMAIN contracts : contracts[c] \in WorkloadContract
  BY <1>1, TableFacts
<1>4. w \in DOMAIN workloads
  BY <1>1, <1>2 DEF ContractBond
<1>5. /\ r \in WorkloadRecord /\ r.owner = workloads[w].owner /\ r.state = workloads[w].state
      /\ r.generation = workloads[w].generation /\ r.active_contract = NoContract
  BY <1>3, <1>4 DEF WorkloadRecord
<1>6. q \in WorkloadContract /\ SameDefinition(q, contracts[id]) /\ q.state = "RETIRED"
  BY <1>2, <1>3 DEF WorkloadContract, SameDefinition
<1> HIDE DEF q, r, w
<1>7. /\ contracts' \in [DOMAIN contracts -> WorkloadContract]
      /\ DOMAIN contracts' = DOMAIN contracts
      /\ contracts'[id].state = "RETIRED"
      /\ \A c \in DOMAIN contracts :
           /\ SameDefinition(contracts'[c], contracts[c])
           /\ c # id => contracts'[c].state = contracts[c].state
  BY <1>1, <1>2, <1>3, <1>6, MapElim DEF TypeOK, SameDefinition
<1>8. /\ workloads' \in [DOMAIN workloads -> WorkloadRecord]
      /\ \A v \in DOMAIN workloads :
           /\ workloads'[v].owner = workloads[v].owner
           /\ workloads'[v].state = workloads[v].state
           /\ workloads'[v].generation = workloads[v].generation
           /\ workloads'[v].active_contract =
                IF v = w /\ workloads[v].active_contract = id
                THEN NoContract ELSE workloads[v].active_contract
  BY <1>1, <1>2, <1>3, <1>4, <1>5, MapElim DEF TypeOK
<1>9. TypeOK'
  BY <1>3, <1>7, <1>8, MapIntro, Zenon DEF TypeOK
<1>10. ContractBond'
  BY <1>1, <1>7, <1>8 DEF ContractBond, SameDefinition
<1>11. ActiveContractFenced'
  <2> SUFFICES ASSUME NEW c \in ActiveContracts'
               PROVE  /\ workloads'[contracts'[c].workload].state = "ACTIVE"
                      /\ workloads'[contracts'[c].workload].generation
                           = contracts'[c].workload_generation
                      /\ workloads'[contracts'[c].workload].active_contract = c
    BY DEF ActiveContractFenced
  <2>1. c # id /\ c \in ActiveContracts /\ SameDefinition(contracts'[c], contracts[c])
    BY <1>7 DEF ActiveContracts, InState
  <2> QED
    BY <1>1, <1>8, <2>1 DEF ActiveContractFenced, ContractBond, SameDefinition,
       ActiveContracts, InState
<1>12. PointerNotDangling'
  <2> SUFFICES ASSUME NEW v \in DOMAIN workloads', workloads'[v].state = "ACTIVE",
                      workloads'[v].active_contract # NoContract
               PROVE  workloads'[v].active_contract \in ActiveOf(v)'
    BY DEF PointerNotDangling
  <2>1. /\ v \in DOMAIN workloads /\ workloads[v].state = "ACTIVE"
        /\ workloads'[v].active_contract = workloads[v].active_contract
        /\ v = w => workloads[v].active_contract # id
    BY <1>8
  <2>2. PICK c : c = workloads[v].active_contract /\ c \in ActiveOf(v)
    BY <2>1, <1>1 DEF PointerNotDangling
  <2>3. c # id
    BY <2>1, <2>2 DEF ActiveOf, w
  <2>4. c \in ActiveOf(v)'
    BY <2>2, <2>3, <1>7 DEF ActiveOf, ActiveContracts, InState, SameDefinition
  <2> QED
    BY <2>1, <2>2, <2>4
<1> QED
  BY <1>9, <1>10, <1>11, <1>12 DEF IInv

-----------------------------------------------------------------------------
(* The theorems. *)

\* Every step of the registry preserves the invariant.
LEMMA NextIInv == IInv /\ [Next]_vars => IInv'
<1> SUFFICES ASSUME IInv, [Next]_vars PROVE IInv'
  OBVIOUS
<1>1. CASE UNCHANGED vars
  BY <1>1 DEF IInv, vars, TypeOK, ContractBond, ActiveContractFenced, PointerNotDangling,
              ActiveOf, ActiveContracts, InState
<1>2. CASE Next
  BY <1>2, DeclareNewIInv, DeclareAdvanceIInv, RetireWorkloadIInv, ProposeContractIInv,
     ActivateContractIInv, RetireContractIInv DEF Next
<1> QED
  BY <1>1, <1>2

\* Type correctness, the bond of contracts to workloads, and the fencing of
\* ACTIVE contracts by the workload's generation, for every registry.
THEOREM FencingHolds ==
  Spec => [](TypeOK /\ ContractBond /\ ActiveContractFenced /\ PointerNotDangling)
<1>1. IInv => TypeOK /\ ContractBond /\ ActiveContractFenced /\ PointerNotDangling
  BY DEF IInv
<1> QED
  BY <1>1, InitIInv, NextIInv, PTL DEF Spec

\* Every step keeps retirement, ownership and generations.
LEMMA NextKeepsFences == IInv /\ Next => KeepsFences
<1> SUFFICES ASSUME IInv, Next PROVE KeepsFences
  OBVIOUS
<1>1. /\ TypeOK
      /\ \A w \in DOMAIN workloads : workloads[w] \in WorkloadRecord
      /\ \A c \in DOMAIN contracts : contracts[c] \in WorkloadContract
  BY TableFacts DEF IInv
<1>2. ASSUME NEW D PROVE
        /\ DOMAIN Retiring(D) = DOMAIN contracts
        /\ \A c \in DOMAIN contracts : Retiring(D)[c].state \in {contracts[c].state, "RETIRED"}
  BY <1>1, RetiringFacts
<1>3. ASSUME NEW w \in Workload, NEW p \in Publisher, NEW g \in Generation, DeclareNew(w, p, g)
      PROVE  KeepsFences
  BY <1>1, <1>3 DEF DeclareNew, KeepsFences, Put, WorkloadRecord, Generation
<1>4. ASSUME NEW w \in Workload, NEW p \in Publisher, NEW g \in Generation,
             DeclareAdvance(w, p, g)
      PROVE  KeepsFences
  <2>1. /\ DOMAIN contracts' = DOMAIN contracts
        /\ \A c \in DOMAIN contracts : contracts'[c].state \in {contracts[c].state, "RETIRED"}
    BY <1>2, <1>4 DEF DeclareAdvance
  <2>2. /\ DOMAIN workloads' = DOMAIN workloads
        /\ workloads'[w].owner = workloads[w].owner
        /\ workloads'[w].generation = g
        /\ g > workloads[w].generation
        /\ \A v \in DOMAIN workloads : v # w => workloads'[v] = workloads[v]
    BY <1>1, <1>4, Zenon DEF DeclareAdvance, WorkloadRecord, Generation
  <2> QED
    BY <1>1, <2>1, <2>2 DEF KeepsFences, WorkloadRecord, Generation
<1>5. ASSUME NEW w \in Workload, NEW g \in Generation, RetireWorkload(w, g)
      PROVE  KeepsFences
  <2>1. /\ DOMAIN contracts' = DOMAIN contracts
        /\ \A c \in DOMAIN contracts : contracts'[c].state \in {contracts[c].state, "RETIRED"}
    BY <1>2, <1>5 DEF RetireWorkload
  <2>2. /\ DOMAIN workloads' = DOMAIN workloads
        /\ workloads'[w].owner = workloads[w].owner
        /\ workloads'[w].generation = workloads[w].generation
        /\ workloads'[w].state = "RETIRED"
        /\ \A v \in DOMAIN workloads : v # w => workloads'[v] = workloads[v]
    BY <1>1, <1>5 DEF RetireWorkload, WorkloadRecord
  <2> QED
    BY <1>1, <2>1, <2>2 DEF KeepsFences, WorkloadRecord, Generation
<1>6. ASSUME NEW c \in Contract, NEW p \in Publisher, NEW w \in Workload,
             NEW g \in Generation, NEW b \in Body, ProposeContract(c, p, w, g, b)
      PROVE  KeepsFences
  BY <1>1, <1>6 DEF ProposeContract, KeepsFences, Put, WorkloadRecord, Generation
<1>7. ASSUME NEW c \in Contract, NEW p \in Publisher, ActivateContract(c, p)
      PROVE  KeepsFences
  <2> DEFINE R == Retiring(ActiveOf(contracts[c].workload))
             w == contracts[c].workload
  <2>1. /\ DOMAIN R = DOMAIN contracts
        /\ \A d \in DOMAIN contracts : R[d].state \in {contracts[d].state, "RETIRED"}
    BY <1>2
  <2>2. contracts' = [R EXCEPT ![c].state = "ACTIVE"] /\ contracts[c].state = "PENDING"
    BY <1>7 DEF ActivateContract
  <2>3. /\ DOMAIN workloads' = DOMAIN workloads
        /\ w \in DOMAIN workloads => /\ workloads'[w].owner = workloads[w].owner
                                     /\ workloads'[w].generation = workloads[w].generation
                                     /\ workloads[w].state = "ACTIVE"
        /\ \A v \in DOMAIN workloads : v # w => workloads'[v] = workloads[v]
    BY <1>1, <1>7, Zenon DEF ActivateContract, WorkloadRecord
  <2> HIDE DEF R, w
  <2>4. /\ DOMAIN contracts' = DOMAIN contracts
        /\ \A d \in DOMAIN contracts : d # c => contracts'[d] = R[d]
    BY <2>1, <2>2
  <2> QED
    BY <1>1, <2>1, <2>2, <2>3, <2>4 DEF KeepsFences, WorkloadRecord, Generation
<1>8. ASSUME NEW c \in Contract, NEW p \in Publisher, RetireContract(c, p)
      PROVE  KeepsFences
  <2> DEFINE w == contracts[c].workload
  <2>1. /\ DOMAIN contracts' = DOMAIN contracts
        /\ \A d \in DOMAIN contracts : contracts'[d].state \in {contracts[d].state, "RETIRED"}
    BY <1>1, <1>8 DEF RetireContract, WorkloadContract
  <2>2. /\ DOMAIN workloads' = DOMAIN workloads
        /\ \A v \in DOMAIN workloads : /\ workloads'[v].owner = workloads[v].owner
                                       /\ workloads'[v].generation = workloads[v].generation
                                       /\ workloads'[v].state = workloads[v].state
    BY <1>1, <1>8 DEF RetireContract, WorkloadRecord
  <2> QED
    BY <1>1, <2>1, <2>2 DEF KeepsFences, WorkloadRecord, Generation
<1> QED
  BY <1>3, <1>4, <1>5, <1>6, <1>7, <1>8 DEF Next

\* No behaviour of the registry resurrects a retired contract or moves a
\* workload's generation or owner back.
THEOREM NoResurrectionHolds == Spec => NoResurrection
<1>1. IInv /\ [Next]_vars => [KeepsFences]_vars
  BY NextKeepsFences
<1> QED
  BY <1>1, InitIInv, NextIInv, PTL DEF Spec, NoResurrection

-----------------------------------------------------------------------------
(* The limits. *)

\* LimitsHold is inductive only together with the finiteness of the tables.
LInv == /\ IInv /\ LimitsHold
        /\ IsFiniteSet(DOMAIN workloads) /\ IsFiniteSet(DOMAIN contracts)

\* A step that keeps the tables' keys and adds no pending contract keeps the limits.
LEMMA NoGrowth ==
  ASSUME LInv, IInv', DOMAIN workloads' = DOMAIN workloads,
         DOMAIN contracts' = DOMAIN contracts, InState("PENDING")' \subseteq InState("PENDING")
  PROVE  LInv'
<1>1. IsFiniteSet(InState("PENDING"))
  BY FS_Subset DEF LInv, InState
<1>2. /\ Cardinality(InState("PENDING")') <= Cardinality(InState("PENDING"))
      /\ IsFiniteSet(InState("PENDING")')
  BY <1>1, FS_Subset
<1>3. Cardinality(InState("PENDING")') <= MaxPending
  BY <1>1, <1>2, FS_CardinalityType, LimitAssumption DEF LInv, LimitsHold
<1> QED
  BY <1>3 DEF LInv, LimitsHold

\* Every step keeps the limits: only DeclareNew and ProposeContract add, one each.
LEMMA NextLInv == LInv /\ [Next]_vars => LInv'
<1> SUFFICES ASSUME LInv, [Next]_vars PROVE LInv'
  OBVIOUS
<1>1. IInv'
  BY NextIInv DEF LInv
<1>2. /\ TypeOK
      /\ \A c \in DOMAIN contracts : contracts[c] \in WorkloadContract
  BY TableFacts DEF LInv, IInv
<1>3. ASSUME NEW D PROVE
        /\ DOMAIN Retiring(D) = DOMAIN contracts
        /\ \A c \in DOMAIN contracts : Retiring(D)[c].state \in {contracts[c].state, "RETIRED"}
  BY <1>2, RetiringFacts
<1>4. CASE UNCHANGED vars
  BY <1>1, <1>4, NoGrowth DEF vars, InState
<1>5. ASSUME NEW w \in Workload, NEW p \in Publisher, NEW g \in Generation, DeclareNew(w, p, g)
      PROVE  LInv'
  <2>1. /\ DOMAIN workloads' = DOMAIN workloads \cup {w} /\ w \notin DOMAIN workloads
        /\ contracts' = contracts /\ Cardinality(DOMAIN workloads) < MaxWorkloads
    BY <1>5 DEF DeclareNew, Put
  <2>2. /\ IsFiniteSet(DOMAIN workloads')
        /\ Cardinality(DOMAIN workloads') = Cardinality(DOMAIN workloads) + 1
        /\ Cardinality(DOMAIN workloads) \in Nat
    BY <2>1, FS_AddElement, FS_CardinalityType DEF LInv
  <2>3. Cardinality(DOMAIN workloads') <= MaxWorkloads
    BY <2>1, <2>2, LimitAssumption
  <2> QED
    BY <1>1, <2>1, <2>2, <2>3 DEF LInv, LimitsHold, InState
<1>6. ASSUME NEW c \in Contract, NEW p \in Publisher, NEW w \in Workload,
             NEW g \in Generation, NEW b \in Body, ProposeContract(c, p, w, g, b)
      PROVE  LInv'
  <2>1. /\ DOMAIN contracts' = DOMAIN contracts \cup {c} /\ c \notin DOMAIN contracts
        /\ workloads' = workloads
        /\ Cardinality(DOMAIN contracts) < MaxContracts
        /\ Cardinality(InState("PENDING")) < MaxPending
    BY <1>6 DEF ProposeContract, Put
  <2>2. InState("PENDING")' = InState("PENDING") \cup {c} /\ c \notin InState("PENDING")
    BY <1>6 DEF ProposeContract, Put, InState
  <2>3. IsFiniteSet(InState("PENDING"))
    BY FS_Subset DEF LInv, InState
  <2>4. /\ IsFiniteSet(DOMAIN contracts')
        /\ Cardinality(DOMAIN contracts') = Cardinality(DOMAIN contracts) + 1
        /\ Cardinality(DOMAIN contracts) \in Nat
    BY <2>1, FS_AddElement, FS_CardinalityType DEF LInv
  <2>5. /\ Cardinality(InState("PENDING")') = Cardinality(InState("PENDING")) + 1
        /\ Cardinality(InState("PENDING")) \in Nat
    BY <2>2, <2>3, FS_AddElement, FS_CardinalityType
  <2>6. /\ Cardinality(DOMAIN contracts') <= MaxContracts
        /\ Cardinality(InState("PENDING")') <= MaxPending
    BY <2>1, <2>4, <2>5, LimitAssumption
  <2> QED
    BY <1>1, <2>1, <2>4, <2>6 DEF LInv, LimitsHold
<1>7. ASSUME NEW w \in Workload, NEW p \in Publisher, NEW g \in Generation,
             DeclareAdvance(w, p, g)
      PROVE  LInv'
  <2>1. DOMAIN workloads' = DOMAIN workloads /\ DOMAIN contracts' = DOMAIN contracts
    BY <1>3, <1>7 DEF DeclareAdvance
  <2>2. InState("PENDING")' \subseteq InState("PENDING")
    BY <1>3, <1>7 DEF DeclareAdvance, InState
  <2> QED
    BY <1>1, <2>1, <2>2, NoGrowth
<1>8. ASSUME NEW w \in Workload, NEW g \in Generation, RetireWorkload(w, g)
      PROVE  LInv'
  <2>1. DOMAIN workloads' = DOMAIN workloads /\ DOMAIN contracts' = DOMAIN contracts
    BY <1>3, <1>8 DEF RetireWorkload
  <2>2. InState("PENDING")' \subseteq InState("PENDING")
    BY <1>3, <1>8 DEF RetireWorkload, InState
  <2> QED
    BY <1>1, <2>1, <2>2, NoGrowth
<1>9. ASSUME NEW c \in Contract, NEW p \in Publisher, ActivateContract(c, p)
      PROVE  LInv'
  <2> DEFINE R == Retiring(ActiveOf(contracts[c].workload))
  <2>1. /\ DOMAIN R = DOMAIN contracts
        /\ \A d \in DOMAIN contracts : R[d].state \in {contracts[d].state, "RETIRED"}
    BY <1>3
  <2>2. /\ contracts' = [R EXCEPT ![c].state = "ACTIVE"] /\ contracts[c].state = "PENDING"
        /\ DOMAIN workloads' = DOMAIN workloads
    BY <1>9 DEF ActivateContract
  <2> HIDE DEF R
  <2>3. DOMAIN contracts' = DOMAIN contracts
    BY <2>1, <2>2
  <2>4. InState("PENDING")' \subseteq InState("PENDING")
    BY <2>1, <2>2, <2>3 DEF InState
  <2> QED
    BY <1>1, <2>2, <2>3, <2>4, NoGrowth
<1>10. ASSUME NEW c \in Contract, NEW p \in Publisher, RetireContract(c, p)
      PROVE  LInv'
  <2>1. DOMAIN workloads' = DOMAIN workloads /\ DOMAIN contracts' = DOMAIN contracts
    BY <1>10 DEF RetireContract
  <2>2. InState("PENDING")' \subseteq InState("PENDING")
    BY <1>2, <1>10 DEF RetireContract, InState, WorkloadContract
  <2> QED
    BY <1>1, <2>1, <2>2, NoGrowth
<1> QED
  BY <1>4, <1>5, <1>6, <1>7, <1>8, <1>9, <1>10 DEF Next

\* The configured limits on workloads, contracts and pending contracts hold.
THEOREM LimitsAreKept == Spec => []LimitsHold
<1>1. Init => LInv
  <2> SUFFICES ASSUME Init PROVE LInv
    OBVIOUS
  <2>1. DOMAIN workloads = {} /\ DOMAIN contracts = {}
    BY EmptyMapFacts DEF Init
  <2>2. InState("PENDING") = {}
    BY <2>1 DEF InState
  <2> QED
    BY <2>1, <2>2, InitIInv, FS_EmptySet, LimitAssumption DEF LInv, LimitsHold
<1>2. LInv => LimitsHold
  BY DEF LInv
<1> QED
  BY <1>1, <1>2, NextLInv, PTL DEF Spec

=============================================================================
