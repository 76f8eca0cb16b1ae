CONSTANTS
  Publisher = {p1, p2}
  Workload = {w1, w2, w3}
  Contract = {c1, c2, c3, c4}
  Body = {b}
  NoContract = NoContract
  MaxGeneration = 3
  MaxWorkloads = 2
  MaxContracts = 3
  MaxPending = 2
SYMMETRY Symmetry
SPECIFICATION Spec
CHECK_DEADLOCK FALSE
INVARIANTS
  TypeOK
  ContractBond
  ActiveContractFenced
  PointerNotDangling
  LimitsHold
PROPERTIES
  NoResurrection
