CONSTANTS
  a = a
  s1 = s1
  s2 = s2
  t1 = t1
  f1 = f1
  Publisher = {1, 2}
  Session = {s1, s2}
  NoSession = NoSession
  Source = {5}
  Claim = {5}
  Topic = {t1}
  Class = {a}
  Flow = {f1}
  Workload = {}
  NoWorkload = NoWorkload
  Contract = {}
  NoContract = NoContract
  Body = {}
  PolicyBody <- OnePolicy
  EvidenceIdOf <- ScatteredIds
  Ask = {}
  MaxBoot = 1
  MaxEvidenceGeneration = 1
  MaxFlowGeneration = 2
  MaxWorkloadGeneration = 1
  MaxTick = 3
  MaxEpoch = 1
  MaxSeq = 2
  MaxAuthority = 5
  MaxPolicy = 1
  IdleTicks = 1
  MaxHistory = 2
  MaxRecords = 2
  MaxPerFlow = 2
  MaxFlowIndex = 1
  MaxDecisions = 1
  MaxMemo = 1
  MaxRevocations = 1
SYMMETRY Symmetry
SPECIFICATION Spec
CHECK_DEADLOCK FALSE
INVARIANTS
  FlowFencesEvidence
  IdleHasNoCurrent
