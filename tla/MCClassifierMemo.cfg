CONSTANTS
  a = a
  s1 = s1
  t1 = t1
  f1 = f1
  Publisher = {1}
  Session = {s1}
  NoSession = NoSession
  Source = {5}
  Claim = {5}
  Topic = {t1}
  Class = {a}
  Flow = {f1}
  Workload = {}
  NoWorkload = NoWorkload
  Contract = {}
  NoContract = NoContract
  Body = {}
  PolicyBody <- TwoPolicies
  EvidenceIdOf <- ScatteredIds
  Ask = {1}
  MaxBoot = 2
  MaxEvidenceGeneration = 1
  MaxFlowGeneration = 1
  MaxWorkloadGeneration = 1
  MaxTick = 3
  MaxEpoch = 2
  MaxSeq = 2
  MaxAuthority = 4
  MaxPolicy = 2
  IdleTicks = 1
  MaxHistory = 2
  MaxRecords = 3
  MaxPerFlow = 3
  MaxFlowIndex = 1
  MaxDecisions = 1
  MaxMemo = 1
  MaxRevocations = 1
SYMMETRY Symmetry
SPECIFICATION Spec
CHECK_DEADLOCK FALSE
INVARIANT MemoSound
