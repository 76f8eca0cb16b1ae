CONSTANTS
  f1 = f1
  f2 = f2
  f3 = f3
  Flow = {f1, f2, f3}
  Evidence = {1, 2, 3, 4}
  MaxSeq = 5
  MaxEpoch = 2
  MaxRecords = 3
  MaxPerFlow = 2
  MaxFlowIndex = 2
SYMMETRY Symmetry
SPECIFICATION Spec
INVARIANTS
  TypeOK
  IndexesAgree
  RingsBounded
  CurrentIsOfThisEpoch
  CurrentIsReachable
PROPERTY NeverBackToCurrent
