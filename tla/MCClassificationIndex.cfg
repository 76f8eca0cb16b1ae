CONSTANTS
  f1 = f1
  f2 = f2
  e1 = e1
  k1 = k1
  k2 = k2
  k3 = k3
  a1 = a1
  a2 = a2
  Flow = {f1}
  Evidence = {e1}
  NoEvidence = NoEvidence
  Key = {k1, k2, k3}
  Answer = {a1, a2}
  MaxGeneration = 3
  MaxTick = 3
  MaxDecisions = 2
  MaxMemo = 2
  MaxRevocations = 2
SYMMETRY Symmetry
SPECIFICATION Spec
INVARIANTS
  TypeOK
  MemoOrderAgrees
