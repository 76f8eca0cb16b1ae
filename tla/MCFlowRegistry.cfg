CONSTANTS
  k1 = k1
  k2 = k2
  k3 = k3
  Key = {k1, k2}
  MaxAcceptable = 2
  MaxGeneration = 3
  MaxHistory = 2
  MaxFlows = 1
SYMMETRY Symmetry
SPECIFICATION Spec
INVARIANTS
  TypeOK
  FencedStaysFenced
  HistoryBelowCurrent
  LimitsHold
