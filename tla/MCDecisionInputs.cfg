CONSTANTS
  Candidate <- Candidates
  Input <- Inputs
  MaxPool = 3
  MaxTick = 2
SPECIFICATION Spec
CHECK_DEADLOCK FALSE
INVARIANTS
  OneWinner
  CapKeepsReasons
PROPERTIES
  InertIsInert
  WeakerNeverReplaces
  LossNeverTurns
