CONSTANTS
  Publisher = {p1, p2}
  Session = {s1, s2, s3}
  NoSession = NoSession
  Source = {1, 5}
  MaxBoot = 2
  MaxGeneration = 2
  MaxTick = 3
  MaxPublishers = 1
  IdleTicks = 1
SYMMETRY Symmetry
SPECIFICATION Spec
INVARIANTS
  TypeOK
  RecordCarriesFence
  SessionListed
  OpenNeverDead
PROPERTIES
  FencesNeverFall
