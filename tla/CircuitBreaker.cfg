SPECIFICATION FairSpec
CONSTANTS
  Calls = {c1, c2, c3, c4}
  FailureThreshold = 3
  SuccessThreshold = 3
  RecoveryTimeout = 3
INVARIANT
  TypeOK
PROPERTIES
  NoProbeTooEarly
  OpensOnlyOnStreak
  ClosesOnlyOnStreak
  RecoversAfterOutage
