SPECIFICATION Spec
CONSTANTS
  k1 = k1
  k2 = k2
  Instances = {i1, i2}
  Keys <- MCKeys
  Configs <- MCConfigs
  MaxFailures = 2
  TrueText = "true"
  NoKey = NoKey
  NoHash = NoHash
  MaxInterrupted = 1
SYMMETRY MCSymmetry
INVARIANTS
  TypeOK
  OverrunBounded
PROPERTIES
  OnlyExpiryUnblocks
  ImplementsLedger
