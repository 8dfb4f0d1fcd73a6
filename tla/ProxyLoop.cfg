SPECIFICATION RotationSpec
CONSTANTS
  k1 = k1
  k2 = k2
  k3 = k3
  gemini = gemini
  backup = backup
  pro = pro
  flash = flash
  Keys <- MCKeys
  Groups <- MCGroups
  Models <- MCModels
  SortedKeys <- MCSortedKeys
  Configs <- MCConfigs
  Replies <- MCReplies
  DefaultGroupId = DefaultGroupId
  NoGroup = NoGroup
  NoKey = NoKey
  NoReply = NoReply
  MaxReloads = 1
  Requests = {r1, r2}
INVARIANTS
  TypeOK
  RotationBalanced
PROPERTIES
  ExhaustionIsReal
  ImplementsKeyPool
SYMMETRY MCSymmetry
