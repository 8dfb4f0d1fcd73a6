SPECIFICATION FairRetrySpec
CONSTANTS
  k1 = k1
  k2 = k2
  k3 = k3
  gemini = gemini
  backup = backup
  pro = pro
  flash = flash
  Keys <- MCKeys
  Groups <- MCGroups
  Models <- MCOneModel
  SortedKeys <- MCSortedKeys
  Configs <- MCTwoKeys
  Replies <- MCRetryReplies
  DefaultGroupId = DefaultGroupId
  NoGroup = NoGroup
  NoKey = NoKey
  NoReply = NoReply
  MaxReloads = 0
  Requests = {r1, r2}
PROPERTY
  BlockedKeysReturn
