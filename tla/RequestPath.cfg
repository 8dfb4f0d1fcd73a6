SPECIFICATION Spec
CONSTANTS
  Requests = {r1, r2}
  Keys = {k1, k2}
  clientKey = clientKey
  NoKey = NoKey
  NoLimit = NoLimit
  NoText = NoText
  NoReply = NoReply
  Shapes <- MCShapes
  Replies <- MCReplies
  Settings <- MCSettings
  Tiktoken = TRUE
  MaxRequestSize = 10
  MaxAttempts = 2
  MaxReloads = 1
SYMMETRY MCSymmetry
INVARIANTS
  TypeOK
  MessagesFramed
  AttemptsCarryOwnKey
  TokenVerdictsWarranted
  NoSilentTruncation
  ErrorsHaveRequests
