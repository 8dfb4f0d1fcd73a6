SPECIFICATION Spec
CONSTANTS
  None = None
  Unreadable = Unreadable
  DefaultTarget = "gemini"
  Texts <- MCTexts
  Scheme <- MCScheme
  Requests = {r1}
  Files <- MCFiles
  Updates <- MCUpdates
  Edits <- MCEdits
  Envs <- MCEnvs
  Ports <- MCPorts
  Ephemeral <- MCEphemeral
  MaxPending = 1
INVARIANTS
  TypeOK
  SavedIsAccepted
  RestartKeepsConfiguration
  RequestsFindTheirWay
PROPERTY
  EditsLostOnlyByOverlap
