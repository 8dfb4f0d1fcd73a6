SPECIFICATION Spec
CONSTANTS
  Proxies = {p1, p2}
  Watchers = {w1}
  Editors = {e1, e2}
  Worker = Worker
  NoConfig = NoConfig
  ValidConfigs <- MCValidConfigs
  ChannelSize = 1
SYMMETRY MCSymmetry
INVARIANTS
  TypeOK
  ReportsAgree
  NoUpdateSkipped
  DeadlockNeedsAdminRequest
PROPERTY
  InstalledIsSaved
\* the worker, a health check and an administrator may wait for each other
CHECK_DEADLOCK FALSE
