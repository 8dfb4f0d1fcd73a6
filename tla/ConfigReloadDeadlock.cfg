SPECIFICATION FairSpec
CONSTANTS
  Proxies = {p1}
  Watchers = {w1}
  Editors = {e1, e2}
  Worker = Worker
  NoConfig = NoConfig
  ValidConfigs <- MCValidConfigs
  ChannelSize = 1
PROPERTY
  ReloadEnds
\* the worker and a health check wait for each other
CHECK_DEADLOCK FALSE
