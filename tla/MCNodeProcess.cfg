SPECIFICATION FairSpec
CONSTANTS
  s1 = s1
  s2 = s2
  b1 = b1
  b2 = b2
  NoConf = NoConf
  Shards = {s1, s2}
  MaxEpoch = 2
  Bootnodes = {b1, b2}
  MaxRetries = 1
  MaxFiles = 2
INVARIANTS
  TypeOK
  CacheIsCurrent
  NoEpochMissing
  RunsConnected
  AnswerHasHandler
PROPERTIES
  OnlyReplacingBreaksStore
  QuitStops
  BootstrapEnds
CHECK_DEADLOCK FALSE
