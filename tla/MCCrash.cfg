SPECIFICATION Spec
CONSTANTS
  Nil = Nil
  n1 = n1
  n2 = n2
  n3 = n3
  h1 = h1
  h2 = h2
  Nodes = {n1, n2}
  PoWBlocks = {h1, h2}
  Epochs = {0, 1}
  Validators <- Growing
  ShardConfs = {0, 1}
  ValidConfs = {0, 1}
  Height <- HeightOfName
  Faults = {"storeBlock"}
  MaxFetchBlocks = 1
  MaxReturnBlocks = 2
  MaxWorkers = 1
  MaxRootRound = 3
  MaxCrashes = 1
INVARIANTS
  TypeOK
  StoredBlocksCertified
  LedgerIsChain
  NormalIsUpToDate
  FinalizedHeightsIncrease
  EpochChangeNotLost
PROPERTIES
  LatestCertificateAdvances
  ImplementsLedger
