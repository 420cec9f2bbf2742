SPECIFICATION Spec
CONSTANTS
  Nil = Nil
  n1 = n1
  n2 = n2
  n3 = n3
  h1 = h1
  h2 = h2
  Nodes = {n1, n2}
  PoWBlocks = {h1, h2}
  Epochs = {0}
  Validators <- AllValidate
  ShardConfs = {0}
  ValidConfs = {0}
  Height <- HeightOfName
  Faults = {}
  MaxFetchBlocks = 1
  MaxReturnBlocks = 1
  MaxWorkers = 1
  MaxRootRound = 3
  MaxCrashes = 1
INVARIANT
  RefusedBlocksAreMissing
