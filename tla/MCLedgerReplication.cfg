SPECIFICATION FairSpec
CONSTANTS
  p1 = p1
  p2 = p2
  p3 = p3
  w1 = w1
  Peers = {p1, p2, p3}
  Reachable = {p1, p2}
  Steady = {p1}
  Workers = {w1}
  MaxFetchBlocks = 1
  MaxReturnBlocks = 2
  MaxInFlight = 1
  MaxRound = 3
INVARIANTS
  ServedBlocksAreSolid
  NormalHasAll
PROPERTY
  Recovers
CHECK_DEADLOCK FALSE
