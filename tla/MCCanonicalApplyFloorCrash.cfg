SPECIFICATION LiveSpec
CONSTANTS
  g = g
  a1 = a1
  a2 = a2
  a3 = a3
  b1 = b1
  b2 = b2
  b3 = b3
  c1 = c1
  t1 = t1
  t2 = t2
  t3 = t3
  NoBlock = NoBlock
  Genesis = g
  Blocks <- Deep
  Parent <- DeepParent
  Tx <- DeepTx
  Score <- DeepScore
  Rank <- DeepRank
  WrongRoot = {}
  Unexecutable = {}
  Depth = 1
  ForwardCap = 2
  RecheckSteps = 1
  Chunk = 1
  PruneFloor = 0
  Loaded = {g, a1, a2, a3}
  Arriving = {b2, c1}
  Own = {}
  Certifiable = {a1}
  MaxFaults = 0
  RestoreFails = FALSE
  MaxCrashes = 1
PROPERTIES FinalKept
CHECK_DEADLOCK FALSE
