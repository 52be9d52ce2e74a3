SPECIFICATION LiveSpec
CONSTANTS
  g = g
  a1 = a1
  a2 = a2
  a3 = a3
  b1 = b1
  b2 = b2
  b3 = b3
  c1 = c1
  t1 = t1
  t2 = t2
  t3 = t3
  NoBlock = NoBlock
  Genesis = g
  Blocks <- Fork
  Parent <- ForkParent
  Tx <- ForkTx
  Score <- ForkScore
  Rank <- ForkRank
  WrongRoot = {b3}
  Unexecutable = {}
  Depth = 1
  ForwardCap = 2
  RecheckSteps = 1
  Chunk = 1
  PruneFloor = 0
  Loaded = {g, a1, a2}
  Arriving = {b1, b2, b3}
  Own = {}
  Certifiable = {}
  MaxFaults = 1
  RestoreFails = FALSE
  MaxCrashes = 1
INVARIANTS DiskInv MemoryConsistent
PROPERTIES Converges
CHECK_DEADLOCK FALSE
