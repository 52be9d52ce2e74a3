SPECIFICATION LiveSpec
CONSTANTS
  g = g
  a1 = a1
  b1 = b1
  a2 = a2
  c2 = c2
  a3 = a3
  a4 = a4
  c4 = c4
  m5 = m5
  n5 = n5
  x1 = x1
  x2 = x2
  NoBlock = NoBlock
  Genesis = g
  Blocks <- MCBlocks
  SelectedParent <- MCSelectedParent
  MergeParents <- MCMergeParents
  Height <- MCHeight
  HeaderScore <- MCHeaderScore
  Rank <- MCRank
  BadTime = {}
  BadBody = {}
  K = 1
  ScoreWindow = 2
  MaxDepth = 2
  MaxParents = 3
  Own = {m5, n5}
  Withdrawn = {x1}
  Offered = {a1, a4, c4, m5}
  Modes <- MCModes
  Retain = 2
  MaxOrphans = 2
  SupersedeWalkCap = 1
  MaxFaults = 1
INVARIANTS TypeOK DagClosed ScoresExact ForkChoiceHead
PROPERTIES Heals
CHECK_DEADLOCK FALSE
