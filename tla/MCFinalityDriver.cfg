SPECIFICATION LiveSpec
CONSTANTS
  p = p
  q = q
  main = main
  fork = fork
  None = None
  Hashes = {p, q}
  Chains = {main, fork}
  Start = main
  BlockAt <- MCBlockAt
  Interval = 2
  VoteDepth = 1
  MaxBoundaries = 1
  MaxAttempts = 2
  MaxRetries = 1
  MaxRevisits = 1
  RetryHorizon = 1
  MaxTip = 5
  MaxReorgs = 1
  MaxStops = 1
  MaxFaults = 1
  MaxCrashes = 1
INVARIANTS DriverInv
PROPERTIES FirstReportBuried VoteGetsOut Revisited
CHECK_DEADLOCK FALSE
