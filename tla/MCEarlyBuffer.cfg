SPECIFICATION LiveSpec
CONSTANTS
  a = a
  c = c
  x = x
  None = None
  Voters = {a, c}
  Heights = {1, 2}
  Hashes = {x}
  Governs <- MCGoverns
  Loaded = {}
  PerVoter <- MCPerVoter
  Total <- MCTotal
  Horizon = 1
  MaxTip = 3
INVARIANTS TypeOK FairShare Placed
PROPERTIES NoCrowding Rechecked
CHECK_DEADLOCK FALSE
