SPECIFICATION LiveSpec
CONSTANTS
  x = x
  y = y
  w = w
  self = self
  a = a
  b = b
  z = z
  None = None
  Heights = {1}
  Hashes = {x}
  Voters = {self, a, b, z}
  Committee <- Everyone
  Self = self
  Settings <- OneBoundary
  MinCommittee = 4
  MaxPending = 1
  MaxFinalized = 1
PROPERTIES QuorumFinalizes
CHECK_DEADLOCK FALSE
