SPECIFICATION Spec
CONSTANTS
  x = x
  y = y
  w = w
  self = self
  a = a
  b = b
  z = z
  None = None
  Heights = {1, 2}
  Hashes = {x, y, w}
  Voters = {self, a, b, z}
  Committee <- Everyone
  Self = self
  Settings <- ForkAndLine
  MinCommittee = 4
  MaxPending = 1
  MaxFinalized = 1
SYMMETRY PeerSymmetry
INVARIANTS TypeOK DurableBeforeVisible NoLockout NoStrandedVote CertificatesSound NoZombie
PROPERTIES CertificateStable GuardedFinalizes
CHECK_DEADLOCK FALSE
