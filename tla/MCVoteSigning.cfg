SPECIFICATION Spec
CONSTANTS
  Heights <- MCHeights
  Hashes = {x, y}
  Interval = 2
  MaxSignedHeights = 2
  None = None
SYMMETRY HashSymmetry
INVARIANTS NoEquivocation AuthorizedAlone RecordInv
PROPERTY StopHaltsSigning
