SPECIFICATION Spec
CONSTANTS
  alice = alice
  bob = bob
  Secret = {"s1", "s2"}
  None = None
  MaxStarts = 1
  MaxActs = 2
INVARIANTS
  VerifiedIsMutual
  Completes
  LockShown
SYMMETRY MCSymmetry
CHECK_DEADLOCK FALSE
