SPECIFICATION Spec
CONSTANTS
  Turns = {t1, t2, t3}
  MaxCrashes = 2
  MaxFaults = 3
  None = None
SYMMETRY MCSymmetry
INVARIANTS
  LeaseStands
  NothingSkipped
  Recoverable
