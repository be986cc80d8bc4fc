SPECIFICATION FairSpec
CONSTANTS
  r1 = r1
  r2 = r2
  r3 = r3
  r4 = r4
  r5 = r5
  Callers = {r1, r2, r3, r4, r5}
  KeysOf <- MCKeysOf
  Kind <- MCKind
  Path <- MCPath
CHECK_DEADLOCK FALSE
INVARIANTS Exclusive HeldByHolders NoneStranded
PROPERTY OnlyOvertakingStarves
