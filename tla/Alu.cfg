\* A fragment of two operations ends.
CHECK_DEADLOCK FALSE
SPECIFICATION Spec
CONSTANTS
  WordBits = 4
  WordMod = 16
INVARIANT UnsignedBranches
INVARIANT SignedBranches
INVARIANT SignedDivision
INVARIANT SmallProducts
INVARIANT CracksMemory
INVARIANT TestBranches
