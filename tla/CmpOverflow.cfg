\* A fragment of two operations ends.
CHECK_DEADLOCK FALSE
SPECIFICATION Spec
CONSTANTS
  WordBits = 4
  WordMod = 16
INVARIANT CmpIsFaithful
