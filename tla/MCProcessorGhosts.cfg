SPECIFICATION Spec
CONSTANTS
  Keys = {k1, k2}
  NoKey = NoKey
  MaxVersion = 2
  MaxEvents = 2
CHECK_DEADLOCK FALSE
INVARIANT NoGhosts
