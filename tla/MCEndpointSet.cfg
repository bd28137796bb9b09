\* The index wraps at a number that is no multiple of the two addresses, as 2^64
\* is none of three.
SPECIFICATION Spec
CONSTANTS
  a = a
  b = b
  http = http
  Unnamed = Unnamed
  PortNames = {Unnamed, http}
  NumericPorts = {80}
  Objects <- MCObjects
  Requests = {r1, r2}
  NoAddr = NoAddr
  IndexSize = 3
  MaxUpdates = 2
  MaxPicks = 6
SYMMETRY RequestSymmetry
\* Every bound stops the system in the end.
CHECK_DEADLOCK FALSE
INVARIANTS
  TypeOK
  NeverEmpty
  
  CurrentAddress
