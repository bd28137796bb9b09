SPECIFICATION Spec
CONSTANTS
  a = a
  b = b
  http = http
  Unnamed = Unnamed
  PortNames = {Unnamed, http}
  NumericPorts = {80}
  Objects <- MCObjects
  Requests = {r1}
  NoAddr = NoAddr
  IndexSize = 3
  MaxUpdates = 2
  MaxPicks = 6
\* Every bound stops the system in the end.
CHECK_DEADLOCK FALSE
INVARIANT Dialable
