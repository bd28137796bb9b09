\* Liveness: one secret, two ingresses.
SPECIFICATION Spec
CONSTANTS
  s1 = s1
  s2 = s2
  c1 = c1
  c2 = c2
  h1 = h1
  h2 = h2
  Secrets = {s1}
  Contents = {c1}
  Absent = Absent
  Ings = {i1, i2}
  Hosts = {h1}
  TLSLists <- MCOneTLSList
  Defaults <- MCOneDefault
  Incomplete = {}
  Malformed = {}
  NoCert = NoCert
  NoEntry = NoEntry
  NoSecret = NoSecret
  NoIng = NoIng
CHECK_DEADLOCK FALSE
PROPERTIES
  CallsReturn
  HandshakesReturn
