\* Safety: two secrets, one ingress that is added again and again.
SPECIFICATION Spec
CONSTANTS
  s1 = s1
  s2 = s2
  c1 = c1
  c2 = c2
  h1 = h1
  h2 = h2
  Secrets = {s1, s2}
  Contents = {c1, c2}
  Absent = Absent
  Ings = {i1}
  Hosts = {h1, h2}
  TLSLists <- MCTLSLists
  Defaults <- MCDefaults
  Incomplete <- MCIncomplete
  Malformed <- MCMalformed
  NoCert = NoCert
  NoEntry = NoEntry
  NoSecret = NoSecret
  NoIng = NoIng
CHECK_DEADLOCK FALSE
INVARIANTS
  TypeOK
  OwnCertificate
  
  FreshUnlessOverlapped
PROPERTIES
  ReadersUndisturbed
