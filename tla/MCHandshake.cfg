SPECIFICATION Spec
CONSTANTS
  e1 = e1
  e2 = e2
  d = d
  Entries = {e1, e2, d}
  Lists <- MCLists
  NoCert = NoCert
  NoLists = NoLists
INVARIANTS
  TypeOK
  ServedForName
  Preference
  OwnNameFirst
  
PROPERTIES
  HandshakeEnds
