SPECIFICATION Spec
CONSTANTS
  h1 = h1
  h2 = h2
  hw = hw
  s = s
  t = t
  b1 = b1
  b2 = b2
  re = re
  bad = bad
  Names = {1, 2}
  Namespaces = {1, 2}
  Hosts = {h1, h2, hw}
  NoHost = NoHost
  WildcardOf <- MCWildcardOf
  Backends = {b1, b2}
  Regexps = {re, bad}
  ReMatch <- MCReMatch
  Invalid = {bad}
  Segments = {s, t, Star}
  Star = Star
  Objects <- MCObjects
  Paths <- MCPaths
  DefaultRedirect = TRUE
  NoRule = NoRule
  NoIngress = NoIngress
INVARIANTS
  TypeOK
  
  MostSpecific

  
