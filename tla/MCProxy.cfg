SPECIFICATION Spec
CONSTANTS
  site = site
  s = s
  ip1 = ip1
  ip2 = ip2
  web = web
  api = api
  Names = {1}
  Namespaces = {1}
  Hosts = {site}
  NoHost = NoHost
  WildcardOf <- MCWildcardOf
  Segments = {s, Star}
  Star = Star
  Regexps = {}
  ReMatch <- MCReMatch
  Invalid = {}
  IngObjects <- MCIngObjects
  Paths <- MCPaths
  DefaultRedirect = TRUE
  NoRule = NoRule
  NoIngress = NoIngress
  PortNames = {Unnamed, web, api}
  Unnamed = Unnamed
  NumericPorts = {}
  EpsObjects <- MCEpsObjects
  NoAddr = NoAddr
  IndexSize = 3
  MaxUpdates = 2
  MaxPicks = 1
  SvcObjects <- MCSvcObjects
  NoService = NoService
  Requests = {r1}
  Host = site
\* Every bound stops the system in the end.
CHECK_DEADLOCK FALSE
INVARIANT
  TypeOK
PROPERTIES
  OneMoment
  Decided
