SPECIFICATION Spec
CONSTANTS
  Sec = "secrets"
  Ing = "ingresses"
  Others = {"ingresses"}
  Objects = {o1}
  MaxActive = 2
\* A process that has returned stops.
CHECK_DEADLOCK FALSE
INVARIANTS
  TypeOK
  DefaultsFirst
  LiveTables
PROPERTIES
  ReadyServes
  AllEnd
  Ends
