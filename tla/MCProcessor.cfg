SPECIFICATION Spec
CONSTANTS
  Keys = {k1, k2}
  NoKey = NoKey
  MaxVersion = 2
  MaxEvents = 2
\* A controller with nothing to do waits, and one that was stopped has ended.
CHECK_DEADLOCK FALSE
INVARIANTS
  TypeOK
  QueueDisciplined
  VersionsInOrder
  NoLostUpdate
PROPERTIES
  NeverBackwards
  Reconciles
  Drains
  RSpec
