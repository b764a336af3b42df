SPECIFICATION Spec
CONSTANTS
  d1 = d1
  d2 = d2
  Dispatchers = {d1, d2}
  Horizon = 3
  Clock = {1, 3}
  Definitions <- MCDefinitions
  Day = 2
  Probes = 3
  BatchLimit = 1
  CountLimit = 1
  MaxRevision = 2
INVARIANTS TypeOK NothingSlipsBy RevokedWorkIsCancelled
PROPERTIES NothingStaysOverdue
CHECK_DEADLOCK FALSE
