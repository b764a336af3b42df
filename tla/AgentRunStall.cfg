SPECIFICATION Spec
CONSTANTS
  Workers = {w1, w2}
  Kinds = {"input"}
  MaxRequests = 1
  MaxAttempts = 2
  Stalls = TRUE
  ApiCrashes = TRUE
SYMMETRY Lanes
INVARIANTS
  TypeOK
  ReservationMatchesLifecycle
  CompletedTaskHasResult
  EngineCancelIsRequested
  LeavesQueueOnlyBound
PROPERTY ImplementsContract
CHECK_DEADLOCK FALSE
