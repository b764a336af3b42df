SPECIFICATION Spec
CONSTANTS
  Workers = {w1}
  Spawners = {s1}
  MaxAttempts = 3
  Crashes = FALSE
  Stalls = FALSE
  LoadFailures = TRUE
INVARIANT LoadFailureIsProductState
CHECK_DEADLOCK FALSE
