SPECIFICATION Spec
CONSTANTS
  Workers = {w1}
  Spawners = {s1}
  MaxAttempts = 3
  Crashes = TRUE
  Stalls = FALSE
  LoadFailures = FALSE
INVARIANT AttemptedUntilTerminal
CHECK_DEADLOCK FALSE
