SPECIFICATION LiveSpec
CONSTANTS
  Workers = {w1, w2}
  Spawners = {s1, s2}
  MaxAttempts = 2
  Crashes = TRUE
  Stalls = TRUE
  LoadFailures = TRUE
INVARIANTS TypeOK AttemptsWithinBudget UnboundIsUntouched UnsettledOnlyByLoss
PROPERTIES ImplementsContract PendingIsBound SettledRowEndsTask
CHECK_DEADLOCK FALSE
