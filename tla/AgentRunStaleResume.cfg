SPECIFICATION Spec
CONSTANTS
  Workers = {w1, w2}
  Kinds = {"input"}
  MaxRequests = 2
  MaxAttempts = 2
  Stalls = TRUE
  ApiCrashes = FALSE
PROPERTY ResumeNeedsAnswer
CHECK_DEADLOCK FALSE
