SPECIFICATION Spec
CONSTANTS
  Workers = {w1, w2}
  Kinds = {"input"}
  MaxRequests = 2
  MaxAttempts = 2
  Stalls = FALSE
  ApiCrashes = FALSE
INVARIANT TerminalClosesRequests
CHECK_DEADLOCK FALSE
