SPECIFICATION LiveSpec
CONSTANTS
  Workers = {w1}
  Kinds = {"input", "approval"}
  MaxRequests = 2
  MaxAttempts = 2
  Stalls = FALSE
  ApiCrashes = FALSE
INVARIANTS
  WaitMatchesRequest
  SettledRunHasNoOpenRequest
PROPERTIES
  ResumeNeedsAnswer
  CancellationHappens
  AnswerWakesRun
  RunMakesProgress
CHECK_DEADLOCK FALSE
