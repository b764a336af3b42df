SPECIFICATION Spec
CONSTANTS
  Runs = {r1, r2}
  Jobs = {j1}
  Policies <- MCPolicies
  Usages = {1, 2}
  Unit = 2
  MaxTokens = 4
  MaxTime = 2
SYMMETRY Symmetry
INVARIANTS
  TypeOK
  ConcurrencyWithinPolicy
  EnvelopesWithinPolicy
  OverrunIsRecorded
  WaitingRunWithinLimits
  CostIsRoundedOnce
CHECK_DEADLOCK FALSE
