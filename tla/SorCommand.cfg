SPECIFICATION Spec
CONSTANTS
  c1 = c1
  w1 = w1
  w2 = w2
  none = none
  Commands = {c1}
  Tasks = {c1}
  NoTask = none
  Lanes = {w1, w2}
  MaxTries = 3
  MaxUpsets = 2
INVARIANTS TypeOK ReceiptTellsTheTruth
PROPERTIES ReceiptsKeepContract WaitingRunIsWoken
CHECK_DEADLOCK FALSE
