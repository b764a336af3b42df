SPECIFICATION Spec
CONSTANTS
  c1 = c1
  c2 = c2
  w1 = w1
  w2 = w2
  none = none
  Contacts = {c1}
  Limit = 2
  MaxNumber = 2
  Lanes = {w1, w2}
  NoTask = none
  MaxTries = 3
  MaxUpsets = 2
  Tasks <- MCTasks
  Deliveries <- MCDeliveries
  Effects <- MCAttempts
SYMMETRY Symmetry
INVARIANTS TypeOK AtMostOncePerEffect CompletedIsSettled RestsOnlyWhenDone
PROPERTIES DeliveriesKeepContract NobodyIsCalledAgain
CHECK_DEADLOCK FALSE
