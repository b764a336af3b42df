SPECIFICATION Spec
CONSTANTS
  c1 = c1
  c2 = c2
  w1 = w1
  w2 = w2
  none = none
  Contacts = {c1, c2}
  Limit = 2
  MaxNumber = 1
  Lanes = {w1, w2}
  NoTask = none
  MaxTries = 2
  MaxUpsets = 1
  Tasks <- MCTasks
  Deliveries <- MCDeliveries
  Effects <- MCAttempts
SYMMETRY Symmetry
INVARIANT TalliesMatchContacts
CHECK_DEADLOCK FALSE
