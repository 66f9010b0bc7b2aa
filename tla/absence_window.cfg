SPECIFICATION AbsenceSpec
CONSTANTS
  None = None
  v1 = v1
  VenueId = {v1}
  Quantity = {0, 1}
  RecvWindow = 2
  Timeout = 2
  Window = 7
  MinAttempts = 2
  MaxCommit = 1
  Lag = 1
  Query = {q1, q2}
  Orders <- MCOrders
  MaxTime = 10
CHECK_DEADLOCK FALSE
SYMMETRY MCSymmetry
INVARIANTS
  AbsenceTypeOK
  AbsenceIsFinal
  RefusalIsVenues
