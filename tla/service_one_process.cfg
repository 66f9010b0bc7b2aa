SPECIFICATION Spec
CONSTANTS
  None = None
  v1 = v1
  v2 = v2
  o2 = o2
  VenueId = {v1}
  Quantity <- MCQuantity
  Op = {o1}
  Proc = {p1}
  MinAttempts = 2
  Requests = {r1, r2}
  Operators = {r1, r2}
  Worker = worker
  VenueIdOf <- MCOwnIds
  FullQuantity = 2
  Anomalies = {}
  MalformedReplies = FALSE
  FaultLab = TRUE
  MaxCrashes = 1
SYMMETRY MCSymmetry
CHECK_DEADLOCK FALSE
INVARIANTS
  ServiceTypeOK
  OneDurableDispatch
  SettledTruth
  NeverAheadOfVenue
  NoFalseAlarm
  InFlightAttended
PROPERTIES
  SettledIsFinal
  ImplementsEconomicAction
