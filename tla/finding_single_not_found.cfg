SPECIFICATION Spec
CONSTANTS
  None = None
  v1 = v1
  v2 = v2
  o2 = o2
  VenueId = {v1}
  Quantity <- MCQuantity
  Op = {o1}
  Proc = {p1}
  MinAttempts = 2
  Requests = {r1}
  Operators = {}
  Worker = worker
  VenueIdOf <- MCOwnIds
  FullQuantity = 1
  Anomalies = {}
  MalformedReplies = FALSE
  FaultLab = FALSE
  MaxCrashes = 0
CHECK_DEADLOCK FALSE
INVARIANTS
  AbsenceRepeated
