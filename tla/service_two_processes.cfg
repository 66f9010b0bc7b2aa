SPECIFICATION Spec
CONSTANTS
  None = None
  v1 = v1
  v2 = v2
  o2 = o2
  VenueId = {v1, v2}
  Quantity <- MCQuantity
  Op = {o1}
  Proc = {p1, p2}
  MinAttempts = 2
  Requests = {r1}
  Operators = {}
  Worker = worker
  VenueIdOf <- MCOwnIds
  FullQuantity = 2
  Anomalies <- MCFalseReports
  MalformedReplies = TRUE
  FaultLab = FALSE
  MaxCrashes = 2
SYMMETRY MCSymmetry
CHECK_DEADLOCK FALSE
INVARIANTS
  OneDurableDispatch
  AbsenceCarriesNoTrace
PROPERTIES
  EvidenceNeverShrinks
