SPECIFICATION JournalSpec
CONSTANTS
  None = None
  VenueId = {v1}
  Quantity = {0, 1}
  Op = {o1, o2}
  Proc = {p1}
  MinAttempts = 1
SYMMETRY MCSymmetry
INVARIANTS
  JournalTypeOK
  SingleSubmission
  AbsenceCarriesNoTrace
  OfferedActionsAccepted
PROPERTIES
  EvidenceNeverShrinks
  SettledUnlessResumed
