SPECIFICATION ConsoleSpec
CONSTANTS
  None = None
  VenueId = {v1}
  Quantity = {0, 1}
  Trade <- MCTrade
  Fields <- MCFields
  Cap <- MCCap
  TooSmall <- MCTooSmall
  ServerCap <- MCServerCap
  MaxIntents = 2
  Key <- MCKey
  AgentKey = 0
  AgentWork = {1}
  PollSlot = {q1, q2}
  MaxClicks = 2
  Wanted <- MCWanted
SYMMETRY MCSymmetry
INVARIANTS
  ConsoleTypeOK
  PricedCapsAreExact
  AnswerIsAskedFor
  ConflictIsReal
  OneDispatchPerKey
PROPERTIES
  ShownStaysSelected
