SPECIFICATION ChainSpec
CONSTANTS
  None = None
  Junk = Junk
  Op = {o1}
  Payload = {secret, redacted, plain}
  Secret = {secret}
  Redacted = redacted
  Proc = {p1, p2}
  MaxEvents = 3
  MaxDamage = 2
SYMMETRY MCSymmetry
INVARIANTS
  ChainTypeOK
  UndamagedVerifies
  CheckedIsGenuine
  NoLossWrittenOver
  ExportIsCovered
