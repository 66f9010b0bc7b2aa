SPECIFICATION ChainSpec
CONSTANTS
  None = None
  Junk = Junk
  Op = {o1}
  Payload = {secret, redacted, plain}
  Secret = {secret}
  Redacted = redacted
  Proc = {p1}
  MaxEvents = 2
  MaxDamage = 1
INVARIANTS
  SuccessIsIntact
