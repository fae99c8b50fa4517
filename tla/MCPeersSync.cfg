CONSTANTS
  p1 = p1
  p2 = p2
  a = a
  b = b
  s = s
  Peers = {p1, p2}
  Self = Self
  Specs = {e1}
  Invalid = Invalid
  Claims = {a, b, s}
  Owner <- MCOwner
  AddressClaims = {a, s}
  CIDRs = {x, y}
  None = None
  Pending = Pending
  MaxEdits = 3
  MaxFaults = 1
  MaxLag = 2
SPECIFICATION Spec
INVARIANTS
    SteadyStaysConfigured
PROPERTIES
    EventuallyConfigured
CHECK_DEADLOCK FALSE
