SPECIFICATION Spec
CONSTANTS
  a = a
  b = b
  c = c
  d = d
  x = x
  y = y
  t = t
  E = E
  K = K
  Null = Null
  Events <- ContractEvents
  Targets = {t}
  Requests = {r1}
SYMMETRY Symmetry
INVARIANT ValidEventsAreAccepted
