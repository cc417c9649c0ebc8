SPECIFICATION Spec
CONSTANTS
  a = a
  b = b
  c = c
  d = d
  x = x
  y = y
  t = t
  E = E
  K = K
  Null = Null
  Events <- SentEvents
  Targets = {t}
  Requests = {r1, r2}
SYMMETRY Symmetry
INVARIANTS
  AggregateMatchesEvents
  ReceiptsAgree
PROPERTY TerminalIsFinal
