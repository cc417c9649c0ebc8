SPECIFICATION EvidenceSpec
CONSTANTS
  Keys = {k1}
  Ids = {n1}
  Correlators = {w1, w2}
  Requests = {r1, r2}
  Auditors = {a1}
  Times = {1, 2}
  Null = Null
  MaxFailures = 2
  MaxNotes = 1
  MaxBundles = 1
SYMMETRY Symmetry
INVARIANTS
  LastOccurredIsLatest
  HistoryReplays
  BundlesShowTheirTime
  ClosedBundlesAreFinal
PROPERTIES
  AppliedActionsAreAllowed
  ResolvedStopsCounting
\* Every identifier used and every count at its bound.
CHECK_DEADLOCK FALSE
