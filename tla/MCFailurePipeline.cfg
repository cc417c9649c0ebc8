SPECIFICATION FairSpec
CONSTANTS
  m1 = m1
  m2 = m2
  k1 = k1
  Messages = {m1, m2}
  Instances = {i1, i2}
  NoInstance = NoInstance
  NoMessage = NoMessage
  MaxAttempts = 2
  Keys = {k1}
  Ids = {n1, n2}
  Requests = {r1}
  Times = {1}
  Null = Null
  MaxFailures = 4
  MaxNotes = 0
  FailureKey <- FailureKeys
  OccurredAt <- Occurrences
INVARIANTS
  NoFailureLost
  CountedWithinAttempts
  IncidentsAddUp
  OneActiveIncident
  LocksBelongToHandlers
PROPERTIES
  EveryFailureSurfaces
\* At rest the workers only poll.
CHECK_DEADLOCK FALSE
