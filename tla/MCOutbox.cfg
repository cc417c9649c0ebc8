SPECIFICATION FairSpec
CONSTANTS
  Messages = {m1, m2}
  Instances = {i1, i2, i3}
  NoInstance = NoInstance
  NoMessage = NoMessage
  MaxAttempts = 3
INVARIANTS
  LeaseHolderIsCurrent
  AttemptsFenceWorkers
  DeadLetterMeansSpent
PROPERTIES
  OnlyLatestAttemptSettles
  ImplementsWorkQueue
  EveryMessageSettles
\* Everything processed and idle: the workers only poll.
CHECK_DEADLOCK FALSE
