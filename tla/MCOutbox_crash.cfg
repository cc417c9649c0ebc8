SPECIFICATION Spec
CONSTANTS
  Messages = {m1}
  Instances = {i1, i2}
  NoInstance = NoInstance
  NoMessage = NoMessage
  MaxAttempts = 2
INVARIANT CrashLeavesWorkRecoverable
CHECK_DEADLOCK FALSE
