SPECIFICATION FlowsSpec
CONSTANTS
  Null = Null
  Replicas = {api}
  x1 = x1  x2 = x2  z1 = z1  z2 = z2  s1 = s1  s2 = s2  s3 = s3
  Claims = {x1, x2}
  Zaps = {z1, z2}
  Scenarios = {s1, s2, s3}
  Approved = {s3}
  Uncertain = {x2, s2}
  Keys <- SomeKeys
  Ids <- SomeIds
  Choices <- SomeChoices
  Calls <- SomeCalls
  ClaimCall <- MCClaimCall
  ZapCalls <- MCZapCalls
  ReturnCall <- MCReturnCall
  WorkCall <- MCWorkCall
  RefundCall <- MCRefundCall
  MaxTries = 3
  Breaks = 3
  Together <- MCTogether
INVARIANTS
  AnsweredClaimsStand
  FinishedZapsHold
  RefundsFollowTheRouter
\* Every flow at its end.
CHECK_DEADLOCK FALSE
