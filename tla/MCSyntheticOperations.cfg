\* All operations on one replica, with repeated keys and restarts.
SPECIFICATION Spec
CONSTANTS
  Replicas = {s1}
  Keys <- SomeKeys
  Ids <- SomeIds
  Choices <- SomeChoices
  Calls <- SomeCalls
  Null = Null
CONSTRAINT FewRecords
INVARIANTS RetriesAgree RefundsAreCovered
PROPERTY DecisionStands
