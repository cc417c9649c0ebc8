----------------------- MODULE MCSyntheticOperations -----------------------
(***************************************************************************)
(* Small instances of SyntheticOperations: the calls of the sample automa- *)
(* tions, with keys that are repeated for changed input and resources that *)
(* are written under several keys.                                         *)
(***************************************************************************)
EXTENDS SyntheticOperations

SomeIds ==
  {"claim", "return", "work", "refund", "case", "inspection", "policy-active",
   "policy-lapsed", "order-delivered", "order-high-value", "application-1", "site-1"}

SomeChoices ==
  {"high risk", "low risk", "DAMAGED", "NOT_REQUIRED", "APPROVED", "REJECTED",
   "PASS", "REQUIRES_REMEDIATION", "APPROVE", "REJECT"}

Call(op, key, id, ref, choice) ==
  [op |-> op, key |-> key, id |-> id, ref |-> ref, choice |-> choice, amount |-> 0]

Refund(key, amount) ==
  [op |-> "create-refund", key |-> key, id |-> "refund", ref |-> "return",
   choice |-> Null, amount |-> amount]

CommerceCalls ==
  {Call("create-return", "r1", "return", "order-delivered", "DAMAGED"),
   Call("create-return", "r1", "return", "order-high-value", "DAMAGED"),
   Call("create-return", "r2", "return", "order-delivered", "NOT_REQUIRED"),
   Call("create-warehouse-work", "r1", "work", "return", Null),
   Refund("r3", 72500), Refund("r3", 70000), Refund("r4", 72500)}

InspectionCalls ==
  {Call("create-field-inspection", "i1", "inspection", "site-1", "PASS"),
   Call("create-field-inspection", "i2", "inspection", "site-1",
        "REQUIRES_REMEDIATION"),
   Call("decide-field-inspection", "i2", "inspection", Null, "APPROVE"),
   Call("decide-field-inspection", "i3", "inspection", Null, "REJECT"),
   Call("decide-field-inspection", "i3", "inspection", Null, "APPROVE")}

PartnerCalls ==
  {Call("verify-partner", "p1", "application-1", Null, Null),
   Call("create-partner-case", "p1", "case", "application-1", Null),
   Call("create-partner-case", "p2", "case", "application-1", Null),
   Call("update-partner-case", "p1", "case", Null, "APPROVED"),
   Call("update-partner-case", "p2", "case", Null, "REJECTED"),
   Call("update-partner-case", "p2", "case", Null, "APPROVED")}

ClaimCalls ==
  {Call("create-claim", "c1", "claim", "policy-active", "low risk"),
   Call("create-claim", "c2", "claim", "policy-active", "high risk"),
   Call("create-claim", "c2", "claim", "policy-lapsed", "high risk"),
   Call("create-claim", "c3", "claim", "application-1", "low risk")}

SomeCalls == CommerceCalls \cup InspectionCalls \cup PartnerCalls \cup ClaimCalls

SomeKeys == {c.key : c \in SomeCalls}

\* Histories with at most so many recorded calls since the start of a process.
FewRecords == \A r \in Replicas : Cardinality(records[r]) <= 4
=============================================================================
