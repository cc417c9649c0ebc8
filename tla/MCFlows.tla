------------------------------ MODULE MCFlows ------------------------------
(***************************************************************************)
(* Small instances of Flows: a claim request that came twice, one of them  *)
(* asking for the uncertain answer; two Zaps for one application; and one  *)
(* return requested twice, the second time for the uncertain answer, and a *)
(* third time for the costly order, with an approval.                      *)
(***************************************************************************)
EXTENDS Flows, TLC

CONSTANTS x1, x2, z1, z2, s1, s2, s3

Call(op, key, id, ref, choice, amount) ==
  [op |-> op, key |-> key, id |-> id, ref |-> ref, choice |-> choice, amount |-> amount]

SomeIds == {"claim", "return", "work", "refund", "case", "policy-active",
            "order-delivered", "order-high-value", "application-1"}
SomeChoices == {"high risk", "DAMAGED", "APPROVED"}

Claim == Call("create-claim", "n8n", "claim", "policy-active", "high risk", 0)
MCClaimCall == [f \in Claims |-> Claim]

Onboarding ==
  <<Call("verify-partner", "verification", "application-1", Null, Null, 0),
    Call("create-partner-case", "case", "case", "application-1", Null, 0),
    Call("update-partner-case", "decision", "case", Null, "APPROVED", 0)>>
MCZapCalls == [f \in Zaps |-> Onboarding]

MCReturnCall == [f \in Scenarios |->
  Call("create-return", "return", "return",
       IF f = s3 THEN "order-high-value" ELSE "order-delivered", "DAMAGED", 0)]
MCWorkCall == [f \in Scenarios |->
  Call("create-warehouse-work", "warehouse", "work", "return", Null, 0)]
MCRefundCall == [f \in Scenarios |->
  Call("create-refund", "refund", "refund", "return", Null, IF f = s3 THEN 0 ELSE 72500)]

SomeCalls == {Claim} \cup {Onboarding[n] : n \in 1..3}
  \cup UNION {{MCReturnCall[f], MCWorkCall[f], MCRefundCall[f]} : f \in Scenarios}
\* Automations share no resource; flows of one automation do.
MCTogether == {{x1, x2}, {z1, z2}, {s1, s2, s3}, {x1, z1}, {x1, s1}}

SomeKeys == {c.key : c \in SomeCalls}
=============================================================================
