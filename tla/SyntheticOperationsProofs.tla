--------------------- MODULE SyntheticOperationsProofs ---------------------
(***************************************************************************)
(* Theorems about SyntheticOperations, for every set of replicas, keys,    *)
(* identifiers and calls.  Every handler does one of two things: it gives  *)
(* a recorded answer again, or it writes one resource and records the      *)
(* answer.  What the writes have in common is stated once, as Effect.      *)
(*                                                                         *)
(* And theorems about Flows, for every set of runs of the three automa-    *)
(* tions.  To the API these are clients like others, so StoreInv holds     *)
(* under them; FlowsInv says how far each run may have come, by what the   *)
(* API has recorded for it and for those that name the same resource.      *)
(***************************************************************************)
EXTENDS Flows, TLAPS

\* The columns of the state that the proofs compute with.
Types ==
  /\ store \in [Replicas -> [Kinds -> [Ids -> Resource \cup {Null}]]]
  /\ records \in [Replicas -> SUBSET Result]
  /\ answers \in [Replicas -> SUBSET Result]
  /\ callbacks \in [Replicas -> [Keys -> Callback \cup {Null}]]
  /\ runs \in [Replicas -> [Calls -> Nat]]

SameKey(a, b) == a.call.key = b.call.key /\ Scope(a.call) = Scope(b.call)

\* One result is recorded for a key, it is of the one run of its call, and there
\* is no answer that is not recorded.
Settled(r) ==
  /\ \A a, b \in records[r] : SameKey(a, b) => a = b
  /\ \A c \in Calls : runs[r][c] = IF \E a \in records[r] : a.call = c THEN 1 ELSE 0
  /\ answers[r] \subseteq records[r]

RecordsSettle == \A r \in Replicas : Settled(r)

\* A refund names the return it is for, which covers it.
Covered(r, refund) ==
  /\ refund.ref \in Ids
  /\ Has(r, "returns", refund.ref)
  /\ store[r]["returns"][refund.ref].status # "REJECTED"
  /\ store[r]["returns"][refund.ref].amount = refund.amount

RefundsStand ==
  \A r \in Replicas : \A id \in Ids :
    Has(r, "refunds", id) => Covered(r, store[r]["refunds"][id])

StoreInv == Types /\ RecordsSettle /\ RefundsStand

\* What a first call does, and what was checked for it.
Effect(r, c, value, callback) ==
  /\ Perform(r, c, value, callback)
  /\ value \in Resource /\ callback \in Callback \cup {Null}
  /\ c.op \in {"create-return", "create-refund", "create-field-inspection"}
       => IsNew(r, KindOf(c.op), c.id)
  /\ c.op = "create-refund" => Covered(r, value)
  /\ c.op = "decide-field-inspection" => Pending(r, c.id)
  /\ c.op = "update-partner-case" => Has(r, "partnerCases", c.id) /\ value.status = c.choice

-----------------------------------------------------------------------------
\* Which map an operation writes.
LEMMA KindsWritten ==
  \A op \in Operations :
    /\ KindOf(op) \in Kinds
    /\ KindOf(op) = "claims" <=> op = "create-claim"
    /\ KindOf(op) = "returns" <=> op = "create-return"
    /\ KindOf(op) = "warehouseWork" <=> op = "create-warehouse-work"
    /\ KindOf(op) = "refunds" <=> op = "create-refund"
    /\ KindOf(op) = "partnerCases" <=> op \in {"create-partner-case", "update-partner-case"}
    /\ KindOf(op) = "fieldInspections"
         <=> op \in {"create-field-inspection", "decide-field-inspection"}
  BY DEF Operations, KindOf, Kinds

\* What a call is made of.
LEMMA CallParts ==
  \A c \in Calls :
    /\ c.op \in Operations /\ c.key \in Keys /\ c.id \in Ids
    /\ c.ref \in Ids \cup {Null} /\ c.amount \in Nat
    /\ c.op = "update-partner-case" => c.choice \in Status
    /\ c.op \in {"create-warehouse-work", "create-refund"} => c.ref \in Ids
  BY SyntheticAssumption DEF Status

\* A resource that a handler builds is one.
LEMMA NewResources ==
  ASSUME NEW c \in Calls, NEW status \in Status, NEW amount \in Nat
  PROVE  NewResource(status, c.ref, amount) \in Resource
  BY CallParts DEF NewResource, Resource

\* The callback of such a resource is one.
LEMMA NewCallbacks ==
  ASSUME NEW c \in Calls, NEW value \in Resource
  PROVE  CallbackOf(c, value) \in Callback
  BY CallParts, KindsWritten DEF CallbackOf, Callback, Resource

\* A stored resource is one, also with another status.
LEMMA StoredStatus ==
  ASSUME Types, NEW r \in Replicas, NEW kind \in Kinds, NEW id \in Ids, Has(r, kind, id),
         NEW status \in Status
  PROVE  [store[r][kind][id] EXCEPT !.status = status] \in Resource
<1>1. store[r][kind][id] \in Resource
  BY DEF Types, Has
<1> QED
  BY <1>1 DEF Resource

-----------------------------------------------------------------------------
\* Each operation, when it does not answer again, has an effect of this kind.
Handled(r, c) ==
  Replay(r, c) \/ \E value, callback : Effect(r, c, value, callback)

\* createClaim of claims.controller.ts.
LEMMA ClaimsHandled ==
  ASSUME NEW r \in Replicas, NEW c \in Calls, createClaim(r, c)
  PROVE  Handled(r, c)
<1> DEFINE claim == NewResource(ClaimStatus(c.ref, c.choice), c.ref, 0)
           callback == CallbackOf(c, claim)
<1>1. claim \in Resource
  BY NewResources DEF ClaimStatus, Status, CaseDecisions
<1>2. callback \in Callback
  BY <1>1, NewCallbacks
<1>3. c.op = "create-claim" /\ Execute(r, c, c.ref \in DOMAIN policies, claim, callback)
  BY DEF createClaim
<1> HIDE DEF claim, callback
<1>4. Replay(r, c) \/ Effect(r, c, claim, callback)
  BY <1>1, <1>2, <1>3 DEF Execute, Effect
<1> QED
  BY <1>4 DEF Handled

\* createReturn: the identifier is new.
LEMMA ReturnsHandled ==
  ASSUME NEW r \in Replicas, NEW c \in Calls, createReturn(r, c)
  PROVE  Handled(r, c)
<1> DEFINE status == ReturnStatus(c.ref, c.choice)
           amount == refundAmount(c.ref, c.choice)
           return == NewResource(status, c.ref, amount)
<1>1. status \in Status
  BY DEF ReturnStatus, Status, CaseDecisions
<1>2. amount \in Nat
  BY DEF createReturn, refundAmount, orders
<1>3. return \in Resource
  BY <1>1, <1>2, NewResources
<1>4. c.op = "create-return" /\ Execute(r, c, IsNew(r, "returns", c.id), return, Null)
  BY DEF createReturn
<1>5. KindOf(c.op) = "returns"
  BY <1>4 DEF KindOf
<1> HIDE DEF return
<1>6. Replay(r, c) \/ Effect(r, c, return, Null)
  BY <1>3, <1>4, <1>5 DEF Execute, Effect
<1> QED
  BY <1>6 DEF Handled

\* createWarehouseWork.
LEMMA WorkHandled ==
  ASSUME NEW r \in Replicas, NEW c \in Calls, createWarehouseWork(r, c)
  PROVE  Handled(r, c)
<1> DEFINE work == NewResource("CREATED", c.ref, 0)
<1>1. work \in Resource
  BY NewResources DEF Status, CaseDecisions
<1>2. c.op = "create-warehouse-work" /\ Execute(r, c, TRUE, work, Null)
  BY DEF createWarehouseWork
<1> HIDE DEF work
<1>3. Replay(r, c) \/ Effect(r, c, work, Null)
  BY <1>1, <1>2 DEF Execute, Effect
<1> QED
  BY <1>3 DEF Handled

\* createRefund: the return covers the refund, and the identifier is new.
LEMMA RefundsHandled ==
  ASSUME NEW r \in Replicas, NEW c \in Calls, createRefund(r, c)
  PROVE  Handled(r, c)
<1> DEFINE refund == NewResource("SUCCEEDED", c.ref, c.amount)
           callback == CallbackOf(c, refund)
<1>1. refund \in Resource
  BY CallParts, NewResources DEF Status, CaseDecisions
<1>2. callback \in Callback
  BY <1>1, NewCallbacks
<1>3. c.op = "create-refund" /\ Execute(r, c, IsNew(r, "refunds", c.id), refund, callback)
  BY DEF createRefund
<1>4. KindOf(c.op) = "refunds"
  BY <1>3 DEF KindOf
<1>5. refund.ref = c.ref /\ refund.amount = c.amount
  BY DEF NewResource
<1> HIDE DEF refund, callback
<1>6. Covered(r, refund)
  BY <1>3, <1>5, CallParts DEF createRefund, Covered
<1>7. Replay(r, c) \/ Effect(r, c, refund, callback)
  BY <1>1, <1>2, <1>3, <1>4, <1>6 DEF Execute, Effect
<1> QED
  BY <1>7 DEF Handled

\* verify, createCase and updateStatus of partners.controller.ts.
LEMMA PartnersHandled ==
  ASSUME Types, NEW r \in Replicas, NEW c \in Calls,
         verify(r, c) \/ createCase(r, c) \/ updateStatus(r, c)
  PROVE  Handled(r, c)
<1>1. CASE verify(r, c)
  <2> DEFINE verification == NewResource("VERIFIED", c.ref, 0)
  <2>1. verification \in Resource
    BY NewResources DEF Status, CaseDecisions
  <2>2. c.op = "verify-partner" /\ Execute(r, c, TRUE, verification, Null)
    BY <1>1 DEF verify
  <2> HIDE DEF verification
  <2>3. Replay(r, c) \/ Effect(r, c, verification, Null)
    BY <2>1, <2>2 DEF Execute, Effect
  <2> QED
    BY <2>3 DEF Handled
<1>2. CASE createCase(r, c)
  <2> DEFINE case == NewResource("OPEN", c.ref, 0)
             callback == CallbackOf(c, case)
  <2>1. case \in Resource
    BY NewResources DEF Status, CaseDecisions
  <2>2. callback \in Callback
    BY <2>1, NewCallbacks
  <2>3. c.op = "create-partner-case" /\ Execute(r, c, TRUE, case, callback)
    BY <1>2 DEF createCase, caseCallback
  <2> HIDE DEF case, callback
  <2>4. Replay(r, c) \/ Effect(r, c, case, callback)
    BY <2>1, <2>2, <2>3 DEF Execute, Effect
  <2> QED
    BY <2>4 DEF Handled
<1>3. CASE updateStatus(r, c)
  <2> DEFINE case == [store[r]["partnerCases"][c.id] EXCEPT !.status = c.choice]
             callback == CallbackOf(c, case)
             known == Has(r, "partnerCases", c.id)
  <2>1. known => case \in Resource
    BY <1>3, CallParts, StoredStatus DEF updateStatus, Kinds
  <2>2. known => callback \in Callback
    BY <2>1, NewCallbacks
  <2>3. c.op = "update-partner-case" /\ Execute(r, c, known, case, callback)
    BY <1>3 DEF updateStatus, caseCallback
  <2>4. known => case.status = c.choice
    BY CallParts DEF Kinds, Types, Has, Resource
  <2>5. known = Has(r, "partnerCases", c.id)
    OBVIOUS
  <2> HIDE DEF case, callback, known
  <2>6. Replay(r, c) \/ Effect(r, c, case, callback)
    BY <2>1, <2>2, <2>3, <2>4, <2>5 DEF Execute, Effect
  <2> QED
    BY <2>6 DEF Handled
<1> QED
  BY <1>1, <1>2, <1>3

\* createInspection and decideInspection: new the one, pending the other.
LEMMA InspectionsHandled ==
  ASSUME Types, NEW r \in Replicas, NEW c \in Calls,
         createInspection(r, c) \/ decideInspection(r, c)
  PROVE  Handled(r, c)
<1>1. CASE createInspection(r, c)
  <2> DEFINE status == IF c.choice = "PASS" THEN "APPROVED" ELSE "PENDING"
             inspection == NewResource(status, c.ref, 0)
             callback == CallbackOf(c, inspection)
  <2>1. inspection \in Resource
    BY NewResources DEF Status, CaseDecisions
  <2>2. callback \in Callback
    BY <2>1, NewCallbacks
  <2>3. /\ c.op = "create-field-inspection"
        /\ Execute(r, c, IsNew(r, "fieldInspections", c.id), inspection, callback)
    BY <1>1 DEF createInspection
  <2>4. KindOf(c.op) = "fieldInspections"
    BY <2>3 DEF KindOf
  <2> HIDE DEF inspection, callback
  <2>5. Replay(r, c) \/ Effect(r, c, inspection, callback)
    BY <2>1, <2>2, <2>3, <2>4 DEF Execute, Effect
  <2> QED
    BY <2>5 DEF Handled
<1>2. CASE decideInspection(r, c)
  <2> DEFINE status == IF c.choice = "APPROVE" THEN "APPROVED" ELSE "REJECTED"
             inspection == [store[r]["fieldInspections"][c.id] EXCEPT !.status = status]
             callback == CallbackOf(c, inspection)
  <2>1. status \in Status
    BY DEF Status, CaseDecisions
  <2> HIDE DEF status
  <2>2. Pending(r, c.id) => inspection \in Resource
    BY <2>1, CallParts, StoredStatus DEF Kinds, Pending
  <2>3. Pending(r, c.id) => callback \in Callback
    BY <2>2, NewCallbacks
  <2>4. /\ c.op = "decide-field-inspection"
        /\ Execute(r, c, Pending(r, c.id), inspection, callback)
    BY <1>2 DEF decideInspection, status
  <2> HIDE DEF inspection, callback
  <2>5. Replay(r, c) \/ Effect(r, c, inspection, callback)
    BY <2>2, <2>3, <2>4 DEF Execute, Effect
  <2> QED
    BY <2>5 DEF Handled
<1> QED
  BY <1>1, <1>2

\* A step of the API is a restart, a repeated answer or an effect.
LEMMA ApiSteps ==
  ASSUME Types, Next
  PROVE  \E r \in Replicas : Restart(r) \/ \E c \in Calls : Handled(r, c)
  BY ClaimsHandled, ReturnsHandled, WorkHandled, RefundsHandled, PartnersHandled,
     InspectionsHandled DEF Next

-----------------------------------------------------------------------------
\* An effect writes one resource, one record, one run and perhaps an answer.
LEMMA EffectKeepsTypes ==
  ASSUME Types, NEW r \in Replicas, NEW c \in Calls, NEW value, NEW callback,
         Effect(r, c, value, callback)
  PROVE  Types'
<1> DEFINE rec == [call |-> c, value |-> value]
<1>1. KindOf(c.op) \in Kinds /\ c.id \in Ids /\ c.key \in Keys /\ rec \in Result
  BY CallParts, KindsWritten DEF Effect, Result
<1>2. store' \in [Replicas -> [Kinds -> [Ids -> Resource \cup {Null}]]]
  BY <1>1 DEF Types, Effect, Perform, RunAction
<1>3. callbacks' \in [Replicas -> [Keys -> Callback \cup {Null}]]
  BY <1>1 DEF Types, Effect, Perform, RunAction
<1>4. runs' \in [Replicas -> [Calls -> Nat]]
  BY DEF Types, Effect, Perform, RunAction
<1>5. records' \in [Replicas -> SUBSET Result] /\ answers' \in [Replicas -> SUBSET Result]
  BY <1>1 DEF Types, Effect, Perform, RecordResult, Answer
<1> QED
  BY <1>2, <1>3, <1>4, <1>5 DEF Types

\* The key of an effect had no record, so its call had not run.
LEMMA EffectKeepsRecords ==
  ASSUME Types, RecordsSettle, NEW r \in Replicas, NEW c \in Calls, NEW value, NEW callback,
         Effect(r, c, value, callback)
  PROVE  RecordsSettle'
<1> DEFINE rec == [call |-> c, value |-> value]
<1>1. /\ records' = [records EXCEPT ![r] = @ \cup {rec}]
      /\ runs' = [runs EXCEPT ![r][c] = @ + 1]
      /\ answers' = [answers EXCEPT ![r] = @ \cup {rec}] \/ answers' = answers
      /\ \A a \in records[r] : ~SameKey(a, rec) /\ ~SameKey(rec, a)
  BY DEF Effect, Perform, RunAction, RecordResult, Answer, RecordsOf, SameKey
<1>2. \A a \in records[r] : a.call # c
  BY <1>1 DEF SameKey
<1>3. runs[r][c] = 0
  BY <1>2 DEF RecordsSettle, Settled
<1> SUFFICES ASSUME NEW q \in Replicas
             PROVE  Settled(q)'
  BY DEF RecordsSettle
<1>4. records'[r] = records[r] \cup {rec} /\ (q # r => records'[q] = records[q])
  BY <1>1 DEF Types
<1>5. /\ \A d \in Calls : q # r \/ d # c => runs'[q][d] = runs[q][d]
      /\ runs'[r][c] = 1
  BY <1>1, <1>3 DEF Types
<1>6. \A a, b \in records'[q] : SameKey(a, b) => a = b
  BY <1>1, <1>4 DEF RecordsSettle, Settled
<1>7. ASSUME NEW d \in Calls
      PROVE  runs'[q][d] = IF \E a \in records'[q] : a.call = d THEN 1 ELSE 0
  <2>1. CASE q = r /\ d = c
    <3>1. rec \in records'[q] /\ rec.call = d
      BY <1>4, <2>1
    <3> QED
      BY <1>5, <2>1, <3>1
  <2>2. CASE q # r \/ d # c
    <3>1. runs'[q][d] = runs[q][d]
      BY <1>5, <2>2
    <3>2. (\E a \in records'[q] : a.call = d) <=> (\E a \in records[q] : a.call = d)
      BY <1>4, <2>2
    <3>3. runs[q][d] = IF \E a \in records[q] : a.call = d THEN 1 ELSE 0
      BY DEF RecordsSettle, Settled
    <3> QED
      BY <3>1, <3>2, <3>3
  <2> QED
    BY <2>1, <2>2
<1>8. answers'[q] \subseteq records'[q]
  BY <1>1, <1>4 DEF RecordsSettle, Settled, Types
<1> QED
  BY <1>6, <1>7, <1>8 DEF Settled, SameKey, Scope

\* The resource an effect writes is the only one that changes.
LEMMA EffectWrites ==
  ASSUME Types, NEW r \in Replicas, NEW c \in Calls, NEW value, NEW callback,
         Effect(r, c, value, callback)
  PROVE  /\ store'[r][KindOf(c.op)][c.id] = value
         /\ \A q \in Replicas : \A kind \in Kinds : \A id \in Ids :
              store'[q][kind][id] = store[q][kind][id]
                \/ (q = r /\ kind = KindOf(c.op) /\ id = c.id)
<1>1. KindOf(c.op) \in Kinds /\ c.id \in Ids
  BY CallParts, KindsWritten
<1> QED
  BY <1>1 DEF Types, Effect, Perform, RunAction

\* No effect overwrites a return, and one that writes a refund has checked its return.
LEMMA EffectKeepsRefunds ==
  ASSUME Types, RefundsStand, NEW r \in Replicas, NEW c \in Calls, NEW value, NEW callback,
         Effect(r, c, value, callback)
  PROVE  RefundsStand'
<1>1. \A q \in Replicas : \A id \in Ids :
        Has(q, "returns", id) => store'[q]["returns"][id] = store[q]["returns"][id]
  <2> SUFFICES ASSUME NEW q \in Replicas, NEW id \in Ids, Has(q, "returns", id),
                      store'[q]["returns"][id] # store[q]["returns"][id]
               PROVE  FALSE
    OBVIOUS
  <2>1. q = r /\ KindOf(c.op) = "returns" /\ id = c.id
    BY EffectWrites DEF Kinds
  <2>2. IsNew(r, "returns", c.id)
    BY <2>1, CallParts, KindsWritten DEF Effect
  <2> QED
    BY <2>1, <2>2 DEF IsNew
<1>2. ASSUME NEW q \in Replicas, NEW refund, Covered(q, refund)
      PROVE  Covered(q, refund)'
  BY <1>1, <1>2 DEF Covered, Has
<1> SUFFICES ASSUME NEW q \in Replicas, NEW id \in Ids, store'[q]["refunds"][id] # Null
             PROVE  Covered(q, store[q]["refunds"][id])'
  BY DEF RefundsStand, Has
<1>3. CASE store'[q]["refunds"][id] = store[q]["refunds"][id]
  <2>1. Covered(q, store[q]["refunds"][id])
    BY <1>3 DEF RefundsStand, Has
  <2> QED
    BY <1>1, <1>3, <2>1 DEF Covered, Has
<1>4. CASE store'[q]["refunds"][id] # store[q]["refunds"][id]
  <2>1. q = r /\ KindOf(c.op) = "refunds" /\ id = c.id
    BY <1>4, EffectWrites DEF Kinds
  <2>2. store'[q]["refunds"][id] = value
    BY <2>1, EffectWrites
  <2>3. Covered(r, value)
    BY <2>1, CallParts, KindsWritten DEF Effect
  <2> QED
    BY <1>1, <2>1, <2>2, <2>3 DEF Covered, Has
<1> QED
  BY <1>3, <1>4

\* So each effect keeps the invariant.  What is answered again was recorded, and a
\* restart leaves nothing.
LEMMA HandlingKeeps ==
  ASSUME StoreInv, NEW r \in Replicas, NEW c \in Calls, Handled(r, c)
  PROVE  StoreInv'
<1>1. CASE Replay(r, c)
  <2>1. PICK rec \in records[r] :
          answers' = [answers EXCEPT ![r] = @ \cup {[call |-> c, value |-> rec.value]}]
            /\ rec.call = c
    BY <1>1 DEF Replay, RecordsOf, SameRequest, Answer
  <2>2. rec = [call |-> c, value |-> rec.value] /\ rec \in Result
    BY <2>1 DEF StoreInv, Types, Result
  <2>3. UNCHANGED <<store, records, callbacks, runs>>
    BY <1>1 DEF Replay
  <2>4. Types'
    BY <2>1, <2>2, <2>3 DEF StoreInv, Types
  <2>5. RecordsSettle'
    <3> SUFFICES ASSUME NEW q \in Replicas PROVE Settled(q)'
      BY DEF RecordsSettle
    <3>1. answers'[q] \subseteq records[q]
      BY <2>1, <2>2 DEF StoreInv, Types, RecordsSettle, Settled
    <3> QED
      BY <2>3, <3>1 DEF StoreInv, RecordsSettle, Settled, SameKey, Scope
  <2>6. RefundsStand'
    BY <2>3 DEF StoreInv, RefundsStand, Covered, Has
  <2> QED
    BY <2>4, <2>5, <2>6 DEF StoreInv
<1>2. CASE \E value, callback : Effect(r, c, value, callback)
  BY <1>2, EffectKeepsTypes, EffectKeepsRecords, EffectKeepsRefunds DEF StoreInv
<1> QED
  BY <1>1, <1>2 DEF Handled

\* A restart leaves an empty replica and the others as they are.
LEMMA RestartKeeps ==
  ASSUME StoreInv, NEW r \in Replicas, Restart(r)
  PROVE  StoreInv'
<1>1. Types'
  BY DEF StoreInv, Types, Restart, EmptyStore, NoCallbacks, NoRuns
<1>2. \A q \in Replicas :
        \/ /\ records'[q] = {} /\ answers'[q] = {}
           /\ \A c \in Calls : runs'[q][c] = 0
           /\ \A kind \in Kinds : \A id \in Ids : store'[q][kind][id] = Null
        \/ /\ records'[q] = records[q] /\ answers'[q] = answers[q]
           /\ runs'[q] = runs[q] /\ store'[q] = store[q]
  BY DEF StoreInv, Types, Restart, EmptyStore, NoRuns
<1>3. RecordsSettle'
  <2> SUFFICES ASSUME NEW q \in Replicas PROVE Settled(q)'
    BY DEF RecordsSettle
  <2>1. CASE records'[q] = {} /\ answers'[q] = {} /\ \A c \in Calls : runs'[q][c] = 0
    BY <2>1 DEF Settled
  <2>2. CASE UNCHANGED <<records[q], answers[q], runs[q]>>
    <3>1. Settled(q)
      BY DEF StoreInv, RecordsSettle
    <3> QED
      BY <2>2, <3>1 DEF Settled, SameKey, Scope
  <2> QED
    BY <1>2, <2>1, <2>2
<1>4. RefundsStand'
  <2> SUFFICES ASSUME NEW q \in Replicas, NEW id \in Ids, store'[q]["refunds"][id] # Null
               PROVE  Covered(q, store[q]["refunds"][id])'
    BY DEF RefundsStand, Has
  <2>1. store'[q] = store[q]
    BY <1>2 DEF Kinds
  <2>2. Covered(q, store[q]["refunds"][id])
    BY <2>1 DEF StoreInv, RefundsStand, Has
  <2> QED
    BY <2>1, <2>2 DEF Covered, Has
<1> QED
  BY <1>1, <1>3, <1>4 DEF StoreInv

\* The invariant is inductive.
THEOREM StoreInductive == Spec => []StoreInv
<1>1. Init => StoreInv
  <2> SUFFICES ASSUME Init PROVE StoreInv
    OBVIOUS
  <2>1. Types
    BY DEF Init, Types, EmptyStore, NoCallbacks, NoRuns
  <2>2. RecordsSettle
    BY DEF Init, RecordsSettle, Settled, NoRuns
  <2>3. RefundsStand
    BY DEF Init, RefundsStand, Has, EmptyStore, Kinds
  <2> QED
    BY <2>1, <2>2, <2>3 DEF StoreInv
<1>2. StoreInv /\ [Next]_vars => StoreInv'
  <2> SUFFICES ASSUME StoreInv, [Next]_vars PROVE StoreInv'
    OBVIOUS
  <2>1. CASE Next
    BY <2>1, ApiSteps, HandlingKeeps, RestartKeeps DEF StoreInv
  <2>2. CASE UNCHANGED vars
    <3>1. UNCHANGED <<store, records, callbacks, runs, answers>>
      BY <2>2 DEF vars
    <3>2. Types' /\ RefundsStand'
      BY <3>1 DEF StoreInv, Types, RefundsStand, Covered, Has
    <3>3. RecordsSettle'
      BY <3>1 DEF StoreInv, RecordsSettle, Settled, SameKey, Scope
    <3> QED
      BY <3>2, <3>3 DEF StoreInv
  <2> QED
    BY <2>1, <2>2
<1> QED
  BY <1>1, <1>2, PTL DEF Spec

\* Every map of a replica keeps its type: resources, results, callbacks, runs.
THEOREM TypeCorrect == Spec => []TypeOK
<1>1. StoreInv => TypeOK
  BY DEF StoreInv, Types, TypeOK
<1> QED
  BY <1>1, StoreInductive, PTL

\* No retry runs its action again, and all answers to one key agree: a key has one
\* record, and only what is recorded is answered.
THEOREM RetriesGetOneAnswer == Spec => []RetriesAgree
<1>1. StoreInv => RetriesAgree
  BY DEF StoreInv, RecordsSettle, Settled, RetriesAgree, SameKey
<1> QED
  BY <1>1, StoreInductive, PTL

\* Every refund is of a return that is not rejected and has its amount: a return
\* is never written again.
THEOREM RefundsCovered == Spec => []RefundsAreCovered
<1>1. StoreInv => RefundsAreCovered
  BY DEF StoreInv, RefundsStand, RefundsAreCovered, Covered
<1> QED
  BY <1>1, StoreInductive, PTL

\* A decided inspection stays as it is until its replica restarts.
THEOREM DecisionsStand == Spec => DecisionStands
<1>1. ASSUME StoreInv, [Next]_vars, NEW r \in Replicas, NEW id \in Ids,
             Has(r, "fieldInspections", id),
             store[r]["fieldInspections"][id].status # "PENDING"
      PROVE  \/ store'[r]["fieldInspections"][id] = store[r]["fieldInspections"][id]
             \/ records'[r] = {}
  <2>1. CASE UNCHANGED vars
    BY <2>1 DEF vars
  <2>2. ASSUME NEW q \in Replicas, Restart(q)
        PROVE  store'[r] = store[r] \/ records'[r] = {}
    BY <1>1, <2>2 DEF Restart, StoreInv, Types
  <2>3. ASSUME NEW q \in Replicas, NEW c \in Calls, Replay(q, c)
        PROVE  store' = store
    BY <2>3 DEF Replay
  <2>4. ASSUME NEW q \in Replicas, NEW c \in Calls, NEW value, NEW callback,
               Effect(q, c, value, callback)
        PROVE  store'[r]["fieldInspections"][id] = store[r]["fieldInspections"][id]
    <3> SUFFICES ASSUME store'[r]["fieldInspections"][id] # store[r]["fieldInspections"][id]
                 PROVE  FALSE
      OBVIOUS
    <3>1. q = r /\ KindOf(c.op) = "fieldInspections" /\ id = c.id
      BY <1>1, <2>4, EffectWrites DEF StoreInv, Kinds
    <3>2. c.op \in {"create-field-inspection", "decide-field-inspection"}
      BY <3>1, CallParts, KindsWritten
    <3>3. ~Has(r, "fieldInspections", id)
            \/ store[r]["fieldInspections"][id].status = "PENDING"
      BY <2>4, <3>1, <3>2 DEF Effect, IsNew, Pending
    <3> QED
      BY <1>1, <3>3
  <2>5. CASE Next
    <3>1. \E q \in Replicas : Restart(q) \/ \E c \in Calls : Handled(q, c)
      BY <1>1, <2>5, ApiSteps DEF StoreInv
    <3> QED
      BY <2>2, <2>3, <2>4, <3>1 DEF Handled
  <2> QED
    BY <1>1, <2>1, <2>5
<1>2. StoreInv /\ [Next]_vars =>
        [\A r \in Replicas : \A id \in Ids :
           (Has(r, "fieldInspections", id)
              /\ store[r]["fieldInspections"][id].status # "PENDING")
             => \/ store'[r]["fieldInspections"][id] = store[r]["fieldInspections"][id]
                \/ records'[r] = {}]_vars
  BY <1>1
<1> QED
  BY <1>2, StoreInductive, PTL DEF Spec, DecisionStands

-----------------------------------------------------------------------------
(* The flows: what their calls leave in the API.                           *)

\* The result of a call is recorded, and recorded with a status.
Recorded(c) == \E a \in records[api] : a.call = c
RecordedAs(c, status) == \E a \in records[api] : a.call = c /\ a.value.status = status

\* What was recorded is there.  Claims and returns are as they were answered, and
\* a case that was approved stays so.
Kept ==
  \A a \in records[api] :
    LET resource == store[api][KindOf(a.call.op)][a.call.id] IN
    /\ resource # Null
    /\ a.call.op \in {"create-claim", "create-return"} => resource = a.value
    /\ a.call.op = "update-partner-case" => resource.status = "APPROVED"

\* What is there was created by a recorded call.
Opened ==
  \A kind \in Kinds : \A id \in Ids :
    Has(api, kind, id) =>
      \E a \in records[api] :
        KindOf(a.call.op) = kind /\ a.call.id = id /\ a.call.op # "update-partner-case"

\* The router has let scenario f through.
Accepted(f) ==
  RecordedAs(ReturnCall[f], "ELIGIBLE") \/ RecordedAs(ReturnCall[f], "APPROVAL_REQUIRED")

\* c is a call of f, which has come so far in this life of the API, or in another.
Made(f, c) ==
  \/ f \in Claims /\ c = ClaimCall[f]
  \/ f \in Zaps /\ \E n \in 1..3 : c = ZapCalls[f][n]
  \/ f \in Scenarios /\ c = ReturnCall[f]
  \/ f \in Scenarios /\ c = WorkCall[f] /\ (f \in restarted \/ Accepted(f))
  \/ f \in Scenarios /\ c = RefundCall[f]
       /\ (f \in restarted \/ (Accepted(f) /\ Recorded(WorkCall[f])))

AllMade == \A a \in records[api] : \E f \in Flows : Made(f, a.call)

\* What FlowsAssumption says of the calls one by one.
LEMMA FlowCalls ==
  /\ api \in Replicas
  /\ \A f \in Claims : ClaimCall[f] \in Calls /\ ClaimCall[f].op = "create-claim"
  /\ \A f \in Zaps :
       /\ ZapCalls[f][1] \in Calls /\ ZapCalls[f][1].op = "verify-partner"
       /\ ZapCalls[f][2] \in Calls /\ ZapCalls[f][2].op = "create-partner-case"
       /\ ZapCalls[f][3] \in Calls /\ ZapCalls[f][3].op = "update-partner-case"
  /\ \A f \in Scenarios :
       /\ ReturnCall[f] \in Calls /\ ReturnCall[f].op = "create-return"
       /\ WorkCall[f] \in Calls /\ WorkCall[f].op = "create-warehouse-work"
       /\ RefundCall[f] \in Calls /\ RefundCall[f].op = "create-refund"
<1>1. api \in Replicas
  BY FlowsAssumption DEF api
<1>2. ASSUME NEW f \in Zaps
      PROVE  /\ ZapCalls[f][1] \in Calls /\ ZapCalls[f][1].op = "verify-partner"
             /\ ZapCalls[f][2] \in Calls /\ ZapCalls[f][2].op = "create-partner-case"
             /\ ZapCalls[f][3] \in Calls /\ ZapCalls[f][3].op = "update-partner-case"
  <2>1. ZapCalls[f] \in CallsOf("verify-partner") \X CallsOf("create-partner-case")
                                                  \X CallsOf("update-partner-case")
    BY FlowsAssumption
  <2> QED
    BY <2>1 DEF CallsOf
<1> QED
  BY <1>1, <1>2, FlowsAssumption DEF CallsOf

\* A call of a flow is one, of these operations.  Two that create one claim, or
\* one case, have one key; and an update approves.
LEMMA MadeCalls ==
  ASSUME NEW f \in Flows, NEW c, Made(f, c)
  PROVE  /\ c \in Calls
         /\ c.op = "create-claim" => f \in Claims /\ c = ClaimCall[f]
         /\ c.op = "create-partner-case" => f \in Zaps /\ c = ZapCalls[f][2]
         /\ c.op = "update-partner-case" => c.choice = "APPROVED"
         /\ c.op = "create-warehouse-work" =>
              f \in Scenarios /\ c = WorkCall[f] /\ (f \in restarted \/ Accepted(f))
         /\ c.op = "create-refund" =>
              /\ f \in Scenarios /\ c = RefundCall[f]
              /\ f \in restarted \/ (Accepted(f) /\ Recorded(WorkCall[f]))
<1>1. CASE f \in Zaps /\ \E n \in 1..3 : c = ZapCalls[f][n]
  <2>1. c \in {ZapCalls[f][1], ZapCalls[f][2], ZapCalls[f][3]}
    BY <1>1
  <2> QED
    BY <1>1, <2>1, FlowCalls, FlowsAssumption
<1> QED
  BY <1>1, FlowCalls DEF Made

\* A handler called by a flow answers again or has an effect.
LEMMA HandleHandled ==
  ASSUME Types, NEW c \in Calls, Handle(c)
  PROVE  Handled(api, c)
  BY FlowCalls, ClaimsHandled, ReturnsHandled, WorkHandled, RefundsHandled, PartnersHandled
     DEF Handle

\* Either way the call is recorded, and nothing that was recorded is forgotten.
LEMMA HandledRecords ==
  ASSUME Types, NEW c \in Calls, Handled(api, c)
  PROVE  /\ records[api] \subseteq records'[api] /\ Recorded(c)'
         /\ \A a \in records'[api] : a \in records[api] \/ a.call = c
<1>1. CASE Replay(api, c)
  BY <1>1, FlowCalls DEF Replay, RecordsOf, SameRequest, Recorded
<1>2. ASSUME NEW value, NEW callback, Effect(api, c, value, callback)
      PROVE  /\ records[api] \subseteq records'[api] /\ Recorded(c)'
             /\ \A a \in records'[api] : a \in records[api] \/ a.call = c
  <2> DEFINE rec == [call |-> c, value |-> value]
  <2>1. records'[api] = records[api] \cup {rec} /\ rec.call = c
    BY <1>2, FlowCalls DEF Effect, Perform, RecordResult, Types
  <2> QED
    BY <2>1 DEF Recorded
<1> QED
  BY <1>1, <1>2 DEF Handled

\* Keys and operations of two recorded results: the same ones, the same result.
LEMMA OneRecord ==
  ASSUME StoreInv, NEW a \in records[api], NEW b \in records[api],
         a.call.op = b.call.op, a.call.key = b.call.key,
         a.call.op \notin {"update-partner-case", "decide-field-inspection"}
  PROVE  a = b
  BY FlowCalls DEF StoreInv, RecordsSettle, Settled, SameKey, Scope

\* A call of a flow leaves what was recorded in the store, and what it wrote.
LEMMA EffectKeeps ==
  ASSUME StoreInv, Kept, Opened, AllMade, NEW f \in Flows, NEW c, Made(f, c),
         NEW value, NEW callback, Effect(api, c, value, callback)
  PROVE  Kept' /\ Opened'
<1> DEFINE rec == [call |-> c, value |-> value]
           At(a) == store[api][KindOf(a.call.op)][a.call.id]
<1>1. /\ c \in Calls /\ api \in Replicas /\ KindOf(c.op) \in Kinds /\ c.id \in Ids
      /\ value \in Resource /\ value # Null
      /\ records'[api] = records[api] \cup {rec}
      /\ store'[api][KindOf(c.op)][c.id] = value
      /\ \A kind \in Kinds : \A id \in Ids :
           kind # KindOf(c.op) \/ id # c.id => store'[api][kind][id] = store[api][kind][id]
  <2>1. c \in Calls /\ api \in Replicas
    BY MadeCalls, FlowCalls
  <2>2. records'[api] = records[api] \cup {rec} /\ value \in Resource
    BY <2>1 DEF Effect, Perform, RecordResult, StoreInv, Types
  <2> QED
    BY <2>1, <2>2, CallParts, KindsWritten, EffectWrites, SyntheticAssumption DEF StoreInv
<1>2. ASSUME NEW a \in records[api]
      PROVE  /\ a.call \in Calls /\ a.value \in Resource
             /\ KindOf(a.call.op) \in Kinds /\ a.call.id \in Ids
             /\ ~(a.call.key = c.key /\ Scope(a.call) = Scope(c))
             /\ \E g \in Flows : Made(g, a.call)
  <2>1. a \in Result
    BY <1>1 DEF StoreInv, Types
  <2>2. a.call \in Calls /\ a.value \in Resource
    BY <2>1 DEF Result
  <2> QED
    BY <2>2, CallParts, KindsWritten DEF Effect, Perform, RecordsOf, AllMade
<1>3. ASSUME NEW a \in records[api], KindOf(a.call.op) = KindOf(c.op), a.call.id = c.id
      PROVE  /\ a.call.op \notin {"create-claim", "create-return"}
             /\ a.call.op = "update-partner-case" => value.status = "APPROVED"
  <2>1. At(a) # Null
    BY DEF Kept
  <2>2. PICK g \in Flows : Made(g, a.call)
    BY <1>2
  <2>3. a.call.op # "create-claim"
    <3> SUFFICES ASSUME a.call.op = "create-claim" PROVE FALSE
      OBVIOUS
    <3>1. c.op = "create-claim"
      BY <1>1, <1>2, <1>3, CallParts, KindsWritten
    <3>2. a.call.key = c.key
      BY <1>3, <2>2, <3>1, MadeCalls, FlowsAssumption
    <3> QED
      BY <1>2, <3>1, <3>2 DEF Scope
  <2>4. a.call.op # "create-return"
    <3> SUFFICES ASSUME a.call.op = "create-return" PROVE FALSE
      OBVIOUS
    <3>1. c.op = "create-return" /\ KindOf(c.op) = "returns"
      BY <1>1, <1>2, <1>3, CallParts, KindsWritten
    <3> QED
      BY <1>3, <2>1, <3>1 DEF Effect, IsNew, Has
  <2>5. ASSUME a.call.op = "update-partner-case" PROVE value.status = "APPROVED"
    <3>1. KindOf(c.op) = "partnerCases" /\ c.op \in {"create-partner-case", "update-partner-case"}
      BY <1>1, <1>3, <2>5, CallParts, KindsWritten DEF KindOf
    <3>2. CASE c.op = "update-partner-case"
      BY <3>2, MadeCalls DEF Effect
    <3>3. CASE c.op = "create-partner-case"
      <4>1. PICK b \in records[api] :
              /\ KindOf(b.call.op) = "partnerCases" /\ b.call.id = c.id
              /\ b.call.op # "update-partner-case"
        BY <1>1, <1>3, <2>1, <3>1 DEF Opened, Has
      <4>2. b.call.op = "create-partner-case"
        BY <1>2, <4>1, CallParts, KindsWritten
      <4>3. PICK h \in Flows : Made(h, b.call)
        BY <1>2
      <4>4. b.call.key = c.key
        BY <3>3, <4>1, <4>2, <4>3, MadeCalls, FlowsAssumption
      <4> QED
        BY <1>2, <3>3, <4>2, <4>4 DEF Scope
    <3> QED
      BY <3>1, <3>2, <3>3
  <2> QED
    BY <2>3, <2>4, <2>5
<1>4. Kept'
  <2> SUFFICES ASSUME NEW a \in records'[api]
               PROVE  /\ At(a)' # Null
                      /\ a.call.op \in {"create-claim", "create-return"} => At(a)' = a.value
                      /\ a.call.op = "update-partner-case" => At(a)'.status = "APPROVED"
    BY DEF Kept
  <2>1. CASE a = rec
    BY <1>1, <2>1, MadeCalls DEF Effect
  <2>2. CASE a \in records[api] /\ KindOf(a.call.op) = KindOf(c.op) /\ a.call.id = c.id
    BY <1>1, <1>3, <2>2
  <2>3. CASE a \in records[api] /\ ~(KindOf(a.call.op) = KindOf(c.op) /\ a.call.id = c.id)
    <3>1. At(a)' = At(a)
      BY <1>1, <1>2, <2>3
    <3> QED
      BY <2>3, <3>1 DEF Kept
  <2> QED
    BY <1>1, <2>1, <2>2, <2>3
<1>5. Opened'
  <2> SUFFICES ASSUME NEW kind \in Kinds, NEW id \in Ids, Has(api, kind, id)'
               PROVE  \E a \in records'[api] :
                        /\ KindOf(a.call.op) = kind /\ a.call.id = id
                        /\ a.call.op # "update-partner-case"
    BY DEF Opened
  <2>1. CASE Has(api, kind, id)
    BY <1>1, <2>1 DEF Opened
  <2>2. CASE ~Has(api, kind, id)
    <3>1. kind = KindOf(c.op) /\ id = c.id
      BY <1>1, <2>2 DEF Has
    <3>2. c.op # "update-partner-case"
      BY <2>2, <3>1 DEF Effect, KindOf
    <3>3. rec \in records'[api] /\ rec.call = c
      BY <1>1
    <3> QED
      BY <3>1, <3>2, <3>3
  <2> QED
    BY <2>1, <2>2
<1> QED
  BY <1>4, <1>5

\* What was recorded once stays so, but for a restart.
LEMMA RecordsStay ==
  ASSUME records[api] \subseteq records'[api], restarted' = restarted
  PROVE  /\ \A c : Recorded(c) => Recorded(c)'
         /\ \A c, status : RecordedAs(c, status) => RecordedAs(c, status)'
         /\ \A f : Accepted(f) => Accepted(f)'
         /\ \A f, c : Made(f, c) => Made(f, c)'
<1>1. \A c : Recorded(c) => Recorded(c)'
  BY DEF Recorded
<1>2. \A c, status : RecordedAs(c, status) => RecordedAs(c, status)'
  BY DEF RecordedAs
<1>3. \A f : Accepted(f) => Accepted(f)'
  BY <1>2 DEF Accepted
<1> QED
  BY <1>1, <1>2, <1>3 DEF Made

\* What a call of a flow, or none, does to the API.
LEMMA ApiMoves ==
  ASSUME StoreInv, StoreInv', Kept, Opened, AllMade, NEW f \in Flows, restarted' = restarted,
         UNCHANGED vars \/ \E c : Made(f, c) /\ Handle(c)
  PROVE  Kept' /\ Opened' /\ AllMade' /\ records[api] \subseteq records'[api]
<1>1. CASE UNCHANGED vars
  <2>1. UNCHANGED <<store, records>>
    BY <1>1 DEF vars
  <2>2. Kept' /\ Opened'
    BY <2>1 DEF Kept, Opened, Has
  <2>3. records[api] \subseteq records'[api]
    BY <2>1
  <2> QED
    BY <2>1, <2>2, <2>3, RecordsStay DEF AllMade
<1>2. ASSUME NEW c, Made(f, c), Handle(c)
      PROVE  Kept' /\ Opened' /\ AllMade' /\ records[api] \subseteq records'[api]
  <2>1. c \in Calls /\ Handled(api, c)
    BY <1>2, MadeCalls, HandleHandled DEF StoreInv
  <2>2. /\ records[api] \subseteq records'[api]
        /\ \A a \in records'[api] : a \in records[api] \/ a.call = c
    BY <2>1, HandledRecords DEF StoreInv
  <2>3. CASE Replay(api, c)
    <3>1. UNCHANGED <<store, records>>
      BY <2>3 DEF Replay
    <3>2. Kept' /\ Opened'
      BY <3>1 DEF Kept, Opened, Has
    <3> QED
      BY <3>1, <3>2, <2>2, RecordsStay DEF AllMade
  <2>4. CASE \E value, callback : Effect(api, c, value, callback)
    <3>1. Kept' /\ Opened'
      BY <1>2, <2>4, EffectKeeps
    <3>2. AllMade'
      BY <1>2, <2>2, RecordsStay DEF AllMade
    <3> QED
      BY <2>2, <3>1, <3>2
  <2> QED
    BY <2>1, <2>3, <2>4 DEF Handled
<1> QED
  BY <1>1, <1>2

\* A call that reached the API is recorded, and with the status that it was told.
LEMMA CallLeaves ==
  ASSUME StoreInv, StoreInv', NEW f \in Flows, NEW c, Made(f, c), Handle(c)
  PROVE  /\ Recorded(c)'
         /\ \A status \in AnswersTo(c) : RecordedAs(c, status)' /\ status \in Status
<1>1. c \in Calls /\ Recorded(c)'
  BY MadeCalls, HandleHandled, HandledRecords DEF StoreInv
<1>2. ASSUME NEW status \in AnswersTo(c)
      PROVE  RecordedAs(c, status)' /\ status \in Status
  <2>1. PICK a \in answers'[api] : a.call = c /\ a.value.status = status
    BY <1>2 DEF AnswersTo
  <2>2. a \in records'[api]
    BY <2>1, FlowCalls DEF StoreInv, RecordsSettle, Settled
  <2>3. a \in Result
    BY <2>2, FlowCalls DEF StoreInv, Types
  <2> QED
    BY <2>1, <2>2, <2>3 DEF RecordedAs, Result, Resource
<1> QED
  BY <1>1, <1>2

-----------------------------------------------------------------------------
(* The flows: how far they have come, and what that takes.                 *)

\* No other life of the API has seen f's return.
Undisturbed(f) ==
  restarted \cap {g \in Scenarios : ReturnCall[g].id = ReturnCall[f].id} = {}

\* A claim is answered with what is recorded, and one of its events is out; what a
\* reported success knows stays with the run to its end.
ClaimFits(f) ==
  /\ flow[f].at = "reconcile" => f \in restarted \/ Recorded(ClaimCall[f])
  /\ flow[f].at \in {"review", "emit", "respond", "answered"} =>
       f \in restarted \/ RecordedAs(ClaimCall[f], flow[f].seen)
  /\ flow[f].at \in {"respond", "answered"} => <<f, "SUCCEEDED">> \in events
  /\ <<f, "SUCCEEDED">> \in events =>
       /\ flow[f].at \in {"respond", "answered", "error", "failed"}
       /\ f \in restarted \/ RecordedAs(ClaimCall[f], flow[f].seen)
  /\ <<f, "FAILED">> \in events => flow[f].at = "failed"

\* A Zap goes on with a step when the one before is recorded.
ZapFits(f) ==
  f \notin restarted =>
    /\ flow[f].at \in {"case", "decision", "done"} => Recorded(ZapCalls[f][1])
    /\ flow[f].at \in {"decision", "done"} => Recorded(ZapCalls[f][2])
    /\ flow[f].at = "done" => Recorded(ZapCalls[f][3])

\* A scenario goes on past the router with an accepted return, past the warehouse
\* with its work, and answers with its own refund.
ScenarioFits(f) ==
  f \notin restarted =>
    /\ flow[f].at \in {"work", "refund", "reconcile", "read-refund", "answered"} => Accepted(f)
    /\ flow[f].at \in {"refund", "reconcile", "read-refund", "answered"} =>
         Recorded(WorkCall[f])
    /\ flow[f].at = "answered" /\ Undisturbed(f) => Recorded(RefundCall[f])

Fits(f) ==
  /\ f \in Claims => ClaimFits(f)
  /\ f \in Zaps => ZapFits(f)
  /\ f \in Scenarios => ScenarioFits(f)

FlowsInv == FlowsTypeOK /\ Kept /\ Opened /\ AllMade /\ \A f \in Flows : Fits(f)

\* The register of f moves, and no other.
Moved(f) ==
  /\ flow' \in [Flows -> [at : Nodes, tries : Nat, seen : Status \cup {Null}]]
  /\ \A g \in Flows \ {f} : flow'[g] = flow[g]

\* A flow goes on.
LEMMA Going ==
  ASSUME FlowsTypeOK, NEW f \in Flows, NEW node \in Nodes, NEW seen \in Status \cup {Null},
         Goto(f, node, seen)
  PROVE  Moved(f) /\ flow'[f].at = node /\ flow'[f].seen = seen
<1> DEFINE next == [at |-> node, tries |-> 0, seen |-> seen]
<1>1. next \in [at : Nodes, tries : Nat, seen : Status \cup {Null}]
  OBVIOUS
<1>2. flow' = [flow EXCEPT ![f] = next] /\ next.at = node /\ next.seen = seen
  BY DEF Goto
<1> HIDE DEF next
<1> QED
  BY <1>1, <1>2 DEF FlowsTypeOK, Moved

\* A flow tries again or gives up.
LEMMA Trying ==
  ASSUME FlowsTypeOK, NEW f \in Flows, NEW onError \in Nodes, TryAgain(f, onError)
  PROVE  Moved(f) /\ flow'[f].at \in {flow[f].at, onError} /\ flow'[f].seen = flow[f].seen
<1>1. flow[f] \in [at : Nodes, tries : Nat, seen : Status \cup {Null}]
  BY DEF FlowsTypeOK
<1>2. CASE flow[f].tries + 1 < Tries(f)
  <2> DEFINE next == [flow[f] EXCEPT !.tries = @ + 1]
  <2>1. /\ next \in [at : Nodes, tries : Nat, seen : Status \cup {Null}]
        /\ next.at = flow[f].at /\ next.seen = flow[f].seen
    BY <1>1
  <2>2. flow' = [flow EXCEPT ![f] = next]
    BY <1>1, <1>2 DEF TryAgain
  <2> HIDE DEF next
  <2> QED
    BY <2>1, <2>2 DEF FlowsTypeOK, Moved
<1>3. CASE ~(flow[f].tries + 1 < Tries(f))
  BY <1>1, <1>3, Going DEF TryAgain
<1> QED
  BY <1>2, <1>3

\* A step of one flow, which leaves that flow in order, keeps the invariant.
LEMMA FlowStep ==
  ASSUME StoreInv, StoreInv', FlowsInv, NEW f \in Flows, Moved(f), restarted' = restarted,
         UNCHANGED vars \/ \E c : Made(f, c) /\ Handle(c),
         events' \subseteq Claims \X {"SUCCEEDED", "FAILED"},
         \A g \in Claims \ {f} : \A s : <<g, s>> \in events' <=> <<g, s>> \in events,
         f \in Claims => flow'[f].at \in ClaimNodes,
         f \in Zaps => flow'[f].at \in ZapNodes,
         f \in Scenarios => flow'[f].at \in ScenarioNodes,
         Fits(f)'
  PROVE  FlowsInv'
<1>1. Kept' /\ Opened' /\ AllMade' /\ records[api] \subseteq records'[api]
  BY ApiMoves DEF FlowsInv
<1>2. ASSUME NEW g \in Flows, g # f PROVE Fits(g)'
  <2>1. Fits(g) /\ flow'[g] = flow[g]
    BY <1>2 DEF FlowsInv, Moved
  <2>2. Undisturbed(g)' <=> Undisturbed(g)
    BY DEF Undisturbed
  <2>3. g \in Claims => ClaimFits(g)'
    BY <1>1, <1>2, <2>1, RecordsStay DEF Fits, ClaimFits
  <2>4. g \in Zaps => ZapFits(g)'
    BY <1>1, <2>1, RecordsStay DEF Fits, ZapFits
  <2>5. g \in Scenarios => ScenarioFits(g)'
    BY <1>1, <2>1, <2>2, RecordsStay DEF Fits, ScenarioFits
  <2> QED
    BY <2>3, <2>4, <2>5 DEF Fits
<1>3. FlowsTypeOK'
  BY DEF FlowsInv, FlowsTypeOK, Moved, Flows
<1> QED
  BY <1>1, <1>2, <1>3 DEF FlowsInv
-----------------------------------------------------------------------------
(* Each automation keeps the invariant.                                    *)

\* What a GET shows is a status of the resource, if there is one.
LEMMA StatusShown ==
  ASSUME StoreInv, NEW kind \in Kinds, NEW id \in Ids
  PROVE  /\ StatusOf(kind, id) \in Status \cup {Null}
         /\ StatusOf(kind, id) # Null <=> Has(api, kind, id)
<1>1. Has(api, kind, id) => store[api][kind][id] \in Resource
  BY FlowCalls DEF StoreInv, Types, Has
<1> QED
  BY <1>1, FlowsAssumption DEF StatusOf, Resource

\* Claims intake in n8n.
LEMMA ClaimKeeps ==
  ASSUME StoreInv, StoreInv', FlowsInv, NEW f \in Claims, StartClaim(f) \/ RunClaim(f)
  PROVE  FlowsInv'
<1> DEFINE c == ClaimCall[f]
           Api == UNCHANGED vars \/ Handle(c)
           Events == events' \in {events, events \cup {<<f, "SUCCEEDED">>},
                                  events \cup {<<f, "FAILED">>}}
<1>1. /\ f \in Flows /\ f \notin Zaps /\ f \notin Scenarios /\ FlowsTypeOK /\ ClaimFits(f)
      /\ flow[f].seen \in Status \cup {Null}
      /\ ClaimNodes \subseteq Nodes
  BY FlowsAssumption DEF Flows, FlowsInv, FlowsTypeOK, Fits, Nodes
<1>2. Made(f, c)
  BY DEF Made
<1>3. restarted' = restarted /\ Api
  BY DEF StartClaim, RunClaim, GetPolicy, CreateClaim, CreateUncertain, Reconcile, Review,
         EmitSuccess, Respond, EmitFailure, Unanswered
<1>4. /\ Recorded(c) => Recorded(c)'
      /\ \A status : RecordedAs(c, status) => RecordedAs(c, status)'
  <2>1. records[api] \subseteq records'[api]
    BY <1>1, <1>2, <1>3, ApiMoves DEF FlowsInv
  <2> QED
    BY <1>3, <2>1, RecordsStay
<1>5. SUFFICES Moved(f) /\ Events /\ flow'[f].at \in ClaimNodes /\ ClaimFits(f)'
  <2>1. ASSUME Moved(f), Events, flow'[f].at \in ClaimNodes, ClaimFits(f)'
        PROVE  FlowsInv'
    <3>1. UNCHANGED vars \/ \E d : Made(f, d) /\ Handle(d)
      BY <1>2, <1>3
    <3>2. events' \subseteq Claims \X {"SUCCEEDED", "FAILED"}
      BY <1>1, <2>1 DEF FlowsTypeOK
    <3>3. \A g \in Claims \ {f} : \A s : <<g, s>> \in events' <=> <<g, s>> \in events
      BY <2>1
    <3>4. Fits(f)'
      BY <1>1, <2>1 DEF Fits
    <3> HIDE DEF c, Api, Events
    <3> QED
      BY <1>1, <1>3, <2>1, <3>1, <3>2, <3>3, <3>4, FlowStep
  <2> QED
    BY <2>1
<1>6. ASSUME TryAgain(f, "error"), events' = events,
             flow[f].at \in {"policy", "create", "reconcile"}
      PROVE  Moved(f) /\ Events /\ flow'[f].at \in ClaimNodes /\ ClaimFits(f)'
  <2>1. Moved(f) /\ flow'[f].at \in {flow[f].at, "error"} /\ flow'[f].seen = flow[f].seen
    BY <1>1, <1>6, Trying DEF ClaimNodes
  <2> QED
    BY <1>1, <1>3, <1>4, <1>6, <2>1 DEF ClaimFits, ClaimNodes
<1>7. ASSUME NEW s \in Status, Goto(f, AfterClaim(s), s), events' = events,
             f \in restarted \/ RecordedAs(c, s)',
             flow[f].at \in {"create", "reconcile"}
      PROVE  Moved(f) /\ Events /\ flow'[f].at \in ClaimNodes /\ ClaimFits(f)'
  <2>1. AfterClaim(s) \in {"review", "emit"}
    BY DEF AfterClaim
  <2>2. AfterClaim(s) \in Nodes
    BY <1>1, <2>1 DEF ClaimNodes
  <2>3. Moved(f) /\ flow'[f].at = AfterClaim(s) /\ flow'[f].seen = s
    BY <1>1, <1>7, <2>2, Going DEF ClaimNodes
  <2> QED
    BY <1>1, <1>3, <1>7, <2>1, <2>3 DEF ClaimFits, ClaimNodes
<1>8. CASE StartClaim(f)
  <2>1. Moved(f) /\ flow'[f].at = "policy"
    BY <1>1, <1>8, Going DEF StartClaim, ClaimNodes
  <2> QED
    BY <1>1, <1>8, <2>1 DEF StartClaim, ClaimFits, ClaimNodes
<1>9. CASE GetPolicy(f)
  <2>1. CASE Goto(f, "create", Null)
    <3>1. Moved(f) /\ flow'[f].at = "create"
      BY <1>1, <2>1, Going DEF ClaimNodes
    <3> QED
      BY <1>1, <1>9, <3>1 DEF GetPolicy, ClaimFits, ClaimNodes
  <2> QED
    BY <1>6, <1>9, <2>1 DEF GetPolicy, ClaimNodes
<1>10. CASE CreateClaim(f)
  <2>1. ASSUME Handle(c), NEW s \in AnswersTo(c), Goto(f, AfterClaim(s), s)
        PROVE  Moved(f) /\ Events /\ flow'[f].at \in ClaimNodes /\ ClaimFits(f)'
    <3>1. RecordedAs(c, s)' /\ s \in Status
      BY <1>1, <1>2, <2>1, CallLeaves
    <3> QED
      BY <1>7, <1>10, <2>1, <3>1 DEF CreateClaim
  <2> QED
    BY <1>6, <1>10, <2>1 DEF CreateClaim, ClaimNodes
<1>11. CASE CreateUncertain(f)
  <2>1. CASE Handle(c) /\ Goto(f, "reconcile", Null)
    <3>1. Recorded(c)'
      BY <1>1, <1>2, <2>1, CallLeaves
    <3>2. Moved(f) /\ flow'[f].at = "reconcile"
      BY <1>1, <2>1, Going DEF ClaimNodes
    <3> QED
      BY <1>1, <1>11, <3>1, <3>2 DEF CreateUncertain, ClaimFits, ClaimNodes
  <2>2. CASE Goto(f, "error", Null)
    <3>1. Moved(f) /\ flow'[f].at = "error"
      BY <1>1, <2>2, Going DEF ClaimNodes
    <3> QED
      BY <1>1, <1>11, <3>1 DEF CreateUncertain, ClaimFits, ClaimNodes
  <2> QED
    BY <1>11, <2>1, <2>2 DEF CreateUncertain
<1>12. CASE Reconcile(f)
  <2> DEFINE s == StatusOf("claims", c.id)
  <2>1. CASE s # Null /\ Goto(f, AfterClaim(s), s)
    <3>1. c \in Calls /\ c.op = "create-claim" /\ c.id \in Ids /\ KindOf(c.op) = "claims"
      BY FlowCalls, CallParts, KindsWritten
    <3>2. s \in Status /\ s = store[api]["claims"][c.id].status
      BY <2>1, <3>1, StatusShown DEF StatusOf, Kinds
    <3>3. f \in restarted \/ Recorded(c)
      BY <1>1, <1>12 DEF Reconcile, ClaimFits
    <3>4. f \in restarted \/ RecordedAs(c, s)
      BY <3>1, <3>2, <3>3 DEF FlowsInv, Kept, Recorded, RecordedAs
    <3> HIDE DEF s, c
    <3> QED
      BY <1>4, <1>7, <1>12, <2>1, <3>2, <3>4 DEF Reconcile
  <2> QED
    BY <1>6, <1>12, <2>1 DEF Reconcile, ClaimNodes
<1>13. CASE Review(f)
  <2>1. Moved(f) /\ flow'[f].at = "emit" /\ flow'[f].seen = flow[f].seen
    BY <1>1, <1>13, Going DEF Review, ClaimNodes
  <2> QED
    BY <1>1, <1>3, <1>4, <1>13, <2>1 DEF Review, ClaimFits, ClaimNodes
<1>14. CASE EmitSuccess(f)
  <2>1. CASE Goto(f, "respond", flow[f].seen) /\ events' = events \cup {<<f, "SUCCEEDED">>}
    <3>1. Moved(f) /\ flow'[f].at = "respond" /\ flow'[f].seen = flow[f].seen
      BY <1>1, <2>1, Going DEF ClaimNodes
    <3> QED
      BY <1>1, <1>3, <1>4, <1>14, <2>1, <3>1 DEF EmitSuccess, ClaimFits, ClaimNodes
  <2>2. CASE /\ Goto(f, "error", flow[f].seen)
             /\ events' \in {events, events \cup {<<f, "SUCCEEDED">>}}
    <3>1. Moved(f) /\ flow'[f].at = "error" /\ flow'[f].seen = flow[f].seen
      BY <1>1, <2>2, Going DEF ClaimNodes
    <3> QED
      BY <1>1, <1>3, <1>4, <1>14, <2>2, <3>1 DEF EmitSuccess, ClaimFits, ClaimNodes
  <2> QED
    BY <1>14, <2>1, <2>2 DEF EmitSuccess
<1>15. CASE Respond(f)
  <2>1. /\ Moved(f) /\ flow'[f].at \in {"answered", "error"}
        /\ flow'[f].seen = flow[f].seen
    BY <1>1, <1>15, Going DEF Respond, ClaimNodes
  <2> QED
    BY <1>1, <1>3, <1>4, <1>15, <2>1 DEF Respond, ClaimFits, ClaimNodes
<1>16. CASE EmitFailure(f)
  <2>1. Moved(f) /\ flow'[f].at = "failed" /\ flow'[f].seen = flow[f].seen
    BY <1>1, <1>16, Going DEF EmitFailure, ClaimNodes
  <2> QED
    BY <1>1, <1>3, <1>4, <1>16, <2>1 DEF EmitFailure, ClaimFits, ClaimNodes
<1> QED
  BY <1>8, <1>9, <1>10, <1>11, <1>12, <1>13, <1>14, <1>15, <1>16 DEF RunClaim

\* The steps of a Zap, by the node that it is at.
LEMMA ZapSteps ==
  ASSUME NEW f \in Zaps, flow[f].at \in {"verification", "case", "decision"}
  PROVE  /\ ZapCall(f) \in Calls /\ Made(f, ZapCall(f))
         /\ flow[f].at = "verification" => ZapCall(f) = ZapCalls[f][1] /\ NextStep(f) = "case"
         /\ flow[f].at = "case" => ZapCall(f) = ZapCalls[f][2] /\ NextStep(f) = "decision"
         /\ flow[f].at = "decision" => ZapCall(f) = ZapCalls[f][3] /\ NextStep(f) = "done"
<1>1. /\ Steps[1] = "verification" /\ Steps[2] = "case" /\ Steps[3] = "decision"
      /\ \A n \in 1..3 : n = 1 \/ n = 2 \/ n = 3
  BY DEF Steps
<1>2. StepOf(f) \in 1..3 /\ Steps[StepOf(f)] = flow[f].at
  BY <1>1 DEF StepOf
<1>3. /\ flow[f].at = "verification" => StepOf(f) = 1
      /\ flow[f].at = "case" => StepOf(f) = 2
      /\ flow[f].at = "decision" => StepOf(f) = 3
  BY <1>1, <1>2
<1>4. /\ flow[f].at = "verification" => NextStep(f) = "case"
      /\ flow[f].at = "case" => NextStep(f) = "decision"
      /\ flow[f].at = "decision" => NextStep(f) = "done"
  BY <1>1, <1>3 DEF NextStep
<1>5. ZapCall(f) = ZapCalls[f][StepOf(f)]
  BY DEF ZapCall
<1> QED
  BY <1>1, <1>2, <1>3, <1>4, <1>5, FlowCalls DEF Made

\* Partner onboarding in Zapier.
LEMMA ZapKeeps ==
  ASSUME StoreInv, StoreInv', FlowsInv, NEW f \in Zaps, StartZap(f) \/ PerformStep(f)
  PROVE  FlowsInv'
<1>0. PICK c : c = ZapCall(f)
  OBVIOUS
<1> DEFINE Api == UNCHANGED vars \/ (Made(f, c) /\ Handle(c))
<1>1. /\ f \in Flows /\ f \notin Claims /\ f \notin Scenarios /\ FlowsTypeOK /\ ZapFits(f)
      /\ flow[f].seen \in Status \cup {Null} /\ ZapNodes \subseteq Nodes
  BY FlowsAssumption DEF Flows, FlowsInv, FlowsTypeOK, Fits, Nodes
<1>2. restarted' = restarted /\ events' = events /\ Api
  BY <1>0, ZapSteps DEF StartZap, PerformStep, Unanswered, Refused
<1>3. \A d : Recorded(d) => Recorded(d)'
  <2>1. records[api] \subseteq records'[api]
    BY <1>1, <1>2, ApiMoves DEF FlowsInv
  <2> QED
    BY <1>2, <2>1, RecordsStay
<1>4. SUFFICES Moved(f) /\ flow'[f].at \in ZapNodes /\ ZapFits(f)'
  <2>1. ASSUME Moved(f), flow'[f].at \in ZapNodes, ZapFits(f)'
        PROVE  FlowsInv'
    <3>1. UNCHANGED vars \/ \E d : Made(f, d) /\ Handle(d)
      BY <1>2
    <3>2. events' \subseteq Claims \X {"SUCCEEDED", "FAILED"}
      BY <1>1, <1>2 DEF FlowsTypeOK
    <3>3. \A g \in Claims \ {f} : \A s : <<g, s>> \in events' <=> <<g, s>> \in events
      BY <1>2
    <3>4. Fits(f)'
      BY <1>1, <2>1 DEF Fits
    <3> HIDE DEF Api
    <3> QED
      BY <1>1, <1>2, <2>1, <3>1, <3>2, <3>3, <3>4, FlowStep
  <2> QED
    BY <2>1
<1>5. CASE StartZap(f)
  <2>1. Moved(f) /\ flow'[f].at = "verification"
    BY <1>1, <1>5, Going DEF StartZap, ZapNodes
  <2> QED
    BY <2>1 DEF ZapFits, ZapNodes
<1>6. CASE PerformStep(f)
  <2>1. flow[f].at \in {"verification", "case", "decision"}
    BY <1>6 DEF PerformStep
  <2>2. ASSUME Handle(c), NEW s \in AnswersTo(c), Goto(f, NextStep(f), s)
        PROVE  Moved(f) /\ flow'[f].at \in ZapNodes /\ ZapFits(f)'
    <3>1. Recorded(c)' /\ s \in Status
      BY <1>1, <1>0, <2>1, <2>2, ZapSteps, CallLeaves
    <3>2. NextStep(f) \in ZapNodes
      BY <2>1, ZapSteps DEF ZapNodes
    <3>3. Moved(f) /\ flow'[f].at = NextStep(f)
      BY <1>1, <2>2, <3>1, <3>2, Going
    <3> QED
      <4> HIDE DEF Api
      <4>1. CASE flow[f].at = "verification"
        BY <1>2, <3>1, <3>2, <3>3, <4>1, <1>0, ZapSteps DEF ZapFits
      <4>2. CASE flow[f].at = "case"
        BY <1>1, <1>2, <1>3, <3>1, <3>2, <3>3, <4>2, <1>0, ZapSteps DEF ZapFits
      <4>3. CASE flow[f].at = "decision"
        BY <1>1, <1>2, <1>3, <3>1, <3>2, <3>3, <4>3, <1>0, ZapSteps DEF ZapFits
      <4> QED
        BY <2>1, <4>1, <4>2, <4>3
  <2>3. CASE ServerError(f)
    <3>1. Moved(f) /\ flow'[f].at \in {flow[f].at, "halted"}
      BY <1>1, <2>3, Trying DEF ServerError, ZapNodes
    <3> QED
      BY <1>1, <1>2, <1>3, <2>1, <3>1 DEF ZapFits, ZapNodes
  <2>4. CASE Goto(f, "halted", flow[f].seen)
    <3>1. Moved(f) /\ flow'[f].at = "halted"
      BY <1>1, <2>4, Going DEF ZapNodes
    <3> QED
      BY <3>1 DEF ZapFits, ZapNodes
  <2> QED
    BY <1>0, <1>6, <2>2, <2>3, <2>4 DEF PerformStep, Unanswered
<1> QED
  BY <1>5, <1>6

\* Two accepted scenarios of one return are about the same order, and refund it by
\* the same call.
LEMMA OneRefund ==
  ASSUME StoreInv, NEW f \in Scenarios, NEW g \in Scenarios, Accepted(f), Accepted(g),
         ReturnCall[f].id = ReturnCall[g].id
  PROVE  ReturnCall[f] = ReturnCall[g] /\ RefundCall[f] = RefundCall[g]
<1>1. ReturnCall[f] = ReturnCall[g]
  <2>1. PICK a \in records[api], b \in records[api] :
          a.call = ReturnCall[f] /\ b.call = ReturnCall[g]
    BY DEF Accepted, RecordedAs
  <2>2. a.call.op = "create-return" /\ b.call.op = "create-return" /\ a.call.key = b.call.key
    BY <2>1, FlowCalls, FlowsAssumption
  <2>3. a = b
    BY <2>2, OneRecord
  <2> QED
    BY <2>1, <2>3
<1>2. /\ RefundCall[f].op = RefundCall[g].op /\ RefundCall[f].key = RefundCall[g].key
      /\ RefundCall[f].id = RefundCall[g].id /\ RefundCall[f].ref = RefundCall[g].ref
      /\ RefundCall[f].choice = RefundCall[g].choice
      /\ RefundCall[f].amount = RefundCall[g].amount
  BY <1>1, FlowCalls, FlowsAssumption
<1>3. ASSUME NEW c \in Calls
      PROVE  c = [op |-> c.op, key |-> c.key, id |-> c.id, ref |-> c.ref,
                  choice |-> c.choice, amount |-> c.amount]
  <2>1. c \in [op : Operations, key : Keys, id : Ids, ref : Ids \cup {Null},
               choice : Choices \cup {Null}, amount : Nat]
    BY SyntheticAssumption
  <2> QED
    BY <2>1
<1>4. RefundCall[f] \in Calls /\ RefundCall[g] \in Calls
  BY FlowCalls
<1> QED
  BY <1>1, <1>2, <1>3, <1>4

\* A refund that scenario f finds was made by its own call.
LEMMA OwnRefund ==
  ASSUME StoreInv, Opened, AllMade, NEW f \in Scenarios, Undisturbed(f), Accepted(f),
         Has(api, "refunds", RefundCall[f].id)
  PROVE  Recorded(RefundCall[f])
<1>1. RefundCall[f] \in Calls /\ RefundCall[f].id \in Ids /\ "refunds" \in Kinds
  BY FlowCalls, CallParts DEF Kinds
<1>2. PICK a \in records[api] : KindOf(a.call.op) = "refunds" /\ a.call.id = RefundCall[f].id
  BY <1>1 DEF Opened
<1>3. PICK g \in Flows : Made(g, a.call)
  BY DEF AllMade
<1>4. a.call \in Calls /\ a.call.op = "create-refund"
  BY <1>2, <1>3, MadeCalls, CallParts, KindsWritten
<1>5. g \in Scenarios /\ a.call = RefundCall[g] /\ (g \in restarted \/ Accepted(g))
  BY <1>3, <1>4, MadeCalls
<1>6. ReturnCall[g].id = ReturnCall[f].id
  BY <1>2, <1>5, FlowsAssumption
<1>7. g \notin restarted
  BY <1>5, <1>6 DEF Undisturbed
<1>8. RefundCall[g] = RefundCall[f]
  BY <1>5, <1>6, <1>7, OneRefund
<1> QED
  BY <1>5, <1>8 DEF Recorded

\* Return and refund in Make.
LEMMA ScenarioKeeps ==
  ASSUME StoreInv, StoreInv', FlowsInv, NEW f \in Scenarios, StartScenario(f) \/ RunScenario(f)
  PROVE  FlowsInv'
<1> DEFINE Api == UNCHANGED vars \/ \E d : Made(f, d) /\ Handle(d)
           Goes(node) == /\ Moved(f) /\ flow'[f].at = node /\ ScenarioFits(f)'
                         /\ node \in ScenarioNodes
<1>1. /\ f \in Flows /\ f \notin Claims /\ f \notin Zaps /\ FlowsTypeOK /\ ScenarioFits(f)
      /\ flow[f].seen \in Status \cup {Null} /\ flow[f].at \in ScenarioNodes
      /\ ScenarioNodes \subseteq Nodes
  BY FlowsAssumption DEF Flows, FlowsInv, FlowsTypeOK, Fits, Nodes
<1>2. /\ Made(f, ReturnCall[f])
      /\ flow[f].at = "work" => Made(f, WorkCall[f])
      /\ flow[f].at = "refund" => Made(f, RefundCall[f])
  BY <1>1 DEF Made, ScenarioFits
<1>3. restarted' = restarted /\ events' = events /\ Api
  BY <1>2 DEF StartScenario, RunScenario, GetOrder, CreateReturn, ReadReturn, CreateWork,
              CreateRefund, ReconcileRefund, ReadRefund, Unanswered
<1>4. /\ \A d : Recorded(d) => Recorded(d)'
      /\ Accepted(f) => Accepted(f)'
      /\ Undisturbed(f)' <=> Undisturbed(f)
  <2>1. records[api] \subseteq records'[api]
    BY <1>1, <1>3, ApiMoves DEF FlowsInv
  <2> QED
    BY <1>3, <2>1, RecordsStay DEF Undisturbed
<1>5. SUFFICES \E node : Goes(node)
  <2>1. ASSUME NEW node, Goes(node)
        PROVE  FlowsInv'
    <3>1. events' \subseteq Claims \X {"SUCCEEDED", "FAILED"}
      BY <1>1, <1>3 DEF FlowsTypeOK
    <3>2. \A g \in Claims \ {f} : \A s : <<g, s>> \in events' <=> <<g, s>> \in events
      BY <1>3
    <3>3. Fits(f)' /\ Moved(f) /\ flow'[f].at \in ScenarioNodes
      BY <1>1, <2>1 DEF Fits
    <3> HIDE DEF Goes
    <3> QED
      BY <1>1, <1>3, <3>1, <3>2, <3>3, FlowStep
  <2> QED
    BY <2>1
<1>6. ASSUME NEW node \in {"idle", "order", "return", "read-return", "approval", "rejected",
                           "silent", "halted"},
             NEW seen \in Status \cup {Null}, Goto(f, node, seen)
      PROVE  \E n : Goes(n)
  <2>1. node \in ScenarioNodes
    BY DEF ScenarioNodes
  <2>2. Moved(f) /\ flow'[f].at = node
    BY <1>1, <1>6, <2>1, Going
  <2>3. ScenarioFits(f)'
    BY <2>2 DEF ScenarioFits
  <2> QED
    BY <2>1, <2>2, <2>3
<1>7. ASSUME TryAgain(f, "halted") PROVE \E n : Goes(n)
  <2>1. Moved(f) /\ flow'[f].at \in {flow[f].at, "halted"}
    BY <1>1, <1>7, Trying DEF ScenarioNodes
  <2>2. ScenarioFits(f)'
    BY <1>1, <1>3, <1>4, <2>1 DEF ScenarioFits
  <2>3. flow'[f].at \in ScenarioNodes
    BY <1>1, <2>1 DEF ScenarioNodes
  <2> QED
    BY <2>1, <2>2, <2>3
<1>8. ASSUME NEW node \in {"work", "refund", "reconcile", "read-refund", "answered"},
             NEW seen \in Status \cup {Null}, Goto(f, node, seen),
             f \notin restarted =>
               /\ Accepted(f)'
               /\ node # "work" => Recorded(WorkCall[f])'
               /\ node = "answered" /\ Undisturbed(f) => Recorded(RefundCall[f])'
      PROVE  \E n : Goes(n)
  <2>1. node \in ScenarioNodes
    BY DEF ScenarioNodes
  <2>2. Moved(f) /\ flow'[f].at = node
    BY <1>1, <1>8, <2>1, Going
  <2>3. ScenarioFits(f)'
    BY <1>3, <1>4, <1>8, <2>2 DEF ScenarioFits
  <2> QED
    BY <2>1, <2>2, <2>3
<1> HIDE DEF Goes, Api
<1>9. CASE StartScenario(f)
  BY <1>6, <1>9 DEF StartScenario
<1>10. CASE GetOrder(f)
  BY <1>6, <1>7, <1>10 DEF GetOrder
<1>11. CASE CreateReturn(f)
  <2>1. ASSUME Handle(ReturnCall[f]), NEW s \in AnswersTo(ReturnCall[f]),
               Goto(f, Route(f, s), s)
        PROVE  \E n : Goes(n)
    <3>1. RecordedAs(ReturnCall[f], s)' /\ s \in Status
      BY <1>1, <1>2, <2>1, CallLeaves
    <3>2. CASE s = "ELIGIBLE" \/ (s = "APPROVAL_REQUIRED" /\ f \in Approved)
      <4>1. Route(f, s) = "work"
        BY <3>2 DEF Route
      <4>2. Accepted(f)'
        BY <3>1, <3>2 DEF Accepted
      <4> QED
        BY <1>8, <2>1, <3>1, <4>1, <4>2
    <3>3. CASE ~(s = "ELIGIBLE" \/ (s = "APPROVAL_REQUIRED" /\ f \in Approved))
      <4>1. Route(f, s) \in {"approval", "rejected", "silent"}
        BY <3>3 DEF Route
      <4> QED
        BY <1>6, <2>1, <3>1, <4>1
    <3> QED
      BY <3>2, <3>3
  <2> QED
    BY <1>6, <1>11, <2>1 DEF CreateReturn
<1>12. CASE ReadReturn(f)
  <2>1. Route(f, Null) = "silent"
    BY FlowsAssumption DEF Route, Status, CaseDecisions
  <2> QED
    BY <1>6, <1>12, <2>1 DEF ReadReturn
<1>13. CASE CreateWork(f)
  <2>1. flow[f].at = "work"
    BY <1>13 DEF CreateWork
  <2>2. f \notin restarted => Accepted(f)'
    BY <1>1, <1>4, <2>1 DEF ScenarioFits
  <2>3. Handle(WorkCall[f]) => Recorded(WorkCall[f])'
    BY <1>1, <1>2, <2>1, CallLeaves
  <2> QED
    BY <1>1, <1>7, <1>8, <1>13, <2>2, <2>3 DEF CreateWork
<1>14. CASE CreateRefund(f)
  <2>1. flow[f].at = "refund"
    BY <1>14 DEF CreateRefund
  <2>2. f \notin restarted => Accepted(f)' /\ Recorded(WorkCall[f])'
    BY <1>1, <1>4, <2>1 DEF ScenarioFits
  <2> QED
    BY <1>1, <1>8, <1>14, <2>2 DEF CreateRefund
<1>15. CASE ReconcileRefund(f)
  <2>1. flow[f].at = "reconcile"
    BY <1>15 DEF ReconcileRefund
  <2>2. f \notin restarted => Accepted(f)' /\ Recorded(WorkCall[f])'
    BY <1>1, <1>4, <2>1 DEF ScenarioFits
  <2> QED
    BY <1>1, <1>6, <1>8, <1>15, <2>2 DEF ReconcileRefund
<1>16. CASE ReadRefund(f)
  <2> DEFINE s == StatusOf("refunds", RefundCall[f].id)
  <2>1. flow[f].at = "read-refund"
    BY <1>16 DEF ReadRefund
  <2>2. f \notin restarted => Accepted(f) /\ Accepted(f)' /\ Recorded(WorkCall[f])'
    BY <1>1, <1>4, <2>1 DEF ScenarioFits
  <2>3. RefundCall[f].id \in Ids /\ "refunds" \in Kinds
    BY FlowCalls, CallParts DEF Kinds
  <2>4. CASE s # Null /\ Goto(f, "answered", s)
    <3>1. s \in Status \cup {Null} /\ Has(api, "refunds", RefundCall[f].id)
      BY <2>3, <2>4, StatusShown
    <3>2. f \notin restarted /\ Undisturbed(f) => Recorded(RefundCall[f])'
      BY <1>4, <2>2, <3>1, OwnRefund DEF FlowsInv
    <3> HIDE DEF s
    <3> QED
      BY <1>8, <2>2, <2>4, <3>1, <3>2
  <2> QED
    BY <1>7, <1>16, <2>4 DEF ReadRefund
<1> QED
  BY <1>9, <1>10, <1>11, <1>12, <1>13, <1>14, <1>15, <1>16 DEF RunScenario

\* The API starts again with nothing: no flow that it has served is held to this.
LEMMA RestartKeepsFlows ==
  ASSUME StoreInv, FlowsInv, RestartApi
  PROVE  FlowsInv'
<1>1. /\ records'[api] = {} /\ store'[api] = EmptyStore
      /\ restarted' = Started /\ flow' = flow /\ events' = events
  BY FlowCalls DEF RestartApi, Restart, StoreInv, Types
<1>2. Kept' /\ AllMade'
  BY <1>1 DEF Kept, AllMade
<1>3. Opened'
  BY <1>1 DEF Opened, Has, EmptyStore
<1>4. FlowsTypeOK'
  BY <1>1 DEF FlowsInv, FlowsTypeOK, Started
<1>5. ASSUME NEW f \in Flows PROVE Fits(f)'
  <2>1. Fits(f) /\ (f \in restarted' <=> flow'[f].at # "idle")
    BY <1>1 DEF FlowsInv, Started
  <2>2. f \in Claims => ClaimFits(f)'
    BY <1>1, <2>1 DEF Fits, ClaimFits
  <2>3. f \in Zaps => ZapFits(f)'
    BY <2>1 DEF ZapFits
  <2>4. f \in Scenarios => ScenarioFits(f)'
    BY <2>1 DEF ScenarioFits
  <2> QED
    BY <2>2, <2>3, <2>4 DEF Fits
<1> QED
  BY <1>2, <1>3, <1>4, <1>5 DEF FlowsInv

\* A flow does nothing to the API but to call it.
LEMMA FlowsOnlyCall ==
  ASSUME NEW f \in Flows, Begin(f) \/ Go(f)
  PROVE  UNCHANGED vars \/ \E c \in Calls : Handle(c)
<1>1. CASE Begin(f)
  BY <1>1 DEF Begin, StartClaim, StartZap, StartScenario
<1>2. CASE f \in Claims /\ RunClaim(f)
  BY <1>2, FlowCalls DEF RunClaim, GetPolicy, CreateClaim, CreateUncertain, Reconcile, Review,
                         EmitSuccess, Respond, EmitFailure, Unanswered
<1>3. CASE f \in Zaps /\ PerformStep(f)
  BY <1>3, ZapSteps DEF PerformStep, Unanswered, Refused
<1>4. CASE f \in Scenarios /\ RunScenario(f)
  BY <1>4, FlowCalls DEF RunScenario, GetOrder, CreateReturn, ReadReturn, CreateWork,
                         CreateRefund, ReconcileRefund, ReadRefund, Unanswered
<1> QED
  BY <1>1, <1>2, <1>3, <1>4 DEF Go

\* To the API the three automations are calls and restarts like any others: what
\* holds for SyntheticOperations holds while they run.
LEMMA FlowsImplementSynthetic == FlowsSpec => Spec
<1>1. FlowsInit => Init
  BY DEF FlowsInit
<1>2. [FlowsNext]_everything => [Next]_vars
  <2> SUFFICES ASSUME [FlowsNext]_everything PROVE [Next]_vars
    OBVIOUS
  <2>1. CASE RestartApi
    BY <2>1, FlowCalls DEF RestartApi, Next
  <2>2. ASSUME NEW f \in Flows, Begin(f) \/ Go(f)
        PROVE  [Next]_vars
    BY <2>2, FlowCalls, FlowsOnlyCall DEF Handle, Next
  <2>3. CASE UNCHANGED everything
    BY <2>3 DEF everything
  <2> QED
    BY <2>1, <2>2, <2>3 DEF FlowsNext
<1> QED
  BY <1>1, <1>2, PTL DEF FlowsSpec, Spec

\* How far the flows have come fits what the API has recorded for them.
THEOREM FlowsInductive == FlowsSpec => [](StoreInv /\ FlowsInv)
<1>1. FlowsInit => FlowsInv
  <2> SUFFICES ASSUME FlowsInit PROVE FlowsInv
    OBVIOUS
  <2>1. records[api] = {} /\ store[api] = EmptyStore
    BY FlowCalls DEF FlowsInit, Init
  <2>2. Kept /\ AllMade
    BY <2>1 DEF Kept, AllMade
  <2>3. Opened
    BY <2>1 DEF Opened, Has, EmptyStore
  <2>4. \A f \in Flows : flow[f].at = "idle"
    BY DEF FlowsInit
  <2>5. FlowsTypeOK
    BY <2>4 DEF FlowsInit, FlowsTypeOK, Flows, Nodes, ClaimNodes, ZapNodes, ScenarioNodes
  <2>6. \A f \in Flows : Fits(f)
    BY <2>4 DEF FlowsInit, Fits, ClaimFits, ZapFits, ScenarioFits
  <2> QED
    BY <2>2, <2>3, <2>5, <2>6 DEF FlowsInv
<1>2. StoreInv /\ StoreInv' /\ FlowsInv /\ [FlowsNext]_everything => FlowsInv'
  <2> SUFFICES ASSUME StoreInv, StoreInv', FlowsInv, [FlowsNext]_everything PROVE FlowsInv'
    OBVIOUS
  <2>1. CASE RestartApi
    BY <2>1, RestartKeepsFlows
  <2>2. ASSUME NEW f \in Flows, Begin(f) \/ Go(f)
        PROVE  FlowsInv'
    <3>1. \/ f \in Claims /\ (StartClaim(f) \/ RunClaim(f))
          \/ f \in Zaps /\ (StartZap(f) \/ PerformStep(f))
          \/ f \in Scenarios /\ (StartScenario(f) \/ RunScenario(f))
      BY <2>2 DEF Begin, Go
    <3> QED
      BY <3>1, ClaimKeeps, ZapKeeps, ScenarioKeeps
  <2>3. CASE UNCHANGED everything
    <3>1. UNCHANGED <<store, records, flow, events, restarted>>
      BY <2>3 DEF everything, vars, flowVars
    <3>2. Kept' /\ Opened' /\ AllMade' /\ FlowsTypeOK'
      BY <3>1 DEF FlowsInv, Kept, Opened, Has, AllMade, Made, Accepted, Recorded, RecordedAs,
                  FlowsTypeOK
    <3>3. \A f \in Flows : Fits(f)'
      BY <3>1 DEF FlowsInv, Fits, ClaimFits, ZapFits, ScenarioFits, Undisturbed, Accepted,
                  Recorded, RecordedAs
    <3> QED
      BY <3>2, <3>3 DEF FlowsInv
  <2> QED
    BY <2>1, <2>2, <2>3 DEF FlowsNext
<1> QED
  BY <1>1, <1>2, FlowsImplementSynthetic, StoreInductive, PTL DEF FlowsSpec

\* A run is at a node of its own automation, with a status it was told, and the API
\* keeps the types of its store.
THEOREM FlowsTypeCorrect == FlowsSpec => [](TypeOK /\ FlowsTypeOK)
<1>1. StoreInv /\ FlowsInv => TypeOK /\ FlowsTypeOK
  BY DEF StoreInv, Types, TypeOK, FlowsInv
<1> QED
  BY <1>1, FlowsInductive, PTL

\* A recorded call has run once.
LEMMA RanOnce ==
  ASSUME StoreInv, NEW c \in Calls, Recorded(c)
  PROVE  runs[api][c] = 1
  BY FlowCalls DEF StoreInv, RecordsSettle, Settled, Recorded

\* An accepted success is of the claim that the run was told of, created once; and a
\* claimant who is answered has an accepted success only: the executions of one claim
\* share its key, and no created claim is written again.
THEOREM ClaimsStand == FlowsSpec => []AnsweredClaimsStand
<1>1. ASSUME StoreInv, FlowsInv, NEW f \in Claims
      PROVE  /\ <<f, "SUCCEEDED">> \in events =>
                  /\ DoneOnce(f, ClaimCall[f])
                  /\ f \in restarted \/ StatusOf("claims", ClaimCall[f].id) = flow[f].seen
             /\ flow[f].at = "answered" =>
                  <<f, "SUCCEEDED">> \in events /\ <<f, "FAILED">> \notin events
  <2>1. ClaimFits(f)
    BY <1>1 DEF FlowsInv, Fits, Flows
  <2>2. ASSUME RecordedAs(ClaimCall[f], flow[f].seen)
        PROVE  /\ runs[api][ClaimCall[f]] = 1
               /\ StatusOf("claims", ClaimCall[f].id) = flow[f].seen
    <3>1. PICK a \in records[api] : a.call = ClaimCall[f] /\ a.value.status = flow[f].seen
      BY <2>2 DEF RecordedAs
    <3>2. a.call.op = "create-claim" /\ KindOf(a.call.op) = "claims"
      BY <3>1, FlowCalls DEF KindOf
    <3>3. store[api]["claims"][ClaimCall[f].id] = a.value /\ a.value # Null
      BY <1>1, <3>1, <3>2 DEF FlowsInv, Kept
    <3>4. runs[api][ClaimCall[f]] = 1
      BY <1>1, <3>1, FlowCalls, RanOnce DEF Recorded
    <3> QED
      BY <3>1, <3>3, <3>4 DEF StatusOf, Has
  <2> QED
    BY <2>1, <2>2 DEF ClaimFits, DoneOnce
<1>2. StoreInv /\ FlowsInv => AnsweredClaimsStand
  BY <1>1 DEF AnsweredClaimsStand
<1> QED
  BY <1>2, FlowsInductive, PTL

\* A finished Zap has done each of its steps once and its case is approved, still: a
\* case is opened under one key, so that nothing opens it again after its approval.
THEOREM ZapsHold == FlowsSpec => []FinishedZapsHold
<1>1. ASSUME StoreInv, FlowsInv, NEW f \in Zaps, flow[f].at = "done", f \notin restarted
      PROVE  /\ \A n \in 1..3 : runs[api][ZapCalls[f][n]] = 1
             /\ StatusOf("partnerCases", ZapCalls[f][3].id) = "APPROVED"
  <2>1. Recorded(ZapCalls[f][1]) /\ Recorded(ZapCalls[f][2]) /\ Recorded(ZapCalls[f][3])
    BY <1>1 DEF FlowsInv, Fits, ZapFits, Flows
  <2>2. /\ runs[api][ZapCalls[f][1]] = 1 /\ runs[api][ZapCalls[f][2]] = 1
        /\ runs[api][ZapCalls[f][3]] = 1
    BY <1>1, <2>1, FlowCalls, RanOnce
  <2>3. PICK a \in records[api] : a.call = ZapCalls[f][3]
    BY <2>1 DEF Recorded
  <2>4. a.call.op = "update-partner-case" /\ KindOf(a.call.op) = "partnerCases"
    BY <2>3, FlowCalls DEF KindOf
  <2>5. /\ store[api]["partnerCases"][ZapCalls[f][3].id] # Null
        /\ store[api]["partnerCases"][ZapCalls[f][3].id].status = "APPROVED"
    BY <1>1, <2>3, <2>4 DEF FlowsInv, Kept
  <2>6. \A n \in 1..3 : n = 1 \/ n = 2 \/ n = 3
    OBVIOUS
  <2> QED
    BY <2>2, <2>5, <2>6 DEF StatusOf, Has
<1>2. StoreInv /\ FlowsInv => FinishedZapsHold
  BY <1>1 DEF FinishedZapsHold, DoneOnce
<1> QED
  BY <1>2, FlowsInductive, PTL

\* No scenario works on a rejected return or refunds before its work, though another
\* may name the same return with another order: the return is recorded once, under
\* the key that they share, and each is routed by that record.
THEOREM RouterFollowed == FlowsSpec => []RefundsFollowTheRouter
<1>1. ASSUME StoreInv, FlowsInv, NEW f \in Scenarios, Undisturbed(f)
      PROVE  /\ Has(api, "warehouseWork", WorkCall[f].id) =>
                  StatusOf("returns", ReturnCall[f].id) # "REJECTED"
             /\ Has(api, "refunds", RefundCall[f].id) =>
                  Has(api, "warehouseWork", WorkCall[f].id)
             /\ flow[f].at = "answered" => DoneOnce(f, WorkCall[f]) /\ DoneOnce(f, RefundCall[f])
  <2>1. /\ WorkCall[f].id \in Ids /\ RefundCall[f].id \in Ids
        /\ "warehouseWork" \in Kinds /\ "refunds" \in Kinds
    BY FlowCalls, CallParts DEF Kinds
  <2>2. Kept /\ Opened /\ AllMade
    BY <1>1 DEF FlowsInv
  <2>3. ASSUME Has(api, "warehouseWork", WorkCall[f].id)
        PROVE  StatusOf("returns", ReturnCall[f].id) # "REJECTED"
    <3>1. PICK a \in records[api] :
            KindOf(a.call.op) = "warehouseWork" /\ a.call.id = WorkCall[f].id
      BY <2>1, <2>2, <2>3 DEF Opened
    <3>2. PICK g \in Flows : Made(g, a.call)
      BY <2>2 DEF AllMade
    <3>3. a.call.op = "create-warehouse-work"
      BY <3>1, <3>2, MadeCalls, CallParts, KindsWritten
    <3>4. g \in Scenarios /\ a.call = WorkCall[g] /\ (g \in restarted \/ Accepted(g))
      BY <3>2, <3>3, MadeCalls
    <3>5. ReturnCall[g].id = ReturnCall[f].id
      BY <3>1, <3>4, FlowsAssumption
    <3>6. Accepted(g)
      BY <1>1, <3>4, <3>5 DEF Undisturbed
    <3>7. PICK b \in records[api] :
            b.call = ReturnCall[g] /\ b.value.status \in {"ELIGIBLE", "APPROVAL_REQUIRED"}
      BY <3>6 DEF Accepted, RecordedAs
    <3>8. b.call.op = "create-return" /\ KindOf(b.call.op) = "returns"
      BY <3>4, <3>7, FlowCalls DEF KindOf
    <3>9. store[api]["returns"][ReturnCall[f].id] = b.value /\ b.value # Null
      BY <2>2, <3>5, <3>7, <3>8 DEF Kept
    <3> QED
      BY <3>7, <3>9 DEF StatusOf, Has
  <2>4. ASSUME Has(api, "refunds", RefundCall[f].id)
        PROVE  Has(api, "warehouseWork", WorkCall[f].id)
    <3>1. PICK a \in records[api] :
            KindOf(a.call.op) = "refunds" /\ a.call.id = RefundCall[f].id
      BY <2>1, <2>2, <2>4 DEF Opened
    <3>2. PICK g \in Flows : Made(g, a.call)
      BY <2>2 DEF AllMade
    <3>3. a.call.op = "create-refund"
      BY <3>1, <3>2, MadeCalls, CallParts, KindsWritten
    <3>4. /\ g \in Scenarios /\ a.call = RefundCall[g]
          /\ g \in restarted \/ Recorded(WorkCall[g])
      BY <3>2, <3>3, MadeCalls
    <3>5. ReturnCall[g].id = ReturnCall[f].id /\ WorkCall[g].id = WorkCall[f].id
      BY <3>1, <3>4, FlowsAssumption
    <3>6. PICK b \in records[api] : b.call = WorkCall[g]
      BY <1>1, <3>4, <3>5 DEF Undisturbed, Recorded
    <3>7. b.call.op = "create-warehouse-work" /\ KindOf(b.call.op) = "warehouseWork"
      BY <3>4, <3>6, FlowCalls DEF KindOf
    <3> QED
      BY <2>2, <3>5, <3>6, <3>7 DEF Kept, Has
  <2>5. ASSUME flow[f].at = "answered", f \notin restarted
        PROVE  runs[api][WorkCall[f]] = 1 /\ runs[api][RefundCall[f]] = 1
    <3>1. Recorded(WorkCall[f]) /\ Recorded(RefundCall[f])
      BY <1>1, <2>5 DEF FlowsInv, Fits, ScenarioFits, Flows
    <3> QED
      BY <1>1, <3>1, FlowCalls, RanOnce
  <2> QED
    BY <2>3, <2>4, <2>5 DEF DoneOnce
<1>2. StoreInv /\ FlowsInv => RefundsFollowTheRouter
  BY <1>1 DEF RefundsFollowTheRouter, Undisturbed
<1> QED
  BY <1>2, FlowsInductive, PTL
=============================================================================
