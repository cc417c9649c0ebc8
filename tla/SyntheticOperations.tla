------------------------ MODULE SyntheticOperations ------------------------
(***************************************************************************)
(* The synthetic operations API: the business calls of the sample automa-  *)
(* tions, over resources, idempotency records and callbacks that each      *)
(* replica keeps in memory.                                                *)
(*                                                                         *)
(* A handler runs to its end without an await, so a call is one step.  A   *)
(* call may be repeated at any time, by the retries of a platform, and may *)
(* reach any replica.  It may ask for an injected failure: before the      *)
(* effect, which leaves no trace and is no step, or after it (UNCERTAIN),  *)
(* which withholds the answer.                                             *)
(***************************************************************************)
EXTENDS Integers, FiniteSets

CONSTANTS
  Replicas,     \* processes of the API
  Keys,         \* idempotency keys
  Ids,          \* identifiers of resources, fixtures included
  Choices,      \* what a request chooses: reason, outcome, decision, status, risk
  Calls,        \* the calls that may be made: [op, key, id, ref, choice, amount]
  Null

Operations ==
  {"create-claim", "create-return", "create-warehouse-work", "create-refund",
   "verify-partner", "create-partner-case", "update-partner-case",
   "create-field-inspection", "decide-field-inspection"}

CaseDecisions == {"APPROVED", "REJECTED", "REQUIRES_INFORMATION"}

\* The statuses of all kinds of resource.
Status ==
  {"CREATED", "VERIFIED", "SUCCEEDED", "OPEN", "PENDING", "ELIGIBLE",
   "APPROVAL_REQUIRED", "HUMAN_REVIEW", "READY_FOR_PROCESSING"} \cup CaseDecisions

\* ref: the return of a refund, the application of a case, and so on.
Resource == [status : Status, ref : Ids \cup {Null}, amount : Nat]

\* The bodies have passed their contracts: the new status of a case is one of
\* three, and refunds and warehouse work name a return.
ASSUME SyntheticAssumption ==
  /\ Calls \subseteq [op : Operations, key : Keys, id : Ids,
                      ref : Ids \cup {Null}, choice : Choices \cup {Null},
                      amount : Nat]
  /\ Null \notin Ids \cup Keys \cup Resource
  /\ \A c \in Calls : c.op = "update-partner-case" => c.choice \in CaseDecisions
  /\ \A c \in Calls : c.op \in {"create-warehouse-work", "create-refund"} => c.ref # Null

\* The maps of the store, and the one that each operation writes.
Kinds == {"claims", "returns", "warehouseWork", "refunds", "partnerVerifications",
          "partnerCases", "fieldInspections"}

KindOf(op) ==
  CASE op = "create-claim" -> "claims"
    [] op = "create-return" -> "returns"
    [] op = "create-warehouse-work" -> "warehouseWork"
    [] op = "create-refund" -> "refunds"
    [] op = "verify-partner" -> "partnerVerifications"
    [] op \in {"create-partner-case", "update-partner-case"} -> "partnerCases"
    [] op \in {"create-field-inspection", "decide-field-inspection"} ->
         "fieldInspections"

\* The fixtures.
policies ==
  [p \in {"policy-active", "policy-lapsed"} |->
     IF p = "policy-active" THEN "ACTIVE" ELSE "LAPSED"]

orders ==
  [o \in {"order-delivered", "order-high-value"} |->
     IF o = "order-delivered" THEN [paidAmount |-> 72500, status |-> "DELIVERED"]
                              ELSE [paidAmount |-> 280000, status |-> "FULFILLED"]]

applications == {"application-1", "application-2", "application-3"}

VARIABLES
  store,        \* store[r][kind][id]: a resource, or Null
  records,      \* records[r]: the idempotency records of r
  callbacks,    \* callbacks[r][key]: the callback payload, or Null
  runs,         \* history variable: how often r has run a call's action since
                \* it started
  answers       \* history variable: what r has answered since it started

vars == <<store, records, callbacks, runs, answers>>

Result == [call : Calls, value : Resource]

\* The operation under which a key is recorded: with the identifier where this
\* is in the path.
Scope(c) ==
  IF c.op \in {"update-partner-case", "decide-field-inspection"}
    THEN <<c.op, c.id>>
    ELSE <<c.op>>

Callback == [kind : Kinds, id : Ids, status : Status]

TypeOK ==
  /\ store \in [Replicas -> [Kinds -> [Ids -> Resource \cup {Null}]]]
  /\ \A r \in Replicas : records[r] \subseteq Result /\ answers[r] \subseteq Result
  /\ callbacks \in [Replicas -> [Keys -> Callback \cup {Null}]]
  /\ runs \in [Replicas -> [Calls -> Nat]]

\* The maps of a process that starts.
EmptyStore == [kind \in Kinds |-> [id \in Ids |-> Null]]

NoCallbacks == [k \in Keys |-> Null]

NoRuns == [c \in Calls |-> 0]

Init ==
  /\ store = [r \in Replicas |-> EmptyStore]
  /\ records = [r \in Replicas |-> {}]
  /\ callbacks = [r \in Replicas |-> NoCallbacks]
  /\ runs = [r \in Replicas |-> NoRuns]
  /\ answers = [r \in Replicas |-> {}]

Has(r, kind, id) == store[r][kind][id] # Null

-----------------------------------------------------------------------------
(* IdempotencyService.execute.                                             *)

RecordsOf(r, c) == {rec \in records[r] : rec.call.key = c.key /\ Scope(rec.call) = Scope(c)}

Answer(r, c, value) ==
  answers' = [answers EXCEPT ![r] = @ \cup {[call |-> c, value |-> value]}]

\* The action: its writes to the store and to the callbacks.
RunAction(r, c, value, callback) ==
  /\ store' = [store EXCEPT ![r][KindOf(c.op)][c.id] = value]
  /\ callbacks' = IF callback = Null THEN callbacks
                  ELSE [callbacks EXCEPT ![r][c.key] = callback]
  /\ runs' = [runs EXCEPT ![r][c] = @ + 1]

RecordResult(r, c, value) ==
  records' = [records EXCEPT ![r] = @ \cup {[call |-> c, value |-> value]}]

\* Mutant: a result is recorded when it is answered.
PerformUncertainUnrecorded(r, c, value, callback) ==
  /\ RecordsOf(r, c) = {}
  /\ RunAction(r, c, value, callback)
  /\ \/ Answer(r, c, value) /\ RecordResult(r, c, value)
     \/ UNCHANGED <<answers, records>>

\* The first call with its key: the action runs and its result is recorded.  The
\* answer follows, unless the caller asked for UNCERTAIN or the answer is lost.
Perform(r, c, value, callback) ==
  /\ RecordsOf(r, c) = {}
  /\ RunAction(r, c, value, callback)
  /\ RecordResult(r, c, value)
  /\ Answer(r, c, value) \/ UNCHANGED answers

\* Mutant: the request is not compared with the recorded one.
SameRequestAlways(rec, c) == TRUE

\* existing.requestHash === requestHash.  The hash is of the body, and the path
\* is in the scope.
SameRequest(rec, c) == rec.call = c

\* A call with a recorded key and the recorded request.  With another request
\* it is refused, which leaves no trace.
Replay(r, c) ==
  /\ \E rec \in RecordsOf(r, c) :
       /\ SameRequest(rec, c)
       /\ Answer(r, c, rec.value)
  /\ UNCHANGED <<store, records, callbacks, runs>>

\* allowed: what the action checks before it writes; a refusal leaves no trace.
Execute(r, c, allowed, value, callback) ==
  \/ allowed /\ Perform(r, c, value, callback)
  \/ Replay(r, c)

NewResource(status, ref, amount) == [status |-> status, ref |-> ref, amount |-> amount]

CallbackOf(c, value) == [kind |-> KindOf(c.op), id |-> c.id, status |-> value.status]

-----------------------------------------------------------------------------
(* The operations.  What stands before Execute is checked for every call,  *)
(* repeated ones included.                                                 *)

ClaimStatus(policy, risk) ==
  IF policies[policy] = "LAPSED" THEN "REJECTED"
  ELSE IF risk = "high risk" THEN "HUMAN_REVIEW" ELSE "READY_FOR_PROCESSING"

createClaim(r, c) ==
  /\ c.op = "create-claim"
  /\ LET claim == NewResource(ClaimStatus(c.ref, c.choice), c.ref, 0) IN
       Execute(r, c, c.ref \in DOMAIN policies, claim, CallbackOf(c, claim))

\* Mutant: a return may be created again.
IsNewExceptReturn(r, kind, id) == kind = "returns" \/ ~Has(r, kind, id)

\* Three creations refuse an identifier that is in use; the others overwrite.
IsNew(r, kind, id) == ~Has(r, kind, id)

eligible(order, reason) == orders[order].status = "DELIVERED" /\ reason # "NOT_REQUIRED"

ReturnStatus(order, reason) ==
  IF ~eligible(order, reason) THEN "REJECTED"
  ELSE IF orders[order].paidAmount > 100000 THEN "APPROVAL_REQUIRED" ELSE "ELIGIBLE"

refundAmount(order, reason) ==
  IF eligible(order, reason) THEN orders[order].paidAmount ELSE 0

createReturn(r, c) ==
  /\ c.op = "create-return"
  /\ c.ref \in DOMAIN orders
  /\ Execute(r, c, IsNew(r, "returns", c.id),
             NewResource(ReturnStatus(c.ref, c.choice), c.ref, refundAmount(c.ref, c.choice)),
             Null)

createWarehouseWork(r, c) ==
  /\ c.op = "create-warehouse-work"
  /\ Has(r, "returns", c.ref)
  /\ Execute(r, c, TRUE, NewResource("CREATED", c.ref, 0), Null)

createRefund(r, c) ==
  /\ c.op = "create-refund"
  /\ Has(r, "returns", c.ref)
  /\ store[r]["returns"][c.ref].status # "REJECTED"
  /\ store[r]["returns"][c.ref].amount = c.amount
  /\ LET refund == NewResource("SUCCEEDED", c.ref, c.amount) IN
       Execute(r, c, IsNew(r, "refunds", c.id), refund, CallbackOf(c, refund))

\* partnerVerifications is a set: what is in it is verified.
verify(r, c) ==
  /\ c.op = "verify-partner"
  /\ c.id \in applications
  /\ Execute(r, c, TRUE, NewResource("VERIFIED", c.ref, 0), Null)

\* recordCallback of partners.
caseCallback(c, case) == CallbackOf(c, case)

createCase(r, c) ==
  /\ c.op = "create-partner-case"
  /\ c.ref \in applications
  /\ LET case == NewResource("OPEN", c.ref, 0) IN
       Execute(r, c, TRUE, case, caseCallback(c, case))

updateStatus(r, c) ==
  /\ c.op = "update-partner-case"
  /\ LET case == [store[r]["partnerCases"][c.id] EXCEPT !.status = c.choice] IN
       Execute(r, c, Has(r, "partnerCases", c.id), case, caseCallback(c, case))

createInspection(r, c) ==
  /\ c.op = "create-field-inspection"
  /\ LET status == IF c.choice = "PASS" THEN "APPROVED" ELSE "PENDING"
         inspection == NewResource(status, c.ref, 0)
     IN  Execute(r, c, IsNew(r, "fieldInspections", c.id), inspection,
                 CallbackOf(c, inspection))

\* Mutant: an inspection may be decided again.
PendingAlways(r, id) == Has(r, "fieldInspections", id)

Pending(r, id) ==
  Has(r, "fieldInspections", id) /\ store[r]["fieldInspections"][id].status = "PENDING"

decideInspection(r, c) ==
  /\ c.op = "decide-field-inspection"
  /\ LET inspection ==
           [store[r]["fieldInspections"][c.id] EXCEPT
              !.status = IF c.choice = "APPROVE" THEN "APPROVED" ELSE "REJECTED"]
     IN  Execute(r, c, Pending(r, c.id), inspection, CallbackOf(c, inspection))

-----------------------------------------------------------------------------
\* A container starts again with empty maps.
Restart(r) ==
  /\ store' = [store EXCEPT ![r] = EmptyStore]
  /\ records' = [records EXCEPT ![r] = {}]
  /\ callbacks' = [callbacks EXCEPT ![r] = NoCallbacks]
  /\ runs' = [runs EXCEPT ![r] = NoRuns]
  /\ answers' = [answers EXCEPT ![r] = {}]

Next ==
  \E r \in Replicas :
    \/ \E c \in Calls :
         \/ createClaim(r, c)
         \/ createReturn(r, c)
         \/ createWarehouseWork(r, c)
         \/ createRefund(r, c)
         \/ verify(r, c)
         \/ createCase(r, c)
         \/ updateStatus(r, c)
         \/ createInspection(r, c)
         \/ decideInspection(r, c)
    \/ Restart(r)

Spec == Init /\ [][Next]_vars

-----------------------------------------------------------------------------
(* Properties.                                                             *)

\* A retry never runs its action again, also when the answer was withheld, and
\* all answers that a replica gives to one key of one operation are the same
\* answer to the same request, whatever other calls do to the resource between
\* the retries.
RetriesAgree ==
  \A r \in Replicas :
    /\ \A c \in Calls : runs[r][c] <= 1
    /\ \A a, b \in answers[r] :
         (a.call.key = b.call.key /\ Scope(a.call) = Scope(b.call)) => a = b

\* Money leaves only for an eligible return and in its amount: a refund that was
\* right when it was made stays right, whatever calls follow.
RefundsAreCovered ==
  \A r \in Replicas : \A id \in Ids :
    Has(r, "refunds", id) =>
      LET refund == store[r]["refunds"][id] IN
        /\ Has(r, "returns", refund.ref)
        /\ store[r]["returns"][refund.ref].status # "REJECTED"
        /\ store[r]["returns"][refund.ref].amount = refund.amount

\* An inspection is decided once: neither a second decision nor a repeated
\* submission moves it, until the process loses its memory.
DecisionStands ==
  [][\A r \in Replicas : \A id \in Ids :
       (Has(r, "fieldInspections", id) /\ store[r]["fieldInspections"][id].status # "PENDING")
         => \/ store'[r]["fieldInspections"][id] = store[r]["fieldInspections"][id]
            \/ records'[r] = {}]_vars
=============================================================================
