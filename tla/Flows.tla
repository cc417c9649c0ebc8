------------------------------- MODULE Flows -------------------------------
(***************************************************************************)
(* The sample automations against the synthetic operations API, run by     *)
(* their platforms: claims intake in n8n (with the telemetry node and the  *)
(* error workflow), partner onboarding in Zapier, and return and refund in *)
(* Make.  Each has its own answer to a call that fails: n8n repeats a node,*)
(* Zapier replays a throttled step later, Make reads the resource back and *)
(* resumes.  The same request may come twice and run as two flows at once, *)
(* calls and answers are lost, and the API restarts with an empty store.   *)
(*                                                                         *)
(* There is one replica of the API.  A flow is its platform's program      *)
(* counter, "at", with what its run remembers.                             *)
(***************************************************************************)
EXTENDS SyntheticOperations, Sequences

CONSTANTS
  Claims, Zaps, Scenarios, \* runs of the three automations
  ClaimCall,   \* ClaimCall[f]: the create-claim call of an n8n execution
  ZapCalls,    \* ZapCalls[f]: verification, case and decision, in order
  ReturnCall, WorkCall, RefundCall, \* of a scenario run, with its return's amount
  Approved,    \* scenario runs whose request carries an approval
  Uncertain,   \* runs whose request asks for failureMode UNCERTAIN
  MaxTries,    \* maxTries of n8n's nodes, 3 in the sources; a replayed step of a Zap
  Breaks,      \* count of Make's Break, 3: the tries after the one that failed
  Together     \* bound: the sets of flows that run in one behaviour

VARIABLES
  flow,        \* flow[f]: [at, tries, seen] with the status f has been told
  events,      \* <<execution, status>> accepted by the control plane
  restarted    \* history variable: flows begun before the API's restart

flowVars == <<flow, events, restarted>>
everything == <<vars, flowVars>>

Flows == Claims \cup Zaps \cup Scenarios
api == CHOOSE r \in Replicas : TRUE
CallsOf(op) == {c \in Calls : c.op = op}

\* The exported workflows draw keys and identifiers from the request's own: a
\* claim's key from its claim, a case's key and identifier from its application,
\* all keys and identifiers of a scenario from its return.  The sample Zap
\* approves, and a scenario refunds what the return was answered to be worth.
ASSUME FlowsAssumption ==
  /\ Replicas # {} /\ MaxTries \in Nat \ {0} /\ Breaks \in Nat /\ Null \notin Status
  /\ Claims \cap Zaps = {} /\ Claims \cap Scenarios = {} /\ Zaps \cap Scenarios = {}
  /\ ClaimCall \in [Claims -> CallsOf("create-claim")]
  /\ \A f, g \in Claims :
       ClaimCall[f].id = ClaimCall[g].id => ClaimCall[f].key = ClaimCall[g].key
  /\ ZapCalls \in [Zaps -> CallsOf("verify-partner") \X CallsOf("create-partner-case")
                                                    \X CallsOf("update-partner-case")]
  /\ \A f, g \in Zaps :
       ZapCalls[f][2].id = ZapCalls[g][2].id => ZapCalls[f][2].key = ZapCalls[g][2].key
  /\ \A f \in Zaps : ZapCalls[f][3].choice = "APPROVED"
  /\ ReturnCall \in [Scenarios -> CallsOf("create-return")]
  /\ WorkCall \in [Scenarios -> CallsOf("create-warehouse-work")]
  /\ RefundCall \in [Scenarios -> CallsOf("create-refund")]
  /\ \A f, g \in Scenarios :
       /\ WorkCall[f].id = WorkCall[g].id <=> ReturnCall[f].id = ReturnCall[g].id
       /\ RefundCall[f].id = RefundCall[g].id <=> ReturnCall[f].id = ReturnCall[g].id
       /\ ReturnCall[f].id = ReturnCall[g].id =>
            /\ ReturnCall[f].key = ReturnCall[g].key
            /\ RefundCall[f].key = RefundCall[g].key
  /\ \A f \in Scenarios :
       /\ WorkCall[f].ref = ReturnCall[f].id
       /\ RefundCall[f].ref = ReturnCall[f].id /\ RefundCall[f].choice = Null
       /\ RefundCall[f].amount = refundAmount(ReturnCall[f].ref, ReturnCall[f].choice)

\* Where a run may be.
ClaimNodes == {"idle", "policy", "create", "reconcile", "review", "emit", "respond", "error",
               "answered", "failed"}
ZapNodes == {"idle", "verification", "case", "decision", "done", "halted"}
ScenarioNodes ==
  {"idle", "order", "return", "read-return", "work", "refund", "reconcile", "read-refund",
   "answered", "approval", "rejected", "silent", "halted"}
Nodes == ClaimNodes \cup ZapNodes \cup ScenarioNodes

FlowsTypeOK ==
  /\ flow \in [Flows -> [at : Nodes, tries : Nat, seen : Status \cup {Null}]]
  /\ \A f \in Claims : flow[f].at \in ClaimNodes
  /\ \A f \in Zaps : flow[f].at \in ZapNodes
  /\ \A f \in Scenarios : flow[f].at \in ScenarioNodes
  /\ events \subseteq Claims \X {"SUCCEEDED", "FAILED"}
  /\ restarted \subseteq Flows
Started == {f \in Flows : flow[f].at # "idle"}

FlowsInit ==
  /\ Init
  /\ flow = [f \in Flows |-> [at |-> "idle", tries |-> 0, seen |-> Null]]
  /\ events = {} /\ restarted = {}

\* f goes on at another node, with the status it was told there or before.
Goto(f, node, seen) == flow' = [flow EXCEPT ![f] = [at |-> node, tries |-> 0, seen |-> seen]]
Tries(f) == IF f \in Scenarios THEN Breaks + 1 ELSE MaxTries
\* A node that failed runs again while it may, and then goes where errors go.
TryAgain(f, onError) ==
  IF flow[f].tries + 1 < Tries(f)
  THEN flow' = [flow EXCEPT ![f].tries = @ + 1]
  ELSE Goto(f, onError, flow[f].seen)

-----------------------------------------------------------------------------
(* Calls.                                                                  *)

Handle(c) ==
  \/ createClaim(api, c) \/ createReturn(api, c) \/ createWarehouseWork(api, c)
  \/ createRefund(api, c) \/ verify(api, c) \/ createCase(api, c) \/ updateStatus(api, c)

\* The call arrives and so do these answers; or the call, or its answer, is lost.
AnswersTo(c) == {a.value.status : a \in {b \in answers'[api] : b.call = c}}
Unanswered(c) == Handle(c) \/ UNCHANGED vars
\* A 404: the case to update is not there any more.  n8n and Make take a refusal
\* for any other failure.
Refused(c) ==
  /\ c.op = "update-partner-case" /\ RecordsOf(api, c) = {} /\ ~Has(api, "partnerCases", c.id)
  /\ UNCHANGED vars

\* What a GET of the resource shows.
StatusOf(kind, id) == IF Has(api, kind, id) THEN store[api][kind][id].status ELSE Null

-----------------------------------------------------------------------------
(* Claims intake in n8n (workflow.json).                                   *)

\* The webhook's body passes the contract; "Get policy" is next.
StartClaim(f) ==
  /\ flow[f].at = "idle" /\ Goto(f, "policy", Null)
  /\ UNCHANGED <<vars, events, restarted>>

GetPolicy(f) ==
  /\ flow[f].at = "policy"
  /\ Goto(f, "create", Null) \/ TryAgain(f, "error")
  /\ UNCHANGED <<vars, events, restarted>>

\* Where a known claim goes: a second of waiting and a recorded review, or not.
AfterClaim(status) == IF status = "HUMAN_REVIEW" THEN "review" ELSE "emit"

\* "Create claim" repeats under the claim's one key.
CreateClaim(f) ==
  /\ flow[f].at = "create" /\ f \notin Uncertain
  /\ \/ /\ Handle(ClaimCall[f])
        /\ \E s \in AnswersTo(ClaimCall[f]) : Goto(f, AfterClaim(s), s)
     \/ Unanswered(ClaimCall[f]) /\ TryAgain(f, "error")
  /\ UNCHANGED <<events, restarted>>

\* "Create claim for reconciliation" is not repeated: a 504 leads to
\* "Reconcile claim", anything else that fails to the error workflow.
CreateUncertain(f) ==
  /\ flow[f].at = "create" /\ f \in Uncertain
  /\ \/ Handle(ClaimCall[f]) /\ Goto(f, "reconcile", Null)
     \/ Unanswered(ClaimCall[f]) /\ Goto(f, "error", Null)
  /\ UNCHANGED <<events, restarted>>

Reconcile(f) ==
  /\ flow[f].at = "reconcile"
  /\ LET s == StatusOf("claims", ClaimCall[f].id) IN
       \/ s # Null /\ Goto(f, AfterClaim(s), s)
       \/ TryAgain(f, "error")
  /\ UNCHANGED <<vars, events, restarted>>

Review(f) ==
  /\ flow[f].at = "review" /\ Goto(f, "emit", flow[f].seen)
  /\ UNCHANGED <<vars, events, restarted>>

\* Mutant: the node goes on when its request fails.
EmitAndGoOn(f) ==
  /\ flow[f].at = "emit" /\ Goto(f, "respond", flow[f].seen)
  /\ events' \in {events, events \cup {<<f, "SUCCEEDED">>}}
  /\ UNCHANGED <<vars, restarted>>
\* "Emit success telemetry", once.  Its event is accepted and answered, or the
\* request fails for the node, which the control plane may have accepted.
EmitSuccess(f) ==
  /\ flow[f].at = "emit"
  /\ \/ Goto(f, "respond", flow[f].seen) /\ events' = events \cup {<<f, "SUCCEEDED">>}
     \/ Goto(f, "error", flow[f].seen) /\ events' \in {events, events \cup {<<f, "SUCCEEDED">>}}
  /\ UNCHANGED <<vars, restarted>>

Respond(f) ==
  /\ flow[f].at = "respond"
  /\ Goto(f, "answered", flow[f].seen) \/ Goto(f, "error", flow[f].seen)
  /\ UNCHANGED <<vars, events, restarted>>

\* The error workflow reports the failed execution, once.  Its error code is the
\* name n8n gives the error, which the contract accepts or refuses.
EmitFailure(f) ==
  /\ flow[f].at = "error" /\ Goto(f, "failed", flow[f].seen)
  /\ events' \in {events, events \cup {<<f, "FAILED">>}}
  /\ UNCHANGED <<vars, restarted>>

RunClaim(f) ==
  \/ GetPolicy(f) \/ CreateClaim(f) \/ CreateUncertain(f) \/ Reconcile(f)
  \/ Review(f) \/ EmitSuccess(f) \/ Respond(f) \/ EmitFailure(f)

-----------------------------------------------------------------------------
(* Partner onboarding in Zapier (sample-zap.json, src/).                   *)

Steps == <<"verification", "case", "decision">>
StepOf(f) == CHOOSE n \in 1..3 : Steps[n] = flow[f].at
ZapCall(f) == ZapCalls[f][StepOf(f)]
NextStep(f) == IF flow[f].at = "decision" THEN "done" ELSE Steps[StepOf(f) + 1]

\* The trigger has a new application.
StartZap(f) ==
  /\ flow[f].at = "idle" /\ Goto(f, "verification", Null)
  /\ UNCHANGED <<vars, events, restarted>>

\* Mutant: the middleware throws nothing for a 5xx.
ServerErrorPasses(f) == Goto(f, NextStep(f), Null)
\* mapHttpErrors makes a 429 or 5xx a ThrottledError: the step is replayed later,
\* under the same request identifier.
ServerError(f) == TryAgain(f, "halted")

\* A step's perform; a 4xx is thrown and halts the Zap.
PerformStep(f) ==
  /\ flow[f].at \in {"verification", "case", "decision"}
  /\ \/ Handle(ZapCall(f)) /\ \E s \in AnswersTo(ZapCall(f)) : Goto(f, NextStep(f), s)
     \/ Unanswered(ZapCall(f)) /\ ServerError(f)
     \/ Refused(ZapCall(f)) /\ Goto(f, "halted", flow[f].seen)
  /\ UNCHANGED <<events, restarted>>

-----------------------------------------------------------------------------
(* Return and refund in Make (blueprint.json).                             *)

StartScenario(f) ==
  /\ flow[f].at = "idle" /\ Goto(f, "order", Null)
  /\ UNCHANGED <<vars, events, restarted>>

\* Module 2, under Break: the execution is stored and tried again.
GetOrder(f) ==
  /\ flow[f].at = "order"
  /\ Goto(f, "return", Null) \/ TryAgain(f, "halted")
  /\ UNCHANGED <<vars, events, restarted>>

\* Mutant: the filter of the first route is missing.
RouteUnfiltered(f, status) ==
  IF status = Null THEN "silent" ELSE "work"
\* The router, module 4.  Nothing follows a status it does not know.
Route(f, status) ==
  CASE status = "ELIGIBLE" \/ (status = "APPROVAL_REQUIRED" /\ f \in Approved) -> "work"
    [] status = "APPROVAL_REQUIRED" /\ f \notin Approved -> "approval"
    [] status = "REJECTED" -> "rejected"
    [] OTHER -> "silent"

\* Module 3.  Its failure leads to module 301.
CreateReturn(f) ==
  /\ flow[f].at = "return"
  /\ \/ /\ f \notin Uncertain /\ Handle(ReturnCall[f])
        /\ \E s \in AnswersTo(ReturnCall[f]) : Goto(f, Route(f, s), s)
     \/ Unanswered(ReturnCall[f]) /\ Goto(f, "read-return", Null)
  /\ UNCHANGED <<events, restarted>>

\* Modules 301 and 302: the return is read and module 3 resumed with what comes
\* back.  301 has handleErrors false, so a 404 or 5xx is no error to it either; it
\* fails if nothing is answered.  The router looks for the status under "value",
\* where an idempotent answer has it, and neither a return that was read nor an
\* error has.
ReadReturn(f) ==
  /\ flow[f].at = "read-return"
  /\ Goto(f, Route(f, Null), Null) \/ Goto(f, "halted", Null)
  /\ UNCHANGED <<vars, events, restarted>>

\* Module 5, under Break.
CreateWork(f) ==
  /\ flow[f].at = "work"
  /\ \/ Handle(WorkCall[f]) /\ AnswersTo(WorkCall[f]) # {} /\ Goto(f, "refund", flow[f].seen)
     \/ Unanswered(WorkCall[f]) /\ TryAgain(f, "halted")
  /\ UNCHANGED <<events, restarted>>

\* Module 6.  Its failure leads to module 601.
CreateRefund(f) ==
  /\ flow[f].at = "refund"
  /\ \/ /\ f \notin Uncertain /\ Handle(RefundCall[f]) /\ AnswersTo(RefundCall[f]) # {}
        /\ Goto(f, "read-refund", flow[f].seen)
     \/ Unanswered(RefundCall[f]) /\ Goto(f, "reconcile", flow[f].seen)
  /\ UNCHANGED <<events, restarted>>

\* Modules 601 and 602: whatever is answered, the refund or a 404 or 5xx (601 has
\* handleErrors false), module 6 is resumed with it; it fails if nothing is.
ReconcileRefund(f) ==
  /\ flow[f].at = "reconcile"
  /\ Goto(f, "read-refund", flow[f].seen) \/ Goto(f, "halted", flow[f].seen)
  /\ UNCHANGED <<vars, events, restarted>>

\* Modules 7, under Break, and 8: a refund that is there is answered with its status.
ReadRefund(f) ==
  /\ flow[f].at = "read-refund"
  /\ LET s == StatusOf("refunds", RefundCall[f].id) IN
       \/ s # Null /\ Goto(f, "answered", s)
       \/ TryAgain(f, "halted")
  /\ UNCHANGED <<vars, events, restarted>>

RunScenario(f) ==
  \/ GetOrder(f) \/ CreateReturn(f) \/ ReadReturn(f) \/ CreateWork(f)
  \/ CreateRefund(f) \/ ReconcileRefund(f) \/ ReadRefund(f)

-----------------------------------------------------------------------------
\* The container of the API starts again, once in a behaviour.
RestartApi ==
  /\ restarted = {} /\ Started # {}
  /\ Restart(api)
  /\ restarted' = Started
  /\ UNCHANGED <<flow, events>>

Begin(f) ==
  /\ \E fs \in Together : Started \cup {f} \subseteq fs
  /\ \/ f \in Claims /\ StartClaim(f)
     \/ f \in Zaps /\ StartZap(f)
     \/ f \in Scenarios /\ StartScenario(f)

Go(f) ==
  \/ f \in Claims /\ RunClaim(f)
  \/ f \in Zaps /\ PerformStep(f)
  \/ f \in Scenarios /\ RunScenario(f)

FlowsNext == RestartApi \/ \E f \in Flows : Begin(f) \/ Go(f)

FlowsSpec == FlowsInit /\ [][FlowsNext]_everything

-----------------------------------------------------------------------------

\* What one call did, in the life of the API that the flow knows.
DoneOnce(f, c) == f \in restarted \/ runs[api][c] = 1

\* A success that the control plane has accepted is true, also of an execution that
\* failed after it and was reported as failed besides: its claim was created once,
\* however often the request was sent and the call repeated, and has the status the
\* run was told.  A claimant who got the 202 is one of an accepted success, and of no
\* reported failure.
AnsweredClaimsStand ==
  \A f \in Claims :
    /\ <<f, "SUCCEEDED">> \in events =>
         /\ DoneOnce(f, ClaimCall[f])
         /\ f \in restarted \/ StatusOf("claims", ClaimCall[f].id) = flow[f].seen
    /\ flow[f].at = "answered" => <<f, "SUCCEEDED">> \in events /\ <<f, "FAILED">> \notin events

\* A finished Zap has verified, opened and approved its case, each once, and the
\* case is still approved, whatever was throttled and replayed in this Zap or in
\* another for the same application.
FinishedZapsHold ==
  \A f \in Zaps : flow[f].at = "done" =>
    /\ \A n \in 1..3 : DoneOnce(f, ZapCalls[f][n])
    /\ f \in restarted \/ StatusOf("partnerCases", ZapCalls[f][3].id) = "APPROVED"

\* The API opens warehouse work for any return it knows; that nothing is worked on
\* for a rejected return, and refunded only after its work, is up to the scenarios,
\* though their requests may name one return with different orders.  A scenario
\* that answers has done both once.
RefundsFollowTheRouter ==
  \A f \in Scenarios :
    LET id == ReturnCall[f].id IN
      restarted \cap {g \in Scenarios : ReturnCall[g].id = id} = {} =>
        /\ Has(api, "warehouseWork", WorkCall[f].id) => StatusOf("returns", id) # "REJECTED"
        /\ Has(api, "refunds", RefundCall[f].id) => Has(api, "warehouseWork", WorkCall[f].id)
        /\ flow[f].at = "answered" => DoneOnce(f, WorkCall[f]) /\ DoneOnce(f, RefundCall[f])
=============================================================================
