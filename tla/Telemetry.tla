----------------------------- MODULE Telemetry -----------------------------
(***************************************************************************)
(* Acceptance of execution events (services/control-plane/src/telemetry):  *)
(* the ingest handler, and the transaction that stores the event, folds it *)
(* into the execution's aggregate row and writes the outbox intent.        *)
(*                                                                         *)
(* Platforms deliver at least once: any event may arrive any number of     *)
(* times, in any order and through any number of concurrent requests, and  *)
(* a package that sends again may restamp occurred_at under the same event *)
(* identifier (the n8n node does).  A request that gets no answer looks the*)
(* same to the server as one that does, so lost answers need no action.    *)
(***************************************************************************)
EXTENDS Integers, Sequences, FiniteSets

CONSTANTS
  Events,     \* bodies sent: [id, execution, target, status, at, errorCode, correlation]
  Targets,    \* (automation, platform, environment)
  Requests,   \* requests that may be in progress at once
  Null        \* absent field, absent row, free request

VARIABLES
  registered, \* targets in the catalog now
  request,    \* request[r]: the event r carries and how far it got, or Null
  accepted,   \* execution_events in commit order
  executions, \* executions[x]: the aggregate row of execution x, or Null
  outbox,     \* outbox intents in commit order
  receipts,   \* history variable: the receipts computed
  refused     \* history variable: events the database refused to store

vars == <<registered, request, accepted, executions, outbox, receipts, refused>>

Statuses == {"STARTED", "SUCCEEDED", "FAILED", "TIMED_OUT"}
EventIds == {e.id : e \in Events}
Executions == {e.execution : e \in Events}
ErrorCodes == {e.errorCode : e \in Events} \cup {Null}
Correlations == {e.correlation : e \in Events} \cup {Null}
Moments == {e.at : e \in Events}

Row == [status : Statuses, first : Moments, latest : Moments,
        errorCode : ErrorCodes, correlation : Correlations, count : Nat \ {0}]

ASSUME TelemetryAssumption ==
  /\ Moments \subseteq Int
  /\ \A e \in Events : e.status \in Statuses /\ e.target \in Targets
  /\ Null \notin Events \cup Executions \cup Row

Intent == [id : EventIds, execution : Executions, status : Statuses,
           errorCode : ErrorCodes, at : Moments,
           correlation : Correlations \cup Executions]

TypeOK ==
  /\ registered \subseteq Targets
  /\ request \in [Requests ->
       [event : Events, step : {"received", "registered", "inserted"}] \cup {Null}]
  /\ accepted \in Seq(Events)
  /\ executions \in [Executions -> Row \cup {Null}]
  /\ outbox \in Seq(Intent)
  /\ receipts \subseteq [id : EventIds, acceptedAt : Nat, replayed : BOOLEAN]
  /\ refused \subseteq Events

Init ==
  /\ registered = Targets
  /\ request = [r \in Requests |-> Null]
  /\ accepted = <<>>
  /\ executions = [x \in Executions |-> Null]
  /\ outbox = <<>>
  /\ receipts = {}
  /\ refused = {}

-----------------------------------------------------------------------------
Terminal(status) == status # "STARTED"

\* executionEventSchema: a failure names its error code.  That terminal events
\* carry a duration is checked the same way and the duration is left out: it is
\* stored whenever the error code is.
Contract(e) == e.status \in {"FAILED", "TIMED_OUT"} => e.errorCode # Null

\* The check constraint execution_events_failure_details.
Storable(e) ==
  /\ e.status \in {"FAILED", "TIMED_OUT"} => e.errorCode # Null
  /\ e.status = "SUCCEEDED" => e.errorCode = Null

\* The catalog is synchronised by an API process that starts with other
\* manifests; targets may come and go.
Synchronize ==
  /\ registered' \in SUBSET Targets \ {registered}
  /\ UNCHANGED <<request, accepted, executions, outbox, receipts, refused>>

\* A signed body arrives.  One that fails the contract (400), or whose signature
\* or timestamp is refused (401), leaves no trace and is not shown.
Receive(r, e) ==
  /\ request[r] = Null
  /\ Contract(e)
  /\ request' = [request EXCEPT ![r] = [event |-> e, step |-> "received"]]
  /\ UNCHANGED <<registered, accepted, executions, outbox, receipts, refused>>

End(r) == request' = [request EXCEPT ![r] = Null]

\* automationRegistration is a query of its own, before the transaction.
CheckRegistration(r) ==
  /\ request[r] # Null
  /\ request[r].step = "received"
  /\ IF request[r].event.target \in registered
     THEN request' = [request EXCEPT ![r].step = "registered"]
     ELSE End(r)
  /\ UNCHANGED <<registered, accepted, executions, outbox, receipts, refused>>

Stored(id) == \E n \in DOMAIN accepted : accepted[n].id = id

AcceptedAt(id) == CHOOSE n \in DOMAIN accepted : accepted[n].id = id

\* Another open transaction has inserted the same event identifier.
Pending(r, id) ==
  \E q \in Requests \ {r} : /\ request[q] # Null
                            /\ request[q].step = "inserted"
                            /\ request[q].event.id = id

\* Mutant: an open insert of the same identifier is not waited for.
InsertEventUnfenced(r) ==
  /\ request[r] # Null
  /\ request[r].step = "registered"
  /\ Storable(request[r].event)
  /\ ~Stored(request[r].event.id)
  /\ request' = [request EXCEPT ![r].step = "inserted"]
  /\ UNCHANGED <<registered, accepted, executions, outbox, receipts, refused>>

\* "insert ... on conflict (event_id) do nothing" inserts; it waits for an open
\* transaction with the same identifier to end first.
InsertEvent(r) ==
  /\ request[r] # Null
  /\ request[r].step = "registered"
  /\ LET e == request[r].event IN
       Storable(e) /\ ~Pending(r, e.id) /\ ~Stored(e.id)
  /\ request' = [request EXCEPT ![r].step = "inserted"]
  /\ UNCHANGED <<registered, accepted, executions, outbox, receipts, refused>>

\* The insert found the identifier taken: the receipt is that of the stored
\* event, whatever else the new body says.
Replay(r) ==
  /\ request[r] # Null
  /\ request[r].step = "registered"
  /\ LET id == request[r].event.id IN
       /\ Storable(request[r].event)
       /\ ~Pending(r, id)
       /\ Stored(id)
       /\ receipts' = receipts \cup
            {[id |-> id, acceptedAt |-> AcceptedAt(id), replayed |-> TRUE]}
  /\ End(r)
  /\ UNCHANGED <<registered, accepted, executions, outbox, refused>>

\* The check constraint fails before the conflict is looked at: error 500.
Refuse(r) ==
  /\ request[r] # Null
  /\ request[r].step = "registered"
  /\ ~Storable(request[r].event)
  /\ refused' = refused \cup {request[r].event}
  /\ End(r)
  /\ UNCHANGED <<registered, accepted, executions, outbox, receipts>>

Least(s, t) == IF s <= t THEN s ELSE t
Greatest(s, t) == IF s >= t THEN s ELSE t

NewRow(e) ==
  [status |-> e.status, first |-> e.at, latest |-> e.at,
   errorCode |-> e.errorCode, correlation |-> e.correlation, count |-> 1]

\* Mutant: any terminal event overwrites the status.
FoldedLastTerminal(row, e) ==
  [row EXCEPT !.first = Least(@, e.at), !.latest = Greatest(@, e.at),
              !.count = @ + 1,
              !.status = IF Terminal(e.status) THEN e.status ELSE @,
              !.errorCode = IF Terminal(e.status) THEN e.errorCode ELSE @,
              !.correlation = IF @ = Null THEN e.correlation ELSE @]

\* Mutant: the first occurrence is that of the event stored first.
FoldedInArrivalOrder(row, e) ==
  [row EXCEPT !.latest = e.at, !.count = @ + 1,
              !.correlation = IF @ = Null THEN e.correlation ELSE @]

\* "on conflict ... do update" of updateExecution.
Folded(row, e) ==
  LET settles == row.status = "STARTED" /\ Terminal(e.status) IN
  [row EXCEPT !.first = Least(@, e.at),
              !.latest = Greatest(@, e.at),
              !.status = IF settles THEN e.status ELSE @,
              !.errorCode = IF settles THEN e.errorCode ELSE @,
              !.correlation = IF @ = Null THEN e.correlation ELSE @,
              !.count = @ + 1]

updateExecution(e) ==
  executions' = [executions EXCEPT ![e.execution] =
                   IF @ = Null THEN NewRow(e) ELSE Folded(@, e)]

IntentOf(e) ==
  [id |-> e.id, execution |-> e.execution, status |-> e.status,
   errorCode |-> e.errorCode, at |-> e.at,
   correlation |-> IF e.correlation = Null THEN e.execution ELSE e.correlation]

\* The rest of the transaction, and its commit.
Accept(r) ==
  /\ request[r] # Null
  /\ request[r].step = "inserted"
  /\ LET e == request[r].event IN
       /\ accepted' = Append(accepted, e)
       /\ updateExecution(e)
       /\ outbox' = Append(outbox, IntentOf(e))
       /\ receipts' = receipts \cup
            {[id |-> e.id, acceptedAt |-> Len(accepted) + 1, replayed |-> FALSE]}
  /\ End(r)
  /\ UNCHANGED <<registered, refused>>

\* A statement fails or the API process dies: the transaction rolls back.
Abort(r) ==
  /\ request[r] # Null
  /\ End(r)
  /\ UNCHANGED <<registered, accepted, executions, outbox, receipts, refused>>

-----------------------------------------------------------------------------
Handle(r) ==
  \/ \E e \in Events : Receive(r, e)
  \/ CheckRegistration(r)
  \/ InsertEvent(r)
  \/ Replay(r)
  \/ Refuse(r)
  \/ Accept(r)
  \/ Abort(r)

Next == Synchronize \/ \E r \in Requests : Handle(r)

Spec == Init /\ [][Next]_vars

-----------------------------------------------------------------------------
(* Properties.                                                             *)

\* The stored events of an execution, by their place in the commit order.
StoredOf(x) == {n \in DOMAIN accepted : accepted[n].execution = x}

\* The earliest of a non-empty set of places.
FirstOf(S) == CHOOSE n \in S : \A k \in S : n <= k

\* The aggregate is what its events say: their number, their time span whatever
\* order they were stored in, the outcome of the first terminal event stored,
\* and the first correlation identifier known.
AggregateMatchesEvents ==
  \A x \in Executions :
    LET S == StoredOf(x)
        row == executions[x]
        terminal == {n \in S : Terminal(accepted[n].status)}
        correlated == {n \in S : accepted[n].correlation # Null}
        decisive == accepted[FirstOf(IF terminal = {} THEN S ELSE terminal)]
    IN  IF S = {} THEN row = Null
        ELSE /\ row.count = Cardinality(S)
             /\ \A n \in S : accepted[n].at \in row.first..row.latest
             /\ {row.first, row.latest} \subseteq {accepted[n].at : n \in S}
             /\ row.status = decisive.status
             /\ row.errorCode = decisive.errorCode
             /\ row.correlation = IF correlated = {} THEN Null
                                  ELSE accepted[FirstOf(correlated)].correlation

\* A late, repeated or contradicting event never rewrites a terminal outcome.
TerminalIsFinal ==
  [][\A x \in Executions :
       executions[x] # Null /\ Terminal(executions[x].status) =>
         /\ executions'[x].status = executions[x].status
         /\ executions'[x].errorCode = executions[x].errorCode]_executions

\* However many requests carried an event, it is stored once, and all its receipts
\* give that acceptance.
ReceiptsAgree ==
  /\ \A n, k \in DOMAIN accepted : accepted[n].id = accepted[k].id => n = k
  /\ \A s \in receipts :
       s.acceptedAt \in DOMAIN accepted /\ accepted[s.acceptedAt].id = s.id

\* docs/architecture.md:235, "The control plane accepts a valid event once and
\* returns the prior result on replay": an event of the contract, signed and
\* registered, is not turned away.
ValidEventsAreAccepted == refused = {}
=============================================================================
