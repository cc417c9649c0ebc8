----------------------------- MODULE Incidents -----------------------------
(***************************************************************************)
(* Incidents: the correlation of failures by outbox workers (correlate-    *)
(* Failure in outbox.repository.ts) against the actions of operators (inci-*)
(* dent.service.ts, incident.repository.ts), over the tables incidents and *)
(* incident_history.                                                       *)
(*                                                                         *)
(* A correlation is two steps, because its transaction first selects the   *)
(* active incident of the key for update and writes later.  In between it  *)
(* holds that row's lock, or holds nothing when no incident was active and *)
(* relies on the partial unique index.  An operator's request is two steps *)
(* too: the service reads the status and checks the policy, and the        *)
(* repository's transaction then updates under its own where clause.  That *)
(* transaction is one step, as its row lock hides the time between its     *)
(* update and its commit from every other writer.                          *)
(***************************************************************************)
EXTENDS Integers, Sequences, FiniteSets

CONSTANTS
  Keys,         \* (automation_id, correlation_key, error_code)
  Ids,          \* incident identifiers that may be drawn
  Correlators,  \* processes that run correlateFailure
  Requests,     \* operator requests that may be in progress at once
  Times,        \* values of occurred_at
  Null,         \* no incident, no job, no lock holder
  MaxFailures,  \* bound: failures one incident may count
  MaxNotes      \* bound: assignments and recovery notes altogether

ASSUME IncidentsAssumption ==
  /\ Times \subseteq Int
  /\ MaxFailures \in Nat
  /\ MaxNotes \in Nat
  /\ Null \notin Ids \cup Correlators

VARIABLES
  incidents,    \* incidents[id]: the row, or Null
  history,      \* history[id]: event types in the order they were committed
  rowLock,      \* rowLock[id]: the correlator that selected the row for update
  job,          \* job[w]: the open correlateFailure transaction of w, or Null
  request,      \* request[r]: the action r has checked and not yet applied
  absorbed      \* history variable: occurred_at of the failures id has counted

vars == <<incidents, history, rowLock, job, request, absorbed>>

Status == {"OPEN", "ACKNOWLEDGED", "RESOLVED", "CLOSED"}
Actions == {"ACKNOWLEDGE", "ASSIGN", "RECORD_RECOVERY", "RESOLVE", "CLOSE"}

\* The history event of each action (historyEventType).
EventType ==
  [a \in Actions |->
     CASE a = "ACKNOWLEDGE" -> "ACKNOWLEDGED"
       [] a = "ASSIGN" -> "ASSIGNED"
       [] a = "RECORD_RECOVERY" -> "RECOVERY_RECORDED"
       [] a = "RESOLVE" -> "RESOLVED"
       [] a = "CLOSE" -> "CLOSED"]

Events == {"OPENED", "FAILURE_CORRELATED"} \cup {EventType[a] : a \in Actions}

Incident == [key : Keys, status : Status, failureCount : Nat \ {0},
             firstOccurred : Times, lastOccurred : Times]

Correlation == [key : Keys, at : Times, id : Ids \cup {Null}]

ASSUME NullAssumption == Null \notin Incident

TypeOK ==
  /\ incidents \in [Ids -> Incident \cup {Null}]
  /\ history \in [Ids -> Seq(Events)]
  /\ rowLock \in [Ids -> Correlators \cup {Null}]
  /\ job \in [Correlators -> Correlation \cup {Null}]
  /\ request \in [Requests -> [id : Ids, action : Actions] \cup {Null}]
  /\ absorbed \in [Ids -> SUBSET Times]

Init ==
  /\ incidents = [id \in Ids |-> Null]
  /\ history = [id \in Ids |-> <<>>]
  /\ rowLock = [id \in Ids |-> Null]
  /\ job = [w \in Correlators |-> Null]
  /\ request = [r \in Requests |-> Null]
  /\ absorbed = [id \in Ids |-> {}]

Later(s, t) == IF s >= t THEN s ELSE t

Exists(id) == incidents[id] # Null

\* The predicate of the partial unique index incidents_active_correlation_idx.
ActiveFor(k, id) ==
  /\ Exists(id)
  /\ incidents[id].key = k
  /\ incidents[id].status \in {"OPEN", "ACKNOWLEDGED"}

Record(id, event) == history' = [history EXCEPT ![id] = Append(@, event)]

RoomForFailure(id) == incidents[id].failureCount < MaxFailures

Notes(id) == {n \in DOMAIN history[id] : history[id][n] \in {"ASSIGNED", "RECOVERY_RECORDED"}}

RoomForNote(action) ==
  action \in {"ASSIGN", "RECORD_RECOVERY"} =>
    Cardinality(UNION {{id} \X Notes(id) : id \in Ids}) < MaxNotes

-----------------------------------------------------------------------------
(* correlateFailure.                                                       *)

\* Mutant: the select takes no lock.
LockRowNever(w, id) == UNCHANGED rowLock

LockRow(w, id) == rowLock' = [rowLock EXCEPT ![id] = w]

\* "select ... for update" finds the active incident; it waits while another
\* transaction has the row.
SelectActive(w, k, t) ==
  /\ job[w] = Null
  /\ \E id \in Ids :
       /\ ActiveFor(k, id)
       /\ rowLock[id] = Null
       /\ RoomForFailure(id)
       /\ LockRow(w, id)
       /\ job' = [job EXCEPT ![w] = [key |-> k, at |-> t, id |-> id]]
  /\ UNCHANGED <<incidents, history, request, absorbed>>

\* The select finds no active incident, and so locks nothing.
SelectNone(w, k, t) ==
  /\ job[w] = Null
  /\ \A id \in Ids : ~ActiveFor(k, id)
  /\ job' = [job EXCEPT ![w] = [key |-> k, at |-> t, id |-> Null]]
  /\ UNCHANGED <<incidents, history, rowLock, request, absorbed>>

EndCorrelation(w) ==
  /\ job' = [job EXCEPT ![w] = Null]
  /\ rowLock' = [id \in Ids |-> IF rowLock[id] = w THEN Null ELSE rowLock[id]]

\* Mutant: the index covers open incidents and forgets acknowledged ones.
NoOpen(k) ==
  \A id \in Ids :
    ~(Exists(id) /\ incidents[id].key = k /\ incidents[id].status = "OPEN")

\* What the partial unique index admits.
NoActive(k) == \A id \in Ids : ~ActiveFor(k, id)

CommitOpened(w) ==
  /\ job[w] # Null
  /\ job[w].id = Null
  /\ NoActive(job[w].key)
  /\ \E id \in Ids :
       /\ ~Exists(id)
       /\ incidents' = [incidents EXCEPT ![id] =
            [key |-> job[w].key, status |-> "OPEN", failureCount |-> 1,
             firstOccurred |-> job[w].at, lastOccurred |-> job[w].at]]
       /\ Record(id, "OPENED")
       /\ absorbed' = [absorbed EXCEPT ![id] = {job[w].at}]
  /\ EndCorrelation(w)
  /\ UNCHANGED request

\* Another worker opened the incident meanwhile: the insert violates the index,
\* the transaction rolls back and correlateFailure throws.
OpenConflict(w) ==
  /\ job[w] # Null
  /\ job[w].id = Null
  /\ ~NoActive(job[w].key)
  /\ EndCorrelation(w)
  /\ UNCHANGED <<incidents, history, request, absorbed>>

\* Mutant: last_occurred_at takes the time of the failure processed last.
CountedLatestProcessed(row, t) ==
  [row EXCEPT !.failureCount = @ + 1, !.lastOccurred = t]

\* Mutant: the counter is not advanced.
CountedNever(row, t) == [row EXCEPT !.lastOccurred = Later(@, t)]

Counted(row, t) ==
  [row EXCEPT !.failureCount = @ + 1, !.lastOccurred = Later(@, t)]

CommitCounted(w) ==
  /\ job[w] # Null
  /\ job[w].id # Null
  /\ LET id == job[w].id IN
       /\ incidents' = [incidents EXCEPT ![id] = Counted(@, job[w].at)]
       /\ Record(id, "FAILURE_CORRELATED")
       /\ absorbed' = [absorbed EXCEPT ![id] = @ \cup {job[w].at}]
  /\ EndCorrelation(w)
  /\ UNCHANGED request

\* Any statement fails, or the worker dies: the transaction rolls back.
AbortCorrelation(w) ==
  /\ job[w] # Null
  /\ EndCorrelation(w)
  /\ UNCHANGED <<incidents, history, request, absorbed>>

-----------------------------------------------------------------------------
(* Operator requests.                                                      *)

\* operations-policy.ts
isIncidentActionAllowed(status, action) ==
  CASE action = "CLOSE" -> status = "RESOLVED"
    [] action = "ACKNOWLEDGE" -> status = "OPEN"
    [] OTHER -> status \in {"OPEN", "ACKNOWLEDGED"}

\* Mutant: the update addresses the row by its id alone.
WhereIdOnly(status, action) == status \in Status

\* The where clauses of updateIncident.
WhereStatus(status, action) ==
  \/ action = "ACKNOWLEDGE" /\ status = "OPEN"
  \/ action = "CLOSE" /\ status = "RESOLVED"
  \/ action \in {"ASSIGN", "RECORD_RECOVERY", "RESOLVE"}
       /\ status \in {"OPEN", "ACKNOWLEDGED"}

NewStatus(status, action) ==
  CASE action = "ACKNOWLEDGE" -> "ACKNOWLEDGED"
    [] action = "RESOLVE" -> "RESOLVED"
    [] action = "CLOSE" -> "CLOSED"
    [] OTHER -> status

\* The service reads the incident and checks the policy; a refusal (404, 409)
\* ends the request without a trace.
CheckAction(r, id, a) ==
  /\ request[r] = Null
  /\ Exists(id)
  /\ RoomForNote(a)
  /\ isIncidentActionAllowed(incidents[id].status, a)
  /\ request' = [request EXCEPT ![r] = [id |-> id, action |-> a]]
  /\ UNCHANGED <<incidents, history, rowLock, job, absorbed>>

EndRequest(r) == request' = [request EXCEPT ![r] = Null]

\* The update waits for the row lock, then tests its where clause again.
ApplyAction(r) ==
  /\ request[r] # Null
  /\ LET id == request[r].id
         a == request[r].action
     IN  /\ rowLock[id] = Null
         /\ RoomForNote(a)
         /\ WhereStatus(incidents[id].status, a)
         /\ incidents' = [incidents EXCEPT ![id].status = NewStatus(@, a)]
         /\ Record(id, EventType[a])
  /\ EndRequest(r)
  /\ UNCHANGED <<rowLock, job, absorbed>>

\* No row matched (409), or the transaction or the API process failed (rollback).
RefuseAction(r) ==
  /\ request[r] # Null
  /\ EndRequest(r)
  /\ UNCHANGED <<incidents, history, rowLock, job, absorbed>>

-----------------------------------------------------------------------------
Correlate(w) ==
  \/ \E k \in Keys, t \in Times : SelectActive(w, k, t) \/ SelectNone(w, k, t)
  \/ CommitOpened(w)
  \/ OpenConflict(w)
  \/ CommitCounted(w)
  \/ AbortCorrelation(w)

Operate(r) ==
  \/ \E id \in Ids, a \in Actions : CheckAction(r, id, a)
  \/ ApplyAction(r)
  \/ RefuseAction(r)

Next ==
  \/ \E w \in Correlators : Correlate(w)
  \/ \E r \in Requests : Operate(r)

Spec == Init /\ [][Next]_vars

-----------------------------------------------------------------------------
(* Properties.                                                             *)

\* Repeated failures of a key gather in one incident: two are never active.
OneActivePerKey ==
  \A k \in Keys : \A i, j \in Ids : ActiveFor(k, i) /\ ActiveFor(k, j) => i = j

Failures(h) == {n \in DOMAIN h : h[n] \in {"OPENED", "FAILURE_CORRELATED"}}

\* last_occurred_at is the latest failure counted, whatever order they came in.
LastOccurredIsLatest ==
  \A id \in Ids : Exists(id) =>
    /\ incidents[id].lastOccurred \in absorbed[id]
    /\ \A t \in absorbed[id] : t <= incidents[id].lastOccurred

\* The status an audit reads off a history.
StatusShown(h) ==
  LET shown(e) == \E n \in DOMAIN h : h[n] = e IN
  IF shown("CLOSED") THEN "CLOSED"
  ELSE IF shown("RESOLVED") THEN "RESOLVED"
  ELSE IF shown("ACKNOWLEDGED") THEN "ACKNOWLEDGED" ELSE "OPEN"

\* A history can be replayed: it opens once, it gives the status of the row,
\* nothing but the closure follows a resolution, and nothing follows that.
HistoryReplays ==
  \A id \in Ids : Exists(id) =>
    LET h == history[id] IN
      /\ incidents[id].status = StatusShown(h)
      /\ \A n \in DOMAIN h : (h[n] = "OPENED") <=> (n = 1)
      /\ \A n \in DOMAIN h :
           h[n] = "RESOLVED" => /\ Len(h) <= n + 1
                                /\ n < Len(h) => h[n + 1] = "CLOSED"

\* Every operator action that takes effect is one the policy allows in the
\* status it takes effect in, not only in the one the service had read.
AppliedActionsAreAllowed ==
  [][\A r \in Requests :
       request[r] # Null /\ history'[request[r].id] # history[request[r].id]
         /\ request'[r] = Null =>
         isIncidentActionAllowed(incidents[request[r].id].status,
                                 request[r].action)]_vars

\* A resolved incident has stopped counting: a failure that a worker was
\* correlating when the operator resolved it is not added afterwards.
ResolvedStopsCounting ==
  [][\A id \in Ids :
       Exists(id) /\ incidents[id].status \in {"RESOLVED", "CLOSED"} =>
         /\ incidents'[id].failureCount = incidents[id].failureCount
         /\ incidents'[id].status \in {"RESOLVED", "CLOSED"}]_vars
=============================================================================
