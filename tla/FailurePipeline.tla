-------------------------- MODULE FailurePipeline --------------------------
(***************************************************************************)
(* Outbox and Incidents together: the path of a failure from the outbox row*)
(* that telemetry wrote to the incident that counts it.  processOne first  *)
(* commits the correlation and then completes the row, in two transactions *)
(* with nothing between them, so a worker may die, lose its lease or lose  *)
(* an answer after the first and before the second.                        *)
(***************************************************************************)
EXTENDS Integers, FiniteSets

CONSTANTS
  Messages, Instances, NoInstance, NoMessage, MaxAttempts,
  Keys, Ids, Requests, Times, Null, MaxFailures, MaxNotes,
  FailureKey,   \* FailureKey[m]: key of a FAILED or TIMED_OUT event, else Null
  OccurredAt    \* OccurredAt[m]: occurredAt in the payload

VARIABLES enqueued, attempts, leasedBy, leaseExpired, available, processed,
          deadLetters, pc, held, snapshot
VARIABLES incidents, history, rowLock, job, request, absorbed
VARIABLE
  counted       \* history variable: how often the failure of m was committed

Q == INSTANCE Outbox
R == INSTANCE Incidents WITH Correlators <- Instances

ASSUME PipelineAssumption ==
  /\ NoMessage \notin Messages /\ NoInstance \notin Instances /\ MaxAttempts \in Nat \ {0}
  /\ Null \notin Keys \cup Ids \cup Instances \cup R!Correlation \cup R!Incident
  /\ FailureKey \in [Messages -> Keys \cup {Null}]
  /\ OccurredAt \in [Messages -> Times]

queueVars == <<enqueued, attempts, leasedBy, leaseExpired, available, processed,
               deadLetters, pc, held, snapshot>>
incidentVars == <<incidents, history, rowLock, job, request, absorbed>>
vars == <<queueVars, incidentVars, counted>>

IsFailure(m) == FailureKey[m] # Null

Init ==
  /\ Q!Init
  /\ R!Init
  /\ counted = [m \in Messages |-> 0]

\* Steps of the queue alone: the producer, the clock, lease, complete, fail.
QueueStep(i) ==
  /\ \/ \E m \in Messages : Q!Lease(i, m)
     \/ Q!Complete(i)
     \/ Q!CompleteUnacknowledged(i)
     \/ Q!CompleteRefused(i)
     \/ Q!CopyDeadLetter(i)
     \/ Q!Bury(i)
     \/ Q!Fail(i)
  /\ UNCHANGED <<incidentVars, counted>>

EnvironmentStep(m) ==
  /\ Q!Enqueue(m) \/ Q!LeaseExpires(m) \/ Q!DelayElapses(m)
  /\ UNCHANGED <<incidentVars, counted>>

\* STARTED and SUCCEEDED events need no correlation.
SkipCorrelation(i) ==
  /\ pc[i] = "handling"
  /\ ~IsFailure(held[i])
  /\ Q!HandlerSucceeds(i)
  /\ UNCHANGED <<incidentVars, counted>>

BeginCorrelation(i) ==
  /\ pc[i] = "handling"
  /\ IsFailure(held[i])
  /\ \/ R!SelectActive(i, FailureKey[held[i]], OccurredAt[held[i]])
     \/ R!SelectNone(i, FailureKey[held[i]], OccurredAt[held[i]])
  /\ UNCHANGED <<queueVars, counted>>

\* No connection to begin the transaction with.
CannotBegin(i) ==
  /\ pc[i] = "handling"
  /\ IsFailure(held[i])
  /\ job[i] = Null
  /\ Q!HandlerFails(i)
  /\ UNCHANGED <<incidentVars, counted>>

CountOnce(i) == counted' = [counted EXCEPT ![held[i]] = @ + 1]

CommitCorrelation(i) ==
  /\ R!CommitOpened(i) \/ R!CommitCounted(i)
  /\ CountOnce(i)
  /\ Q!HandlerSucceeds(i)

\* The commit reached the database and its answer was lost.
CommitUnacknowledged(i) ==
  /\ R!CommitOpened(i) \/ R!CommitCounted(i)
  /\ CountOnce(i)
  /\ Q!HandlerFails(i)

\* Mutant: the error of correlateFailure is swallowed.
CorrelationErrorIgnored(i) ==
  /\ R!OpenConflict(i) \/ R!AbortCorrelation(i)
  /\ Q!HandlerSucceeds(i)
  /\ UNCHANGED counted

CorrelationFails(i) ==
  /\ R!OpenConflict(i) \/ R!AbortCorrelation(i)
  /\ Q!HandlerFails(i)
  /\ UNCHANGED counted

\* Mutant: the transaction of a dead worker stays open.
CrashKeepsTransaction(i) ==
  /\ Q!Crash(i)
  /\ UNCHANGED <<incidentVars, counted>>

\* PostgreSQL rolls the open transaction of a dead worker back.
Crash(i) ==
  /\ Q!Crash(i)
  /\ IF job[i] = Null THEN UNCHANGED incidentVars ELSE R!AbortCorrelation(i)
  /\ UNCHANGED counted

OperatorStep(r) ==
  /\ R!Operate(r)
  /\ UNCHANGED <<queueVars, counted>>

Work(i) ==
  \/ QueueStep(i)
  \/ SkipCorrelation(i)
  \/ BeginCorrelation(i)
  \/ CannotBegin(i)
  \/ CommitCorrelation(i)
  \/ CommitUnacknowledged(i)
  \/ CorrelationFails(i)

Next ==
  \/ \E m \in Messages : EnvironmentStep(m)
  \/ \E i \in Instances : Work(i) \/ Crash(i)
  \/ \E r \in Requests : OperatorStep(r)

Spec == Init /\ [][Next]_vars

\* The fairness of Outbox: workers that live go on, and so does the clock.
\* Operators owe nothing.
FairSpec ==
  /\ Spec
  /\ \A i \in Instances : WF_vars(Work(i))
  /\ WF_vars(\E m \in enqueued : EnvironmentStep(m))

-----------------------------------------------------------------------------
(* Properties.                                                             *)

\* At least once: a failure whose row is processed and not dead-lettered is in
\* an incident, whatever was retried, taken over or cut off on the way.
NoFailureLost ==
  \A m \in processed \ deadLetters : IsFailure(m) => counted[m] > 0

\* The repetition is bounded: a failure is counted at most once per attempt.
CountedWithinAttempts ==
  \A m \in Messages : counted[m] <= attempts[m]

\* What f counts of everything in its domain, one pair for each time.
Tally(f) == UNION {{x} \X (1..f[x]) : x \in DOMAIN f}

\* What the incidents of a key count, and what was committed for its failures.
Gathered(k) ==
  [id \in {n \in Ids : incidents[n] # Null /\ incidents[n].key = k} |->
     incidents[id].failureCount]

Committed(k) == [m \in {n \in Messages : FailureKey[n] = k} |-> counted[m]]

\* The incidents of a key count what was committed for its failures, no more
\* and no less, across retries, reopened incidents and operators.
IncidentsAddUp ==
  \A k \in Keys : Cardinality(Tally(Gathered(k))) = Cardinality(Tally(Committed(k)))

\* Repeated failures of a key gather in one incident: two are never active, not
\* even when two workers found none and an operator acknowledged in between the
\* one that the first of them opened.
OneActiveIncident == R!OneActivePerKey

\* A transaction is open, and a row locked, only for a worker that is at work
\* on the failure it belongs to: no lock outlives its worker or its attempt.
LocksBelongToHandlers ==
  /\ \A i \in Instances :
       job[i] # Null => pc[i] = "handling" /\ FailureKey[held[i]] = job[i].key
  /\ \A id \in Ids :
       rowLock[id] # Null => job[rowLock[id]] # Null /\ job[rowLock[id]].id = id

\* Every failure written to the outbox is counted by an incident, is dead-
\* lettered, or had its last attempt cut off by a crash.
EveryFailureSurfaces ==
  \A m \in Messages :
    IsFailure(m) /\ m \in enqueued ~>
      counted[m] > 0 \/ m \in deadLetters \/ Q!Stranded(m)
=============================================================================
