------------------------------- MODULE Outbox -------------------------------
(***************************************************************************)
(* The transactional outbox of the control plane and the worker processes  *)
(* that drain it (services/control-plane/src/outbox, worker-runtime).      *)
(*                                                                         *)
(* The rows of control_plane.outbox_messages and outbox_dead_letters are   *)
(* the shared state.  Every SQL statement is one atomic step; between two  *)
(* of them any other process may run, any worker may die, and the clock may*)
(* pass a lease or a retry delay.                                          *)
(*                                                                         *)
(* Wall-clock time is two sets: leaseExpired holds the leased rows with    *)
(* lease_expires_at < now(), available the rows with available_at <= now().*)
(* How long a lease or a delay lasts is therefore left open, which covers  *)
(* a handler that outlives its 30 second lease.                            *)
(*                                                                         *)
(* An element of Instances is one life of a worker process: the instance   *)
(* identifier is a fresh UUID at each start, so a restart is another       *)
(* element, and an instance that has not started yet is one that is idle.  *)
(***************************************************************************)
EXTENDS Integers

CONSTANTS
  Messages,     \* the outbox rows that may be written
  Instances,    \* the lives of worker processes
  NoInstance,   \* SQL null in leased_by
  NoMessage,    \* "this worker has no message"
  MaxAttempts   \* max_attempts of a row (5 unless the column says otherwise)

ASSUME OutboxAssumption ==
  /\ MaxAttempts \in Nat \ {0}
  /\ NoInstance \notin Instances
  /\ NoMessage \notin Messages

VARIABLES
  enqueued,     \* the rows that exist
  attempts,     \* attempts[m]: the column attempts
  leasedBy,     \* leasedBy[m]: the column leased_by
  leaseExpired, \* the rows whose lease_expires_at has passed
  available,    \* the rows whose available_at has come
  processed,    \* the rows with processed_at set
  deadLetters,  \* the rows copied to outbox_dead_letters
  pc,           \* pc[i]: where worker i is in processAvailable/processOne
  held,         \* held[i]: id of the LeasedOutboxMessage worker i works on
  snapshot      \* snapshot[i]: attempts of that LeasedOutboxMessage

rowVars == <<enqueued, attempts, leasedBy, leaseExpired, available, processed,
             deadLetters>>
workerVars == <<pc, held, snapshot>>
vars == <<rowVars, workerVars>>

Busy == {"handling", "completing", "failing", "burying"}

TypeOK ==
  /\ enqueued \subseteq Messages
  /\ attempts \in [Messages -> 0..MaxAttempts]
  /\ leasedBy \in [Messages -> Instances \cup {NoInstance}]
  /\ leaseExpired \subseteq Messages
  /\ available \subseteq Messages
  /\ processed \subseteq Messages
  /\ deadLetters \subseteq Messages
  /\ pc \in [Instances -> Busy \cup {"idle", "dead"}]
  /\ held \in [Instances -> Messages \cup {NoMessage}]
  /\ snapshot \in [Instances -> 0..MaxAttempts]

Init ==
  /\ enqueued = {}
  /\ attempts = [m \in Messages |-> 0]
  /\ leasedBy = [m \in Messages |-> NoInstance]
  /\ leaseExpired = {}
  /\ available = {}
  /\ processed = {}
  /\ deadLetters = {}
  /\ pc = [i \in Instances |-> "idle"]
  /\ held = [i \in Instances |-> NoMessage]
  /\ snapshot = [i \in Instances |-> 0]

-----------------------------------------------------------------------------
(* The producer and the clock.                                             *)

\* Telemetry acceptance inserts the row: attempts 0, no lease, available now.
Enqueue(m) ==
  /\ m \notin enqueued
  /\ enqueued' = enqueued \cup {m}
  /\ available' = available \cup {m}
  /\ UNCHANGED <<attempts, leasedBy, leaseExpired, processed, deadLetters>>
  /\ UNCHANGED workerVars

LeaseExpires(m) ==
  /\ leasedBy[m] # NoInstance
  /\ m \notin leaseExpired
  /\ leaseExpired' = leaseExpired \cup {m}
  /\ UNCHANGED <<enqueued, attempts, leasedBy, available, processed, deadLetters>>
  /\ UNCHANGED workerVars

DelayElapses(m) ==
  /\ m \in enqueued \ available
  /\ available' = available \cup {m}
  /\ UNCHANGED <<enqueued, attempts, leasedBy, leaseExpired, processed, deadLetters>>
  /\ UNCHANGED workerVars

-----------------------------------------------------------------------------
(* One worker.                                                             *)

\* Mutant: "processed_at is null" is missing.
LeasableWhenProcessed(m) ==
  /\ m \in enqueued \cap available
  /\ attempts[m] < MaxAttempts
  /\ leasedBy[m] = NoInstance \/ m \in leaseExpired

\* Mutant: an expired lease is never taken over.
LeasableOnlyWhenFree(m) ==
  /\ m \in (enqueued \ processed) \cap available
  /\ attempts[m] < MaxAttempts
  /\ leasedBy[m] = NoInstance

Leasable(m) ==
  /\ m \in enqueued \ processed
  /\ m \in available
  /\ attempts[m] < MaxAttempts
  /\ leasedBy[m] = NoInstance \/ m \in leaseExpired

\* Mutant: lease does not count the attempt.
LeaseUncounted(i, m) ==
  /\ pc[i] = "idle"
  /\ Leasable(m)
  /\ leasedBy' = [leasedBy EXCEPT ![m] = i]
  /\ leaseExpired' = leaseExpired \ {m}
  /\ pc' = [pc EXCEPT ![i] = "handling"]
  /\ held' = [held EXCEPT ![i] = m]
  /\ snapshot' = [snapshot EXCEPT ![i] = attempts[m] + 1]
  /\ UNCHANGED <<enqueued, attempts, available, processed, deadLetters>>

\* The query orders by available_at and skips locked rows, so which of the
\* leasable rows it takes depends on the clock and on the other workers.
Lease(i, m) ==
  /\ pc[i] = "idle"
  /\ Leasable(m)
  /\ attempts' = [attempts EXCEPT ![m] = @ + 1]
  /\ leasedBy' = [leasedBy EXCEPT ![m] = i]
  /\ leaseExpired' = leaseExpired \ {m}
  /\ pc' = [pc EXCEPT ![i] = "handling"]
  /\ held' = [held EXCEPT ![i] = m]
  /\ snapshot' = [snapshot EXCEPT ![i] = attempts[m] + 1]
  /\ UNCHANGED <<enqueued, available, processed, deadLetters>>

\* processOne up to the call of complete: topic and payload are accepted and,
\* for a failure, correlateFailure returned.
HandlerSucceeds(i) ==
  /\ pc[i] = "handling"
  /\ pc' = [pc EXCEPT ![i] = "completing"]
  /\ UNCHANGED <<rowVars, held, snapshot>>

\* Unsupported topic, payload refused by the schema, missing error code, or a
\* database error in correlateFailure.
HandlerFails(i) ==
  /\ pc[i] = "handling"
  /\ pc' = [pc EXCEPT ![i] = "failing"]
  /\ UNCHANGED <<rowVars, held, snapshot>>

\* Mutant: complete and fail address the row by id alone.
OwnsAnyLease(i) == held[i] \in Messages

\* The "where id = $1 and leased_by = $2" of complete and fail.
OwnsLease(i) == leasedBy[held[i]] = i

ClearLease(m) ==
  /\ leasedBy' = [leasedBy EXCEPT ![m] = NoInstance]
  /\ leaseExpired' = leaseExpired \ {m}

SettleRow(m) ==
  /\ processed' = processed \cup {m}
  /\ ClearLease(m)

BecomeIdle(i) ==
  /\ pc' = [pc EXCEPT ![i] = "idle"]
  /\ held' = [held EXCEPT ![i] = NoMessage]
  /\ snapshot' = [snapshot EXCEPT ![i] = 0]

\* The update of complete; it silently matches no row once the lease is lost.
CompleteRow(i) ==
  \/ /\ OwnsLease(i)
     /\ SettleRow(held[i])
     /\ UNCHANGED <<enqueued, attempts, available, deadLetters>>
  \/ /\ ~OwnsLease(i)
     /\ UNCHANGED rowVars

Complete(i) ==
  /\ pc[i] = "completing"
  /\ CompleteRow(i)
  /\ BecomeIdle(i)

\* The update reached the database and its answer was lost: processOne catches
\* the error and goes on to fail.
CompleteUnacknowledged(i) ==
  /\ pc[i] = "completing"
  /\ CompleteRow(i)
  /\ pc' = [pc EXCEPT ![i] = "failing"]
  /\ UNCHANGED <<held, snapshot>>

\* The update did not reach the database.
CompleteRefused(i) ==
  /\ pc[i] = "completing"
  /\ pc' = [pc EXCEPT ![i] = "failing"]
  /\ UNCHANGED <<rowVars, held, snapshot>>

\* Mutant: the budget is compared off by one.
BudgetNearlySpent(i) == snapshot[i] + 1 >= MaxAttempts

\* fail decides on the attempts it leased with, not on the row's.
BudgetSpent(i) == snapshot[i] >= MaxAttempts

\* The first statement of the dead-letter transaction: "insert ... select" copies
\* the row if the lease still holds.  It locks nothing.
CopyDeadLetter(i) ==
  /\ pc[i] = "failing"
  /\ OwnsLease(i)
  /\ BudgetSpent(i)
  /\ pc' = [pc EXCEPT ![i] = "burying"]
  /\ UNCHANGED <<rowVars, held, snapshot>>

\* The second statement, with a where clause of its own, and the commit: the
\* copy becomes visible whether or not the row was still there to be settled.
Bury(i) ==
  /\ pc[i] = "burying"
  /\ deadLetters' = deadLetters \cup {held[i]}
  /\ \/ OwnsLease(i) /\ SettleRow(held[i])
     \/ ~OwnsLease(i) /\ UNCHANGED <<processed, leasedBy, leaseExpired>>
  /\ BecomeIdle(i)
  /\ UNCHANGED <<enqueued, attempts, available>>

\* Mutant: the retry branch keeps the lease.
RetryRowStillLeased(i) ==
  /\ available' = available \ {held[i]}
  /\ UNCHANGED <<enqueued, attempts, leasedBy, leaseExpired, processed, deadLetters>>

RetryRow(i) ==
  /\ available' = available \ {held[i]}
  /\ ClearLease(held[i])
  /\ UNCHANGED <<enqueued, attempts, processed, deadLetters>>

\* Without the lease every statement of fail matches no row.
FailRow(i) ==
  \/ OwnsLease(i) /\ ~BudgetSpent(i) /\ RetryRow(i)
  \/ ~OwnsLease(i) /\ UNCHANGED rowVars

Fail(i) ==
  /\ pc[i] = "failing"
  /\ FailRow(i)
  /\ BecomeIdle(i)

\* The process ends: killed, stopped by its signal, or by an error that leaves
\* run (heartbeat, lease or fail could not reach the database).  The
\* orchestrator restarts workers, so some instance is always left to work.
Crash(i) ==
  /\ pc[i] # "dead"
  /\ \E j \in Instances \ {i} : pc[j] # "dead"
  /\ pc' = [pc EXCEPT ![i] = "dead"]
  /\ held' = [held EXCEPT ![i] = NoMessage]
  /\ snapshot' = [snapshot EXCEPT ![i] = 0]
  /\ UNCHANGED rowVars

-----------------------------------------------------------------------------
Work(i) ==
  \/ \E m \in Messages : Lease(i, m)
  \/ HandlerSucceeds(i)
  \/ HandlerFails(i)
  \/ Complete(i)
  \/ CompleteUnacknowledged(i)
  \/ CompleteRefused(i)
  \/ CopyDeadLetter(i)
  \/ Bury(i)
  \/ Fail(i)

Next ==
  \/ \E m \in Messages : Enqueue(m) \/ LeaseExpires(m) \/ DelayElapses(m)
  \/ \E i \in Instances : Work(i) \/ Crash(i)

Spec == Init /\ [][Next]_vars

\* A living worker keeps polling and its database calls return or time out
\* (statement_timeout is 10 s); the clock advances.  Crashes are never due.
FairSpec ==
  /\ Spec
  /\ \A i \in Instances : WF_vars(Work(i))
  /\ WF_vars(\E m \in Messages : LeaseExpires(m) \/ DelayElapses(m))
-----------------------------------------------------------------------------
(* Properties.                                                             *)

\* A living worker named in leased_by is at work on that very row and knows its
\* current attempts: the decision fail takes from its own copy is the decision
\* the row calls for (fail, outbox.repository.ts).
LeaseHolderIsCurrent ==
  \A m \in Messages, i \in Instances :
    leasedBy[m] = i /\ pc[i] # "dead" =>
      pc[i] \in Busy /\ held[i] = m /\ snapshot[i] = attempts[m]

\* Workers that process one row at the same time, because a lease ran out under
\* a slow handler, hold different attempt numbers, and none is ahead of the row.
AttemptsFenceWorkers ==
  \A i \in Instances : pc[i] \in Busy =>
    /\ snapshot[i] \in 1..attempts[held[i]]
    /\ \A j \in Instances \ {i} :
         pc[j] \in Busy /\ held[j] = held[i] => snapshot[j] # snapshot[i]

\* Every dead letter spent its whole retry budget and is out of the queue.
DeadLetterMeansSpent ==
  \A m \in deadLetters : m \in processed /\ attempts[m] = MaxAttempts

\* A row is never put back with its budget spent: the retry branch of fail
\* would leave it pending where lease can no longer take it.
SpentRowStaysLeased ==
  \A m \in enqueued \ processed :
    attempts[m] = MaxAttempts => leasedBy[m] # NoInstance

\* A row leaves the queue only by the worker with its most recent attempt, even
\* when an earlier holder finishes after its lease was taken over.
OnlyLatestAttemptSettles ==
  [][\A m \in processed' \ processed :
       \E i \in Instances : /\ held[i] = m
                            /\ leasedBy[m] = i
                            /\ snapshot[i] = attempts[m]]_vars

\* The outbox, its workers, crashes and takeovers implement the work queue.
JobState ==
  [m \in Messages |->
     IF m \notin enqueued THEN "absent"
     ELSE IF m \in deadLetters THEN "dead"
     ELSE IF m \in processed THEN "done"
     ELSE IF leasedBy[m] # NoInstance THEN "claimed"
     ELSE "waiting"]

WQ == INSTANCE WorkQueue WITH
        Jobs <- Messages, MaxTries <- MaxAttempts,
        state <- JobState, tries <- attempts

ImplementsWorkQueue == WQ!Spec

\* The worker that made the last permitted attempt died with it.
Stranded(m) ==
  /\ m \in enqueued \ processed
  /\ attempts[m] = MaxAttempts
  /\ leasedBy[m] # NoInstance
  /\ pc[leasedBy[m]] = "dead"

\* Whatever crashes, lost answers and failing handlers do, a row that was
\* written is processed or dead-lettered, unless the last attempt was cut off.
EveryMessageSettles ==
  \A m \in Messages : m \in enqueued ~> m \in processed \/ Stranded(m)

\* docs/architecture.md:240, "A worker crash leaves durable outbox work available
\* for lease-based recovery": a pending row has a living worker on it or an
\* attempt left for one to take.
CrashLeavesWorkRecoverable ==
  \A m \in enqueued \ processed :
    \/ attempts[m] < MaxAttempts
    \/ \E i \in Instances : held[i] = m
=============================================================================
