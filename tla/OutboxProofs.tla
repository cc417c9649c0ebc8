---------------------------- MODULE OutboxProofs ----------------------------
(***************************************************************************)
(* Proofs about module Outbox, for every set of messages and instances and *)
(* every retry budget.                                                     *)
(*                                                                         *)
(* The inductive invariant IInv joins the safety invariants with what they *)
(* need: only pending rows are leased, a row that does not exist yet has   *)
(* no attempts, a busy worker holds an existing row, and a spent row cannot*)
(* be leased away between the two statements of its burial.                *)
(***************************************************************************)
EXTENDS Outbox, TLAPS

\* A leased row exists and is pending; settled rows exist.
RowsConsistent ==
  /\ processed \subseteq enqueued
  /\ deadLetters \subseteq processed
  /\ \A m \in Messages : leasedBy[m] # NoInstance => m \in enqueued \ processed
  /\ \A m \in Messages \ enqueued : attempts[m] = 0

\* A busy worker holds an existing row.
WorkersConsistent ==
  \A i \in Instances : pc[i] \in Busy => held[i] \in enqueued

\* The dead-letter transaction keeps the lease it began with.
BurialsOwnTheirRow ==
  \A i \in Instances :
    pc[i] = "burying" => OwnsLease(i) /\ attempts[held[i]] = MaxAttempts

IInv ==
  /\ RowsConsistent
  /\ WorkersConsistent
  /\ BurialsOwnTheirRow
  /\ LeaseHolderIsCurrent
  /\ AttemptsFenceWorkers
  /\ DeadLetterMeansSpent
  /\ SpentRowStaysLeased

-----------------------------------------------------------------------------
\* A busy worker holds a row: what the type invariant needs to be inductive.
BusyHoldsMessage ==
  \A i \in Instances : pc[i] \in Busy => held[i] \in Messages

\* Typing is inductive together with BusyHoldsMessage: complete and fail write
\* the row the worker holds.
TypeInv == TypeOK /\ BusyHoldsMessage

\* The type invariant holds of every behaviour.
LEMMA TypeInvHolds == Spec => []TypeInv
<1>1. Init => TypeInv
  BY OutboxAssumption DEF Init, TypeInv, TypeOK, BusyHoldsMessage, Busy
<1>2. TypeInv /\ [Next]_vars => TypeInv'
  <2> SUFFICES ASSUME TypeInv, [Next]_vars PROVE TypeInv'
    OBVIOUS
  <2> USE OutboxAssumption
      DEF TypeInv, TypeOK, BusyHoldsMessage, Busy, rowVars, workerVars
  <2>1. ASSUME NEW m \in Messages, Enqueue(m) PROVE TypeInv'
    BY <2>1 DEF Enqueue
  <2>2. ASSUME NEW m \in Messages, LeaseExpires(m) PROVE TypeInv'
    BY <2>2 DEF LeaseExpires
  <2>3. ASSUME NEW m \in Messages, DelayElapses(m) PROVE TypeInv'
    BY <2>3 DEF DelayElapses
  <2>4. ASSUME NEW i \in Instances, NEW m \in Messages, Lease(i, m) PROVE TypeInv'
    <3>1. attempts[m] + 1 \in 0..MaxAttempts
      BY <2>4 DEF Lease, Leasable
    <3>2. QED
      BY <2>4, <3>1 DEF Lease
  <2>5. ASSUME NEW i \in Instances, HandlerSucceeds(i) PROVE TypeInv'
    BY <2>5 DEF HandlerSucceeds
  <2>6. ASSUME NEW i \in Instances, HandlerFails(i) PROVE TypeInv'
    BY <2>6 DEF HandlerFails
  <2>7. ASSUME NEW i \in Instances, Complete(i) PROVE TypeInv'
    <3>1. held[i] \in Messages
      BY <2>7 DEF Complete
    <3>2. CASE OwnsLease(i)
      BY <2>7, <3>1, <3>2 DEF Complete, CompleteRow, SettleRow, ClearLease,
                                 BecomeIdle
    <3>3. CASE ~OwnsLease(i)
      BY <2>7, <3>3 DEF Complete, CompleteRow, BecomeIdle
    <3>4. QED
      BY <3>2, <3>3
  <2>8. ASSUME NEW i \in Instances, CompleteUnacknowledged(i) PROVE TypeInv'
    <3>1. held[i] \in Messages
      BY <2>8 DEF CompleteUnacknowledged
    <3>2. CASE OwnsLease(i)
      BY <2>8, <3>1, <3>2 DEF CompleteUnacknowledged, CompleteRow, SettleRow,
                                 ClearLease
    <3>3. CASE ~OwnsLease(i)
      BY <2>8, <3>3 DEF CompleteUnacknowledged, CompleteRow
    <3>4. QED
      BY <3>2, <3>3
  <2>9. ASSUME NEW i \in Instances, CompleteRefused(i) PROVE TypeInv'
    BY <2>9 DEF CompleteRefused
  <2>10. ASSUME NEW i \in Instances, Fail(i) PROVE TypeInv'
    <3>1. held[i] \in Messages
      BY <2>10 DEF Fail
    <3>2. CASE OwnsLease(i)
      BY <2>10, <3>1, <3>2 DEF Fail, FailRow, RetryRow, ClearLease, BecomeIdle
    <3>3. CASE ~OwnsLease(i)
      BY <2>10, <3>3 DEF Fail, FailRow, BecomeIdle
    <3>4. QED
      BY <3>2, <3>3
  <2>11. ASSUME NEW i \in Instances, Crash(i) PROVE TypeInv'
    BY <2>11 DEF Crash
  <2>12. ASSUME NEW i \in Instances, CopyDeadLetter(i) PROVE TypeInv'
    BY <2>12 DEF CopyDeadLetter
  <2>13. ASSUME NEW i \in Instances, Bury(i) PROVE TypeInv'
    <3>1. held[i] \in Messages
      BY <2>13 DEF Bury
    <3>2. QED
      BY <2>13, <3>1 DEF Bury, SettleRow, ClearLease, BecomeIdle
  <2>14. CASE UNCHANGED vars
    BY <2>14 DEF vars
  <2>15. QED
    BY <2>1, <2>2, <2>3, <2>4, <2>5, <2>6, <2>7, <2>8, <2>9, <2>10, <2>11, <2>12,
       <2>13, <2>14
       DEF Next, Work
<1>3. QED
  BY <1>1, <1>2, PTL DEF Spec

\* The type invariant of module Outbox: the retry budget bounds attempts, and
\* every column and worker register keeps its type.
THEOREM TypeCorrect == Spec => []TypeOK
BY TypeInvHolds, PTL DEF TypeInv

-----------------------------------------------------------------------------
\* Nothing is written yet and every worker is idle.
LEMMA InitIInv == Init => IInv
BY OutboxAssumption
   DEF Init, IInv, RowsConsistent, BurialsOwnTheirRow, WorkersConsistent, LeaseHolderIsCurrent,
       AttemptsFenceWorkers, DeadLetterMeansSpent, SpentRowStaysLeased, Busy

\* The producer and the clock touch no lease holder and no attempt count.
LEMMA EnvironmentKeepsIInv ==
  ASSUME TypeInv, IInv, NEW m \in Messages,
         Enqueue(m) \/ LeaseExpires(m) \/ DelayElapses(m)
  PROVE  IInv'
<1> USE OutboxAssumption
    DEF TypeInv, TypeOK, BusyHoldsMessage, Busy, IInv, rowVars, workerVars
<1>1. RowsConsistent' /\ WorkersConsistent'
  BY DEF RowsConsistent, WorkersConsistent, Enqueue, LeaseExpires, DelayElapses
<1>2. BurialsOwnTheirRow'
  BY DEF BurialsOwnTheirRow, OwnsLease, Enqueue, LeaseExpires, DelayElapses
<1>3. LeaseHolderIsCurrent' /\ AttemptsFenceWorkers' /\ DeadLetterMeansSpent'
  BY DEF LeaseHolderIsCurrent, AttemptsFenceWorkers, DeadLetterMeansSpent,
         Enqueue, LeaseExpires, DelayElapses
<1>4. SpentRowStaysLeased'
  BY DEF SpentRowStaysLeased, RowsConsistent, Enqueue, LeaseExpires, DelayElapses
<1>5. QED
  BY <1>1, <1>2, <1>3, <1>4

\* lease gives the taker an attempt number above every earlier one.
LEMMA LeaseKeepsIInv ==
  ASSUME TypeInv, IInv, NEW i \in Instances, NEW m \in Messages, Lease(i, m)
  PROVE  IInv'
<1> USE OutboxAssumption
    DEF TypeInv, TypeOK, BusyHoldsMessage, Busy, IInv, Lease, Leasable
<1>1. RowsConsistent' /\ WorkersConsistent'
  BY DEF RowsConsistent, WorkersConsistent
<1>2. BurialsOwnTheirRow'
  BY DEF BurialsOwnTheirRow, OwnsLease
<1>3. LeaseHolderIsCurrent'
  BY DEF LeaseHolderIsCurrent
<1>4. AttemptsFenceWorkers'
  BY DEF AttemptsFenceWorkers
<1>5. DeadLetterMeansSpent' /\ SpentRowStaysLeased'
  BY DEF DeadLetterMeansSpent, SpentRowStaysLeased, RowsConsistent
<1>6. QED
  BY <1>1, <1>2, <1>3, <1>4, <1>5

\* The steps of processOne that leave the rows alone.
LEMMA HandlerKeepsIInv ==
  ASSUME TypeInv, IInv, NEW i \in Instances,
         HandlerSucceeds(i) \/ HandlerFails(i) \/ CompleteRefused(i)
  PROVE  IInv'
BY OutboxAssumption
   DEF TypeInv, TypeOK, BusyHoldsMessage, Busy, IInv, rowVars, RowsConsistent,
       WorkersConsistent, BurialsOwnTheirRow, OwnsLease, LeaseHolderIsCurrent,
       AttemptsFenceWorkers, DeadLetterMeansSpent, SpentRowStaysLeased,
       HandlerSucceeds, HandlerFails, CompleteRefused

\* A dead worker keeps its leases and loses its registers.
LEMMA CrashKeepsIInv ==
  ASSUME TypeInv, IInv, NEW i \in Instances, Crash(i)
  PROVE  IInv'
BY OutboxAssumption
   DEF TypeInv, TypeOK, BusyHoldsMessage, Busy, IInv, rowVars, RowsConsistent,
       WorkersConsistent, BurialsOwnTheirRow, OwnsLease, LeaseHolderIsCurrent,
       AttemptsFenceWorkers, DeadLetterMeansSpent, SpentRowStaysLeased, Crash

\* complete: with the lease the row settles, without it nothing is written.
LEMMA CompleteKeepsIInv ==
  ASSUME TypeInv, IInv, NEW i \in Instances,
         Complete(i) \/ CompleteUnacknowledged(i)
  PROVE  IInv'
<1> USE OutboxAssumption
    DEF TypeInv, TypeOK, BusyHoldsMessage, Busy, IInv, Complete,
        CompleteUnacknowledged, BecomeIdle, rowVars
<1>1. held[i] \in Messages /\ CompleteRow(i)
  OBVIOUS
<1>2. CASE OwnsLease(i)
  <2> USE <1>1, <1>2 DEF CompleteRow, SettleRow, ClearLease, OwnsLease
  <2>1. RowsConsistent' /\ WorkersConsistent' /\ BurialsOwnTheirRow'
    BY DEF RowsConsistent, WorkersConsistent, BurialsOwnTheirRow
  <2>2. LeaseHolderIsCurrent'
    BY DEF LeaseHolderIsCurrent
  <2>3. AttemptsFenceWorkers'
    BY DEF AttemptsFenceWorkers
  <2>4. DeadLetterMeansSpent' /\ SpentRowStaysLeased'
    BY DEF DeadLetterMeansSpent, SpentRowStaysLeased
  <2>5. QED
    BY <2>1, <2>2, <2>3, <2>4
<1>3. CASE ~OwnsLease(i)
  <2>1. UNCHANGED rowVars
    BY <1>1, <1>3 DEF CompleteRow
  <2>2. RowsConsistent' /\ WorkersConsistent' /\ BurialsOwnTheirRow'
    BY <2>1 DEF RowsConsistent, WorkersConsistent, BurialsOwnTheirRow, OwnsLease
  <2>3. LeaseHolderIsCurrent'
    BY <2>1, <1>3 DEF LeaseHolderIsCurrent, OwnsLease
  <2>4. AttemptsFenceWorkers' /\ DeadLetterMeansSpent' /\ SpentRowStaysLeased'
    BY <2>1 DEF AttemptsFenceWorkers, DeadLetterMeansSpent, SpentRowStaysLeased
  <2>5. QED
    BY <2>2, <2>3, <2>4
<1>4. QED
  BY <1>2, <1>3

\* fail with an attempt left: the holder's copy of attempts is the row's, so
\* the row is put back only when its budget is not spent.
LEMMA FailKeepsIInv ==
  ASSUME TypeInv, IInv, NEW i \in Instances, Fail(i)
  PROVE  IInv'
<1> USE OutboxAssumption
    DEF TypeInv, TypeOK, BusyHoldsMessage, Busy, IInv, Fail, BecomeIdle, rowVars
<1>1. held[i] \in Messages /\ FailRow(i)
  OBVIOUS
<1>2. CASE OwnsLease(i)
  <2>1. snapshot[i] = attempts[held[i]]
    BY <1>1, <1>2 DEF LeaseHolderIsCurrent, OwnsLease
  <2>2. RetryRow(i) /\ attempts[held[i]] # MaxAttempts
    BY <1>1, <1>2, <2>1 DEF FailRow, BudgetSpent
  <2> USE <1>1, <1>2, <2>2 DEF RetryRow, ClearLease, OwnsLease
  <2>3. RowsConsistent' /\ WorkersConsistent' /\ BurialsOwnTheirRow'
    BY DEF RowsConsistent, WorkersConsistent, BurialsOwnTheirRow
  <2>4. LeaseHolderIsCurrent'
    BY DEF LeaseHolderIsCurrent
  <2>5. AttemptsFenceWorkers'
    BY DEF AttemptsFenceWorkers
  <2>6. DeadLetterMeansSpent' /\ SpentRowStaysLeased'
    BY DEF DeadLetterMeansSpent, SpentRowStaysLeased
  <2>7. QED
    BY <2>3, <2>4, <2>5, <2>6
<1>3. CASE ~OwnsLease(i)
  <2>1. UNCHANGED rowVars
    BY <1>1, <1>3 DEF FailRow
  <2>2. RowsConsistent' /\ WorkersConsistent' /\ BurialsOwnTheirRow'
    BY <2>1 DEF RowsConsistent, WorkersConsistent, BurialsOwnTheirRow, OwnsLease
  <2>3. LeaseHolderIsCurrent'
    BY <2>1, <1>3 DEF LeaseHolderIsCurrent, OwnsLease
  <2>4. AttemptsFenceWorkers' /\ DeadLetterMeansSpent' /\ SpentRowStaysLeased'
    BY <2>1 DEF AttemptsFenceWorkers, DeadLetterMeansSpent, SpentRowStaysLeased
  <2>5. QED
    BY <2>2, <2>3, <2>4
<1>4. QED
  BY <1>2, <1>3

\* The copy: the decision to give up is taken on the row's own attempts.
LEMMA CopyKeepsIInv ==
  ASSUME TypeInv, IInv, NEW i \in Instances, CopyDeadLetter(i)
  PROVE  IInv'
<1> USE OutboxAssumption
    DEF TypeInv, TypeOK, BusyHoldsMessage, Busy, IInv, CopyDeadLetter, rowVars
<1>1. attempts[held[i]] = MaxAttempts
  BY DEF LeaseHolderIsCurrent, OwnsLease, BudgetSpent
<1>2. RowsConsistent' /\ WorkersConsistent'
  BY DEF RowsConsistent, WorkersConsistent
<1>3. BurialsOwnTheirRow'
  BY <1>1 DEF BurialsOwnTheirRow, OwnsLease
<1>4. LeaseHolderIsCurrent' /\ AttemptsFenceWorkers'
  BY DEF LeaseHolderIsCurrent, AttemptsFenceWorkers
<1>5. DeadLetterMeansSpent' /\ SpentRowStaysLeased'
  BY DEF DeadLetterMeansSpent, SpentRowStaysLeased
<1>6. QED
  BY <1>2, <1>3, <1>4, <1>5

\* The settlement finds the row as the copy left it.
LEMMA BuryKeepsIInv ==
  ASSUME TypeInv, IInv, NEW i \in Instances, Bury(i)
  PROVE  IInv'
<1> USE OutboxAssumption
    DEF TypeInv, TypeOK, BusyHoldsMessage, Busy, IInv, Bury, BecomeIdle
<1>1. /\ held[i] \in Messages
      /\ OwnsLease(i)
      /\ attempts[held[i]] = MaxAttempts
  BY DEF BurialsOwnTheirRow
<1> USE <1>1 DEF SettleRow, ClearLease, OwnsLease
<1>2. RowsConsistent' /\ WorkersConsistent' /\ BurialsOwnTheirRow'
  BY DEF RowsConsistent, WorkersConsistent, BurialsOwnTheirRow
<1>3. LeaseHolderIsCurrent'
  BY DEF LeaseHolderIsCurrent
<1>4. AttemptsFenceWorkers'
  BY DEF AttemptsFenceWorkers
<1>5. DeadLetterMeansSpent' /\ SpentRowStaysLeased'
  BY DEF DeadLetterMeansSpent, SpentRowStaysLeased
<1>6. QED
  BY <1>2, <1>3, <1>4, <1>5

\* A step that changes no variable.
LEMMA StutterKeepsIInv ==
  ASSUME IInv, UNCHANGED vars
  PROVE  IInv'
BY DEF vars, rowVars, workerVars, IInv, RowsConsistent, WorkersConsistent,
       BurialsOwnTheirRow, OwnsLease, LeaseHolderIsCurrent, AttemptsFenceWorkers, DeadLetterMeansSpent,
       SpentRowStaysLeased

\* The inductive invariant holds in every reachable state.
LEMMA IInvHolds == Spec => []IInv
<1>1. TypeInv /\ IInv /\ [Next]_vars => IInv'
  BY EnvironmentKeepsIInv, LeaseKeepsIInv, HandlerKeepsIInv, CompleteKeepsIInv,
     FailKeepsIInv, CopyKeepsIInv, BuryKeepsIInv, CrashKeepsIInv,
     StutterKeepsIInv
     DEF Next, Work
<1>2. QED
  BY InitIInv, TypeInvHolds, <1>1, PTL DEF Spec

-----------------------------------------------------------------------------
\* fail decides on a copy of attempts that is still the row's (outbox.repository
\* fail, lines 104 and 123): the worker named in leased_by is on that row.
THEOREM HolderCurrent == Spec => []LeaseHolderIsCurrent
BY IInvHolds, PTL DEF IInv

\* Workers that overlap on a row after a lease ran out have different attempt
\* numbers (lease, line 41).
THEOREM AttemptsFence == Spec => []AttemptsFenceWorkers
BY IInvHolds, PTL DEF IInv

\* Only a spent row is dead-lettered, and it leaves the queue (fail, 104-141).
THEOREM DeadLettersSpent == Spec => []DeadLetterMeansSpent
BY IInvHolds, PTL DEF IInv

\* No row is put back without an attempt left (fail, 142-156).
THEOREM SpentStaysLeased == Spec => []SpentRowStaysLeased
BY IInvHolds, PTL DEF IInv

\* A row leaves the queue only by the worker with its latest attempt.
THEOREM LatestAttemptSettles == Spec => OnlyLatestAttemptSettles
<1> DEFINE Settles == \A m \in processed' \ processed :
                        \E i \in Instances : /\ held[i] = m
                                             /\ leasedBy[m] = i
                                             /\ snapshot[i] = attempts[m]
<1>1. TypeInv /\ IInv /\ [Next]_vars => [Settles]_vars
  <2> SUFFICES ASSUME TypeInv, IInv, Next, NEW m \in processed' \ processed
               PROVE  \E i \in Instances : /\ held[i] = m
                                           /\ leasedBy[m] = i
                                           /\ snapshot[i] = attempts[m]
    OBVIOUS
  <2>1. PICK i \in Instances : /\ pc[i] \in Busy
                               /\ OwnsLease(i)
                               /\ held[i] = m
    BY DEF Next, Work, Enqueue, LeaseExpires, DelayElapses, Lease, HandlerSucceeds,
           HandlerFails, Complete, CompleteUnacknowledged, CompleteRefused,
           CompleteRow, SettleRow, CopyDeadLetter, Bury, Fail, FailRow, RetryRow,
           Crash, rowVars, Busy
  <2>2. m \in Messages /\ pc[i] # "dead"
    BY <2>1 DEF TypeInv, BusyHoldsMessage, Busy
  <2>3. leasedBy[m] = i /\ snapshot[i] = attempts[m]
    BY <2>1, <2>2 DEF IInv, LeaseHolderIsCurrent, OwnsLease
  <2>4. QED
    BY <2>1, <2>3
<1>2. QED
  BY <1>1, TypeInvHolds, IInvHolds, PTL DEF Spec, OnlyLatestAttemptSettles

-----------------------------------------------------------------------------
(* The refinement: what a worker does to its row is a step of WorkQueue.   *)

\* Only the row that is written changes its place in the queue.
LEMMA JobStateUpdate ==
  ASSUME NEW m \in Messages, NEW s,
         JobState'[m] = s,
         \A n \in Messages \ {m} : JobState'[n] = JobState[n]
  PROVE  JobState' = [JobState EXCEPT ![m] = s]
BY DEF JobState

\* Rows whose columns keep what JobState reads keep their place.
LEMMA JobStateUnchanged ==
  ASSUME UNCHANGED <<enqueued, processed, deadLetters, leasedBy>>
  PROVE  UNCHANGED JobState
BY DEF JobState

\* complete finishes the job it owns, and is a stutter without the lease.
LEMMA CompleteRefines ==
  ASSUME TypeInv, IInv, NEW i \in Instances, Complete(i) \/ CompleteUnacknowledged(i)
  PROVE  [WQ!Next]_(WQ!vars)
<1>1. held[i] \in Messages /\ CompleteRow(i)
  BY DEF TypeInv, BusyHoldsMessage, Busy, Complete, CompleteUnacknowledged
<1>2. CASE OwnsLease(i)
  <2>1. /\ leasedBy[held[i]] # NoInstance
        /\ held[i] \in enqueued \ processed
        /\ held[i] \notin deadLetters
    BY <1>1, <1>2, OutboxAssumption DEF OwnsLease, IInv, RowsConsistent
  <2>2. JobState[held[i]] = "claimed"
    BY <1>1, <2>1 DEF JobState
  <2>3. JobState' = [JobState EXCEPT ![held[i]] = "done"]
    <3>1. JobState'[held[i]] = "done"
      BY <1>1, <1>2, <2>1 DEF JobState, CompleteRow, SettleRow
    <3>2. \A n \in Messages \ {held[i]} : JobState'[n] = JobState[n]
      BY <1>1, <1>2 DEF JobState, CompleteRow, SettleRow, ClearLease, TypeInv,
                        TypeOK
    <3>3. QED
      BY <1>1, <3>1, <3>2, JobStateUpdate
  <2>4. WQ!Finish(held[i])
    BY <1>1, <1>2, <2>2, <2>3 DEF WQ!Finish, CompleteRow
  <2>5. QED
    BY <1>1, <2>4 DEF WQ!Next
<1>3. CASE ~OwnsLease(i)
  BY <1>1, <1>3, JobStateUnchanged DEF CompleteRow, rowVars, WQ!vars
<1>4. QED
  BY <1>2, <1>3

\* fail with an attempt left gives the job back.
LEMMA FailRefines ==
  ASSUME TypeInv, IInv, NEW i \in Instances, Fail(i)
  PROVE  [WQ!Next]_(WQ!vars)
<1>1. held[i] \in Messages /\ FailRow(i) /\ pc[i] \in Busy
  BY DEF TypeInv, BusyHoldsMessage, Busy, Fail
<1>2. CASE OwnsLease(i)
  <2>1. /\ leasedBy[held[i]] # NoInstance
        /\ held[i] \in enqueued \ processed
        /\ held[i] \notin deadLetters
    BY <1>1, <1>2, OutboxAssumption DEF OwnsLease, IInv, RowsConsistent
  <2>2. JobState[held[i]] = "claimed"
    BY <1>1, <2>1 DEF JobState
  <2>3. snapshot[i] = attempts[held[i]] /\ attempts[held[i]] \in 0..MaxAttempts
    BY <1>1, <1>2 DEF IInv, LeaseHolderIsCurrent, OwnsLease, Busy, TypeInv, TypeOK
  <2>4. RetryRow(i) /\ attempts[held[i]] < MaxAttempts
    BY <1>1, <1>2, <2>3, OutboxAssumption DEF FailRow, BudgetSpent
  <2>5. JobState'[held[i]] = "waiting"
    BY <1>1, <2>1, <2>4 DEF JobState, RetryRow, ClearLease, TypeInv, TypeOK
  <2>6. \A n \in Messages \ {held[i]} : JobState'[n] = JobState[n]
    BY <1>1, <2>4 DEF JobState, RetryRow, ClearLease, TypeInv, TypeOK
  <2>7. WQ!GiveBack(held[i])
    BY <1>1, <2>2, <2>4, <2>5, <2>6, JobStateUpdate DEF WQ!GiveBack, RetryRow
  <2>8. QED
    BY <1>1, <2>7 DEF WQ!Next
<1>3. CASE ~OwnsLease(i)
  BY <1>1, <1>3, JobStateUnchanged DEF FailRow, rowVars, WQ!vars
<1>4. QED
  BY <1>2, <1>3

\* The end of a burial abandons the job; its copy was a stutter.
LEMMA BuryRefines ==
  ASSUME TypeInv, IInv, NEW i \in Instances, Bury(i)
  PROVE  [WQ!Next]_(WQ!vars)
<1>1. /\ held[i] \in Messages
      /\ OwnsLease(i)
      /\ attempts[held[i]] = MaxAttempts
  BY DEF Bury, TypeInv, BusyHoldsMessage, Busy, IInv, BurialsOwnTheirRow
<1>2. /\ leasedBy[held[i]] # NoInstance
      /\ held[i] \in enqueued \ processed
      /\ held[i] \notin deadLetters
  BY <1>1, OutboxAssumption DEF OwnsLease, IInv, RowsConsistent
<1>3. JobState[held[i]] = "claimed"
  BY <1>1, <1>2 DEF JobState
<1>4. JobState'[held[i]] = "dead"
  BY <1>1, <1>2 DEF JobState, Bury
<1>5. \A n \in Messages \ {held[i]} : JobState'[n] = JobState[n]
  BY <1>1 DEF JobState, Bury, SettleRow, ClearLease, TypeInv, TypeOK
<1>6. WQ!Abandon(held[i])
  BY <1>1, <1>3, <1>4, <1>5, JobStateUpdate DEF WQ!Abandon, Bury
<1>7. QED
  BY <1>1, <1>6 DEF WQ!Next

\* lease claims the job, from the queue or from a holder whose lease ran out.
LEMMA LeaseRefines ==
  ASSUME TypeInv, IInv, NEW i \in Instances, NEW m \in Messages, Lease(i, m)
  PROVE  [WQ!Next]_(WQ!vars)
<1>1. /\ m \in enqueued \ processed
      /\ m \notin deadLetters
      /\ attempts[m] < MaxAttempts
  BY DEF Lease, Leasable, IInv, RowsConsistent
<1>2. JobState[m] \in {"waiting", "claimed"}
  BY <1>1 DEF JobState
<1>3. JobState'[m] = "claimed"
  BY <1>1, OutboxAssumption DEF JobState, Lease, TypeInv, TypeOK
<1>4. \A n \in Messages \ {m} : JobState'[n] = JobState[n]
  BY DEF JobState, Lease, TypeInv, TypeOK
<1>5. WQ!Claim(m)
  BY <1>1, <1>2, <1>3, <1>4, JobStateUpdate DEF WQ!Claim, Lease
<1>6. QED
  BY <1>5 DEF WQ!Next

\* The insert of the row submits the job.
LEMMA EnqueueRefines ==
  ASSUME TypeInv, IInv, NEW m \in Messages, Enqueue(m)
  PROVE  [WQ!Next]_(WQ!vars)
<1>1. m \notin processed /\ m \notin deadLetters /\ leasedBy[m] = NoInstance
  BY DEF Enqueue, IInv, RowsConsistent
<1>2. JobState[m] = "absent" /\ JobState'[m] = "waiting"
  BY <1>1 DEF JobState, Enqueue
<1>3. \A n \in Messages \ {m} : JobState'[n] = JobState[n]
  BY DEF JobState, Enqueue
<1>4. WQ!Submit(m)
  BY <1>2, <1>3, JobStateUpdate DEF WQ!Submit, Enqueue
<1>5. QED
  BY <1>4 DEF WQ!Next

\* The outbox with its leases, takeovers and crashes implements the work queue:
\* no row is claimed more than MaxAttempts times, settles twice, or is given up
\* with an attempt left.
THEOREM OutboxImplementsWorkQueue == Spec => ImplementsWorkQueue
<1>1. Init => WQ!Init
  BY DEF Init, JobState, WQ!Init
<1>2. TypeInv /\ IInv /\ [Next]_vars => [WQ!Next]_(WQ!vars)
  <2> SUFFICES ASSUME TypeInv, IInv, [Next]_vars PROVE [WQ!Next]_(WQ!vars)
    OBVIOUS
  <2>1. ASSUME UNCHANGED <<enqueued, processed, deadLetters, leasedBy, attempts>>
        PROVE  UNCHANGED WQ!vars
    BY <2>1, JobStateUnchanged DEF WQ!vars
  <2>2. ASSUME NEW m \in Messages, LeaseExpires(m) \/ DelayElapses(m)
        PROVE  UNCHANGED WQ!vars
    BY <2>1, <2>2 DEF LeaseExpires, DelayElapses
  <2>3. ASSUME NEW i \in Instances,
               \/ HandlerSucceeds(i)
               \/ HandlerFails(i)
               \/ CompleteRefused(i)
               \/ CopyDeadLetter(i)
               \/ Crash(i)
        PROVE  UNCHANGED WQ!vars
    BY <2>1, <2>3 DEF HandlerSucceeds, HandlerFails, CompleteRefused, CopyDeadLetter,
                        Crash, rowVars
  <2>4. CASE UNCHANGED vars
    BY <2>1, <2>4 DEF vars, rowVars
  <2>5. QED
    BY <2>2, <2>3, <2>4, EnqueueRefines, LeaseRefines, CompleteRefines, FailRefines,
       BuryRefines
       DEF Next, Work
<1>3. QED
  BY <1>1, <1>2, TypeInvHolds, IInvHolds, PTL DEF Spec, ImplementsWorkQueue, WQ!Spec
=============================================================================
