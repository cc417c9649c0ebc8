------------------------ MODULE FailurePipelineProofs ------------------------
(***************************************************************************)
(* Theorems about FailurePipeline, for every set of messages, workers, keys*)
(* and incidents: no failure is lost or counted more often than it is tried*)
(* and what is counted gathers in one active incident of its key.          *)
(***************************************************************************)
EXTENDS FailurePipeline, FiniteSetTheorems, TLAPS

\* The variables that the arguments below turn on.
TypeOK ==
  /\ pc \in [Instances -> Q!Busy \cup {"idle", "dead"}]
  /\ held \in [Instances -> Messages \cup {NoMessage}]
  /\ attempts \in [Messages -> Nat]
  /\ counted \in [Messages -> Nat]
  /\ job \in [Instances -> R!Correlation \cup {Null}]
  /\ rowLock \in [Ids -> Instances \cup {Null}]
  /\ \A i \in Instances : pc[i] \in Q!Busy => held[i] \in Messages

Handling(i) == pc[i] = "handling"

-----------------------------------------------------------------------------
(* What a step does to the variables of the arguments.                     *)

\* The registers of a worker that takes part in no step stay.
OthersKeep(i) ==
  \A j \in Instances \ {i} : pc'[j] = pc[j] /\ held'[j] = held[j] /\ job'[j] = job[j]

\* A correlation ends: its transaction and the locks of it are gone.
LEMMA CorrelationEnds ==
  ASSUME TypeOK, NEW i \in Instances, R!EndCorrelation(i)
  PROVE  /\ job' \in [Instances -> R!Correlation \cup {Null}]
         /\ rowLock' \in [Ids -> Instances \cup {Null}]
         /\ job'[i] = Null
         /\ \A j \in Instances \ {i} : job'[j] = job[j]
         /\ \A id \in Ids : rowLock'[id] # Null => rowLock'[id] = rowLock[id]
                                                /\ rowLock[id] # i
  BY DEF TypeOK, R!EndCorrelation

\* A worker's traffic with the queue alone: lease, complete, fail.
LEMMA QueueSteps ==
  ASSUME TypeOK, NEW i \in Instances, QueueStep(i)
  PROVE  /\ TypeOK' /\ OthersKeep(i) /\ ~Handling(i)
         /\ UNCHANGED <<job, rowLock, counted>>
         /\ \/ \E m \in Messages : /\ Handling(i)' /\ held'[i] = m
                                   /\ attempts' = [attempts EXCEPT ![m] = @ + 1]
                                   /\ UNCHANGED <<processed, deadLetters>>
            \/ /\ ~Handling(i)' /\ attempts' = attempts
               /\ held[i] \in Messages /\ pc'[i] # "completing"
               /\ \/ UNCHANGED <<processed, deadLetters>>
                  \/ pc[i] = "completing" /\ processed' = processed \cup {held[i]}
                       /\ deadLetters' = deadLetters
                  \/ deadLetters' = deadLetters \cup {held[i]}
                       /\ processed' \subseteq processed \cup {held[i]}
<1>1. UNCHANGED <<job, rowLock, counted>>
  BY DEF QueueStep, incidentVars
<1> USE <1>1 DEF TypeOK, OthersKeep, Handling, Q!Busy
<1>2. CASE \E m \in Messages : Q!Lease(i, m)
  <2>1. PICK m \in Messages : Q!Lease(i, m)
    BY <1>2
  <2>2. TypeOK' /\ OthersKeep(i)
    BY <2>1 DEF Q!Lease
  <2>3. /\ ~Handling(i) /\ Handling(i)' /\ held'[i] = m
        /\ attempts' = [attempts EXCEPT ![m] = @ + 1]
        /\ UNCHANGED <<processed, deadLetters>>
    BY <2>1 DEF Q!Lease
  <2> QED
    BY <2>2, <2>3
<1>3. CASE Q!Complete(i) \/ Q!CompleteUnacknowledged(i)
  BY <1>3 DEF Q!Complete, Q!CompleteUnacknowledged, Q!CompleteRow, Q!SettleRow,
              Q!BecomeIdle, Q!rowVars
<1>4. CASE Q!CompleteRefused(i) \/ Q!CopyDeadLetter(i)
  BY <1>4 DEF Q!CompleteRefused, Q!CopyDeadLetter, Q!rowVars
<1>5. CASE Q!Bury(i)
  BY <1>5 DEF Q!Bury, Q!SettleRow, Q!BecomeIdle
<1>6. CASE Q!Fail(i)
  BY <1>6 DEF Q!Fail, Q!FailRow, Q!RetryRow, Q!BecomeIdle, Q!rowVars
<1> QED
  BY <1>2, <1>3, <1>4, <1>5, <1>6 DEF QueueStep

\* The steps that correlate, and those that skip it or fail to: the worker is at
\* its handler and either goes on with it or leaves it.
LEMMA HandlerSteps ==
  ASSUME TypeOK, NEW i \in Instances,
         \/ SkipCorrelation(i) \/ BeginCorrelation(i) \/ CannotBegin(i)
         \/ CommitCorrelation(i) \/ CommitUnacknowledged(i) \/ CorrelationFails(i)
  PROVE  /\ TypeOK' /\ OthersKeep(i) /\ Handling(i) /\ held' = held
         /\ UNCHANGED <<attempts, processed, deadLetters>>
         /\ \/ BeginCorrelation(i) /\ Handling(i)' /\ counted' = counted
            \/ /\ SkipCorrelation(i) \/ CannotBegin(i)
               /\ ~Handling(i)' /\ UNCHANGED <<counted, job, rowLock>>
            \/ /\ CorrelationFails(i) /\ pc'[i] = "failing"
               /\ R!EndCorrelation(i) /\ counted' = counted
            \/ /\ ~Handling(i)' /\ R!EndCorrelation(i)
               /\ counted' = [counted EXCEPT ![held[i]] = @ + 1]
<1> USE DEF TypeOK, OthersKeep, Handling, Q!Busy, Q!HandlerSucceeds, Q!HandlerFails,
            Q!rowVars, queueVars, incidentVars
<1>1. CASE SkipCorrelation(i) \/ CannotBegin(i)
  BY <1>1 DEF SkipCorrelation, CannotBegin
<1>2. CASE BeginCorrelation(i)
  <2> DEFINE k == FailureKey[held[i]]
             t == OccurredAt[held[i]]
  <2>1. k \in Keys /\ t \in Times /\ pc[i] = "handling"
    BY <1>2, PipelineAssumption DEF BeginCorrelation, IsFailure
  <2> HIDE DEF k, t
  <2>2. R!SelectActive(i, k, t) \/ R!SelectNone(i, k, t)
    BY <1>2 DEF BeginCorrelation, k, t
  <2>3. /\ job' \in [Instances -> R!Correlation \cup {Null}]
        /\ rowLock' \in [Ids -> Instances \cup {Null}]
        /\ \A j \in Instances \ {i} : job'[j] = job[j]
    BY <2>1, <2>2 DEF R!SelectActive, R!SelectNone, R!LockRow, R!Correlation
  <2> QED
    BY <1>2, <2>1, <2>3 DEF BeginCorrelation
<1>3. CASE CommitCorrelation(i) \/ CommitUnacknowledged(i)
  <2>1. R!EndCorrelation(i)
    BY <1>3 DEF CommitCorrelation, CommitUnacknowledged, R!CommitOpened, R!CommitCounted
  <2>2. counted' = [counted EXCEPT ![held[i]] = @ + 1]
    BY <1>3 DEF CommitCorrelation, CommitUnacknowledged, CountOnce
  <2> QED
    BY <1>3, <2>1, <2>2, CorrelationEnds DEF CommitCorrelation, CommitUnacknowledged
<1>4. CASE CorrelationFails(i)
  <2>1. R!EndCorrelation(i)
    BY <1>4 DEF CorrelationFails, R!OpenConflict, R!AbortCorrelation
  <2> QED
    BY <1>4, <2>1, CorrelationEnds DEF CorrelationFails
<1> QED
  BY <1>1, <1>2, <1>3, <1>4

\* A crash ends the worker and its transaction, and counts nothing.
LEMMA CrashStep ==
  ASSUME TypeOK, NEW i \in Instances, Crash(i)
  PROVE  /\ TypeOK' /\ OthersKeep(i) /\ pc'[i] = "dead"
         /\ UNCHANGED <<attempts, processed, deadLetters, counted>>
         /\ \/ job[i] = Null /\ UNCHANGED <<job, rowLock>>
            \/ R!EndCorrelation(i)
<1>1. /\ OthersKeep(i) /\ pc'[i] = "dead"
      /\ UNCHANGED <<attempts, processed, deadLetters, counted>>
      /\ pc' \in [Instances -> Q!Busy \cup {"idle", "dead"}]
      /\ held' \in [Instances -> Messages \cup {NoMessage}]
      /\ \/ job[i] = Null /\ UNCHANGED <<job, rowLock>>
         \/ R!EndCorrelation(i)
  <2>1. \/ job[i] = Null /\ UNCHANGED <<job, rowLock>>
        \/ R!EndCorrelation(i)
    BY DEF Crash, incidentVars, R!AbortCorrelation
  <2>2. \A j \in Instances \ {i} : job'[j] = job[j]
    BY <2>1, CorrelationEnds
  <2> QED
    BY <2>1, <2>2 DEF Crash, Q!Crash, Q!rowVars, TypeOK, OthersKeep
<1>2. \A j \in Instances : pc'[j] \in Q!Busy => held'[j] \in Messages
  BY <1>1 DEF OthersKeep, TypeOK, Q!Busy
<1>3. /\ job' \in [Instances -> R!Correlation \cup {Null}]
      /\ rowLock' \in [Ids -> Instances \cup {Null}]
  BY <1>1, CorrelationEnds DEF TypeOK
<1> QED
  BY <1>1, <1>2, <1>3 DEF TypeOK

\* The producer, the clock and the operators touch nothing of a worker.
LEMMA OtherSteps ==
  ASSUME TypeOK,
         \/ \E m \in Messages : EnvironmentStep(m)
         \/ \E r \in Requests : OperatorStep(r)
         \/ UNCHANGED vars
  PROVE  /\ TypeOK'
         /\ UNCHANGED <<pc, held, attempts, processed, deadLetters, counted, job, rowLock>>
<1>1. UNCHANGED <<pc, held, attempts, processed, deadLetters, counted, job, rowLock>>
  BY DEF EnvironmentStep, OperatorStep, Q!Enqueue, Q!LeaseExpires, Q!DelayElapses,
         Q!workerVars, R!Operate, R!CheckAction, R!ApplyAction, R!RefuseAction,
         incidentVars, queueVars, vars
<1> QED
  BY <1>1 DEF TypeOK

\* Which steps there are.
LEMMA Steps ==
  ASSUME [Next]_vars
  PROVE  \/ \E i \in Instances :
              \/ QueueStep(i) \/ Crash(i)
              \/ SkipCorrelation(i) \/ BeginCorrelation(i) \/ CannotBegin(i)
              \/ CommitCorrelation(i) \/ CommitUnacknowledged(i) \/ CorrelationFails(i)
         \/ \E m \in Messages : EnvironmentStep(m)
         \/ \E r \in Requests : OperatorStep(r)
         \/ UNCHANGED vars
  BY DEF Next, Work

\* The variables of the pipeline are well typed at first.
LEMMA InitTypes == Init => TypeOK
  BY DEF Init, Q!Init, R!Init, TypeOK, Q!Busy

\* Type correctness of what the arguments turn on.
THEOREM TypeCorrect == Spec => []TypeOK
<1>1. TypeOK /\ [Next]_vars => TypeOK'
  BY Steps, QueueSteps, HandlerSteps, CrashStep, OtherSteps
<1> QED
  BY InitTypes, <1>1, PTL DEF Spec

-----------------------------------------------------------------------------
(* Failures.                                                               *)

\* A worker that is about to complete a failure has committed its correlation.
CompletedIsCounted ==
  \A i \in Instances :
    pc[i] = "completing" /\ IsFailure(held[i]) => counted[held[i]] > 0

\* No failure is lost: a row leaves the queue by a worker whose correlation is
\* committed, or as a dead letter.
THEOREM FailuresAreCounted == Spec => []NoFailureLost
<1> DEFINE Inv == NoFailureLost /\ CompletedIsCounted /\ processed \subseteq Messages
<1>1. Init => Inv
  BY DEF Init, Q!Init, NoFailureLost, CompletedIsCounted
<1>2. TypeOK /\ Inv /\ [Next]_vars => Inv'
  <2> SUFFICES ASSUME TypeOK, Inv, [Next]_vars PROVE Inv'
    OBVIOUS
  <2> USE DEF NoFailureLost, CompletedIsCounted, IsFailure, OthersKeep, Handling
  <2>1. ASSUME NEW i \in Instances, QueueStep(i) PROVE Inv'
    <3>1. counted' = counted /\ OthersKeep(i)
      BY <2>1, QueueSteps
    <3>2. /\ pc'[i] # "completing" /\ ~Handling(i)
          /\ \/ UNCHANGED <<processed, deadLetters>>
             \/ pc[i] = "completing" /\ processed' = processed \cup {held[i]}
                  /\ deadLetters' = deadLetters
             \/ deadLetters' = deadLetters \cup {held[i]}
                  /\ processed' \subseteq processed \cup {held[i]}
          /\ processed' = processed \/ held[i] \in Messages
      BY <2>1, QueueSteps
    <3> QED
      BY <3>1, <3>2
  <2>2. ASSUME NEW i \in Instances, Crash(i) PROVE Inv'
    BY <2>2, CrashStep
  <2>3. ASSUME NEW i \in Instances,
               \/ SkipCorrelation(i) \/ BeginCorrelation(i) \/ CannotBegin(i)
               \/ CommitCorrelation(i) \/ CommitUnacknowledged(i) \/ CorrelationFails(i)
        PROVE  Inv'
    <3>1. /\ OthersKeep(i) /\ held' = held /\ Handling(i) /\ held[i] \in Messages
          /\ UNCHANGED <<processed, deadLetters>>
      BY <2>3, HandlerSteps DEF TypeOK, Q!Busy
    <3>2. \/ pc'[i] # "completing" /\ counted' = counted
          \/ SkipCorrelation(i) /\ counted' = counted
          \/ counted' = [counted EXCEPT ![held[i]] = @ + 1]
      BY <2>3, HandlerSteps DEF BeginCorrelation, CannotBegin, Q!HandlerFails, queueVars, TypeOK
    <3>3. counted \in [Messages -> Nat] /\ (SkipCorrelation(i) => ~IsFailure(held[i]))
      BY DEF TypeOK, SkipCorrelation
    <3>4. \A m \in Messages : counted[m] > 0 => counted'[m] > 0
      BY <3>1, <3>2, <3>3
    <3>5. \A j \in Instances : pc[j] = "completing" => held[j] \in Messages
      BY DEF TypeOK, Q!Busy
    <3>6. NoFailureLost'
      BY <3>1, <3>4
    <3>7. CompletedIsCounted'
      BY <3>1, <3>2, <3>3, <3>4, <3>5
    <3> QED
      BY <3>1, <3>6, <3>7
  <2>4. ASSUME UNCHANGED <<pc, held, processed, deadLetters, counted>> PROVE Inv'
    BY <2>4
  <2> QED
    BY <2>1, <2>2, <2>3, <2>4, Steps, OtherSteps
<1>3. Inv => NoFailureLost
  OBVIOUS
<1> QED
  BY <1>1, <1>2, <1>3, TypeCorrect, PTL DEF Spec

\* Transactions and row locks belong to workers that are at their handlers: every
\* way out of a handler ends the transaction.
THEOREM LocksOfHandlers == Spec => []LocksBelongToHandlers
<1>1. Init => LocksBelongToHandlers
  BY DEF Init, Q!Init, R!Init, LocksBelongToHandlers
<1>2. TypeOK /\ LocksBelongToHandlers /\ [Next]_vars => LocksBelongToHandlers'
  <2> SUFFICES ASSUME TypeOK, LocksBelongToHandlers, [Next]_vars
               PROVE  LocksBelongToHandlers'
    OBVIOUS
  <2> USE DEF LocksBelongToHandlers, OthersKeep, Handling
  <2>1. ASSUME NEW i \in Instances, OthersKeep(i),
               \/ R!EndCorrelation(i)
               \/ job[i] = Null /\ UNCHANGED <<job, rowLock>>
        PROVE  LocksBelongToHandlers'
    BY <2>1, CorrelationEnds DEF TypeOK
  <2>2. ASSUME NEW i \in Instances, QueueStep(i) PROVE LocksBelongToHandlers'
    BY <2>1, <2>2, QueueSteps
  <2>3. ASSUME NEW i \in Instances, Crash(i) PROVE LocksBelongToHandlers'
    BY <2>1, <2>3, CrashStep
  <2>4. ASSUME NEW i \in Instances, SkipCorrelation(i) \/ CannotBegin(i)
        PROVE  job[i] = Null
    BY <2>4, PipelineAssumption
       DEF SkipCorrelation, CannotBegin, IsFailure, TypeOK, R!Correlation
  <2>5. ASSUME NEW i \in Instances, BeginCorrelation(i) PROVE LocksBelongToHandlers'
    <3> DEFINE k == FailureKey[held[i]]
               t == OccurredAt[held[i]]
    <3>1. /\ k \in Keys /\ t \in Times /\ pc[i] = "handling"
          /\ UNCHANGED <<pc, held>>
      BY <2>5, PipelineAssumption DEF BeginCorrelation, IsFailure, TypeOK, Q!Busy, queueVars
    <3> HIDE DEF k, t
    <3>2. R!SelectActive(i, k, t) \/ R!SelectNone(i, k, t)
      BY <2>5 DEF BeginCorrelation, k, t
    <3>3. PICK id \in Ids \cup {Null} :
            /\ job' = [job EXCEPT ![i] = [key |-> k, at |-> t, id |-> id]]
            /\ job[i] = Null
            /\ rowLock' = rowLock \/ (id \in Ids /\ rowLock' = [rowLock EXCEPT ![id] = i])
      BY <3>2 DEF R!SelectActive, R!SelectNone, R!LockRow
    <3>4. [key |-> k, at |-> t, id |-> id] # Null
      BY <3>1, PipelineAssumption DEF R!Correlation
    <3>5. \A j \in Instances : job'[j] # Null =>
            pc'[j] = "handling" /\ FailureKey[held'[j]] = job'[j].key
      BY <3>1, <3>3, k = FailureKey[held[i]] DEF TypeOK, k
    <3>6. \A n \in Ids : rowLock'[n] # Null =>
            job'[rowLock'[n]] # Null /\ job'[rowLock'[n]].id = n
      BY <3>3, <3>4 DEF TypeOK
    <3> QED
      BY <3>5, <3>6
  <2>6. ASSUME NEW i \in Instances,
               \/ SkipCorrelation(i) \/ BeginCorrelation(i) \/ CannotBegin(i)
               \/ CommitCorrelation(i) \/ CommitUnacknowledged(i) \/ CorrelationFails(i)
        PROVE  LocksBelongToHandlers'
    BY <2>1, <2>4, <2>5, <2>6, HandlerSteps
  <2>7. ASSUME UNCHANGED <<pc, held, job, rowLock>> PROVE LocksBelongToHandlers'
    BY <2>7
  <2> QED
    BY <2>2, <2>3, <2>6, <2>7, Steps, OtherSteps
<1> QED
  BY <1>1, <1>2, TypeCorrect, PTL DEF Spec

-----------------------------------------------------------------------------
(* Attempts.                                                               *)

\* The workers at a handler for m.
Handlers(m) == {i \in Instances : Handling(i) /\ held[i] = m}

\* Every attempt at m was counted, is at its handler, or ended uncounted.
AttemptsCover ==
  \A m \in Messages :
    /\ IsFiniteSet(Handlers(m))
    /\ counted[m] + Cardinality(Handlers(m)) <= attempts[m]

\* What a step may do to the handlers of a message for AttemptsCover to hold on:
\* begin one attempt, end one with a count, or end any without.
LEMMA AttemptsKept ==
  ASSUME TypeOK, TypeOK', AttemptsCover, NEW m \in Messages,
         \/ /\ attempts'[m] = attempts[m] /\ counted'[m] = counted[m]
            /\ Handlers(m)' \subseteq Handlers(m)
         \/ \E i \in Instances \ Handlers(m) :
              /\ attempts'[m] = attempts[m] + 1 /\ counted'[m] = counted[m]
              /\ Handlers(m)' = Handlers(m) \cup {i}
         \/ \E i \in Handlers(m) :
              /\ attempts'[m] = attempts[m] /\ counted'[m] = counted[m] + 1
              /\ Handlers(m)' = Handlers(m) \ {i}
  PROVE  /\ IsFiniteSet(Handlers(m)')
         /\ counted'[m] + Cardinality(Handlers(m)') <= attempts'[m]
<1> DEFINE H == Handlers(m)
           G == Handlers(m)'
<1>1. IsFiniteSet(H) /\ counted[m] + Cardinality(H) <= attempts[m]
  BY DEF AttemptsCover
<1>2. Cardinality(H) \in Nat /\ counted[m] \in Nat /\ attempts[m] \in Nat
  BY <1>1, FS_CardinalityType DEF TypeOK
<1> HIDE DEF H, G
<1>3. CASE attempts'[m] = attempts[m] /\ counted'[m] = counted[m] /\ G \subseteq H
  <2>1. IsFiniteSet(G) /\ Cardinality(G) <= Cardinality(H) /\ Cardinality(G) \in Nat
    BY <1>1, <1>3, FS_Subset, FS_CardinalityType
  <2> QED
    BY <1>1, <1>2, <1>3, <2>1 DEF G
<1>4. ASSUME NEW i \in Instances, i \notin H, G = H \cup {i},
             attempts'[m] = attempts[m] + 1, counted'[m] = counted[m]
      PROVE  IsFiniteSet(G) /\ counted'[m] + Cardinality(G) <= attempts'[m]
  <2>1. IsFiniteSet(G) /\ Cardinality(G) = Cardinality(H) + 1
    BY <1>1, <1>4, FS_AddElement
  <2> QED
    BY <1>1, <1>2, <1>4, <2>1
<1>5. ASSUME NEW i \in H, G = H \ {i},
             attempts'[m] = attempts[m], counted'[m] = counted[m] + 1
      PROVE  IsFiniteSet(G) /\ counted'[m] + Cardinality(G) <= attempts'[m]
  <2>1. IsFiniteSet(G) /\ Cardinality(G) = Cardinality(H) - 1
    BY <1>1, <1>5, FS_RemoveElement
  <2> QED
    BY <1>1, <1>2, <1>5, <2>1
<1> QED
  BY <1>3, <1>4, <1>5 DEF G, H

\* A failure is counted at most once per attempt, although a commit whose answer
\* is lost is retried and an expired lease is taken over.
THEOREM CountsWithinAttempts == Spec => []CountedWithinAttempts
<1>1. Init => AttemptsCover
  <2> SUFFICES ASSUME Init, NEW m \in Messages
               PROVE  IsFiniteSet(Handlers(m)) /\ counted[m] + Cardinality(Handlers(m)) <= attempts[m]
    BY DEF AttemptsCover
  <2>1. Handlers(m) = {}
    BY DEF Handlers, Handling, Init, Q!Init
  <2>2. counted[m] = 0 /\ attempts[m] = 0
    BY DEF Init, Q!Init
  <2> QED
    BY <2>1, <2>2, FS_EmptySet
<1>2. TypeOK /\ AttemptsCover /\ [Next]_vars => AttemptsCover'
  <2> SUFFICES ASSUME TypeOK, AttemptsCover, [Next]_vars, NEW m \in Messages
               PROVE  /\ IsFiniteSet(Handlers(m)')
                      /\ counted'[m] + Cardinality(Handlers(m)') <= attempts'[m]
    BY DEF AttemptsCover
  <2> DEFINE Shrinks == /\ attempts'[m] = attempts[m] /\ counted'[m] = counted[m]
                        /\ Handlers(m)' \subseteq Handlers(m)
             Begins == \E i \in Instances \ Handlers(m) :
                         /\ attempts'[m] = attempts[m] + 1 /\ counted'[m] = counted[m]
                         /\ Handlers(m)' = Handlers(m) \cup {i}
             Ends == \E i \in Handlers(m) :
                       /\ attempts'[m] = attempts[m] /\ counted'[m] = counted[m] + 1
                       /\ Handlers(m)' = Handlers(m) \ {i}
  <2> USE DEF Handlers, OthersKeep
  <2>1. ASSUME NEW i \in Instances, QueueStep(i) PROVE TypeOK' /\ (Shrinks \/ Begins)
    <3>1. TypeOK' /\ OthersKeep(i) /\ ~Handling(i) /\ counted' = counted
      BY <2>1, QueueSteps
    <3>2. \A j \in Instances \ {i} : Handling(j)' = Handling(j)
      BY <3>1 DEF Handling
    <3>3. CASE ~Handling(i)' /\ attempts' = attempts
      BY <3>1, <3>2, <3>3
    <3>4. ASSUME NEW n \in Messages, Handling(i)', held'[i] = n,
                 attempts' = [attempts EXCEPT ![n] = @ + 1]
          PROVE  Shrinks \/ Begins
      <4>1. CASE n = m
        <5>1. attempts'[m] = attempts[m] + 1
          BY <3>4, <4>1 DEF TypeOK
        <5>2. Handlers(m)' = Handlers(m) \cup {i} /\ i \notin Handlers(m)
          BY <3>1, <3>2, <3>4, <4>1
        <5> QED
          BY <3>1, <5>1, <5>2
      <4>2. CASE n # m
        BY <3>1, <3>2, <3>4, <4>2 DEF TypeOK
      <4> QED
        BY <4>1, <4>2
    <3> QED
      BY <2>1, <3>1, <3>3, <3>4, QueueSteps
  <2>2. ASSUME NEW i \in Instances, Crash(i) PROVE TypeOK' /\ Shrinks
    <3>1. /\ TypeOK' /\ OthersKeep(i) /\ ~Handling(i)'
          /\ UNCHANGED <<attempts, counted>>
      BY <2>2, CrashStep DEF Handling
    <3>2. \A j \in Instances \ {i} : Handling(j)' = Handling(j)
      BY <3>1 DEF Handling
    <3> QED
      BY <3>1, <3>2
  <2>3. ASSUME NEW i \in Instances,
               \/ SkipCorrelation(i) \/ BeginCorrelation(i) \/ CannotBegin(i)
               \/ CommitCorrelation(i) \/ CommitUnacknowledged(i) \/ CorrelationFails(i)
        PROVE  TypeOK' /\ (Shrinks \/ Ends)
    <3>1. /\ TypeOK' /\ OthersKeep(i) /\ Handling(i) /\ held' = held /\ attempts' = attempts
          /\ \/ counted' = counted
             \/ ~Handling(i)' /\ counted' = [counted EXCEPT ![held[i]] = @ + 1]
      BY <2>3, HandlerSteps DEF Handling
    <3>2. \A j \in Instances \ {i} : Handling(j)' = Handling(j)
      BY <3>1 DEF Handling
    <3>3. CASE counted' = counted
      BY <3>1, <3>2, <3>3
    <3>4. CASE ~Handling(i)' /\ counted' = [counted EXCEPT ![held[i]] = @ + 1]
      <4>1. CASE held[i] = m
        <5>1. counted'[m] = counted[m] + 1
          BY <3>4, <4>1 DEF TypeOK
        <5>2. Handlers(m)' = Handlers(m) \ {i} /\ i \in Handlers(m)
          BY <3>1, <3>2, <3>4, <4>1
        <5> QED
          BY <3>1, <5>1, <5>2
      <4>2. CASE held[i] # m
        <5>1. counted'[m] = counted[m]
          BY <3>4, <4>2 DEF TypeOK
        <5> QED
          BY <3>1, <3>2, <4>2, <5>1
      <4> QED
        BY <4>1, <4>2
    <3> QED
      BY <3>1, <3>3, <3>4
  <2>4. ASSUME TypeOK', UNCHANGED <<pc, held, attempts, counted>> PROVE Shrinks
    BY <2>4 DEF Handling
  <2> HIDE DEF Shrinks, Begins, Ends, Handlers
  <2>5. TypeOK' /\ (Shrinks \/ Begins \/ Ends)
    BY <2>1, <2>2, <2>3, <2>4, Steps, OtherSteps
  <2> QED
    BY <2>5, AttemptsKept DEF Shrinks, Begins, Ends
<1>3. TypeOK /\ AttemptsCover => CountedWithinAttempts
  <2> SUFFICES ASSUME TypeOK, AttemptsCover, NEW m \in Messages
               PROVE  counted[m] <= attempts[m]
    BY DEF CountedWithinAttempts
  <2>1. /\ Cardinality(Handlers(m)) \in Nat
        /\ counted[m] + Cardinality(Handlers(m)) <= attempts[m]
    BY FS_CardinalityType DEF AttemptsCover
  <2> QED
    BY <2>1 DEF TypeOK
<1> QED
  BY <1>1, <1>2, <1>3, TypeCorrect, PTL DEF Spec

-----------------------------------------------------------------------------
(* Sums.                                                                   *)

\* A tally in which x is counted once more has one element more.
LEMMA TallyGrows ==
  ASSUME NEW S, NEW f \in [S -> Nat], IsFiniteSet(Tally(f)),
         NEW x, NEW g \in [S \cup {x} -> Nat],
         \A y \in S \ {x} : g[y] = f[y],
         \/ x \in S /\ g[x] = f[x] + 1
         \/ x \notin S /\ g[x] = 1
  PROVE  /\ IsFiniteSet(Tally(g))
         /\ Cardinality(Tally(g)) = Cardinality(Tally(f)) + 1
<1> DEFINE p == <<x, g[x]>>
<1>1. \A q : q \in Tally(f) <=> \E y \in S : \E n \in 1..f[y] : q = <<y, n>>
  BY DEF Tally
<1>2. \A q : q \in Tally(g) <=> \E y \in S \cup {x} : \E n \in 1..g[y] : q = <<y, n>>
  BY DEF Tally
<1>3. p \notin Tally(f)
  BY <1>1
<1>4. \A q : q \in Tally(g) => q \in Tally(f) \cup {p}
  BY <1>1, <1>2
<1>5. \A q : q \in Tally(f) \cup {p} => q \in Tally(g)
  BY <1>1, <1>2
<1>6. Tally(g) = Tally(f) \cup {p}
  BY <1>4, <1>5
<1> QED
  BY <1>3, <1>6, FS_AddElement

\* An incident exists with its key from when it was opened; a transaction that
\* counts has selected one of its own key, and an operator's request has read one.
KeysFit ==
  /\ incidents \in [Ids -> R!Incident \cup {Null}]
  /\ request \in [Requests -> [id : Ids, action : R!Actions] \cup {Null}]
  /\ \A r \in Requests : request[r] # Null => incidents[request[r].id] # Null
  /\ \A i \in Instances :
       job[i] # Null /\ job[i].id # Null =>
         incidents[job[i].id] # Null /\ incidents[job[i].id].key = job[i].key

\* What the sums see of a step, where no commit is.
SumsStay ==
  /\ counted' = counted
  /\ \A id \in Ids :
       /\ incidents[id] = Null <=> incidents'[id] = Null
       /\ incidents'[id].key = incidents[id].key
       /\ incidents'[id].failureCount = incidents[id].failureCount

\* A failure is committed: counted once more, and by one incident of its key.
Counts(m, id) ==
  /\ FailureKey[m] \in Keys /\ counted' = [counted EXCEPT ![m] = @ + 1]
  /\ \A n \in Ids \ {id} : incidents'[n] = incidents[n]
  /\ incidents'[id] # Null /\ incidents'[id].key = FailureKey[m]
  /\ \/ incidents[id] = Null /\ incidents'[id].failureCount = 1
     \/ /\ incidents[id] # Null /\ incidents[id].key = FailureKey[m]
        /\ incidents'[id].failureCount = incidents[id].failureCount + 1

\* The row that has counted one more failure.
LEMMA CountedRow ==
  ASSUME NEW row \in R!Incident, NEW t \in Times
  PROVE  /\ R!Counted(row, t) \in R!Incident
         /\ R!Counted(row, t).key = row.key
         /\ R!Counted(row, t).failureCount = row.failureCount + 1
         /\ R!Counted(row, t).status = row.status
<1>1. PICK last \in Times : last = R!Later(row.lastOccurred, t)
  BY DEF R!Later, R!Incident
<1>2. PICK n \in Nat \ {0} : n = row.failureCount + 1
  BY DEF R!Incident
<1>3. R!Counted(row, t) = [row EXCEPT !.failureCount = n, !.lastOccurred = last]
  BY <1>1, <1>2 DEF R!Counted, R!Incident
<1> QED
  BY <1>2, <1>3 DEF R!Incident

\* The commits of a correlation.
LEMMA CommitSums ==
  ASSUME TypeOK, LocksBelongToHandlers, KeysFit, NEW i \in Instances,
         CommitCorrelation(i) \/ CommitUnacknowledged(i)
  PROVE  /\ held[i] \in Messages /\ \E id \in Ids : Counts(held[i], id)
         /\ incidents' \in [Ids -> R!Incident \cup {Null}]
<1> DEFINE m == held[i]
           k == job[i].key
           t == job[i].at
<1>1. /\ R!CommitOpened(i) \/ R!CommitCounted(i)
      /\ counted' = [counted EXCEPT ![m] = @ + 1]
      /\ pc[i] = "handling"
  BY DEF CommitCorrelation, CommitUnacknowledged, CountOnce, Q!HandlerSucceeds, Q!HandlerFails
<1>2. m \in Messages /\ job[i] \in R!Correlation /\ job[i] # Null
  BY <1>1 DEF TypeOK, Q!Busy, R!CommitOpened, R!CommitCounted
<1>3. k \in Keys /\ t \in Times /\ FailureKey[m] = k
  BY <1>2 DEF LocksBelongToHandlers, R!Correlation
<1>4. CASE R!CommitOpened(i)
  <2>1. PICK row \in R!Incident :
          row = [key |-> k, status |-> "OPEN", failureCount |-> 1,
                 firstOccurred |-> t, lastOccurred |-> t]
    <3>1. [key |-> k, status |-> "OPEN", failureCount |-> 1,
           firstOccurred |-> t, lastOccurred |-> t] \in R!Incident
      BY <1>3 DEF R!Incident, R!Status
    <3> QED
      BY <3>1
  <2>2. PICK id \in Ids : incidents[id] = Null /\ incidents' = [incidents EXCEPT ![id] = row]
    BY <1>4, <2>1 DEF R!CommitOpened, R!Exists
  <2>3. incidents'[id] = row /\ row # Null
    BY <2>2, PipelineAssumption DEF KeysFit
  <2>4. Counts(m, id)
    BY <1>1, <1>3, <2>1, <2>2, <2>3 DEF Counts
  <2>5. incidents' \in [Ids -> R!Incident \cup {Null}]
    BY <2>2 DEF KeysFit
  <2> QED
    BY <1>2, <2>4, <2>5
<1>5. CASE R!CommitCounted(i)
  <2> DEFINE id == job[i].id
  <2>1. id \in Ids /\ incidents[id] # Null /\ incidents[id].key = k
    BY <1>2, <1>5 DEF R!CommitCounted, R!Correlation, KeysFit
  <2>2. incidents[id] \in R!Incident
    BY <2>1 DEF KeysFit
  <2>3. PICK row \in R!Incident :
          /\ row = R!Counted(incidents[id], t)
          /\ row.key = k /\ row.failureCount = incidents[id].failureCount + 1
    BY <1>3, <2>1, <2>2, CountedRow
  <2>4. incidents' = [incidents EXCEPT ![id] = row]
    BY <1>5, <2>3 DEF R!CommitCounted
  <2>5. incidents'[id] = row /\ row # Null
    BY <2>1, <2>4, PipelineAssumption DEF KeysFit
  <2>6. Counts(m, id)
    BY <1>1, <1>3, <2>1, <2>3, <2>4, <2>5 DEF Counts
  <2>7. incidents' \in [Ids -> R!Incident \cup {Null}]
    BY <2>4 DEF KeysFit
  <2> QED
    BY <1>2, <2>1, <2>6, <2>7
<1> QED
  BY <1>1, <1>4, <1>5

\* The actions of operators count nothing and keep the key.
LEMMA OperatorSums ==
  ASSUME KeysFit, NEW r \in Requests, OperatorStep(r)
  PROVE  SumsStay /\ incidents' \in [Ids -> R!Incident \cup {Null}]
<1>1. counted' = counted
  BY DEF OperatorStep
<1>2. CASE incidents' = incidents
  BY <1>1, <1>2 DEF SumsStay, KeysFit
<1>3. CASE R!ApplyAction(r)
  <2> DEFINE id == request[r].id
             status == R!NewStatus(incidents[id].status, request[r].action)
  <2>1. /\ id \in Ids /\ incidents[id] \in R!Incident
        /\ incidents' = [incidents EXCEPT ![id] = [@ EXCEPT !.status = status]]
    BY <1>3 DEF R!ApplyAction, KeysFit
  <2>2. status \in R!Status
    BY <2>1 DEF R!NewStatus, R!Status, R!Incident
  <2> HIDE DEF status
  <2>3. PICK row \in R!Incident :
          /\ row = [incidents[id] EXCEPT !.status = status]
          /\ row.key = incidents[id].key /\ row.failureCount = incidents[id].failureCount
    <3>1. [incidents[id] EXCEPT !.status = status] \in R!Incident
      BY <2>1, <2>2 DEF R!Incident
    <3> QED
      BY <2>1, <3>1 DEF R!Incident
  <2>4. incidents' = [incidents EXCEPT ![id] = row] /\ row # Null
    BY <2>1, <2>3, PipelineAssumption
  <2> QED
    BY <1>1, <2>1, <2>3, <2>4, PipelineAssumption DEF SumsStay, KeysFit
<1> QED
  BY <1>2, <1>3 DEF OperatorStep, R!Operate, R!CheckAction, R!RefuseAction
\* What a step does to the sums: nothing, or one failure more.
LEMMA SumSteps ==
  ASSUME TypeOK, LocksBelongToHandlers, KeysFit, [Next]_vars
  PROVE  /\ incidents' \in [Ids -> R!Incident \cup {Null}]
         /\ SumsStay \/ \E m \in Messages, id \in Ids : Counts(m, id)
<1>1. ASSUME incidents' = incidents, counted' = counted
      PROVE  SumsStay /\ incidents' \in [Ids -> R!Incident \cup {Null}]
  BY <1>1 DEF SumsStay, KeysFit
<1>2. ASSUME NEW i \in Instances, QueueStep(i) \/ SkipCorrelation(i) \/ CannotBegin(i)
      PROVE  incidents' = incidents /\ counted' = counted
  BY <1>2 DEF QueueStep, SkipCorrelation, CannotBegin, incidentVars
<1>3. ASSUME NEW i \in Instances, Crash(i) \/ CorrelationFails(i) \/ BeginCorrelation(i)
      PROVE  incidents' = incidents /\ counted' = counted
  BY <1>3 DEF Crash, CorrelationFails, BeginCorrelation, R!AbortCorrelation,
              R!OpenConflict, R!SelectActive, R!SelectNone, incidentVars
<1>4. ASSUME NEW m \in Messages, EnvironmentStep(m)
      PROVE  incidents' = incidents /\ counted' = counted
  BY <1>4 DEF EnvironmentStep, incidentVars
<1>5. CASE UNCHANGED vars
  BY <1>1, <1>5 DEF vars, incidentVars
<1> QED
  BY <1>1, <1>2, <1>3, <1>4, <1>5, Steps, CommitSums, OperatorSums

\* An incident once opened stays, with its key.
LEMMA KeysStay ==
  ASSUME TypeOK, LocksBelongToHandlers, KeysFit, [Next]_vars, NEW id \in Ids, incidents[id] # Null
  PROVE  incidents'[id] # Null /\ incidents'[id].key = incidents[id].key
  BY SumSteps DEF SumsStay, Counts

\* A transaction and a request go on with the incident they began with.
LEMMA KeysFitKept ==
  ASSUME TypeOK, LocksBelongToHandlers, KeysFit, [Next]_vars
  PROVE  KeysFit'
<1> DEFINE Selected(i) == job[i] # Null /\ job[i].id # Null =>
             incidents[job[i].id] # Null /\ incidents[job[i].id].key = job[i].key
<1>1. ASSUME NEW i \in Instances, job'[i] = job[i] \/ job'[i] = Null
      PROVE  Selected(i)'
  <2> SUFFICES ASSUME job'[i] # Null, job'[i].id # Null PROVE Selected(i)'
    OBVIOUS
  <2>1. job'[i] = job[i] /\ job[i].id \in Ids /\ Selected(i)
    BY <1>1 DEF TypeOK, KeysFit, R!Correlation
  <2> QED
    BY <2>1, KeysStay
<1>2. ASSUME NEW i \in Instances, NEW j \in Instances, BeginCorrelation(i)
      PROVE  Selected(j)'
  <2> DEFINE k == FailureKey[held[i]]
             t == OccurredAt[held[i]]
  <2>1. CASE R!SelectNone(i, k, t)
    BY <1>1, <2>1 DEF R!SelectNone, TypeOK
  <2>2. CASE R!SelectActive(i, k, t)
    <3>1. PICK id \in Ids :
            /\ incidents[id] # Null /\ incidents[id].key = k
            /\ job' = [job EXCEPT ![i] = [key |-> k, at |-> t, id |-> id]]
            /\ incidents' = incidents
      BY <2>2 DEF R!SelectActive, R!ActiveFor, R!Exists
    <3> QED
      BY <1>1, <3>1 DEF TypeOK
  <2> QED
    BY <1>2, <2>1, <2>2 DEF BeginCorrelation
<1>3. ASSUME NEW i \in Instances,
             \/ QueueStep(i) \/ Crash(i) \/ SkipCorrelation(i) \/ CannotBegin(i)
             \/ CommitCorrelation(i) \/ CommitUnacknowledged(i) \/ CorrelationFails(i),
             NEW j \in Instances
      PROVE  job'[j] = job[j] \/ job'[j] = Null
  <2>1. ASSUME R!EndCorrelation(i) PROVE job'[j] = job[j] \/ job'[j] = Null
    BY <2>1, CorrelationEnds
  <2>2. CASE QueueStep(i) \/ SkipCorrelation(i) \/ CannotBegin(i)
    BY <2>2 DEF QueueStep, SkipCorrelation, CannotBegin, incidentVars
  <2>3. CASE Crash(i)
    BY <2>1, <2>3, CrashStep
  <2>4. CASE CommitCorrelation(i) \/ CommitUnacknowledged(i) \/ CorrelationFails(i)
    BY <2>1, <2>4 DEF CommitCorrelation, CommitUnacknowledged, CorrelationFails,
       R!CommitOpened, R!CommitCounted, R!OpenConflict, R!AbortCorrelation
  <2> QED
    BY <1>3, <2>2, <2>3, <2>4
<1>4. \A j \in Instances : Selected(j)'
  BY <1>1, <1>2, <1>3, Steps, OtherSteps
<1> DEFINE RequestsFit ==
      /\ request' \in [Requests -> [id : Ids, action : R!Actions] \cup {Null}]
      /\ \A r \in Requests : request'[r] # Null => incidents'[request'[r].id] # Null
<1>5. RequestsFit
  <2>1. ASSUME request' = request PROVE RequestsFit
    BY <2>1, KeysStay DEF KeysFit
  <2>2. ASSUME NEW r \in Requests, OperatorStep(r)
        PROVE  RequestsFit
    <3>1. CASE R!ApplyAction(r) \/ R!RefuseAction(r)
      <4>1. request' = [request EXCEPT ![r] = Null]
        BY <3>1 DEF R!ApplyAction, R!RefuseAction, R!EndRequest
      <4> QED
        BY <4>1, KeysStay DEF KeysFit
    <3>2. CASE \E id \in Ids, a \in R!Actions : R!CheckAction(r, id, a)
      <4>1. PICK id \in Ids, a \in R!Actions :
              /\ incidents[id] # Null
              /\ request' = [request EXCEPT ![r] = [id |-> id, action |-> a]]
        BY <3>2 DEF R!CheckAction, R!Exists
      <4> QED
        BY <4>1, KeysStay DEF KeysFit
    <3> QED
      BY <2>2, <3>1, <3>2 DEF OperatorStep, R!Operate
  <2>3. ASSUME NEW i \in Instances,
               \/ QueueStep(i) \/ Crash(i)
               \/ SkipCorrelation(i) \/ BeginCorrelation(i) \/ CannotBegin(i)
               \/ CommitCorrelation(i) \/ CommitUnacknowledged(i) \/ CorrelationFails(i)
        PROVE  request' = request
    BY <2>3 DEF QueueStep, Crash, SkipCorrelation, BeginCorrelation, CannotBegin,
                CommitCorrelation, CommitUnacknowledged, CorrelationFails, incidentVars,
                R!AbortCorrelation, R!OpenConflict, R!SelectActive, R!SelectNone,
                R!CommitOpened, R!CommitCounted
  <2>4. ASSUME NEW m \in Messages, EnvironmentStep(m) PROVE request' = request
    BY <2>4 DEF EnvironmentStep, incidentVars
  <2>5. CASE UNCHANGED vars
    BY <2>1, <2>5 DEF KeysFit, vars, incidentVars
  <2> QED
    BY <2>1, <2>2, <2>3, <2>4, <2>5, Steps DEF KeysFit
<1> QED
  BY <1>4, <1>5, SumSteps DEF KeysFit

\* Both sides of the equation are finite, as the number of commits is.
SumsAgree ==
  \A k \in Keys :
    /\ IsFiniteSet(Tally(Gathered(k))) /\ IsFiniteSet(Tally(Committed(k)))
    /\ Cardinality(Tally(Gathered(k))) = Cardinality(Tally(Committed(k)))

\* A step adds the same number of pairs to both sides: none or one.
LEMMA SumsKept ==
  ASSUME TypeOK, KeysFit, SumsAgree,
         SumsStay \/ \E m \in Messages, id \in Ids : Counts(m, id),
         incidents' \in [Ids -> R!Incident \cup {Null}]
  PROVE  SumsAgree'
<1> SUFFICES ASSUME NEW k \in Keys
             PROVE  /\ IsFiniteSet(Tally(Gathered(k)')) /\ IsFiniteSet(Tally(Committed(k)'))
                    /\ Cardinality(Tally(Gathered(k)')) = Cardinality(Tally(Committed(k)'))
  BY DEF SumsAgree, Tally
<1> DEFINE S == {n \in Ids : incidents[n] # Null /\ incidents[n].key = k}
           T == {n \in Messages : FailureKey[n] = k}
           f == Gathered(k)
           h == Committed(k)
<1>1. IsFiniteSet(Tally(f)) /\ IsFiniteSet(Tally(h)) /\ Cardinality(Tally(f)) = Cardinality(Tally(h))
  BY DEF SumsAgree
<1>2. /\ f \in [S -> Nat] /\ h \in [T -> Nat]
      /\ \A n \in S : f[n] = incidents[n].failureCount
      /\ \A n \in T : h[n] = counted[n]
  BY DEF Gathered, Committed, KeysFit, R!Incident, TypeOK
<1>3. CASE SumsStay
  <2>1. f' = f
    BY <1>3 DEF SumsStay, Gathered
  <2>2. h' = h
    BY <1>3 DEF SumsStay, Committed
  <2> QED
    BY <1>1, <2>1, <2>2
<1>4. ASSUME NEW m \in Messages, NEW id \in Ids, Counts(m, id), FailureKey[m] # k
      PROVE  f' = f /\ h' = h
  <2>1. S' = S /\ \A n \in S : incidents'[n] = incidents[n]
    BY <1>4 DEF Counts
  <2>2. \A n \in T : counted'[n] = counted[n]
    BY <1>4 DEF Counts, TypeOK
  <2> QED
    BY <2>1, <2>2 DEF Gathered, Committed
<1>5. ASSUME NEW m \in Messages, NEW id \in Ids, Counts(m, id), FailureKey[m] = k
      PROVE  /\ IsFiniteSet(Tally(f')) /\ IsFiniteSet(Tally(h'))
             /\ Cardinality(Tally(f')) = Cardinality(Tally(h'))
  <2>1. S' = S \cup {id}
    BY <1>5 DEF Counts
  <2>2. /\ f' \in [S \cup {id} -> Nat]
        /\ \A n \in S \ {id} : f'[n] = f[n]
        /\ \/ id \in S /\ f'[id] = f[id] + 1
           \/ id \notin S /\ f'[id] = 1
    <3>1. f' \in [S' -> Nat] /\ \A n \in S' : f'[n] = incidents'[n].failureCount
      BY DEF Gathered, R!Incident
    <3> QED
      BY <1>2, <1>5, <2>1, <3>1 DEF Counts
  <2>3. IsFiniteSet(Tally(f')) /\ Cardinality(Tally(f')) = Cardinality(Tally(f)) + 1
    <3> HIDE DEF f, S
    <3> QED
      BY <1>1, <1>2, <2>2, TallyGrows
  <2>4. /\ h' \in [T \cup {m} -> Nat]
        /\ \A n \in T \ {m} : h'[n] = h[n]
        /\ \/ m \in T /\ h'[m] = h[m] + 1
           \/ m \notin T /\ h'[m] = 1
    <3>1. counted' \in [Messages -> Nat] /\ counted'[m] = counted[m] + 1
          /\ \A n \in Messages \ {m} : counted'[n] = counted[n]
      BY <1>5 DEF Counts, TypeOK
    <3>2. h' \in [T -> Nat] /\ \A n \in T : h'[n] = counted'[n]
      BY <3>1 DEF Committed
    <3>3. m \in T /\ T \cup {m} = T
      BY <1>5
    <3> QED
      BY <1>2, <3>1, <3>2, <3>3
  <2>5. IsFiniteSet(Tally(h')) /\ Cardinality(Tally(h')) = Cardinality(Tally(h)) + 1
    <3> HIDE DEF h, T
    <3>1. h \in [T -> Nat] /\ h' \in [T \cup {m} -> Nat]
      BY <1>2, <2>4
    <3>2. \A y \in T \ {m} : h'[y] = h[y]
      BY <2>4
    <3>3. \/ m \in T /\ h'[m] = h[m] + 1
          \/ m \notin T /\ h'[m] = 1
      BY <2>4
    <3> QED
      BY <1>1, <3>1, <3>2, <3>3, TallyGrows
  <2> QED
    BY <1>1, <2>3, <2>5
<1> QED
  BY <1>1, <1>3, <1>4, <1>5

\* Nothing is committed and no incident open at first.
LEMMA InitSums ==
  ASSUME Init
  PROVE  KeysFit /\ SumsAgree
<1>1. KeysFit
  BY DEF Init, R!Init, KeysFit
<1>2. ASSUME NEW k \in Keys PROVE Tally(Gathered(k)) = {} /\ Tally(Committed(k)) = {}
  <2>1. DOMAIN Gathered(k) = {}
    BY DEF Init, R!Init, Gathered
  <2>2. \A m \in DOMAIN Committed(k) : Committed(k)[m] = 0
    BY DEF Init, Committed
  <2>3. 1..0 = {}
    OBVIOUS
  <2> QED
    BY <2>1, <2>2, <2>3 DEF Tally
<1> QED
  BY <1>1, <1>2, FS_EmptySet DEF SumsAgree

\* The incidents of a key and the commits for its failures add up, for one commit
\* advances one incident of the failure's own key by one.
THEOREM SumsAddUp == Spec => []IncidentsAddUp
<1>1. TypeOK /\ LocksBelongToHandlers /\ KeysFit /\ SumsAgree /\ [Next]_vars
        => (KeysFit /\ SumsAgree)'
  BY SumSteps, KeysFitKept, SumsKept
<1>2. SumsAgree => IncidentsAddUp
  BY DEF SumsAgree, IncidentsAddUp
<1> QED
  BY InitSums, <1>1, <1>2, TypeCorrect, LocksOfHandlers, PTL DEF Spec

-----------------------------------------------------------------------------
(* One active incident of a key.                                           *)

\* Which steps write an incident.
LEMMA IncidentSteps ==
  ASSUME [Next]_vars
  PROVE  \/ incidents' = incidents
         \/ \E i \in Instances : R!CommitOpened(i) \/ R!CommitCounted(i)
         \/ \E r \in Requests : R!ApplyAction(r)
<1>1. ASSUME NEW i \in Instances,
             \/ QueueStep(i) \/ SkipCorrelation(i) \/ CannotBegin(i)
             \/ Crash(i) \/ CorrelationFails(i) \/ BeginCorrelation(i)
      PROVE  incidents' = incidents
  BY <1>1 DEF QueueStep, SkipCorrelation, CannotBegin, Crash, CorrelationFails,
              BeginCorrelation, R!AbortCorrelation, R!OpenConflict, R!SelectActive,
              R!SelectNone, incidentVars
<1>2. ASSUME NEW m \in Messages, EnvironmentStep(m) PROVE incidents' = incidents
  BY <1>2 DEF EnvironmentStep, incidentVars
<1>3. ASSUME NEW r \in Requests, OperatorStep(r)
      PROVE  incidents' = incidents \/ R!ApplyAction(r)
  BY <1>3 DEF OperatorStep, R!Operate, R!CheckAction, R!RefuseAction
<1>4. CASE UNCHANGED vars
  BY <1>4 DEF vars, incidentVars
<1> QED
  BY <1>1, <1>2, <1>3, <1>4, Steps DEF CommitCorrelation, CommitUnacknowledged

\* An incident becomes active for a key only by being opened where none is.
LEMMA ActiveSteps ==
  ASSUME TypeOK, KeysFit, [Next]_vars, NEW k \in Keys
  PROVE  \/ \A n \in Ids : R!ActiveFor(k, n)' => R!ActiveFor(k, n)
         \/ /\ \A n \in Ids : ~R!ActiveFor(k, n)
            /\ \E id \in Ids : \A n \in Ids : R!ActiveFor(k, n)' => n = id
<1> USE DEF R!ActiveFor, R!Exists
<1>1. ASSUME NEW i \in Instances, R!CommitOpened(i)
      PROVE  \/ \A n \in Ids : R!ActiveFor(k, n)' => R!ActiveFor(k, n)
             \/ /\ \A n \in Ids : ~R!ActiveFor(k, n)
                /\ \E id \in Ids : \A n \in Ids : R!ActiveFor(k, n)' => n = id
  <2>1. PICK id \in Ids :
          incidents' = [incidents EXCEPT ![id] =
            [key |-> job[i].key, status |-> "OPEN", failureCount |-> 1,
             firstOccurred |-> job[i].at, lastOccurred |-> job[i].at]]
    BY <1>1 DEF R!CommitOpened
  <2>2. /\ \A n \in Ids \ {id} : incidents'[n] = incidents[n]
        /\ incidents'[id].key = job[i].key
    BY <2>1 DEF KeysFit
  <2>3. CASE job[i].key = k
    BY <1>1, <2>2, <2>3 DEF R!CommitOpened, R!NoActive
  <2>4. CASE job[i].key # k
    BY <2>2, <2>4
  <2> QED
    BY <2>3, <2>4
<1>2. ASSUME NEW i \in Instances, R!CommitCounted(i)
      PROVE  \A n \in Ids : R!ActiveFor(k, n)' => R!ActiveFor(k, n)
  <2> DEFINE id == job[i].id
             row == R!Counted(incidents[id], job[i].at)
  <2>1. /\ id \in Ids /\ job[i].at \in Times /\ incidents[id] # Null
        /\ incidents' = [incidents EXCEPT ![id] = row]
    BY <1>2 DEF R!CommitCounted, TypeOK, R!Correlation, KeysFit
  <2>2. row.key = incidents[id].key /\ row.status = incidents[id].status
    BY <2>1, CountedRow DEF KeysFit
  <2>3. incidents'[id] = row /\ \A n \in Ids \ {id} : incidents'[n] = incidents[n]
    BY <2>1 DEF KeysFit
  <2> QED
    BY <2>1, <2>2, <2>3
<1>3. ASSUME NEW r \in Requests, R!ApplyAction(r)
      PROVE  \A n \in Ids : R!ActiveFor(k, n)' => R!ActiveFor(k, n)
  <2> DEFINE id == request[r].id
             a == request[r].action
             status == R!NewStatus(incidents[id].status, a)
             row == [incidents[id] EXCEPT !.status = status]
  <2>1. /\ id \in Ids /\ incidents[id] # Null /\ incidents[id] \in R!Incident
        /\ R!WhereStatus(incidents[id].status, a)
        /\ incidents' = [incidents EXCEPT ![id] = row]
    BY <1>3 DEF R!ApplyAction, KeysFit
  <2>2. status \in {"OPEN", "ACKNOWLEDGED"}
          => incidents[id].status \in {"OPEN", "ACKNOWLEDGED"}
    BY <2>1 DEF R!NewStatus, R!WhereStatus
  <2> HIDE DEF status
  <2>3. row.key = incidents[id].key /\ row.status = status
    BY <2>1 DEF R!Incident
  <2>4. incidents'[id] = row /\ \A n \in Ids \ {id} : incidents'[n] = incidents[n]
    BY <2>1 DEF KeysFit
  <2> QED
    BY <2>1, <2>2, <2>3, <2>4
<1>4. CASE incidents' = incidents
  BY <1>4
<1> QED
  BY <1>1, <1>2, <1>3, <1>4, IncidentSteps

\* Repeated failures of a key gather in one incident, for any number of workers
\* that overlap on a row, lose answers or die: what becomes active is opened where
\* the index finds nothing active, whatever the worker's select had found.
THEOREM OneActiveInPipeline == Spec => []OneActiveIncident
<1>1. Init => KeysFit /\ OneActiveIncident
  BY InitSums DEF Init, R!Init, OneActiveIncident, R!OneActivePerKey, R!ActiveFor, R!Exists
<1>2. TypeOK /\ KeysFit /\ OneActiveIncident /\ [Next]_vars => OneActiveIncident'
  <2> SUFFICES ASSUME TypeOK, KeysFit, OneActiveIncident, [Next]_vars, NEW k \in Keys,
                      NEW i \in Ids, NEW j \in Ids,
                      R!ActiveFor(k, i)', R!ActiveFor(k, j)'
               PROVE  i = j
    BY DEF OneActiveIncident, R!OneActivePerKey
  <2> QED
    BY ActiveSteps DEF OneActiveIncident, R!OneActivePerKey
<1>3. TypeOK /\ LocksBelongToHandlers /\ KeysFit /\ [Next]_vars => KeysFit'
  BY KeysFitKept
<1> QED
  BY <1>1, <1>2, <1>3, TypeCorrect, LocksOfHandlers, PTL DEF Spec
=============================================================================
