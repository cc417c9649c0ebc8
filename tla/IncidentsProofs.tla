-------------------------- MODULE IncidentsProofs --------------------------
(***************************************************************************)
(* Theorems about Incidents and Evidence, for every set of keys, incidents,*)
(* workers, requests, times and auditors.                                  *)
(***************************************************************************)
EXTENDS Evidence, FiniteSetTheorems, SequenceTheorems, TLAPS

\* A worker that has selected an incident holds its row, and the incident is
\* active: no operator's transaction can have passed the lock in between.
SelectedIsLocked ==
  \A w \in Correlators :
    job[w] # Null /\ job[w].id # Null =>
      /\ rowLock[job[w].id] = w
      /\ ActiveFor(job[w].key, job[w].id)

\* An operator acts on incidents that exist: none is ever deleted.
RequestedExists ==
  \A r \in Requests : request[r] # Null => Exists(request[r].id)

IInv == TypeOK /\ OneActivePerKey /\ SelectedIsLocked /\ RequestedExists

-----------------------------------------------------------------------------
(* Helpers.                                                                *)

\* The end of a correlation leaves well-typed jobs and locks, and those of the
\* other workers as they were.
LEMMA EndsWell ==
  ASSUME TypeOK, NEW w \in Correlators, EndCorrelation(w)
  PROVE  /\ rowLock' \in [Ids -> Correlators \cup {Null}]
         /\ job' \in [Correlators -> Correlation \cup {Null}]
         /\ job'[w] = Null
         /\ \A v \in Correlators \ {w} :
              /\ job'[v] = job[v]
              /\ \A id \in Ids : rowLock[id] = v => rowLock'[id] = v
  BY DEF TypeOK, EndCorrelation

\* A history grows by known events.
LEMMA RecordsWell ==
  ASSUME TypeOK, NEW id \in Ids, NEW e \in Events, Record(id, e)
  PROVE  history' \in [Ids -> Seq(Events)]
  BY DEF TypeOK, Record

\* Counting leaves the key and the status alone.
LEMMA CountsWell ==
  ASSUME NEW row \in Incident, NEW t \in Times
  PROVE  /\ Counted(row, t) \in Incident
         /\ Counted(row, t).key = row.key
         /\ Counted(row, t).status = row.status
         /\ Counted(row, t).failureCount = row.failureCount + 1
<1> DEFINE late == Later(row.lastOccurred, t)
<1>1. late \in Times
  BY DEF Later, Incident
<1>2. row.failureCount + 1 \in Nat \ {0}
  BY DEF Incident
<1> HIDE DEF late
<1>3. Counted(row, t) = [row EXCEPT !.failureCount = @ + 1, !.lastOccurred = late]
  BY DEF Counted, late
<1> QED
  BY <1>1, <1>2, <1>3 DEF Incident

-----------------------------------------------------------------------------
(* The invariant.                                                          *)

\* It holds at first.
LEMMA InvInit == Init => IInv
  BY DEF Init, IInv, TypeOK, OneActivePerKey, ActiveFor, Exists, SelectedIsLocked,
              RequestedExists

\* Selecting changes no incident, and takes a lock that is free.
LEMMA InvSelectActive ==
  ASSUME IInv, NEW w \in Correlators, NEW k \in Keys, NEW t \in Times,
         SelectActive(w, k, t)
  PROVE  IInv'
<1>1. PICK id \in Ids :
        /\ ActiveFor(k, id)
        /\ rowLock[id] = Null
        /\ rowLock' = [rowLock EXCEPT ![id] = w]
        /\ job' = [job EXCEPT ![w] = [key |-> k, at |-> t, id |-> id]]
  BY DEF SelectActive, LockRow
<1>2. UNCHANGED <<incidents, history, request, absorbed>>
  BY DEF SelectActive
<1>3. TypeOK'
  BY <1>1, <1>2 DEF IInv, TypeOK, Correlation
<1>4. OneActivePerKey'
  BY <1>2 DEF IInv, OneActivePerKey, ActiveFor, Exists
<1>5. SelectedIsLocked'
  <2> SUFFICES ASSUME NEW v \in Correlators, job'[v] # Null, job'[v].id # Null
               PROVE  /\ rowLock'[job'[v].id] = v
                      /\ ActiveFor(job[v].key, job[v].id)'
    BY DEF SelectedIsLocked
  <2>1. CASE v = w
    BY <1>1, <1>2, <2>1 DEF IInv, TypeOK, ActiveFor, Exists
  <2>2. CASE v # w
    <3>1. job'[v] = job[v]
      BY <1>1, <2>2 DEF IInv, TypeOK
    <3>2. /\ rowLock[job[v].id] = v
          /\ ActiveFor(job[v].key, job[v].id)
          /\ job[v].id \in Ids
      BY <3>1 DEF IInv, SelectedIsLocked, TypeOK, Correlation
    <3>3. job[v].id # id
      BY <1>1, <3>2, IncidentsAssumption
    <3> QED
      BY <1>1, <1>2, <3>1, <3>2, <3>3 DEF IInv, TypeOK, ActiveFor, Exists
  <2> QED
    BY <2>1, <2>2
<1>6. RequestedExists'
  BY <1>2 DEF IInv, RequestedExists, Exists
<1> QED
  BY <1>3, <1>4, <1>5, <1>6 DEF IInv

\* Finding nothing locks nothing.
LEMMA InvSelectNone ==
  ASSUME IInv, NEW w \in Correlators, NEW k \in Keys, NEW t \in Times,
         SelectNone(w, k, t)
  PROVE  IInv'
<1>1. TypeOK'
  BY DEF IInv, TypeOK, SelectNone, Correlation
<1>2. OneActivePerKey'
  BY DEF IInv, OneActivePerKey, ActiveFor, Exists, SelectNone
<1>3. SelectedIsLocked'
  BY DEF IInv, TypeOK, SelectedIsLocked, ActiveFor, Exists, SelectNone
<1>4. RequestedExists'
  BY DEF IInv, RequestedExists, Exists, SelectNone
<1> QED
  BY <1>1, <1>2, <1>3, <1>4 DEF IInv

\* A correlation that ends without a write.
LEMMA InvAbort ==
  ASSUME IInv, NEW w \in Correlators, EndCorrelation(w),
         UNCHANGED <<incidents, history, request, absorbed>>
  PROVE  IInv'
<1>1. TypeOK'
  BY EndsWell DEF IInv, TypeOK
<1>2. OneActivePerKey'
  BY DEF IInv, OneActivePerKey, ActiveFor, Exists
<1>3. SelectedIsLocked'
  <2> SUFFICES ASSUME NEW v \in Correlators, job'[v] # Null, job'[v].id # Null
               PROVE  /\ rowLock'[job'[v].id] = v
                      /\ ActiveFor(job[v].key, job[v].id)'
    BY DEF SelectedIsLocked
  <2>1. v # w /\ job'[v] = job[v] /\ job[v].id \in Ids
    BY EndsWell DEF IInv, TypeOK, Correlation
  <2>2. rowLock[job[v].id] = v /\ ActiveFor(job[v].key, job[v].id)
    BY <2>1 DEF IInv, SelectedIsLocked
  <2> QED
    BY <2>1, <2>2, EndsWell DEF IInv, ActiveFor, Exists
<1>4. RequestedExists'
  BY DEF IInv, RequestedExists, Exists
<1> QED
  BY <1>1, <1>2, <1>3, <1>4 DEF IInv

\* An incident is opened only where the index finds no active one of its key.
LEMMA InvCommitOpened ==
  ASSUME IInv, NEW w \in Correlators, CommitOpened(w)
  PROVE  IInv'
<1>1. job[w] \in Correlation /\ NoActive(job[w].key) /\ EndCorrelation(w)
  BY DEF CommitOpened, IInv, TypeOK
<1> DEFINE row == [key |-> job[w].key, status |-> "OPEN", failureCount |-> 1,
                   firstOccurred |-> job[w].at, lastOccurred |-> job[w].at]
<1>2. PICK id \in Ids :
        /\ ~Exists(id)
        /\ incidents' = [incidents EXCEPT ![id] = row]
        /\ Record(id, "OPENED")
        /\ absorbed' = [absorbed EXCEPT ![id] = {job[w].at}]
  BY DEF CommitOpened
<1>3. row \in Incident
  BY <1>1 DEF Incident, Correlation, Status
<1>4. TypeOK'
  <2>1. history' \in [Ids -> Seq(Events)]
    BY <1>2, RecordsWell DEF Events, IInv
  <2>2. absorbed' \in [Ids -> SUBSET Times]
    BY <1>1, <1>2 DEF IInv, TypeOK, Correlation
  <2>3. incidents' \in [Ids -> Incident \cup {Null}]
    BY <1>2, <1>3 DEF IInv, TypeOK
  <2>4. request' = request
    BY DEF CommitOpened
  <2> QED
    BY <1>1, <2>1, <2>2, <2>3, <2>4, EndsWell DEF IInv, TypeOK
<1>5. \A i \in Ids \ {id} : incidents'[i] = incidents[i]
  BY <1>2 DEF IInv, TypeOK
<1>6. incidents'[id] = row
  BY <1>2 DEF IInv, TypeOK
<1>7. OneActivePerKey'
  <2> SUFFICES ASSUME NEW k \in Keys, NEW i \in Ids, NEW j \in Ids,
                      ActiveFor(k, i)', ActiveFor(k, j)'
               PROVE  i = j
    BY DEF OneActivePerKey
  <2>1. \A n \in Ids \ {id} : ActiveFor(k, n)' => ActiveFor(k, n)
    BY <1>5 DEF ActiveFor, Exists
  <2>2. ActiveFor(k, id)' => \A n \in Ids : ~ActiveFor(k, n)
    BY <1>1, <1>6 DEF ActiveFor, NoActive
  <2> QED
    BY <2>1, <2>2 DEF IInv, OneActivePerKey
<1>8. SelectedIsLocked'
  <2> SUFFICES ASSUME NEW v \in Correlators, job'[v] # Null, job'[v].id # Null
               PROVE  /\ rowLock'[job'[v].id] = v
                      /\ ActiveFor(job[v].key, job[v].id)'
    BY DEF SelectedIsLocked
  <2>1. v # w /\ job'[v] = job[v] /\ job[v].id \in Ids
    BY <1>1, EndsWell DEF IInv, TypeOK, Correlation
  <2>2. rowLock[job[v].id] = v /\ ActiveFor(job[v].key, job[v].id)
    BY <2>1 DEF IInv, SelectedIsLocked
  <2>3. job[v].id # id
    BY <1>2, <2>2 DEF ActiveFor
  <2> QED
    BY <1>1, <1>5, <2>1, <2>2, <2>3, EndsWell DEF IInv, ActiveFor, Exists
<1>9. RequestedExists'
  BY <1>3, <1>5, <1>6, NullAssumption DEF IInv, TypeOK, RequestedExists, Exists, CommitOpened
<1> QED
  BY <1>4, <1>7, <1>8, <1>9 DEF IInv

\* Counting keeps the key and the status of the incident, which nobody else has
\* selected.
LEMMA InvCommitCounted ==
  ASSUME IInv, NEW w \in Correlators, CommitCounted(w)
  PROVE  /\ IInv'
         /\ \A i \in Ids : Exists(i) /\ incidents[i].status \in {"RESOLVED", "CLOSED"}
                             => incidents'[i] = incidents[i]
<1> DEFINE id == job[w].id
<1>1. job[w] \in Correlation /\ id \in Ids /\ EndCorrelation(w) /\ job[w] # Null
  BY DEF CommitCounted, IInv, TypeOK, Correlation
<1>2. ActiveFor(job[w].key, id)
  BY <1>1 DEF CommitCounted, IInv, SelectedIsLocked
<1>3. incidents[id] \in Incident
  BY <1>1, <1>2 DEF ActiveFor, Exists, IInv, TypeOK
<1> DEFINE row == Counted(incidents[id], job[w].at)
<1>4. /\ row \in Incident
      /\ row.key = incidents[id].key
      /\ row.status = incidents[id].status
  BY <1>1, <1>3, CountsWell DEF Correlation
<1>5. /\ incidents' = [incidents EXCEPT ![id] = row]
      /\ Record(id, "FAILURE_CORRELATED")
      /\ absorbed' = [absorbed EXCEPT ![id] = @ \cup {job[w].at}]
      /\ request' = request
  BY DEF CommitCounted
<1>6. /\ incidents'[id] = row
      /\ \A i \in Ids \ {id} : incidents'[i] = incidents[i]
  BY <1>1, <1>5 DEF IInv, TypeOK
<1>7. TypeOK'
  <2>1. history' \in [Ids -> Seq(Events)]
    BY <1>1, <1>5, RecordsWell DEF Events, IInv
  <2>2. absorbed' \in [Ids -> SUBSET Times]
    BY <1>1, <1>5 DEF IInv, TypeOK, Correlation
  <2>3. incidents' \in [Ids -> Incident \cup {Null}]
    BY <1>4, <1>5 DEF IInv, TypeOK
  <2> QED
    BY <1>1, <1>5, <2>1, <2>2, <2>3, EndsWell DEF IInv, TypeOK
<1>8. \A k \in Keys, i \in Ids : ActiveFor(k, i)' <=> ActiveFor(k, i)
  BY <1>2, <1>4, <1>6, NullAssumption DEF ActiveFor, Exists
<1>9. OneActivePerKey'
  BY <1>8 DEF IInv, OneActivePerKey
<1>10. SelectedIsLocked'
  <2> SUFFICES ASSUME NEW v \in Correlators, job'[v] # Null, job'[v].id # Null
               PROVE  /\ rowLock'[job'[v].id] = v
                      /\ ActiveFor(job[v].key, job[v].id)'
    BY DEF SelectedIsLocked
  <2>1. v # w /\ job'[v] = job[v] /\ job[v].id \in Ids /\ job[v].key \in Keys
    BY <1>1, EndsWell DEF IInv, TypeOK, Correlation
  <2>2. rowLock[job[v].id] = v /\ ActiveFor(job[v].key, job[v].id)
    BY <2>1 DEF IInv, SelectedIsLocked
  <2> QED
    BY <1>1, <1>8, <2>1, <2>2, EndsWell DEF IInv, ActiveFor, Exists
<1>11. \A i \in Ids : Exists(i) /\ incidents[i].status \in {"RESOLVED", "CLOSED"}
                        => incidents'[i] = incidents[i]
  BY <1>2, <1>6 DEF ActiveFor
<1>12. RequestedExists'
  BY <1>4, <1>5, <1>6, NullAssumption DEF IInv, TypeOK, RequestedExists, Exists
<1> QED
  BY <1>7, <1>9, <1>10, <1>11, <1>12 DEF IInv

\* Nothing of a worker that has selected an incident is touched by an operator:
\* the operator's update waits for the row.
LEMMA InvApplyAction ==
  ASSUME IInv, NEW r \in Requests, ApplyAction(r)
  PROVE  /\ IInv'
         /\ \A i \in Ids : Exists(i) /\ incidents[i].status \in {"RESOLVED", "CLOSED"}
                  => /\ incidents'[i].failureCount = incidents[i].failureCount
                     /\ incidents'[i].status \in {"RESOLVED", "CLOSED"}
<1> DEFINE id == request[r].id
           a == request[r].action
           status == NewStatus(incidents[id].status, a)
<1>1. id \in Ids /\ a \in Actions
  BY DEF ApplyAction, IInv, TypeOK
<1>2. /\ rowLock[id] = Null
      /\ WhereStatus(incidents[id].status, a)
      /\ incidents' = [incidents EXCEPT ![id].status = status]
      /\ Record(id, EventType[a])
      /\ EndRequest(r)
      /\ UNCHANGED <<rowLock, job, absorbed>>
  BY DEF ApplyAction
<1>3. incidents[id] \in Incident
  BY <1>1 DEF ApplyAction, IInv, RequestedExists, Exists, TypeOK
<1>4. /\ status \in Status
      /\ status \in {"OPEN", "ACKNOWLEDGED"}
           => incidents[id].status \in {"OPEN", "ACKNOWLEDGED"}
      /\ incidents[id].status \in {"RESOLVED", "CLOSED"}
           => status \in {"RESOLVED", "CLOSED"}
  BY <1>1, <1>2, <1>3 DEF NewStatus, WhereStatus, Status, Actions, Incident
<1> HIDE DEF status
<1> DEFINE row == [incidents[id] EXCEPT !.status = status]
<1>5. /\ row \in Incident
      /\ row.key = incidents[id].key
      /\ row.status = status
      /\ row.failureCount = incidents[id].failureCount
  BY <1>3, <1>4 DEF Incident
<1>6. /\ incidents'[id] = row
      /\ \A i \in Ids \ {id} : incidents'[i] = incidents[i]
  BY <1>1, <1>2 DEF IInv, TypeOK
<1> HIDE DEF row
<1>7. TypeOK'
  <2>1. EventType[a] \in Events
    BY <1>1 DEF Events
  <2>2. history' \in [Ids -> Seq(Events)]
    BY <1>1, <1>2, <2>1, RecordsWell DEF IInv
  <2>3. incidents' \in [Ids -> Incident \cup {Null}]
    BY <1>2, <1>5 DEF IInv, TypeOK, row
  <2>4. request' \in [Requests -> [id : Ids, action : Actions] \cup {Null}]
    BY <1>2 DEF EndRequest, IInv, TypeOK
  <2> QED
    BY <1>2, <2>2, <2>3, <2>4 DEF IInv, TypeOK
<1>8. \A k \in Keys, i \in Ids : ActiveFor(k, i)' => ActiveFor(k, i)
  BY <1>3, <1>4, <1>5, <1>6, NullAssumption DEF ActiveFor, Exists
<1>9. OneActivePerKey'
  BY <1>8 DEF IInv, OneActivePerKey
<1>10. SelectedIsLocked'
  <2> SUFFICES ASSUME NEW v \in Correlators, job[v] # Null, job[v].id # Null
               PROVE  /\ rowLock[job[v].id] = v
                      /\ ActiveFor(job[v].key, job[v].id)'
    BY <1>2 DEF SelectedIsLocked
  <2>1. rowLock[job[v].id] = v /\ ActiveFor(job[v].key, job[v].id) /\ job[v].id \in Ids
    BY DEF IInv, SelectedIsLocked, TypeOK, Correlation
  <2>2. job[v].id # id
    BY <1>2, <2>1, IncidentsAssumption
  <2> QED
    BY <1>2, <1>6, <2>1, <2>2 DEF ActiveFor, Exists
<1>11. RequestedExists'
  <2> SUFFICES ASSUME NEW q \in Requests, request'[q] # Null
               PROVE  incidents'[request'[q].id] # Null
    BY DEF RequestedExists, Exists
  <2>1. request'[q] = request[q]
    BY <1>2 DEF EndRequest, IInv, TypeOK
  <2>2. request[q].id \in Ids /\ incidents[request[q].id] # Null
    BY <2>1 DEF IInv, TypeOK, RequestedExists, Exists
  <2> QED
    BY <1>5, <1>6, <2>1, <2>2, NullAssumption
<1>12. \A i \in Ids : Exists(i) /\ incidents[i].status \in {"RESOLVED", "CLOSED"}
         => /\ incidents'[i].failureCount = incidents[i].failureCount
            /\ incidents'[i].status \in {"RESOLVED", "CLOSED"}
  BY <1>4, <1>5, <1>6
<1> QED
  BY <1>7, <1>9, <1>10, <1>11, <1>12 DEF IInv

\* A request that is checked or ends without a write.
LEMMA InvRequest ==
  ASSUME IInv, NEW r \in Requests,
         RefuseAction(r) \/ \E id \in Ids, a \in Actions : CheckAction(r, id, a)
  PROVE  IInv'
<1>1. UNCHANGED <<incidents, history, rowLock, job, absorbed>>
  BY DEF RefuseAction, CheckAction
<1>2. TypeOK'
  BY <1>1 DEF IInv, TypeOK, RefuseAction, EndRequest, CheckAction
<1>3. OneActivePerKey' /\ SelectedIsLocked'
  BY <1>1 DEF IInv, OneActivePerKey, SelectedIsLocked, ActiveFor, Exists
<1>4. RequestedExists'
  <2> SUFFICES ASSUME NEW q \in Requests, request'[q] # Null
               PROVE  incidents[request'[q].id] # Null
    BY <1>1 DEF RequestedExists, Exists
  <2>1. CASE request'[q] = request[q]
    BY <2>1 DEF IInv, RequestedExists, Exists
  <2>2. CASE q = r /\ \E id \in Ids, a \in Actions : CheckAction(r, id, a)
    BY <2>2 DEF CheckAction, Exists, IInv, TypeOK
  <2>3. request'[q] = request[q] \/ (q = r /\ ~RefuseAction(r))
    BY DEF RefuseAction, EndRequest, CheckAction, IInv, TypeOK
  <2> QED
    BY <2>1, <2>2, <2>3
<1> QED
  BY <1>2, <1>3, <1>4 DEF IInv

\* One step of a worker.  Nothing but CommitCounted changes an existing incident.
LEMMA InvCorrelate ==
  ASSUME IInv, NEW w \in Correlators, Correlate(w)
  PROVE  /\ IInv'
         /\ \A i \in Ids : Exists(i) /\ incidents[i].status \in {"RESOLVED", "CLOSED"}
                             => incidents'[i] = incidents[i]
<1>1. CASE \E k \in Keys, t \in Times : SelectActive(w, k, t)
  BY <1>1, InvSelectActive DEF SelectActive
<1>2. CASE \E k \in Keys, t \in Times : SelectNone(w, k, t)
  BY <1>2, InvSelectNone DEF SelectNone
<1>3. CASE CommitOpened(w)
  BY <1>3, InvCommitOpened DEF CommitOpened, Exists, IInv, TypeOK
<1>4. CASE OpenConflict(w) \/ AbortCorrelation(w)
  BY <1>4, InvAbort DEF OpenConflict, AbortCorrelation
<1>5. CASE CommitCounted(w)
  BY <1>5, InvCommitCounted
<1> QED
  BY <1>1, <1>2, <1>3, <1>4, <1>5 DEF Correlate

\* One step of an operator.
LEMMA InvOperate ==
  ASSUME IInv, NEW r \in Requests, Operate(r)
  PROVE  /\ IInv'
         /\ \A i \in Ids : Exists(i) /\ incidents[i].status \in {"RESOLVED", "CLOSED"}
                  => /\ incidents'[i].failureCount = incidents[i].failureCount
                     /\ incidents'[i].status \in {"RESOLVED", "CLOSED"}
<1>1. CASE ApplyAction(r)
  BY <1>1, InvApplyAction
<1>2. CASE RefuseAction(r) \/ \E id \in Ids, a \in Actions : CheckAction(r, id, a)
  BY <1>2, InvRequest DEF RefuseAction, CheckAction
<1> QED
  BY <1>1, <1>2 DEF Operate

\* Every step keeps the invariant.
LEMMA InvNext ==
  ASSUME IInv, [Next]_vars
  PROVE  IInv'
<1>1. CASE Next
  BY <1>1, InvCorrelate, InvOperate DEF Next
<1>2. CASE UNCHANGED vars
  BY <1>2 DEF vars, IInv, TypeOK, OneActivePerKey, SelectedIsLocked, RequestedExists,
              ActiveFor, Exists
<1> QED
  BY <1>1, <1>2

\* The invariant holds of every behaviour.
THEOREM Invariant == Spec => []IInv
  BY InvInit, InvNext, PTL DEF Spec

-----------------------------------------------------------------------------
(* What it gives.                                                          *)

\* Type correctness of rows, histories, locks and requests.
THEOREM TypeCorrect == Spec => []TypeOK
<1>1. IInv => TypeOK
  BY DEF IInv
<1> QED
  BY <1>1, Invariant, PTL

\* Two incidents of one key are never active, although two workers may both have
\* found none: status changes never make one active again.
THEOREM OneActive == Spec => []OneActivePerKey
<1>1. IInv => OneActivePerKey
  BY DEF IInv
<1> QED
  BY <1>1, Invariant, PTL

\* A resolved incident stops counting: a worker that is about to count holds the
\* lock of an active incident, so no resolution comes between its two steps.
THEOREM ResolvedStops == Spec => ResolvedStopsCounting
<1> DEFINE Stops ==
      \A id \in Ids :
        Exists(id) /\ incidents[id].status \in {"RESOLVED", "CLOSED"} =>
          /\ incidents'[id].failureCount = incidents[id].failureCount
          /\ incidents'[id].status \in {"RESOLVED", "CLOSED"}
<1>1. IInv /\ [Next]_vars => Stops
  <2> SUFFICES ASSUME IInv, [Next]_vars PROVE Stops
    OBVIOUS
  <2>1. CASE \E w \in Correlators : Correlate(w)
    BY <2>1, InvCorrelate
  <2>2. CASE \E r \in Requests : Operate(r)
    BY <2>2, InvOperate
  <2>3. CASE UNCHANGED vars
    BY <2>3 DEF vars
  <2> QED
    BY <2>1, <2>2, <2>3 DEF Next
<1>2. Stops => [Stops]_vars
  OBVIOUS
<1> QED
  BY <1>1, <1>2, Invariant, PTL DEF Spec, ResolvedStopsCounting

-----------------------------------------------------------------------------
(* What the rows say of the past.                                          *)

\* Incidents, histories and times are written by three actions only.
LEMMA Writers ==
  ASSUME [Next]_vars
  PROVE  \/ UNCHANGED <<incidents, history, absorbed>>
         \/ \E w \in Correlators : CommitOpened(w) \/ CommitCounted(w)
         \/ \E r \in Requests : ApplyAction(r)
  BY DEF Next, Correlate, Operate, vars, SelectActive, SelectNone, OpenConflict,
         AbortCorrelation, CheckAction, RefuseAction

\* last_occurred_at is a time that was counted and no earlier than any other,
\* whatever the order in which the failures were processed.
THEOREM LatestOccurrence == Spec => []LastOccurredIsLatest
<1>1. Init => LastOccurredIsLatest
  BY DEF Init, LastOccurredIsLatest, Exists
<1>2. IInv /\ LastOccurredIsLatest /\ [Next]_vars => LastOccurredIsLatest'
  <2> SUFFICES ASSUME IInv, LastOccurredIsLatest, [Next]_vars,
                      NEW id \in Ids, incidents'[id] # Null
               PROVE  /\ incidents'[id].lastOccurred \in absorbed'[id]
                      /\ \A t \in absorbed'[id] : t <= incidents'[id].lastOccurred
    BY DEF LastOccurredIsLatest, Exists
  <2> DEFINE Untouched == incidents'[id] = incidents[id] /\ absorbed'[id] = absorbed[id]
  <2>1. CASE Untouched
    BY <2>1 DEF LastOccurredIsLatest, Exists
  <2>2. ASSUME NEW w \in Correlators, CommitOpened(w), ~Untouched
        PROVE  /\ job[w].at \in Int
               /\ incidents'[id].lastOccurred = job[w].at
               /\ absorbed'[id] = {job[w].at}
    <3>1. PICK new \in Ids :
            /\ incidents' = [incidents EXCEPT ![new] =
                 [key |-> job[w].key, status |-> "OPEN", failureCount |-> 1,
                  firstOccurred |-> job[w].at, lastOccurred |-> job[w].at]]
            /\ absorbed' = [absorbed EXCEPT ![new] = {job[w].at}]
      BY <2>2 DEF CommitOpened
    <3>2. job[w] \in Correlation
      BY <2>2 DEF CommitOpened, IInv, TypeOK
    <3>3. new = id
      BY <2>2, <3>1
    <3> QED
      BY <3>1, <3>2, <3>3, IncidentsAssumption DEF IInv, TypeOK, Correlation
  <2>3. ASSUME NEW w \in Correlators, CommitCounted(w), ~Untouched
        PROVE  /\ Exists(id) /\ job[w].at \in Times
               /\ incidents'[id] = Counted(incidents[id], job[w].at)
               /\ absorbed'[id] = absorbed[id] \cup {job[w].at}
    <3>1. Exists(job[w].id) /\ job[w] \in Correlation
      BY <2>3 DEF CommitCounted, IInv, SelectedIsLocked, ActiveFor, TypeOK
    <3> QED
      BY <2>3, <3>1 DEF CommitCounted, IInv, TypeOK, Correlation
  <2>4. ASSUME NEW w \in Correlators, CommitCounted(w), ~Untouched
        PROVE  incidents'[id].lastOccurred = Later(incidents[id].lastOccurred, job[w].at)
    BY <2>3, <2>4 DEF Counted, IInv, TypeOK, Exists, Incident
  <2>5. ASSUME NEW r \in Requests, ApplyAction(r)
        PROVE  /\ absorbed' = absorbed
               /\ Exists(id) /\ incidents'[id].lastOccurred = incidents[id].lastOccurred
    BY <2>5 DEF ApplyAction, IInv, RequestedExists, TypeOK, Exists, Incident
  <2>6. absorbed[id] \subseteq Int /\ (Exists(id) => incidents[id].lastOccurred \in Int)
    BY IncidentsAssumption DEF IInv, TypeOK, Exists, Incident
  <2>7. CASE \E w \in Correlators : CommitOpened(w)
    BY <2>1, <2>2, <2>7
  <2>8. CASE \E w \in Correlators : CommitCounted(w)
    <3>1. PICK w \in Correlators : CommitCounted(w)
      BY <2>8
    <3>2. CASE ~Untouched
      <4> DEFINE last == incidents[id].lastOccurred
                 at == job[w].at
      <4>1. /\ last \in Int /\ at \in Int /\ absorbed[id] \subseteq Int
            /\ last \in absorbed[id] /\ \A t \in absorbed[id] : t <= last
            /\ absorbed'[id] = absorbed[id] \cup {at}
            /\ incidents'[id].lastOccurred = IF last >= at THEN last ELSE at
        BY <2>3, <2>4, <2>6, <3>1, <3>2, IncidentsAssumption DEF LastOccurredIsLatest, Later
      <4> HIDE DEF last, at
      <4> QED
        BY <4>1
    <3> QED
      BY <2>1, <3>2
  <2>9. CASE \E r \in Requests : ApplyAction(r)
    BY <2>5, <2>9 DEF LastOccurredIsLatest
  <2> QED
    BY <2>1, <2>7, <2>8, <2>9, Writers
<1> QED
  BY <1>1, <1>2, Invariant, PTL DEF Spec

\* A history after one more event.
LEMMA Appended ==
  ASSUME NEW h \in Seq(Events), NEW e \in Events
  PROVE  /\ Append(h, e) \in Seq(Events)
         /\ Len(h) \in Nat /\ Len(Append(h, e)) = Len(h) + 1
         /\ DOMAIN h = 1..Len(h) /\ DOMAIN Append(h, e) = 1..(Len(h) + 1)
         /\ \A n \in 1..Len(h) : Append(h, e)[n] = h[n]
         /\ Append(h, e)[Len(h) + 1] = e
         /\ \A f : (\E n \in DOMAIN Append(h, e) : Append(h, e)[n] = f)
                     <=> (f = e \/ \E n \in DOMAIN h : h[n] = f)
  OBVIOUS

\* What was in a history stays its beginning.
LEMMA Prefixes ==
  ASSUME NEW h \in Seq(Events), NEW e \in Events, NEW k \in 0..Len(h)
  PROVE  SubSeq(Append(h, e), 1, k) = SubSeq(h, 1, k)
<1> DEFINE s == SubSeq(Append(h, e), 1, k)
           t == SubSeq(h, 1, k)
<1>1. /\ Len(h) \in Nat /\ k \in Nat /\ k <= Len(h)
      /\ \A n \in 1..k : Append(h, e)[n] \in Events /\ h[n] \in Events
      /\ \A n \in 1..k : Append(h, e)[n] = h[n]
  BY Appended
<1>2. /\ t \in Seq(Events) /\ Len(t) = k
      /\ \A n \in 1..k : t[n] = h[n]
  BY <1>1, SubSeqProperties
<1>3. /\ s \in Seq(Events) /\ Len(s) = k
      /\ \A n \in 1..k : s[n] = Append(h, e)[n]
  BY <1>1, SubSeqProperties
<1> HIDE DEF s, t
<1>4. s = t
  BY <1>1, <1>2, <1>3, SeqEqual
<1> QED
  BY <1>4 DEF s, t

\* What HistoryReplays says of a row's status and its history.
Replays(status, h) ==
  /\ status = StatusShown(h)
  /\ \A n \in DOMAIN h : (h[n] = "OPENED") <=> (n = 1)
  /\ \A n \in DOMAIN h :
       h[n] = "RESOLVED" => /\ Len(h) <= n + 1
                            /\ n < Len(h) => h[n + 1] = "CLOSED"

\* The events that may follow in a status, and the status they lead to.
Follows(status, e, next) ==
  \/ /\ e \in {"FAILURE_CORRELATED", "ASSIGNED", "RECOVERY_RECORDED"}
     /\ status \in {"OPEN", "ACKNOWLEDGED"} /\ next = status
  \/ e = "ACKNOWLEDGED" /\ status = "OPEN" /\ next = "ACKNOWLEDGED"
  \/ e = "RESOLVED" /\ status \in {"OPEN", "ACKNOWLEDGED"} /\ next = "RESOLVED"
  \/ e = "CLOSED" /\ status = "RESOLVED" /\ next = "CLOSED"

\* A history that can be replayed still can be with an event that follows.  For
\* the closure: no CLOSED is in the history and only CLOSED comes after RESOLVED,
\* so the resolution is the last event.
LEMMA ReplayStep ==
  ASSUME NEW h \in Seq(Events), h # <<>>, NEW status, Replays(status, h),
         NEW e \in Events, NEW next, Follows(status, e, next)
  PROVE  Replays(next, Append(h, e)) /\ Append(h, e) # <<>>
<1> DEFINE g == Append(h, e)
           shown(f) == \E n \in DOMAIN h : h[n] = f
           shownAfter(f) == \E n \in DOMAIN g : g[n] = f
<1>1. /\ Len(h) \in Nat /\ Len(g) = Len(h) + 1
      /\ DOMAIN h = 1..Len(h) /\ DOMAIN g = 1..(Len(h) + 1)
      /\ \A n \in 1..Len(h) : g[n] = h[n]
      /\ g[Len(h) + 1] = e
      /\ \A f : shownAfter(f) <=> (f = e \/ shown(f))
  BY Appended
<1>2. Len(h) >= 1
  BY <1>1
<1>3. /\ status = IF shown("CLOSED") THEN "CLOSED"
                  ELSE IF shown("RESOLVED") THEN "RESOLVED"
                  ELSE IF shown("ACKNOWLEDGED") THEN "ACKNOWLEDGED" ELSE "OPEN"
      /\ StatusShown(g) = IF shownAfter("CLOSED") THEN "CLOSED"
                          ELSE IF shownAfter("RESOLVED") THEN "RESOLVED"
                          ELSE IF shownAfter("ACKNOWLEDGED") THEN "ACKNOWLEDGED" ELSE "OPEN"
  BY DEF Replays, StatusShown
<1>4. /\ \A n \in 1..Len(h) : (h[n] = "OPENED") <=> (n = 1)
      /\ \A n \in 1..Len(h) :
           h[n] = "RESOLVED" => /\ Len(h) <= n + 1
                                /\ n < Len(h) => h[n + 1] = "CLOSED"
  BY <1>1 DEF Replays
<1> HIDE DEF shown, shownAfter, g
<1>5. /\ status \in {"OPEN", "ACKNOWLEDGED"} => ~shown("RESOLVED") /\ ~shown("CLOSED")
      /\ status = "RESOLVED" => ~shown("CLOSED")
      /\ status = "OPEN" => ~shown("ACKNOWLEDGED")
  BY <1>3
<1>6. next = StatusShown(g)
  BY <1>1, <1>3, <1>5 DEF Follows
<1>7. \A n \in DOMAIN g : (g[n] = "OPENED") <=> (n = 1)
  BY <1>1, <1>2, <1>4 DEF Follows
<1>8. ASSUME NEW n \in DOMAIN g, g[n] = "RESOLVED"
      PROVE  Len(g) <= n + 1 /\ (n < Len(g) => g[n + 1] = "CLOSED")
  <2>1. CASE n = Len(h) + 1
    BY <1>1, <2>1
  <2>2. CASE n \in 1..Len(h)
    <3>1. shown("RESOLVED") /\ h[n] = "RESOLVED"
      BY <1>1, <1>8, <2>2 DEF shown
    <3>2. e = "CLOSED" /\ ~shown("CLOSED")
      BY <1>5, <3>1 DEF Follows
    <3>3. ~ n < Len(h)
      BY <1>1, <1>4, <2>2, <3>1, <3>2 DEF shown
    <3> QED
      BY <1>1, <2>2, <3>2, <3>3
  <2> QED
    BY <1>1, <2>1, <2>2
<1>9. g # <<>>
  BY <1>1
<1> QED
  BY <1>6, <1>7, <1>8, <1>9 DEF Replays, g

\* A row and its first event are written together.
RowsHaveHistories ==
  \A id \in Ids : Exists(id) <=> history[id] # <<>>

\* failure_count is the number of failures in the history.
CountsMatch ==
  \A id \in Ids :
    Exists(id) => incidents[id].failureCount = Cardinality(Failures(history[id]))

RowsInv == IInv /\ RowsHaveHistories /\ HistoryReplays /\ CountsMatch

\* How a step writes the row of an incident: not at all, with the first event, or
\* with one event that follows.
RowStands(id) == incidents'[id] = incidents[id] /\ history'[id] = history[id]

RowOpens(id) ==
  /\ ~Exists(id) /\ incidents'[id] \in Incident
  /\ incidents'[id].status = "OPEN" /\ incidents'[id].failureCount = 1
  /\ history'[id] = <<"OPENED">>

RowGrows(id, e) ==
  /\ Exists(id) /\ incidents'[id] \in Incident
  /\ history'[id] = Append(history[id], e)
  /\ Follows(incidents[id].status, e, incidents'[id].status)
  /\ incidents'[id].failureCount =
       incidents[id].failureCount + (IF e = "FAILURE_CORRELATED" THEN 1 ELSE 0)

\* Every write of a row writes the event that leads to its new status, under the
\* lock or the where clause that fixes the old one.
LEMMA RowSteps ==
  ASSUME IInv, RowsHaveHistories, [Next]_vars, NEW id \in Ids
  PROVE  RowStands(id) \/ RowOpens(id) \/ \E e \in Events : RowGrows(id, e)
<1>1. ASSUME NEW w \in Correlators, CommitOpened(w), ~RowStands(id)
      PROVE  RowOpens(id)
  <2> DEFINE row == [key |-> job[w].key, status |-> "OPEN", failureCount |-> 1,
                     firstOccurred |-> job[w].at, lastOccurred |-> job[w].at]
  <2>1. PICK new \in Ids : /\ ~Exists(new)
                           /\ incidents' = [incidents EXCEPT ![new] = row]
                           /\ history' = [history EXCEPT ![new] = Append(@, "OPENED")]
    BY <1>1 DEF CommitOpened, Record
  <2>2. new = id
    BY <1>1, <2>1 DEF RowStands
  <2>3. row \in Incident
    BY <1>1 DEF CommitOpened, IInv, TypeOK, Correlation, Incident, Status
  <2>4. /\ ~Exists(id) /\ incidents'[id] = row
        /\ history'[id] = Append(<<>>, "OPENED")
    BY <2>1, <2>2 DEF IInv, TypeOK, RowsHaveHistories, Exists
  <2>5. Append(<<>>, "OPENED") = <<"OPENED">>
    OBVIOUS
  <2> QED
    BY <2>3, <2>4, <2>5 DEF RowOpens
<1>2. ASSUME NEW w \in Correlators, CommitCounted(w), ~RowStands(id)
      PROVE  RowGrows(id, "FAILURE_CORRELATED")
  <2>1. job[w] \in Correlation /\ ActiveFor(job[w].key, job[w].id)
    BY <1>2 DEF CommitCounted, IInv, SelectedIsLocked, TypeOK
  <2>2. job[w].id = id
    BY <1>2, <2>1 DEF CommitCounted, Record, IInv, TypeOK, RowStands
  <2>3. incidents[id] \in Incident /\ job[w].at \in Times
    BY <2>1, <2>2 DEF ActiveFor, Exists, IInv, TypeOK, Correlation
  <2>4. /\ incidents'[id] = Counted(incidents[id], job[w].at)
        /\ history'[id] = Append(history[id], "FAILURE_CORRELATED")
    BY <1>2, <2>2 DEF CommitCounted, Record, IInv, TypeOK
  <2> QED
    BY <2>1, <2>2, <2>3, <2>4, CountsWell DEF ActiveFor, Follows, RowGrows
<1>3. ASSUME NEW r \in Requests, ApplyAction(r), ~RowStands(id)
      PROVE  RowGrows(id, EventType[request[r].action]) /\ request[r].action \in Actions
  <2> DEFINE a == request[r].action
             status == NewStatus(incidents[id].status, a)
  <2>1. a \in Actions /\ request[r].id \in Ids
    BY <1>3 DEF ApplyAction, IInv, TypeOK
  <2>2. request[r].id = id
    BY <1>3, <2>1 DEF ApplyAction, Record, RowStands
  <2>3. incidents[id] \in Incident /\ Exists(id)
    BY <1>3, <2>2 DEF ApplyAction, IInv, RequestedExists, Exists, TypeOK
  <2>4. /\ WhereStatus(incidents[id].status, a)
        /\ incidents'[id] = [incidents[id] EXCEPT !.status = status]
        /\ history'[id] = Append(history[id], EventType[a])
    BY <1>3, <2>2 DEF ApplyAction, Record, IInv, TypeOK
  <2>5. incidents[id].status \in Status /\ status \in Status
    BY <2>3 DEF Incident, NewStatus, Status
  <2>6. /\ Follows(incidents[id].status, EventType[a], status)
        /\ EventType[a] # "FAILURE_CORRELATED"
    BY <2>1, <2>4, <2>5 DEF Follows, WhereStatus, NewStatus, EventType, Actions, Status
  <2> HIDE DEF status
  <2>7. /\ incidents'[id] \in Incident /\ incidents'[id].status = status
        /\ incidents'[id].failureCount = incidents[id].failureCount
        /\ incidents[id].failureCount \in Nat
    BY <2>3, <2>4, <2>5 DEF Incident
  <2> QED
    BY <2>1, <2>3, <2>4, <2>6, <2>7 DEF RowGrows
<1>4. \A a \in Actions : EventType[a] \in Events
  BY DEF Events
<1> QED
  BY <1>1, <1>2, <1>3, <1>4, Writers DEF Events, RowStands

\* The failures of a history after one more event.
LEMMA FailuresAppended ==
  ASSUME NEW h \in Seq(Events), NEW e \in Events
  PROVE  /\ Cardinality(Failures(h)) \in Nat
         /\ Cardinality(Failures(Append(h, e))) = Cardinality(Failures(h))
              + (IF e \in {"OPENED", "FAILURE_CORRELATED"} THEN 1 ELSE 0)
<1>1. Len(h) \in Nat /\ Failures(h) \subseteq 1..Len(h)
  BY Appended DEF Failures
<1>2. IsFiniteSet(Failures(h))
  <2>1. IsFiniteSet(1..Len(h))
    BY <1>1, FS_Interval
  <2> QED
    BY <1>1, <2>1, FS_Subset
<1>3. Failures(Append(h, e)) =
        IF e \in {"OPENED", "FAILURE_CORRELATED"} THEN Failures(h) \cup {Len(h) + 1}
                                                ELSE Failures(h)
  BY Appended DEF Failures
<1>4. Cardinality(Failures(h)) \in Nat
  BY <1>2, FS_CardinalityType
<1>5. Cardinality(Failures(h) \cup {Len(h) + 1}) = Cardinality(Failures(h)) + 1
  <2>1. Len(h) + 1 \notin Failures(h)
    BY <1>1
  <2> QED
    BY <1>2, <2>1, FS_AddElement
<1> QED
  BY <1>3, <1>4, <1>5

\* The rows keep going with their histories.
LEMMA RowsKeep ==
  ASSUME RowsInv, [Next]_vars
  PROVE  RowsInv'
<1>1. IInv'
  BY InvNext DEF RowsInv
<1>2. ASSUME NEW id \in Ids
      PROVE  /\ incidents'[id] # Null
                  => Replays(incidents'[id].status, history'[id])
             /\ incidents'[id] # Null <=> history'[id] # <<>>
             /\ incidents'[id] # Null
                  => incidents'[id].failureCount = Cardinality(Failures(history'[id]))
  <2>1. CASE RowStands(id)
    BY <2>1 DEF RowsInv, HistoryReplays, RowsHaveHistories, CountsMatch, Replays, Exists,
                RowStands
  <2>2. CASE RowOpens(id)
    <3>1. Replays("OPEN", <<"OPENED">>)
      BY DEF Replays, StatusShown
    <3>2. Failures(<<"OPENED">>) = {1}
      BY DEF Failures
    <3>3. Cardinality(Failures(<<"OPENED">>)) = 1
      BY <3>2, FS_Singleton
    <3>4. <<"OPENED">> # <<>>
      OBVIOUS
    <3> QED
      BY <2>2, <3>1, <3>3, <3>4, NullAssumption, Zenon DEF RowOpens
  <2>3. ASSUME NEW e \in Events, RowGrows(id, e)
        PROVE  /\ Replays(incidents'[id].status, history'[id])
               /\ incidents'[id] # Null /\ history'[id] # <<>>
               /\ incidents'[id].failureCount = Cardinality(Failures(history'[id]))
    <3>1. history[id] \in Seq(Events) /\ history[id] # <<>>
      BY <2>3 DEF RowGrows, RowsInv, IInv, TypeOK, RowsHaveHistories
    <3>2. Replays(incidents[id].status, history[id])
      BY <2>3 DEF RowGrows, RowsInv, HistoryReplays, Replays
    <3>3. e # "OPENED"
      BY <2>3 DEF RowGrows, Follows
    <3>4. incidents[id].failureCount = Cardinality(Failures(history[id]))
      BY <2>3 DEF RowGrows, RowsInv, CountsMatch
    <3> QED
      BY <2>3, <3>1, <3>2, <3>3, <3>4, ReplayStep, FailuresAppended, NullAssumption
         DEF RowGrows
  <2> QED
    BY <2>1, <2>2, <2>3, RowSteps DEF RowsInv
<1> QED
  BY <1>1, <1>2 DEF RowsInv, HistoryReplays, RowsHaveHistories, CountsMatch, Replays, Exists

\* At first there is no incident and no history.
LEMMA RowsInit == Init => RowsInv
  BY InvInit DEF Init, RowsInv, HistoryReplays, RowsHaveHistories, CountsMatch, Exists

\* Replaying the history of an incident gives the status of its row.
THEOREM HistoriesReplay == Spec => []HistoryReplays
<1>1. RowsInv => HistoryReplays
  BY DEF RowsInv
<1> QED
  BY <1>1, RowsInit, RowsKeep, PTL DEF Spec

\* An operator's action that takes effect is allowed in the status it takes effect
\* in: the where clause repeats the policy, after the wait for the row lock.
THEOREM AppliedAllowed == Spec => AppliedActionsAreAllowed
<1> DEFINE Allowed ==
      \A r \in Requests :
        request[r] # Null /\ history'[request[r].id] # history[request[r].id]
          /\ request'[r] = Null =>
          isIncidentActionAllowed(incidents[request[r].id].status, request[r].action)
<1>1. IInv /\ [Next]_vars => Allowed
  <2> SUFFICES ASSUME IInv, [Next]_vars, NEW r \in Requests, request[r] # Null,
                      history'[request[r].id] # history[request[r].id],
                      request'[r] = Null
               PROVE  isIncidentActionAllowed(incidents[request[r].id].status,
                                              request[r].action)
    OBVIOUS
  <2>1. PICK q \in Requests : ApplyAction(q)
    BY Writers DEF CommitOpened, CommitCounted
  <2>2. q = r
    BY <2>1 DEF ApplyAction, EndRequest, IInv, TypeOK
  <2>3. request[r].action \in Actions
    BY DEF IInv, TypeOK
  <2> QED
    BY <2>1, <2>2, <2>3 DEF ApplyAction, WhereStatus, isIncidentActionAllowed, Actions
<1>2. Allowed => [Allowed]_vars
  OBVIOUS
<1> QED
  BY <1>1, <1>2, Invariant, PTL DEF Spec, AppliedActionsAreAllowed

-----------------------------------------------------------------------------
(* Evidence bundles.                                                       *)

\* To the incidents a bundle is none of their business.
LEMMA EvidenceSteps == [EvidenceNext]_allVars => [Next]_vars
  BY DEF EvidenceNext, Audit, RequestBundle, ReadRecord, ReadHistory, StoreBundle,
         FailBundle, allVars

\* The incidents under Evidence are those of Incidents, so all that is proved of
\* them holds while bundles are built.
LEMMA EvidenceImplementsIncidents == EvidenceSpec => Spec
<1>1. EvidenceInit => Init
  BY DEF EvidenceInit
<1> QED
  BY <1>1, EvidenceSteps, PTL DEF EvidenceSpec, Spec

\* So what is promised of incidents is kept while auditors ask for bundles: one is
\* active, its last failure is the latest, its history replays, a resolution stops
\* the counting, and operators do only what the policy allows.
COROLLARY IncidentsUnderAudit ==
  EvidenceSpec => /\ []OneActivePerKey /\ []LastOccurredIsLatest /\ []HistoryReplays
                  /\ AppliedActionsAreAllowed /\ ResolvedStopsCounting
  BY EvidenceImplementsIncidents, OneActive, LatestOccurrence, HistoriesReplay,
     AppliedAllowed, ResolvedStops, PTL

\* The row and the history of an incident agree.
LEMMA RowsAgree ==
  ASSUME RowsInv, NEW id \in Ids, Exists(id)
  PROVE  /\ incidents[id] \in Incident /\ incidents[id] # Null
         /\ history[id] \in Seq(Events) /\ Len(history[id]) \in Nat
         /\ RowAgrees(incidents[id], history[id])
  BY DEF RowsInv, IInv, TypeOK, Exists, HistoryReplays, CountsMatch, RowAgrees

\* What a bundle b has copied of an incident with this row and history is of a
\* moment from the request up to `upto'; of a closed one it is the last word.
Shows(b, upto, h) ==
  /\ b.record # Null => \E k \in b.from..upto : RowAgrees(b.record, SubSeq(h, 1, k))
  /\ b.history # Null => \E k \in b.from..upto : b.history = Rows(SubSeq(h, 1, k))

Final(b, row, h) ==
  b.status = "CLOSED" =>
    /\ row.status = "CLOSED"
    /\ b.record # Null => b.record = row
    /\ b.history # Null => b.history = Rows(h)

Begun(b, upto, row, h) ==
  /\ b.id \in Ids /\ row # Null /\ b.from \in Nat
  /\ upto \in Nat /\ b.from <= upto /\ upto <= Len(h)
  /\ Shows(b, upto, h) /\ Final(b, row, h)

\* The columns of a bundle under construction and of a stored one.
Copies == {Rows(h) : h \in Seq(Events)} \cup {Null}

Draft ==
  [id : Ids, from : Nat, status : Status, record : Incident \cup {Null}, history : Copies]

Bundle ==
  [id : Ids, from : Nat, upto : Nat, status : Status, record : Incident \cup {Null},
   history : Copies]

EvidenceInv ==
  /\ building \in [Auditors -> Draft \cup {Null}]
  /\ bundles \in Seq(Bundle)
  /\ \A a \in Auditors :
       LET b == building[a]  h == history[b.id] IN
       b # Null => Begun(b, Len(h), incidents[b.id], h)
  /\ \A n \in DOMAIN bundles :
       LET b == bundles[n] IN
       /\ b.record # Null /\ b.history # Null
       /\ Begun(b, b.upto, incidents[b.id], history[b.id])

\* Whatever happens to an incident, its history only grows, and a closed one stands.
LEMMA HistoriesGrow ==
  ASSUME RowsInv, [Next]_vars, NEW id \in Ids, Exists(id)
  PROVE  /\ Exists(id)'
         /\ Len(history'[id]) \in Nat /\ Len(history[id]) <= Len(history'[id])
         /\ \A k \in 0..Len(history[id]) :
              SubSeq(history'[id], 1, k) = SubSeq(history[id], 1, k)
         /\ incidents[id].status = "CLOSED" => RowStands(id)
<1>1. history[id] \in Seq(Events) /\ Len(history[id]) \in Nat
  BY RowsAgree
<1>2. CASE RowStands(id)
  BY <1>1, <1>2 DEF RowStands, Exists
<1>3. ASSUME NEW e \in Events, RowGrows(id, e)
      PROVE  /\ Exists(id)' /\ incidents[id].status # "CLOSED"
             /\ Len(history'[id]) = Len(history[id]) + 1
             /\ \A k \in 0..Len(history[id]) :
                  SubSeq(history'[id], 1, k) = SubSeq(history[id], 1, k)
  <2> DEFINE h == history[id]
             g == Append(h, e)
  <2>1. history'[id] = g
    BY <1>3 DEF RowGrows
  <2>2. Exists(id)' /\ incidents[id].status # "CLOSED"
    BY <1>3, NullAssumption DEF RowGrows, Exists, Follows
  <2>3. Len(g) = Len(h) + 1 /\ \A n \in 1..Len(h) : g[n] = h[n]
    BY <1>1, Appended
  <2>4. \A k \in 0..Len(h) : SubSeq(g, 1, k) = SubSeq(h, 1, k)
    BY <1>1, Prefixes
  <2> QED
    BY <2>1, <2>2, <2>3, <2>4
<1> QED
  BY <1>1, <1>2, <1>3, RowSteps DEF RowsInv, RowOpens

\* So a bundle that was begun stays so, when an incident moves on ...
LEMMA BegunStays ==
  ASSUME RowsInv, [Next]_vars, NEW b, NEW upto,
         Begun(b, upto, incidents[b.id], history[b.id])
  PROVE  /\ Begun(b, upto, incidents'[b.id], history'[b.id])
         /\ upto = Len(history[b.id])
              => Begun(b, Len(history'[b.id]), incidents'[b.id], history'[b.id])
<1> DEFINE h == history[b.id]
           g == history'[b.id]
<1>1. b.id \in Ids /\ Exists(b.id) /\ b.from \in Nat /\ upto \in Nat /\ upto <= Len(h)
  BY DEF Begun, Exists
<1>2. /\ Len(h) \in Nat /\ Len(g) \in Nat /\ Len(h) <= Len(g)
      /\ incidents'[b.id] # Null
      /\ \A k \in 0..Len(h) : SubSeq(g, 1, k) = SubSeq(h, 1, k)
      /\ incidents[b.id].status = "CLOSED" => incidents'[b.id] = incidents[b.id] /\ g = h
  BY <1>1, HistoriesGrow, RowsAgree DEF RowStands, Exists
<1>3. Final(b, incidents'[b.id], g)
  BY <1>2 DEF Begun, Final
<1> HIDE DEF g
<1>4. ASSUME NEW last \in {upto, Len(g)}
      PROVE  Shows(b, last, g)
  <2>1. b.from..upto \subseteq b.from..last /\ b.from..upto \subseteq 0..Len(h)
    BY <1>1, <1>2
  <2>2. Shows(b, upto, h)
    BY DEF Begun
  <2> HIDE DEF h
  <2> QED
    BY <1>2, <2>1, <2>2 DEF Shows
<1>5. upto <= Len(g) /\ b.from <= upto /\ b.from <= Len(g)
  BY <1>1, <1>2 DEF Begun
<1> QED
  BY <1>1, <1>2, <1>3, <1>4, <1>5 DEF Begun, g

\* ... and the invariant with it.
LEMMA IncidentsMoveOn ==
  ASSUME RowsInv, EvidenceInv, [Next]_vars, UNCHANGED evidenceVars
  PROVE  EvidenceInv'
<1>1. building' = building /\ bundles' = bundles
  BY DEF evidenceVars
<1>2. \A a \in Auditors : building[a] # Null =>
        Begun(building[a], Len(history'[building[a].id]),
              incidents'[building[a].id], history'[building[a].id])
  BY BegunStays DEF EvidenceInv
<1>3. \A n \in DOMAIN bundles :
        Begun(bundles[n], bundles[n].upto, incidents'[bundles[n].id], history'[bundles[n].id])
  BY BegunStays DEF EvidenceInv
<1> QED
  BY <1>1, <1>2, <1>3 DEF EvidenceInv

\* The request copies nothing yet.
LEMMA RequestKeeps ==
  ASSUME RowsInv, EvidenceInv, NEW a \in Auditors, NEW id \in Ids, RequestBundle(a, id)
  PROVE  EvidenceInv'
<1> DEFINE b == AsRequested(id)
<1>1. Exists(id) /\ building' = [building EXCEPT ![a] = b]
  BY DEF RequestBundle
<1>2. /\ b.id = id /\ b.from = Len(history[id]) /\ b.status = incidents[id].status
      /\ b.record = Null /\ b.history = Null
  BY DEF AsRequested
<1>3. b \in Draft
  BY <1>1, RowsAgree DEF AsRequested, Draft, Copies, Incident
<1> HIDE DEF b
<1>4. Begun(b, Len(history[b.id]), incidents[b.id], history[b.id])
  BY <1>1, <1>2, RowsAgree DEF Begun, Shows, Final
<1>5. UNCHANGED <<incidents, history, bundles>>
  BY DEF RequestBundle, vars
<1> QED
  BY <1>1, <1>3, <1>4, <1>5 DEF EvidenceInv

\* Either read copies the present, which is one moment of the request.
LEMMA ReadKeeps ==
  ASSUME RowsInv, EvidenceInv, NEW a \in Auditors, ReadRecord(a) \/ ReadHistory(a)
  PROVE  EvidenceInv'
<1> DEFINE b == building[a]
           row == incidents[b.id]
           h == history[b.id]
<1>1. b \in Draft /\ b # Null /\ Begun(b, Len(h), row, h)
  BY DEF ReadRecord, ReadHistory, EvidenceInv
<1>2. b.id \in Ids /\ Exists(b.id) /\ b.from \in Nat /\ b.from <= Len(h)
  BY <1>1 DEF Begun, Exists
<1>3. /\ row \in Incident /\ row # Null /\ RowAgrees(row, h)
      /\ h \in Seq(Events) /\ Len(h) \in Nat
  BY <1>2, RowsAgree
<1> HIDE DEF row, h
<1>4. SubSeq(h, 1, Len(h)) = h /\ Rows(h) \in Copies
  BY <1>3, SubSeqFull DEF Copies
<1>5. PICK c \in Draft :
        /\ building' = [building EXCEPT ![a] = c]
        /\ c.id = b.id /\ c.from = b.from /\ c.status = b.status
        /\ c.record = b.record \/ c.record = row
        /\ c.history = b.history \/ c.history = Rows(h)
  <2>1. CASE ReadRecord(a)
    <3> DEFINE d == [b EXCEPT !.record = row]
    <3>1. building' = [building EXCEPT ![a] = d]
      BY <2>1 DEF ReadRecord, row
    <3>2. /\ d \in Draft /\ d.id = b.id /\ d.from = b.from /\ d.status = b.status
          /\ d.record = row /\ d.history = b.history
      BY <1>1, <1>3 DEF Draft
    <3> HIDE DEF d
    <3> QED
      BY <3>1, <3>2
  <2>2. CASE ReadHistory(a)
    <3> DEFINE d == [b EXCEPT !.history = Rows(h)]
    <3>1. building' = [building EXCEPT ![a] = d]
      BY <2>2 DEF ReadHistory, h
    <3>2. /\ d \in Draft /\ d.id = b.id /\ d.from = b.from /\ d.status = b.status
          /\ d.record = b.record /\ d.history = Rows(h)
      BY <1>1, <1>4 DEF Draft
    <3> HIDE DEF d
    <3> QED
      BY <3>1, <3>2
  <2> QED
    BY <2>1, <2>2
<1>6. Begun(c, Len(h), row, h)
  <2>1. Len(h) \in b.from..Len(h)
    BY <1>2, <1>3
  <2>2. Shows(c, Len(h), h)
    BY <1>1, <1>3, <1>4, <1>5, <2>1 DEF Begun, Shows
  <2>3. Final(c, row, h)
    BY <1>1, <1>5 DEF Begun, Final
  <2> QED
    BY <1>1, <1>2, <1>5, <2>2, <2>3 DEF Begun
<1>7. UNCHANGED <<incidents, history, bundles>>
  BY DEF ReadRecord, ReadHistory, vars
<1> QED
  BY <1>5, <1>6, <1>7 DEF EvidenceInv, row, h

\* The stored document is the draft.
LEMMA StoreKeeps ==
  ASSUME RowsInv, EvidenceInv, NEW a \in Auditors, StoreBundle(a)
  PROVE  EvidenceInv'
<1> DEFINE b == building[a]
           c == [id |-> b.id, from |-> b.from, upto |-> Len(history[b.id]),
                 status |-> b.status, record |-> b.record, history |-> b.history]
<1>1. /\ b \in Draft /\ b.record # Null /\ b.history # Null
      /\ Begun(b, Len(history[b.id]), incidents[b.id], history[b.id])
  BY DEF StoreBundle, EvidenceInv
<1>2. bundles' = Append(bundles, c) /\ building' = [building EXCEPT ![a] = Null]
  BY DEF StoreBundle
<1>3. /\ c.id = b.id /\ c.from = b.from /\ c.upto = Len(history[b.id])
      /\ c.status = b.status /\ c.record = b.record /\ c.history = b.history
  OBVIOUS
<1>4. c \in Bundle
  BY <1>1 DEF Begun, Draft, Bundle
<1> HIDE DEF b, c
<1>5. Begun(c, c.upto, incidents[c.id], history[c.id])
  BY <1>1, <1>3 DEF Begun, Shows, Final
<1>6. UNCHANGED <<incidents, history>>
  BY DEF StoreBundle, vars
<1>7. /\ bundles' \in Seq(Bundle)
      /\ \A n \in DOMAIN bundles' :
           bundles'[n] = c \/ (n \in DOMAIN bundles /\ bundles'[n] = bundles[n])
  BY <1>2, <1>4 DEF EvidenceInv
<1>8. /\ building' \in [Auditors -> Draft \cup {Null}]
      /\ \A o \in Auditors : building'[o] # Null => building'[o] = building[o]
  BY <1>2 DEF EvidenceInv
<1>9. \A n \in DOMAIN bundles' :
        /\ bundles'[n].record # Null /\ bundles'[n].history # Null
        /\ Begun(bundles'[n], bundles'[n].upto, incidents[bundles'[n].id],
                 history[bundles'[n].id])
  BY <1>1, <1>3, <1>5, <1>7 DEF EvidenceInv
<1> QED
  BY <1>6, <1>7, <1>8, <1>9 DEF EvidenceInv

\* A failure stores nothing.
LEMMA FailKeeps ==
  ASSUME EvidenceInv, NEW a \in Auditors, FailBundle(a)
  PROVE  EvidenceInv'
<1>1. building' = [building EXCEPT ![a] = Null] /\ UNCHANGED <<incidents, history, bundles>>
  BY DEF FailBundle, vars
<1> QED
  BY <1>1 DEF EvidenceInv

\* Every step of Evidence keeps both invariants.
LEMMA EvidenceKeeps ==
  ASSUME RowsInv, EvidenceInv, [EvidenceNext]_allVars
  PROVE  RowsInv' /\ EvidenceInv'
<1>1. [Next]_vars
  BY EvidenceSteps
<1>2. RowsInv'
  BY <1>1, RowsKeep
<1>3. CASE UNCHANGED evidenceVars
  BY <1>1, <1>2, <1>3, IncidentsMoveOn
<1>4. CASE \E a \in Auditors : Audit(a)
  BY <1>2, <1>4, RequestKeeps, ReadKeeps, StoreKeeps, FailKeeps DEF Audit
<1> QED
  BY <1>2, <1>3, <1>4 DEF EvidenceNext, allVars

\* The invariants hold while bundles are built.
THEOREM EvidenceInductive == EvidenceSpec => [](RowsInv /\ EvidenceInv)
<1>1. EvidenceInit => RowsInv /\ EvidenceInv
  BY RowsInit DEF EvidenceInit, EvidenceInv
<1> QED
  BY <1>1, EvidenceKeeps, PTL DEF EvidenceSpec

\* A bundle shows its incident as it was at moments of the request, although its
\* two reads take two connections: histories only grow, and every row agrees with
\* its history.
THEOREM BundlesTellTheirTime == EvidenceSpec => []BundlesShowTheirTime
<1>1. EvidenceInv => BundlesShowTheirTime
  <2> SUFFICES ASSUME EvidenceInv, NEW n \in DOMAIN bundles
               PROVE  /\ \E k \in bundles[n].from..bundles[n].upto :
                           RowAgrees(bundles[n].record, SubSeq(history[bundles[n].id], 1, k))
                      /\ \E k \in bundles[n].from..bundles[n].upto :
                           bundles[n].history = Rows(SubSeq(history[bundles[n].id], 1, k))
    BY DEF BundlesShowTheirTime
  <2> QED
    BY DEF EvidenceInv, Begun, Shows
<1> QED
  BY <1>1, EvidenceInductive, PTL

\* A bundle of a closed incident is the last word on it: nothing is counted, noted
\* or decided after the closure.
THEOREM ClosedBundlesStand == EvidenceSpec => []ClosedBundlesAreFinal
<1>1. RowsInv /\ EvidenceInv => ClosedBundlesAreFinal
  <2> SUFFICES ASSUME RowsInv, EvidenceInv, NEW n \in DOMAIN bundles,
                      bundles[n].status = "CLOSED"
               PROVE  LET b == bundles[n]  h == history[b.id] IN
                      b.record = incidents[b.id] /\ b.history = Rows(h) /\ RowAgrees(b.record, h)
    BY DEF ClosedBundlesAreFinal
  <2>1. /\ bundles[n].record = incidents[bundles[n].id]
        /\ bundles[n].history = Rows(history[bundles[n].id])
        /\ bundles[n].id \in Ids /\ Exists(bundles[n].id)
    BY DEF EvidenceInv, Begun, Final, Exists
  <2> QED
    BY <2>1, RowsAgree
<1> QED
  BY <1>1, EvidenceInductive, PTL
=============================================================================
