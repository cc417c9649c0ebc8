--------------------------- MODULE TelemetryProofs ---------------------------
(***************************************************************************)
(* Theorems about Telemetry, for every set of events, targets and requests *)
(* in progress: an event is accepted once and its receipts say so, and the *)
(* aggregate row of an execution, which is folded event by event in the    *)
(* order of arrival, is what the stored events say.                        *)
(***************************************************************************)
EXTENDS Telemetry, FiniteSetTheorems, TLAPS

-----------------------------------------------------------------------------
(* Types.                                                                  *)

\* The parts of an event are where the rows and the intents want them.
LEMMA EventParts ==
  ASSUME NEW e \in Events
  PROVE  /\ e.id \in EventIds /\ e.execution \in Executions
         /\ e.status \in Statuses /\ e.at \in Moments /\ e.at \in Int
         /\ e.errorCode \in ErrorCodes /\ e.correlation \in Correlations
  BY TelemetryAssumption
     DEF EventIds, Executions, Moments, ErrorCodes, Correlations

\* The first event of an execution makes a row, and every later one keeps it one.
LEMMA RowsStayRows ==
  ASSUME NEW e \in Events
  PROVE  /\ NewRow(e) \in Row
         /\ \A row \in Row : Folded(row, e) \in Row
<1>1. NewRow(e) \in Row
  BY EventParts DEF NewRow, Row
<1>2. ASSUME NEW row \in Row PROVE Folded(row, e) \in Row
  <2> DEFINE settles == row.status = "STARTED" /\ Terminal(e.status)
             first == Least(row.first, e.at)
             latest == Greatest(row.latest, e.at)
             status == IF settles THEN e.status ELSE row.status
             code == IF settles THEN e.errorCode ELSE row.errorCode
             correlated == IF row.correlation = Null THEN e.correlation
                                                     ELSE row.correlation
  <2>1. first \in Moments /\ latest \in Moments
    BY EventParts DEF Least, Greatest, Row
  <2>2. /\ row.count + 1 \in Nat \ {0} /\ correlated \in Correlations
        /\ status \in Statuses /\ code \in ErrorCodes
    BY EventParts DEF Row
  <2>3. Folded(row, e) =
          [row EXCEPT !.first = first, !.latest = latest, !.status = status,
                      !.errorCode = code, !.correlation = correlated, !.count = @ + 1]
    BY DEF Folded
  <2> HIDE DEF first, latest, status, code, correlated
  <2> QED
    BY <2>1, <2>2, <2>3 DEF Row
<1> QED
  BY <1>1, <1>2

\* Two more conditions on one request: whose identifier it has inserted is stored
\* by no one, and inserted by no other request.
Fenced ==
  \A r \in Requests :
    request[r] # Null /\ request[r].step = "inserted" =>
      /\ ~Stored(request[r].event.id)
      /\ \A q \in Requests \ {r} :
           request[q] # Null /\ request[q].step = "inserted" =>
             request[q].event.id # request[r].event.id

\* An identifier that is stored has a place in the commit order.
LEMMA PlaceOfStored ==
  ASSUME TypeOK, NEW id, Stored(id)
  PROVE  /\ AcceptedAt(id) \in DOMAIN accepted /\ AcceptedAt(id) \in Nat
         /\ accepted[AcceptedAt(id)].id = id
<1>1. DOMAIN accepted \subseteq Nat
  BY DEF TypeOK
<1> QED
  BY <1>1 DEF Stored, AcceptedAt

\* Type correctness.
THEOREM TypeCorrect == Spec => []TypeOK
<1>1. Init => TypeOK
  BY DEF Init, TypeOK
<1>2. TypeOK /\ [Next]_vars => TypeOK'
  <2> SUFFICES ASSUME TypeOK, [Next]_vars PROVE TypeOK'
    OBVIOUS
  <2>1. CASE Synchronize
    BY <2>1 DEF Synchronize, TypeOK
  <2>2. ASSUME NEW r \in Requests, NEW e \in Events, Receive(r, e) PROVE TypeOK'
    BY <2>2 DEF Receive, TypeOK
  <2>3. ASSUME NEW r \in Requests, CheckRegistration(r) PROVE TypeOK'
    BY <2>3 DEF CheckRegistration, End, TypeOK
  <2>4. ASSUME NEW r \in Requests, InsertEvent(r) PROVE TypeOK'
    BY <2>4 DEF InsertEvent, TypeOK
  <2>5. ASSUME NEW r \in Requests, Replay(r) PROVE TypeOK'
    <3> DEFINE id == request[r].event.id
    <3>1. id \in EventIds /\ AcceptedAt(id) \in Nat
      BY <2>5, PlaceOfStored, EventParts DEF Replay, TypeOK
    <3>2. /\ UNCHANGED <<registered, accepted, executions, outbox, refused>>
          /\ receipts' = receipts \cup
               {[id |-> id, acceptedAt |-> AcceptedAt(id), replayed |-> TRUE]}
          /\ request' = [request EXCEPT ![r] = Null]
      BY <2>5 DEF Replay, End
    <3> HIDE DEF id
    <3>3. [id |-> id, acceptedAt |-> AcceptedAt(id), replayed |-> TRUE]
            \in [id : EventIds, acceptedAt : Nat, replayed : BOOLEAN]
      BY <3>1, Zenon
    <3> QED
      BY <3>1, <3>2, <3>3 DEF TypeOK
  <2>6. ASSUME NEW r \in Requests, Refuse(r) PROVE TypeOK'
    BY <2>6 DEF Refuse, End, TypeOK
  <2>7. ASSUME NEW r \in Requests, Accept(r) PROVE TypeOK'
    <3> DEFINE e == request[r].event
    <3>1. e \in Events
      BY <2>7 DEF Accept, TypeOK
    <3>2. IntentOf(e) \in Intent
      BY <3>1, EventParts DEF IntentOf, Intent, Correlations
    <3>3. e.id \in EventIds /\ Len(accepted) + 1 \in Nat
      BY <3>1, EventParts DEF TypeOK
    <3> HIDE DEF e
    <3>4. executions' \in [Executions -> Row \cup {Null}]
      <4>1. updateExecution(e)
        BY <2>7 DEF Accept, e
      <4> QED
        BY <3>1, <4>1, RowsStayRows DEF updateExecution, TypeOK
    <3>5. /\ UNCHANGED <<registered, refused>>
          /\ accepted' = Append(accepted, e) /\ outbox' = Append(outbox, IntentOf(e))
          /\ receipts' = receipts \cup
               {[id |-> e.id, acceptedAt |-> Len(accepted) + 1, replayed |-> FALSE]}
          /\ request' = [request EXCEPT ![r] = Null]
      BY <2>7 DEF Accept, End, e
    <3>6. [id |-> e.id, acceptedAt |-> Len(accepted) + 1, replayed |-> FALSE]
            \in [id : EventIds, acceptedAt : Nat, replayed : BOOLEAN]
      BY <3>3, Zenon
    <3>7. /\ accepted' \in Seq(Events) /\ outbox' \in Seq(Intent)
          /\ receipts' \subseteq [id : EventIds, acceptedAt : Nat, replayed : BOOLEAN]
      <4>1. accepted' \in Seq(Events) /\ outbox' \in Seq(Intent)
        BY <3>1, <3>2, <3>5 DEF TypeOK
      <4> QED
        BY <3>5, <3>6, <4>1, Zenon DEF TypeOK
    <3> QED
      BY <3>4, <3>5, <3>7 DEF TypeOK
  <2>8. ASSUME NEW r \in Requests, Abort(r) PROVE TypeOK'
    BY <2>8 DEF Abort, End, TypeOK
  <2>9. CASE UNCHANGED vars
    BY <2>9 DEF vars, TypeOK
  <2> QED
    BY <2>1, <2>2, <2>3, <2>4, <2>5, <2>6, <2>7, <2>8, <2>9 DEF Next, Handle
<1> QED
  BY <1>1, <1>2, PTL DEF Spec

-----------------------------------------------------------------------------
(* Receipts.                                                               *)

\* A step that accepts nothing leaves the commit order and the aggregates alone.
LEMMA OtherSteps ==
  ASSUME [Next]_vars
  PROVE  \/ \E r \in Requests : Accept(r)
         \/ UNCHANGED <<accepted, executions>>
  BY DEF Next, Handle, Synchronize, Receive, CheckRegistration, InsertEvent, Replay,
         Refuse, Abort, vars

\* An event is stored once and every receipt of it gives that place: the open
\* insert of an identifier keeps every other request with it waiting.
THEOREM ReceiptsAreOne == Spec => []ReceiptsAgree
<1> DEFINE Inv == ReceiptsAgree /\ Fenced
<1>1. Init => Inv
  BY DEF Init, ReceiptsAgree, Fenced
<1>2. TypeOK /\ Inv /\ [Next]_vars => Inv'
  <2> SUFFICES ASSUME TypeOK, Inv, [Next]_vars PROVE Inv'
    OBVIOUS
  <2> USE DEF Fenced, ReceiptsAgree
  <2>1. CASE Synchronize
    BY <2>1 DEF Synchronize, Stored
  <2>2. ASSUME NEW r \in Requests,
               \/ \E e \in Events : Receive(r, e)
               \/ CheckRegistration(r) \/ Refuse(r) \/ Abort(r)
        PROVE  Inv'
    <3>1. UNCHANGED <<accepted, receipts>>
      BY <2>2 DEF Receive, CheckRegistration, Refuse, Abort
    <3>2. /\ \A q \in Requests \ {r} : request'[q] = request[q]
          /\ request'[r] # Null => request'[r].step # "inserted"
      BY <2>2 DEF Receive, CheckRegistration, Refuse, Abort, End, TypeOK
    <3> QED
      BY <3>1, <3>2 DEF Stored
  <2>3. ASSUME NEW r \in Requests, InsertEvent(r) PROVE Inv'
    <3>1. UNCHANGED <<accepted, receipts>>
      BY <2>3 DEF InsertEvent
    <3>2. /\ \A q \in Requests \ {r} : request'[q] = request[q]
          /\ request'[r].event = request[r].event
          /\ ~Stored(request[r].event.id) /\ ~Pending(r, request[r].event.id)
      BY <2>3 DEF InsertEvent, TypeOK
    <3> QED
      BY <3>1, <3>2 DEF Stored, Pending
  <2>4. ASSUME NEW r \in Requests, Replay(r) PROVE Inv'
    <3> DEFINE id == request[r].event.id
    <3>1. UNCHANGED accepted /\ Stored(id) /\ request' = [request EXCEPT ![r] = Null]
          /\ receipts' = receipts \cup
               {[id |-> id, acceptedAt |-> AcceptedAt(id), replayed |-> TRUE]}
      BY <2>4 DEF Replay, End
    <3>2. Fenced'
      BY <3>1 DEF Stored, TypeOK
    <3>3. ReceiptsAgree'
      BY <3>1, PlaceOfStored
    <3> QED
      BY <3>2, <3>3
  <2>5. ASSUME NEW r \in Requests, Accept(r) PROVE Inv'
    <3> DEFINE e == request[r].event
               last == Len(accepted) + 1
    <3>1. /\ accepted' = Append(accepted, e)
          /\ receipts' = receipts \cup
               {[id |-> e.id, acceptedAt |-> last, replayed |-> FALSE]}
          /\ request' = [request EXCEPT ![r] = Null]
          /\ request[r] # Null /\ request[r].step = "inserted"
      BY <2>5 DEF Accept, End
    <3>2. ~Stored(e.id)
      BY <3>1
    <3>3. /\ DOMAIN accepted' = DOMAIN accepted \cup {last} /\ last \notin DOMAIN accepted
          /\ accepted'[last] = e
          /\ \A n \in DOMAIN accepted : accepted'[n] = accepted[n]
      BY <3>1 DEF TypeOK
    <3> HIDE DEF last
    <3>4. ReceiptsAgree'
      BY <3>1, <3>2, <3>3 DEF Stored
    <3>5. Fenced'
      BY <3>1, <3>3 DEF Stored, TypeOK
    <3> QED
      BY <3>4, <3>5
  <2>6. CASE UNCHANGED vars
    BY <2>6 DEF vars, Stored
  <2> QED
    BY <2>1, <2>2, <2>3, <2>4, <2>5, <2>6 DEF Next, Handle
<1> QED
  BY <1>1, <1>2, TypeCorrect, PTL DEF Spec

\* A terminal outcome is never rewritten, whatever arrives later.
THEOREM OutcomesStand == Spec => TerminalIsFinal
<1>1. ASSUME TypeOK, [Next]_vars, NEW x \in Executions,
             executions[x] # Null, Terminal(executions[x].status)
      PROVE  /\ executions'[x].status = executions[x].status
             /\ executions'[x].errorCode = executions[x].errorCode
  <2>1. ASSUME NEW r \in Requests, Accept(r)
        PROVE  /\ executions'[x].status = executions[x].status
               /\ executions'[x].errorCode = executions[x].errorCode
    <3> DEFINE e == request[r].event
    <3>1. updateExecution(e)
      BY <2>1 DEF Accept
    <3> HIDE DEF e
    <3>2. executions[x] \in Row
      BY <1>1 DEF TypeOK
    <3>3. /\ Folded(executions[x], e).status = executions[x].status
          /\ Folded(executions[x], e).errorCode = executions[x].errorCode
      BY <1>1, <3>2 DEF Folded, Terminal, Row
    <3> QED
      BY <1>1, <3>1, <3>3 DEF updateExecution, TypeOK
  <2> QED
    BY <1>1, <2>1, OtherSteps
<1>2. TypeOK /\ [Next]_vars
        => [\A x \in Executions :
              executions[x] # Null /\ Terminal(executions[x].status) =>
                /\ executions'[x].status = executions[x].status
                /\ executions'[x].errorCode = executions[x].errorCode]_executions
  BY <1>1
<1> QED
  BY <1>2, TypeCorrect, PTL DEF Spec, TerminalIsFinal
-----------------------------------------------------------------------------
(* The aggregate.                                                          *)

\* The places of a commit order s where the events of x are, the terminal ones
\* and those with a correlation identifier.
Places(s, x) == {n \in DOMAIN s : s[n].execution = x}
Outcomes(s, x) == {n \in Places(s, x) : Terminal(s[n].status)}
Correlated(s, x) == {n \in Places(s, x) : s[n].correlation # Null}

IsFirst(n, S) == n \in S /\ \A k \in S : n <= k

\* What the row of x is once events of x are stored.
Agrees(row, s, x) ==
  /\ row \in Row
  /\ row.count = Cardinality(Places(s, x))
  /\ \A n \in Places(s, x) : row.first <= s[n].at /\ s[n].at <= row.latest
  /\ \E n \in Places(s, x) : row.first = s[n].at
  /\ \E n \in Places(s, x) : row.latest = s[n].at
  /\ \E n \in Places(s, x) :
       /\ IsFirst(n, IF Outcomes(s, x) = {} THEN Places(s, x) ELSE Outcomes(s, x))
       /\ row.status = s[n].status
       /\ row.errorCode = s[n].errorCode
  /\ IF Correlated(s, x) = {} THEN row.correlation = Null
     ELSE \E n \in Places(s, x) : /\ IsFirst(n, Correlated(s, x))
                                  /\ row.correlation = s[n].correlation

RowsAgree ==
  \A x \in Executions :
    IF Places(accepted, x) = {} THEN executions[x] = Null
    ELSE Agrees(executions[x], accepted, x)

\* A place that is before all others is the first.
LEMMA FirstIsFirst ==
  ASSUME NEW S \in SUBSET Nat, NEW n, IsFirst(n, S)
  PROVE  FirstOf(S) = n
<1>1. n \in S /\ \A k \in S : n <= k
  BY DEF IsFirst
<1>2. \A m \in S : (\A k \in S : m <= k) => m = n
  BY <1>1
<1> QED
  BY <1>1, <1>2 DEF FirstOf

\* The commit order t is s and e behind it, which adds one place to the execution
\* of e and to no other.
Appends(t, s, e, x) ==
  LET last == Len(s) + 1 IN
  /\ \A n \in DOMAIN s : t[n] = s[n] /\ n < last /\ n \in Nat /\ s[n] \in Events
  /\ last \in Nat /\ t[last] = e /\ last \notin DOMAIN s
  /\ Places(s, x) \subseteq DOMAIN s
  /\ IsFiniteSet(Places(s, x))
  /\ e.execution # x =>
       /\ Places(t, x) = Places(s, x)
       /\ Outcomes(t, x) = Outcomes(s, x)
       /\ Correlated(t, x) = Correlated(s, x)
  /\ e.execution = x =>
       /\ Places(t, x) = Places(s, x) \cup {last}
       /\ Outcomes(t, x) =
            Outcomes(s, x) \cup (IF Terminal(e.status) THEN {last} ELSE {})
       /\ Correlated(t, x) =
            Correlated(s, x) \cup (IF e.correlation # Null THEN {last} ELSE {})

\* Append does that.
LEMMA Appended ==
  ASSUME NEW s \in Seq(Events), NEW e \in Events, NEW x
  PROVE  Appends(Append(s, e), s, e, x)
<1> DEFINE t == Append(s, e)
           last == Len(s) + 1
<1>1. /\ DOMAIN t = DOMAIN s \cup {last} /\ last \notin DOMAIN s /\ last \in Nat
      /\ \A n \in DOMAIN s : t[n] = s[n] /\ n < last /\ n \in Nat /\ s[n] \in Events
      /\ t[last] = e
  OBVIOUS
<1>2. IsFiniteSet(Places(s, x))
  <2>1. IsFiniteSet(1..Len(s)) /\ Places(s, x) \subseteq 1..Len(s)
    BY FS_Interval DEF Places
  <2> QED
    BY <2>1, FS_Subset
<1> HIDE DEF t, last
<1>3. CASE e.execution # x
  <2>1. Places(t, x) = Places(s, x)
    BY <1>1, <1>3 DEF Places
  <2> QED
    BY <1>1, <1>2, <1>3, <2>1 DEF Appends, t, last, Outcomes, Correlated, Places
<1>4. CASE e.execution = x
  <2>1. Places(t, x) = Places(s, x) \cup {last} /\ Places(s, x) \subseteq DOMAIN s
    BY <1>1, <1>4 DEF Places
  <2>2. Outcomes(t, x) = Outcomes(s, x) \cup (IF Terminal(e.status) THEN {last} ELSE {})
    BY <1>1, <2>1 DEF Outcomes
  <2>3. Correlated(t, x) =
          Correlated(s, x) \cup (IF e.correlation # Null THEN {last} ELSE {})
    BY <1>1, <2>1 DEF Correlated
  <2> QED
    BY <1>1, <1>2, <1>4, <2>1, <2>2, <2>3 DEF Appends, t, last
<1> QED
  BY <1>3, <1>4

\* The first event of an execution makes a row that agrees.
LEMMA FirstEvent ==
  ASSUME NEW s \in Seq(Events), NEW e \in Events, NEW x, x = e.execution,
         Places(s, x) = {}
  PROVE  Agrees(NewRow(e), Append(s, e), x)
<1> DEFINE t == Append(s, e)
           last == Len(s) + 1
<1>1. /\ last \in Nat /\ t[last] = e /\ Places(t, x) = {last}
      /\ Outcomes(t, x) = IF Terminal(e.status) THEN {last} ELSE {}
      /\ Correlated(t, x) = IF e.correlation # Null THEN {last} ELSE {}
  <2>1. Outcomes(s, x) = {} /\ Correlated(s, x) = {}
    BY DEF Outcomes, Correlated
  <2>2. Appends(t, s, e, x)
    BY Appended
  <2> HIDE DEF t
  <2> QED
    BY <2>1, <2>2 DEF Appends
<1>2. NewRow(e) \in Row
  BY RowsStayRows
<1>3. Cardinality({last}) = 1
  BY FS_Singleton
<1> HIDE DEF t, last
<1>4. Agrees(NewRow(e), t, x)
  BY <1>1, <1>2, <1>3, EventParts DEF Agrees, NewRow, IsFirst
<1> QED
  BY <1>4 DEF t

\* Folding a later event into a row that agrees makes one that agrees.
LEMMA LaterEvent ==
  ASSUME NEW s \in Seq(Events), NEW e \in Events, NEW x, x = e.execution,
         NEW row, Agrees(row, s, x)
  PROVE  Agrees(Folded(row, e), Append(s, e), x)
<1> DEFINE t == Append(s, e)
           last == Len(s) + 1
           new == Folded(row, e)
           settles == row.status = "STARTED" /\ Terminal(e.status)
<1>1. /\ \A n \in Places(s, x) : t[n] = s[n] /\ n < last /\ n \in Nat
      /\ last \in Nat /\ t[last] = e /\ last \notin Places(s, x)
      /\ IsFiniteSet(Places(s, x))
      /\ Places(t, x) = Places(s, x) \cup {last}
      /\ Outcomes(t, x) = Outcomes(s, x) \cup (IF Terminal(e.status) THEN {last} ELSE {})
      /\ Correlated(t, x) = Correlated(s, x) \cup
                              (IF e.correlation # Null THEN {last} ELSE {})
      /\ Outcomes(s, x) \subseteq Places(s, x) /\ Correlated(s, x) \subseteq Places(s, x)
      /\ \A n \in Places(s, x) : s[n] \in Events
  <2>1. Appends(t, s, e, x)
    BY Appended
  <2>2. Outcomes(s, x) \subseteq Places(s, x) /\ Correlated(s, x) \subseteq Places(s, x)
    BY DEF Outcomes, Correlated
  <2> HIDE DEF t
  <2> QED
    BY <2>1, <2>2 DEF Appends
<1>2. row \in Row /\ new \in Row
  BY RowsStayRows DEF Agrees
<1>3. /\ new.first = Least(row.first, e.at) /\ new.latest = Greatest(row.latest, e.at)
      /\ new.count = row.count + 1
      /\ new.status = (IF settles THEN e.status ELSE row.status)
      /\ new.errorCode = (IF settles THEN e.errorCode ELSE row.errorCode)
      /\ new.correlation = (IF row.correlation = Null THEN e.correlation
                                                      ELSE row.correlation)
  BY <1>2 DEF Folded, Row
<1>4. /\ row.first \in Int /\ row.latest \in Int /\ e.at \in Int
      /\ row.count \in Nat
      /\ \A n \in Places(s, x) : s[n].at \in Int
  BY <1>1, <1>2, EventParts, TelemetryAssumption DEF Row
<1> HIDE DEF t, last, new
<1>5. Agrees(row, s, x)
  OBVIOUS
<1>6. new.count = Cardinality(Places(t, x))
  <2>1. Cardinality(Places(s, x) \cup {last}) = Cardinality(Places(s, x)) + 1
    BY <1>1, FS_AddElement
  <2> QED
    BY <1>1, <1>3, <1>5, <2>1 DEF Agrees
<1>7. \A n \in Places(t, x) : new.first <= t[n].at /\ t[n].at <= new.latest
  <2>1. ASSUME NEW n \in Places(s, x)
        PROVE  new.first <= t[n].at /\ t[n].at <= new.latest
    <3>1. t[n] = s[n] /\ row.first <= s[n].at /\ s[n].at <= row.latest /\ s[n].at \in Int
      BY <1>1, <1>4, <1>5 DEF Agrees
    <3>2. new.first <= row.first /\ row.latest <= new.latest
          /\ new.first \in Int /\ new.latest \in Int
      BY <1>3, <1>4 DEF Least, Greatest
    <3> QED
      BY <1>4, <3>1, <3>2
  <2>2. new.first <= t[last].at /\ t[last].at <= new.latest
    BY <1>1, <1>3, <1>4 DEF Least, Greatest
  <2> QED
    BY <1>1, <2>1, <2>2
<1>8. /\ \E n \in Places(t, x) : new.first = t[n].at
      /\ \E n \in Places(t, x) : new.latest = t[n].at
  <2>1. PICK n \in Places(s, x) : row.first = s[n].at
    BY <1>5 DEF Agrees
  <2>2. PICK m \in Places(s, x) : row.latest = s[m].at
    BY <1>5 DEF Agrees
  <2>3. {n, m, last} \subseteq Places(t, x)
    BY <1>1
  <2> QED
    BY <1>1, <1>3, <2>1, <2>2, <2>3 DEF Least, Greatest
<1>9. \E n \in Places(t, x) :
        /\ IsFirst(n, IF Outcomes(t, x) = {} THEN Places(t, x) ELSE Outcomes(t, x))
        /\ new.status = t[n].status
        /\ new.errorCode = t[n].errorCode
  <2>1. PICK n \in Places(s, x) :
          /\ IsFirst(n, IF Outcomes(s, x) = {} THEN Places(s, x) ELSE Outcomes(s, x))
          /\ row.status = s[n].status
          /\ row.errorCode = s[n].errorCode
    BY <1>5 DEF Agrees
  <2>2. \A k \in Places(s, x) : n <= k => n <= last
    BY <1>1
  <2>3. CASE Outcomes(s, x) # {}
    <3>1. row.status # "STARTED"
      BY <2>1, <2>3 DEF IsFirst, Outcomes, Terminal
    <3>2. IsFirst(n, Outcomes(t, x)) /\ Outcomes(t, x) # {}
      BY <1>1, <2>1, <2>3 DEF IsFirst
    <3> QED
      BY <1>1, <1>3, <2>1, <3>1, <3>2
  <2>4. CASE Outcomes(s, x) = {}
    <3>1. row.status = "STARTED"
      BY <2>1, <2>4 DEF IsFirst, Outcomes, Terminal
    <3>2. CASE Terminal(e.status)
      <4>1. Outcomes(t, x) = {last} /\ IsFirst(last, Outcomes(t, x))
        BY <1>1, <2>4, <3>2 DEF IsFirst
      <4> QED
        BY <1>1, <1>3, <3>1, <3>2, <4>1
    <3>3. CASE ~Terminal(e.status)
      <4>1. Outcomes(t, x) = {} /\ IsFirst(n, Places(t, x))
        BY <1>1, <2>1, <2>4, <3>3 DEF IsFirst
      <4> QED
        BY <1>1, <1>3, <2>1, <3>3, <4>1
    <3> QED
      BY <3>2, <3>3
  <2> QED
    BY <2>3, <2>4
<1>10. IF Correlated(t, x) = {} THEN new.correlation = Null
       ELSE \E n \in Places(t, x) : /\ IsFirst(n, Correlated(t, x))
                                    /\ new.correlation = t[n].correlation
  <2>1. CASE Correlated(s, x) = {}
    <3>1. row.correlation = Null
      BY <1>5, <2>1 DEF Agrees
    <3>2. e.correlation # Null => IsFirst(last, Correlated(t, x))
      BY <1>1, <2>1 DEF IsFirst
    <3> QED
      BY <1>1, <1>3, <2>1, <3>1, <3>2
  <2>2. CASE Correlated(s, x) # {}
    <3>1. PICK n \in Places(s, x) : /\ IsFirst(n, Correlated(s, x))
                                    /\ row.correlation = s[n].correlation
      BY <1>5, <2>2 DEF Agrees
    <3>2. row.correlation # Null
      BY <3>1 DEF IsFirst, Correlated
    <3>3. IsFirst(n, Correlated(t, x)) /\ Correlated(t, x) # {}
      BY <1>1, <3>1 DEF IsFirst
    <3> QED
      BY <1>1, <1>3, <3>1, <3>2, <3>3
  <2> QED
    BY <2>1, <2>2
<1>11. Agrees(new, t, x)
  BY <1>2, <1>6, <1>7, <1>8, <1>9, <1>10 DEF Agrees
<1> QED
  BY <1>11 DEF new, t

\* The row of an execution says of its events how many there are, when they were,
\* which outcome came first and by which identifier they are correlated, in
\* whatever order they arrived.
THEOREM AggregatesAgree == Spec => []AggregateMatchesEvents
<1>1. Init => RowsAgree
  BY DEF Init, RowsAgree, Places
<1>2. TypeOK /\ RowsAgree /\ [Next]_vars => RowsAgree'
  <2> SUFFICES ASSUME TypeOK, RowsAgree, [Next]_vars, NEW x \in Executions
               PROVE  IF Places(accepted', x) = {} THEN executions'[x] = Null
                      ELSE Agrees(executions'[x], accepted', x)
    BY DEF RowsAgree
  <2>1. CASE UNCHANGED <<accepted, executions>>
    BY <2>1 DEF RowsAgree
  <2>2. ASSUME NEW r \in Requests, Accept(r)
        PROVE  IF Places(accepted', x) = {} THEN executions'[x] = Null
               ELSE Agrees(executions'[x], accepted', x)
    <3> DEFINE e == request[r].event
    <3>1. e \in Events /\ accepted \in Seq(Events) /\ accepted' = Append(accepted, e)
      BY <2>2 DEF Accept, TypeOK
    <3>2. executions'[x] = IF x # e.execution THEN executions[x]
                           ELSE IF executions[x] = Null THEN NewRow(e)
                           ELSE Folded(executions[x], e)
      BY <2>2 DEF Accept, updateExecution, TypeOK
    <3> HIDE DEF e
    <3>3. CASE x = e.execution
      <4>1. Places(accepted', x) # {}
        BY <3>1, <3>3, Appended DEF Appends
      <4>2. CASE Places(accepted, x) = {}
        <5>1. executions'[x] = NewRow(e)
          BY <3>2, <3>3, <4>2 DEF RowsAgree
        <5> QED
          BY <3>1, <3>3, <4>1, <4>2, <5>1, FirstEvent
      <4>3. CASE Places(accepted, x) # {}
        <5>1. Agrees(executions[x], accepted, x)
          BY <4>3 DEF RowsAgree
        <5>2. executions'[x] = Folded(executions[x], e)
          BY <3>2, <3>3, <5>1, TelemetryAssumption DEF Agrees
        <5> QED
          BY <3>1, <3>3, <4>1, <5>1, <5>2, LaterEvent
      <4> QED
        BY <4>2, <4>3
    <3>4. CASE x # e.execution
      <4>1. /\ Places(accepted', x) = Places(accepted, x)
            /\ Outcomes(accepted', x) = Outcomes(accepted, x)
            /\ Correlated(accepted', x) = Correlated(accepted, x)
            /\ \A n \in Places(accepted, x) : accepted'[n] = accepted[n]
        BY <3>1, <3>4, Appended DEF Appends
      <4> QED
        BY <3>2, <3>4, <4>1 DEF RowsAgree, Agrees
    <3> QED
      BY <3>3, <3>4
  <2> QED
    BY <2>1, <2>2, OtherSteps
<1>3. TypeOK /\ RowsAgree => AggregateMatchesEvents
  <2> SUFFICES ASSUME TypeOK, RowsAgree, NEW x \in Executions, Places(accepted, x) # {}
               PROVE  LET S == Places(accepted, x)
                          T == Outcomes(accepted, x)
                          C == Correlated(accepted, x)
                          row == executions[x]
                          decisive == accepted[FirstOf(IF T = {} THEN S ELSE T)]
                      IN  /\ row.count = Cardinality(S)
                          /\ \A n \in S : accepted[n].at \in row.first..row.latest
                          /\ {row.first, row.latest} \subseteq {accepted[n].at : n \in S}
                          /\ row.status = decisive.status
                          /\ row.errorCode = decisive.errorCode
                          /\ row.correlation = IF C = {} THEN Null
                                               ELSE accepted[FirstOf(C)].correlation
    BY DEF AggregateMatchesEvents, RowsAgree, StoredOf, Places, Outcomes, Correlated
  <2>1. Agrees(executions[x], accepted, x)
    BY DEF RowsAgree
  <2>2. /\ Places(accepted, x) \subseteq Nat /\ Outcomes(accepted, x) \subseteq Nat
        /\ Correlated(accepted, x) \subseteq Nat
    BY DEF Places, Outcomes, Correlated, TypeOK
  <2>3. \A n \in Places(accepted, x) : accepted[n].at \in Int
    BY EventParts DEF Places, TypeOK
  <2>4. executions[x].first \in Int /\ executions[x].latest \in Int
    BY <2>1, TelemetryAssumption DEF Agrees, Row
  <2> QED
    BY <2>1, <2>2, <2>3, <2>4, FirstIsFirst DEF Agrees
<1> QED
  BY <1>1, <1>2, <1>3, TypeCorrect, PTL DEF Spec
=============================================================================
