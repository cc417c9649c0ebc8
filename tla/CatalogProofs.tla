---------------------------- MODULE CatalogProofs ----------------------------
(***************************************************************************)
(* Theorems about Catalog and Startup, for every set of processes, automa- *)
(* tions, checkouts, releases and migration jobs.  However many API proces-*)
(* ses start at once, the audit trail keeps up with the catalog.  The argu-*)
(* ment is the row lock: a transaction that has seen or written a row is   *)
(* the only one that can change it.  Migration scripts take effect once,   *)
(* jobs that run at the same time do not fail each other, and an API runs  *)
(* on the schema it was built for.  The argument is the advisory lock.     *)
(***************************************************************************)
EXTENDS Startup, TLAPS

\* The loop of a process is at an entry of its checkout or behind the last.
Positions ==
  \A p \in Processes :
    /\ position[p] > 0
    /\ phase[p] = "upsert" => position[p] \in DOMAIN checkout[p]

\* What a transaction has written it has locked.
DraftsAreLocked ==
  \A p \in Processes : \A a \in Automations : draft[p][a] # Null => rowLock[a] = p

\* A row the select found is locked, and still what the select found.
Selected(p, a) ==
  /\ rowLock[a] = p
  /\ automations[a] # Null
  /\ automations[a].checksum = previous[p]

SelectionsHold ==
  \A p \in Processes :
    phase[p] = "upsert" /\ previous[p] # Null => Selected(p, Current(p).id)

\* The draft of a row says what it changes of the committed row.
Follows(d, row) ==
  \/ d.records = <<>> /\ row # Null /\ row.checksum = d.manifest.checksum
  \/ \E r \in AuditRecord :
       /\ d.records = <<r>> /\ r.current = d.manifest.checksum
       /\ r.event = "SOURCE_CHECKSUM_CHANGED" => row # Null /\ r.before = row.checksum

DraftsFollow ==
  \A p \in Processes : \A a \in Automations :
    draft[p][a] # Null => Follows(draft[p][a], automations[a])

CatalogInv ==
  TypeOK /\ Positions /\ DraftsAreLocked /\ SelectionsHold /\ DraftsFollow
    /\ AuditTracksCatalog /\ ChangesFollowOn

-----------------------------------------------------------------------------
\* The invariant holds of an empty catalog.
LEMMA InitHolds == Init => CatalogInv
<1> SUFFICES ASSUME Init PROVE CatalogInv
  OBVIOUS
<1>1. TypeOK
  BY DEF Init, TypeOK
<1> QED
  BY <1>1, CatalogAssumption
     DEF Init, CatalogInv, Positions, DraftsAreLocked, SelectionsHold, DraftsFollow,
         AuditTracksCatalog, ChangesFollowOn, Registered

\* loadCatalog.
LEMMA LoadKeeps ==
  ASSUME CatalogInv, NEW p \in Processes, Load(p)
  PROVE  CatalogInv'
<1> USE DEF CatalogInv, TypeOK
<1>1. PICK c \in Checkouts : checkout' = [checkout EXCEPT ![p] = c]
  BY DEF Load
<1>2. /\ phase' = [phase EXCEPT ![p] = "select"]
      /\ UNCHANGED <<automations, audit, position, previous, draft, rowLock>>
  BY DEF Load
<1>3. TypeOK'
  BY <1>1, <1>2
<1>4. Positions'
  BY <1>1, <1>2 DEF Positions
<1>5. SelectionsHold'
  BY <1>1, <1>2 DEF SelectionsHold, Selected, Current
<1>6. DraftsAreLocked' /\ DraftsFollow'
  BY <1>2 DEF DraftsAreLocked, DraftsFollow, Follows
<1>7. AuditTracksCatalog' /\ ChangesFollowOn'
  BY <1>2 DEF AuditTracksCatalog, ChangesFollowOn, Registered
<1> QED
  BY <1>3, <1>4, <1>5, <1>6, <1>7

Entry == [id : Automations, manifest : Manifests]

\* A checkout that is not loaded yet is the empty sequence.
LEMMA CheckoutTypes ==
  ASSUME TypeOK, NEW p \in Processes
  PROVE  checkout[p] \in Seq(Entry)
<1>1. CASE checkout[p] = <<>>
  BY <1>1
<1>2. CASE checkout[p] # <<>>
  BY <1>2, CatalogAssumption DEF TypeOK, Entry
<1> QED
  BY <1>1, <1>2

\* The entry a process is at.
LEMMA EntryAt ==
  ASSUME TypeOK, NEW p \in Processes, position[p] \in DOMAIN checkout[p]
  PROVE  /\ Current(p) \in Entry
         /\ Current(p).id \in Automations /\ Current(p).manifest \in Manifests
<1>1. Current(p) \in Entry
  BY CheckoutTypes DEF Current
<1> QED
  BY <1>1 DEF Entry

\* A process that is not at the end of its catalog is at an entry.
LEMMA AtEntry ==
  ASSUME TypeOK, Positions, NEW p \in Processes, ~Finished(p)
  PROVE  position[p] \in DOMAIN checkout[p]
<1>1. Len(checkout[p]) \in Nat /\ DOMAIN checkout[p] = 1..Len(checkout[p])
  BY CheckoutTypes
<1>2. position[p] \in Nat /\ position[p] > 0 /\ ~(position[p] > Len(checkout[p]))
  BY DEF TypeOK, Positions, Finished
<1> QED
  BY <1>1, <1>2

\* select ... for update.
LEMMA SelectKeeps ==
  ASSUME CatalogInv, NEW p \in Processes, SelectRow(p)
  PROVE  CatalogInv'
<1> DEFINE a == Current(p).id
<1> USE DEF CatalogInv
<1>1. /\ a \in Automations /\ position[p] \in DOMAIN checkout[p]
  BY EntryAt, AtEntry DEF SelectRow
<1>2. /\ phase' = [phase EXCEPT ![p] = "upsert"]
      /\ previous' = [previous EXCEPT ![p] = Found(a)]
      /\ LockExisting(p, a)
      /\ UNCHANGED <<automations, audit, checkout, position, draft>>
  BY DEF SelectRow
<1>3. \A q \in Processes : Current(q)' = Current(q)
  BY <1>2 DEF Current
<1>4. \A b \in Automations : rowLock[b] # Null => rowLock'[b] = rowLock[b]
  BY <1>1, <1>2 DEF LockExisting, TypeOK
<1>5. rowLock' \in [Automations -> Processes \cup {Null}]
  BY <1>2 DEF LockExisting, TypeOK
<1>6. automations[a] # Null => rowLock'[a] = p /\ Found(a) = automations[a].checksum
  BY <1>1, <1>2 DEF LockExisting, TypeOK, Found
<1>7. automations[a] = Null => Found(a) = Null
  BY DEF Found
<1>8. Found(a) \in Checksums \cup {Null}
  BY <1>1, <1>6, <1>7 DEF TypeOK, Checksums
<1>9. \A q \in Processes : Current(q).id = Current(q)'.id
  BY <1>3
<1> HIDE DEF a
<1>10. TypeOK'
  BY <1>2, <1>5, <1>8 DEF TypeOK
<1>11. Positions'
  BY <1>1, <1>2 DEF Positions, TypeOK
<1>12. SelectionsHold'
  <2> SUFFICES ASSUME NEW q \in Processes, phase'[q] = "upsert", previous'[q] # Null
               PROVE  Selected(q, Current(q).id)'
    BY DEF SelectionsHold
  <2>1. CASE q = p
    <3>1. Current(q)'.id = a
      BY <1>3, <2>1 DEF a
    <3>2. previous'[p] = Found(a)
      BY <1>2 DEF TypeOK
    <3> QED
      BY <1>2, <1>6, <1>7, <2>1, <3>1, <3>2 DEF Selected
  <2>2. CASE q # p
    <3>1. Selected(q, Current(q).id) /\ previous'[q] = previous[q]
      BY <1>2, <2>2 DEF SelectionsHold, TypeOK
    <3>2. position[q] \in DOMAIN checkout[q]
      BY <1>2, <2>2 DEF Positions, TypeOK
    <3>3. Current(q).id \in Automations
      BY <3>2, EntryAt
    <3> QED
      BY <1>2, <1>3, <1>4, <3>1, <3>3, CatalogAssumption DEF Selected
  <2> QED
    BY <2>1, <2>2
<1>13. DraftsAreLocked' /\ DraftsFollow'
  BY <1>2, <1>4, CatalogAssumption DEF DraftsAreLocked, DraftsFollow, Follows
<1>14. AuditTracksCatalog' /\ ChangesFollowOn'
  BY <1>2 DEF AuditTracksCatalog, ChangesFollowOn, Registered
<1> QED
  BY <1>10, <1>11, <1>12, <1>13, <1>14
\* The upsert and the audit records of its row.
LEMMA UpsertKeeps ==
  ASSUME CatalogInv, NEW p \in Processes, UpsertRow(p)
  PROVE  CatalogInv'
<1> DEFINE a == Current(p).id
           m == Current(p).manifest
           d == [manifest |-> m, records |-> RecordsOf(previous[p], m.checksum)]
<1> USE DEF CatalogInv
<1>1. /\ a \in Automations /\ m \in Manifests /\ position[p] \in DOMAIN checkout[p]
      /\ phase[p] = "upsert"
  BY EntryAt DEF UpsertRow, Positions
<1>2. /\ rowLock[a] \in {Null, p} /\ rowLock' = [rowLock EXCEPT ![a] = p]
      /\ draft' = [draft EXCEPT ![p][a] = d]
      /\ position' = [position EXCEPT ![p] = @ + 1]
      /\ phase' = [phase EXCEPT ![p] = "select"]
      /\ UNCHANGED <<automations, audit, checkout, previous>>
  BY DEF UpsertRow
<1>3. m.checksum \in Checksums /\ m.checksum # Null
  BY <1>1, CatalogAssumption DEF Checksums
<1>4. previous[p] # Null => Selected(p, a)
  BY <1>1 DEF SelectionsHold
<1>5. d.manifest = m /\ d.records = RecordsOf(previous[p], m.checksum)
  OBVIOUS
<1>6. Follows(d, automations[a])
  <2>1. CASE previous[p] = m.checksum
    BY <1>3, <1>4, <1>5, <2>1 DEF Follows, RecordsOf, Selected
  <2>2. CASE previous[p] # m.checksum
    <3> DEFINE r == [event |-> IF previous[p] = Null THEN "REGISTERED"
                                ELSE "SOURCE_CHECKSUM_CHANGED",
                     before |-> previous[p], current |-> m.checksum]
    <3>1. d.records = <<r>>
      BY <1>5, <2>2 DEF RecordsOf
    <3>2. r \in AuditRecord /\ r.current = d.manifest.checksum
      BY <1>3, <1>5 DEF AuditRecord, TypeOK
    <3>3. r.event = "SOURCE_CHECKSUM_CHANGED" =>
            automations[a] # Null /\ r.before = automations[a].checksum
      BY <1>4 DEF Selected
    <3> HIDE DEF r
    <3> QED
      BY <3>1, <3>2, <3>3 DEF Follows
  <2> QED
    BY <2>1, <2>2
<1>7. d \in Draft
  <2>1. d.records \in Seq(AuditRecord)
    <3>1. d.records = <<>> \/ \E r \in AuditRecord : d.records = <<r>>
      BY <1>6, Zenon DEF Follows
    <3>2. <<>> \in Seq(AuditRecord) /\ \A r \in AuditRecord : <<r>> \in Seq(AuditRecord)
      OBVIOUS
    <3> QED
      BY <3>1, <3>2, Zenon
  <2> QED
    BY <1>1, <1>5, <2>1 DEF Draft
<1> HIDE DEF a, d, m
<1>8. TypeOK'
  BY <1>1, <1>2, <1>7 DEF TypeOK
<1>9. Positions'
  BY <1>1, <1>2 DEF Positions, TypeOK
<1>10. DraftsAreLocked'
  BY <1>1, <1>2, CatalogAssumption DEF DraftsAreLocked, TypeOK
<1>11. DraftsFollow'
  <2> SUFFICES ASSUME NEW q \in Processes, NEW b \in Automations, draft'[q][b] # Null
               PROVE  Follows(draft'[q][b], automations'[b])
    BY DEF DraftsFollow, Follows
  <2>1. CASE q = p /\ b = a
    BY <1>1, <1>2, <1>6, <2>1 DEF TypeOK
  <2>2. CASE ~(q = p /\ b = a)
    BY <1>1, <1>2, <2>2 DEF TypeOK, DraftsFollow
  <2> QED
    BY <2>1, <2>2
<1>12. SelectionsHold'
  <2> SUFFICES ASSUME NEW q \in Processes, phase'[q] = "upsert", previous'[q] # Null
               PROVE  Selected(q, Current(q).id)'
    BY DEF SelectionsHold
  <2>1. q # p /\ phase[q] = "upsert" /\ previous[q] # Null
    BY <1>2 DEF TypeOK
  <2>2. Current(q)' = Current(q) /\ Selected(q, Current(q).id)
    BY <1>2, <2>1 DEF Current, SelectionsHold, TypeOK
  <2>3. Current(q).id \in Automations
    BY <2>1, EntryAt DEF Positions
  <2> QED
    BY <1>1, <1>2, <2>1, <2>2, <2>3, CatalogAssumption DEF Selected, TypeOK
<1>13. AuditTracksCatalog' /\ ChangesFollowOn'
  BY <1>2 DEF AuditTracksCatalog, ChangesFollowOn, Registered
<1> QED
  BY <1>8, <1>9, <1>10, <1>11, <1>12, <1>13

\* The end of a transaction keeps the locks of the others, and what they selected
\* and wrote as long as the rows they have locked stay.
LEMMA EndKeeps ==
  ASSUME CatalogInv, NEW p \in Processes, EndTransaction(p),
         automations' \in [Automations -> Manifests \cup {Null}],
         audit' \in [Automations -> Seq(AuditRecord)],
         \A b \in Automations : rowLock[b] \notin {p, Null} => automations'[b] = automations[b]
  PROVE  TypeOK' /\ Positions' /\ DraftsAreLocked' /\ SelectionsHold' /\ DraftsFollow'
<1> USE DEF CatalogInv, EndTransaction
<1>1. TypeOK'
  BY DEF TypeOK
<1>2. Positions'
  BY DEF Positions, TypeOK
<1>3. \A b \in Automations : \A q \in Processes \ {p} :
        rowLock[b] = q => rowLock'[b] = q /\ automations'[b] = automations[b]
  BY CatalogAssumption
<1>4. \A q \in Processes \ {p} : draft'[q] = draft[q] /\ phase'[q] = phase[q]
                               /\ previous'[q] = previous[q]
  BY DEF TypeOK
<1>5. \A b \in Automations : draft'[p][b] = Null
  BY DEF TypeOK
<1>6. DraftsAreLocked'
  BY <1>3, <1>4, <1>5 DEF DraftsAreLocked
<1>7. DraftsFollow'
  <2> SUFFICES ASSUME NEW q \in Processes, NEW b \in Automations, draft'[q][b] # Null
               PROVE  Follows(draft'[q][b], automations'[b])
    BY DEF DraftsFollow, Follows
  <2>1. q # p
    BY <1>5
  <2>2. rowLock[b] = q /\ Follows(draft[q][b], automations[b])
    BY <1>4, <2>1 DEF DraftsAreLocked, DraftsFollow
  <2>3. draft'[q][b] = draft[q][b] /\ automations'[b] = automations[b]
    BY <1>3, <1>4, <2>1, <2>2
  <2> QED
    BY <2>2, <2>3
<1>8. SelectionsHold'
  <2> SUFFICES ASSUME NEW q \in Processes, phase'[q] = "upsert", previous'[q] # Null
               PROVE  Selected(q, Current(q).id)'
    BY DEF SelectionsHold
  <2>1. q # p /\ phase[q] = "upsert" /\ previous[q] # Null
    BY <1>4 DEF TypeOK
  <2>2. Current(q)' = Current(q) /\ Selected(q, Current(q).id)
    BY <2>1 DEF Current, SelectionsHold
  <2>3. Current(q).id \in Automations
    BY <2>1, EntryAt DEF Positions
  <2> QED
    BY <1>3, <1>4, <2>1, <2>2, <2>3 DEF Selected
<1> QED
  BY <1>1, <1>2, <1>6, <1>7, <1>8

\* The commit shows the drafts and their records.
LEMMA CommitKeeps ==
  ASSUME CatalogInv, NEW p \in Processes, Commit(p)
  PROVE  CatalogInv'
<1> DEFINE W == Written(draft[p])
<1> USE DEF CatalogInv
<1>1. /\ EndTransaction(p)
      /\ automations' = [a \in Automations |->
           IF a \in W THEN draft[p][a].manifest ELSE automations[a]]
      /\ audit' = [a \in Automations |->
           IF a \in W THEN audit[a] \o draft[p][a].records ELSE audit[a]]
  BY DEF Commit
<1>2. \A a \in Automations : a \notin W =>
        automations'[a] = automations[a] /\ audit'[a] = audit[a]
  BY <1>1
<1>3. \A a \in Automations : rowLock[a] \notin {p, Null} => a \notin W
  BY DEF Written, DraftsAreLocked
<1>4. ASSUME NEW a \in Automations, a \in W
      PROVE  /\ automations'[a] = draft[p][a].manifest
             /\ audit'[a] = audit[a] \o draft[p][a].records
             /\ draft[p][a] \in Draft /\ Follows(draft[p][a], automations[a])
             /\ automations'[a] \in Manifests
             /\ draft[p][a].records \in Seq(AuditRecord)
             /\ audit[a] \in Seq(AuditRecord) /\ audit'[a] \in Seq(AuditRecord)
  <2>1. draft[p][a] \in Draft /\ Follows(draft[p][a], automations[a])
    BY <1>4 DEF Written, DraftsFollow, TypeOK
  <2>2. draft[p][a].manifest \in Manifests /\ draft[p][a].records \in Seq(AuditRecord)
    BY <2>1 DEF Draft
  <2> QED
    BY <1>1, <1>4, <2>1, <2>2 DEF TypeOK
<1> HIDE DEF W
<1>5. TypeOK' /\ Positions' /\ DraftsAreLocked' /\ SelectionsHold' /\ DraftsFollow'
  <2>1. automations' \in [Automations -> Manifests \cup {Null}]
    BY <1>1, <1>2, <1>4 DEF TypeOK
  <2>2. audit' \in [Automations -> Seq(AuditRecord)]
    BY <1>1, <1>2, <1>4 DEF TypeOK
  <2> QED
    BY <1>1, <1>2, <1>3, <2>1, <2>2, EndKeeps
<1>6. ASSUME NEW a \in Automations, a \in W
      PROVE  /\ automations'[a] # Null /\ audit'[a] # <<>>
             /\ audit'[a][Len(audit'[a])].current = automations'[a].checksum
             /\ \A n \in DOMAIN audit'[a] :
                  audit'[a][n].event = "SOURCE_CHECKSUM_CHANGED" =>
                    n > 1 /\ audit'[a][n].before = audit'[a][n - 1].current
  <2> DEFINE s == audit[a]
             row == automations[a]
             d == draft[p][a]
  <2>1. /\ (row # Null) <=> (s # <<>>)
        /\ row # Null => s[Len(s)].current = row.checksum
        /\ \A n \in DOMAIN s : s[n].event = "SOURCE_CHECKSUM_CHANGED" =>
             n > 1 /\ s[n].before = s[n - 1].current
        /\ s \in Seq(AuditRecord)
        /\ automations'[a] = d.manifest /\ audit'[a] = s \o d.records
    BY <1>4, <1>6 DEF AuditTracksCatalog, ChangesFollowOn, Registered
  <2>2. automations'[a] # Null
    BY <1>4, <1>6, CatalogAssumption
  <2>3. Follows(d, row)
    BY <1>4, <1>6
  <2> HIDE DEF s, row, d
  <2>4. CASE d.records = <<>> /\ row # Null /\ row.checksum = d.manifest.checksum
    <3>1. audit'[a] = s
      BY <2>1, <2>4
    <3> QED
      BY <2>1, <2>2, <2>4, <3>1
  <2>5. ASSUME NEW r \in AuditRecord, d.records = <<r>>, r.current = d.manifest.checksum,
               r.event = "SOURCE_CHECKSUM_CHANGED" => row # Null /\ r.before = row.checksum
        PROVE  /\ audit'[a] # <<>>
               /\ audit'[a][Len(audit'[a])].current = automations'[a].checksum
               /\ \A n \in DOMAIN audit'[a] :
                    audit'[a][n].event = "SOURCE_CHECKSUM_CHANGED" =>
                      n > 1 /\ audit'[a][n].before = audit'[a][n - 1].current
    <3> DEFINE t == s \o <<r>>
               last == Len(s) + 1
    <3>1. /\ Len(t) = last /\ last \in Nat /\ Len(s) \in Nat
          /\ DOMAIN t = 1..last /\ DOMAIN s = 1..Len(s)
          /\ t[last] = r /\ t # <<>>
          /\ \A n \in 1..Len(s) : t[n] = s[n]
      BY <2>1, <2>5
    <3>2. audit'[a] = t
      BY <2>1, <2>5
    <3>3. s # <<>> => Len(s) > 0
      BY <2>1
    <3> HIDE DEF t
    <3>4. ASSUME NEW n \in 1..last, t[n].event = "SOURCE_CHECKSUM_CHANGED"
          PROVE  n > 1 /\ t[n].before = t[n - 1].current
      <4>1. CASE n = last
        <5>1. row # Null /\ r.before = row.checksum /\ s # <<>>
          BY <2>1, <2>5, <3>1, <3>4, <4>1
        <5>2. Len(s) > 0 /\ n - 1 = Len(s) /\ t[n - 1] = s[Len(s)]
          BY <3>1, <3>3, <4>1, <5>1
        <5> QED
          BY <2>1, <3>1, <4>1, <5>1, <5>2
      <4>2. CASE n # last
        <5>1. n \in 1..Len(s)
          BY <3>1, <4>2
        <5>2. n > 1 /\ s[n].before = s[n - 1].current
          BY <2>1, <3>1, <3>4, <5>1
        <5>3. n - 1 \in 1..Len(s)
          BY <3>1, <5>1, <5>2
        <5> QED
          BY <3>1, <5>1, <5>2, <5>3
      <4> QED
        BY <4>1, <4>2
    <3> QED
      BY <2>1, <2>5, <3>1, <3>2, <3>4
  <2> QED
    BY <2>2, <2>3, <2>4, <2>5 DEF Follows
<1>7. AuditTracksCatalog'
  BY <1>2, <1>6 DEF AuditTracksCatalog, Registered
<1>8. ChangesFollowOn'
  BY <1>2, <1>6 DEF ChangesFollowOn
<1> QED
  BY <1>5, <1>7, <1>8

\* No step takes a record back or a row away.
LEMMA TrailGrows ==
  ASSUME CatalogInv, [Next]_vars, NEW a \in Automations
  PROVE  /\ Registered(a) => Registered(a)'
         /\ \A n \in DOMAIN audit[a] : n \in DOMAIN audit'[a] /\ audit'[a][n] = audit[a][n]
<1>1. ASSUME NEW p \in Processes, Commit(p)
      PROVE  /\ Registered(a) => Registered(a)'
             /\ \A n \in DOMAIN audit[a] :
                  n \in DOMAIN audit'[a] /\ audit'[a][n] = audit[a][n]
  <2>1. CASE a \in Written(draft[p])
    <3>1. draft[p][a] \in Draft /\ audit[a] \in Seq(AuditRecord)
      BY <2>1 DEF Written, CatalogInv, TypeOK
    <3>2. draft[p][a].manifest \in Manifests /\ draft[p][a].records \in Seq(AuditRecord)
      BY <3>1 DEF Draft
    <3>3. /\ automations'[a] = draft[p][a].manifest
          /\ audit'[a] = audit[a] \o draft[p][a].records
      BY <1>1, <2>1 DEF Commit
    <3>4. \A n \in DOMAIN audit[a] : n \in DOMAIN audit'[a] /\ audit'[a][n] = audit[a][n]
      <4> DEFINE s == audit[a]
                 new == draft[p][a].records
      <4>1. s \in Seq(AuditRecord) /\ new \in Seq(AuditRecord) /\ audit'[a] = s \o new
        BY <3>1, <3>2, <3>3
      <4> HIDE DEF s, new
      <4>2. \A n \in DOMAIN s : n \in DOMAIN (s \o new) /\ (s \o new)[n] = s[n]
        BY <4>1
      <4> QED
        BY <4>1, <4>2 DEF s
    <3>5. Registered(a)'
      BY <3>2, <3>3, CatalogAssumption DEF Registered
    <3> QED
      BY <3>4, <3>5
  <2>2. CASE a \notin Written(draft[p])
    BY <1>1, <2>2 DEF Commit, Registered
  <2> QED
    BY <2>1, <2>2
<1>2. CASE UNCHANGED <<automations, audit>>
  BY <1>2 DEF Registered
<1> QED
  BY <1>1, <1>2 DEF Next, Start, Load, SelectRow, UpsertRow, Abort, vars

\* A rollback shows nothing.
LEMMA AbortKeeps ==
  ASSUME CatalogInv, NEW p \in Processes, Abort(p)
  PROVE  CatalogInv'
<1>1. EndTransaction(p) /\ UNCHANGED <<automations, audit>>
  BY DEF Abort
<1>2. TypeOK' /\ Positions' /\ DraftsAreLocked' /\ SelectionsHold' /\ DraftsFollow'
  BY <1>1, EndKeeps DEF CatalogInv, TypeOK
<1>3. AuditTracksCatalog' /\ ChangesFollowOn'
  BY <1>1 DEF CatalogInv, AuditTracksCatalog, ChangesFollowOn, Registered
<1> QED
  BY <1>2, <1>3 DEF CatalogInv

\* The invariant is inductive.
LEMMA StepKeeps ==
  ASSUME CatalogInv, [Next]_vars
  PROVE  CatalogInv'
<1>1. ASSUME NEW p \in Processes, Start(p) PROVE CatalogInv'
  BY <1>1, LoadKeeps, SelectKeeps, UpsertKeeps, CommitKeeps, AbortKeeps DEF Start
<1>2. CASE UNCHANGED vars
  <2>1. \A p \in Processes : Current(p)' = Current(p)
    BY <1>2 DEF vars, Current
  <2> QED
    BY <1>2, <2>1 DEF vars, CatalogInv, TypeOK, Positions, DraftsAreLocked, SelectionsHold,
          Selected, DraftsFollow, Follows, AuditTracksCatalog, ChangesFollowOn, Registered
<1> QED
  BY <1>1, <1>2 DEF Next

\* So it holds throughout: type correctness, and what the locks of the open
\* transactions protect.
THEOREM Inductive == Spec => []CatalogInv
<1>1. CatalogInv /\ [Next]_vars => CatalogInv'
  BY StepKeeps
<1> QED
  BY InitHolds, <1>1, PTL DEF Spec

\* The catalog and its audit trail agree, although each process writes them from
\* what it selected before it had the lock of a new row.
THEOREM AuditTracks == Spec => []AuditTracksCatalog
<1>1. CatalogInv => AuditTracksCatalog
  BY DEF CatalogInv
<1> QED
  BY <1>1, Inductive, PTL

\* Every recorded change starts from where the record before it ended.
THEOREM ChangesFollow == Spec => []ChangesFollowOn
<1>1. CatalogInv => ChangesFollowOn
  BY DEF CatalogInv
<1> QED
  BY <1>1, Inductive, PTL

-----------------------------------------------------------------------------
(* Bringing releases up.                                                   *)

\* A start of the API is a start of Catalog, and a migration none of its business.
LEMMA StartupImplementsCatalog == StartupSpec => Spec
<1>1. StartupInit => Init
  BY DEF StartupInit
<1>2. [StartupNext]_startupVars => [Next]_vars
  BY DEF StartupNext, StartApi, Synchronize, Next, Start, startupVars
<1> QED
  BY <1>1, <1>2, PTL DEF StartupSpec, Spec

\* So the audit trail keeps up with the catalog while releases come up, and every
\* recorded change starts from where the record before it ended.
COROLLARY AuditTracksAtStartup ==
  StartupSpec => []AuditTracksCatalog /\ []ChangesFollowOn
  BY StartupImplementsCatalog, AuditTracks, ChangesFollow, PTL

-----------------------------------------------------------------------------
(* Migrations.                                                             *)

Types ==
  /\ applied = [f \in M!Names |-> applied[f]]
  /\ executed \in [M!Names -> Nat]
  /\ step = [m \in Runners |-> step[m]]
  /\ known = [m \in Runners |-> known[m]]
  /\ at \in [Runners -> Nat \ {0}]
  /\ release \in [Processes -> Releases \cup {Null}]

\* Who goes through its files has the lock.
LockIsHeld == \A m \in Runners : step[m] \in {"locked", "looping"} => lock = m

\* Who has not begun to is at the first.
FromTheFirst == \A m \in Runners : step[m] \in {"starting", "locked"} => at[m] = 1

\* The n-th file of m is applied as m has it.
AppliedAsOwn(m, n) == applied[M!Own(m)[n]] = M!OwnChecksum(m, M!Own(m)[n])

\* What m has read is still true of the files it has not come to; those it has
\* passed, and all once it has completed, are applied.
ListIsFresh ==
  \A m \in Runners : \A n \in DOMAIN M!Own(m) :
    /\ step[m] = "looping" =>
         IF n < at[m] THEN AppliedAsOwn(m, n)
         ELSE known[m][M!Own(m)[n]] = applied[M!Own(m)[n]]
    /\ step[m] = "completed" => AppliedAsOwn(m, n)

MigrationInv ==
  Types /\ LockIsHeld /\ FromTheFirst /\ ListIsFresh
    /\ ScriptsTakeEffectOnce /\ RunnersDoNotCollide /\ ApiRunsOnItsSchema

\* The file at a place of a release, and its checksum.
LEMMA FileTypes ==
  ASSUME NEW r \in Releases
  PROVE  /\ Files[r] \in Seq(M!Names)
         /\ \A n \in DOMAIN Files[r] :
              n \in Nat /\ Files[r][n] \in M!Names /\ Checksum[r][Files[r][n]] # Null
<1>1. Files[r] \in Seq(M!Names)
  BY StartupAssumption DEF M!MigrationsAssumption
<1> QED
  BY <1>1, StartupAssumption DEF M!MigrationsAssumption

\* The files of a runner are those of a release, each in one place.
LEMMA OwnFiles ==
  ASSUME NEW m \in Runners
  PROVE  /\ M!Own(m) \in Seq(M!Names)
         /\ \A n \in DOMAIN M!Own(m) :
              /\ n \in Nat /\ M!Own(m)[n] \in M!Names
              /\ M!OwnChecksum(m, M!Own(m)[n]) # Null
              /\ \A k \in DOMAIN M!Own(m) : M!Own(m)[k] = M!Own(m)[n] => k = n
  BY FileTypes, StartupAssumption DEF M!MigrationsAssumption, M!Own, M!OwnChecksum

\* The loop is at a file.
LEMMA AtFile ==
  ASSUME Types, NEW m \in Runners, M!Looping(m)
  PROVE  /\ at[m] \in DOMAIN M!Own(m) /\ at[m] \in Nat
         /\ M!Current(m) = M!Own(m)[at[m]] /\ M!Current(m) \in M!Names
         /\ step[m] = "looping"
<1>1. M!Own(m) \in Seq(M!Names)
  BY OwnFiles
<1>2. at[m] \in 1..Len(M!Own(m))
  BY <1>1 DEF Types, M!Looping
<1> QED
  BY <1>1, <1>2 DEF M!Looping, M!Current

\* The invariant holds of an empty database.
LEMMA MigrationInit == StartupInit => MigrationInv
<1> SUFFICES ASSUME StartupInit PROVE MigrationInv
  OBVIOUS
<1>1. Types
  BY DEF StartupInit, M!Init, M!Nothing, Types
<1> QED
  BY <1>1 DEF StartupInit, M!Init, M!Nothing, MigrationInv, LockIsHeld, FromTheFirst,
              ListIsFresh, ScriptsTakeEffectOnce, RunnersDoNotCollide, ApiRunsOnItsSchema

\* A runner ends in another way than by completing or meeting an applied file.
LEMMA EndingKeeps ==
  ASSUME MigrationInv, NEW m \in Runners, NEW outcome,
         M!EndAs(m, outcome), UNCHANGED <<applied, executed, release>>,
         outcome \notin {"starting", "locked", "looping", "collided"},
         outcome = "completed" => \A n \in DOMAIN M!Own(m) : AppliedAsOwn(m, n)
  PROVE  MigrationInv'
<1>1. /\ \A w \in Runners \ {m} : step'[w] = step[w]
      /\ step'[m] = outcome /\ step' = [w \in Runners |-> step'[w]]
      /\ UNCHANGED <<known, at>> /\ lock' = IF lock = m THEN Null ELSE lock
  BY DEF M!EndAs, MigrationInv, Types
<1>2. Types'
  BY <1>1 DEF MigrationInv, Types
<1>3. LockIsHeld' /\ FromTheFirst'
  BY <1>1 DEF MigrationInv, LockIsHeld, FromTheFirst
<1>4. ListIsFresh'
  BY <1>1 DEF MigrationInv, ListIsFresh, AppliedAsOwn
<1>5. ScriptsTakeEffectOnce' /\ RunnersDoNotCollide' /\ ApiRunsOnItsSchema'
  BY <1>1 DEF MigrationInv, ScriptsTakeEffectOnce, RunnersDoNotCollide, ApiRunsOnItsSchema
<1> QED
  BY <1>2, <1>3, <1>4, <1>5 DEF MigrationInv

\* A script that takes effect with its record disturbs no file that was applied,
\* and no other runner is going through its files.
LEMMA ExecutingKeeps ==
  ASSUME MigrationInv, NEW m \in Runners, M!Looping(m),
         known[m][M!Current(m)] = Null, applied[M!Current(m)] = Null,
         M!ExecuteAndRecord(m, M!Current(m)), UNCHANGED release,
         \/ at' = [at EXCEPT ![m] = @ + 1] /\ UNCHANGED <<lock, step, known>>
         \/ M!EndAs(m, "failed")
  PROVE  MigrationInv'
<1> DEFINE f == M!Current(m)
<1>1. /\ at[m] \in DOMAIN M!Own(m) /\ at[m] \in Nat /\ f = M!Own(m)[at[m]]
      /\ f \in M!Names /\ step[m] = "looping" /\ M!OwnChecksum(m, f) # Null
  BY AtFile, OwnFiles DEF MigrationInv
<1>2. /\ executed' = [executed EXCEPT ![f] = @ + 1]
      /\ applied' = [applied EXCEPT ![f] = M!OwnChecksum(m, f)]
      /\ applied[f] = Null
  BY DEF M!ExecuteAndRecord
<1> HIDE DEF f
<1>3. /\ applied'[f] = M!OwnChecksum(m, f)
      /\ \A g \in M!Names \ {f} : applied'[g] = applied[g]
      /\ \A g \in M!Names : applied[g] # Null => applied'[g] = applied[g]
      /\ applied' = [g \in M!Names |-> applied'[g]]
  BY <1>1, <1>2 DEF MigrationInv, Types
<1>4. \A w \in Runners \ {m} :
        /\ step[w] \notin {"locked", "looping"}
        /\ step'[w] = step[w] /\ at'[w] = at[w] /\ known'[w] = known[w]
  BY <1>1 DEF MigrationInv, LockIsHeld, M!EndAs, Types
<1>5. /\ known' = known
      /\ step'[m] \in {"looping", "failed"}
      /\ step'[m] = "looping" => at'[m] = at[m] + 1 /\ lock' = lock
      /\ step' = [w \in Runners |-> step'[w]]
  BY <1>1 DEF M!EndAs, MigrationInv, Types
<1>6. Types'
  BY <1>1, <1>2, <1>3, <1>5 DEF MigrationInv, Types, M!EndAs
<1>7. LockIsHeld' /\ FromTheFirst'
  BY <1>1, <1>4, <1>5 DEF MigrationInv, LockIsHeld, FromTheFirst
<1>8. ASSUME NEW w \in Runners, NEW n \in DOMAIN M!Own(w), AppliedAsOwn(w, n)
      PROVE  AppliedAsOwn(w, n)'
  BY <1>3, <1>8, OwnFiles DEF AppliedAsOwn
<1>9. ListIsFresh'
  <2>1. ASSUME NEW n \in DOMAIN M!Own(m), step'[m] = "looping"
        PROVE  IF n < at'[m] THEN AppliedAsOwn(m, n)'
               ELSE known'[m][M!Own(m)[n]] = applied'[M!Own(m)[n]]
    <3>1. n \in Nat /\ M!Own(m)[n] \in M!Names /\ at'[m] = at[m] + 1
          /\ (M!Own(m)[n] = f => n = at[m])
      BY <1>1, <1>5, <2>1, OwnFiles
    <3>2. IF n < at[m] THEN AppliedAsOwn(m, n)
          ELSE known[m][M!Own(m)[n]] = applied[M!Own(m)[n]]
      BY <1>1 DEF MigrationInv, ListIsFresh
    <3>3. CASE n < at[m]
      BY <1>1, <1>8, <3>1, <3>2, <3>3
    <3>4. CASE n = at[m]
      BY <1>1, <1>3, <3>1, <3>4 DEF AppliedAsOwn
    <3>5. CASE n > at[m]
      BY <1>1, <1>3, <1>5, <3>1, <3>2, <3>5
    <3> QED
      BY <1>1, <3>1, <3>3, <3>4, <3>5
  <2>2. ASSUME NEW w \in Runners, NEW n \in DOMAIN M!Own(w), step'[w] = "completed"
        PROVE  AppliedAsOwn(w, n)'
    BY <1>4, <1>5, <1>8, <2>2 DEF MigrationInv, ListIsFresh
  <2> QED
    BY <1>4, <2>1, <2>2 DEF ListIsFresh
<1>10. ScriptsTakeEffectOnce'
  BY <1>1, <1>2, <1>3 DEF MigrationInv, ScriptsTakeEffectOnce, Types
<1>11. RunnersDoNotCollide'
  BY <1>4, <1>5 DEF MigrationInv, RunnersDoNotCollide
<1>12. ApiRunsOnItsSchema'
  <2> SUFFICES ASSUME NEW p \in Processes, release[p] # Null,
                      NEW n \in DOMAIN Files[release[p]]
               PROVE  LET g == Files[release[p]][n]
                      IN  applied'[g] = Checksum[release[p]][g]
    BY DEF ApiRunsOnItsSchema
  <2>1. release[p] \in Releases
    BY DEF MigrationInv, Types
  <2>2. LET g == Files[release[p]][n]
        IN  g \in M!Names /\ applied[g] = Checksum[release[p]][g] /\ applied[g] # Null
    BY <2>1, FileTypes DEF MigrationInv, ApiRunsOnItsSchema
  <2> QED
    BY <1>3, <2>2
<1> QED
  BY <1>6, <1>7, <1>9, <1>10, <1>11, <1>12 DEF MigrationInv

\* Every step of a runner keeps the invariant.
LEMMA RunKeeps ==
  ASSUME MigrationInv, NEW m \in Runners, M!Run(m), UNCHANGED release
  PROVE  MigrationInv'
<1>1. CASE M!TakeLock(m)
  <2>1. /\ \A w \in Runners \ {m} : step'[w] = step[w]
        /\ step'[m] = "locked" /\ step' = [w \in Runners |-> step'[w]]
        /\ UNCHANGED <<applied, executed, known, at>> /\ lock = Null /\ lock' = m
    BY <1>1 DEF M!TakeLock, M!Acquire, MigrationInv, Types
  <2>2. Types'
    BY <2>1 DEF MigrationInv, Types
  <2>3. LockIsHeld' /\ FromTheFirst'
    BY <1>1, <2>1, StartupAssumption
       DEF M!TakeLock, M!MigrationsAssumption, MigrationInv, LockIsHeld, FromTheFirst
  <2>4. ListIsFresh'
    BY <2>1 DEF MigrationInv, ListIsFresh, AppliedAsOwn
  <2>5. ScriptsTakeEffectOnce' /\ RunnersDoNotCollide' /\ ApiRunsOnItsSchema'
    BY <2>1 DEF MigrationInv, ScriptsTakeEffectOnce, RunnersDoNotCollide, ApiRunsOnItsSchema
  <2> QED
    BY <2>2, <2>3, <2>4, <2>5 DEF MigrationInv
<1>2. CASE M!LoadApplied(m)
  <2>1. /\ \A w \in Runners \ {m} : step'[w] = step[w] /\ known'[w] = known[w]
        /\ step[m] = "locked" /\ step'[m] = "looping" /\ known'[m] = applied
        /\ step' = [w \in Runners |-> step'[w]] /\ known' = [w \in Runners |-> known'[w]]
        /\ UNCHANGED <<applied, executed, lock, at>>
    BY <1>2 DEF M!LoadApplied, MigrationInv, Types
  <2>2. Types'
    BY <2>1 DEF MigrationInv, Types
  <2>3. LockIsHeld' /\ FromTheFirst'
    BY <2>1 DEF MigrationInv, LockIsHeld, FromTheFirst
  <2>4. ListIsFresh'
    <3>1. at[m] = 1
      BY <2>1 DEF MigrationInv, FromTheFirst
    <3>2. ASSUME NEW n \in DOMAIN M!Own(m)
          PROVE  ~(n < at'[m]) /\ known'[m][M!Own(m)[n]] = applied'[M!Own(m)[n]]
      <4>1. n \in 1..Len(M!Own(m)) /\ Len(M!Own(m)) \in Nat
        BY OwnFiles
      <4> QED
        BY <2>1, <3>1, <4>1
    <3> QED
      BY <2>1, <3>2 DEF MigrationInv, ListIsFresh, AppliedAsOwn
  <2>5. ScriptsTakeEffectOnce' /\ RunnersDoNotCollide' /\ ApiRunsOnItsSchema'
    BY <2>1 DEF MigrationInv, ScriptsTakeEffectOnce, RunnersDoNotCollide, ApiRunsOnItsSchema
  <2> QED
    BY <2>2, <2>3, <2>4, <2>5 DEF MigrationInv
<1>3. CASE M!Skip(m)
  <2>1. /\ at[m] \in DOMAIN M!Own(m) /\ at[m] \in Nat /\ step[m] = "looping"
        /\ known[m][M!Own(m)[at[m]]] = M!OwnChecksum(m, M!Own(m)[at[m]])
    BY <1>3, AtFile DEF M!Skip, M!SameFile, MigrationInv
  <2>2. /\ \A w \in Runners \ {m} : at'[w] = at[w]
        /\ at'[m] = at[m] + 1 /\ at' \in [Runners -> Nat \ {0}]
        /\ UNCHANGED <<applied, executed, lock, step, known>>
    BY <1>3, <2>1 DEF M!Skip, MigrationInv, Types
  <2>3. AppliedAsOwn(m, at[m])
    BY <2>1 DEF MigrationInv, ListIsFresh, AppliedAsOwn
  <2>4. ListIsFresh'
    <3>1. ASSUME NEW n \in DOMAIN M!Own(m)
          PROVE  IF n < at'[m] THEN AppliedAsOwn(m, n)
                 ELSE known[m][M!Own(m)[n]] = applied[M!Own(m)[n]]
      <4>1. n \in Nat
        BY OwnFiles
      <4> QED
        BY <2>1, <2>2, <2>3, <4>1 DEF MigrationInv, ListIsFresh
    <3> QED
      BY <2>1, <2>2, <3>1 DEF MigrationInv, ListIsFresh, AppliedAsOwn
  <2>5. Types' /\ LockIsHeld' /\ FromTheFirst'
    BY <2>1, <2>2 DEF MigrationInv, Types, LockIsHeld, FromTheFirst
  <2>6. ScriptsTakeEffectOnce' /\ RunnersDoNotCollide' /\ ApiRunsOnItsSchema'
    BY <2>2 DEF MigrationInv, ScriptsTakeEffectOnce, RunnersDoNotCollide, ApiRunsOnItsSchema
  <2> QED
    BY <2>4, <2>5, <2>6 DEF MigrationInv
<1>4. CASE M!RefuseModified(m) \/ M!FailRun(m)
  BY <1>4, EndingKeeps DEF M!RefuseModified, M!FailRun
<1>5. CASE M!Apply(m)
  <2>1. M!Looping(m) /\ known[m][M!Current(m)] = Null
    BY <1>5 DEF M!Apply
  <2>2. applied[M!Current(m)] = Null
    BY <2>1, AtFile DEF MigrationInv, ListIsFresh, Types
  <2> QED
    BY <1>5, <2>1, <2>2, ExecutingKeeps DEF M!Apply
<1>6. CASE M!ApplyUnacknowledged(m)
  BY <1>6, ExecutingKeeps DEF M!ApplyUnacknowledged
<1>7. CASE M!Finish(m)
  <2>1. \A n \in DOMAIN M!Own(m) : AppliedAsOwn(m, n)
    <3> SUFFICES ASSUME NEW n \in DOMAIN M!Own(m) PROVE AppliedAsOwn(m, n)
      OBVIOUS
    <3>1. n \in 1..Len(M!Own(m)) /\ Len(M!Own(m)) \in Nat
      BY OwnFiles
    <3>2. step[m] = "looping" /\ at[m] > Len(M!Own(m)) /\ at[m] \in Nat
      BY <1>7 DEF M!Finish, MigrationInv, Types
    <3> QED
      BY <3>1, <3>2 DEF MigrationInv, ListIsFresh
  <2> QED
    BY <1>7, <2>1, EndingKeeps DEF M!Finish
<1> QED
  BY <1>1, <1>2, <1>3, <1>4, <1>5, <1>6, <1>7 DEF M!Run
\* An API starts on the schema that its release's migration job has left.
LEMMA StartKeeps ==
  ASSUME MigrationInv, NEW p \in Processes, NEW r \in Releases, StartApi(p, r)
  PROVE  MigrationInv'
<1>1. /\ release' = [release EXCEPT ![p] = r]
      /\ UNCHANGED <<applied, executed, lock, step, known, at>>
  BY DEF StartApi, migrationVars
<1>2. Types' /\ LockIsHeld' /\ FromTheFirst' /\ ListIsFresh'
  BY <1>1 DEF MigrationInv, Types, LockIsHeld, FromTheFirst, ListIsFresh, AppliedAsOwn
<1>3. ScriptsTakeEffectOnce' /\ RunnersDoNotCollide'
  BY <1>1 DEF MigrationInv, ScriptsTakeEffectOnce, RunnersDoNotCollide
<1>4. PICK m \in Runners : ReleaseOf[m] = r /\ step[m] = "completed"
  BY DEF StartApi, Completed
<1>5. \A n \in DOMAIN Files[r] : applied[Files[r][n]] = Checksum[r][Files[r][n]]
  BY <1>4 DEF MigrationInv, ListIsFresh, AppliedAsOwn, M!Own, M!OwnChecksum
<1>6. ApiRunsOnItsSchema'
  <2> SUFFICES ASSUME NEW q \in Processes, release'[q] # Null,
                      NEW n \in DOMAIN Files[release'[q]]
               PROVE  LET g == Files[release'[q]][n]
                      IN  applied'[g] = Checksum[release'[q]][g]
    BY DEF ApiRunsOnItsSchema
  <2>1. CASE q = p
    BY <1>1, <1>5, <2>1 DEF MigrationInv, Types
  <2>2. CASE q # p
    BY <1>1, <2>2 DEF MigrationInv, Types, ApiRunsOnItsSchema
  <2> QED
    BY <2>1, <2>2
<1> QED
  BY <1>2, <1>3, <1>6 DEF MigrationInv

\* The invariant is inductive.
LEMMA StartupKeeps ==
  ASSUME MigrationInv, [StartupNext]_startupVars
  PROVE  MigrationInv'
<1>1. CASE UNCHANGED <<migrationVars, release>>
  BY <1>1 DEF migrationVars, MigrationInv, Types, LockIsHeld, FromTheFirst, ListIsFresh,
              AppliedAsOwn, ScriptsTakeEffectOnce, RunnersDoNotCollide, ApiRunsOnItsSchema
<1> QED
  BY <1>1, RunKeeps, StartKeeps DEF StartupNext, Synchronize, startupVars

\* So it holds throughout: the list a runner has read under the lock stays true of
\* the files it has not come to.
THEOREM MigrationInductive == StartupSpec => []MigrationInv
<1>1. MigrationInv /\ [StartupNext]_startupVars => MigrationInv'
  BY StartupKeeps
<1> QED
  BY MigrationInit, <1>1, PTL DEF StartupSpec

\* A script takes effect once and is recorded, whatever crashes or loses an answer.
THEOREM ScriptsRunOnce == StartupSpec => []ScriptsTakeEffectOnce
<1>1. MigrationInv => ScriptsTakeEffectOnce
  BY DEF MigrationInv
<1> QED
  BY <1>1, MigrationInductive, PTL

\* Jobs that run at the same time never fail each other.
THEOREM NoCollision == StartupSpec => []RunnersDoNotCollide
<1>1. MigrationInv => RunnersDoNotCollide
  BY DEF MigrationInv
<1> QED
  BY <1>1, MigrationInductive, PTL

\* A running API has the schema of its release under it, also after the jobs of
\* other releases.
THEOREM ApiHasItsSchema == StartupSpec => []ApiRunsOnItsSchema
<1>1. MigrationInv => ApiRunsOnItsSchema
  BY DEF MigrationInv
<1> QED
  BY <1>1, MigrationInductive, PTL
=============================================================================
