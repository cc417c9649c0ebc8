------------------------------ MODULE Catalog ------------------------------
(***************************************************************************)
(* The automation catalog: every API process loads the manifests of its    *)
(* checkout when it starts and writes them to the table automations, with  *)
(* a record in automation_catalog_audit for a new automation or a changed  *)
(* artifact.  Several processes start at once (two replicas, a rolling     *)
(* update), possibly from different commits.                               *)
(*                                                                         *)
(* Synchronisation is one transaction per start.  For each automation it   *)
(* selects the row for update, which locks it when it exists and nothing   *)
(* when it does not, and then upserts, which waits for the row or for      *)
(* another process's uncommitted insert of it.  Nothing is visible to      *)
(* others before the commit; row locks are held until then.                *)
(***************************************************************************)
EXTENDS Integers, Sequences, FiniteSets

CONSTANTS
  Automations,  \* automation identifiers
  Processes,    \* lives of API processes
  Manifests,    \* manifest with the checksum of its artifact, as loadCatalog returns it
  Checkouts,    \* what loadCatalog may return: sequences of [id, manifest]
  Null

ASSUME CatalogAssumption ==
  /\ \A m \in Manifests : DOMAIN m = {"version", "checksum", "tier", "targets"}
  /\ \A c \in Checkouts :
       /\ c \in Seq([id : Automations, manifest : Manifests]) /\ c # <<>>
       /\ \A m, n \in DOMAIN c : c[m].id = c[n].id => m = n
  /\ Null \notin Processes \cup Manifests \cup {m.checksum : m \in Manifests}

VARIABLES
  automations,  \* automations[a]: the committed row, or Null
  audit,        \* audit[a]: the committed audit records in the order of their id
  phase,        \* phase[p]: where the start-up of p is
  checkout,     \* checkout[p]: the catalog p has loaded
  position,     \* position[p]: the place of its loop in it
  previous,     \* previous[p]: the checksum the last select found, or Null
  draft,        \* draft[p][a]: what the open transaction has written for a, or Null
  rowLock       \* rowLock[a]: the transaction that holds the row or inserts it

vars == <<automations, audit, phase, checkout, position, previous, draft, rowLock>>

Checksums == {m.checksum : m \in Manifests}

AuditRecord == [event : {"REGISTERED", "SOURCE_CHECKSUM_CHANGED"},
                before : Checksums \cup {Null}, current : Checksums]

Draft == [manifest : Manifests, records : Seq(AuditRecord)]

Written(d) == {a \in Automations : d[a] # Null}

TypeOK ==
  /\ automations \in [Automations -> Manifests \cup {Null}]
  /\ audit \in [Automations -> Seq(AuditRecord)]
  /\ phase \in [Processes -> {"loading", "select", "upsert", "ended"}]
  /\ checkout \in [Processes -> Checkouts \cup {<<>>}]
  /\ position \in [Processes -> Nat]
  /\ previous \in [Processes -> Checksums \cup {Null}]
  /\ draft \in [Processes -> [Automations -> Draft \cup {Null}]]
  /\ rowLock \in [Automations -> Processes \cup {Null}]

Init ==
  /\ automations = [a \in Automations |-> Null]
  /\ audit = [a \in Automations |-> <<>>]
  /\ phase = [p \in Processes |-> "loading"]
  /\ checkout = [p \in Processes |-> <<>>]
  /\ position = [p \in Processes |-> 1]
  /\ previous = [p \in Processes |-> Null]
  /\ draft = [p \in Processes |-> [a \in Automations |-> Null]]
  /\ rowLock = [a \in Automations |-> Null]

-----------------------------------------------------------------------------
(* Start-up of an API process.                                             *)

\* loadCatalog returns the checkout of the process, and the transaction begins.
Load(p) ==
  /\ phase[p] = "loading"
  /\ \E c \in Checkouts : checkout' = [checkout EXCEPT ![p] = c]
  /\ phase' = [phase EXCEPT ![p] = "select"]
  /\ UNCHANGED <<automations, audit, position, previous, draft, rowLock>>

\* The loop of synchronize over the catalog.
Current(p) == checkout[p][position[p]]

Finished(p) == position[p] > Len(checkout[p])

\* Mutant: the select takes no lock.
LockExistingNever(p, a) == UNCHANGED rowLock

LockExisting(p, a) ==
  IF automations[a] = Null
    THEN UNCHANGED rowLock
    ELSE rowLock[a] = Null /\ rowLock' = [rowLock EXCEPT ![a] = p]

\* The observed_source_checksum of the selected row, undefined without a row.
Found(a) == IF automations[a] = Null THEN Null ELSE automations[a].checksum

\* "select ... for update".  It finds committed rows only, and waits while
\* another transaction holds the one it finds.
SelectRow(p) ==
  /\ phase[p] = "select" /\ ~Finished(p)
  /\ LET a == Current(p).id IN
       /\ LockExisting(p, a)
       /\ previous' = [previous EXCEPT ![p] = Found(a)]
  /\ phase' = [phase EXCEPT ![p] = "upsert"]
  /\ UNCHANGED <<automations, audit, checkout, position, draft>>

\* Mutant: an artifact that changes leaves no record.
RecordsOfNewOnly(before, current) ==
  IF before = Null
    THEN <<[event |-> "REGISTERED", before |-> Null, current |-> current]>>
    ELSE <<>>

\* The audit records of a row, from the checksum the select found.
RecordsOf(before, current) ==
  IF before = current THEN <<>>
  ELSE <<[event |-> IF before = Null THEN "REGISTERED" ELSE "SOURCE_CHECKSUM_CHANGED",
          before |-> before, current |-> current]>>

\* "insert ... on conflict (id) do update" and the insert of the audit record.
UpsertRow(p) ==
  /\ phase[p] = "upsert"
  /\ LET a == Current(p).id
         m == Current(p).manifest
     IN  /\ rowLock[a] \in {Null, p}
         /\ rowLock' = [rowLock EXCEPT ![a] = p]
         /\ draft' = [draft EXCEPT ![p][a] =
              [manifest |-> m, records |-> RecordsOf(previous[p], m.checksum)]]
  /\ position' = [position EXCEPT ![p] = @ + 1]
  /\ phase' = [phase EXCEPT ![p] = "select"]
  /\ UNCHANGED <<automations, audit, checkout, previous>>

\* The transaction ends, its locks and its drafts with it.
EndTransaction(p) ==
  /\ phase' = [phase EXCEPT ![p] = "ended"]
  /\ previous' = [previous EXCEPT ![p] = Null]
  /\ draft' = [draft EXCEPT ![p] = [a \in Automations |-> Null]]
  /\ rowLock' = [a \in Automations |-> IF rowLock[a] = p THEN Null ELSE rowLock[a]]
  /\ UNCHANGED <<checkout, position>>

Commit(p) ==
  /\ phase[p] = "select" /\ Finished(p)
  /\ LET written == Written(draft[p]) IN
       /\ automations' = [a \in Automations |->
            IF a \in written THEN draft[p][a].manifest ELSE automations[a]]
       /\ audit' = [a \in Automations |->
            IF a \in written THEN audit[a] \o draft[p][a].records ELSE audit[a]]
  /\ EndTransaction(p)

\* An error, a deadlock that PostgreSQL breaks, a statement timeout or the end
\* of the process: rollback, and the start-up fails.
Abort(p) ==
  /\ phase[p] \in {"select", "upsert"}
  /\ EndTransaction(p)
  /\ UNCHANGED <<automations, audit>>

Start(p) == Load(p) \/ SelectRow(p) \/ UpsertRow(p) \/ Commit(p) \/ Abort(p)

Next == \E p \in Processes : Start(p)

Spec == Init /\ [][Next]_vars

-----------------------------------------------------------------------------
(* Properties.                                                             *)

Registered(a) == automations[a] # Null

\* The audit trail keeps up with the catalog, whoever starts at the same time:
\* an automation is registered if and only if it has records, and the latest
\* of them names the checksum the row has.
AuditTracksCatalog ==
  \A a \in Automations :
    /\ Registered(a) <=> audit[a] # <<>>
    /\ Registered(a) => audit[a][Len(audit[a])].current = automations[a].checksum

\* A recorded change starts from where the record before it ended: of two
\* processes that change one artifact, the second has seen the first.
ChangesFollowOn ==
  \A a \in Automations : \A n \in DOMAIN audit[a] :
    audit[a][n].event = "SOURCE_CHECKSUM_CHANGED" =>
      n > 1 /\ audit[a][n].before = audit[a][n - 1].current
=============================================================================
