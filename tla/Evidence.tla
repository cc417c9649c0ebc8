------------------------------ MODULE Evidence ------------------------------
(***************************************************************************)
(* Evidence bundles of incidents: evidence.service.ts reads an incident's  *)
(* row and its history through two connections at once, while workers and  *)
(* operators go on as in Incidents, and stores both in one document.       *)
(*                                                                         *)
(* A bundle of a release is one read of one row (Releases): nothing can    *)
(* come between, and it is left out.  A download changes nothing.          *)
(***************************************************************************)
EXTENDS Incidents

CONSTANTS Auditors,   \* requests for a bundle that may be in progress at once
          MaxBundles  \* bound: bundles ever stored

ASSUME EvidenceAssumption == MaxBundles \in Nat /\ Null \notin [Events -> Nat]

VARIABLES
  building,  \* building[a]: the bundle a is putting together, or Null
  bundles    \* the rows of evidence_bundles, in the order of their insertion

evidenceVars == <<building, bundles>>
allVars == <<vars, evidenceVars>>

EvidenceInit ==
  /\ Init
  /\ building = [a \in Auditors |-> Null]
  /\ bundles = <<>>

\* What the reader of a document relies on: how long the history was when the
\* request came, and what the status was then (history variables).
AsRequested(id) ==
  [id |-> id, from |-> Len(history[id]), status |-> incidents[id].status,
   record |-> Null, history |-> Null]

\* POST /evidence with an expiry in the future; both reads are started.
RequestBundle(a, id) ==
  /\ building[a] = Null
  /\ Exists(id) /\ Len(bundles) < MaxBundles
  /\ building' = [building EXCEPT ![a] = AsRequested(id)]
  /\ UNCHANGED <<vars, bundles>>

\* getById: one select, on one connection.
ReadRecord(a) ==
  /\ building[a] # Null /\ building[a].record = Null
  /\ building' = [building EXCEPT ![a].record = incidents[building[a].id]]
  /\ UNCHANGED <<vars, bundles>>

\* The rows of a history, without their order: they are listed by created_at,
\* the start of the transaction that wrote them, and the model has their commits.
Rows(h) == [e \in Events |-> Cardinality({n \in DOMAIN h : h[n] = e})]

\* Mutant: the query leaves out the newest row.
ReadHistoryShort(a) ==
  /\ building[a] # Null /\ building[a].history = Null
  /\ LET h == history[building[a].id] IN
     building' = [building EXCEPT ![a].history = Rows(SubSeq(h, 1, Len(h) - 1))]
  /\ UNCHANGED <<vars, bundles>>

\* IncidentService.history, on the other one.  It looks for the incident first,
\* and finds it: no incident is ever deleted.
ReadHistory(a) ==
  /\ building[a] # Null /\ building[a].history = Null
  /\ building' = [building EXCEPT ![a].history = Rows(history[building[a].id])]
  /\ UNCHANGED <<vars, bundles>>

\* The document is complete and inserted; `upto' is a history variable.
StoreBundle(a) ==
  /\ building[a] # Null
  /\ building[a].record # Null /\ building[a].history # Null
  /\ Len(bundles) < MaxBundles
  /\ LET r == building[a] IN
     bundles' = Append(bundles,
       [id |-> r.id, from |-> r.from, upto |-> Len(history[r.id]), status |-> r.status,
        record |-> r.record, history |-> r.history])
  /\ building' = [building EXCEPT ![a] = Null]
  /\ UNCHANGED vars

\* A scope that does not match the automation, a failing query or the end of
\* the process: nothing is stored.
FailBundle(a) ==
  /\ building[a] # Null
  /\ building' = [building EXCEPT ![a] = Null]
  /\ UNCHANGED <<vars, bundles>>

Audit(a) ==
  \/ \E id \in Ids : RequestBundle(a, id)
  \/ ReadRecord(a) \/ ReadHistory(a)
  \/ StoreBundle(a) \/ FailBundle(a)

EvidenceNext ==
  \/ Next /\ UNCHANGED evidenceVars
  \/ \E a \in Auditors : Audit(a)

EvidenceSpec == EvidenceInit /\ [][EvidenceNext]_allVars

-----------------------------------------------------------------------------

\* What a row says after the events of a history.
RowAgrees(record, h) ==
  /\ record.failureCount = Cardinality(Failures(h))
  /\ record.status = StatusShown(h)

\* A stored bundle shows its incident as it was during the request: the history
\* is the events up to some moment of it, the row is the row of some moment of
\* it, not necessarily the same (two reads, evidence.service.ts:97).
BundlesShowTheirTime ==
  \A n \in DOMAIN bundles :
    LET b == bundles[n]
        past == {SubSeq(history[b.id], 1, k) : k \in b.from..b.upto}
    IN /\ \E h \in past : RowAgrees(b.record, h)
       /\ \E h \in past : b.history = Rows(h)

\* A bundle requested after the closure is the last word: its row and its
\* history stay those of the incident, and agree with each other.
ClosedBundlesAreFinal ==
  \A n \in DOMAIN bundles :
    LET b == bundles[n]  h == history[b.id] IN
    b.status = "CLOSED" =>
      b.record = incidents[b.id] /\ b.history = Rows(h) /\ RowAgrees(b.record, h)
=============================================================================
