# A TLA+ model of the automation control plane

The control plane registers automations that run on four platforms (n8n, Zapier,
Make, Power Platform), accepts their telemetry, turns failures into incidents and
gates their releases. This directory holds TLA+ modules that model it, from the
migration of its database to the web session and the sample automations, the
TLC configurations that check them on small instances, and TLAPS proofs of what
matters most. Paths below are relative to `services/control-plane/src` unless they
start with another top directory.

## 1. Inventory

| Component | State it keeps | Operations | What is hard about it |
| --- | --- | --- | --- |
| Telemetry ingestion (`telemetry/`) | `execution_events`, `executions`, rows of `outbox_messages` | `ingest`: parse, verify the signature, check the registration, `accept` | at-least-once delivery, any order, concurrent copies of one event, contradicting outcomes, two definitions of a valid event |
| Transactional outbox and worker (`outbox/`, `worker-runtime.service.ts`) | `outbox_messages`, `outbox_dead_letters`; per worker the leased message and its attempts | `lease`, `processOne`, `complete`, `fail` | leases that run out under a slow handler, crashes at any point, lost answers, a retry budget |
| Incident correlation (`outbox.repository.ts`, `correlateFailure`) | `incidents`, `incident_history` | open or count | two workers opening at once, an operator acting meanwhile, repetition by retries |
| Operator workflow (`operations/incident.*`) | the same tables | acknowledge, assign, record recovery, resolve, close | status checked before the transaction that changes it |
| Releases (`operations/release.*`) | `releases`, `release_history` | propose, decide | policy read before the transaction, drift of the artifact |
| Catalog (`catalog/`) | `automations`, `automation_catalog_audit` | load and synchronise at start-up | several API processes starting at once |
| Evidence (`operations/evidence.*`) | `evidence_bundles` | create, download | joins reads of two connections with writers in between |
| Authentication (`auth/`, `packages/contracts/src/auth.ts`) | none | verify a token, match roles | roles as old as the token |
| Health, heartbeat, metrics | `worker_heartbeats`, counters | - | - |
| Migrations (`database/migrate.ts`) | `schema_migrations` | apply under an advisory lock | concurrent jobs, crashes, lost answers, edited files, two releases on one database |
| Synthetic operations API (`services/synthetic-operations-api`) | in-memory claims, partners, commerce, inspections, idempotency records | business calls of the sample automations | side effect before a failure, idempotency records, callbacks |
| Claims intake (`automations/n8n`) | a run's data at n8n | webhook, policy, claim, reconciliation, telemetry, answer; error workflow | a node repeats a call whose answer is lost; telemetry once |
| Partner onboarding (`automations/zapier`) | a Zap's step | verification, case, decision | throttled steps are replayed |
| Return and refund (`automations/make`) | a scenario's bundle | order, return, router, warehouse work, refund | reads back and resumes after a failure |
| Field inspection (`automations/power-platform`) | none here | a hosted solution | - |
| Web application (`apps/web`) | transaction cookie, session cookie | login, callback, logout, pages | several tabs, late redirects, the clocks of three machines |

How they interact: a platform package posts an event to ingestion, which stores
the event, folds it into the execution and writes one outbox row in a single
transaction. Worker processes poll the outbox. For a failed event the worker opens
or extends an incident in one transaction and then completes the outbox row in
another. Operators act on incidents through the API, owners and approvers on
releases; both read the catalog, which every API process synchronises when it
starts, and it starts after its release's migration job. Evidence bundles read what all
of them write. The web application keeps its users' sessions in cookies and calls the
API with their tokens. The sample automations call the synthetic API, which shares
nothing with the control plane. Of the control plane's processes nothing is shared but the database: the concurrency is that of SQL
statements and transactions (READ COMMITTED) of independent processes.

What makes each part correct:

- *ingestion*: an event is stored once and all receipts for it agree; the aggregate
  is a function of the stored events; a terminal outcome is final; one outbox row
  per event.
- *outbox*: no row is settled by a worker whose lease was taken over; dead letters
  only after the whole budget; no row is put back without an attempt left; every
  row is eventually settled.
- *incidents*: one active incident per key; counts equal histories; operators' actions
  are allowed where they take effect; nothing is counted after the resolution.
- *pipeline*: no failure is lost; repetition is bounded by the attempts; locks and
  transactions end with the work they belong to.
- *releases and catalog*: decided once, independent approval of high-risk releases,
  one audit record per change.
- *evidence*: a bundle shows an incident as it was while the bundle was made.
- *start-up*: a migration takes effect once and is recorded if and only if it did; an API
  process finds the schema of its own release.
- *synthetic API*: a repeated call has the effect of one.
- *sample automations*: what a platform reports as done was done, once, and a success that
  was accepted is true even if the run fails after it.
- *web session*: a session belongs to the browser that began its login, ends when its token does
  but for margins and the skew of the clocks, and forgets former roles with it.

## 2. Modules

| Module | Role |
| --- | --- |
| `WorkQueue` | abstract: what the outbox promises |
| `Outbox` | outbox rows and worker processes; refines `WorkQueue` |
| `OutboxProofs` | theorems about `Outbox` |
| `Incidents` | correlation transactions against operators |
| `IncidentsProofs` | theorems about `Incidents` and `Evidence` |
| `FailurePipeline` | composes `Outbox` and `Incidents`: the whole of `processOne` |
| `FailurePipelineProofs` | theorems about `FailurePipeline` |
| `Telemetry` | ingestion |
| `TelemetryProofs` | theorems about `Telemetry` |
| `Evidence` | extends `Incidents` with the making of evidence bundles |
| `Catalog` | synchronisation of the catalog by starting API processes, and its audit |
| `CatalogProofs` | theorems about `Catalog` and `Startup` |
| `Migrations` | the migration runner |
| `Startup` | composes `Migrations` with `Catalog`: bringing releases up |
| `Releases` | extends `Catalog` with proposals and decisions |
| `ReleasesProofs` | theorems about `Releases`, over `CatalogProofs` |
| `SyntheticOperations` | the nine mutations of the synthetic API under its idempotency service |
| `SyntheticOperationsProofs` | theorems about `SyntheticOperations` and `Flows` |
| `Flows` | the n8n, Zapier and Make automations over `SyntheticOperations` |
| `WebSession` | sign-in, session and pages of the web application, and the API's guard |
| `WebSessionProofs` | theorems about `WebSession` |
| `MCOutbox`, `MCEvidence`, `MCFailurePipeline`, `MCTelemetry`, `MCStartup`, `MCReleases`, `MCSyntheticOperations`, `MCFlows`, `MCWebSession` | small instances for TLC |

### Outbox

The row columns are functions or sets over `Messages`: `attempts`, `leasedBy`,
`processed`, `available`; a worker is a program counter with the message it holds and
the *copy* of its attempts (`snapshot`), because `fail` decides on that copy. Each SQL
statement is one step. The dead-letter transaction is two steps (`CopyDeadLetter`,
`Bury`), because both of its statements test `leased_by` for themselves and neither
locks the row beforehand. Time is not counted: a lease that is held may run out at any
moment (`LeaseExpires`), a delayed row may become available at any moment
(`DelayElapses`). This covers every relation between the 30 seconds of a lease, the
delays of `retryDelaySeconds` and the duration of a handler. A worker's instance
identifier is drawn afresh at each start, so a restarted worker is another element of
`Instances`; `Crash` covers a kill, a shutdown signal, and the errors that leave `run`.

`complete` may be lost on the way there (`CompleteRefused`) or on the way back
(`CompleteUnacknowledged`); `processOne` then goes on to `fail`. In `fail` itself an
error leaves `run` and ends the process, so that case is a crash before or after the
step.

### Incidents

`correlateFailure` is two steps: the select, which takes the row lock when it finds an
active incident, and the write with the commit. When the select finds nothing it holds
nothing, and the partial unique index decides at the write (`CommitOpened` or
`OpenConflict`). The select of the code may also wait for a lock and then find that the
row has been resolved; that is `SelectNone` after the wait. The operator's
transaction is a single step: its first statement takes the row lock and every other
writer waits for it, so nothing can happen between its statements that they could see.
`absorbed` is a history variable for the property on times.

### Evidence

`evidence.service.ts` starts two queries at once, on two connections: `ReadRecord` and
`ReadHistory`, in either order, and anything of `Incidents` may commit before, between and
after. `StoreBundle` is the insert. The rows of a history come by `created_at`, which is
the start of the transaction that wrote them; `Incidents` knows the commits only, so a
bundle has the *rows* of a history (how many of each event) and not their order. `from`,
`upto` and `status` are history variables: what was committed when the request came and
when the bundle was stored.

### FailurePipeline

Joins the two on the worker: `BeginCorrelation`, then `CommitCorrelation`,
`CommitUnacknowledged` or `CorrelationFails`, then the queue's own `Complete` or `Fail`.
PostgreSQL rolls the open transaction of a dead worker back (`Crash`). `counted` is a
history variable: how often the failure of a row has been committed.

### Telemetry

A request is `received`, `registered` (the check is a query of its own) and `inserted`
(its transaction holds the unique key of the event; another request with the same
identifier waits, `Pending`). `Accept` is the rest of the transaction, a single step
because the lock on the execution's row makes the transactions of one execution follow
each other. A body refused by the contract or by its signature leaves no trace and is
not a step. `Storable` is the table constraint, which is not the contract. Durations
are left out: contract and constraint treat them alike.

### Catalog

Each start is one transaction of several steps: `SelectRow` and `UpsertRow` for every
automation of the checkout, then `Commit`, or `Abort` at any point (an error, a
deadlock that PostgreSQL breaks, a timeout, the end of the process). `automations` and
`audit` are committed rows; `draft` is what an open transaction has written. `rowLock` is
held from the select when it finds the row, and from the upsert in any case; another
process's uncommitted insert makes an upsert wait in the same way. A checkout is a
sequence, because file names decide the order in which rows are locked. What
`parseAutomationManifest` and the file accesses refuse fails before the transaction
begins. A process that fails does not start; its restart is another element of
`Processes`.

### Migrations and Startup

A runner waits for the advisory lock, reads the list of applied files under it, and goes
through the files of its own release. `Apply` is one transaction: script, record,
commit. `ApplyUnacknowledged` loses the answer to that commit; `FailRun` is a failing
statement or the end of the process at any point, which also frees the lock, as the
session ends. `Apply` on a file that was applied behind a runner's back fails ("collided"):
the objects exist and the primary key is taken. `executed` is a history variable.

`Startup` lets an API process of a release begin only when a job of that release has
completed (`depends_on` in `compose.yaml`; the Kubernetes documents ask for the same
order), and then runs `Catalog` for it. Runners are lives of a job, of several releases.

### Releases

`propose` and `decide` are two steps each: the check against the catalog, outside any
transaction, and the transaction. `request` is what a request has checked and carries to
its transaction. Between the two, other requests and the steps of `Catalog` happen. The
transactions are single steps: the unique key or the row lock of `update ... where status =
'PROPOSED'` makes every other writer wait. The row keeps the fields that a rule compares
(automation, version, manifest version, target, checksum, people, status). `tiers` is a
history variable: the tiers that were in force while a release was undecided.

### SyntheticOperations

A handler of the synthetic API runs without an `await`, so a call is one step. The
operators `createClaim`, ..., `decideInspection` are the nine mutations; what stands
before `Execute` in them is checked on replays too, as in the code, and what is passed to it as
`allowed` only when the action runs. `Perform` may keep its answer back: `UNCERTAIN`, or an
answer lost on the way. Failures injected before the effect leave no trace. Each replica
has its own maps, and `Restart` empties them. `runs` and `answers` are history variables.

### Flows

A run of an automation is its platform's program counter (`at`), the number of tries of its
present node and the status it was last told (`seen`). Each node is an action; the
connections of the workflow, the steps of the Zap and the router's filters decide where
`Goto` leads. A call is a step of `SyntheticOperations` together with what the
platform makes of the answer; its answer, or the call itself, may be lost
(`Unanswered`). What a platform does then is its own: n8n repeats a node
(`TryAgain`), Zapier replays a step that mapped its error to `ThrottledError`, and Make breaks,
with `Breaks` tries after the one that failed, or reads the resource back and resumes. It resumes
with whatever is answered, a 404 or 5xx included, since modules 301 and 601 have `handleErrors`
false where the others have true; they fail only if nothing is answered. `RestartApi` empties the API once.
`events` is what the control plane has accepted of the telemetry node. Validation of the
webhook's body happens before the first step; waiting times have no length.

The calls of a run are constants, and `FlowsAssumption` says what the exported workflows make of
them: which operation each is, that two runs with one claim, one case or one return have one
key for it, that warehouse work and refund are of the run's return and in the amount the API
gave it, that the sample Zap approves. The runs of one return may still name different orders.

### WebSession

One login draws state, nonce and verifier together, so the login's name stands for all
three. `code` holds the redirects that exist; any tab of any browser may open one, at any time
and again. The callback is three steps, because it waits for the token endpoint in
between. Three machines read three clocks: `now` is the web server's, and `Ahead` is what the
provider's and the control plane's show beyond it. A token expires a lifetime after the provider
issued it, a session a lifetime after its tokens arrived, and a page works with the session it
read. `Tick` passes between any two steps. `Live` subtracts the margin, `TokenHolds` adds the
tolerance; neither verifier compares `iat`, so a token dated in the future is accepted. A page's
call that finds its token expired is "refused". It may also fail at any time for a reason outside the
model ("failed"): the guard answers 401 to every error of the verification, an unreachable key
endpoint of the provider among them, and any other status or a failure of the network fails the page too.
The roles in a token are among `platformRoles`, since `parsePrincipal` drops all others.

## 3. What the runs check

| Run | Instance | Shows |
| --- | --- | --- |
| `MCOutbox` | 2 rows, 3 worker lives, 3 attempts | `LeaseHolderIsCurrent`, `AttemptsFenceWorkers`, `DeadLetterMeansSpent`, `OnlyLatestAttemptSettles`, that `Outbox` implements `WorkQueue`, and `EveryMessageSettles` |
| `MCOutbox_crash` | 1 row, 2 lives, 2 attempts | `CrashLeavesWorkRecoverable` is **violated** (finding 1) |
| `MCEvidence` | 2 workers, 2 operators, 1 auditor, 1 incident, 2 times | `LastOccurredIsLatest`, `HistoryReplays`, `AppliedActionsAreAllowed`, `ResolvedStopsCounting`, `BundlesShowTheirTime`, `ClosedBundlesAreFinal` |
| `MCFailurePipeline` | 1 failure, 1 other event, 2 lives, 2 attempts, 2 incidents, 1 operator | `NoFailureLost`, `CountedWithinAttempts`, `IncidentsAddUp`, `LocksBelongToHandlers`, `OneActiveIncident`, and `EveryFailureSurfaces` |
| `MCTelemetry` | 6 bodies of 4 events, 2 executions, 2 requests | `AggregateMatchesEvents`, `TerminalIsFinal`, `ReceiptsAgree` |
| `MCTelemetry_contract` | 3 bodies, 1 request | `ValidEventsAreAccepted` is **violated** (finding 2) |
| `MCStartup` | 4 jobs of 3 releases, 3 starts, 2 automations, 2 artifacts | `ScriptsTakeEffectOnce`, `RunnersDoNotCollide`, `ApiRunsOnItsSchema`, `AuditTracksCatalog`, `ChangesFollowOn` |
| `MCReleases_safety` | 2 requests, 2 releases, 2 starts, 3 manifests, 2 targets, 2 people | `HistoryMatchesRelease`, `ReleasedArtifactWasObserved`, `SelfApprovalWasAllowed` |
| `MCReleases_ownrelease` | 1 request, 1 release, 2 starts | `NoOwnHighRiskApproval` is **violated** (finding 3) |
| `MCSyntheticOperations` | 1 replica, calls of all nine operations, at most 4 recorded | `RetriesAgree`, `RefundsAreCovered`, `DecisionStands` |
| `MCWebSession` | 3 tabs of 2 browsers, 2 logins, 1 user who loses a role, a provider whose clock is one behind | `OwnLoginOnly`, `PagesAreServed`, `FormerRolesFade` |
| `MCFlows` | 2 claims runs, 2 Zaps, 3 scenarios, 3 tries, 3 more after a Break | `AnsweredClaimsStand`, `FinishedZapsHold`, `RefundsFollowTheRouter` |

The type invariants are proved (section 4) where a proof needs them; no run spends a property on one.

Bounds. Workers interact through one row at a time, so three lives (a holder, the one
that takes over, and one that comes after) and three attempts (first, middle, last) show
every kind of overlap; two rows show that a worker's step on one leaves the other alone.
In the pipeline two lives with two attempts are enough for both to be in the handler of one
failure at once and to open an incident twice; a second incident of the key follows a
resolved one. `MaxFailures` (per incident) and `MaxNotes` (over all incidents) bound a
counter and the length of a history that the code leaves open, and `MaxBundles` the
bundles; their guards stop new correlations, notes and bundles only, never the
actions that change a status. One incident is enough for a bundle, which reads one. In
`MCTelemetry` two events of one execution contradict each other, one is restamped on
retry, times run against every order of arrival, and one body cannot be stored.
`MCStartup` has a release and its successor with one more file and other artifacts, whose
checkouts list the automations in opposite orders, so starts do deadlock; a job that is run
twice; and a release in which an applied file was edited. Three starts are
one that registers, one that changes and one that overlaps both. In
`MCReleases` the manifests differ in tier, in artifact and in targets, one person may both
propose and approve, and two requests race over one release or over one target. The calls of
`MCSyntheticOperations` repeat each key with the same and with changed input and write each
resource under several keys; `FewRecords` stops a replica at four recorded calls, and every
property is broken by three at most: a return, its refund and one more call on either, or a
resource and two calls on it. In `MCWebSession` the lifetime of a token is twice, and that of
a transaction once, the margin; `MaxTime` is later than the last moment at which a token of
the beginning is accepted, so exchanges and pages outlast both margins, and a provider one unit
behind lets a slow exchange end with an expired token. `Together` in
`MCFlows` names the flows of one behaviour: those of one automation, which share
resources, all at once, and pairs of different automations, which share nothing but the
restart. Deadlock checking is on for telemetry, the synthetic API and the web session; in the other runs the
system really comes to rest (all rows settled, a history at its bound, every job, start
or flow over), and there the processes merely poll.

Fairness. `FairSpec` of `Outbox` and of `FailurePipeline` assumes that a living worker
goes on: `run` polls every two seconds, statements are cut off after ten seconds
(`database/database.module.ts`), and each handler is a bounded number of
statements. It assumes that the clock goes on, for some lease or delay that is running.
It does not assume that crashes happen or stop, that handlers succeed, or that operators
act. At least one worker is left alive, which is the orchestrator's restart policy.
`Flows` states no liveness: that a run ends is its platform's executor, and no loop of the
workflows could keep it from ending.

### Findings

1. `lease` counts the attempt when it takes a row and takes only rows with attempts
   left; only `fail` writes dead letters. A worker that dies during the last attempt
   strands the row. `docs/architecture.md:240` promises recovery by lease.
   `EveryMessageSettles` and `EveryFailureSurfaces` name this case (`Stranded`) as their
   only exception.
2. The contract admits a `SUCCEEDED` event with an error code and a table constraint
   refuses it, on every retry. `docs/architecture.md:235` says a valid event is accepted.
3. The risk tier of a release is read before the transaction that approves it, so a
   synchronisation in between lets a proposer approve a release that is high-risk by then;
   `docs/implementation-roadmap.md:99` excludes it. `SelfApprovalWasAllowed` is what does
   hold: some tier in force since the proposal allowed it.

### Observations

What else shows in the models and is not stated as a property:

- The correlation of a failure commits before its outbox row is completed, and nothing
  records which event it counted, so after a crash, a lost answer or a lost lease a failure
  counts again, at most once per attempt (`CountedWithinAttempts`).
  `docs/security-threat-model.md:57` calls correlation idempotent.
- Histories are read by the start of the transactions that wrote them, and
  `first_occurred_at` is that of the failure processed first.
- Evidence: the hash is taken over the document before the `jsonb` column reorders its keys
  (`evidence.service.ts:78`), so it is not the hash of what a download returns.
- A case or a claim that has been decided is open again after a second creation under
  another key, and one return may be refunded under several refund identifiers.
- Make: a return whose creation failed or was uncertain is read back as a plain resource,
  while the router looks for the status under `value`; no route follows and the scenario ends
  without an answer (`silent`). The same follows a 404 or 5xx at the read-back, which is
  resumed with status 200. A refund's read-back is resumed alike, so that a refund which does not
  exist is noticed at module 7 only, whose Break then tries in vain. `failureMode` is passed to the return as well as to
  the refund, so the refund's reconciliation that `automations/make/return-refund/HOSTED_VERIFICATION.md:13`
  asks for is not reached with it. The only costly order of the API has status
  `FULFILLED`, which makes its returns `REJECTED`, so the route "Approval required" is never taken.
- n8n: telemetry is sent once. An execution whose success was accepted may fail
  afterwards (the answer to the event or to the caller is lost), and is then reported as failed as well; the error
  code is the name n8n gives the error, which the contract need not accept.
- The callback deletes the transaction cookie for the path `/` while it was set for
  `/api/auth/callback` (`apps/web/app/api/auth/callback/route.ts:52`), so it stays until it
  expires; the code it belongs to is spent, and `OwnLoginOnly` does not depend on it.

- `select ... for update` locks nothing while an automation is not registered. Two
  replicas that register it from different commits both record `REGISTERED`, and no
  record names the change that the second upsert makes. `AuditTracksCatalog` and
  `ChangesFollowOn` allow for it: they speak of records that name a predecessor.
- The synthetic API keeps its idempotency records in memory. Its properties are those of
  one replica between two restarts; with several replicas a retry may run again.
- The record of a key belongs to one operation, so other input under the same key runs
  when it is sent to another operation.

## 4. What is proved

`OutboxProofs`, for every set of messages and instances and every budget of at least
one (`OutboxAssumption`):

- `TypeCorrect`: the type invariant. It is inductive together with "a busy worker holds
  a row", since the updates go through the row a worker holds.
- `HolderCurrent`, `AttemptsFence`, `DeadLettersSpent`, `SpentStaysLeased`: the four
  safety invariants (the last, that a row without attempts left stays leased until it
  is settled, is stated for the proof only and no run checks it). None is inductive
  alone. `IInv` conjoins them and adds that only existing pending rows are leased, that
  settled rows exist, that a row not yet written has no attempts, and that a worker
  between the two statements of a burial owns a row with no attempt left. The key step is
  the burial: such a row fails the `attempts < max_attempts` test of `lease`, so nobody
  can take it between the statements. The key step of `fail` is `LeaseHolderIsCurrent`:
  it makes the decision on the copy a decision on the row.
- `LatestAttemptSettles`: the action property, from `IInv`.
- `OutboxImplementsWorkQueue`: refinement. `Lease` is `Claim`, `Complete` with the lease
  is `Finish`, the retry is `GiveBack`, `Bury` is `Abandon`, and everything else a stutter.

`IncidentsProofs`, for every set of keys, identifiers, workers, requests and times, from
`NullAssumption` (an incident is not the null of a missing row):

- `TypeCorrect`: the type invariant, inductive with the rest of `IInv`.
- `OneActive`: one active incident per key. A new one is written only where the partial
  unique index finds no active incident, and no action leads from a resolved status back
  to an active one.
- `ResolvedStops` (`ResolvedStopsCounting`): nothing is counted after the resolution. The
  argument is `SelectedIsLocked`: a worker that has selected an incident holds its row lock and
  the incident is active, so an operator's transaction waits and the status cannot
  change before the count is written. `RequestedExists` keeps operators' requests on
  existing rows.

- `LatestOccurrence`: inductive with `IInv`; the latest of the old maximum and the new time is
  the maximum of both.
- `HistoriesReplay`: the inductive invariant is `RowsInv`, which joins `IInv` with "a row exists
  if and only if its history has begun" and `CountsMatch` (the failure count is the number of
  failures in the history). Every action changes a row in one of three ways, which
  `RowSteps` states once: not at all, with the first event, or with one event that follows.
- `AppliedAllowed`: the action property; the `where` clause of the update (`WhereStatus`) admits no
  status that the policy would refuse, so the earlier check may be stale.
- `IncidentsUnderAudit`: all of the above holds beside the making of bundles, which adds
  nothing to the steps of incidents (the lemma `EvidenceImplementsIncidents`).
- `BundlesTellTheirTime` and `ClosedBundlesStand`. `EvidenceInv` says of a bundle in the
  making what both properties say of a stored one: each copy shows a moment between the
  request and now. It is inductive because histories only grow and a
  closed incident stands, which are facts about `RowsInv`.

`FailurePipelineProofs`, from `PipelineAssumption`:

- `OneActiveInPipeline` (`OneActiveIncident`): with leases that are overtaken and failures that are
  counted again, two workers may both be opening an incident of one key. What becomes active
  is opened where the index finds none active (`ActiveSteps`), and has the key it was
  opened for (`KeysFit`).
- `FailuresAreCounted` (`NoFailureLost`), by `CompletedIsCounted`: who is about to complete a failure
  has counted it.
- `LocksOfHandlers` (`LocksBelongToHandlers`), inductive with the types: every way out of a handler
  ends its transaction.
- `SumsAddUp` (`IncidentsAddUp`). The property compares two sums, each written as the number of
  pairs of a thing and one of its counts (`Tally`), so that a commit adds one pair on either
  side (`TallyGrows`). `KeysFit` says that an incident has the key of the transaction that is about to
  count in it, and `SumSteps` that every step but a commit leaves all keys and counts alone.
- `CountsWithinAttempts`, by `AttemptsCover`: the counts of a failure and the handlers at
  work on it are together no more than its attempts. Without the handlers the invariant is
  not inductive, since a commit adds a count and takes nothing.

`TelemetryProofs`, from `TelemetryAssumption`:

- `TypeCorrect`.
- `ReceiptsAreOne` (`ReceiptsAgree`), by `Fenced`: the event of an open insert is not stored yet, and
  no other request has inserted it.
- `OutcomesStand` (`TerminalIsFinal`), from the fold.
- `AggregatesAgree` (`AggregateMatchesEvents`): `RowsAgree` says of each row, column by column, what
  the events stored so far say. The property speaks of the whole past and the
  code folds one event at a time, so the work is in lemmas about the first and the number of
  the places at which a sequence has an event, when it grows by one.

`CatalogProofs`, from `CatalogAssumption`. `CatalogInv` says what the row locks protect: what a
transaction has written it has locked (`DraftsAreLocked`), a row that its select found
is still what it found (`SelectionsHold`), and a draft's records lead from the committed row to
the drafted one (`DraftsFollow`). The last one allows for the row that the select did not find, where
nothing is locked. `AuditTracks` and `ChangesFollow` follow.

Of `Startup`, from `MigrationsAssumption` besides:

- `AuditTracksAtStartup`: the audit trail, when starts wait for their release's jobs. It comes
  from the same lemmas as above, since jobs leave the catalog alone (`StartupImplementsCatalog`, a lemma).
- `ScriptsRunOnce`, `NoCollision` and `ApiHasItsSchema`. `MigrationInv` says that a runner past its lock has
  it (`LockIsHeld`), and `ListIsFresh`: what it has read is true of the files it has not come to,
  and those it has passed are applied as it has them. Files are never taken back, so
  the schema of an API process stands whatever the jobs of other releases do.

`ReleasesProofs`, from `CatalogAssumption` and `ReleasesAssumption`. `ReleasesInv` says of a checked
request what is still true when its transaction comes: the artifact is in the audit trail, which
never shrinks (`ProposalsStand`), and an approval of one's own is covered by a tier since the
proposal (`DecisionsChecked`, with `TiersFollow`), or the release has been decided and the
request will be refused. `HistoriesMatch`, `ArtifactsWereObserved` and `SelfApprovals` follow. That the tier
is still in force is what cannot be proved: finding 3.

`SyntheticOperationsProofs`, from `SyntheticAssumption`. Every handler either repeats a recorded answer or writes one
resource and records its answer, with the checks that `Effect` lists (`Handled`); the nine
operations are needed for this lemma only. `StoreInv` is then kept by three kinds of step: an
answer, an effect, a restart.

- `RetriesGetOneAnswer` (`RetriesAgree`), by `RecordsSettle`: one record per key and operation, an
  action has run once if it is recorded, and every answer is a record.
- `RefundsCovered` (`RefundsAreCovered`), by `RefundsStand`: a return is never written again, so what its
  refund was checked against stands.
- `DecisionsStand` (`DecisionStands`), from `Pending` in the checks of `Effect`.

Of `Flows`, from `FlowsAssumption` besides:

- `FlowsTypeCorrect`, and `FlowsInductive` for the invariant. A step of a platform is a call of the API or
  none (the lemma `FlowsImplementSynthetic`), so `StoreInv` is at hand. `FlowsInv` has two parts. One is about the
  store of the API: `Kept`, that what is recorded is there, claims and returns as they were
  answered and an approved case still approved; `Opened`, that what is there was recorded;
  `AllMade`, that every record is of a run which had come far enough to make that call. `EffectKeeps` is where
  the keys matter: a creation that would overwrite a claim or an approved case has the key of
  the record that made it, so it is answered and not run. The other part, `Fits`, says which
  calls are recorded by the node a run is at. It is stated for runs that began in the present life
  of the API; a restart makes all others `restarted`.
- `ClaimsStand` (`AnsweredClaimsStand`), `ZapsHold` (`FinishedZapsHold`) and `RouterFollowed`
  (`RefundsFollowTheRouter`), from both parts. The last one also needs that a refund which a scenario finds
  and takes for its own is its own (`OwnRefund`): two accepted scenarios of one return share the
  record of the return, so they name one order (`OneRefund`).

`WebSessionProofs`, from `WebSessionAssumption`. `WebInv` says what a cookie and a request under way carry: a
login of that very browser, and a token that is `Current`, which is that its roles are the user's
or that it was issued before they changed.

- `TypeCorrect`.
- `OwnLogins` (`OwnLoginOnly`): the comparison of states is made before the exchange and its outcome is
  kept by the request, so another login in the same browser meanwhile changes nothing.
- `PagesServed` (`PagesAreServed`) and `RolesFade` (`FormerRolesFade`): arithmetic on the three clocks, for any
  `Ahead`, from `Current` and from a page's having found a live session when it began. Only the skew of
  provider and control plane (`Skew`) enters: the web server's clock dates a session and ends it.

What the proofs turned up. Two definitions had `CASE` with guards that overlap (`StatusShown` of
`Incidents`, and `Answer` of `WebSession`): TLC takes the first that holds, but TLA+ does not say which, so both are `IF`s now. The
assumptions that the models had used tacitly are stated: that `Null` is none of the
rows, that releases list named files with checksums, that the fields a contract
demands (`SyntheticAssumption`: the status of a case, the return of a refund and of warehouse work) are there,
and what the workflows make of their keys (`FlowsAssumption`). A
resource's status is one of the statuses of the code and no longer any string, since
with it `Null` could not be told from a resource. `IncidentsAddUp` was a comparison of two folds over sets, of which
nothing can be proved without an induction over the set, and is one of two cardinalities now.

Only model-checked:

- liveness (`EveryMessageSettles`, `EveryFailureSurfaces`), which needs fairness and ENABLED;
- the three properties that the code violates.

Every other property of a run is the subject of a theorem. What `OutboxProofs` and `IncidentsProofs` prove is proved of the
pipeline only where section 4 says so, because the prover does not take an instance of a module with proofs.

## 5. Not modelled

- Health, heartbeat and metrics: reads, and one upsert of a row that only the health page reads.
- The tracing package: formatting and best-effort export of spans.
- Signatures of telemetry and of synthetic requests: stateless checks that decide whether a
  request is looked at. What parsing refuses leaves no trace.
- What pages render, and read-only endpoints.
- Power Platform: a solution exported as data, with a packager and a structural validator;
  the calls it makes are in `SyntheticOperations`. The validators of the Make blueprint and of the
  n8n node's description likewise.
- Deployment files and drills, except for the order of start-up that `compose.yaml` fixes.

Retry delays have no length. Payload validation in the worker is the choice between
`HandlerSucceeds` and `HandlerFails`. What the hosting platforms do with a run (retry counts,
replays, resumption) is modelled from the exported workflows and marked as theirs where no line of
this repository says it.

## 6. Plan

Done: all modules of section 2, and the proofs of section 4. Left:

1. An abstract `EffectOnce` (a request takes effect at most once and all answers to it
   agree), which `SyntheticOperations` on one replica and `Telemetry` both implement.
2. The other invariants of the outbox and of incidents as theorems of the pipeline, when the
   prover can instantiate a module of proofs.
