------------------------------ MODULE Startup ------------------------------
(***************************************************************************)
(* Bringing a release up: the migration job (Migrations) and then, once it *)
(* has completed, the API processes of the release, each of which writes   *)
(* its catalog (Catalog) before it serves.  compose.yaml lets the API wait *)
(* for the job's success, and the Kubernetes README asks for the same      *)
(* order.  A rolling update brings two releases up against one database.   *)
(***************************************************************************)
EXTENDS Catalog

CONSTANTS Runners, Releases, ReleaseOf, Files, Checksum,
          CatalogOf  \* CatalogOf[r]: what loadCatalog returns in release r

VARIABLES applied, executed, lock, step, known, at,
          release    \* release[p]: the release the API process p is from, or Null

M == INSTANCE Migrations

ASSUME StartupAssumption == M!MigrationsAssumption

migrationVars == <<applied, executed, lock, step, known, at>>
startupVars == <<vars, migrationVars, release>>

StartupInit == Init /\ M!Init /\ release = [p \in Processes |-> Null]

\* depends_on ... condition: service_completed_successfully.
Completed(r) == \E m \in Runners : ReleaseOf[m] = r /\ step[m] = "completed"

\* An API process of a release starts when a migration job of it has completed.
StartApi(p, r) ==
  /\ Completed(r)
  /\ Load(p) /\ checkout'[p] = CatalogOf[r]
  /\ release' = [release EXCEPT ![p] = r]
  /\ UNCHANGED migrationVars

Synchronize(p) ==
  /\ SelectRow(p) \/ UpsertRow(p) \/ Commit(p) \/ Abort(p)
  /\ UNCHANGED <<migrationVars, release>>

StartupNext ==
  \/ \E m \in Runners : M!Run(m) /\ UNCHANGED <<vars, release>>
  \/ \E p \in Processes : Synchronize(p) \/ \E r \in Releases : StartApi(p, r)

StartupSpec == StartupInit /\ [][StartupNext]_startupVars

-----------------------------------------------------------------------------

\* A script takes effect once, and exactly the scripts that did are recorded,
\* whichever runners crash, lose an answer or run again.
ScriptsTakeEffectOnce ==
  \A f \in M!Names : executed[f] = IF applied[f] = Null THEN 0 ELSE 1

\* Runners started together do not fail each other: none meets a file that was
\* applied behind its back, because it read the list under the lock.
RunnersDoNotCollide == \A m \in Runners : step[m] # "collided"

\* A running API finds every file of its own release applied, with the checksum
\* it has there, also after runners of another release.
ApiRunsOnItsSchema ==
  \A p \in Processes : release[p] # Null =>
    \A n \in DOMAIN Files[release[p]] :
      LET f == Files[release[p]][n] IN applied[f] = Checksum[release[p]][f]
=============================================================================
