----------------------------- MODULE Migrations -----------------------------
(***************************************************************************)
(* The migration runner (database/migrate.ts).  Several may be started at  *)
(* once, of one release or of two.  A runner takes an advisory lock, reads *)
(* which files are applied, and goes through the files of its release in   *)
(* the order of their names: it skips an applied file whose checksum is    *)
(* its own, refuses a modified one, and applies a new one together with    *)
(* its record in one transaction.  The lock is the session's: it goes when *)
(* the runner unlocks and when its connection ends.                        *)
(***************************************************************************)
EXTENDS Integers, Sequences, FiniteSets

CONSTANTS
  Runners,   \* lives of the migration job
  Releases,  \* releases of the repository
  ReleaseOf, \* the release a runner is from
  Files,     \* Files[r]: the names of its migration files, sorted
  Checksum,  \* Checksum[r][f]: of the file f as r has it
  Null

Names == UNION {{Files[r][n] : n \in DOMAIN Files[r]} : r \in Releases}

\* What the module takes for granted; Startup states it of its own constants.
MigrationsAssumption ==
  /\ ReleaseOf \in [Runners -> Releases]
  /\ Files \in [Releases -> Seq(Names)]
  /\ \A r \in Releases : \A m, n \in DOMAIN Files[r] : Files[r][m] = Files[r][n] => m = n
  /\ \A r \in Releases : \A n \in DOMAIN Files[r] : Checksum[r][Files[r][n]] # Null
  /\ Null \notin Runners

VARIABLES
  applied,   \* applied[f]: checksum in schema_migrations, or Null
  executed,  \* history variable: executed[f], how often f's script took effect
  lock,      \* the runner that has the advisory lock
  step,      \* step[m]: where the runner m is
  known,     \* known[m]: schema_migrations as m has read it
  at         \* at[m]: the place of its loop in its files

vars == <<applied, executed, lock, step, known, at>>

Nothing == [f \in Names |-> Null]
Own(m) == Files[ReleaseOf[m]]
OwnChecksum(m, f) == Checksum[ReleaseOf[m]][f]
Current(m) == Own(m)[at[m]]

Init ==
  /\ applied = Nothing /\ executed = [f \in Names |-> 0]
  /\ lock = Null
  /\ step = [m \in Runners |-> "starting"]
  /\ known = [m \in Runners |-> Nothing] /\ at = [m \in Runners |-> 1]

\* Mutant: no lock is asked for.
AcquireNever(m) == UNCHANGED lock
\* pg_advisory_lock waits until no other session has the lock.
Acquire(m) == lock = Null /\ lock' = m

TakeLock(m) ==
  /\ step[m] = "starting" /\ Acquire(m)
  /\ step' = [step EXCEPT ![m] = "locked"]
  /\ UNCHANGED <<applied, executed, known, at>>

\* prepareMigrationTable and loadAppliedMigrations.
LoadApplied(m) ==
  /\ step[m] = "locked"
  /\ known' = [known EXCEPT ![m] = applied]
  /\ step' = [step EXCEPT ![m] = "looping"]
  /\ UNCHANGED <<applied, executed, lock, at>>

Looping(m) == step[m] = "looping" /\ at[m] <= Len(Own(m))

\* A process ends; whatever it held of the lock is free.
EndAs(m, outcome) ==
  /\ step' = [step EXCEPT ![m] = outcome]
  /\ lock' = IF lock = m THEN Null ELSE lock
  /\ UNCHANGED <<known, at>>

\* Mutant: an applied file is skipped whatever its checksum.
SameFileByName(m, f) == known[m][f] # Null
SameFile(m, f) == known[m][f] = OwnChecksum(m, f)

Skip(m) ==
  /\ Looping(m) /\ known[m][Current(m)] # Null /\ SameFile(m, Current(m))
  /\ at' = [at EXCEPT ![m] = @ + 1]
  /\ UNCHANGED <<applied, executed, lock, step, known>>

RefuseModified(m) ==
  /\ Looping(m) /\ known[m][Current(m)] # Null /\ ~SameFile(m, Current(m))
  /\ EndAs(m, "modified")
  /\ UNCHANGED <<applied, executed>>

\* Mutant: the script and its record are not one transaction, and a crash may
\* come between them.
ExecuteThenRecord(m, f) ==
  /\ executed' = [executed EXCEPT ![f] = @ + 1]
  /\ applied' \in {applied, [applied EXCEPT ![f] = OwnChecksum(m, f)]}
ExecuteAndRecord(m, f) ==
  /\ executed' = [executed EXCEPT ![f] = @ + 1]
  /\ applied' = [applied EXCEPT ![f] = OwnChecksum(m, f)]

\* begin, the script, the insert into schema_migrations, commit.  Where another
\* runner applied the file since the list was read, its objects exist and its
\* primary key is taken, and the run fails.
Apply(m) ==
  /\ Looping(m) /\ known[m][Current(m)] = Null
  /\ IF applied[Current(m)] = Null
     THEN /\ ExecuteAndRecord(m, Current(m))
          /\ at' = [at EXCEPT ![m] = @ + 1]
          /\ UNCHANGED <<lock, step, known>>
     ELSE EndAs(m, "collided") /\ UNCHANGED <<applied, executed>>

\* The same, and the answer to the commit is lost.
ApplyUnacknowledged(m) ==
  /\ Looping(m) /\ known[m][Current(m)] = Null /\ applied[Current(m)] = Null
  /\ ExecuteAndRecord(m, Current(m))
  /\ EndAs(m, "failed")

\* A failing script (rolled back), a lost connection, the end of the process.
FailRun(m) ==
  /\ step[m] \in {"starting", "locked", "looping"}
  /\ EndAs(m, "failed")
  /\ UNCHANGED <<applied, executed>>

Finish(m) ==
  /\ step[m] = "looping" /\ at[m] > Len(Own(m))
  /\ EndAs(m, "completed")
  /\ UNCHANGED <<applied, executed>>

Run(m) ==
  \/ TakeLock(m) \/ LoadApplied(m) \/ Skip(m) \/ RefuseModified(m) \/ Apply(m)
  \/ ApplyUnacknowledged(m) \/ FailRun(m) \/ Finish(m)

Next == \E m \in Runners : Run(m)
Spec == Init /\ [][Next]_vars
=============================================================================
