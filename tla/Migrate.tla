------------------------------ MODULE Migrate ------------------------------
(***************************************************************************)
(* The migration runner (cmd/migrate/main.go).  It applies the *.up.sql    *)
(* files in order of their names and records each in schema_migrations, in *)
(* one transaction per file.  Nothing keeps two runners apart: two         *)
(* deployments may run one each, and whether a file was applied is asked   *)
(* outside of its transaction.  The API and the workers start only after a *)
(* runner has completed (docker-compose.yml).                              *)
(*                                                                         *)
(* pc[r] names the next statement of the runner:                           *)
(*   off        not running                                                *)
(*   creating   CREATE TABLE IF NOT EXISTS schema_migrations, not there    *)
(*              when the statement began                                   *)
(*   check      SELECT EXISTS for the current file                         *)
(*   exec       BEGIN and the file's statements                            *)
(*   record     INSERT INTO schema_migrations                              *)
(*   commit     COMMIT                                                     *)
(*   done       "All migrations applied successfully", exit code 0         *)
(*   failed     os.Exit(1), or killed                                      *)
(***************************************************************************)
EXTENDS Faults

CONSTANTS Runners,
          Last       \* the files are 1 .. Last, in the order of their names

ASSUME LastAssumption == Last \in Nat \ {0}

Files == 1 .. Last

VARIABLES versions,     \* the rows of schema_migrations
          versionTable, \* whether that table exists
          schema,       \* the files whose objects exist, committed
          pc, file

migrateVars == <<versions, versionTable, schema, pc, file, disruptions>>

InTransaction(r) == pc[r] \in {"record", "commit"}
Running(r) == pc[r] \notin {"off", "done", "failed"}

MigrateTypeOK ==
  /\ versions \subseteq Files
  /\ versionTable \in BOOLEAN
  /\ schema \subseteq Files
  /\ pc \in [Runners -> {"off", "creating", "check", "exec", "record", "commit",
                         "done", "failed"}]
  /\ file \in [Runners -> 1 .. Last + 1]
  /\ \A r \in Runners : pc[r] \in {"exec", "record", "commit"} => file[r] \in Files
  /\ FaultsTypeOK

MigrateInit ==
  /\ versions = {}
  /\ versionTable = FALSE
  /\ schema = {}
  /\ pc = [r \in Runners |-> "off"]
  /\ file = [r \in Runners |-> 1]
  /\ disruptions = 0

-----------------------------------------------------------------------------
Goto(r, next) == pc' = [pc EXCEPT ![r] = next]
Fail(r) == Goto(r, "failed") /\ UNCHANGED file

\* The process is started, for the first time or again.
Start(r) ==
  /\ ~Running(r)
  /\ Goto(r, IF versionTable THEN "check" ELSE "creating")
  /\ file' = [file EXCEPT ![r] = 1]
  /\ UNCHANGED <<versions, versionTable, schema, disruptions>>

CreateVersionTable(r) ==
  /\ pc[r] = "creating"
  /\ versionTable' = TRUE
  /\ Goto(r, "check")
  /\ UNCHANGED <<versions, schema, file, disruptions>>

\* IF NOT EXISTS looked before another runner's table was there.
CreateRaces(r) ==
  /\ pc[r] = "creating" /\ versionTable
  /\ Fail(r)
  /\ UNCHANGED <<versions, versionTable, schema, disruptions>>

AlreadyApplied(r) ==
  /\ pc[r] = "check" /\ file[r] \in versions
  /\ file' = [file EXCEPT ![r] = @ + 1]
  /\ UNCHANGED <<versions, versionTable, schema, pc, disruptions>>

\* Mutant: the loop does not end with the last file.
NotYetAppliedUnbounded(r) ==
  /\ pc[r] = "check" /\ file[r] \notin versions
  /\ Goto(r, "exec")
  /\ UNCHANGED <<versions, versionTable, schema, file, disruptions>>

NotYetApplied(r) ==
  /\ pc[r] = "check" /\ file[r] \in Files \ versions
  /\ Goto(r, "exec")
  /\ UNCHANGED <<versions, versionTable, schema, file, disruptions>>

AllApplied(r) ==
  /\ pc[r] = "check" /\ file[r] > Last
  /\ Goto(r, "done")
  /\ UNCHANGED <<versions, versionTable, schema, file, disruptions>>

(***************************************************************************)
(* The files begin with a CREATE that is not IF NOT EXISTS (CREATE TYPE,   *)
(* CREATE TABLE): it waits for another open transaction that creates the   *)
(* same object, and fails if the object is there.                          *)
(***************************************************************************)
Blocked(r) == \E s \in Runners \ {r} : InTransaction(s) /\ file[s] = file[r]

ApplyFile(r) ==
  /\ pc[r] = "exec" /\ ~Blocked(r)
  /\ file[r] \notin schema
  /\ Goto(r, "record")
  /\ UNCHANGED <<versions, versionTable, schema, file, disruptions>>

ObjectsExist(r) ==
  /\ pc[r] = "exec" /\ ~Blocked(r)
  /\ file[r] \in schema
  /\ Fail(r)
  /\ UNCHANGED <<versions, versionTable, schema, disruptions>>

\* Mutant: the version is recorded through db instead of tx.
RecordOutsideTx(r) ==
  /\ pc[r] = "record"
  /\ versions' = versions \cup {file[r]}
  /\ Goto(r, "commit")
  /\ UNCHANGED <<versionTable, schema, file, disruptions>>

\* version is the primary key; a row that is there already would be an error.
Record(r) ==
  /\ pc[r] = "record"
  /\ IF file[r] \in versions THEN Fail(r) ELSE Goto(r, "commit") /\ UNCHANGED file
  /\ UNCHANGED <<versions, versionTable, schema, disruptions>>

\* What the COMMIT of r's transaction makes visible.
TakesEffect(r) ==
  /\ pc[r] = "commit"
  /\ schema' = schema \cup {file[r]}
  /\ versions' = versions \cup {file[r]}
  /\ UNCHANGED versionTable

\* Mutant: the runner leaves the loop after the first file it applies.
CommitOnce(r) ==
  /\ TakesEffect(r)
  /\ Goto(r, "failed")
  /\ UNCHANGED <<file, disruptions>>

Commit(r) ==
  /\ TakesEffect(r)
  /\ Goto(r, "check")
  /\ file' = [file EXCEPT ![r] = @ + 1]
  /\ UNCHANGED disruptions

CommitUnknown(r) ==
  /\ TakesEffect(r)
  /\ Disrupt("commit")
  /\ Fail(r)

\* Mutant: a failing file is skipped.
SkipFailed(r) ==
  /\ Running(r)
  /\ Disrupt("db")
  /\ IF pc[r] = "exec"
     THEN Goto(r, "check") /\ file' = [file EXCEPT ![r] = @ + 1]
     ELSE Fail(r)
  /\ UNCHANGED <<versions, versionTable, schema>>

\* Any statement fails: rolled back, exit code 1.
StatementFails(r) ==
  /\ Running(r)
  /\ Disrupt("db")
  /\ Fail(r)
  /\ UNCHANGED <<versions, versionTable, schema>>

\* The runner is killed; PostgreSQL rolls its transaction back.
Killed(r) ==
  /\ Running(r)
  /\ Disrupt("crash")
  /\ Fail(r)
  /\ UNCHANGED <<versions, versionTable, schema>>

-----------------------------------------------------------------------------
Statement(r) ==
  \/ CreateVersionTable(r) \/ CreateRaces(r)
  \/ AlreadyApplied(r) \/ NotYetApplied(r) \/ AllApplied(r)
  \/ ApplyFile(r) \/ ObjectsExist(r) \/ Record(r)
  \/ Commit(r) \/ CommitUnknown(r) \/ StatementFails(r)

MigrateNext == \E r \in Runners : Start(r) \/ Statement(r) \/ Killed(r)

MigrateSpec == MigrateInit /\ [][MigrateNext]_migrateVars

\* A runner goes on; a blocked statement ends with what blocks it.
MigrateFairSpec ==
  MigrateSpec /\ \A r \in Runners : WF_migrateVars(Statement(r))

-----------------------------------------------------------------------------
(***************************************************************************)
(* A version is recorded exactly when its file has taken effect, whoever   *)
(* was killed between the two: otherwise a file would be applied again, or *)
(* never.                                                                  *)
(***************************************************************************)
RecordedIffApplied == versions = schema

(***************************************************************************)
(* Files take effect in order, although each runner decides by what it has *)
(* read before: later files build on the types and functions of earlier    *)
(* ones.                                                                   *)
(***************************************************************************)
InOrder == \A f \in schema : 1 .. f \subseteq schema

(***************************************************************************)
(* A runner that reports success leaves a complete schema, also if another *)
(* runner did part of the work.  This is what the API and the workers wait *)
(* for before they start.                                                  *)
(***************************************************************************)
CompletedMeansAll == \A r \in Runners : pc[r] = "done" => schema = Files

(***************************************************************************)
(* Racing runners make one another fail, but not all of them: unless       *)
(* something else goes wrong, one reports success.                         *)
(***************************************************************************)
SomebodyCompletes ==
  (\E r \in Runners : Running(r)) ~> (\E r \in Runners : pc[r] = "done") \/ disruptions > 0

-----------------------------------------------------------------------------
(***************************************************************************)
(* The inductive invariant: a runner has seen every file before its own    *)
(* applied, and no two transactions hold the objects of one file.          *)
(***************************************************************************)
EarlierApplied ==
  \A r \in Runners : Running(r) => 1 .. (file[r] - 1) \subseteq schema

ObjectsHeldOnce ==
  \A r \in Runners : InTransaction(r) =>
    /\ file[r] \notin schema
    /\ \A s \in Runners \ {r} : InTransaction(s) => file[s] # file[r]

MigrateInv ==
  /\ MigrateTypeOK /\ RecordedIffApplied /\ InOrder /\ CompletedMeansAll
  /\ EarlierApplied /\ ObjectsHeldOnce

=============================================================================
