SPECIFICATION MigrateFairSpec
CONSTANTS
  Runners = {r1, r2, r3}
  Last = 3
  Faults = {"db", "commit", "crash"}
  MaxDisruptions = 2
CHECK_DEADLOCK FALSE
INVARIANTS
  MigrateTypeOK RecordedIffApplied InOrder CompletedMeansAll
PROPERTIES
  SomebodyCompletes
