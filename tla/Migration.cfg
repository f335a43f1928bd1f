\* Three tables, two rows, two crashes.
CONSTANTS
  N = 3
  Row = {r1, r2}
  MaxCrashes = 2
SPECIFICATION FairSpec
INVARIANTS MigrationTypeOK NoRowIsLost ServesMigratedTables
PROPERTIES StartComesUp
