\* PostgreSQL, one coordinator, repeated migrations of two rows.
SPECIFICATION Spec
CONSTANTS
  e1 = e1
  e2 = e2
  c1 = c1
  c2 = c2
  m1 = m1
  Entity = {e1, e2}
  Coordinator = {c1}
  Migration = {m1}
  NoMigration = NoMigration
  MigrationOf <- SameMigration
  Postgres = TRUE
  Recreation = TRUE
  PageSize = 2
  MaxSeq = 3
  MaxRevision = 8
SYMMETRY Interchangeable
INVARIANTS TypeOK DurableStateAgrees CutoverIsFinal RollbackBoundary MapTruthful
PROPERTIES DataPreserved OnlyClientsWriteV2
