\* PostgreSQL, an event commits behind the watermark.
SPECIFICATION Spec
CONSTANTS
  e1 = e1
  e2 = e2
  c1 = c1
  c2 = c2
  m1 = m1
  Entity = {e1, e2}
  Coordinator = {c1}
  Migration = {m1}
  NoMigration = NoMigration
  MigrationOf <- SameMigration
  Postgres = TRUE
  Recreation = TRUE
  PageSize = 1
  MaxSeq = 2
  MaxRevision = 1
INVARIANTS NothingSkipped
