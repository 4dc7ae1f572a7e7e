\* A second coordinator repairs after the cutover.
SPECIFICATION Spec
CONSTANTS
  e1 = e1
  e2 = e2
  c1 = c1
  c2 = c2
  m1 = m1
  Entity = {e1}
  Coordinator = {c1, c2}
  Migration = {m1}
  NoMigration = NoMigration
  MigrationOf <- SameMigration
  Postgres = FALSE
  Recreation = FALSE
  PageSize = 1
  MaxSeq = 1
  MaxRevision = 1
PROPERTIES OnlyClientsWriteV2
