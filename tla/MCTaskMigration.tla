-------------------------- MODULE MCTaskMigration --------------------------
(***************************************************************************)
(* TLC instances of TaskMigration: every process runs the same migration,  *)
(* which is how an operator resumes one.                                   *)
(***************************************************************************)
EXTENDS TaskMigration, TLC

CONSTANTS e1, e2, c1, c2, m1

SameMigration == [c \in Coordinator |-> m1]

Interchangeable == Permutations(Entity) \cup Permutations(Coordinator)
=============================================================================
