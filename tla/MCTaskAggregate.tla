-------------------------- MODULE MCTaskAggregate --------------------------
(* TLC instance of TaskAggregate.                                           *)
EXTENDS TaskAggregate, TLC

Interchangeable == Permutations(Project)
=============================================================================
