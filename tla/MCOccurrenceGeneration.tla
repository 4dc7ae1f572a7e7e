----------------------- MODULE MCOccurrenceGeneration -----------------------
(* TLC instances of OccurrenceGeneration: daily and every-other-day tasks.  *)
EXTENDS OccurrenceGeneration, TLC

CONSTANTS t1, w1, w2

DailyOrAlternate == {Day, {d \in Day : d % 2 = 1}}

Interchangeable == Permutations(Worker)
=============================================================================
