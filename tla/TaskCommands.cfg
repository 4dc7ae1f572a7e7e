\* One task, two projects, a client with an old reading.
SPECIFICATION AggregateSpec
CONSTANTS
  Project = {p1, p2}
  Task = {t1}
  Date = {d1}
  Once = once
  MaxTaskRevision = 4
  MaxScheduleRevision = 2
  MaxOccurrenceRevision = 3
  ReadRevision = {2}
SYMMETRY Interchangeable
INVARIANTS AggregateTypeOK OneOffAgrees CompletedIsQuiet
PROPERTIES EndingIsComplete ActsOnWhatItSaw
CHECK_DEADLOCK FALSE
