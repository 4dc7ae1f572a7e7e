\* Two workers, any edit, any day lost.
SPECIFICATION Spec
CONSTANTS
  t1 = t1
  w1 = w1
  w2 = w2
  Task = {t1}
  Worker = {w1, w2}
  Horizon = 1
  Recurrence <- DailyOrAlternate
  MaxDay = 2
  MaxVersions = 2
  EditsPast = TRUE
  EditsAgain = TRUE
  DaysLost = {TRUE, FALSE}
SYMMETRY Interchangeable
INVARIANTS TypeOK NoOrphans WatermarkHonest
PROPERTIES HistoryKept EndedByHolder
