\* A schedule is edited twice on the same date.
SPECIFICATION FairSpec
CONSTANTS
  t1 = t1
  w1 = w1
  w2 = w2
  Task = {t1}
  Worker = {w1}
  Horizon = 1
  Recurrence <- DailyOrAlternate
  MaxDay = 1
  MaxVersions = 2
  EditsPast = FALSE
  EditsAgain = TRUE
  DaysLost = {}
PROPERTIES WindowsFilled
