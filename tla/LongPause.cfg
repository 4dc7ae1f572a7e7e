\* A task stays paused past its window and is resumed.
SPECIFICATION FairSpec
CONSTANTS
  t1 = t1
  w1 = w1
  w2 = w2
  Task = {t1}
  Worker = {w1}
  Horizon = 1
  Recurrence <- DailyOrAlternate
  MaxDay = 4
  MaxVersions = 1
  EditsPast = FALSE
  EditsAgain = FALSE
  DaysLost = {FALSE}
PROPERTIES WindowsFilled
