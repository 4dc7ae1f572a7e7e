\* Daily service, edits that look ahead.
SPECIFICATION FairSpec
CONSTANTS
  t1 = t1
  w1 = w1
  w2 = w2
  Task = {t1}
  Worker = {w1}
  Horizon = 1
  Recurrence <- DailyOrAlternate
  MaxDay = 3
  MaxVersions = 2
  EditsPast = FALSE
  EditsAgain = FALSE
  DaysLost = {}
PROPERTIES WindowsFilled
