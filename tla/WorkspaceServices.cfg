SPECIFICATION ServicesSpec
CONSTANTS
  MaxImport = 1
  Importer = {w1, w2}
  MaxImportAttempts = 1
  MaxMishaps = 2
  NoImporter = noimporter
  Content = {c1, c2}
  NoContent = nocontent
  Opening = {c1}
  Uploader = {u1, u2}
  Transcriber = {t1}
  Cleaner = {k1, k2}
  Dictation = {d1}
  Nobody = nobody
  MaxJobAttempts = 2
  MaxAudioRevision = 4
  MaxJobs = 1
  MaxTroubles = 1
  Item = {i1}
  NoItem = noitem
  MaxIntent = 2
  MaxEpoch = 2
  MaxWebWrite = 1
  MaxCompacted = 1
  PageLimit = 1
  Target = {A, B}
  NoTarget = notarget
  MaxPages = 2
  Request = {r1, r2}
  Regular = r1
  MaxText = 2
  MaxActs = 3
  Caller = {q1, q2}
  Steady = q1
  MaxBinding = 2
  MaxOutages = 2
  MaxOthers = 2
INVARIANTS
  ServicesTypeOK
  OneNote
  GoneIsSilent
  ErasedForGood
  AnswersHold
  NothingMissed
  NoResurrection
  LeftForGood
PROPERTIES
  CancelHolds
  ImportsEnd
  TranscriptOfCurrentAudio
  VoiceWorkEnds
  IntentsInOrder
  PhoneCatchesUp
  DeletedForGood
  EditsKept
  NotionCatchesUp
  RolloutEnds
CHECK_DEADLOCK FALSE
