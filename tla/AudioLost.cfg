SPECIFICATION VoiceSpec
CONSTANTS
  Content = {c1, c2}
  NoContent = nocontent
  Uploader = {u1, u2}
  Transcriber = {t1}
  Cleaner = {k1}
  Dictation = {d1}
  Nobody = nobody
  MaxJobAttempts = 1
  MaxAudioRevision = 7
  MaxJobs = 0
  MaxTroubles = 0
INVARIANTS
  AudioHeld
CHECK_DEADLOCK FALSE
