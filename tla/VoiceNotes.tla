----------------------------- MODULE VoiceNotes -----------------------------
(***************************************************************************)
(* One voice note and everything that works on its audio:                  *)
(*                                                                         *)
(*  - requests that upload the recording or replace it, each a chain of    *)
(*    object-store calls and transactions (service/native.go,              *)
(*    storage/{sqlite,postgres}/native.go);                                *)
(*  - users who ask for a transcript, edit or delete the note, delete the  *)
(*    voice note or only its audio, in the browser or from a device        *)
(*    (mobilev2service/content_commands.go, storage/.../notes.go,          *)
(*    storage/.../mobile_entity_sync.go);                                  *)
(*  - transcription workers, under leases that expire                      *)
(*    (transcriptionjob/worker.go, storage/.../transcription_worker.go);   *)
(*  - requests that wait for a transcript themselves, without a job        *)
(*    (service/native.go, TranscribeVoiceNote);                            *)
(*  - cleanup workers, which remove audio from the object store and then   *)
(*    record it (voiceaudiocleanup/worker.go,                              *)
(*    storage/.../voice_audio_cleanup.go).                                 *)
(*                                                                         *)
(* Transactions are single actions; a call of the object store is another. *)
(* A lease token is named by the worker that drew it.  Of the jobs of the  *)
(* voice note only the latest can be active, so only that row is kept.     *)
(***************************************************************************)
EXTENDS Integers

CONSTANTS
  Content,           \* recordings
  NoContent,
  Uploader,          \* requests that can be under way at once
  Transcriber,       \* transcription workers, one per server process
  Cleaner,           \* cleanup workers, one per server process
  Dictation,         \* synchronous requests for a transcript that can be under way at once
  Nobody,            \* the empty lease_token
  MaxJobAttempts,    \* max_attempts of both kinds of job (6 in the code)
  MaxAudioRevision,  \* bound on the uploads and replacements
  MaxJobs,           \* bound on the transcription jobs
  MaxTroubles        \* bound on crashes, failures, leases lost to slowness and
                     \* synchronous requests

\* A first upload goes under the client id, a replacement under client id and digest.
First == "first"
Key   == {First} \cup Content
NoKey == "none"

ASSUME VoiceAssumption ==
  /\ NoContent \notin Content /\ Nobody \notin Transcriber \cup Cleaner
  /\ First \notin Content /\ NoKey \notin Content
  /\ MaxJobAttempts \in Nat \ {0} /\ MaxAudioRevision \in Nat \ {0} /\ MaxJobs \in Nat
  /\ MaxTroubles \in Nat

VARIABLES
  note,      \* the note: deleted, and whether its body is empty
  voice,     \* the row of voice_notes
  objects,   \* object key -> the content stored under it
  job,       \* the latest row of transcription_jobs
  results,   \* job generation -> the recording that its transcription_results are of
  cleanup,   \* object key -> its row of voice_audio_cleanup_jobs
  uploader, transcriber, cleaner,   \* what each request or worker is doing
  dictation, \* what each synchronous request listens to, and whether that was overtaken
  leaked,    \* history: an upload died, or left its object behind
  troubles   \* how many of what MaxTroubles bounds there were

voiceRows == <<note, voice, job, results, cleanup>>
voiceVars == <<voiceRows, objects, uploader, transcriber, cleaner, dictation, leaked, troubles>>

----------------------------------------------------------------------------
(* Data *)

AudioState  == {"absent", "uploading", "uploaded", "delete_requested", "deleted"}
UploadState == {"pending", "uploading", "uploaded", "failed"}
JobState    == {"none", "waiting_for_audio", "queued", "processing", "retry_waiting",
                "completed", "needs_review", "failed", "canceled"}
ActiveJob   == {"waiting_for_audio", "queued", "processing", "retry_waiting"}

Generation == 1 .. MaxJobs

NoJob == [gen |-> 0, state |-> "none", attempt |-> 0, holder |-> Nobody, lapsed |-> FALSE]
NoCleanup == [state |-> "none", attempt |-> 0, holder |-> Nobody, lapsed |-> FALSE]
Waiting   == [NoCleanup EXCEPT !.state = "retry_waiting"]

Idle == [at |-> "idle", content |-> NoContent, base |-> 0, old |-> NoKey]
Off  == [at |-> "idle", gen |-> 0, heard |-> NoContent]
Away == [at |-> "idle", key |-> NoKey]
Deaf == [heard |-> NoContent, overtaken |-> FALSE]

\* Both are counted only as far as the code, or the bound, tells them apart.
Capped(n, max) == IF n < max THEN n + 1 ELSE n

BeingDeleted == voice.audio \in {"delete_requested", "deleted"}

----------------------------------------------------------------------------
\* A voice note just created, by a device or over the native API.
VoiceInit ==
  /\ note = [gone |-> FALSE, empty |-> TRUE]
  /\ voice = [gone |-> FALSE, audio |-> "absent", upload |-> "pending",
              key |-> NoKey, sha |-> NoContent, revision |-> 1]
  /\ objects = [k \in Key |-> NoContent]
  /\ job = NoJob
  /\ results = [g \in Generation |-> NoContent]
  /\ cleanup = [k \in Key |-> NoCleanup]
  /\ uploader = [u \in Uploader |-> Idle]
  /\ transcriber = [t \in Transcriber |-> Off]
  /\ cleaner = [c \in Cleaner |-> Away]
  /\ dictation = [d \in Dictation |-> Deaf]
  /\ leaked = FALSE /\ troubles = 0

voiceWorkers == <<uploader, transcriber, cleaner>>

----------------------------------------------------------------------------
(* Uploading *)

Put(k, c) == objects' = [objects EXCEPT ![k] = c]
Remove(k) == objects' = [objects EXCEPT ![k] = NoContent]

UploaderAt(u, step) == uploader' = [uploader EXCEPT ![u].at = step]
UploaderDone(u)     == uploader' = [uploader EXCEPT ![u] = Idle]

\* ClaimUpload.  A request it refuses, or one whose recording is already there,
\* changes nothing.
StartUpload(u, c) ==
  /\ uploader[u].at = "idle"
  /\ ~voice.gone /\ voice.upload # "uploaded" /\ ~BeingDeleted
  /\ voice.sha \in {NoContent, c}
  /\ voice.revision < MaxAudioRevision
  /\ voice' = [voice EXCEPT !.key = First, !.sha = c, !.upload = "uploading",
                            !.audio = "uploading", !.revision = voice.revision + 1]
  /\ uploader' = [uploader EXCEPT ![u] =
       [at |-> "put", content |-> c, base |-> 0, old |-> NoKey]]
  /\ UNCHANGED <<note, objects, job, results, cleanup, transcriber, cleaner, dictation, leaked, troubles>>

PutUpload(u) ==
  /\ uploader[u].at = "put"
  /\ Put(First, uploader[u].content)
  /\ UploaderAt(u, "mark")
  /\ UNCHANGED <<voiceRows, transcriber, cleaner, dictation, leaked, troubles>>

\* The store refuses, and MarkUploadFailed.
FailUpload(u) ==
  /\ uploader[u].at = "put" /\ troubles < MaxTroubles
  /\ voice' = IF voice.sha = uploader[u].content /\ ~voice.gone
                 /\ voice.upload \notin {"uploaded", "failed"}
              THEN [voice EXCEPT !.upload = "failed"] ELSE voice
  /\ UploaderDone(u) /\ troubles' = troubles + 1
  /\ UNCHANGED <<note, objects, job, results, cleanup, transcriber, cleaner, dictation, leaked>>

KeepLateUpload(u) ==                      \* Mutant: the late object is not removed.
  /\ uploader[u].at = "mark"
  /\ IF voice.sha = uploader[u].content /\ ~voice.gone /\ voice.upload # "uploaded" /\ ~BeingDeleted
       THEN /\ voice' = [voice EXCEPT !.upload = "uploaded", !.audio = "uploaded"]
            /\ UNCHANGED <<job, leaked>>
       ELSE /\ leaked' = (leaked \/ (~voice.gone /\ ~BeingDeleted /\ voice.key # First))
            /\ UNCHANGED <<voice, job>>
  /\ UploaderDone(u)
  /\ UNCHANGED <<note, objects, results, cleanup, transcriber, cleaner, dictation, troubles>>

\* MarkUploaded.  Where the audio was deleted meanwhile, the object goes again; any
\* other refusal leaves it, and no row knows of it once the audio was replaced.
MarkUpload(u) ==
  /\ uploader[u].at = "mark"
  /\ IF voice.sha = uploader[u].content /\ ~voice.gone /\ voice.upload # "uploaded" /\ ~BeingDeleted
       THEN /\ voice' = [voice EXCEPT !.upload = "uploaded", !.audio = "uploaded",
                                      !.revision = Capped(voice.revision, MaxAudioRevision)]
            /\ job' = IF job.state = "waiting_for_audio" THEN [job EXCEPT !.state = "queued"] ELSE job
            /\ UploaderDone(u) /\ UNCHANGED leaked
       ELSE /\ IF voice.gone \/ BeingDeleted
               THEN UploaderAt(u, "undo") /\ UNCHANGED leaked
               ELSE UploaderDone(u) /\ leaked' = (leaked \/ voice.key # First)
            /\ UNCHANGED <<voice, job>>
  /\ UNCHANGED <<note, objects, results, cleanup, transcriber, cleaner, dictation, troubles>>

\* What a first upload, or a replacement, removes when it lost.
UndoUpload(u) ==
  /\ uploader[u].at = "undo"
  /\ Remove(IF uploader[u].base = 0 THEN First ELSE uploader[u].content)
  /\ UploaderDone(u)
  /\ UNCHANGED <<voiceRows, transcriber, cleaner, dictation, leaked, troubles>>

\* A replacement first reads the row; a device that knows another audio revision
\* is refused, and one that sends the same recording again is answered at once.
StartReplacement(u, c) ==
  /\ uploader[u].at = "idle"
  /\ ~voice.gone /\ voice.upload = "uploaded" /\ voice.audio = "uploaded"
  /\ voice.sha # c /\ voice.revision < MaxAudioRevision
  /\ uploader' = [uploader EXCEPT ![u] =
       [at |-> "replace", content |-> c, base |-> voice.revision, old |-> voice.key]]
  /\ UNCHANGED <<voiceRows, objects, transcriber, cleaner, dictation, leaked, troubles>>

PutReplacement(u) ==
  /\ uploader[u].at = "replace"
  /\ Put(uploader[u].content, uploader[u].content)
  /\ UploaderAt(u, "swap")
  /\ UNCHANGED <<voiceRows, transcriber, cleaner, dictation, leaked, troubles>>

OnlyWaitingCanceled ==                    \* Mutant: a running job is left alone.
  IF job.state \in ActiveJob \ {"processing"}
  THEN [NoJob EXCEPT !.gen = job.gen, !.state = "canceled", !.attempt = job.attempt]
  ELSE job

\* The transcription jobs that a change of the audio ends.
CanceledJob == IF job.state \in ActiveJob
               THEN [NoJob EXCEPT !.gen = job.gen, !.state = "canceled", !.attempt = job.attempt]
               ELSE job

\* The requests that listen now listen to a recording that goes.
Overtake == dictation' = [d \in Dictation |->
  [dictation[d] EXCEPT !.overtaken = dictation[d].heard # NoContent]]

\* ReplaceUploaded compares and swaps on the audio revision.
SwapReplacement(u) ==
  /\ uploader[u].at = "swap"
  /\ IF ~voice.gone /\ voice.upload = "uploaded" /\ voice.audio = "uploaded"
        /\ voice.revision = uploader[u].base
       THEN /\ voice' = [voice EXCEPT !.key = uploader[u].content, !.sha = uploader[u].content,
                                      !.revision = voice.revision + 1]
            /\ job' = CanceledJob /\ Overtake
            /\ UploaderAt(u, "old")
       ELSE /\ UploaderAt(u, IF ~voice.gone /\ ~BeingDeleted /\ voice.upload = "uploaded"
                                /\ voice.sha = uploader[u].content
                             THEN "old" ELSE "undo")
            /\ UNCHANGED <<voice, job, dictation>>
  /\ UNCHANGED <<note, objects, results, cleanup, transcriber, cleaner, leaked, troubles>>

\* The object that the request saw before it began.
RemoveReplaced(u) ==
  /\ uploader[u].at = "old"
  /\ IF uploader[u].old # uploader[u].content THEN Remove(uploader[u].old) ELSE UNCHANGED objects
  /\ UploaderDone(u)
  /\ UNCHANGED <<voiceRows, transcriber, cleaner, dictation, leaked, troubles>>

AbandonUpload(u) ==
  /\ uploader[u].at # "idle" /\ troubles < MaxTroubles
  /\ UploaderDone(u) /\ leaked' = TRUE /\ troubles' = troubles + 1
  /\ UNCHANGED <<voiceRows, objects, transcriber, cleaner, dictation>>

----------------------------------------------------------------------------
(* Users *)

\* CreateOrGet, or a request or retry of a device: an active job is kept.
RequestTranscript ==
  /\ ~voice.gone /\ ~BeingDeleted /\ job.state \notin ActiveJob /\ job.gen < MaxJobs
  /\ job' = [NoJob EXCEPT !.gen = job.gen + 1,
               !.state = IF voice.upload = "uploaded" THEN "queued" ELSE "waiting_for_audio"]
  /\ UNCHANGED <<note, voice, results, cleanup, objects, voiceWorkers, dictation, leaked, troubles>>

EditNote ==
  /\ ~note.gone /\ note.empty
  /\ note' = [note EXCEPT !.empty = FALSE]
  /\ UNCHANGED <<voice, job, results, cleanup, objects, voiceWorkers, dictation, leaked, troubles>>

\* The update of voice_notes that every deletion makes.
AudioDeleted(row) ==
  [row EXCEPT !.audio = IF row.key = NoKey THEN "deleted" ELSE "delete_requested",
              !.sha = IF row.key = NoKey THEN NoContent ELSE row.sha,
              !.upload = IF row.key = NoKey THEN "failed" ELSE row.upload,
              !.revision = Capped(row.revision, MaxAudioRevision)]

\* INSERT OR IGNORE, one row per object key.
Enqueued == IF voice.key # NoKey /\ cleanup[voice.key].state = "none"
            THEN [cleanup EXCEPT ![voice.key] = Waiting] ELSE cleanup

DeleteAudio ==
  /\ ~voice.gone
  /\ voice' = AudioDeleted(voice) /\ job' = CanceledJob /\ cleanup' = Enqueued /\ Overtake
  /\ UNCHANGED <<note, results, objects, voiceWorkers, leaked, troubles>>

\* Deleting the voice note deletes its note, and so does deleting the note in the
\* browser delete its voice notes.
DeleteVoiceNote ==
  /\ ~voice.gone
  /\ voice' = [AudioDeleted(voice) EXCEPT !.gone = TRUE]
  /\ note' = [gone |-> TRUE, empty |-> TRUE]
  /\ job' = CanceledJob /\ cleanup' = Enqueued /\ Overtake
  /\ results' = [g \in Generation |-> NoContent]
  /\ UNCHANGED <<objects, voiceWorkers, leaked, troubles>>

\* note.delete of a device deletes the note and leaves its voice note and jobs.
DeleteNoteFromDevice ==
  /\ ~note.gone
  /\ note' = [gone |-> TRUE, empty |-> TRUE]
  /\ UNCHANGED <<voice, job, results, cleanup, objects, voiceWorkers, dictation, leaked, troubles>>

----------------------------------------------------------------------------
(* Transcription *)

TranscriberOff(t) == transcriber' = [transcriber EXCEPT ![t] = Off]

NotTakenOver ==                           \* Mutant: an expired lease is not taken over.
  job.state \in {"queued", "retry_waiting"}

JobClaimable ==
  job.state \in {"queued", "retry_waiting"} \/ (job.state = "processing" /\ job.lapsed)

\* ClaimNext counts the attempt, and takes a job over without asking how many it had.
ClaimJob(t) ==
  /\ transcriber[t].at = "idle" /\ JobClaimable
  /\ job' = [job EXCEPT !.state = "processing", !.attempt = Capped(job.attempt, MaxJobAttempts),
                        !.holder = t, !.lapsed = FALSE]
  /\ transcriber' = [transcriber EXCEPT ![t] = [at |-> "open", gen |-> job.gen, heard |-> NoContent]]
  /\ UNCHANGED <<note, voice, results, cleanup, objects, uploader, cleaner, dictation, leaked, troubles>>

AnyTranscriber(t) ==                      \* Mutant: the lease is not compared.
  transcriber[t].at # "idle" /\ job.gen = transcriber[t].gen /\ job.state # "none"

\* WHERE job_id=? AND state='processing' AND lease_token=? AND lease_expires_at>=now
JobHeld(t) ==
  /\ transcriber[t].at # "idle"
  /\ job.gen = transcriber[t].gen /\ job.state = "processing"
  /\ job.holder = t /\ ~job.lapsed

\* The row is read and the object opened; the recording is what is there then.
OpenAudio(t) ==
  /\ transcriber[t].at = "open"
  /\ voice.upload = "uploaded" /\ voice.key # NoKey /\ objects[voice.key] # NoContent
  /\ transcriber' = [transcriber EXCEPT ![t] =
       [at |-> "listen", gen |-> transcriber[t].gen, heard |-> objects[voice.key]]]
  /\ UNCHANGED <<voiceRows, objects, uploader, cleaner, dictation, leaked, troubles>>

\* Complete.  A body that is not empty is not overwritten: the text waits for review.
CompleteJob(t) ==
  /\ transcriber[t].at = "listen" /\ JobHeld(t) /\ ~note.gone
  /\ note' = [note EXCEPT !.empty = FALSE]
  /\ results' = [results EXCEPT ![job.gen] = transcriber[t].heard]
  /\ job' = [job EXCEPT !.state = IF note.empty THEN "completed" ELSE "needs_review",
                        !.holder = Nobody, !.lapsed = FALSE]
  /\ TranscriberOff(t)
  /\ UNCHANGED <<voice, cleanup, objects, uploader, cleaner, dictation, leaked, troubles>>

\* Fail, after the provider failed, or where the audio could not be read.
FailJob(t) ==
  /\ JobHeld(t)
  /\ \/ transcriber[t].at = "listen" /\ troubles < MaxTroubles /\ troubles' = troubles + 1
     \/ /\ transcriber[t].at = "open" /\ UNCHANGED troubles
        /\ voice.upload # "uploaded" \/ voice.key = NoKey \/ objects[voice.key] = NoContent
  /\ job' = [job EXCEPT !.state = IF job.attempt >= MaxJobAttempts THEN "failed" ELSE "retry_waiting",
                        !.holder = Nobody, !.lapsed = FALSE]
  /\ TranscriberOff(t)
  /\ UNCHANGED <<note, voice, results, cleanup, objects, uploader, cleaner, dictation, leaked>>

\* The lease is lost, or Complete finds the note deleted and rolls back: the worker
\* reports an error and turns to the next job.
GiveUpJob(t) ==
  /\ \/ transcriber[t].at # "idle" /\ ~JobHeld(t)
     \/ transcriber[t].at = "listen" /\ note.gone
  /\ TranscriberOff(t)
  /\ UNCHANGED <<voiceRows, objects, uploader, cleaner, dictation, leaked, troubles>>

AbandonJob(t) ==
  /\ transcriber[t].at # "idle" /\ troubles < MaxTroubles
  /\ TranscriberOff(t) /\ troubles' = troubles + 1
  /\ UNCHANGED <<voiceRows, objects, uploader, cleaner, dictation, leaked>>

\* Heartbeats hold a lease while its worker lives; it expires after the worker, and
\* by trouble before.
JobLeaseLapses ==
  /\ job.state = "processing" /\ ~job.lapsed
  /\ job' = [job EXCEPT !.lapsed = TRUE]
  /\ IF \E t \in Transcriber : JobHeld(t)
       THEN troubles < MaxTroubles /\ troubles' = troubles + 1
       ELSE UNCHANGED troubles
  /\ UNCHANGED <<note, voice, results, cleanup, objects, voiceWorkers, dictation, leaked>>

----------------------------------------------------------------------------
(* Transcripts without a job *)

\* TranscribeVoiceNote, up to its call of the speech service.  It does not ask whether
\* the audio is being deleted; one that it answers at once, or refuses, changes nothing.
OpenDictation(d) ==
  /\ dictation[d] = Deaf /\ troubles < MaxTroubles
  /\ ~voice.gone
  /\ voice.upload = "uploaded" /\ voice.key # NoKey /\ objects[voice.key] # NoContent
  /\ dictation' = [dictation EXCEPT ![d] = [heard |-> objects[voice.key], overtaken |-> FALSE]]
  /\ troubles' = troubles + 1
  /\ UNCHANGED <<voiceRows, objects, voiceWorkers, leaked>>

\* The text replaces the body, and nothing about the audio is read again.
PublishDictation(d) ==
  /\ dictation[d].heard # NoContent
  /\ ~note.gone /\ ~voice.gone
  /\ note' = [note EXCEPT !.empty = FALSE]
  /\ dictation' = [dictation EXCEPT ![d] = Deaf]
  /\ UNCHANGED <<voice, job, results, cleanup, objects, voiceWorkers, leaked, troubles>>

\* The speech service fails, the request dies, or its transaction finds the note or
\* the voice note deleted.
EndDictation(d) ==
  /\ dictation[d].heard # NoContent
  /\ dictation' = [dictation EXCEPT ![d] = Deaf]
  /\ UNCHANGED <<voiceRows, objects, voiceWorkers, leaked, troubles>>

----------------------------------------------------------------------------
(* Cleanup of audio *)

CleanerAway(c) == cleaner' = [cleaner EXCEPT ![c] = Away]

\* The delay before a retry, or before audio deleted on its own goes, may be over.
ClaimCleanup(c) ==
  /\ cleaner[c].at = "idle"
  /\ \E k \in Key :
       /\ \/ cleanup[k].state = "retry_waiting"
          \/ cleanup[k].state = "processing" /\ cleanup[k].lapsed
       /\ cleanup' = [cleanup EXCEPT ![k] =
            [state |-> "processing", attempt |-> Capped(cleanup[k].attempt, MaxJobAttempts),
             holder |-> c, lapsed |-> FALSE]]
       /\ cleaner' = [cleaner EXCEPT ![c] = [at |-> "remove", key |-> k]]
  /\ UNCHANGED <<note, voice, job, results, objects, uploader, transcriber, dictation, leaked, troubles>>

\* The object is removed before anything is recorded; one already gone will do.
RemoveAudio(c) ==
  /\ cleaner[c].at = "remove"
  /\ Remove(cleaner[c].key)
  /\ cleaner' = [cleaner EXCEPT ![c] = [at |-> "record", key |-> cleaner[c].key]]
  /\ UNCHANGED <<voiceRows, uploader, transcriber, dictation, leaked, troubles>>

\* WHERE job_id=? AND state='processing' AND lease_token=?
CleanupHeld(c) ==
  /\ cleaner[c].at # "idle"
  /\ cleanup[cleaner[c].key].state = "processing" /\ cleanup[cleaner[c].key].holder = c

\* Complete: the job and the voice note, or neither.
CompleteCleanup(c) ==
  /\ cleaner[c].at = "record" /\ CleanupHeld(c)
  /\ voice.audio = "delete_requested" /\ voice.key = cleaner[c].key
  /\ cleanup' = [cleanup EXCEPT ![cleaner[c].key] =
       [state |-> "completed", attempt |-> cleanup[cleaner[c].key].attempt,
        holder |-> Nobody, lapsed |-> FALSE]]
  /\ voice' = [voice EXCEPT !.audio = "deleted", !.upload = "failed", !.key = NoKey,
                            !.sha = NoContent, !.revision = Capped(voice.revision, MaxAudioRevision)]
  /\ CleanerAway(c) /\ Overtake
  /\ UNCHANGED <<note, job, results, objects, uploader, transcriber, leaked, troubles>>

FailCleanup(c) ==
  /\ cleaner[c].at = "remove" /\ CleanupHeld(c) /\ troubles < MaxTroubles
  /\ cleanup' = [cleanup EXCEPT ![cleaner[c].key] =
       [state |-> IF cleanup[cleaner[c].key].attempt >= MaxJobAttempts
                  THEN "failed" ELSE "retry_waiting",
        attempt |-> cleanup[cleaner[c].key].attempt, holder |-> Nobody, lapsed |-> FALSE]]
  /\ CleanerAway(c) /\ troubles' = troubles + 1
  /\ UNCHANGED <<note, voice, job, results, objects, uploader, transcriber, dictation, leaked>>

LoseCleanup(c) ==
  /\ cleaner[c].at = "record"
  /\ ~CleanupHeld(c) \/ voice.audio # "delete_requested" \/ voice.key # cleaner[c].key
  /\ CleanerAway(c)
  /\ UNCHANGED <<voiceRows, objects, uploader, transcriber, dictation, leaked, troubles>>

AbandonCleanup(c) ==
  /\ cleaner[c].at # "idle" /\ troubles < MaxTroubles
  /\ CleanerAway(c) /\ troubles' = troubles + 1
  /\ UNCHANGED <<voiceRows, objects, uploader, transcriber, dictation, leaked>>

CleanupLeaseLapses(k) ==
  /\ cleanup[k].state = "processing" /\ ~cleanup[k].lapsed
  /\ cleanup' = [cleanup EXCEPT ![k].lapsed = TRUE]
  /\ IF \E c \in Cleaner : cleaner[c].key = k /\ CleanupHeld(c)
       THEN troubles < MaxTroubles /\ troubles' = troubles + 1
       ELSE UNCHANGED troubles
  /\ UNCHANGED <<note, voice, job, results, objects, voiceWorkers, dictation, leaked>>

----------------------------------------------------------------------------
UploadStep(u) ==
  \/ PutUpload(u) \/ MarkUpload(u) \/ UndoUpload(u)
  \/ PutReplacement(u) \/ SwapReplacement(u) \/ RemoveReplaced(u)

TranscriberStep(t) ==
  \/ ClaimJob(t) \/ OpenAudio(t) \/ CompleteJob(t) \/ FailJob(t) \/ GiveUpJob(t)

CleanerStep(c) ==
  \/ ClaimCleanup(c) \/ RemoveAudio(c) \/ CompleteCleanup(c) \/ LoseCleanup(c)

VoiceUser ==
  \/ RequestTranscript \/ EditNote
  \/ DeleteAudio \/ DeleteVoiceNote \/ DeleteNoteFromDevice
  \/ \E u \in Uploader, c \in Content : StartUpload(u, c) \/ StartReplacement(u, c)

VoiceTrouble ==
  \/ \E u \in Uploader : FailUpload(u) \/ AbandonUpload(u)
  \/ \E t \in Transcriber : AbandonJob(t)
  \/ \E c \in Cleaner : FailCleanup(c) \/ AbandonCleanup(c)

VoiceNext ==
  \/ VoiceUser
  \/ VoiceTrouble
  \/ \E u \in Uploader : UploadStep(u)
  \/ \E t \in Transcriber : TranscriberStep(t)
  \/ \E c \in Cleaner : CleanerStep(c)
  \/ \E d \in Dictation : OpenDictation(d) \/ PublishDictation(d) \/ EndDictation(d)
  \/ JobLeaseLapses
  \/ \E k \in Key : CleanupLeaseLapses(k)

\* Workers keep polling, and time passes; a request may stop anywhere.
VoiceFairness ==
  /\ \A t \in Transcriber : WF_voiceVars(TranscriberStep(t))
  /\ \A c \in Cleaner : WF_voiceVars(CleanerStep(c))
  /\ WF_voiceVars(JobLeaseLapses)
  /\ \A k \in Key : WF_voiceVars(CleanupLeaseLapses(k))

VoiceSpec == VoiceInit /\ [][VoiceNext]_voiceVars /\ VoiceFairness

----------------------------------------------------------------------------
(* Properties *)

VoiceTypeOK ==
  /\ note \in [gone : BOOLEAN, empty : BOOLEAN]
  /\ voice \in [gone : BOOLEAN, audio : AudioState, upload : UploadState,
                key : Key \cup {NoKey}, sha : Content \cup {NoContent},
                revision : 1 .. MaxAudioRevision]
  /\ objects \in [Key -> Content \cup {NoContent}]
  /\ job \in [gen : 0 .. MaxJobs, state : JobState, attempt : 0 .. MaxJobAttempts,
              holder : Transcriber \cup {Nobody}, lapsed : BOOLEAN]
  /\ job.holder # Nobody <=> job.state = "processing"
  /\ results \in [Generation -> Content \cup {NoContent}]
  /\ cleanup \in [Key -> [state : {"none", "retry_waiting", "processing", "completed", "failed"},
                          attempt : 0 .. MaxJobAttempts, holder : Cleaner \cup {Nobody},
                          lapsed : BOOLEAN]]
  /\ dictation \in [Dictation -> [heard : Content \cup {NoContent}, overtaken : BOOLEAN]]
  /\ troubles \in 0 .. MaxTroubles

(* A transcript that a worker publishes is of the recording that the voice  *)
(* note has at that moment: replacing or deleting the audio ends the job of *)
(* a worker that is still listening to the old one.  A request that waits   *)
(* for a transcript itself compares nothing when the speech service has     *)
(* answered: what it publishes is of the current recording too, unless the  *)
(* audio was replaced or deleted while it listened (TranscribeVoiceNote).   *)
TranscriptOfCurrentAudio ==
  [][/\ \A g \in Generation :
          results'[g] \notin {results[g], NoContent} => results'[g] = voice.sha
     /\ \A d \in Dictation :
          PublishDictation(d) => dictation[d].heard = voice.sha \/ dictation[d].overtaken]_voiceVars

(* Once the voice note is deleted nothing of what was said is left, and no  *)
(* job or late worker can bring it back.                                    *)
GoneIsSilent ==
  voice.gone =>
    /\ job.state \notin ActiveJob
    /\ \A g \in Generation : results[g] = NoContent
    /\ note.gone /\ note.empty

(* Audio recorded as deleted is out of the object store, whichever request  *)
(* was still writing it, unless a request died on its way or a first upload *)
(* came late, after a replacement, and left its object there (leaked).      *)
ErasedForGood ==
  /\ voice.audio = "deleted" /\ ~leaked
  /\ \A u \in Uploader : uploader[u].at = "idle"
  => \A k \in Key : objects[k] = NoContent

(* A recording that the row says is there can be read, and is the recording *)
(* whose digest the row has.                                                *)
AudioHeld ==
  voice.upload = "uploaded" /\ voice.audio = "uploaded" => objects[voice.key] = voice.sha

(* Once the users are done, no job that has its audio is left over, unless a *)
(* device deleted the note from under it, and every deletion of audio has   *)
(* been carried out or given up.                                            *)
VoiceWorkEnds ==
  <>[](/\ job.state \in ActiveJob \ {"waiting_for_audio"} => note.gone
       /\ voice.audio = "delete_requested" => \E k \in Key : cleanup[k].state = "failed")
=============================================================================
