---------------------------- MODULE ContentImport ----------------------------
(***************************************************************************)
(* Podcast imports of one workspace: a user asks for an import, cancels,   *)
(* retries or deletes it (contentimport/service.go); workers claim the     *)
(* oldest one under a lease and turn it into a note, one statement or      *)
(* transaction at a time (contentimport/worker.go), against rows that      *)
(* only the lease token fences (storage/contentimportdb/repository.go).    *)
(*                                                                         *)
(* Imports are numbered in the order of created_at.  A lease token is      *)
(* named by the worker that drew it: a worker holds at most one lease, and *)
(* whatever token it left behind it has forgotten.                         *)
(***************************************************************************)
EXTENDS Integers

CONSTANTS
  MaxImport,    \* bound on the imports created
  Importer,     \* import workers, one per server process
  MaxImportAttempts,  \* max_attempts of a row (4 in the code)
  MaxMishaps,   \* bound on crashes, unreported errors and leases lost to slowness
  NoImporter    \* the empty lease_token

Import == 1 .. MaxImport

ASSUME ImportAssumption ==
  /\ MaxImport \in Nat /\ MaxImportAttempts \in Nat /\ MaxMishaps \in Nat
  /\ NoImporter \notin Importer

VARIABLES
  imports,     \* import -> its row of content_imports
  transcript,  \* import -> its artifact transcript_normalized is stored
  notes,       \* import -> how many notes were made of it
  importer,    \* worker -> the step it is about to take, and on which import
  mishaps      \* how many mishaps there were

importVars == <<imports, transcript, notes, importer, mishaps>>

----------------------------------------------------------------------------
ImportStatus == {"none", "active", "completed", "failed", "canceled", "deleted"}
ImportStage  == {"queued", "resolving", "acquiring", "summarizing", "publishing",
                 "completed", "terminal"}

\* What the resolver found: a published transcript, only audio, or neither.
Found == {"transcript", "audio", "nothing"}

ImportRow ==
  [status : ImportStatus, stage : ImportStage, holder : Importer \cup {NoImporter},
   lapsed : BOOLEAN, attempt : 0 .. MaxImportAttempts, source : Found, ai : BOOLEAN]

ImporterStep == {"idle", "resolve", "acquire", "store", "write", "generate", "publish"}

NoRow == [status |-> "none", stage |-> "queued", holder |-> NoImporter, lapsed |-> FALSE,
          attempt |-> 0, source |-> "nothing", ai |-> FALSE]

Resting == [at |-> "idle", on |-> 0]

EndedWithLease(row, status, stage) ==     \* Mutant: the lease columns stay.
  [row EXCEPT !.status = status, !.stage = stage]

\* Whatever ends the work on a row clears its lease.
Ended(row, status, stage) ==
  [row EXCEPT !.status = status, !.stage = stage, !.holder = NoImporter, !.lapsed = FALSE]

ImportHeldAnyStatus(w) ==                      \* Mutant: the fence forgets the status.
  importer[w].at # "idle" /\ imports[importer[w].on].status # "deleted"

\* WHERE id=? AND lease_token=? AND status='active': the fence of every
\* statement of a worker.  It does not ask whether the lease has expired.
ImportHeld(w) ==
  LET i == importer[w].on
  IN  importer[w].at # "idle" /\ imports[i].holder = w /\ imports[i].status = "active"

----------------------------------------------------------------------------
ImportInit ==
  /\ imports = [i \in Import |-> NoRow]
  /\ transcript = [i \in Import |-> FALSE]
  /\ notes = [i \in Import |-> 0]
  /\ importer = [w \in Importer |-> Resting]
  /\ mishaps = 0

----------------------------------------------------------------------------
(* The user *)

\* CreateOrGet with a new idempotency key.  With a known key it answers the
\* stored row, or refuses another request under that key, and changes nothing.
CreateImport(i, ai) ==
  /\ \A j \in Import : imports[j].status = "none" <=> i <= j
  /\ imports' = [imports EXCEPT ![i] = [NoRow EXCEPT !.status = "active", !.ai = ai]]
  /\ UNCHANGED <<transcript, notes, importer, mishaps>>

CancelImport(i) ==
  /\ imports[i].status = "active"
  /\ imports' = [imports EXCEPT ![i] = Ended(imports[i], "canceled", "terminal")]
  /\ UNCHANGED <<transcript, notes, importer, mishaps>>

RetryImport(i) ==
  /\ imports[i].status = "failed" /\ imports[i].attempt < MaxImportAttempts
  /\ imports' = [imports EXCEPT ![i] =
       [Ended(imports[i], "active", "queued") EXCEPT !.attempt = imports[i].attempt + 1]]
  /\ UNCHANGED <<transcript, notes, importer, mishaps>>

\* The artifacts go with the row (ON DELETE CASCADE); the note stays.
DeleteImport(i) ==
  /\ imports[i].status \in {"completed", "failed", "canceled"}
  /\ imports' = [imports EXCEPT ![i].status = "deleted"]
  /\ transcript' = [transcript EXCEPT ![i] = FALSE]
  /\ UNCHANGED <<notes, importer, mishaps>>

----------------------------------------------------------------------------
(* The worker *)

NeverReclaimed(i) ==                      \* Mutant: an expired lease is not taken over.
  imports[i].status = "active" /\ imports[i].stage = "queued"

Claimable(i) ==
  /\ imports[i].status = "active"
  /\ imports[i].stage = "queued" \/ imports[i].holder = NoImporter \/ imports[i].lapsed

\* ClaimNext takes the oldest, and RunOne decides from the row where to start:
\* what is already resolved to a transcript, or past acquiring, is not resolved again.
ClaimImport(w) ==
  /\ importer[w].at = "idle"
  /\ \E i \in Import :
       /\ Claimable(i) /\ \A j \in Import : Claimable(j) => i <= j
       /\ imports' = [imports EXCEPT ![i] =
            [@ EXCEPT !.stage = IF imports[i].stage = "queued" THEN "resolving"
                                ELSE imports[i].stage,
                      !.holder = w, !.lapsed = FALSE]]
       /\ importer' = [importer EXCEPT ![w] =
            [at |-> IF imports[i].source = "transcript"
                       \/ imports[i].stage \in {"summarizing", "publishing"}
                    THEN "acquire" ELSE "resolve",
             on |-> i]]
  /\ UNCHANGED <<transcript, notes, mishaps>>

ImporterAt(w, step) == importer' = [importer EXCEPT ![w].at = step]
ImporterRests(w) == importer' = [importer EXCEPT ![w] = Resting]

StageReached(w, stage) == imports' = [imports EXCEPT ![importer[w].on].stage = stage]

ResolveImport(w, found) ==
  /\ importer[w].at = "resolve" /\ ImportHeld(w)
  /\ imports' = [imports EXCEPT ![importer[w].on] =
       [@ EXCEPT !.source = found, !.stage = "acquiring"]]
  /\ ImporterAt(w, "acquire")
  /\ UNCHANGED <<transcript, notes, mishaps>>

\* A transcript already stored is used as it is.
ReuseTranscript(w) ==
  /\ importer[w].at = "acquire" /\ transcript[importer[w].on]
  /\ ImporterAt(w, "write")
  /\ UNCHANGED <<imports, transcript, notes, mishaps>>

\* Reading a published transcript touches no row.
FetchTranscript(w) ==
  /\ importer[w].at = "acquire" /\ ~transcript[importer[w].on]
  /\ imports[importer[w].on].source = "transcript"
  /\ ImporterAt(w, "store")
  /\ UNCHANGED <<imports, transcript, notes, mishaps>>

\* Transcribing audio records its progress after every chunk.
TranscribeAudio(w) ==
  /\ importer[w].at = "acquire" /\ ~transcript[importer[w].on]
  /\ imports[importer[w].on].source = "audio" /\ ImportHeld(w)
  /\ StageReached(w, "acquiring") /\ ImporterAt(w, "store")
  /\ UNCHANGED <<transcript, notes, mishaps>>

\* Meanwhile a heartbeat extends the lease, even one that has expired.
ImportHeartbeat(w) ==
  /\ importer[w].at = "acquire" /\ ~transcript[importer[w].on]
  /\ imports[importer[w].on].source = "audio" /\ ImportHeld(w)
  /\ imports[importer[w].on].lapsed
  /\ imports' = [imports EXCEPT ![importer[w].on].lapsed = FALSE]
  /\ UNCHANGED <<transcript, notes, importer, mishaps>>

\* PutArtifact is not fenced; it fails only when the row is gone.
StoreTranscript(w) ==
  /\ importer[w].at = "store"
  /\ IF imports[importer[w].on].status = "deleted"
       THEN ImporterRests(w) /\ UNCHANGED transcript
       ELSE ImporterAt(w, "write") /\ transcript' = [transcript EXCEPT ![importer[w].on] = TRUE]
  /\ UNCHANGED <<imports, notes, mishaps>>

\* Without AI the note is the transcript, rendered.
WriteImport(w) ==
  /\ importer[w].at = "write" /\ ImportHeld(w)
  /\ LET ai == imports[importer[w].on].ai
     IN  /\ StageReached(w, IF ai THEN "summarizing" ELSE "publishing")
         /\ ImporterAt(w, IF ai THEN "generate" ELSE "publish")
  /\ UNCHANGED <<transcript, notes, mishaps>>

GenerateNote(w) ==
  /\ importer[w].at = "generate" /\ ImportHeld(w)
  /\ StageReached(w, "publishing") /\ ImporterAt(w, "publish")
  /\ UNCHANGED <<transcript, notes, mishaps>>

PublishApart(w) ==                        \* Mutant: the note commits without the import.
  /\ importer[w].at = "publish"
  /\ IF ImportHeld(w)
       THEN imports' = [imports EXCEPT ![importer[w].on] =
              Ended(imports[importer[w].on], "completed", "completed")]
       ELSE UNCHANGED imports
  /\ notes' = [notes EXCEPT ![importer[w].on] = @ + 1]
  /\ ImporterRests(w)
  /\ UNCHANGED <<transcript, mishaps>>

\* One transaction creates the note and completes the import.
PublishImport(w) ==
  /\ importer[w].at = "publish" /\ ImportHeld(w)
  /\ imports' = [imports EXCEPT ![importer[w].on] =
       Ended(imports[importer[w].on], "completed", "completed")]
  /\ notes' = [notes EXCEPT ![importer[w].on] = @ + 1]
  /\ ImporterRests(w)
  /\ UNCHANGED <<transcript, mishaps>>

\* Resolving, reading, transcribing and generating fail the import.
FailImport(w) ==
  /\ importer[w].at \in {"resolve", "acquire", "generate"} /\ ImportHeld(w)
  /\ importer[w].at = "acquire" => ~transcript[importer[w].on]
  /\ imports' = [imports EXCEPT ![importer[w].on] =
       Ended(imports[importer[w].on], "failed", "terminal")]
  /\ ImporterRests(w)
  /\ UNCHANGED <<transcript, notes, mishaps>>

\* Whatever the next statement of the worker is, it finds the lease lost.
LoseImport(w) ==
  /\ importer[w].at \notin {"idle", "store"} /\ ~ImportHeld(w)
  /\ importer[w].at = "acquire" =>
       ~transcript[importer[w].on] /\ imports[importer[w].on].source # "transcript"
  /\ ImporterRests(w)
  /\ UNCHANGED <<imports, transcript, notes, mishaps>>

\* The process dies, or returns an error it reports nowhere (a statement that
\* fails, a note that cannot be created): the lease is left to expire.
AbandonImport(w) ==
  /\ importer[w].at # "idle" /\ mishaps < MaxMishaps
  /\ ImporterRests(w) /\ mishaps' = mishaps + 1
  /\ UNCHANGED <<imports, transcript, notes>>

\* A lease expires: soon after its holder is gone, and by mishap while it works.
ImportLeaseLapses(i) ==
  /\ imports[i].holder # NoImporter /\ ~imports[i].lapsed
  /\ imports' = [imports EXCEPT ![i].lapsed = TRUE]
  /\ IF \E w \in Importer : importer[w].on = i /\ ImportHeld(w)
       THEN mishaps < MaxMishaps /\ mishaps' = mishaps + 1
       ELSE UNCHANGED mishaps
  /\ UNCHANGED <<transcript, notes, importer>>

----------------------------------------------------------------------------
ImportWork(w) ==
  \/ ClaimImport(w)
  \/ \E found \in Found : ResolveImport(w, found)
  \/ ReuseTranscript(w) \/ FetchTranscript(w) \/ TranscribeAudio(w)
  \/ StoreTranscript(w) \/ WriteImport(w) \/ GenerateNote(w)
  \/ PublishImport(w) \/ FailImport(w) \/ LoseImport(w)

ImportUser ==
  \E i \in Import :
    \/ \E ai \in BOOLEAN : CreateImport(i, ai)
    \/ CancelImport(i) \/ RetryImport(i) \/ DeleteImport(i)

ImportNext ==
  \/ ImportUser
  \/ \E w \in Importer : ImportWork(w) \/ ImportHeartbeat(w) \/ AbandonImport(w)
  \/ \E i \in Import : ImportLeaseLapses(i)

\* Server processes keep polling, and time passes.
ImportFairness ==
  /\ \A w \in Importer : WF_importVars(ImportWork(w))
  /\ \A i \in Import : WF_importVars(ImportLeaseLapses(i))

ImportSpec == ImportInit /\ [][ImportNext]_importVars /\ ImportFairness

----------------------------------------------------------------------------
(* Properties *)

ImportTypeOK ==
  /\ imports \in [Import -> ImportRow]
  /\ transcript \in [Import -> BOOLEAN]
  /\ notes \in [Import -> Nat]
  /\ importer \in [Importer -> [at : ImporterStep, on : 0 .. MaxImport]]
  /\ mishaps \in 0 .. MaxMishaps
  /\ \A w \in Importer : importer[w].at # "idle" => importer[w].on \in Import
  /\ \A i \in Import : imports[i].holder # NoImporter => imports[i].status = "active"

(* However often an import is claimed, retried or taken over, and wherever  *)
(* its workers die, it makes one note, exactly when it completes (the       *)
(* transaction of worker.go RunOne).                                        *)
OneNote ==
  \A i \in Import :
    /\ notes[i] <= 1
    /\ imports[i].status = "completed" => notes[i] = 1
    /\ imports[i].status \in {"none", "active", "failed", "canceled"} => notes[i] = 0

(* A user who was told that the import is canceled never gets its note, and *)
(* the worker that was busy with it cannot bring it back (Cancel clears the *)
(* token and the status that every worker statement asks for).              *)
CancelHolds ==
  [][\A i \in Import : imports[i].status = "canceled" =>
       /\ notes'[i] = notes[i]
       /\ imports'[i].status \in {"canceled", "deleted"}]_importVars

(* Every import ends, whoever crashes: another worker takes it over.        *)
ImportsEnd == <>[](\A i \in Import : imports[i].status # "active")
=============================================================================
