-------------------------- MODULE LeasedJobs_proofs --------------------------
(***************************************************************************)
(* Proofs about the two services whose workers lease their jobs: of the    *)
(* properties of ContentImport and of VoiceNotes that TLC checks on small  *)
(* instances, for any number of requests, workers, imports, recordings,    *)
(* jobs and troubles.                                                      *)
(***************************************************************************)
EXTENDS ContentImport, VoiceNotes, TLAPS

----------------------------------------------------------------------------
(* Imports *)

(* A worker that holds the lease of an import holds one that is active: the *)
(* fence of every statement of a worker.                                    *)
LEMMA HeldIsActive ==
  ASSUME ImportTypeOK, NEW w \in Importer, ImportHeld(w)
  PROVE  /\ importer[w].on \in Import
         /\ imports[importer[w].on].status = "active"
  BY DEF ImportHeld, ImportTypeOK

(* What a statement makes of a row is a row. *)
LEMMA EndedType ==
  ASSUME NEW row \in ImportRow, NEW status \in ImportStatus, NEW stage \in ImportStage
  PROVE  /\ Ended(row, status, stage) \in ImportRow
         /\ Ended(row, status, stage).status = status
         /\ Ended(row, status, stage).holder = NoImporter
  BY DEF Ended, ImportRow

(* A statement that writes one row keeps the types of all. *)
LEMMA RowWritten ==
  ASSUME ImportTypeOK, NEW i \in Import, NEW row \in ImportRow,
         row.holder # NoImporter => row.status = "active",
         imports' = [imports EXCEPT ![i] = row]
  PROVE  /\ imports' \in [Import -> ImportRow]
         /\ \A j \in Import : imports'[j].holder # NoImporter => imports'[j].status = "active"
  BY DEF ImportTypeOK

(* A worker that moves on keeps its type. *)
LEMMA ImporterMoves ==
  ASSUME ImportTypeOK, NEW w \in Importer, NEW step \in ImporterStep, importer[w].at # "idle",
         ImporterAt(w, step) \/ ImporterRests(w)
  PROVE  /\ importer' \in [Importer -> [at : ImporterStep, on : 0 .. MaxImport]]
         /\ \A v \in Importer : importer'[v].at # "idle" => importer'[v].on \in Import
<1>1. importer[w] \in [at : ImporterStep, on : 0 .. MaxImport] /\ importer[w].on \in Import
  BY DEF ImportTypeOK
<1>2. ASSUME NEW r \in [at : ImporterStep, on : 0 .. MaxImport], r.at # "idle" => r.on \in Import,
             importer' = [importer EXCEPT ![w] = r]
      PROVE  /\ importer' \in [Importer -> [at : ImporterStep, on : 0 .. MaxImport]]
             /\ \A v \in Importer : importer'[v].at # "idle" => importer'[v].on \in Import
  BY <1>2 DEF ImportTypeOK
<1>3. CASE ImporterAt(w, step)
  <2> DEFINE r == [importer[w] EXCEPT !.at = step]
  <2>1. r \in [at : ImporterStep, on : 0 .. MaxImport] /\ r.on \in Import
    BY <1>1
  <2>2. importer' = [importer EXCEPT ![w] = r]
    BY <1>3 DEF ImporterAt
  <2> HIDE DEF r
  <2> QED BY <1>2, <2>1, <2>2
<1>4. CASE ImporterRests(w)
  <2>1. Resting \in [at : ImporterStep, on : 0 .. MaxImport] /\ Resting.at = "idle"
    BY ImportAssumption DEF Resting, ImporterStep
  <2> QED BY <1>2, <1>4, <2>1 DEF ImporterRests
<1> QED BY <1>3, <1>4

LEMMA ImportTypeInit == ImportInit => ImportTypeOK
  BY ImportAssumption DEF ImportInit, ImportTypeOK, NoRow, Resting, ImportRow, ImportStatus,
     ImportStage, Found, ImporterStep, Import

LEMMA ImportTypeStep == ImportTypeOK /\ [ImportNext]_importVars => ImportTypeOK'
<1> SUFFICES ASSUME ImportTypeOK, [ImportNext]_importVars PROVE ImportTypeOK'
  OBVIOUS
<1> USE ImportAssumption
<1> DEFINE RowsFine(row) == row \in ImportRow /\ (row.holder # NoImporter => row.status = "active")
<1>0. \A i \in Import : RowsFine(imports[i])
  BY DEF ImportTypeOK
<1>1. ASSUME NEW i \in Import, NEW ai \in BOOLEAN, CreateImport(i, ai) PROVE ImportTypeOK'
  <2>1. NoRow \in ImportRow /\ NoRow.holder = NoImporter
    BY DEF NoRow, ImportRow, ImportStatus, ImportStage, Found
  <2>2. RowsFine([NoRow EXCEPT !.status = "active", !.ai = ai])
    BY <2>1 DEF ImportRow, ImportStatus
  <2> QED BY <1>1, <2>2, RowWritten DEF CreateImport, ImportTypeOK
<1>2. ASSUME NEW i \in Import, CancelImport(i) PROVE ImportTypeOK'
  <2>1. RowsFine(Ended(imports[i], "canceled", "terminal"))
    BY <1>0, EndedType DEF ImportStatus, ImportStage
  <2> QED BY <1>2, <2>1, RowWritten DEF CancelImport, ImportTypeOK
<1>3. ASSUME NEW i \in Import, RetryImport(i) PROVE ImportTypeOK'
  <2>1. Ended(imports[i], "active", "queued") \in ImportRow
    BY <1>0, EndedType DEF ImportStatus, ImportStage
  <2>2. imports[i].attempt + 1 \in 0 .. MaxImportAttempts
    BY <1>0, <1>3 DEF RetryImport, ImportRow
  <2>3. Ended(imports[i], "active", "queued").status = "active"
    BY <1>0, EndedType DEF ImportStatus, ImportStage
  <2>4. RowsFine([Ended(imports[i], "active", "queued") EXCEPT !.attempt = imports[i].attempt + 1])
    BY <2>1, <2>2, <2>3 DEF ImportRow
  <2> QED BY <1>3, <2>4, RowWritten DEF RetryImport, ImportTypeOK
<1>4. ASSUME NEW i \in Import, DeleteImport(i) PROVE ImportTypeOK'
  <2>1. imports' = [imports EXCEPT ![i] = [imports[i] EXCEPT !.status = "deleted"]]
    BY <1>4 DEF DeleteImport
  <2>2. RowsFine([imports[i] EXCEPT !.status = "deleted"])
    BY <1>0, <1>4 DEF DeleteImport, ImportRow, ImportStatus
  <2> QED BY <1>4, <2>1, <2>2, RowWritten DEF DeleteImport, ImportTypeOK
<1>5. ASSUME NEW w \in Importer, ClaimImport(w) PROVE ImportTypeOK'
  <2>1. PICK i \in Import :
        /\ Claimable(i)
        /\ imports' = [imports EXCEPT ![i] =
             [imports[i] EXCEPT !.stage = IF imports[i].stage = "queued" THEN "resolving"
                                          ELSE imports[i].stage,
                       !.holder = w, !.lapsed = FALSE]]
        /\ importer' = [importer EXCEPT ![w] =
             [at |-> IF imports[i].source = "transcript"
                        \/ imports[i].stage \in {"summarizing", "publishing"}
                     THEN "acquire" ELSE "resolve",
              on |-> i]]
    BY <1>5 DEF ClaimImport
  <2>2. RowsFine([imports[i] EXCEPT !.stage = IF imports[i].stage = "queued" THEN "resolving"
                                              ELSE imports[i].stage,
                                    !.holder = w, !.lapsed = FALSE])
    BY <1>0, <2>1 DEF Claimable, ImportRow, ImportStage
  <2>3. /\ importer' \in [Importer -> [at : ImporterStep, on : 0 .. MaxImport]]
        /\ \A v \in Importer : importer'[v].at # "idle" => importer'[v].on \in Import
    <3> DEFINE row == [at |-> IF imports[i].source = "transcript"
                                 \/ imports[i].stage \in {"summarizing", "publishing"}
                              THEN "acquire" ELSE "resolve",
                       on |-> i]
    <3>1. row \in [at : ImporterStep, on : 0 .. MaxImport] /\ row.on \in Import
      BY DEF ImporterStep, Import
    <3>2. importer' = [importer EXCEPT ![w] = row]
      BY <2>1
    <3> HIDE DEF row
    <3> QED BY <3>1, <3>2 DEF ImportTypeOK
  <2> QED BY <1>5, <2>1, <2>2, <2>3, RowWritten DEF ClaimImport, ImportTypeOK
<1>6. ASSUME NEW w \in Importer, NEW found \in Found, ResolveImport(w, found)
      PROVE  ImportTypeOK'
  <2>0. importer[w].on \in Import
    BY <1>6, HeldIsActive DEF ResolveImport
  <2>1. RowsFine([imports[importer[w].on] EXCEPT !.source = found, !.stage = "acquiring"])
    <3> DEFINE old == imports[importer[w].on]
    <3>1. RowsFine(old)
      BY <1>0, <2>0
    <3>2. "acquiring" \in ImportStage
      BY DEF ImportStage
    <3> HIDE DEF old
    <3>3. RowsFine([old EXCEPT !.source = found, !.stage = "acquiring"])
      BY <3>1, <3>2 DEF ImportRow
    <3> QED BY <3>3 DEF old
  <2>2. importer[w].at # "idle" /\ "acquire" \in ImporterStep
    BY <1>6 DEF ResolveImport, ImporterStep
  <2>3. imports' = [imports EXCEPT ![importer[w].on] =
                      [imports[importer[w].on] EXCEPT !.source = found, !.stage = "acquiring"]]
    BY <1>6 DEF ResolveImport
  <2> QED BY <1>6, <2>0, <2>1, <2>2, <2>3, RowWritten, ImporterMoves DEF ResolveImport, ImportTypeOK
<1>7. ASSUME NEW w \in Importer, ReuseTranscript(w) \/ FetchTranscript(w) PROVE ImportTypeOK'
  <2>1. importer[w].at # "idle" /\ "write" \in ImporterStep /\ "store" \in ImporterStep
    BY <1>7 DEF ReuseTranscript, FetchTranscript, ImporterStep
  <2> QED BY <1>7, <2>1, ImporterMoves DEF ReuseTranscript, FetchTranscript, ImportTypeOK
<1>8. ASSUME NEW w \in Importer, TranscribeAudio(w) \/ WriteImport(w) \/ GenerateNote(w)
      PROVE  ImportTypeOK'
  <2>1. PICK stage \in ImportStage, step \in ImporterStep :
          /\ importer[w].at # "idle" /\ ImportHeld(w)
          /\ StageReached(w, stage) /\ ImporterAt(w, step)
          /\ UNCHANGED <<notes, mishaps>> /\ UNCHANGED transcript
    <3>1. CASE TranscribeAudio(w)
      BY <3>1 DEF TranscribeAudio, ImportStage, ImporterStep
    <3>2. CASE GenerateNote(w)
      BY <3>2 DEF GenerateNote, ImportStage, ImporterStep
    <3>3. CASE WriteImport(w) /\ imports[importer[w].on].ai
      BY <3>3 DEF WriteImport, ImportStage, ImporterStep
    <3>4. CASE WriteImport(w) /\ ~imports[importer[w].on].ai
      BY <3>4 DEF WriteImport, ImportStage, ImporterStep
    <3> QED BY <1>8, <3>1, <3>2, <3>3, <3>4
  <2>2. imports' = [imports EXCEPT ![importer[w].on] =
                      [imports[importer[w].on] EXCEPT !.stage = stage]]
    BY <2>1 DEF StageReached
  <2>3. RowsFine([imports[importer[w].on] EXCEPT !.stage = stage])
    BY <1>0, <2>1, HeldIsActive DEF ImportRow
  <2> QED BY <2>1, <2>2, <2>3, HeldIsActive, RowWritten, ImporterMoves DEF ImportTypeOK
<1>9. ASSUME NEW w \in Importer, ImportHeartbeat(w) PROVE ImportTypeOK'
  <2>1. imports' = [imports EXCEPT ![importer[w].on] =
                      [imports[importer[w].on] EXCEPT !.lapsed = FALSE]]
    BY <1>9 DEF ImportHeartbeat
  <2>2. RowsFine([imports[importer[w].on] EXCEPT !.lapsed = FALSE])
    BY <1>0, <1>9, HeldIsActive DEF ImportHeartbeat, ImportRow
  <2> QED BY <1>9, <2>1, <2>2, HeldIsActive, RowWritten DEF ImportHeartbeat, ImportTypeOK
<1>10. ASSUME NEW w \in Importer, StoreTranscript(w) PROVE ImportTypeOK'
  <2>1. importer[w].at # "idle" /\ "write" \in ImporterStep
    BY <1>10 DEF StoreTranscript, ImporterStep
  <2>2. transcript' \in [Import -> BOOLEAN]
    BY <1>10 DEF StoreTranscript, ImportTypeOK
  <2> QED BY <1>10, <2>1, <2>2, ImporterMoves DEF StoreTranscript, ImportTypeOK
<1>11. ASSUME NEW w \in Importer, PublishImport(w) PROVE ImportTypeOK'
  <2>1. RowsFine(Ended(imports[importer[w].on], "completed", "completed"))
    BY <1>0, <1>11, HeldIsActive, EndedType DEF PublishImport, ImportStatus, ImportStage
  <2>2. importer[w].at # "idle" /\ "idle" \in ImporterStep
    BY <1>11 DEF PublishImport, ImporterStep
  <2>3. notes' \in [Import -> Nat]
    BY <1>11, HeldIsActive DEF PublishImport, ImportTypeOK
  <2> QED BY <1>11, <2>1, <2>2, <2>3, HeldIsActive, RowWritten, ImporterMoves
      DEF PublishImport, ImportTypeOK
<1>12. ASSUME NEW w \in Importer, FailImport(w) PROVE ImportTypeOK'
  <2>1. RowsFine(Ended(imports[importer[w].on], "failed", "terminal"))
    BY <1>0, <1>12, HeldIsActive, EndedType DEF FailImport, ImportStatus, ImportStage
  <2>2. importer[w].at # "idle" /\ "idle" \in ImporterStep
    BY <1>12 DEF FailImport, ImporterStep
  <2> QED BY <1>12, <2>1, <2>2, HeldIsActive, RowWritten, ImporterMoves DEF FailImport, ImportTypeOK
<1>13. ASSUME NEW w \in Importer, LoseImport(w) \/ AbandonImport(w) PROVE ImportTypeOK'
  <2>1. importer[w].at # "idle" /\ "idle" \in ImporterStep
    BY <1>13 DEF LoseImport, AbandonImport, ImporterStep
  <2>2. mishaps' \in 0 .. MaxMishaps
    BY <1>13 DEF LoseImport, AbandonImport, ImportTypeOK
  <2> QED BY <1>13, <2>1, <2>2, ImporterMoves DEF LoseImport, AbandonImport, ImportTypeOK
<1>14. ASSUME NEW i \in Import, ImportLeaseLapses(i) PROVE ImportTypeOK'
  <2>1. imports' = [imports EXCEPT ![i] = [imports[i] EXCEPT !.lapsed = TRUE]]
    BY <1>14 DEF ImportLeaseLapses
  <2>2. RowsFine([imports[i] EXCEPT !.lapsed = TRUE])
    BY <1>0 DEF ImportRow
  <2>3. mishaps' \in 0 .. MaxMishaps
    BY <1>14 DEF ImportLeaseLapses, ImportTypeOK
  <2> QED BY <1>14, <2>1, <2>2, <2>3, RowWritten DEF ImportLeaseLapses, ImportTypeOK
<1>15. CASE UNCHANGED importVars
  BY <1>15 DEF importVars, ImportTypeOK
<1> QED
  BY <1>1, <1>2, <1>3, <1>4, <1>5, <1>6, <1>7, <1>8, <1>9, <1>10, <1>11, <1>12, <1>13, <1>14,
     <1>15 DEF ImportNext, ImportUser, ImportWork

(* Every row, and what every worker remembers, keeps its type, and only an  *)
(* active import has a lease.                                               *)
THEOREM ImportTypes == ImportSpec => []ImportTypeOK
<1> QED BY ImportTypeInit, ImportTypeStep, PTL DEF ImportSpec

----------------------------------------------------------------------------
(* One note for each import *)

(* The steps of a worker that neither end an import nor make a note. *)
QuietStep(w) ==
  \/ ClaimImport(w) \/ ImportHeartbeat(w) \/ AbandonImport(w) \/ LoseImport(w)
  \/ \E found \in Found : ResolveImport(w, found)
  \/ ReuseTranscript(w) \/ FetchTranscript(w) \/ TranscribeAudio(w)
  \/ StoreTranscript(w) \/ WriteImport(w) \/ GenerateNote(w)

(* Writing another column of a row leaves the status of every row. *)
LEMMA StatusKept ==
  ASSUME ImportTypeOK, NEW i \in Import, NEW row, row.status = imports[i].status,
         imports' = [imports EXCEPT ![i] = row]
  PROVE  \A j \in Import : imports'[j].status = imports[j].status
  BY DEF ImportTypeOK

LEMMA QuietSteps ==
  ASSUME ImportTypeOK, NEW w \in Importer, QuietStep(w)
  PROVE  \A i \in Import : imports'[i].status = imports[i].status /\ notes'[i] = notes[i]
<1> USE DEF ImportTypeOK
<1>1. \A i \in Import : imports[i] \in ImportRow
  OBVIOUS
<1>2. CASE UNCHANGED <<imports, notes>>
  BY <1>2
<1>3. ASSUME NEW i \in Import, NEW stage,
             \/ imports' = [imports EXCEPT ![i] = [imports[i] EXCEPT !.stage = stage,
                                                     !.holder = w, !.lapsed = FALSE]]
             \/ \E found \in Found : imports' = [imports EXCEPT ![i] =
                    [imports[i] EXCEPT !.source = found, !.stage = stage]]
             \/ imports' = [imports EXCEPT ![i] = [imports[i] EXCEPT !.stage = stage]]
             \/ imports' = [imports EXCEPT ![i] = [imports[i] EXCEPT !.lapsed = FALSE]]
      PROVE  \A j \in Import : imports'[j].status = imports[j].status
  <2>0. imports[i] \in ImportRow
    BY <1>1
  <2>1. CASE imports' = [imports EXCEPT ![i] = [imports[i] EXCEPT !.stage = stage,
                                                  !.holder = w, !.lapsed = FALSE]]
    BY <2>0, <2>1, StatusKept DEF ImportRow
  <2>2. CASE \E found \in Found : imports' = [imports EXCEPT ![i] =
                 [imports[i] EXCEPT !.source = found, !.stage = stage]]
    BY <2>0, <2>2, StatusKept DEF ImportRow
  <2>3. CASE imports' = [imports EXCEPT ![i] = [imports[i] EXCEPT !.stage = stage]]
    BY <2>0, <2>3, StatusKept DEF ImportRow
  <2>4. CASE imports' = [imports EXCEPT ![i] = [imports[i] EXCEPT !.lapsed = FALSE]]
    BY <2>0, <2>4, StatusKept DEF ImportRow
  <2> QED BY <1>3, <2>1, <2>2, <2>3, <2>4
<1>4. CASE ClaimImport(w)
  <2>1. PICK i \in Import : imports' = [imports EXCEPT ![i] =
          [imports[i] EXCEPT !.stage = IF imports[i].stage = "queued" THEN "resolving"
                                       ELSE imports[i].stage,
                             !.holder = w, !.lapsed = FALSE]]
    BY <1>4 DEF ClaimImport
  <2>2. notes' = notes
    BY <1>4 DEF ClaimImport
  <2> QED BY <1>3, <2>1, <2>2
<1>5. ASSUME NEW found \in Found, ResolveImport(w, found)
      PROVE  \A i \in Import : imports'[i].status = imports[i].status /\ notes'[i] = notes[i]
  <2>1. /\ imports' = [imports EXCEPT ![importer[w].on] =
             [imports[importer[w].on] EXCEPT !.source = found, !.stage = "acquiring"]]
        /\ importer[w].on \in Import /\ notes' = notes
    BY <1>5, HeldIsActive DEF ResolveImport
  <2> QED BY <1>3, <2>1
<1>6. CASE TranscribeAudio(w) \/ GenerateNote(w) \/ WriteImport(w)
  <2>0. importer[w].on \in Import
    BY <1>6, HeldIsActive DEF TranscribeAudio, GenerateNote, WriteImport
  <2>1. PICK stage : imports' = [imports EXCEPT ![importer[w].on] =
                                   [imports[importer[w].on] EXCEPT !.stage = stage]]
    <3>1. CASE TranscribeAudio(w)
      BY <3>1 DEF TranscribeAudio, StageReached
    <3>2. CASE GenerateNote(w)
      BY <3>2 DEF GenerateNote, StageReached
    <3>3. CASE WriteImport(w)
      BY <3>3 DEF WriteImport, StageReached
    <3> QED BY <1>6, <3>1, <3>2, <3>3
  <2>2. notes' = notes
    BY <1>6 DEF TranscribeAudio, GenerateNote, WriteImport
  <2> QED BY <1>3, <2>0, <2>1, <2>2
<1>7. CASE ImportHeartbeat(w)
  BY <1>3, <1>7, HeldIsActive DEF ImportHeartbeat
<1>8. CASE \/ AbandonImport(w) \/ LoseImport(w) \/ ReuseTranscript(w) \/ FetchTranscript(w)
           \/ StoreTranscript(w)
  BY <1>2, <1>8 DEF AbandonImport, LoseImport, ReuseTranscript, FetchTranscript, StoreTranscript
<1> QED BY <1>4, <1>5, <1>6, <1>7, <1>8 DEF QuietStep

LEMMA LapseIsQuiet ==
  ASSUME ImportTypeOK, NEW i \in Import, ImportLeaseLapses(i)
  PROVE  \A j \in Import : imports'[j].status = imports[j].status /\ notes'[j] = notes[j]
<1>1. imports' = [imports EXCEPT ![i] = [imports[i] EXCEPT !.lapsed = TRUE]] /\ notes' = notes
  BY DEF ImportLeaseLapses
<1>2. [imports[i] EXCEPT !.lapsed = TRUE].status = imports[i].status
  BY DEF ImportTypeOK, ImportRow
<1> QED BY <1>1, <1>2, StatusKept

LEMMA OneNoteInit == ImportInit => OneNote
  BY DEF ImportInit, OneNote, NoRow

(* OneNote is about each import on its own: it is kept where the status and *)
(* the notes of one import change, and fit.                                 *)
LEMMA OneNoteWritten ==
  ASSUME OneNote, NEW i \in Import,
         \A j \in Import \ {i} : imports'[j] = imports[j] /\ notes'[j] = notes[j],
         \/ imports'[i].status \in {"active", "failed", "canceled"} /\ notes'[i] = 0
         \/ imports'[i].status = "completed" /\ notes'[i] = 1
         \/ imports'[i].status = "deleted" /\ notes'[i] <= 1
  PROVE  OneNote'
  BY DEF OneNote

LEMMA OneNoteStep == ImportTypeOK /\ OneNote /\ [ImportNext]_importVars => OneNote'
<1> SUFFICES ASSUME ImportTypeOK, OneNote, [ImportNext]_importVars PROVE OneNote'
  OBVIOUS
<1>0. imports \in [Import -> ImportRow] /\ notes \in [Import -> Nat]
  BY DEF ImportTypeOK
<1>1. ASSUME NEW i \in Import, NEW ai \in BOOLEAN, CreateImport(i, ai) PROVE OneNote'
  <2>1. imports[i].status = "none"
    BY <1>1 DEF CreateImport, Import
  <2>2. notes[i] = 0
    BY <2>1 DEF OneNote
  <2>3. [NoRow EXCEPT !.status = "active", !.ai = ai].status = "active"
    BY DEF NoRow
  <2>4. imports' = [imports EXCEPT ![i] = [NoRow EXCEPT !.status = "active", !.ai = ai]]
        /\ notes' = notes
    BY <1>1 DEF CreateImport
  <2> QED BY <1>0, <2>2, <2>3, <2>4, OneNoteWritten
<1>2. ASSUME NEW i \in Import, CancelImport(i) PROVE OneNote'
  <2>1. notes[i] = 0 /\ notes' = notes
    BY <1>2 DEF CancelImport, OneNote
  <2>2. Ended(imports[i], "canceled", "terminal").status = "canceled"
    BY <1>0, EndedType DEF ImportStatus, ImportStage
  <2>3. imports' = [imports EXCEPT ![i] = Ended(imports[i], "canceled", "terminal")]
    BY <1>2 DEF CancelImport
  <2> QED BY <1>0, <2>1, <2>2, <2>3, OneNoteWritten
<1>3. ASSUME NEW i \in Import, RetryImport(i) PROVE OneNote'
  <2> DEFINE row == [Ended(imports[i], "active", "queued") EXCEPT !.attempt = imports[i].attempt + 1]
  <2>1. notes[i] = 0 /\ notes' = notes
    BY <1>3 DEF RetryImport, OneNote
  <2>2. /\ Ended(imports[i], "active", "queued") \in ImportRow
        /\ Ended(imports[i], "active", "queued").status = "active"
    BY <1>0, EndedType DEF ImportStatus, ImportStage
  <2>3. row.status = "active"
    BY <2>2 DEF ImportRow
  <2>4. imports' = [imports EXCEPT ![i] = row]
    BY <1>3 DEF RetryImport
  <2> HIDE DEF row
  <2> QED BY <1>0, <2>1, <2>3, <2>4, OneNoteWritten
<1>4. ASSUME NEW i \in Import, DeleteImport(i) PROVE OneNote'
  <2>1. notes[i] <= 1 /\ notes' = notes
    BY <1>4 DEF DeleteImport, OneNote
  <2>2. [imports[i] EXCEPT !.status = "deleted"].status = "deleted"
    BY <1>0 DEF ImportRow
  <2>3. imports' = [imports EXCEPT ![i] = [imports[i] EXCEPT !.status = "deleted"]]
    BY <1>4 DEF DeleteImport
  <2> QED BY <1>0, <2>1, <2>2, <2>3, OneNoteWritten
<1>5. ASSUME NEW w \in Importer, PublishImport(w) PROVE OneNote'
  <2> DEFINE i == importer[w].on
  <2>1. i \in Import /\ imports[i].status = "active"
    BY <1>5, HeldIsActive DEF PublishImport
  <2>2. notes[i] = 0 /\ notes' = [notes EXCEPT ![i] = notes[i] + 1]
    BY <1>5, <2>1 DEF PublishImport, OneNote
  <2>3. Ended(imports[i], "completed", "completed").status = "completed"
    BY <1>0, <2>1, EndedType DEF ImportStatus, ImportStage
  <2>4. imports' = [imports EXCEPT ![i] = Ended(imports[i], "completed", "completed")]
    BY <1>5 DEF PublishImport
  <2> HIDE DEF i
  <2> QED BY <1>0, <2>1, <2>2, <2>3, <2>4, OneNoteWritten
<1>6. ASSUME NEW w \in Importer, FailImport(w) PROVE OneNote'
  <2> DEFINE i == importer[w].on
  <2>1. i \in Import /\ imports[i].status = "active"
    BY <1>6, HeldIsActive DEF FailImport
  <2>2. notes[i] = 0 /\ notes' = notes
    BY <1>6, <2>1 DEF FailImport, OneNote
  <2>3. Ended(imports[i], "failed", "terminal").status = "failed"
    BY <1>0, <2>1, EndedType DEF ImportStatus, ImportStage
  <2>4. imports' = [imports EXCEPT ![i] = Ended(imports[i], "failed", "terminal")]
    BY <1>6 DEF FailImport
  <2> HIDE DEF i
  <2> QED BY <1>0, <2>1, <2>2, <2>3, <2>4, OneNoteWritten
<1>7. ASSUME NEW w \in Importer, QuietStep(w)
      PROVE  \A i \in Import : imports'[i].status = imports[i].status /\ notes'[i] = notes[i]
  BY <1>7, QuietSteps
<1>8. ASSUME NEW i \in Import, ImportLeaseLapses(i)
      PROVE  \A j \in Import : imports'[j].status = imports[j].status /\ notes'[j] = notes[j]
  BY <1>8, LapseIsQuiet
<1>9. CASE UNCHANGED importVars
  BY <1>9 DEF importVars, OneNote
<1>10. ASSUME \A i \in Import : imports'[i].status = imports[i].status /\ notes'[i] = notes[i]
       PROVE  OneNote'
  BY <1>10 DEF OneNote
<1> QED
  BY <1>1, <1>2, <1>3, <1>4, <1>5, <1>6, <1>7, <1>8, <1>9, <1>10
     DEF ImportNext, ImportUser, ImportWork, QuietStep

(* However often an import is claimed, retried or taken over, and wherever  *)
(* its workers die, it makes one note, exactly when it completes.           *)
THEOREM OneNotePerImport == ImportSpec => []OneNote
<1> QED BY ImportTypes, OneNoteInit, OneNoteStep, PTL DEF ImportSpec

(* A canceled import stays canceled, and gets no note any more: every       *)
(* statement of a worker asks for an active row.                            *)
LEMMA CancelStep ==
  ASSUME ImportTypeOK, [ImportNext]_importVars, NEW i \in Import, imports[i].status = "canceled"
  PROVE  notes'[i] = notes[i] /\ imports'[i].status \in {"canceled", "deleted"}
<1> DEFINE Kept == notes'[i] = notes[i] /\ imports'[i].status \in {"canceled", "deleted"}
<1>0. imports \in [Import -> ImportRow] /\ notes \in [Import -> Nat]
  BY DEF ImportTypeOK
<1>1. ASSUME NEW j \in Import, NEW ai \in BOOLEAN, CreateImport(j, ai) PROVE Kept
  <2>1. imports[j].status = "none"
    BY <1>1 DEF CreateImport, Import
  <2> QED BY <1>0, <1>1, <2>1 DEF CreateImport
<1>2. ASSUME NEW j \in Import, CancelImport(j) \/ RetryImport(j) PROVE Kept
  BY <1>0, <1>2 DEF CancelImport, RetryImport
<1>3. ASSUME NEW j \in Import, DeleteImport(j) PROVE Kept
  <2>1. [imports[j] EXCEPT !.status = "deleted"].status = "deleted"
    BY <1>0 DEF ImportRow
  <2>2. imports' = [imports EXCEPT ![j] = [imports[j] EXCEPT !.status = "deleted"]] /\ notes' = notes
    BY <1>3 DEF DeleteImport
  <2> QED BY <1>0, <2>1, <2>2
<1>4. ASSUME NEW w \in Importer, PublishImport(w) \/ FailImport(w) PROVE Kept
  <2>1. importer[w].on \in Import /\ importer[w].on # i
    BY <1>4, HeldIsActive DEF PublishImport, FailImport
  <2> QED BY <1>0, <1>4, <2>1 DEF PublishImport, FailImport
<1>5. ASSUME NEW w \in Importer, QuietStep(w) PROVE Kept
  BY <1>5, QuietSteps
<1>6. ASSUME NEW j \in Import, ImportLeaseLapses(j) PROVE Kept
  BY <1>6, LapseIsQuiet
<1>7. CASE UNCHANGED importVars
  BY <1>7 DEF importVars
<1> QED
  BY <1>1, <1>2, <1>3, <1>4, <1>5, <1>6, <1>7 DEF ImportNext, ImportUser, ImportWork, QuietStep

(* A user who canceled an import never gets its note.                       *)
THEOREM CancelIsFinal == ImportSpec => CancelHolds
<1>1. ImportTypeOK /\ [ImportNext]_importVars =>
        [\A i \in Import : imports[i].status = "canceled" =>
           /\ notes'[i] = notes[i]
           /\ imports'[i].status \in {"canceled", "deleted"}]_importVars
  BY CancelStep
<1> QED BY <1>1, ImportTypes, PTL DEF ImportSpec, CancelHolds

(* The two invariants of the imports in one.                                *)
ImportInv == ImportTypeOK /\ OneNote

LEMMA ImportStarts == ImportInit => ImportInv
BY ImportTypeInit, OneNoteInit DEF ImportInv

LEMMA ImportInvInductive == ImportInv /\ [ImportNext]_importVars => ImportInv'
BY ImportTypeStep, OneNoteStep DEF ImportInv

----------------------------------------------------------------------------
(* Voice notes: the types *)

Revision == 1 .. MaxAudioRevision

NoteRow  == [gone : BOOLEAN, empty : BOOLEAN]
VoiceRow == [gone : BOOLEAN, audio : AudioState, upload : UploadState,
             key : Key \cup {NoKey}, sha : Content \cup {NoContent}, revision : Revision]
JobRow   == [gen : 0 .. MaxJobs, state : JobState, attempt : 0 .. MaxJobAttempts,
             holder : Transcriber \cup {Nobody}, lapsed : BOOLEAN]
CleanupRow == [state : {"none", "retry_waiting", "processing", "completed", "failed"},
               attempt : 0 .. MaxJobAttempts, holder : Cleaner \cup {Nobody}, lapsed : BOOLEAN]

UploaderRow == [at : {"idle", "put", "mark", "undo", "replace", "swap", "old"},
                content : Content \cup {NoContent}, base : 0 .. MaxAudioRevision,
                old : Key \cup {NoKey}]
TranscriberRow == [at : {"idle", "open", "listen"}, gen : 0 .. MaxJobs,
                   heard : Content \cup {NoContent}]
CleanerRow == [at : {"idle", "remove", "record"}, key : Key \cup {NoKey}]

(* What requests and workers hold in memory; a request that is under way     *)
(* has a recording, and a replacement may still raise the audio revision.    *)
WorkersTyped ==
  /\ uploader \in [Uploader -> UploaderRow]
  /\ \A u \in Uploader : uploader[u].at # "idle" => uploader[u].content \in Content
  /\ \A u \in Uploader : uploader[u].at \in {"replace", "swap"} => uploader[u].base < MaxAudioRevision
  /\ transcriber \in [Transcriber -> TranscriberRow]
  /\ cleaner \in [Cleaner -> CleanerRow]
  /\ \A c \in Cleaner : cleaner[c].at # "idle" => cleaner[c].key \in Key

Leased(row) == row.holder # Nobody <=> row.state = "processing"

Typed ==
  /\ note \in NoteRow /\ voice \in VoiceRow
  /\ objects \in [Key -> Content \cup {NoContent}]
  /\ job \in JobRow /\ Leased(job)
  /\ results \in [Generation -> Content \cup {NoContent}]
  /\ cleanup \in [Key -> CleanupRow]
  /\ troubles \in 0 .. MaxTroubles
  /\ WorkersTyped

DictationTyped == dictation \in [Dictation -> [heard : Content \cup {NoContent}, overtaken : BOOLEAN]]

LEMMA TypedIsTypeOK == Typed /\ DictationTyped => VoiceTypeOK
  BY DEF Typed, DictationTyped, VoiceTypeOK, NoteRow, VoiceRow, JobRow, CleanupRow, Leased, Revision

LEMMA CappedType ==
  ASSUME NEW max \in Nat \ {0}, NEW n \in 0 .. max
  PROVE  Capped(n, max) \in 1 .. max /\ Capped(n, max) \in 0 .. max
  BY DEF Capped

(* The rows that the statements make. *)
LEMMA CanceledType ==
  ASSUME Typed
  PROVE  CanceledJob \in JobRow /\ Leased(CanceledJob) /\ CanceledJob.state \notin ActiveJob
<1>1. job \in JobRow /\ Leased(job)
  BY DEF Typed
<1>2. CASE job.state \in ActiveJob
  BY <1>1, <1>2 DEF CanceledJob, NoJob, JobRow, JobState, ActiveJob, Leased
<1>3. CASE job.state \notin ActiveJob
  BY <1>1, <1>3 DEF CanceledJob
<1> QED BY <1>2, <1>3

LEMMA AudioDeletedType ==
  ASSUME Typed
  PROVE  /\ AudioDeleted(voice) \in VoiceRow
         /\ AudioDeleted(voice).audio \in {"delete_requested", "deleted"}
         /\ AudioDeleted(voice).gone = voice.gone
<1>1. voice \in VoiceRow /\ voice.revision \in 0 .. MaxAudioRevision
  BY DEF Typed, VoiceRow, Revision
<1>2. Capped(voice.revision, MaxAudioRevision) \in Revision
  BY <1>1, CappedType, VoiceAssumption DEF Revision
<1>3. CASE voice.key = NoKey
  BY <1>1, <1>2, <1>3 DEF AudioDeleted, VoiceRow, AudioState, UploadState
<1>4. CASE voice.key # NoKey
  BY <1>1, <1>2, <1>4 DEF AudioDeleted, VoiceRow, AudioState, UploadState
<1> QED BY <1>3, <1>4

LEMMA EnqueuedType == ASSUME Typed PROVE Enqueued \in [Key -> CleanupRow]
<1>1. cleanup \in [Key -> CleanupRow]
  BY DEF Typed
<1>2. Waiting \in CleanupRow
  <2>1. NoCleanup \in CleanupRow
    BY VoiceAssumption DEF NoCleanup, CleanupRow
  <2> QED BY <2>1 DEF Waiting, CleanupRow
<1> HIDE DEF Waiting
<1> QED BY <1>1, <1>2 DEF Enqueued

(* A request, a transcriber or a cleaner moves on. *)
LEMMA UploaderMoves ==
  ASSUME Typed, NEW u \in Uploader, NEW row \in UploaderRow,
         row.at # "idle" => row.content \in Content,
         row.at \in {"replace", "swap"} => row.base < MaxAudioRevision,
         uploader' = [uploader EXCEPT ![u] = row], UNCHANGED <<transcriber, cleaner>>
  PROVE  WorkersTyped'
  BY DEF Typed, WorkersTyped

LEMMA UploaderRests ==
  ASSUME Typed, NEW u \in Uploader, UploaderDone(u), UNCHANGED <<transcriber, cleaner>>
  PROVE  WorkersTyped'
<1>1. Idle \in UploaderRow /\ Idle.at = "idle"
  BY VoiceAssumption DEF Idle, UploaderRow
<1> HIDE DEF Idle
<1> QED BY <1>1, UploaderMoves DEF UploaderDone

LEMMA UploaderSteps ==
  ASSUME Typed, NEW u \in Uploader, uploader[u].at # "idle",
         NEW step \in {"mark", "undo", "swap", "old"},
         step = "swap" => uploader[u].at = "replace",
         UploaderAt(u, step), UNCHANGED <<transcriber, cleaner>>
  PROVE  WorkersTyped'
<1> DEFINE row == [uploader[u] EXCEPT !.at = step]
<1>1. uploader[u] \in UploaderRow /\ uploader[u].content \in Content
  BY DEF Typed, WorkersTyped
<1>2. row \in UploaderRow /\ row.content \in Content /\ row.at = step /\ row.base = uploader[u].base
  BY <1>1 DEF UploaderRow
<1>3. row.at \in {"replace", "swap"} => row.base < MaxAudioRevision
  BY <1>2 DEF Typed, WorkersTyped
<1>4. uploader' = [uploader EXCEPT ![u] = row]
  BY DEF UploaderAt
<1> HIDE DEF row
<1> QED BY <1>2, <1>3, <1>4, UploaderMoves

LEMMA TranscriberMoves ==
  ASSUME Typed, NEW t \in Transcriber, NEW row \in TranscriberRow,
         transcriber' = [transcriber EXCEPT ![t] = row], UNCHANGED <<uploader, cleaner>>
  PROVE  WorkersTyped'
  BY DEF Typed, WorkersTyped

LEMMA TranscriberRests ==
  ASSUME Typed, NEW t \in Transcriber, TranscriberOff(t), UNCHANGED <<uploader, cleaner>>
  PROVE  WorkersTyped'
<1>1. Off \in TranscriberRow
  BY VoiceAssumption DEF Off, TranscriberRow
<1> HIDE DEF Off
<1> QED BY <1>1, TranscriberMoves DEF TranscriberOff

LEMMA CleanerMoves ==
  ASSUME Typed, NEW c \in Cleaner, NEW row \in CleanerRow, row.at # "idle" => row.key \in Key,
         cleaner' = [cleaner EXCEPT ![c] = row], UNCHANGED <<uploader, transcriber>>
  PROVE  WorkersTyped'
  BY DEF Typed, WorkersTyped

LEMMA CleanerRests ==
  ASSUME Typed, NEW c \in Cleaner, CleanerAway(c), UNCHANGED <<uploader, transcriber>>
  PROVE  WorkersTyped'
<1>1. Away \in CleanerRow /\ Away.at = "idle"
  BY DEF Away, CleanerRow
<1> HIDE DEF Away
<1> QED BY <1>1, CleanerMoves DEF CleanerAway

LEMMA WorkersStay == Typed /\ UNCHANGED voiceWorkers => WorkersTyped'
  BY DEF Typed, WorkersTyped, voiceWorkers

LEMMA TypedInit == VoiceInit => Typed
<1> SUFFICES ASSUME VoiceInit PROVE Typed
  OBVIOUS
<1> USE VoiceAssumption
<1>1. note \in NoteRow /\ voice \in VoiceRow /\ objects \in [Key -> Content \cup {NoContent}]
  BY DEF VoiceInit, NoteRow, VoiceRow, AudioState, UploadState, Revision
<1>2. job \in JobRow /\ Leased(job)
  BY DEF VoiceInit, NoJob, JobRow, JobState, Leased
<1>3. cleanup \in [Key -> CleanupRow] /\ results \in [Generation -> Content \cup {NoContent}]
  BY DEF VoiceInit, NoCleanup, CleanupRow
<1>4. uploader \in [Uploader -> UploaderRow] /\ \A u \in Uploader : uploader[u].at = "idle"
  BY DEF VoiceInit, Idle, UploaderRow
<1>5. transcriber \in [Transcriber -> TranscriberRow]
  BY DEF VoiceInit, Off, TranscriberRow
<1>6. cleaner \in [Cleaner -> CleanerRow] /\ \A c \in Cleaner : cleaner[c].at = "idle"
  BY DEF VoiceInit, Away, CleanerRow
<1>7. troubles \in 0 .. MaxTroubles
  BY DEF VoiceInit
<1>8. WorkersTyped
  BY <1>4, <1>5, <1>6 DEF WorkersTyped
<1> QED BY <1>1, <1>2, <1>3, <1>7, <1>8 DEF Typed

LEMMA TypedUpload ==
  ASSUME Typed, NEW u \in Uploader,
         \/ UploadStep(u) \/ FailUpload(u) \/ AbandonUpload(u)
         \/ \E c \in Content : StartUpload(u, c) \/ StartReplacement(u, c)
  PROVE  Typed'
<1> USE VoiceAssumption
<1>1. uploader[u] \in UploaderRow /\ (uploader[u].at # "idle" => uploader[u].content \in Content)
  BY DEF Typed, WorkersTyped
<1>2. voice \in VoiceRow /\ voice.revision \in 0 .. MaxAudioRevision
  BY DEF Typed, VoiceRow, Revision
<1>3. Capped(voice.revision, MaxAudioRevision) \in Revision
  BY <1>2, CappedType DEF Revision
<1>4. ASSUME NEW k, NEW c \in Content \cup {NoContent},
             objects' = [objects EXCEPT ![k] = c]
      PROVE  objects' \in [Key -> Content \cup {NoContent}]
  BY <1>4 DEF Typed
<1>5. ASSUME NEW c \in Content, StartUpload(u, c) PROVE Typed'
  <2>1. voice' \in VoiceRow
    <3>1. voice.revision + 1 \in Revision
      <4>1. voice.revision < MaxAudioRevision
        BY <1>5 DEF StartUpload
      <4> QED BY <1>2, <4>1 DEF Revision
    <3>2. /\ First \in Key \cup {NoKey} /\ c \in Content \cup {NoContent}
          /\ "uploading" \in AudioState /\ "uploading" \in UploadState
      BY DEF Key, AudioState, UploadState
    <3>3. voice' = [voice EXCEPT !.key = First, !.sha = c, !.upload = "uploading",
                                 !.audio = "uploading", !.revision = voice.revision + 1]
      BY <1>5 DEF StartUpload
    <3> QED BY <1>2, <3>1, <3>2, <3>3 DEF VoiceRow
  <2>2. WorkersTyped'
    <3> DEFINE row == [at |-> "put", content |-> c, base |-> 0, old |-> NoKey]
    <3>1. row \in UploaderRow /\ row.content = c /\ row.at = "put"
      BY DEF UploaderRow
    <3>2. uploader' = [uploader EXCEPT ![u] = row] /\ UNCHANGED <<transcriber, cleaner>>
      BY <1>5 DEF StartUpload
    <3> HIDE DEF row
    <3> QED BY <3>1, <3>2, UploaderMoves
  <2> QED BY <1>5, <2>1, <2>2 DEF StartUpload, Typed
<1>6. ASSUME NEW c \in Content, StartReplacement(u, c) PROVE Typed'
  <2>1. WorkersTyped'
    <3> DEFINE row == [at |-> "replace", content |-> c, base |-> voice.revision, old |-> voice.key]
    <3>1. row \in UploaderRow /\ row.base < MaxAudioRevision /\ row.content = c
      BY <1>2, <1>6 DEF StartReplacement, UploaderRow, VoiceRow
    <3>2. uploader' = [uploader EXCEPT ![u] = row] /\ UNCHANGED <<transcriber, cleaner>>
      BY <1>6 DEF StartReplacement
    <3> HIDE DEF row
    <3> QED BY <3>1, <3>2, UploaderMoves
  <2> QED BY <1>6, <2>1 DEF StartReplacement, Typed, voiceRows
<1>7. CASE PutUpload(u)
  <2>1. WorkersTyped'
    BY <1>7, UploaderSteps DEF PutUpload
  <2>2. objects' \in [Key -> Content \cup {NoContent}]
    BY <1>1, <1>4, <1>7 DEF PutUpload, Put
  <2> QED BY <1>7, <2>1, <2>2 DEF PutUpload, Typed, voiceRows
<1>8. CASE FailUpload(u)
  <2>1. WorkersTyped'
    BY <1>8, UploaderRests DEF FailUpload
  <2>2. voice' \in VoiceRow
    BY <1>2, <1>8 DEF FailUpload, VoiceRow, UploadState
  <2>3. troubles' \in 0 .. MaxTroubles
    BY <1>8 DEF FailUpload, Typed
  <2> QED BY <1>8, <2>1, <2>2, <2>3 DEF FailUpload, Typed
<1>9. CASE MarkUpload(u)
  <2>1. WorkersTyped'
    BY <1>9, UploaderRests, UploaderSteps DEF MarkUpload
  <2>2. voice' \in VoiceRow
    BY <1>2, <1>3, <1>9 DEF MarkUpload, VoiceRow, UploadState, AudioState
  <2>3. job' \in JobRow /\ Leased(job')
    <3>1. job \in JobRow /\ Leased(job)
      BY DEF Typed
    <3>2. job' = job \/ (job.state = "waiting_for_audio" /\ job' = [job EXCEPT !.state = "queued"])
      BY <1>9 DEF MarkUpload
    <3> QED BY <3>1, <3>2 DEF JobRow, JobState, Leased
  <2> QED BY <1>9, <2>1, <2>2, <2>3 DEF MarkUpload, Typed
<1>10. CASE UndoUpload(u)
  <2>1. WorkersTyped'
    BY <1>10, UploaderRests DEF UndoUpload
  <2>2. objects' \in [Key -> Content \cup {NoContent}]
    BY <1>4, <1>10 DEF UndoUpload, Remove
  <2> QED BY <1>10, <2>1, <2>2 DEF UndoUpload, Typed, voiceRows
<1>11. CASE PutReplacement(u)
  <2>1. WorkersTyped'
    BY <1>11, UploaderSteps DEF PutReplacement
  <2>2. objects' \in [Key -> Content \cup {NoContent}]
    BY <1>1, <1>4, <1>11 DEF PutReplacement, Put
  <2> QED BY <1>11, <2>1, <2>2 DEF PutReplacement, Typed, voiceRows
<1>12. CASE SwapReplacement(u)
  <2>1. WorkersTyped'
    BY <1>12, UploaderSteps DEF SwapReplacement
  <2>2. voice' \in VoiceRow
    <3>1. uploader[u].base < MaxAudioRevision /\ uploader[u].content \in Content
      BY <1>12 DEF SwapReplacement, Typed, WorkersTyped
    <3>2. voice.revision = uploader[u].base => voice.revision + 1 \in Revision
      BY <1>2, <3>1 DEF Revision
    <3> QED BY <1>2, <1>12, <3>1, <3>2 DEF SwapReplacement, VoiceRow, Key
  <2>3. job' \in JobRow /\ Leased(job')
    BY <1>12, CanceledType DEF SwapReplacement, Typed
  <2> QED BY <1>12, <2>1, <2>2, <2>3 DEF SwapReplacement, Typed
<1>13. CASE RemoveReplaced(u)
  <2>1. WorkersTyped'
    BY <1>13, UploaderRests DEF RemoveReplaced
  <2>2. objects' \in [Key -> Content \cup {NoContent}]
    BY <1>4, <1>13 DEF RemoveReplaced, Remove, Typed
  <2> QED BY <1>13, <2>1, <2>2 DEF RemoveReplaced, Typed, voiceRows
<1>14. CASE AbandonUpload(u)
  <2>1. WorkersTyped'
    BY <1>14, UploaderRests DEF AbandonUpload
  <2>2. troubles' \in 0 .. MaxTroubles
    BY <1>14 DEF AbandonUpload, Typed
  <2> QED BY <1>14, <2>1, <2>2 DEF AbandonUpload, Typed, voiceRows
<1> QED BY <1>5, <1>6, <1>7, <1>8, <1>9, <1>10, <1>11, <1>12, <1>13, <1>14 DEF UploadStep

LEMMA TypedUser ==
  ASSUME Typed,
         \/ RequestTranscript \/ EditNote
         \/ DeleteAudio \/ DeleteVoiceNote \/ DeleteNoteFromDevice
  PROVE  Typed'
<1> USE VoiceAssumption
<1>1. CASE RequestTranscript
  <2>1. job' \in JobRow /\ Leased(job')
    <3>1. job.gen + 1 \in 0 .. MaxJobs
      BY <1>1 DEF RequestTranscript, Typed, JobRow
    <3>2. NoJob \in JobRow /\ NoJob.holder = Nobody
      BY DEF NoJob, JobRow, JobState
    <3>3. PICK s \in {"queued", "waiting_for_audio"} :
            job' = [NoJob EXCEPT !.gen = job.gen + 1, !.state = s]
      BY <1>1 DEF RequestTranscript
    <3> HIDE DEF NoJob
    <3> QED BY <3>1, <3>2, <3>3 DEF JobRow, JobState, Leased
  <2>2. WorkersTyped'
    BY <1>1, WorkersStay DEF RequestTranscript
  <2> QED BY <1>1, <2>1, <2>2 DEF RequestTranscript, Typed
<1>2. CASE EditNote \/ DeleteNoteFromDevice
  <2>1. note' \in NoteRow
    <3>1. note \in NoteRow
      BY DEF Typed
    <3>2. CASE EditNote
      BY <3>1, <3>2 DEF EditNote, NoteRow
    <3>3. CASE DeleteNoteFromDevice
      BY <3>3 DEF DeleteNoteFromDevice, NoteRow
    <3> QED BY <1>2, <3>2, <3>3
  <2>2. WorkersTyped'
    BY <1>2, WorkersStay DEF EditNote, DeleteNoteFromDevice
  <2> QED BY <1>2, <2>1, <2>2 DEF EditNote, DeleteNoteFromDevice, Typed
<1>3. CASE DeleteAudio
  <2>1. WorkersTyped'
    BY <1>3, WorkersStay DEF DeleteAudio
  <2> QED BY <1>3, <2>1, AudioDeletedType, CanceledType, EnqueuedType DEF DeleteAudio, Typed
<1>4. CASE DeleteVoiceNote
  <2>1. WorkersTyped'
    BY <1>4, WorkersStay DEF DeleteVoiceNote
  <2>2. voice' \in VoiceRow
    <3> DEFINE row == AudioDeleted(voice)
    <3>1. row \in VoiceRow
      BY AudioDeletedType
    <3>2. voice' = [row EXCEPT !.gone = TRUE]
      BY <1>4 DEF DeleteVoiceNote
    <3> HIDE DEF row
    <3> QED BY <3>1, <3>2 DEF VoiceRow
  <2>3. note' \in NoteRow /\ results' \in [Generation -> Content \cup {NoContent}]
    BY <1>4 DEF DeleteVoiceNote, NoteRow
  <2> QED BY <1>4, <2>1, <2>2, <2>3, CanceledType, EnqueuedType DEF DeleteVoiceNote, Typed
<1> QED BY <1>1, <1>2, <1>3, <1>4

LEMMA TypedTranscription ==
  ASSUME Typed, NEW t \in Transcriber, TranscriberStep(t) \/ AbandonJob(t)
  PROVE  Typed'
<1> USE VoiceAssumption
<1>1. job \in JobRow /\ Leased(job) /\ transcriber[t] \in TranscriberRow /\ note \in NoteRow
  BY DEF Typed, WorkersTyped
<1>2. CASE ClaimJob(t)
  <2>1. Capped(job.attempt, MaxJobAttempts) \in 0 .. MaxJobAttempts
    BY <1>1, CappedType DEF JobRow
  <2>2. job' \in JobRow /\ Leased(job')
    <3>1. job' = [job EXCEPT !.state = "processing", !.attempt = Capped(job.attempt, MaxJobAttempts),
                             !.holder = t, !.lapsed = FALSE]
      BY <1>2 DEF ClaimJob
    <3>2. "processing" \in JobState
      BY DEF JobState
    <3> QED BY <1>1, <2>1, <3>1, <3>2 DEF JobRow, Leased
  <2>3. WorkersTyped'
    <3> DEFINE row == [at |-> "open", gen |-> job.gen, heard |-> NoContent]
    <3>1. row \in TranscriberRow
      BY <1>1 DEF TranscriberRow, JobRow
    <3>2. transcriber' = [transcriber EXCEPT ![t] = row] /\ UNCHANGED <<uploader, cleaner>>
      BY <1>2 DEF ClaimJob
    <3> HIDE DEF row
    <3> QED BY <3>1, <3>2, TranscriberMoves
  <2> QED BY <1>2, <2>2, <2>3 DEF ClaimJob, Typed
<1>3. CASE OpenAudio(t)
  <2>1. WorkersTyped'
    <3> DEFINE row == [at |-> "listen", gen |-> transcriber[t].gen, heard |-> objects[voice.key]]
    <3>1. row \in TranscriberRow
      <4>1. objects[voice.key] \in Content \cup {NoContent}
        BY <1>3 DEF OpenAudio, Typed, VoiceRow
      <4> QED BY <1>1, <4>1 DEF TranscriberRow
    <3>2. transcriber' = [transcriber EXCEPT ![t] = row] /\ UNCHANGED <<uploader, cleaner>>
      BY <1>3 DEF OpenAudio
    <3> HIDE DEF row
    <3> QED BY <3>1, <3>2, TranscriberMoves
  <2> QED BY <1>3, <2>1 DEF OpenAudio, Typed, voiceRows
<1>4. CASE CompleteJob(t)
  <2>1. WorkersTyped'
    BY <1>4, TranscriberRests DEF CompleteJob
  <2>2. job' \in JobRow /\ Leased(job')
    <3>1. PICK s \in {"completed", "needs_review"} :
            job' = [job EXCEPT !.state = s, !.holder = Nobody, !.lapsed = FALSE]
      BY <1>4 DEF CompleteJob
    <3> QED BY <1>1, <3>1 DEF JobRow, JobState, Leased
  <2>3. note' \in NoteRow
    BY <1>1, <1>4 DEF CompleteJob, NoteRow
  <2>4. results' \in [Generation -> Content \cup {NoContent}]
    BY <1>1, <1>4 DEF CompleteJob, Typed, TranscriberRow
  <2> QED BY <1>4, <2>1, <2>2, <2>3, <2>4 DEF CompleteJob, Typed
<1>5. CASE FailJob(t)
  <2>1. WorkersTyped'
    BY <1>5, TranscriberRests DEF FailJob
  <2>2. job' \in JobRow /\ Leased(job')
    <3>1. PICK s \in {"failed", "retry_waiting"} :
            job' = [job EXCEPT !.state = s, !.holder = Nobody, !.lapsed = FALSE]
      BY <1>5 DEF FailJob
    <3> QED BY <1>1, <3>1 DEF JobRow, JobState, Leased
  <2>3. troubles' \in 0 .. MaxTroubles
    BY <1>5 DEF FailJob, Typed
  <2> QED BY <1>5, <2>1, <2>2, <2>3 DEF FailJob, Typed
<1>6. CASE GiveUpJob(t) \/ AbandonJob(t)
  <2>1. WorkersTyped'
    BY <1>6, TranscriberRests DEF GiveUpJob, AbandonJob
  <2>2. troubles' \in 0 .. MaxTroubles
    BY <1>6 DEF GiveUpJob, AbandonJob, Typed
  <2> QED BY <1>6, <2>1, <2>2 DEF GiveUpJob, AbandonJob, Typed, voiceRows
<1> QED BY <1>2, <1>3, <1>4, <1>5, <1>6 DEF TranscriberStep

LEMMA TypedCleanup ==
  ASSUME Typed, NEW c \in Cleaner, CleanerStep(c) \/ FailCleanup(c) \/ AbandonCleanup(c)
  PROVE  Typed'
<1> USE VoiceAssumption
<1>1. cleaner[c] \in CleanerRow /\ (cleaner[c].at # "idle" => cleaner[c].key \in Key)
  BY DEF Typed, WorkersTyped
<1>2. cleanup \in [Key -> CleanupRow]
  BY DEF Typed
<1>3. CASE ClaimCleanup(c)
  <2>1. PICK k \in Key :
          /\ cleanup' = [cleanup EXCEPT ![k] =
               [state |-> "processing", attempt |-> Capped(cleanup[k].attempt, MaxJobAttempts),
                holder |-> c, lapsed |-> FALSE]]
          /\ cleaner' = [cleaner EXCEPT ![c] = [at |-> "remove", key |-> k]]
    BY <1>3 DEF ClaimCleanup
  <2>2. Capped(cleanup[k].attempt, MaxJobAttempts) \in 0 .. MaxJobAttempts
    BY <1>2, CappedType DEF CleanupRow
  <2>3. cleanup' \in [Key -> CleanupRow]
    BY <1>2, <2>1, <2>2 DEF CleanupRow
  <2>4. WorkersTyped'
    <3>1. [at |-> "remove", key |-> k] \in CleanerRow
      BY DEF CleanerRow
    <3> QED BY <1>3, <2>1, <3>1, CleanerMoves DEF ClaimCleanup
  <2> QED BY <1>3, <2>3, <2>4 DEF ClaimCleanup, Typed
<1>4. CASE RemoveAudio(c)
  <2>1. WorkersTyped'
    <3> DEFINE row == [at |-> "record", key |-> cleaner[c].key]
    <3>1. row \in CleanerRow /\ row.key \in Key
      BY <1>1, <1>4 DEF RemoveAudio, CleanerRow
    <3>2. cleaner' = [cleaner EXCEPT ![c] = row] /\ UNCHANGED <<uploader, transcriber>>
      BY <1>1, <1>4 DEF RemoveAudio, CleanerRow
    <3> HIDE DEF row
    <3> QED BY <3>1, <3>2, CleanerMoves
  <2>2. objects' \in [Key -> Content \cup {NoContent}]
    BY <1>4 DEF RemoveAudio, Remove, Typed
  <2> QED BY <1>4, <2>1, <2>2 DEF RemoveAudio, Typed, voiceRows
<1>5. CASE CompleteCleanup(c)
  <2>1. WorkersTyped'
    BY <1>5, CleanerRests DEF CompleteCleanup
  <2>2. cleanup' \in [Key -> CleanupRow]
    BY <1>1, <1>2, <1>5 DEF CompleteCleanup, CleanupRow
  <2>3. voice' \in VoiceRow
    <3>1. voice \in VoiceRow /\ voice.revision \in 0 .. MaxAudioRevision
      BY DEF Typed, VoiceRow, Revision
    <3>2. Capped(voice.revision, MaxAudioRevision) \in Revision
      BY <3>1, CappedType DEF Revision
    <3> QED BY <1>5, <3>1, <3>2 DEF CompleteCleanup, VoiceRow, AudioState, UploadState
  <2> QED BY <1>5, <2>1, <2>2, <2>3 DEF CompleteCleanup, Typed
<1>6. CASE FailCleanup(c)
  <2>1. WorkersTyped'
    BY <1>6, CleanerRests DEF FailCleanup
  <2>2. cleanup' \in [Key -> CleanupRow]
    BY <1>1, <1>2, <1>6 DEF FailCleanup, CleanupRow
  <2>3. troubles' \in 0 .. MaxTroubles
    BY <1>6 DEF FailCleanup, Typed
  <2> QED BY <1>6, <2>1, <2>2, <2>3 DEF FailCleanup, Typed
<1>7. CASE LoseCleanup(c) \/ AbandonCleanup(c)
  <2>1. WorkersTyped'
    BY <1>7, CleanerRests DEF LoseCleanup, AbandonCleanup
  <2>2. troubles' \in 0 .. MaxTroubles
    BY <1>7 DEF LoseCleanup, AbandonCleanup, Typed
  <2> QED BY <1>7, <2>1, <2>2 DEF LoseCleanup, AbandonCleanup, Typed, voiceRows
<1> QED BY <1>3, <1>4, <1>5, <1>6, <1>7 DEF CleanerStep

LEMMA TypedStep == Typed /\ [VoiceNext]_voiceVars => Typed'
<1> SUFFICES ASSUME Typed, [VoiceNext]_voiceVars PROVE Typed'
  OBVIOUS
<1> USE VoiceAssumption
<1>1. CASE JobLeaseLapses
  <2>1. WorkersTyped'
    BY <1>1, WorkersStay DEF JobLeaseLapses
  <2>2. job' \in JobRow /\ Leased(job')
    BY <1>1 DEF JobLeaseLapses, Typed, JobRow, Leased
  <2>3. troubles' \in 0 .. MaxTroubles
    BY <1>1 DEF JobLeaseLapses, Typed
  <2> QED BY <1>1, <2>1, <2>2, <2>3 DEF JobLeaseLapses, Typed
<1>2. ASSUME NEW k \in Key, CleanupLeaseLapses(k) PROVE Typed'
  <2>1. WorkersTyped'
    BY <1>2, WorkersStay DEF CleanupLeaseLapses
  <2>2. cleanup' \in [Key -> CleanupRow]
    <3> DEFINE row == [cleanup[k] EXCEPT !.lapsed = TRUE]
    <3>1. row \in CleanupRow
      BY DEF Typed, CleanupRow
    <3>2. cleanup' = [cleanup EXCEPT ![k] = row]
      BY <1>2 DEF CleanupLeaseLapses
    <3> HIDE DEF row
    <3> QED BY <3>1, <3>2 DEF Typed
  <2>3. troubles' \in 0 .. MaxTroubles
    BY <1>2 DEF CleanupLeaseLapses, Typed
  <2> QED BY <1>2, <2>1, <2>2, <2>3 DEF CleanupLeaseLapses, Typed
<1>3. CASE UNCHANGED voiceVars
  BY <1>3 DEF voiceVars, voiceRows, Typed, WorkersTyped
<1>4. ASSUME NEW u \in Uploader,
             \/ UploadStep(u) \/ FailUpload(u) \/ AbandonUpload(u)
             \/ \E c \in Content : StartUpload(u, c) \/ StartReplacement(u, c)
      PROVE  Typed'
  BY <1>4, TypedUpload
<1>5. ASSUME NEW t \in Transcriber, TranscriberStep(t) \/ AbandonJob(t) PROVE Typed'
  BY <1>5, TypedTranscription
<1>6. ASSUME NEW c \in Cleaner, CleanerStep(c) \/ FailCleanup(c) \/ AbandonCleanup(c) PROVE Typed'
  BY <1>6, TypedCleanup
<1>7. ASSUME \/ RequestTranscript \/ EditNote
             \/ DeleteAudio \/ DeleteVoiceNote \/ DeleteNoteFromDevice
      PROVE  Typed'
  BY <1>7, TypedUser
<1>8. ASSUME NEW d \in Dictation, OpenDictation(d) \/ PublishDictation(d) \/ EndDictation(d)
      PROVE  Typed'
  <2>1. WorkersTyped'
    BY <1>8, WorkersStay DEF OpenDictation, PublishDictation, EndDictation
  <2>2. note' \in NoteRow
    BY <1>8 DEF OpenDictation, PublishDictation, EndDictation, voiceRows, Typed, NoteRow
  <2>3. troubles' \in 0 .. MaxTroubles
    BY <1>8 DEF OpenDictation, PublishDictation, EndDictation, Typed
  <2> QED BY <1>8, <2>1, <2>2, <2>3 DEF OpenDictation, PublishDictation, EndDictation, voiceRows, Typed
<1> QED BY <1>1, <1>2, <1>3, <1>4, <1>5, <1>6, <1>7, <1>8 DEF VoiceNext, VoiceUser, VoiceTrouble

(* What the steps do to the requests that wait for a transcript themselves:  *)
(* the digest in the row changes under none of them unnoticed.               *)
LEMMA DictationMoves ==
  ASSUME Typed, [VoiceNext]_voiceVars
  PROVE  \/ Overtake
         \/ dictation' = dictation /\ (voice'.sha = voice.sha \/ voice.sha = NoContent)
         \/ \E d \in Dictation : OpenDictation(d)
         \/ voice' = voice /\ \E d \in Dictation : dictation' = [dictation EXCEPT ![d] = Deaf]
<1>1. voice \in VoiceRow
  BY DEF Typed
<1>2. ASSUME NEW u \in Uploader,
             \/ UploadStep(u) \/ FailUpload(u) \/ AbandonUpload(u)
             \/ \E c \in Content : StartUpload(u, c) \/ StartReplacement(u, c)
      PROVE  \/ Overtake
             \/ dictation' = dictation /\ (voice'.sha = voice.sha \/ voice.sha = NoContent)
  <2>1. ASSUME NEW c \in Content, StartUpload(u, c)
        PROVE  dictation' = dictation /\ (voice'.sha = voice.sha \/ voice.sha = NoContent)
    BY <1>1, <2>1 DEF StartUpload, VoiceRow
  <2>2. ASSUME NEW c \in Content, StartReplacement(u, c) PROVE UNCHANGED <<dictation, voice>>
    BY <2>2 DEF StartReplacement, voiceRows
  <2>3. CASE FailUpload(u) \/ AbandonUpload(u)
    BY <1>1, <2>3 DEF FailUpload, AbandonUpload, VoiceRow, voiceRows
  <2>4. CASE PutUpload(u) \/ UndoUpload(u) \/ PutReplacement(u) \/ RemoveReplaced(u)
    BY <2>4 DEF PutUpload, UndoUpload, PutReplacement, RemoveReplaced, voiceRows
  <2>5. CASE MarkUpload(u)
    BY <1>1, <2>5 DEF MarkUpload, VoiceRow
  <2>6. CASE SwapReplacement(u)
    BY <2>6 DEF SwapReplacement
  <2> QED BY <1>2, <2>1, <2>2, <2>3, <2>4, <2>5, <2>6 DEF UploadStep
<1>3. ASSUME NEW t \in Transcriber, TranscriberStep(t) \/ AbandonJob(t) PROVE UNCHANGED <<dictation, voice>>
  BY <1>3 DEF TranscriberStep, AbandonJob, ClaimJob, OpenAudio, CompleteJob, FailJob, GiveUpJob, voiceRows
<1>4. ASSUME NEW c \in Cleaner, CleanerStep(c) \/ FailCleanup(c) \/ AbandonCleanup(c)
      PROVE  Overtake \/ UNCHANGED <<dictation, voice>>
  BY <1>4 DEF CleanerStep, FailCleanup, AbandonCleanup, ClaimCleanup, RemoveAudio, CompleteCleanup,
              LoseCleanup, voiceRows
<1>5. CASE DeleteAudio \/ DeleteVoiceNote
  BY <1>5 DEF DeleteAudio, DeleteVoiceNote
<1>6. CASE \/ RequestTranscript \/ EditNote \/ DeleteNoteFromDevice \/ JobLeaseLapses
           \/ UNCHANGED voiceVars \/ \E k \in Key : CleanupLeaseLapses(k)
  BY <1>6 DEF RequestTranscript, EditNote, DeleteNoteFromDevice, JobLeaseLapses, CleanupLeaseLapses,
              voiceVars, voiceRows
<1>7. ASSUME NEW d \in Dictation, PublishDictation(d) \/ EndDictation(d)
      PROVE  voice' = voice /\ dictation' = [dictation EXCEPT ![d] = Deaf]
  BY <1>7 DEF PublishDictation, EndDictation, voiceRows
<1> QED BY <1>2, <1>3, <1>4, <1>5, <1>6, <1>7 DEF VoiceNext, VoiceUser, VoiceTrouble

LEMMA DictationTypedInit == VoiceInit => DictationTyped
  BY DEF VoiceInit, DictationTyped, Deaf

LEMMA DictationTypedStep == Typed /\ DictationTyped /\ [VoiceNext]_voiceVars => DictationTyped'
<1> SUFFICES ASSUME Typed, DictationTyped, [VoiceNext]_voiceVars PROVE DictationTyped'
  OBVIOUS
<1>1. CASE Overtake
  BY <1>1 DEF Overtake, DictationTyped
<1>2. CASE dictation' = dictation
  BY <1>2 DEF DictationTyped
<1>3. ASSUME NEW d \in Dictation, OpenDictation(d) PROVE DictationTyped'
  <2>1. objects[voice.key] \in Content \cup {NoContent}
    BY <1>3 DEF OpenDictation, Typed, VoiceRow
  <2>2. dictation' = [dictation EXCEPT ![d] = [heard |-> objects[voice.key], overtaken |-> FALSE]]
    BY <1>3 DEF OpenDictation
  <2> QED BY <2>1, <2>2 DEF DictationTyped
<1>4. ASSUME NEW d \in Dictation, dictation' = [dictation EXCEPT ![d] = Deaf] PROVE DictationTyped'
  BY <1>4 DEF DictationTyped, Deaf
<1> QED BY <1>1, <1>2, <1>3, <1>4, DictationMoves

(* The rows and what workers hold keep their types: no bound of the model is *)
(* passed, and a job has a lease exactly while it is being processed.        *)
THEOREM VoiceTypes == VoiceSpec => []VoiceTypeOK
  BY TypedInit, TypedStep, DictationTypedInit, DictationTypedStep, TypedIsTypeOK, PTL DEF VoiceSpec

----------------------------------------------------------------------------
(* A deleted voice note stays deleted *)

LEMMA SilentStep == Typed /\ GoneIsSilent /\ [VoiceNext]_voiceVars => GoneIsSilent'
<1> SUFFICES ASSUME Typed, GoneIsSilent, [VoiceNext]_voiceVars PROVE GoneIsSilent'
  OBVIOUS
<1>1. CASE UNCHANGED <<voice, job, results, note>>
  BY <1>1 DEF GoneIsSilent
<1>2. CASE voice.gone
  <2>1. job.state \notin ActiveJob /\ note.gone /\ note.empty
        /\ \A g \in Generation : results[g] = NoContent
    BY <1>2 DEF GoneIsSilent
  <2>2. job' = job /\ note' = note /\ results' = results
    <3>1. CASE VoiceUser
      BY <1>2, <2>1, <3>1 DEF VoiceUser, RequestTranscript, EditNote, DeleteAudio, DeleteVoiceNote,
         DeleteNoteFromDevice, StartUpload, StartReplacement, voiceRows
    <3>2. CASE VoiceTrouble
      BY <3>2 DEF VoiceTrouble, FailUpload, AbandonUpload, AbandonJob, FailCleanup, AbandonCleanup,
         voiceRows
    <3>3. ASSUME NEW u \in Uploader, UploadStep(u) PROVE job' = job /\ note' = note /\ results' = results
      BY <1>2, <3>3 DEF UploadStep, PutUpload, MarkUpload, UndoUpload, PutReplacement,
         SwapReplacement, RemoveReplaced, voiceRows
    <3>4. ASSUME NEW t \in Transcriber, TranscriberStep(t)
          PROVE  job' = job /\ note' = note /\ results' = results
      BY <2>1, <3>4 DEF TranscriberStep, ClaimJob, JobClaimable, OpenAudio, CompleteJob, FailJob,
         GiveUpJob, JobHeld, ActiveJob, voiceRows
    <3>5. ASSUME NEW c \in Cleaner, CleanerStep(c) PROVE job' = job /\ note' = note /\ results' = results
      BY <3>5 DEF CleanerStep, ClaimCleanup, RemoveAudio, CompleteCleanup, LoseCleanup, voiceRows
    <3>6. CASE JobLeaseLapses
      BY <2>1, <3>6 DEF JobLeaseLapses, ActiveJob
    <3>7. ASSUME NEW k \in Key, CleanupLeaseLapses(k)
          PROVE  job' = job /\ note' = note /\ results' = results
      BY <3>7 DEF CleanupLeaseLapses
    <3>8. ASSUME NEW d \in Dictation, OpenDictation(d) \/ PublishDictation(d) \/ EndDictation(d)
          PROVE  job' = job /\ note' = note /\ results' = results
      BY <1>2, <3>8 DEF OpenDictation, PublishDictation, EndDictation, voiceRows
    <3> QED BY <3>1, <3>2, <3>3, <3>4, <3>5, <3>6, <3>7, <3>8 DEF VoiceNext, voiceVars, voiceRows
  <2> QED BY <2>1, <2>2 DEF GoneIsSilent
<1>3. CASE ~voice.gone /\ voice'.gone
  <2>1. DeleteVoiceNote
    <3>1. CASE VoiceUser
      <4>1. CASE DeleteAudio
        BY <1>3, <4>1, AudioDeletedType DEF DeleteAudio
      <4>2. ASSUME NEW u \in Uploader, NEW c \in Content, StartUpload(u, c) PROVE FALSE
        BY <1>3, <4>2 DEF StartUpload, Typed, VoiceRow
      <4> QED BY <1>3, <3>1, <4>1, <4>2 DEF VoiceUser, RequestTranscript, EditNote,
                 DeleteNoteFromDevice, StartReplacement, voiceRows
    <3>2. CASE VoiceTrouble
      BY <1>3, <3>2 DEF VoiceTrouble, FailUpload, AbandonUpload, AbandonJob, FailCleanup,
         AbandonCleanup, voiceRows, Typed, VoiceRow
    <3>3. ASSUME NEW u \in Uploader, UploadStep(u) PROVE FALSE
      BY <1>3, <3>3 DEF UploadStep, PutUpload, MarkUpload, UndoUpload, PutReplacement,
         SwapReplacement, RemoveReplaced, voiceRows, Typed, VoiceRow
    <3>4. ASSUME NEW t \in Transcriber, TranscriberStep(t) PROVE FALSE
      BY <1>3, <3>4 DEF TranscriberStep, ClaimJob, OpenAudio, CompleteJob, FailJob, GiveUpJob, voiceRows
    <3>5. ASSUME NEW c \in Cleaner, CleanerStep(c) PROVE FALSE
      BY <1>3, <3>5 DEF CleanerStep, ClaimCleanup, RemoveAudio, CompleteCleanup, LoseCleanup,
         voiceRows, Typed, VoiceRow
    <3>6. CASE JobLeaseLapses \/ \E k \in Key : CleanupLeaseLapses(k)
      BY <1>3, <3>6 DEF JobLeaseLapses, CleanupLeaseLapses
    <3>7. ASSUME NEW d \in Dictation, OpenDictation(d) \/ PublishDictation(d) \/ EndDictation(d)
          PROVE  FALSE
      BY <1>3, <3>7 DEF OpenDictation, PublishDictation, EndDictation, voiceRows
    <3> QED BY <1>3, <3>1, <3>2, <3>3, <3>4, <3>5, <3>6, <3>7 DEF VoiceNext, voiceVars, voiceRows
  <2> QED BY <2>1, CanceledType DEF DeleteVoiceNote, GoneIsSilent
<1>4. CASE ~voice'.gone
  BY <1>4 DEF GoneIsSilent
<1> QED BY <1>2, <1>3, <1>4

(* Once the voice note is deleted, nothing that works on it brings anything  *)
(* of it back.                                                               *)
THEOREM GoneIsSilentHolds == VoiceSpec => []GoneIsSilent
<1> DEFINE I == Typed /\ GoneIsSilent
<1>1. VoiceInit => I
  BY TypedInit DEF VoiceInit, GoneIsSilent
<1>2. I /\ [VoiceNext]_voiceVars => I'
  BY TypedStep, SilentStep
<1>3. I => GoneIsSilent
  OBVIOUS
<1> QED BY <1>1, <1>2, <1>3, PTL DEF VoiceSpec

----------------------------------------------------------------------------
(* Transcripts are of the current audio *)

Uploading(u) == uploader[u].at \in {"put", "mark"}

(* What keeps a late worker honest.  A recording is stored under its digest, *)
(* except the first, whose key every first upload shares: all requests that  *)
(* can still write there have the recording of the row.  So a worker that    *)
(* listens under the current lease heard the recording of the row, and no    *)
(* job is active once the audio is being deleted.                            *)
StoredByDigest == \A k \in Content : objects[k] \in {k, NoContent}

NothingYet ==
  voice.key = NoKey =>
    /\ voice.sha = NoContent /\ objects[First] = NoContent
    /\ \A u \in Uploader : ~Uploading(u)

FirstAudio ==
  voice.key = First =>
    /\ voice.sha \in Content /\ objects[First] \in {voice.sha, NoContent}
    /\ \A u \in Uploader : Uploading(u) => uploader[u].content = voice.sha

ReplacedAudio ==
  voice.key \in Content => voice.sha = voice.key /\ voice.upload = "uploaded"

Listening(t) ==
  /\ job.state = "processing" /\ job.holder = t
  /\ transcriber[t].at = "listen" /\ transcriber[t].gen = job.gen

HeardCurrent ==
  \A t \in Transcriber :
    Listening(t) => transcriber[t].heard = voice.sha /\ transcriber[t].heard \in Content

AudioInv ==
  /\ StoredByDigest
  /\ BeingDeleted => job.state \notin ActiveJob
  /\ ~BeingDeleted => NothingYet /\ FirstAudio /\ ReplacedAudio /\ HeardCurrent

LEMMA AudioInvInit == VoiceInit => AudioInv
<1> SUFFICES ASSUME VoiceInit PROVE AudioInv
  OBVIOUS
<1>1. NoKey # First /\ NoKey \notin Content
  BY VoiceAssumption DEF NoKey, First
<1>2. StoredByDigest
  BY DEF VoiceInit, StoredByDigest, Key
<1>3. ~BeingDeleted
  BY DEF VoiceInit, BeingDeleted
<1>4. NothingYet /\ FirstAudio /\ ReplacedAudio
  BY <1>1 DEF VoiceInit, NothingYet, FirstAudio, ReplacedAudio, Key, Uploading, Idle
<1>5. HeardCurrent
  BY DEF VoiceInit, HeardCurrent, Listening, NoJob
<1> QED BY <1>2, <1>3, <1>4, <1>5 DEF AudioInv

(* No key is another one. *)
LEMMA KeysDiffer == First # NoKey /\ First \notin Content /\ NoKey \notin Content
  BY VoiceAssumption DEF First, NoKey

(* A step that leaves the row, the job and the listeners alone, and starts   *)
(* no upload, keeps the invariant if it puts only what it may.               *)
LEMMA AudioInvKept ==
  ASSUME Typed, AudioInv, voice' = voice, job' = job, transcriber' = transcriber,
         \A u \in Uploader : Uploading(u)' => Uploading(u) /\ uploader'[u].content = uploader[u].content,
         StoredByDigest',
         \/ objects'[First] = objects[First]
         \/ objects'[First] = NoContent
         \/ \E u \in Uploader : Uploading(u) /\ objects'[First] = uploader[u].content
  PROVE  AudioInv'
<1>1. BeingDeleted' = BeingDeleted
  BY DEF BeingDeleted
<1>2. CASE BeingDeleted
  BY <1>1, <1>2 DEF AudioInv
<1>3. CASE ~BeingDeleted
  <2>1. NothingYet'
    BY <1>3 DEF AudioInv, NothingYet
  <2>2. FirstAudio'
    BY <1>3 DEF AudioInv, FirstAudio
  <2>3. ReplacedAudio' /\ HeardCurrent'
    BY <1>3 DEF AudioInv, ReplacedAudio, HeardCurrent, Listening
  <2> QED BY <1>1, <1>3, <2>1, <2>2, <2>3 DEF AudioInv
<1> QED BY <1>2, <1>3

LEMMA AudioInvUpload ==
  ASSUME Typed, AudioInv, NEW u \in Uploader,
         \/ UploadStep(u) \/ FailUpload(u) \/ AbandonUpload(u)
         \/ \E c \in Content : StartUpload(u, c) \/ StartReplacement(u, c)
  PROVE  AudioInv'
<1>1. /\ uploader \in [Uploader -> UploaderRow] /\ voice \in VoiceRow /\ job \in JobRow
      /\ (uploader[u].at # "idle" => uploader[u].content \in Content)
      /\ objects \in [Key -> Content \cup {NoContent}]
  BY DEF Typed, WorkersTyped
<1>2. ASSUME NEW c \in Content, StartUpload(u, c) PROVE AudioInv'
  <2>1. ~BeingDeleted /\ voice.upload # "uploaded" /\ voice.sha \in {NoContent, c}
        /\ voice' = [voice EXCEPT !.key = First, !.sha = c, !.upload = "uploading",
                                  !.audio = "uploading", !.revision = voice.revision + 1]
        /\ job' = job /\ objects' = objects /\ transcriber' = transcriber
        /\ uploader' = [uploader EXCEPT ![u] =
             [at |-> "put", content |-> c, base |-> 0, old |-> NoKey]]
    BY <1>2 DEF StartUpload
  <2>2. voice'.key = First /\ voice'.sha = c /\ voice'.audio = "uploading"
    BY <1>1, <2>1 DEF VoiceRow
  <2>3. NothingYet /\ FirstAudio /\ ReplacedAudio /\ HeardCurrent /\ StoredByDigest
    BY <2>1 DEF AudioInv
  <2>4. voice.key \in {First, NoKey}
    BY <1>1, <2>1, <2>3 DEF ReplacedAudio, VoiceRow, Key
  <2>5. /\ objects[First] \in {c, NoContent}
        /\ \A v \in Uploader : Uploading(v) => uploader[v].content = c
    <3>1. CASE voice.key = First
      <4>1. voice.sha = c
        BY <2>1, <2>3, <3>1, VoiceAssumption DEF FirstAudio
      <4> QED BY <2>3, <3>1, <4>1 DEF FirstAudio
    <3>2. CASE voice.key = NoKey
      BY <2>3, <3>2 DEF NothingYet
    <3> QED BY <2>4, <3>1, <3>2
  <2>6. FirstAudio'
    BY <1>1, <2>1, <2>2, <2>5 DEF FirstAudio, Uploading
  <2>7. HeardCurrent'
    <3>1. ASSUME NEW t \in Transcriber, Listening(t) PROVE voice.sha = c /\ transcriber[t].heard = c
      BY <2>1, <2>3, <3>1, VoiceAssumption DEF HeardCurrent
    <3> QED BY <2>1, <2>2, <3>1 DEF HeardCurrent, Listening
  <2>8. NothingYet' /\ ReplacedAudio' /\ ~BeingDeleted'
    BY <2>2, KeysDiffer DEF NothingYet, ReplacedAudio, BeingDeleted
  <2>9. StoredByDigest'
    BY <2>1, <2>3 DEF StoredByDigest
  <2> QED BY <2>6, <2>7, <2>8, <2>9 DEF AudioInv
<1>3. ASSUME NEW c \in Content, StartReplacement(u, c) PROVE AudioInv'
  <2>1. \A v \in Uploader : Uploading(v)' => Uploading(v) /\ uploader'[v].content = uploader[v].content
    BY <1>1, <1>3 DEF StartReplacement, Uploading
  <2> QED BY <1>3, <2>1, AudioInvKept DEF StartReplacement, voiceRows, AudioInv, StoredByDigest
<1>4. CASE PutUpload(u)
  <2>1. \A v \in Uploader : Uploading(v)' => Uploading(v) /\ uploader'[v].content = uploader[v].content
    BY <1>1, <1>4 DEF PutUpload, UploaderAt, Uploading, UploaderRow
  <2>2. objects'[First] = uploader[u].content /\ Uploading(u)
    BY <1>1, <1>4 DEF PutUpload, Put, Key, Uploading
  <2>3. StoredByDigest'
    BY <1>1, <1>4, KeysDiffer DEF PutUpload, Put, StoredByDigest, AudioInv, Key
  <2> QED BY <1>4, <2>1, <2>2, <2>3, AudioInvKept DEF PutUpload, voiceRows
<1>5. CASE FailUpload(u)
  <2>1. \A v \in Uploader : Uploading(v)' => Uploading(v) /\ uploader'[v].content = uploader[v].content
    BY <1>1, <1>5 DEF FailUpload, UploaderDone, Uploading, Idle
  <2>2. job' = job /\ objects' = objects /\ transcriber' = transcriber /\ Uploading(u)
        /\ voice'.key = voice.key /\ voice'.sha = voice.sha /\ voice'.audio = voice.audio
        /\ (voice.upload = "uploaded" => voice'.upload = "uploaded")
    BY <1>1, <1>5 DEF FailUpload, VoiceRow, Uploading
  <2>3. BeingDeleted' = BeingDeleted /\ StoredByDigest'
    BY <2>2 DEF BeingDeleted, StoredByDigest, AudioInv
  <2>4. CASE BeingDeleted
    BY <2>2, <2>3, <2>4 DEF AudioInv
  <2>5. CASE ~BeingDeleted
    <3>1. NothingYet' /\ FirstAudio'
      BY <2>1, <2>2, <2>5 DEF AudioInv, NothingYet, FirstAudio
    <3>2. ReplacedAudio' /\ HeardCurrent'
      BY <2>2, <2>5 DEF AudioInv, ReplacedAudio, HeardCurrent, Listening
    <3> QED BY <2>3, <2>5, <3>1, <3>2 DEF AudioInv
  <2> QED BY <2>4, <2>5
<1>6. CASE MarkUpload(u)
  <2>1. \A v \in Uploader : Uploading(v)' => Uploading(v) /\ uploader'[v].content = uploader[v].content
    BY <1>1, <1>6 DEF MarkUpload, UploaderDone, UploaderAt, Uploading, Idle, UploaderRow
  <2>2. CASE UNCHANGED <<voice, job>>
    BY <1>6, <2>1, <2>2, AudioInvKept DEF MarkUpload, StoredByDigest, AudioInv
  <2>3. CASE ~UNCHANGED <<voice, job>>
    <3>1. /\ ~BeingDeleted /\ Uploading(u) /\ voice.sha = uploader[u].content
          /\ voice' = [voice EXCEPT !.upload = "uploaded", !.audio = "uploaded",
                                    !.revision = Capped(voice.revision, MaxAudioRevision)]
          /\ job' = (IF job.state = "waiting_for_audio" THEN [job EXCEPT !.state = "queued"] ELSE job)
          /\ objects' = objects /\ transcriber' = transcriber
      BY <1>6, <2>3 DEF MarkUpload, Uploading
    <3>2. voice'.key = voice.key /\ voice'.sha = voice.sha /\ voice'.audio = "uploaded"
          /\ voice'.upload = "uploaded"
      BY <1>1, <3>1 DEF VoiceRow
    <3>3. job'.state = "processing" => job' = job
      BY <1>1, <3>1 DEF JobRow
    <3>4. NothingYet' /\ FirstAudio'
      BY <2>1, <3>1, <3>2 DEF AudioInv, NothingYet, FirstAudio
    <3>5. ReplacedAudio' /\ HeardCurrent'
      BY <3>1, <3>2, <3>3 DEF AudioInv, ReplacedAudio, HeardCurrent, Listening
    <3>6. ~BeingDeleted' /\ StoredByDigest'
      BY <3>1, <3>2 DEF BeingDeleted, StoredByDigest, AudioInv
    <3> QED BY <3>4, <3>5, <3>6 DEF AudioInv
  <2> QED BY <2>2, <2>3
<1>7. CASE UndoUpload(u) \/ RemoveReplaced(u) \/ AbandonUpload(u)
  <2>1. \A v \in Uploader : Uploading(v)' => Uploading(v) /\ uploader'[v].content = uploader[v].content
    BY <1>1, <1>7 DEF UndoUpload, RemoveReplaced, AbandonUpload, UploaderDone, Uploading, Idle
  <2>2. \A k \in Key : objects'[k] \in {objects[k], NoContent}
    BY <1>1, <1>7 DEF UndoUpload, RemoveReplaced, AbandonUpload, Remove
  <2>3. StoredByDigest'
    BY <2>2 DEF StoredByDigest, AudioInv, Key
  <2>4. objects'[First] \in {objects[First], NoContent}
    BY <2>2 DEF Key
  <2> QED BY <1>7, <2>1, <2>3, <2>4, AudioInvKept
         DEF UndoUpload, RemoveReplaced, AbandonUpload, voiceRows
<1>8. CASE PutReplacement(u)
  <2>1. \A v \in Uploader : Uploading(v)' => Uploading(v) /\ uploader'[v].content = uploader[v].content
    BY <1>1, <1>8 DEF PutReplacement, UploaderAt, Uploading, UploaderRow
  <2>2. uploader[u].content \in Content
    BY <1>1, <1>8 DEF PutReplacement
  <2>3. StoredByDigest' /\ objects'[First] = objects[First]
    BY <1>1, <1>8, <2>2, KeysDiffer DEF PutReplacement, Put, StoredByDigest, AudioInv, Key
  <2> QED BY <1>8, <2>1, <2>3, AudioInvKept DEF PutReplacement, voiceRows
<1>9. CASE SwapReplacement(u)
  <2>1. \A v \in Uploader : Uploading(v)' => Uploading(v) /\ uploader'[v].content = uploader[v].content
    BY <1>1, <1>9 DEF SwapReplacement, UploaderAt, Uploading, UploaderRow
  <2>2. CASE UNCHANGED <<voice, job>>
    BY <1>9, <2>1, <2>2, AudioInvKept DEF SwapReplacement, StoredByDigest, AudioInv
  <2>3. CASE ~UNCHANGED <<voice, job>>
    <3>1. /\ voice.upload = "uploaded" /\ voice.audio = "uploaded"
          /\ voice' = [voice EXCEPT !.key = uploader[u].content, !.sha = uploader[u].content,
                                    !.revision = voice.revision + 1]
          /\ job' = CanceledJob /\ objects' = objects /\ uploader[u].content \in Content
      BY <1>1, <1>9, <2>3 DEF SwapReplacement
    <3>2. /\ voice'.key = uploader[u].content /\ voice'.sha = uploader[u].content
          /\ voice'.audio = "uploaded" /\ voice'.upload = "uploaded"
      BY <1>1, <3>1 DEF VoiceRow
    <3>3. job'.state # "processing"
      BY <3>1, CanceledType DEF ActiveJob
    <3>4. NothingYet' /\ FirstAudio' /\ ReplacedAudio' /\ ~BeingDeleted'
      BY <3>1, <3>2, KeysDiffer DEF NothingYet, FirstAudio, ReplacedAudio, BeingDeleted
    <3>5. HeardCurrent' /\ StoredByDigest'
      BY <3>1, <3>3 DEF HeardCurrent, Listening, StoredByDigest, AudioInv
    <3> QED BY <3>4, <3>5 DEF AudioInv
  <2> QED BY <2>2, <2>3
<1> QED BY <1>2, <1>3, <1>4, <1>5, <1>6, <1>7, <1>8, <1>9 DEF UploadStep

(* Deleting the audio ends the job with the same statement. *)
LEMMA AudioInvDeleted ==
  ASSUME Typed, AudioInv, objects' = objects, job' = CanceledJob,
         voice'.audio \in {"delete_requested", "deleted"}
  PROVE  AudioInv'
<1>1. BeingDeleted'
  BY DEF BeingDeleted
<1>2. job'.state \notin ActiveJob
  BY CanceledType
<1> QED BY <1>1, <1>2 DEF AudioInv, StoredByDigest

(* A step of the job or of a transcriber that changes nothing of the audio.  *)
LEMMA AudioInvJob ==
  ASSUME Typed, AudioInv, voice' = voice, objects' = objects, uploader' = uploader,
         BeingDeleted => job'.state \notin ActiveJob,
         ~BeingDeleted => HeardCurrent'
  PROVE  AudioInv'
<1>1. BeingDeleted' = BeingDeleted /\ StoredByDigest'
  BY DEF BeingDeleted, AudioInv, StoredByDigest
<1>2. ~BeingDeleted => NothingYet' /\ FirstAudio' /\ ReplacedAudio'
  BY DEF AudioInv, NothingYet, FirstAudio, ReplacedAudio, Uploading
<1> QED BY <1>1, <1>2 DEF AudioInv

LEMMA AudioInvTranscription ==
  ASSUME Typed, AudioInv, NEW t \in Transcriber, TranscriberStep(t) \/ AbandonJob(t)
  PROVE  AudioInv'
<1>1. /\ transcriber \in [Transcriber -> TranscriberRow] /\ job \in JobRow /\ voice \in VoiceRow
      /\ objects \in [Key -> Content \cup {NoContent}]
  BY DEF Typed, WorkersTyped
<1>2. BeingDeleted => job.state \notin ActiveJob
  BY DEF AudioInv
<1>3. CASE ClaimJob(t)
  <2>1. job.state \in ActiveJob
    BY <1>3 DEF ClaimJob, JobClaimable, ActiveJob
  <2>2. /\ job'.holder = t /\ transcriber'[t].at = "open"
        /\ voice' = voice /\ objects' = objects /\ uploader' = uploader
    BY <1>1, <1>3 DEF ClaimJob, JobRow
  <2>3. HeardCurrent'
    <3>1. \A s \in Transcriber : ~Listening(s)'
      BY <2>2 DEF Listening
    <3> QED BY <3>1 DEF HeardCurrent
  <2> QED BY <1>2, <2>1, <2>2, <2>3, AudioInvJob
<1>4. CASE OpenAudio(t)
  <2>1. /\ transcriber' = [transcriber EXCEPT ![t] =
             [at |-> "listen", gen |-> transcriber[t].gen, heard |-> objects[voice.key]]]
        /\ voice.key # NoKey /\ objects[voice.key] # NoContent
        /\ job' = job /\ voice' = voice /\ objects' = objects /\ uploader' = uploader
    BY <1>4 DEF OpenAudio, voiceRows
  <2>2. ASSUME ~BeingDeleted PROVE HeardCurrent'
    <3>1. objects[voice.key] = voice.sha /\ objects[voice.key] \in Content
      <4>1. CASE voice.key = First
        BY <1>1, <2>1, <2>2, <4>1 DEF AudioInv, FirstAudio, Key
      <4>2. CASE voice.key \in Content
        BY <1>1, <2>1, <2>2, <4>2 DEF AudioInv, ReplacedAudio, StoredByDigest
      <4> QED BY <1>1, <2>1, <4>1, <4>2 DEF VoiceRow, Key
    <3>2. ASSUME NEW s \in Transcriber, Listening(s)'
          PROVE  transcriber'[s].heard = voice.sha /\ transcriber'[s].heard \in Content
      <4>1. CASE s = t
        BY <1>1, <2>1, <3>1, <4>1
      <4>2. CASE s # t
        <5>1. transcriber'[s] = transcriber[s]
          BY <1>1, <2>1, <4>2
        <5> QED BY <2>1, <2>2, <3>2, <5>1 DEF AudioInv, HeardCurrent, Listening
      <4> QED BY <4>1, <4>2
    <3> QED BY <2>1, <3>2 DEF HeardCurrent
  <2> QED BY <1>2, <2>1, <2>2, AudioInvJob
<1>5. CASE CompleteJob(t) \/ FailJob(t)
  <2>1. /\ job.state = "processing" /\ job'.state # "processing"
        /\ voice' = voice /\ objects' = objects /\ uploader' = uploader
    BY <1>1, <1>5 DEF CompleteJob, FailJob, JobHeld, JobRow
  <2>2. ~BeingDeleted
    BY <1>2, <2>1 DEF ActiveJob
  <2> QED BY <2>1, <2>2, AudioInvJob DEF HeardCurrent, Listening
<1>6. CASE GiveUpJob(t) \/ AbandonJob(t)
  <2>1. /\ transcriber' = [transcriber EXCEPT ![t] = Off]
        /\ job' = job /\ voice' = voice /\ objects' = objects /\ uploader' = uploader
    BY <1>6 DEF GiveUpJob, AbandonJob, TranscriberOff, voiceRows
  <2>2. \A s \in Transcriber : Listening(s)' => Listening(s) /\ transcriber'[s] = transcriber[s]
    BY <1>1, <2>1 DEF Listening, Off
  <2> QED BY <1>2, <2>1, <2>2, AudioInvJob DEF AudioInv, HeardCurrent
<1> QED BY <1>3, <1>4, <1>5, <1>6 DEF TranscriberStep

LEMMA AudioInvStep == Typed /\ AudioInv /\ [VoiceNext]_voiceVars => AudioInv'
<1> SUFFICES ASSUME Typed, AudioInv, [VoiceNext]_voiceVars PROVE AudioInv'
  OBVIOUS
<1>1. ASSUME UNCHANGED <<voice, job, objects, uploader, transcriber>> PROVE AudioInv'
  BY <1>1, AudioInvJob DEF AudioInv, HeardCurrent, Listening
<1>2. ASSUME NEW u \in Uploader,
             \/ UploadStep(u) \/ FailUpload(u) \/ AbandonUpload(u)
             \/ \E c \in Content : StartUpload(u, c) \/ StartReplacement(u, c)
      PROVE  AudioInv'
  BY <1>2, AudioInvUpload
<1>3. ASSUME NEW t \in Transcriber, TranscriberStep(t) \/ AbandonJob(t) PROVE AudioInv'
  BY <1>3, AudioInvTranscription
<1>4. CASE RequestTranscript
  <2>1. /\ ~BeingDeleted /\ job'.state # "processing"
        /\ voice' = voice /\ objects' = objects /\ uploader' = uploader
    BY <1>4 DEF RequestTranscript, NoJob, voiceWorkers
  <2> QED BY <2>1, AudioInvJob DEF HeardCurrent, Listening
<1>5. CASE EditNote \/ DeleteNoteFromDevice
  BY <1>1, <1>5 DEF EditNote, DeleteNoteFromDevice, voiceWorkers
<1>6. CASE DeleteAudio
  BY <1>6, AudioInvDeleted, AudioDeletedType DEF DeleteAudio
<1>7. CASE DeleteVoiceNote
  <2>1. voice'.audio \in {"delete_requested", "deleted"}
    <3> DEFINE row == AudioDeleted(voice)
    <3>1. row \in VoiceRow /\ row.audio \in {"delete_requested", "deleted"}
      BY AudioDeletedType
    <3>2. voice' = [row EXCEPT !.gone = TRUE]
      BY <1>7 DEF DeleteVoiceNote
    <3> HIDE DEF row
    <3> QED BY <3>1, <3>2 DEF VoiceRow
  <2> QED BY <1>7, <2>1, AudioInvDeleted DEF DeleteVoiceNote
<1>8. ASSUME NEW c \in Cleaner, CleanerStep(c) \/ FailCleanup(c) \/ AbandonCleanup(c) PROVE AudioInv'
  <2>1. CASE RemoveAudio(c)
    <3>1. \A k \in Key : objects'[k] \in {objects[k], NoContent}
      BY <2>1 DEF RemoveAudio, Remove, Typed
    <3>2. StoredByDigest' /\ objects'[First] \in {objects[First], NoContent}
      BY <3>1 DEF StoredByDigest, AudioInv, Key
    <3> QED BY <2>1, <3>2, AudioInvKept DEF RemoveAudio, voiceRows, Uploading
  <2>2. CASE CompleteCleanup(c)
    <3>1. BeingDeleted
      BY <2>2 DEF CompleteCleanup, BeingDeleted
    <3>2. voice'.audio = "deleted" /\ job' = job /\ objects' = objects
      BY <2>2 DEF CompleteCleanup, Typed, VoiceRow
    <3> QED BY <3>1, <3>2 DEF AudioInv, BeingDeleted, StoredByDigest
  <2>3. CASE ~RemoveAudio(c) /\ ~CompleteCleanup(c)
    BY <1>1, <1>8, <2>3 DEF CleanerStep, ClaimCleanup, LoseCleanup, FailCleanup, AbandonCleanup, voiceRows
  <2> QED BY <2>1, <2>2, <2>3
<1>9. CASE JobLeaseLapses
  <2>1. /\ job'.state = job.state /\ job'.holder = job.holder /\ job'.gen = job.gen
        /\ voice' = voice /\ objects' = objects /\ uploader' = uploader /\ transcriber' = transcriber
    BY <1>9 DEF JobLeaseLapses, Typed, JobRow, voiceWorkers
  <2> QED BY <2>1, AudioInvJob DEF AudioInv, HeardCurrent, Listening
<1>10. CASE UNCHANGED voiceVars \/ \E k \in Key : CleanupLeaseLapses(k)
  BY <1>1, <1>10 DEF voiceVars, voiceRows, CleanupLeaseLapses, voiceWorkers
<1>11. ASSUME NEW d \in Dictation, OpenDictation(d) \/ PublishDictation(d) \/ EndDictation(d)
       PROVE  AudioInv'
  BY <1>1, <1>11 DEF OpenDictation, PublishDictation, EndDictation, voiceRows, voiceWorkers
<1> QED BY <1>2, <1>3, <1>4, <1>5, <1>6, <1>7, <1>8, <1>9, <1>10, <1>11
        DEF VoiceNext, VoiceUser, VoiceTrouble

(* Only a worker that listened to the current recording publishes.           *)
LEMMA PublishedIsCurrent ==
  ASSUME Typed, AudioInv, [VoiceNext]_voiceVars, NEW g \in Generation,
         results'[g] \notin {results[g], NoContent}
  PROVE  results'[g] = voice.sha
<1>1. ASSUME NEW t \in Transcriber, CompleteJob(t) PROVE results'[g] = voice.sha
  <2>1. Listening(t) /\ ~BeingDeleted
    BY <1>1 DEF CompleteJob, JobHeld, Listening, AudioInv, ActiveJob
  <2>2. transcriber[t].heard = voice.sha
    BY <2>1 DEF AudioInv, HeardCurrent
  <2>3. results'[g] \in {results[g], transcriber[t].heard}
    BY <1>1 DEF CompleteJob, Typed
  <2> QED BY <2>2, <2>3
<1>2. CASE DeleteVoiceNote
  BY <1>2 DEF DeleteVoiceNote
<1>3. results' # results
  OBVIOUS
<1>4. CASE VoiceUser
  BY <1>2, <1>3, <1>4 DEF VoiceUser, RequestTranscript, EditNote, DeleteAudio,
     DeleteNoteFromDevice, StartUpload, StartReplacement, voiceRows
<1>5. CASE VoiceTrouble
  BY <1>3, <1>5 DEF VoiceTrouble, FailUpload, AbandonUpload, AbandonJob, FailCleanup,
     AbandonCleanup, voiceRows
<1>6. ASSUME NEW u \in Uploader, UploadStep(u) PROVE FALSE
  BY <1>3, <1>6 DEF UploadStep, PutUpload, MarkUpload, UndoUpload, PutReplacement,
     SwapReplacement, RemoveReplaced, voiceRows
<1>7. ASSUME NEW t \in Transcriber, TranscriberStep(t) PROVE results'[g] = voice.sha
  BY <1>1, <1>3, <1>7 DEF TranscriberStep, ClaimJob, OpenAudio, FailJob, GiveUpJob, voiceRows
<1>8. ASSUME NEW c \in Cleaner, CleanerStep(c) PROVE FALSE
  BY <1>3, <1>8 DEF CleanerStep, ClaimCleanup, RemoveAudio, CompleteCleanup, LoseCleanup, voiceRows
<1>9. ~(JobLeaseLapses \/ \E k \in Key : CleanupLeaseLapses(k)) /\ ~UNCHANGED voiceVars
  BY <1>3 DEF JobLeaseLapses, CleanupLeaseLapses, voiceVars, voiceRows
<1>10. ASSUME NEW d \in Dictation, OpenDictation(d) \/ PublishDictation(d) \/ EndDictation(d)
       PROVE  FALSE
  BY <1>3, <1>10 DEF OpenDictation, PublishDictation, EndDictation, voiceRows
<1> QED BY <1>4, <1>5, <1>6, <1>7, <1>8, <1>9, <1>10 DEF VoiceNext

(* A request that waits for a transcript itself may open audio that is       *)
(* already being deleted: what is stored under the key of the row is its     *)
(* recording then too.                                                       *)
KeptAudio == FirstAudio /\ ReplacedAudio

HeardUnlessOvertaken ==
  \A d \in Dictation :
    dictation[d].heard # NoContent /\ ~dictation[d].overtaken => dictation[d].heard = voice.sha

DictationInv == DictationTyped /\ KeptAudio /\ HeardUnlessOvertaken

LEMMA DictationInvInit == VoiceInit => DictationInv
<1> SUFFICES ASSUME VoiceInit PROVE DictationInv
  OBVIOUS
<1>1. KeptAudio
  <2>1. voice.key = NoKey
    BY DEF VoiceInit
  <2> QED BY <2>1, KeysDiffer DEF KeptAudio, FirstAudio, ReplacedAudio
<1>2. HeardUnlessOvertaken
  BY DEF VoiceInit, HeardUnlessOvertaken, Deaf
<1> QED BY <1>1, <1>2, DictationTypedInit DEF DictationInv

(* A step that starts no upload and leaves key and digest alone.             *)
LEMMA KeptAudioKept ==
  ASSUME KeptAudio, voice'.key = voice.key, voice'.key # NoKey => voice'.sha = voice.sha,
         voice.key # NoKey /\ voice.upload = "uploaded" => voice'.upload = "uploaded",
         \A u \in Uploader : Uploading(u)' => Uploading(u) /\ uploader'[u].content = uploader[u].content,
         \/ objects'[First] = objects[First]
         \/ objects'[First] = NoContent
         \/ \E u \in Uploader : Uploading(u) /\ objects'[First] = uploader[u].content
  PROVE  KeptAudio'
<1>1. FirstAudio'
  BY KeysDiffer DEF KeptAudio, FirstAudio
<1>2. ReplacedAudio'
  BY KeysDiffer DEF KeptAudio, ReplacedAudio
<1> QED BY <1>1, <1>2 DEF KeptAudio

LEMMA KeptAudioUpload ==
  ASSUME Typed, KeptAudio, BeingDeleted', NEW u \in Uploader,
         \/ UploadStep(u) \/ FailUpload(u) \/ AbandonUpload(u)
         \/ \E c \in Content : StartUpload(u, c) \/ StartReplacement(u, c)
  PROVE  KeptAudio'
<1>1. /\ uploader \in [Uploader -> UploaderRow] /\ voice \in VoiceRow
      /\ objects \in [Key -> Content \cup {NoContent}] /\ First \in Key
      /\ (uploader[u].at # "idle" => uploader[u].content \in Content)
  BY DEF Typed, WorkersTyped, Key
<1>2. ASSUME NEW c \in Content, StartUpload(u, c) PROVE FALSE
  <2>1. voice'.audio = "uploading"
    BY <1>1, <1>2 DEF StartUpload, VoiceRow
  <2> QED BY <2>1 DEF BeingDeleted
<1>3. ASSUME NEW c \in Content, StartReplacement(u, c) PROVE KeptAudio'
  <2>1. \A v \in Uploader : Uploading(v)' => Uploading(v) /\ uploader'[v].content = uploader[v].content
    BY <1>1, <1>3 DEF StartReplacement, Uploading
  <2> QED BY <1>3, <2>1, KeptAudioKept DEF StartReplacement, voiceRows
<1>4. CASE PutUpload(u)
  <2>1. \A v \in Uploader : Uploading(v)' => Uploading(v) /\ uploader'[v].content = uploader[v].content
    BY <1>1, <1>4 DEF PutUpload, UploaderAt, Uploading, UploaderRow
  <2>2. objects'[First] = uploader[u].content /\ Uploading(u)
    BY <1>1, <1>4 DEF PutUpload, Put, Uploading
  <2> QED BY <1>4, <2>1, <2>2, KeptAudioKept DEF PutUpload, voiceRows
<1>5. CASE FailUpload(u)
  <2>1. \A v \in Uploader : Uploading(v)' => Uploading(v) /\ uploader'[v].content = uploader[v].content
    BY <1>1, <1>5 DEF FailUpload, UploaderDone, Uploading, Idle
  <2>2. /\ objects' = objects /\ voice'.key = voice.key /\ voice'.sha = voice.sha
        /\ (voice.upload = "uploaded" => voice'.upload = "uploaded")
    BY <1>1, <1>5 DEF FailUpload, VoiceRow
  <2> QED BY <2>1, <2>2, KeptAudioKept
<1>6. CASE MarkUpload(u) \/ SwapReplacement(u)
  <2>1. \A v \in Uploader : Uploading(v)' => Uploading(v) /\ uploader'[v].content = uploader[v].content
    <3>1. CASE MarkUpload(u)
      BY <1>1, <3>1 DEF MarkUpload, UploaderDone, UploaderAt, Uploading, Idle, UploaderRow
    <3>2. CASE SwapReplacement(u)
      BY <1>1, <3>2 DEF SwapReplacement, UploaderAt, Uploading, UploaderRow
    <3> QED BY <1>6, <3>1, <3>2
  <2>2. objects' = objects /\ voice' = voice
    BY <1>1, <1>6 DEF MarkUpload, SwapReplacement, VoiceRow, BeingDeleted
  <2> QED BY <2>1, <2>2, KeptAudioKept
<1>7. CASE UndoUpload(u) \/ RemoveReplaced(u) \/ AbandonUpload(u)
  <2>1. \A v \in Uploader : Uploading(v)' => Uploading(v) /\ uploader'[v].content = uploader[v].content
    BY <1>1, <1>7 DEF UndoUpload, RemoveReplaced, AbandonUpload, UploaderDone, Uploading, Idle
  <2>2. objects'[First] \in {objects[First], NoContent}
    BY <1>1, <1>7 DEF UndoUpload, RemoveReplaced, AbandonUpload, Remove
  <2> QED BY <1>7, <2>1, <2>2, KeptAudioKept DEF UndoUpload, RemoveReplaced, AbandonUpload, voiceRows
<1>8. CASE PutReplacement(u)
  <2>1. \A v \in Uploader : Uploading(v)' => Uploading(v) /\ uploader'[v].content = uploader[v].content
    BY <1>1, <1>8 DEF PutReplacement, UploaderAt, Uploading, UploaderRow
  <2>2. objects'[First] = objects[First]
    BY <1>1, <1>8, KeysDiffer DEF PutReplacement, Put
  <2> QED BY <1>8, <2>1, <2>2, KeptAudioKept DEF PutReplacement, voiceRows
<1> QED BY <1>2, <1>3, <1>4, <1>5, <1>6, <1>7, <1>8 DEF UploadStep

LEMMA KeptAudioStep == Typed /\ AudioInv /\ KeptAudio /\ [VoiceNext]_voiceVars => KeptAudio'
<1> SUFFICES ASSUME Typed, AudioInv, KeptAudio, [VoiceNext]_voiceVars, BeingDeleted' PROVE KeptAudio'
  BY AudioInvStep DEF AudioInv, KeptAudio
<1>1. ASSUME UNCHANGED <<voice, objects, uploader>> PROVE KeptAudio'
  BY <1>1 DEF KeptAudio, FirstAudio, ReplacedAudio, Uploading
<1>2. ASSUME NEW u \in Uploader,
             \/ UploadStep(u) \/ FailUpload(u) \/ AbandonUpload(u)
             \/ \E c \in Content : StartUpload(u, c) \/ StartReplacement(u, c)
      PROVE  KeptAudio'
  BY <1>2, KeptAudioUpload
<1>3. ASSUME NEW t \in Transcriber, TranscriberStep(t) \/ AbandonJob(t) PROVE KeptAudio'
  BY <1>1, <1>3 DEF TranscriberStep, AbandonJob, ClaimJob, OpenAudio, CompleteJob, FailJob, GiveUpJob,
                    voiceRows
<1>4. CASE DeleteAudio \/ DeleteVoiceNote
  <2> DEFINE row == AudioDeleted(voice)
  <2>1. /\ row.key = voice.key
        /\ (voice.key # NoKey => row.sha = voice.sha /\ row.upload = voice.upload)
        /\ row \in VoiceRow
    BY AudioDeletedType DEF AudioDeleted, Typed, VoiceRow
  <2>2. voice' = row \/ voice' = [row EXCEPT !.gone = TRUE]
    BY <1>4 DEF DeleteAudio, DeleteVoiceNote
  <2> HIDE DEF row
  <2>3. voice'.key = row.key /\ voice'.sha = row.sha /\ voice'.upload = row.upload
    BY <2>1, <2>2 DEF VoiceRow
  <2>4. UNCHANGED <<objects, uploader>>
    BY <1>4 DEF DeleteAudio, DeleteVoiceNote, voiceWorkers
  <2> QED BY <2>1, <2>3, <2>4, KeptAudioKept DEF Uploading
<1>5. ASSUME NEW c \in Cleaner, CleanerStep(c) \/ FailCleanup(c) \/ AbandonCleanup(c) PROVE KeptAudio'
  <2>1. CASE RemoveAudio(c)
    <3>1. objects'[First] \in {objects[First], NoContent}
      BY <2>1 DEF RemoveAudio, Remove, Typed, Key
    <3> QED BY <2>1, <3>1, KeptAudioKept DEF RemoveAudio, voiceRows, Uploading
  <2>2. CASE CompleteCleanup(c)
    <3>1. voice'.key = NoKey
      BY <2>2 DEF CompleteCleanup, Typed, VoiceRow
    <3> QED BY <3>1, KeysDiffer DEF KeptAudio, FirstAudio, ReplacedAudio
  <2>3. CASE ~RemoveAudio(c) /\ ~CompleteCleanup(c)
    BY <1>1, <1>5, <2>3 DEF CleanerStep, ClaimCleanup, LoseCleanup, FailCleanup, AbandonCleanup, voiceRows
  <2> QED BY <2>1, <2>2, <2>3
<1>6. CASE \/ RequestTranscript \/ EditNote \/ DeleteNoteFromDevice \/ JobLeaseLapses
           \/ UNCHANGED voiceVars \/ \E k \in Key : CleanupLeaseLapses(k)
  BY <1>1, <1>6 DEF RequestTranscript, EditNote, DeleteNoteFromDevice, JobLeaseLapses,
                    CleanupLeaseLapses, voiceVars, voiceRows, voiceWorkers
<1>7. ASSUME NEW d \in Dictation, OpenDictation(d) \/ PublishDictation(d) \/ EndDictation(d)
      PROVE  KeptAudio'
  BY <1>1, <1>7 DEF OpenDictation, PublishDictation, EndDictation, voiceRows, voiceWorkers
<1> QED BY <1>2, <1>3, <1>4, <1>5, <1>6, <1>7 DEF VoiceNext, VoiceUser, VoiceTrouble

LEMMA HeardStep ==
  ASSUME Typed, AudioInv, DictationInv, [VoiceNext]_voiceVars
  PROVE  HeardUnlessOvertaken'
<1>1. dictation \in [Dictation -> [heard : Content \cup {NoContent}, overtaken : BOOLEAN]]
  BY DEF DictationInv, DictationTyped
<1>2. CASE Overtake
  BY <1>1, <1>2 DEF Overtake, HeardUnlessOvertaken
<1>3. CASE dictation' = dictation /\ (voice'.sha = voice.sha \/ voice.sha = NoContent)
  BY <1>3 DEF DictationInv, HeardUnlessOvertaken
<1>4. ASSUME NEW d \in Dictation, OpenDictation(d) PROVE HeardUnlessOvertaken'
  <2>1. /\ voice.upload = "uploaded" /\ voice.key # NoKey /\ objects[voice.key] # NoContent
        /\ dictation' = [dictation EXCEPT ![d] = [heard |-> objects[voice.key], overtaken |-> FALSE]]
        /\ voice' = voice
    BY <1>4 DEF OpenDictation, voiceRows
  <2>2. objects[voice.key] = voice.sha
    <3>1. voice.key \in Key
      BY <2>1 DEF Typed, VoiceRow
    <3>2. CASE voice.key = First
      BY <2>1, <3>2 DEF DictationInv, KeptAudio, FirstAudio
    <3>3. CASE voice.key \in Content
      BY <2>1, <3>3 DEF DictationInv, KeptAudio, ReplacedAudio, AudioInv, StoredByDigest
    <3> QED BY <3>1, <3>2, <3>3 DEF Key
  <2>3. dictation'[d].heard = voice.sha /\ \A e \in Dictation \ {d} : dictation'[e] = dictation[e]
    BY <1>1, <2>1, <2>2
  <2> QED BY <2>1, <2>3 DEF DictationInv, HeardUnlessOvertaken
<1>5. ASSUME voice' = voice, NEW d \in Dictation, dictation' = [dictation EXCEPT ![d] = Deaf]
      PROVE  HeardUnlessOvertaken'
  <2>1. dictation'[d].heard = NoContent /\ \A e \in Dictation \ {d} : dictation'[e] = dictation[e]
    BY <1>1, <1>5 DEF Deaf
  <2> QED BY <1>5, <2>1 DEF DictationInv, HeardUnlessOvertaken
<1> QED BY <1>2, <1>3, <1>4, <1>5, DictationMoves

LEMMA DictationInvStep == Typed /\ AudioInv /\ DictationInv /\ [VoiceNext]_voiceVars => DictationInv'
BY DictationTypedStep, KeptAudioStep, HeardStep DEF DictationInv

LEMMA PublishedIsHeard ==
  ASSUME DictationInv, NEW d \in Dictation, PublishDictation(d)
  PROVE  dictation[d].heard = voice.sha \/ dictation[d].overtaken
BY DEF PublishDictation, DictationInv, HeardUnlessOvertaken

(* However uploads, replacements, deletions and transcriptions interleave,   *)
(* the transcript that a worker publishes is of the recording the voice note *)
(* has, and so is the one of a request that waits for it, unless the audio   *)
(* was replaced or deleted while the request listened.                       *)
THEOREM TranscriptOfCurrentAudioHolds == VoiceSpec => TranscriptOfCurrentAudio
<1> DEFINE I == Typed /\ AudioInv /\ DictationInv
<1>1. VoiceInit => I
  BY TypedInit, AudioInvInit, DictationInvInit
<1>2. I /\ [VoiceNext]_voiceVars => I'
  BY TypedStep, AudioInvStep, DictationInvStep
<1>3. I /\ [VoiceNext]_voiceVars =>
        [/\ \A g \in Generation :
              results'[g] \notin {results[g], NoContent} => results'[g] = voice.sha
         /\ \A d \in Dictation :
              PublishDictation(d) => dictation[d].heard = voice.sha \/ dictation[d].overtaken]_voiceVars
  BY PublishedIsCurrent, PublishedIsHeard
<1> QED BY <1>1, <1>2, <1>3, PTL DEF VoiceSpec, TranscriptOfCurrentAudio

----------------------------------------------------------------------------
(* What is erased.  Every object in the store is named by the row, or some   *)
(* request will remove it, or some request left it behind (`leaked').        *)

Removes(u, k) ==
  \/ uploader[u].at = "mark" /\ k = First
  \/ uploader[u].at = "undo" /\ k = IF uploader[u].base = 0 THEN First ELSE uploader[u].content
  \/ uploader[u].at = "swap" /\ k = uploader[u].content
  \/ uploader[u].at = "old" /\ k = uploader[u].old

Accounted(k) ==
  objects[k] = NoContent \/ k = voice.key \/ \E u \in Uploader : Removes(u, k)

(* A request knows which kind of upload it is.                               *)
KindsKnown ==
  \A u \in Uploader :
    /\ uploader[u].at \in {"put", "mark"} => uploader[u].base = 0
    /\ uploader[u].at \in {"replace", "swap", "old"} =>
         /\ uploader[u].base # 0
         /\ uploader[u].old # uploader[u].content

(* While the row has the revision that a replacement read, it names the      *)
(* object the replacement will remove.  The row's audio stays uploaded, and  *)
(* under the first key never becomes the recording of a replacement.         *)
BasedOn ==
  \A u \in Uploader :
    uploader[u].at \in {"replace", "swap"} =>
      /\ uploader[u].base <= voice.revision
      /\ uploader[u].base = voice.revision => uploader[u].old = voice.key
      /\ ~BeingDeleted => voice.upload = "uploaded" /\ voice.audio = "uploaded"
      /\ ~BeingDeleted /\ voice.key = First => voice.sha # uploader[u].content

(* Cleanup is for audio that is being deleted; what a cleaner has removed    *)
(* does not come back, unless with a request that will find it deleted.      *)
CleanupOfDeleted ==
  /\ voice.audio = "deleted" => voice.key = NoKey
  /\ \A k \in Key : cleanup[k].state # "none" => BeingDeleted
  /\ \A c \in Cleaner : cleaner[c].at # "idle" => BeingDeleted

Removed ==
  \A c \in Cleaner :
    cleaner[c].at = "record" =>
      \/ objects[cleaner[c].key] = NoContent
      \/ \E u \in Uploader : Removes(u, cleaner[c].key)

EraseInv ==
  /\ KindsKnown /\ BasedOn /\ CleanupOfDeleted
  /\ ~leaked => Removed /\ \A k \in Key : Accounted(k)

LEMMA CappedRises ==
  ASSUME NEW max \in Nat \ {0}, NEW n \in 1 .. max
  PROVE  /\ Capped(n, max) \in 1 .. max /\ n <= Capped(n, max)
         /\ \A b \in Nat : b < max /\ b <= n => b < Capped(n, max)
  BY DEF Capped

LEMMA EraseInit == VoiceInit => EraseInv
<1> SUFFICES ASSUME VoiceInit PROVE EraseInv
  OBVIOUS
<1>1. /\ \A u \in Uploader : uploader[u].at = "idle"
      /\ \A c \in Cleaner : cleaner[c].at = "idle"
      /\ \A k \in Key : cleanup[k].state = "none" /\ objects[k] = NoContent
      /\ voice.audio = "absent"
  BY DEF VoiceInit, Idle, Away, NoCleanup
<1> QED BY <1>1 DEF EraseInv, KindsKnown, BasedOn, CleanupOfDeleted, Removed, Accounted

(* The step of one request: the others remove what they were to remove.      *)
LEMMA OthersRemove ==
  ASSUME Typed, NEW u \in Uploader, NEW row, uploader' = [uploader EXCEPT ![u] = row],
         NEW v \in Uploader, v # u
  PROVE  uploader'[v] = uploader[v] /\ \A k : Removes(v, k)' <=> Removes(v, k)
<1>1. uploader'[v] = uploader[v]
  BY DEF Typed, WorkersTyped
<1> QED BY <1>1 DEF Removes

(* An object is accounted for after the step of a request if the step keeps  *)
(* what accounted for it, or the object is new and the request accounts for  *)
(* it.                                                                       *)
LEMMA AccountedKept ==
  ASSUME Typed, NEW u \in Uploader, NEW row, uploader' = [uploader EXCEPT ![u] = row],
         NEW k \in Key, Accounted(k),
         \/ /\ objects'[k] = objects[k]
            /\ k = voice.key \/ Removes(u, k) => k = voice'.key \/ Removes(u, k)'
         \/ objects'[k] = NoContent
         \/ Removes(u, k)'
  PROVE  Accounted(k)'
<1>1. CASE objects'[k] = NoContent \/ Removes(u, k)'
  BY <1>1 DEF Accounted
<1>2. CASE /\ objects'[k] = objects[k]
           /\ k = voice.key \/ Removes(u, k) => k = voice'.key \/ Removes(u, k)'
  <2>1. CASE objects[k] = NoContent \/ k = voice.key \/ Removes(u, k)
    BY <1>2, <2>1 DEF Accounted
  <2>2. CASE \E v \in Uploader \ {u} : Removes(v, k)
    BY <2>2, OthersRemove DEF Accounted
  <2> QED BY <2>1, <2>2 DEF Accounted
<1> QED BY <1>1, <1>2

LEMMA RemovedKept ==
  ASSUME Typed, NEW u \in Uploader, NEW row, uploader' = [uploader EXCEPT ![u] = row],
         cleaner' = cleaner, Removed,
         \A k \in Key :
           \/ objects'[k] = objects[k] /\ (Removes(u, k) => Removes(u, k)')
           \/ objects'[k] = NoContent
           \/ Removes(u, k)'
  PROVE  Removed'
<1> SUFFICES ASSUME NEW c \in Cleaner, cleaner[c].at = "record"
             PROVE  \/ objects'[cleaner[c].key] = NoContent
                    \/ \E v \in Uploader : Removes(v, cleaner[c].key)'
  BY DEF Removed
<1> DEFINE k == cleaner[c].key
<1>1. k \in Key
  BY DEF Typed, WorkersTyped
<1>2. CASE objects'[k] = NoContent \/ Removes(u, k)'
  BY <1>2
<1>3. CASE objects'[k] = objects[k] /\ (Removes(u, k) => Removes(u, k)')
  <2>1. CASE objects[k] = NoContent \/ Removes(u, k)
    BY <1>3, <2>1
  <2>2. CASE \E v \in Uploader \ {u} : Removes(v, k)
    BY <2>2, OthersRemove
  <2> QED BY <2>1, <2>2 DEF Removed
<1> QED BY <1>1, <1>2, <1>3

(* While the audio is not being deleted no cleaner is at work. *)
LEMMA NothingRemoved ==
  ASSUME CleanupOfDeleted, ~BeingDeleted, cleaner' = cleaner
  PROVE  Removed'
  BY DEF CleanupOfDeleted, Removed

(* No request deletes audio. *)
LEMMA CleanupOfDeletedKept ==
  ASSUME CleanupOfDeleted, UNCHANGED <<cleanup, cleaner>>,
         \/ voice'.audio = voice.audio /\ voice'.key = voice.key
         \/ ~BeingDeleted /\ ~BeingDeleted'
  PROVE  CleanupOfDeleted'
<1>1. BeingDeleted' = BeingDeleted
  BY DEF BeingDeleted
<1> QED BY <1>1 DEF CleanupOfDeleted, BeingDeleted

(* What the other requests are based on remains, where the row changes as    *)
(* requests change it.                                                       *)
RowGoesOn ==
  \/ /\ voice'.revision = voice.revision /\ voice'.key = voice.key /\ voice'.sha = voice.sha
     /\ voice'.audio = voice.audio /\ (~BeingDeleted => voice'.upload = voice.upload)
  \/ ~BeingDeleted /\ voice.upload # "uploaded"
  \/ /\ voice'.revision = voice.revision + 1 /\ voice'.key \in Content
     /\ voice'.upload = "uploaded" /\ voice'.audio = "uploaded"
     /\ voice.upload = "uploaded" /\ voice.audio = "uploaded"

LEMMA BasedOnOne ==
  ASSUME Typed, BasedOn, RowGoesOn, NEW v \in Uploader,
         uploader[v].at \in {"replace", "swap"},
         uploader'[v].base = uploader[v].base, uploader'[v].old = uploader[v].old,
         uploader'[v].content = uploader[v].content
  PROVE  /\ uploader'[v].base <= voice'.revision
         /\ uploader'[v].base = voice'.revision => uploader'[v].old = voice'.key
         /\ ~BeingDeleted' => voice'.upload = "uploaded" /\ voice'.audio = "uploaded"
         /\ ~BeingDeleted' /\ voice'.key = First => voice'.sha # uploader'[v].content
<1>1. /\ uploader[v].base <= voice.revision
      /\ uploader[v].base = voice.revision => uploader[v].old = voice.key
      /\ ~BeingDeleted => voice.upload = "uploaded" /\ voice.audio = "uploaded"
      /\ ~BeingDeleted /\ voice.key = First => voice.sha # uploader[v].content
  BY DEF BasedOn
<1>2. voice.revision \in Nat /\ uploader[v].base \in Nat
  BY DEF Typed, VoiceRow, Revision, WorkersTyped, UploaderRow
<1>3. CASE /\ voice'.revision = voice.revision /\ voice'.key = voice.key /\ voice'.sha = voice.sha
           /\ voice'.audio = voice.audio /\ (~BeingDeleted => voice'.upload = voice.upload)
  BY <1>1, <1>3 DEF BeingDeleted
<1>4. CASE ~BeingDeleted /\ voice.upload # "uploaded"
  BY <1>1, <1>4
<1>5. CASE /\ voice'.revision = voice.revision + 1 /\ voice'.key \in Content
           /\ voice'.upload = "uploaded" /\ voice'.audio = "uploaded"
           /\ voice.upload = "uploaded" /\ voice.audio = "uploaded"
  BY <1>1, <1>2, <1>5, KeysDiffer
<1> QED BY <1>3, <1>4, <1>5 DEF RowGoesOn

LEMMA BasedOnKept ==
  ASSUME Typed, BasedOn, RowGoesOn, NEW u \in Uploader, NEW row,
         uploader' = [uploader EXCEPT ![u] = row],
         row.at \in {"replace", "swap"} =>
           /\ uploader[u].at \in {"replace", "swap"}
           /\ row.base = uploader[u].base /\ row.old = uploader[u].old
           /\ row.content = uploader[u].content
  PROVE  BasedOn'
<1> SUFFICES ASSUME NEW v \in Uploader, uploader'[v].at \in {"replace", "swap"}
             PROVE  /\ uploader'[v].base <= voice'.revision
                    /\ uploader'[v].base = voice'.revision => uploader'[v].old = voice'.key
                    /\ ~BeingDeleted' => voice'.upload = "uploaded" /\ voice'.audio = "uploaded"
                    /\ ~BeingDeleted' /\ voice'.key = First => voice'.sha # uploader'[v].content
  BY DEF BasedOn
<1>1. CASE v # u
  BY <1>1, OthersRemove, BasedOnOne
<1>2. CASE v = u
  <2>1. uploader'[u] = row
    BY DEF Typed, WorkersTyped
  <2> QED BY <1>2, <2>1, BasedOnOne
<1> QED BY <1>1, <1>2

LEMMA KindsKept ==
  ASSUME Typed, KindsKnown, NEW u \in Uploader, NEW row,
         uploader' = [uploader EXCEPT ![u] = row],
         row.at \in {"put", "mark"} => row.base = 0,
         row.at \in {"replace", "swap", "old"} => row.base # 0 /\ row.old # row.content
  PROVE  KindsKnown'
<1>1. uploader'[u] = row
  BY DEF Typed, WorkersTyped
<1>2. \A v \in Uploader \ {u} : uploader'[v] = uploader[v]
  BY OthersRemove
<1> QED BY <1>1, <1>2 DEF KindsKnown

(* The requests. *)
LEMMA EraseStarts ==
  ASSUME Typed, AudioInv, EraseInv, NEW u \in Uploader, NEW c \in Content,
         StartUpload(u, c) \/ StartReplacement(u, c)
  PROVE  EraseInv'
<1>1. /\ KindsKnown /\ BasedOn /\ CleanupOfDeleted /\ voice \in VoiceRow
      /\ ~BeingDeleted /\ NothingYet /\ ReplacedAudio
      /\ uploader[u].at = "idle" /\ \A k : ~Removes(u, k)
  BY DEF EraseInv, Typed, AudioInv, StartUpload, StartReplacement, Removes, BeingDeleted
<1>2. CASE StartUpload(u, c)
  <2> DEFINE row == [at |-> "put", content |-> c, base |-> 0, old |-> NoKey]
  <2>1. /\ voice.upload # "uploaded"
        /\ uploader' = [uploader EXCEPT ![u] = row] /\ objects' = objects /\ leaked' = leaked
        /\ UNCHANGED <<cleanup, cleaner>>
        /\ voice' = [voice EXCEPT !.key = First, !.sha = c, !.upload = "uploading",
                                  !.audio = "uploading", !.revision = voice.revision + 1]
    BY <1>2 DEF StartUpload
  <2>2. voice'.key = First /\ voice'.audio = "uploading"
    BY <1>1, <2>1 DEF VoiceRow
  <2>3. voice.key \in {First, NoKey}
    BY <1>1, <2>1 DEF ReplacedAudio, VoiceRow, Key
  <2>4. row.at = "put" /\ row.base = 0
    OBVIOUS
  <2> HIDE DEF row
  <2>5. KindsKnown'
    BY <1>1, <2>1, <2>4, KindsKept
  <2>6. BasedOn'
    BY <1>1, <2>1, <2>4, BasedOnKept DEF RowGoesOn
  <2>7. CleanupOfDeleted' /\ Removed'
    BY <1>1, <2>1, <2>2, CleanupOfDeletedKept, NothingRemoved DEF BeingDeleted
  <2>8. ASSUME NEW k \in Key, Accounted(k) PROVE Accounted(k)'
    <3>1. k = voice.key => k = voice'.key
      BY <2>2, <2>3, KeysDiffer DEF Key
    <3> QED BY <1>1, <2>1, <2>8, <3>1, AccountedKept
  <2> QED BY <2>1, <2>5, <2>6, <2>7, <2>8 DEF EraseInv
<1>3. CASE StartReplacement(u, c)
  <2> DEFINE row == [at |-> "replace", content |-> c, base |-> voice.revision, old |-> voice.key]
  <2>1. /\ voice.upload = "uploaded" /\ voice.audio = "uploaded" /\ voice.sha # c
        /\ uploader' = [uploader EXCEPT ![u] = row] /\ objects' = objects /\ leaked' = leaked
        /\ UNCHANGED <<voice, cleanup, cleaner>>
    BY <1>3 DEF StartReplacement, voiceRows
  <2>2. /\ row.at = "replace" /\ row.base = voice.revision /\ row.old = voice.key /\ row.content = c
        /\ voice.revision # 0 /\ voice.revision <= voice.revision
    BY <1>1 DEF VoiceRow, Revision
  <2>3. voice.key # c
    BY <1>1, <2>1 DEF ReplacedAudio
  <2> HIDE DEF row
  <2>4. KindsKnown'
    BY <1>1, <2>1, <2>2, <2>3, KindsKept
  <2>5. BasedOn'
    <3>1. uploader'[u] = row /\ \A v \in Uploader \ {u} : uploader'[v] = uploader[v]
      BY <2>1, OthersRemove DEF Typed, WorkersTyped
    <3>2. BeingDeleted' = BeingDeleted
      BY <2>1 DEF BeingDeleted
    <3> QED BY <1>1, <2>1, <2>2, <3>1, <3>2 DEF BasedOn
  <2>6. CleanupOfDeleted' /\ Removed'
    BY <1>1, <2>1, CleanupOfDeletedKept, NothingRemoved
  <2>7. ASSUME NEW k \in Key, Accounted(k) PROVE Accounted(k)'
    BY <1>1, <2>1, <2>7, AccountedKept
  <2> QED BY <2>1, <2>4, <2>5, <2>6, <2>7 DEF EraseInv
<1> QED BY <1>2, <1>3

LEMMA ErasePuts ==
  ASSUME Typed, AudioInv, EraseInv, NEW u \in Uploader, PutUpload(u) \/ PutReplacement(u)
  PROVE  EraseInv'
<1> DEFINE step == IF uploader[u].at = "put" THEN "mark" ELSE "swap"
           row  == [uploader[u] EXCEPT !.at = step]
           put  == IF uploader[u].at = "put" THEN First ELSE uploader[u].content
<1>1. /\ KindsKnown /\ BasedOn /\ CleanupOfDeleted /\ objects \in [Key -> Content \cup {NoContent}]
      /\ uploader[u] \in UploaderRow /\ uploader \in [Uploader -> UploaderRow]
  BY DEF EraseInv, Typed, WorkersTyped
<1>2. /\ uploader' = [uploader EXCEPT ![u] = row] /\ leaked' = leaked
      /\ objects' = [objects EXCEPT ![put] = uploader[u].content]
      /\ UNCHANGED <<voice, cleanup, cleaner>>
      /\ \/ uploader[u].at = "put" /\ step = "mark" /\ put = First
         \/ uploader[u].at = "replace" /\ step = "swap" /\ put = uploader[u].content
  BY DEF PutUpload, PutReplacement, UploaderAt, Put, voiceRows
<1>3. /\ row.at = step /\ row.base = uploader[u].base /\ row.old = uploader[u].old
      /\ row.content = uploader[u].content
  BY <1>1 DEF UploaderRow
<1> HIDE DEF step, row, put
<1>4. uploader'[u] = row
  BY <1>1, <1>2
<1>5. \A k : ~Removes(u, k) /\ (k = put => Removes(u, k)')
  BY <1>2, <1>3, <1>4 DEF Removes
<1>6. \A k \in Key : objects'[k] = objects[k] \/ k = put
  BY <1>1, <1>2
<1>7. KindsKnown'
  BY <1>1, <1>2, <1>3, KindsKept DEF KindsKnown
<1>8. BasedOn'
  BY <1>1, <1>2, <1>3, BasedOnKept DEF RowGoesOn
<1>9. CleanupOfDeleted'
  BY <1>1, <1>2, CleanupOfDeletedKept
<1>10. Removed => Removed'
  BY <1>2, <1>5, <1>6, RemovedKept
<1>11. ASSUME NEW k \in Key, Accounted(k) PROVE Accounted(k)'
  <2>1. CASE k = put
    BY <1>2, <1>5, <1>11, <2>1, AccountedKept
  <2>2. CASE k # put
    BY <1>2, <1>5, <1>6, <1>11, <2>2, AccountedKept
  <2> QED BY <2>1, <2>2
<1> QED BY <1>2, <1>7, <1>8, <1>9, <1>10, <1>11 DEF EraseInv

(* A request that ends: it removes its object, or leaves it to the row, or   *)
(* is recorded as having leaked it.                                          *)
LEMMA EraseEnds ==
  ASSUME Typed, AudioInv, EraseInv, NEW u \in Uploader,
         UndoUpload(u) \/ RemoveReplaced(u) \/ FailUpload(u) \/ AbandonUpload(u)
  PROVE  EraseInv'
<1>1. /\ KindsKnown /\ BasedOn /\ CleanupOfDeleted /\ objects \in [Key -> Content \cup {NoContent}]
      /\ uploader \in [Uploader -> UploaderRow] /\ voice \in VoiceRow
  BY DEF EraseInv, Typed, WorkersTyped
<1>2. uploader' = [uploader EXCEPT ![u] = Idle] /\ UNCHANGED <<cleanup, cleaner>>
  BY DEF UndoUpload, RemoveReplaced, FailUpload, AbandonUpload, UploaderDone, voiceRows
<1>3. Idle.at = "idle"
  BY DEF Idle
<1> HIDE DEF Idle
<1>4. RowGoesOn /\ voice'.audio = voice.audio /\ voice'.key = voice.key
  <2>1. CASE voice' = voice
    BY <2>1 DEF RowGoesOn
  <2>2. CASE voice.upload # "uploaded" /\ voice' = [voice EXCEPT !.upload = "failed"]
    BY <1>1, <2>2 DEF RowGoesOn, VoiceRow
  <2> QED BY <2>1, <2>2 DEF UndoUpload, RemoveReplaced, FailUpload, AbandonUpload, voiceRows
<1>5. KindsKnown'
  BY <1>1, <1>2, <1>3, KindsKept
<1>6. BasedOn'
  BY <1>1, <1>2, <1>3, <1>4, BasedOnKept
<1>7. CleanupOfDeleted'
  BY <1>1, <1>2, <1>4, CleanupOfDeletedKept
<1>8. CASE AbandonUpload(u)
  BY <1>5, <1>6, <1>7, <1>8 DEF EraseInv, AbandonUpload
<1>9. CASE UndoUpload(u) \/ RemoveReplaced(u) \/ FailUpload(u)
  <2>1. leaked' = leaked
    BY <1>9 DEF UndoUpload, RemoveReplaced, FailUpload
  <2>2. \A k \in Key : \/ objects'[k] = NoContent
                       \/ objects'[k] = objects[k] /\ ~Removes(u, k)
    <3>1. CASE UndoUpload(u)
      BY <1>1, <3>1 DEF UndoUpload, Remove, Removes
    <3>2. CASE RemoveReplaced(u)
      <4>1. uploader[u].old # uploader[u].content
        BY <1>1, <3>2 DEF RemoveReplaced, KindsKnown
      <4> QED BY <1>1, <3>2, <4>1 DEF RemoveReplaced, Remove, Removes
    <3>3. CASE FailUpload(u)
      BY <3>3 DEF FailUpload, Removes
    <3> QED BY <1>9, <3>1, <3>2, <3>3
  <2>3. Removed => Removed'
    BY <1>2, <2>2, RemovedKept
  <2>4. ASSUME NEW k \in Key, Accounted(k) PROVE Accounted(k)'
    <3>1. objects'[k] = NoContent \/ (objects'[k] = objects[k] /\ ~Removes(u, k))
      BY <2>2
    <3> QED BY <1>2, <1>4, <2>4, <3>1, AccountedKept
  <2> QED BY <1>5, <1>6, <1>7, <2>1, <2>3, <2>4 DEF EraseInv
<1> QED BY <1>8, <1>9

LEMMA EraseMarks ==
  ASSUME Typed, AudioInv, EraseInv, NEW u \in Uploader, MarkUpload(u)
  PROVE  EraseInv'
<1>1. /\ KindsKnown /\ BasedOn /\ CleanupOfDeleted /\ voice \in VoiceRow
      /\ uploader[u] \in UploaderRow /\ uploader \in [Uploader -> UploaderRow]
      /\ uploader[u].at = "mark" /\ uploader[u].content \in Content /\ uploader[u].base = 0
      /\ objects' = objects /\ UNCHANGED <<cleanup, cleaner>>
  BY DEF EraseInv, Typed, WorkersTyped, MarkUpload, KindsKnown
<1>2. \A k : Removes(u, k) <=> k = First
  BY <1>1 DEF Removes
<1>3. CASE ~(voice.gone \/ BeingDeleted) /\ uploader' = [uploader EXCEPT ![u] = Idle]
  <2>1. Idle.at = "idle"
    BY DEF Idle
  <2> HIDE DEF Idle
  <2>2. RowGoesOn /\ ~BeingDeleted'
    <3>1. CASE voice' = voice
      BY <1>3, <3>1 DEF RowGoesOn, BeingDeleted
    <3>2. CASE /\ voice.upload # "uploaded"
               /\ voice' = [voice EXCEPT !.upload = "uploaded", !.audio = "uploaded",
                                         !.revision = Capped(voice.revision, MaxAudioRevision)]
      BY <1>1, <1>3, <3>2 DEF RowGoesOn, VoiceRow, BeingDeleted
    <3> QED BY <3>1, <3>2 DEF MarkUpload
  <2>3. voice'.key = voice.key
    BY <1>1 DEF MarkUpload, VoiceRow
  <2>4. ~leaked' => ~leaked /\ voice.key = First
    <3>1. CASE /\ voice.sha = uploader[u].content /\ ~voice.gone
               /\ voice.upload # "uploaded" /\ ~BeingDeleted
      <4>1. voice.key # NoKey /\ voice.key \notin Content
        BY <1>1, <3>1, VoiceAssumption DEF AudioInv, NothingYet, ReplacedAudio
      <4> QED BY <1>1, <3>1, <4>1 DEF MarkUpload, VoiceRow, Key
    <3>2. CASE ~(/\ voice.sha = uploader[u].content /\ ~voice.gone
                 /\ voice.upload # "uploaded" /\ ~BeingDeleted)
      BY <1>3, <3>2 DEF MarkUpload
    <3> QED BY <3>1, <3>2
  <2>5. KindsKnown'
    BY <1>1, <1>3, <2>1, KindsKept
  <2>6. BasedOn'
    BY <1>1, <1>3, <2>1, <2>2, BasedOnKept
  <2>7. CleanupOfDeleted' /\ Removed'
    BY <1>1, <1>3, <2>2, CleanupOfDeletedKept, NothingRemoved
  <2>8. ASSUME ~leaked', NEW k \in Key, Accounted(k) PROVE Accounted(k)'
    BY <1>1, <1>2, <1>3, <2>3, <2>4, <2>8, AccountedKept
  <2> QED BY <2>4, <2>5, <2>6, <2>7, <2>8 DEF EraseInv
<1>4. CASE /\ voice.gone \/ BeingDeleted
           /\ UploaderAt(u, "undo") /\ UNCHANGED <<voice, leaked>>
  <2> DEFINE row == [uploader[u] EXCEPT !.at = "undo"]
  <2>1. row.at = "undo" /\ row.base = 0 /\ uploader' = [uploader EXCEPT ![u] = row]
    BY <1>1, <1>4 DEF UploaderAt, UploaderRow
  <2> HIDE DEF row
  <2>2. \A k : Removes(u, k)' <=> k = First
    BY <1>1, <2>1 DEF Removes
  <2>3. KindsKnown'
    BY <1>1, <2>1, KindsKept
  <2>4. BasedOn'
    BY <1>1, <1>4, <2>1, BasedOnKept DEF RowGoesOn
  <2>5. CleanupOfDeleted'
    BY <1>1, <1>4, CleanupOfDeletedKept
  <2>6. Removed => Removed'
    BY <1>1, <1>2, <2>1, <2>2, RemovedKept
  <2>7. ASSUME NEW k \in Key, Accounted(k) PROVE Accounted(k)'
    BY <1>1, <1>2, <1>4, <2>1, <2>2, <2>7, AccountedKept
  <2> QED BY <1>4, <2>3, <2>4, <2>5, <2>6, <2>7 DEF EraseInv
<1> QED BY <1>3, <1>4 DEF MarkUpload, UploaderDone

LEMMA EraseSwaps ==
  ASSUME Typed, AudioInv, EraseInv, NEW u \in Uploader, SwapReplacement(u)
  PROVE  EraseInv'
<1> DEFINE next == uploader'[u].at
           row  == [uploader[u] EXCEPT !.at = next]
           won  == /\ ~voice.gone /\ voice.upload = "uploaded" /\ voice.audio = "uploaded"
                   /\ voice.revision = uploader[u].base
           same == /\ ~voice.gone /\ ~BeingDeleted /\ voice.upload = "uploaded"
                   /\ voice.sha = uploader[u].content
<1>1. /\ KindsKnown /\ BasedOn /\ CleanupOfDeleted /\ voice \in VoiceRow
      /\ uploader[u] \in UploaderRow /\ uploader \in [Uploader -> UploaderRow]
      /\ uploader[u].at = "swap" /\ uploader[u].content \in Content /\ uploader[u].base # 0
      /\ uploader[u].old # uploader[u].content
      /\ objects' = objects /\ leaked' = leaked /\ UNCHANGED <<cleanup, cleaner>>
  BY DEF EraseInv, Typed, WorkersTyped, SwapReplacement, KindsKnown
<1>2. /\ uploader' = [uploader EXCEPT ![u] = row] /\ next \in {"old", "undo"}
      /\ next = "old" <=> won \/ same
      /\ won => voice' = [voice EXCEPT !.key = uploader[u].content, !.sha = uploader[u].content,
                                       !.revision = voice.revision + 1]
      /\ ~won => voice' = voice
  BY <1>1 DEF SwapReplacement, UploaderAt, UploaderRow
<1>3. /\ row.at = next /\ row.base = uploader[u].base /\ row.old = uploader[u].old
      /\ row.content = uploader[u].content /\ uploader'[u] = row
  BY <1>1, <1>2 DEF UploaderRow
<1> HIDE DEF row, next
<1>4. \A k : Removes(u, k) <=> k = uploader[u].content
  BY <1>1 DEF Removes
<1>5. \A k : Removes(u, k)' <=> k = IF next = "old" THEN uploader[u].old ELSE uploader[u].content
  BY <1>1, <1>2, <1>3 DEF Removes
<1>6. won => /\ voice'.key = uploader[u].content /\ voice'.upload = "uploaded"
             /\ voice'.audio = "uploaded" /\ voice'.revision = voice.revision + 1
  BY <1>1, <1>2 DEF VoiceRow
<1>7. KindsKnown'
  BY <1>1, <1>2, <1>3, KindsKept
<1>8. BasedOn'
  <2>1. RowGoesOn
    BY <1>1, <1>2, <1>6 DEF RowGoesOn
  <2> QED BY <1>1, <1>2, <1>3, <2>1, BasedOnKept
<1>9. CleanupOfDeleted'
  BY <1>1, <1>2, <1>6, CleanupOfDeletedKept DEF BeingDeleted
<1>10. Removed => Removed'
  <2>1. CASE BeingDeleted
    <3>1. next = "undo"
      BY <1>2, <2>1 DEF BeingDeleted
    <3> QED BY <1>1, <1>2, <1>4, <1>5, <3>1, RemovedKept
  <2>2. CASE ~BeingDeleted
    BY <1>1, <2>2, NothingRemoved
  <2> QED BY <2>1, <2>2
<1>11. ASSUME NEW k \in Key, Accounted(k) PROVE Accounted(k)'
  <2>1. CASE won
    <3>1. uploader[u].old = voice.key
      BY <1>1, <2>1 DEF BasedOn
    <3> QED BY <1>1, <1>2, <1>4, <1>5, <1>6, <1>11, <2>1, <3>1, AccountedKept
  <2>2. CASE ~won /\ same
    <3>1. voice.key = uploader[u].content
      <4>1. voice.key # First
        BY <1>1, <2>2 DEF BasedOn
      <4>2. voice.key # NoKey
        BY <1>1, <2>2, VoiceAssumption DEF AudioInv, NothingYet
      <4> QED BY <1>1, <2>2, <4>1, <4>2 DEF AudioInv, ReplacedAudio, VoiceRow, Key
    <3> QED BY <1>1, <1>2, <1>4, <1>11, <2>2, <3>1, AccountedKept
  <2>3. CASE ~won /\ ~same
    <3>1. next = "undo"
      BY <1>2, <2>3
    <3> QED BY <1>1, <1>2, <1>4, <1>5, <1>11, <2>3, <3>1, AccountedKept
  <2> QED BY <2>1, <2>2, <2>3
<1> QED BY <1>1, <1>7, <1>8, <1>9, <1>10, <1>11 DEF EraseInv

(* The users: what is deleted is named by the row until it is cleaned up.    *)
LEMMA EraseDeletions ==
  ASSUME Typed, EraseInv, DeleteAudio \/ DeleteVoiceNote
  PROVE  EraseInv'
<1>1. /\ KindsKnown /\ BasedOn /\ CleanupOfDeleted /\ voice \in VoiceRow
      /\ UNCHANGED <<objects, uploader, cleaner, leaked>>
      /\ cleanup' = Enqueued /\ cleanup \in [Key -> CleanupRow]
  BY DEF EraseInv, Typed, DeleteAudio, DeleteVoiceNote, voiceWorkers
<1>2. /\ voice'.key = voice.key
      /\ voice'.audio = IF voice.key = NoKey THEN "deleted" ELSE "delete_requested"
      /\ voice'.revision = Capped(voice.revision, MaxAudioRevision)
  <2> DEFINE row == AudioDeleted(voice)
  <2>1. /\ row \in VoiceRow /\ row.key = voice.key
        /\ row.audio = IF voice.key = NoKey THEN "deleted" ELSE "delete_requested"
        /\ row.revision = Capped(voice.revision, MaxAudioRevision)
    BY <1>1, AudioDeletedType DEF AudioDeleted, VoiceRow
  <2>2. voice' = row \/ voice' = [row EXCEPT !.gone = TRUE]
    BY DEF DeleteAudio, DeleteVoiceNote
  <2> HIDE DEF row
  <2> QED BY <2>1, <2>2 DEF VoiceRow
<1>3. BeingDeleted'
  BY <1>2 DEF BeingDeleted
<1>4. KindsKnown'
  BY <1>1 DEF KindsKnown
<1>5. BasedOn'
  <2>1. voice.revision \in 1 .. MaxAudioRevision /\ MaxAudioRevision \in Nat \ {0}
    BY <1>1, VoiceAssumption DEF VoiceRow, Revision
  <2>2. \A v \in Uploader : uploader[v].base \in Nat
    BY DEF Typed, WorkersTyped, UploaderRow
  <2>3. voice.revision <= voice'.revision /\ voice'.revision \in Nat
    BY <1>2, <2>1, CappedRises
  <2> QED BY <1>1, <1>2, <1>3, <2>1, <2>2, <2>3 DEF BasedOn
<1>6. CleanupOfDeleted'
  BY <1>1, <1>2, <1>3 DEF CleanupOfDeleted
<1>7. Removed => Removed'
  BY <1>1 DEF Removed, Removes
<1>8. ASSUME NEW k \in Key, Accounted(k) PROVE Accounted(k)'
  BY <1>1, <1>2, <1>8 DEF Accounted, Removes
<1> QED BY <1>1, <1>4, <1>5, <1>6, <1>7, <1>8 DEF EraseInv

(* The cleaners: an object is out of the store before it is recorded so.     *)
LEMMA EraseCleans ==
  ASSUME Typed, EraseInv, NEW c \in Cleaner,
         CleanerStep(c) \/ FailCleanup(c) \/ AbandonCleanup(c)
  PROVE  EraseInv'
<1>1. /\ KindsKnown /\ BasedOn /\ CleanupOfDeleted /\ voice \in VoiceRow
      /\ objects \in [Key -> Content \cup {NoContent}] /\ cleanup \in [Key -> CleanupRow]
      /\ cleaner \in [Cleaner -> CleanerRow] /\ (cleaner[c].at # "idle" => cleaner[c].key \in Key)
      /\ UNCHANGED <<uploader, leaked>>
  BY DEF EraseInv, Typed, WorkersTyped, CleanerStep, ClaimCleanup, RemoveAudio, CompleteCleanup,
         LoseCleanup, FailCleanup, AbandonCleanup, voiceRows
<1>2. \A v \in Uploader : \A k : Removes(v, k)' <=> Removes(v, k)
  BY <1>1 DEF Removes
<1>3. KindsKnown'
  BY <1>1 DEF KindsKnown
<1>4. CASE ClaimCleanup(c) \/ LoseCleanup(c) \/ FailCleanup(c) \/ AbandonCleanup(c)
  <2>1. voice' = voice /\ objects' = objects
    BY <1>4 DEF ClaimCleanup, LoseCleanup, FailCleanup, AbandonCleanup, voiceRows
  <2>2. cleaner'[c].at # "record" /\ \A d \in Cleaner \ {c} : cleaner'[d] = cleaner[d]
    BY <1>1, <1>4 DEF ClaimCleanup, LoseCleanup, FailCleanup, AbandonCleanup, CleanerAway, Away
  <2>3. \A k \in Key : cleanup'[k].state # "none" => cleanup[k].state # "none" \/ BeingDeleted
    <3>1. CASE ClaimCleanup(c)
      BY <1>1, <3>1 DEF ClaimCleanup
    <3>2. CASE FailCleanup(c)
      BY <1>1, <3>2 DEF FailCleanup, CleanupOfDeleted
    <3>3. CASE LoseCleanup(c) \/ AbandonCleanup(c)
      BY <3>3 DEF LoseCleanup, AbandonCleanup, voiceRows
    <3> QED BY <1>4, <3>1, <3>2, <3>3
  <2>4. cleaner'[c].at # "idle" => BeingDeleted
    <3>1. CASE ClaimCleanup(c)
      BY <1>1, <3>1 DEF ClaimCleanup, CleanupOfDeleted
    <3>2. CASE LoseCleanup(c) \/ AbandonCleanup(c) \/ FailCleanup(c)
      BY <1>1, <3>2 DEF LoseCleanup, AbandonCleanup, FailCleanup, CleanerAway, Away
    <3> QED BY <1>4, <3>1, <3>2
  <2>5. BeingDeleted' = BeingDeleted
    BY <2>1 DEF BeingDeleted
  <2>6. CleanupOfDeleted'
    BY <1>1, <2>1, <2>2, <2>3, <2>4, <2>5 DEF CleanupOfDeleted
  <2>7. BasedOn'
    BY <1>1, <2>1, <2>5 DEF BasedOn
  <2>8. Removed => Removed'
    BY <1>2, <2>1, <2>2 DEF Removed
  <2>9. ASSUME NEW k \in Key, Accounted(k) PROVE Accounted(k)'
    BY <1>2, <2>1, <2>9 DEF Accounted
  <2> QED BY <1>1, <1>3, <2>6, <2>7, <2>8, <2>9 DEF EraseInv
<1>5. CASE RemoveAudio(c)
  <2> DEFINE row == [at |-> "record", key |-> cleaner[c].key]
  <2>1. /\ cleaner[c].at = "remove" /\ cleaner' = [cleaner EXCEPT ![c] = row]
        /\ objects' = [objects EXCEPT ![cleaner[c].key] = NoContent]
        /\ voice' = voice /\ cleanup' = cleanup
    BY <1>5 DEF RemoveAudio, Remove, voiceRows
  <2>2. cleaner'[c].key = cleaner[c].key /\ \A d \in Cleaner \ {c} : cleaner'[d] = cleaner[d]
    BY <1>1, <2>1
  <2>3. \A k \in Key : objects'[k] \in {objects[k], NoContent}
    BY <1>1, <2>1
  <2>4. objects'[cleaner[c].key] = NoContent
    BY <1>1, <2>1
  <2>5. BeingDeleted' = BeingDeleted
    BY <2>1 DEF BeingDeleted
  <2>6. CleanupOfDeleted'
    BY <1>1, <2>1, <2>2, <2>5 DEF CleanupOfDeleted
  <2>7. BasedOn'
    BY <1>1, <2>1, <2>5 DEF BasedOn
  <2>8. Removed => Removed'
    <3>1. \A d \in Cleaner : cleaner[d].at = "record" => cleaner[d].key \in Key
      BY DEF Typed, WorkersTyped
    <3> QED BY <1>2, <2>2, <2>3, <2>4, <3>1 DEF Removed
  <2>9. ASSUME NEW k \in Key, Accounted(k) PROVE Accounted(k)'
    BY <1>2, <2>1, <2>3, <2>9 DEF Accounted
  <2> QED BY <1>1, <1>3, <2>6, <2>7, <2>8, <2>9 DEF EraseInv
<1>6. CASE CompleteCleanup(c)
  <2>1. /\ cleaner[c].at = "record" /\ voice.audio = "delete_requested"
        /\ voice.key = cleaner[c].key /\ objects' = objects
        /\ cleaner' = [cleaner EXCEPT ![c] = Away]
        /\ voice' = [voice EXCEPT !.audio = "deleted", !.upload = "failed", !.key = NoKey,
             !.sha = NoContent, !.revision = Capped(voice.revision, MaxAudioRevision)]
    BY <1>6 DEF CompleteCleanup, CleanerAway
  <2>2. /\ voice'.audio = "deleted" /\ voice'.key = NoKey
        /\ voice'.revision = Capped(voice.revision, MaxAudioRevision)
    BY <1>1, <2>1 DEF VoiceRow
  <2>3. BeingDeleted /\ BeingDeleted'
    BY <2>1, <2>2 DEF BeingDeleted
  <2>4. CleanupOfDeleted'
    BY <2>2, <2>3 DEF CleanupOfDeleted
  <2>5. BasedOn'
    <3>1. voice.revision \in 1 .. MaxAudioRevision /\ MaxAudioRevision \in Nat \ {0}
      BY <1>1, VoiceAssumption DEF VoiceRow, Revision
    <3>2. \A v \in Uploader : uploader[v].at \in {"replace", "swap"} =>
            uploader[v].base \in Nat /\ uploader[v].base < MaxAudioRevision
      BY DEF Typed, WorkersTyped, UploaderRow
    <3>3. \A v \in Uploader : uploader[v].at \in {"replace", "swap"} =>
            uploader[v].base < voice'.revision
      BY <1>1, <2>2, <3>1, <3>2, CappedRises DEF BasedOn
    <3>4. voice'.revision \in Nat
      BY <2>2, <3>1, CappedRises
    <3> QED BY <1>1, <2>3, <3>2, <3>3, <3>4 DEF BasedOn
  <2>6. Removed => Removed'
    <3>1. cleaner'[c].at = "idle" /\ \A d \in Cleaner \ {c} : cleaner'[d] = cleaner[d]
      BY <1>1, <2>1 DEF Away
    <3> QED BY <1>2, <2>1, <3>1 DEF Removed
  <2>7. ASSUME Removed, NEW k \in Key, Accounted(k) PROVE Accounted(k)'
    BY <1>2, <2>1, <2>7 DEF Accounted, Removed
  <2> QED BY <1>1, <1>3, <2>4, <2>5, <2>6, <2>7 DEF EraseInv
<1> QED BY <1>4, <1>5, <1>6 DEF CleanerStep

LEMMA EraseStep == Typed /\ AudioInv /\ EraseInv /\ [VoiceNext]_voiceVars => EraseInv'
<1> SUFFICES ASSUME Typed, AudioInv, EraseInv, [VoiceNext]_voiceVars PROVE EraseInv'
  OBVIOUS
<1>1. ASSUME UNCHANGED <<voice, objects, cleanup, uploader, cleaner, leaked>> PROVE EraseInv'
  BY <1>1 DEF EraseInv, KindsKnown, BasedOn, BeingDeleted, CleanupOfDeleted, Removed, Accounted, Removes
<1>2. ASSUME NEW u \in Uploader,
             \/ UploadStep(u) \/ FailUpload(u) \/ AbandonUpload(u)
             \/ \E c \in Content : StartUpload(u, c) \/ StartReplacement(u, c)
      PROVE  EraseInv'
  BY <1>2, EraseStarts, ErasePuts, EraseEnds, EraseMarks, EraseSwaps DEF UploadStep
<1>3. ASSUME NEW t \in Transcriber, TranscriberStep(t) \/ AbandonJob(t) PROVE EraseInv'
  BY <1>1, <1>3 DEF TranscriberStep, ClaimJob, OpenAudio, CompleteJob, FailJob, GiveUpJob,
                    AbandonJob, voiceRows
<1>4. CASE RequestTranscript \/ EditNote \/ DeleteNoteFromDevice
  BY <1>1, <1>4 DEF RequestTranscript, EditNote, DeleteNoteFromDevice, voiceWorkers
<1>5. CASE DeleteAudio \/ DeleteVoiceNote
  BY <1>5, EraseDeletions
<1>6. ASSUME NEW c \in Cleaner, CleanerStep(c) \/ FailCleanup(c) \/ AbandonCleanup(c)
      PROVE  EraseInv'
  BY <1>6, EraseCleans
<1>7. CASE JobLeaseLapses \/ UNCHANGED voiceVars
  BY <1>1, <1>7 DEF JobLeaseLapses, voiceVars, voiceRows, voiceWorkers
<1>8. ASSUME NEW k \in Key, CleanupLeaseLapses(k) PROVE EraseInv'
  <2>1. /\ UNCHANGED <<voice, objects, uploader, cleaner, leaked>>
        /\ \A l \in Key : cleanup'[l].state = cleanup[l].state
    BY <1>8 DEF CleanupLeaseLapses, voiceWorkers, Typed, CleanupRow
  <2> QED BY <2>1 DEF EraseInv, KindsKnown, BasedOn, BeingDeleted, CleanupOfDeleted, Removed,
                      Accounted, Removes
<1>9. ASSUME NEW d \in Dictation, OpenDictation(d) \/ PublishDictation(d) \/ EndDictation(d)
      PROVE  EraseInv'
  BY <1>1, <1>9 DEF OpenDictation, PublishDictation, EndDictation, voiceRows, voiceWorkers
<1> QED BY <1>2, <1>3, <1>4, <1>5, <1>6, <1>7, <1>8, <1>9 DEF VoiceNext, VoiceUser, VoiceTrouble

LEMMA NothingLeft == EraseInv => ErasedForGood
<1> SUFFICES ASSUME EraseInv, voice.audio = "deleted", ~leaked,
                    \A u \in Uploader : uploader[u].at = "idle", NEW k \in Key
             PROVE  objects[k] = NoContent
  BY DEF ErasedForGood
<1>1. voice.key = NoKey /\ k # NoKey
  BY KeysDiffer DEF EraseInv, CleanupOfDeleted, Key
<1> QED BY <1>1 DEF EraseInv, Accounted, Removes

(* Audio recorded as deleted is out of the object store once no request is   *)
(* under way, unless one died or came late (`leaked').                       *)
THEOREM DeletedAudioIsErased == VoiceSpec => []ErasedForGood
<1> DEFINE I == Typed /\ AudioInv /\ EraseInv
<1>1. VoiceInit => I
  BY TypedInit, AudioInvInit, EraseInit
<1>2. I /\ [VoiceNext]_voiceVars => I'
  BY TypedStep, AudioInvStep, EraseStep
<1>3. I => ErasedForGood
  BY NothingLeft
<1> QED BY <1>1, <1>2, <1>3, PTL DEF VoiceSpec

(* The invariants of the voice notes in one.                                 *)
VoiceInv == Typed /\ AudioInv /\ DictationInv /\ EraseInv /\ GoneIsSilent

LEMMA VoiceStarts == VoiceInit => VoiceInv
<1>1. VoiceInit => GoneIsSilent
  BY DEF VoiceInit, GoneIsSilent
<1> QED BY <1>1, TypedInit, AudioInvInit, DictationInvInit, EraseInit DEF VoiceInv

LEMMA VoiceInvInductive == VoiceInv /\ [VoiceNext]_voiceVars => VoiceInv'
BY TypedStep, AudioInvStep, DictationInvStep, EraseStep, SilentStep DEF VoiceInv
=============================================================================
