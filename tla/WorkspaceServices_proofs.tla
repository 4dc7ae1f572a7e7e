---------------------- MODULE WorkspaceServices_proofs ----------------------
(***************************************************************************)
(* The five services in one workspace: each step of the whole is a step of *)
(* one of them and leaves the others alone, so that what is proved of each *)
(* by itself holds of all of them together.                                *)
(***************************************************************************)
EXTENDS MCWorkspaceServices, LeasedJobs_proofs, MobileSync_proofs, NotionSync_proofs,
        RuntimeEpoch_proofs

LEMMA ServicesStart ==
  ServicesInit => ImportInit /\ VoiceInit /\ SyncInit /\ NotionInit /\ RuntimeInit
BY DEF ServicesInit

(* A step of the workspace is, for every service, a step or a stutter.      *)
LEMMA ServicesStep ==
  [ServicesNext]_servicesVars =>
    /\ [ImportNext]_importVars /\ [VoiceNext]_voiceVars /\ [SyncNext]_syncVars
    /\ [NotionNext]_notionVars /\ [RuntimeNext]_runtimeVars
BY DEF ServicesNext, servicesVars

ServicesInv == ImportInv /\ VoiceInv /\ SyncInv /\ NotionInv /\ RuntimeInv

LEMMA ServicesInvInit == ServicesInit => ServicesInv
BY ServicesStart, ImportStarts, VoiceStarts, SyncInit_SyncInv, InvInductive, RuntimeStarts
   DEF ServicesInv

LEMMA ServicesInvStep == ServicesInv /\ [ServicesNext]_servicesVars => ServicesInv'
BY ServicesStep, ImportInvInductive, VoiceInvInductive, SyncInv_Next, InvInductive,
   RuntimeInvInductive
   DEF ServicesInv

LEMMA ServicesInvariant == ServicesSpec => []ServicesInv
BY ServicesInvInit, ServicesInvStep, PTL DEF ServicesSpec

(* No service of the workspace ever takes a variable of any of them out of  *)
(* its type.                                                                *)
THEOREM ServicesStayTyped == ServicesSpec => []ServicesTypeOK
<1>1. ServicesInv => ServicesTypeOK
  <2> SUFFICES ASSUME ServicesInv PROVE ServicesTypeOK
    OBVIOUS
  <2>1. ImportTypeOK
    BY DEF ServicesInv, ImportInv
  <2>2. VoiceTypeOK
    BY TypedIsTypeOK DEF ServicesInv, VoiceInv, DictationInv
  <2>3. SyncTypeOK
    BY BoundedTypes DEF ServicesInv
  <2>4. NotionTypeOK
    BY NotionRowsTyped DEF ServicesInv
  <2>5. RuntimeTypeOK
    BY DEF ServicesInv, RuntimeInv
  <2> QED BY <2>1, <2>2, <2>3, <2>4, <2>5 DEF ServicesTypeOK
<1> QED BY <1>1, ServicesInvariant, PTL

(* What each service promises of its state holds in the workspace: one note *)
(* for each import, nothing left of a deleted voice note, true answers for  *)
(* the phone, a copy that misses nothing, a note that does not come back to *)
(* a page it left, and epochs that are in step.                             *)
THEOREM ServicesAreSafe ==
  ServicesSpec => [](/\ OneNote
                     /\ GoneIsSilent /\ ErasedForGood
                     /\ AnswersHold /\ DependentsFollow /\ NothingMissed /\ NoResurrection
                     /\ LeftForGood
                     /\ EpochsInStep /\ V2IsCurrent)
<1> DEFINE Safe ==
      /\ OneNote
      /\ GoneIsSilent /\ ErasedForGood
      /\ AnswersHold /\ DependentsFollow /\ NothingMissed /\ NoResurrection
      /\ LeftForGood
      /\ EpochsInStep /\ V2IsCurrent
<1>1. ServicesInv => Safe
  <2> SUFFICES ASSUME ServicesInv PROVE Safe
    OBVIOUS
  <2>1. OneNote
    BY DEF ServicesInv, ImportInv
  <2>2. GoneIsSilent /\ ErasedForGood
    BY NothingLeft DEF ServicesInv, VoiceInv
  <2>3. AnswersHold /\ DependentsFollow
    BY AnswersTrue, DependentsLater DEF ServicesInv
  <2>4. NothingMissed /\ NoResurrection
    BY NothingIsMissed, BuriedForGood DEF ServicesInv
  <2>5. LeftForGood
    BY LeftStaysLeft DEF ServicesInv
  <2>6. EpochsInStep /\ V2IsCurrent
    BY EpochsByInv, CurrentByInv DEF ServicesInv
  <2> QED BY <2>1, <2>2, <2>3, <2>4, <2>5, <2>6
<1> QED BY <1>1, ServicesInvariant, PTL

(* What no step of a service may do no step of the workspace does: bring a  *)
(* canceled import back, publish a transcript of a recording that was       *)
(* replaced (or let a request that waits for it do so, unless that happened *)
(* while it listened), bring a deleted note back from its page while the    *)
(* user has not come back to it, overwrite in Notion what an undisturbed    *)
(* sync has not taken over, or treat the phone's commands otherwise than a  *)
(* log of intents (IntentLog) would.                                        *)
THEOREM ServicesStepsAreSafe ==
  ServicesSpec =>
    CancelHolds /\ TranscriptOfCurrentAudio /\ DeletedForGood /\ EditsKept /\ IntentsInOrder
<1>1. ServicesInv /\ [ServicesNext]_servicesVars =>
        [\A i \in Import : imports[i].status = "canceled" =>
           /\ notes'[i] = notes[i]
           /\ imports'[i].status \in {"canceled", "deleted"}]_importVars
  BY ServicesStep, CancelStep DEF ServicesInv, ImportInv
<1>2. ServicesInv /\ [ServicesNext]_servicesVars =>
        [/\ \A g \in Generation :
              results'[g] \notin {results[g], NoContent} => results'[g] = voice.sha
         /\ \A d \in Dictation :
              PublishDictation(d) => dictation[d].heard = voice.sha \/ dictation[d].overtaken]_voiceVars
  BY ServicesStep, PublishedIsCurrent, PublishedIsHeard DEF ServicesInv, VoiceInv
<1>3. ServicesInv /\ [ServicesNext]_servicesVars =>
        [~IsLive /\ IsLive' /\ deletedWith # NoPage
           => claim' # deletedWith /\ ~remote[claim'].named]_notionVars
  BY ServicesStep, NotBroughtBack DEF ServicesInv
<1>4. ServicesInv /\ [ServicesNext]_servicesVars => [Keeps]_notionVars
  BY ServicesStep, UndisturbedKeeps DEF ServicesInv
<1>5. ServicesInit => Log!Init
  BY ServicesStart, LogInit
<1>6. ServicesInv /\ [ServicesNext]_servicesVars => [Log!Next]_(Log!vars)
  BY ServicesStep, LogStep DEF ServicesInv
<1> QED
  BY <1>1, <1>2, <1>3, <1>4, <1>5, <1>6, ServicesInvariant, PTL
     DEF ServicesSpec, CancelHolds, TranscriptOfCurrentAudio, DeletedForGood, EditsKept, Keeps,
         IntentsInOrder, Log!Spec
=============================================================================
