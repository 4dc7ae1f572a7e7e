------------------------ MODULE MCWorkspaceServices ------------------------
(***************************************************************************)
(* The services of a workspace in one instance: imports, voice notes, a    *)
(* phone, a note kept in Notion, the runtime that serves its requests      *)
(* during the rollout of the task domain.  They share no state, so that    *)
(* each behaviour is about one of them, chosen at the start, and the       *)
(* others stay as they are.                                                *)
(***************************************************************************)
EXTENDS ContentImport, VoiceNotes, MobileSync, NotionSync, RuntimeEpoch

CONSTANT Opening   \* what a voice note may be uploaded with first: recordings are all
                   \* alike, so that one of them stands for each

VARIABLE focus

servicesVars == <<importVars, voiceVars, syncVars, notionVars, runtimeVars, focus>>

ServicesInit ==
  /\ focus \in {"import", "voice", "phone", "notion", "rollout"}
  /\ ImportInit /\ VoiceInit /\ SyncInit /\ NotionInit /\ RuntimeInit
  /\ focus # "phone" => \A i \in Item : row[i].state = "absent"
  /\ focus # "notion" => local.state = "live"

OpensAlike == voice.sha = NoContent => voice'.sha \in Opening \cup {NoContent}

ServicesNext ==
  \/ /\ focus = "import" /\ ImportNext
     /\ UNCHANGED <<voiceVars, syncVars, notionVars, runtimeVars, focus>>
  \/ /\ focus = "voice" /\ VoiceNext /\ OpensAlike
     /\ UNCHANGED <<importVars, syncVars, notionVars, runtimeVars, focus>>
  \/ /\ focus = "phone" /\ SyncNext
     /\ UNCHANGED <<importVars, voiceVars, notionVars, runtimeVars, focus>>
  \/ /\ focus = "notion" /\ NotionNext
     /\ UNCHANGED <<importVars, voiceVars, syncVars, runtimeVars, focus>>
  \/ /\ focus = "rollout" /\ RuntimeNext
     /\ UNCHANGED <<importVars, voiceVars, syncVars, notionVars, focus>>

\* The fairness of the five modules, for the one the behaviour is about.
ServicesFairness ==
  /\ \A w \in Importer : WF_importVars(focus = "import" /\ ImportWork(w))
  /\ \A i \in Import : WF_importVars(focus = "import" /\ ImportLeaseLapses(i))
  /\ \A t \in Transcriber : WF_voiceVars(focus = "voice" /\ TranscriberStep(t))
  /\ \A c \in Cleaner : WF_voiceVars(focus = "voice" /\ CleanerStep(c))
  /\ WF_voiceVars(focus = "voice" /\ JobLeaseLapses)
  /\ \A k \in Key : WF_voiceVars(focus = "voice" /\ CleanupLeaseLapses(k))
  /\ WF_syncVars(focus = "phone" /\ PhoneStep)
  /\ WF_syncVars(focus = "phone" /\ Answered)
  /\ WF_notionVars(focus = "notion" /\ RequestStep(Regular))
  /\ \A t \in Target : WF_notionVars(focus = "notion" /\ RegularSync(t))
  /\ WF_runtimeVars(focus = "rollout" /\ RolloutStep)
  /\ WF_runtimeVars(focus = "rollout" /\ ~CommandRuns /\ StartServer)
  /\ WF_runtimeVars(focus = "rollout" /\ Arrive(Steady))
  /\ \A c \in Caller : WF_runtimeVars(focus = "rollout" /\ RequestSteps(c))

ServicesSpec == ServicesInit /\ [][ServicesNext]_servicesVars /\ ServicesFairness

(* The variables of the five modules have the types of the rows and        *)
(* messages they stand for.                                                *)
ServicesTypeOK == ImportTypeOK /\ VoiceTypeOK /\ SyncTypeOK /\ NotionTypeOK /\ RuntimeTypeOK

(* A phone that is served catches up (SyncEnds of MobileSync: its intents   *)
(* are answered and its copy becomes that of the workspace).                *)
PhoneCatchesUp == <>[](focus = "phone" => InStep)

(* A note that is synced again and again reaches its page (NotionSettles    *)
(* of NotionSync: in the end both have the same text, or it is known why    *)
(* they do not).                                                            *)
NotionCatchesUp == <>[](focus = "notion" => Settled)

(* A rollout ends with a workspace that v2 serves (WorkspaceServed of        *)
(* RuntimeEpoch: requests are admitted again and again on runtimes of the    *)
(* current epoch, however the cutover command was interrupted).              *)
RolloutEnds == []<>(focus = "rollout" => \E c \in Caller : ServedByV2(c))
=============================================================================
