----------------------------- MODULE NotionSync -----------------------------
(***************************************************************************)
(* One note, the sync targets it can be bound to, and the Notion pages     *)
(* that are its copies:                                                    *)
(*                                                                         *)
(*  - users who edit, delete, bind and unbind the note                     *)
(*    (handler/sync_binding.go, service/notes.go);                         *)
(*  - requests that push it, pull a target, do both, or decide on a page   *)
(*    that is gone (service/sync_dispatch.go,                              *)
(*    service/notion_bidirectional.go), each a chain of Notion calls and   *)
(*    transactions without a lock around it;                               *)
(*  - people who edit, delete and restore the pages in Notion.             *)
(*                                                                         *)
(* Targets are different data sources of Notion.  A title, a body and      *)
(* their hash are one number, and the note and its pages carry the tags    *)
(* that the targets require.  A page carries the id of the note            *)
(* (FlowSpace ID) once a push wrote it: flowspace_id_property is set for   *)
(* each target.                                                            *)
(***************************************************************************)
EXTENDS Integers, FiniteSets

CONSTANTS
  Target,
  NoTarget,    \* a note without a row in note_sync_bindings
  MaxPages,    \* bound on the pages
  Request,     \* sync requests that can be under way at once
  Regular,     \* the one that asks for a bidirectional sync again and again
  MaxText,     \* bound on the edits
  MaxActs      \* bound on what users, other requests and people in Notion do, and on failures

NotionPage == 1 .. MaxPages
NoPage == 0

ASSUME NotionAssumption ==
  /\ NoTarget \notin Target /\ Regular \in Request
  /\ MaxPages \in Nat \ {0} /\ MaxText \in Nat /\ MaxActs \in Nat

VARIABLES
  local,       \* the row of notes: its state and its text
  remote,      \* page -> its target, text, whether it carries the note's id, and is archived
  bound,       \* target_id in note_sync_bindings
  claim,       \* the page in sync_external_claims, always of the bound target
  mark,        \* target -> row of note_sync_state
  suppressed,  \* targets in note_sync_suppressions
  tomb,        \* target -> page in sync_import_tombstones
  request,     \* what each request is doing
  latest,      \* the last text written
  acts,
  left,        \* history: targets the user left, and left a trace of it
  deletedWith, \* history: the page with which the note was deleted, until the user
               \* binds or unbinds the deleted note and its tombstone goes
  alone        \* history: the request that nobody has disturbed since it began

rows       == <<local, bound, claim, mark, suppressed, tomb>>
bounds     == <<latest, acts>>
notionVars == <<rows, remote, request, bounds, left, deletedWith, alone>>

----------------------------------------------------------------------------
(* Data *)

Text   == 0 .. MaxText
Mixed  == MaxText + 1          \* an update that failed halfway
Hidden == -1                   \* not among the pages that a query returned

NoMark == [page |-> NoPage, seen |-> 0, gone |-> FALSE]
NoneSeen == [p \in NotionPage |-> Hidden]
AtRest == [op |-> "none", at |-> "idle", target |-> NoTarget, page |-> NoPage, text |-> 0,
            sees |-> NoneSeen, named |-> {}, todo |-> {}, st |-> NoMark,
            listed |-> FALSE, handled |-> FALSE]

IsLive    == local.state = "live"
RowExists == local.state # "absent"      \* deleted notes keep theirs until retention
Visible(p, t) == remote[p].target = t /\ ~remote[p].archived

NotionInit ==
  /\ \/ /\ local = [state |-> "live", text |-> 0]
        /\ remote = [p \in NotionPage |->
                       [target |-> NoTarget, text |-> 0, named |-> FALSE, archived |-> FALSE]]
     \/ /\ local = [state |-> "absent", text |-> 0]
        /\ \E t \in Target : remote = [p \in NotionPage |->
             [target |-> IF p = 1 THEN t ELSE NoTarget, text |-> 0, named |-> FALSE, archived |-> FALSE]]
  /\ bound = NoTarget /\ claim = NoPage /\ mark = [t \in Target |-> NoMark]
  /\ suppressed = {} /\ tomb = [t \in Target |-> NoPage]
  /\ request = [r \in Request |-> AtRest]
  /\ latest = 0 /\ acts = 0
  /\ left = {} /\ deletedWith = NoPage /\ alone = {}

Acts     == acts < MaxActs /\ acts' = acts + 1
Disturbs == alone' = {}
Goes(r)  == alone' = alone \cap {r}

----------------------------------------------------------------------------
(* The user *)

EditLocal ==
  /\ Acts /\ IsLive /\ latest < MaxText
  /\ latest' = latest + 1 /\ local' = [local EXCEPT !.text = latest']
  /\ Disturbs
  /\ UNCHANGED <<bound, claim, mark, suppressed, tomb, remote, request, left, deletedWith>>

\* What a deletion promised lasts as long as its tombstone.
Forgets ==
  deletedWith' = IF \E t \in Target : tomb'[t] = deletedWith THEN deletedWith ELSE NoPage

\* PutNoteSyncBinding does not load the note, so that a deleted one can be bound.
\* A change of target releases the claim of the old one.
BindTo(t) ==
  /\ Acts /\ RowExists
  /\ tomb' = [u \in Target |-> IF u = t THEN NoPage
                               ELSE IF u = bound /\ claim # NoPage THEN claim ELSE tomb[u]]
  /\ claim' = (IF bound = t THEN claim ELSE NoPage)
  /\ suppressed' = suppressed \ {t} /\ bound' = t
  /\ left' = (left \cup IF /\ claim # NoPage /\ mark[bound].page \in {NoPage, claim}
                            /\ \A r \in Request : request[r].target # bound
                         THEN {bound} ELSE {}) \ {t}
  /\ Disturbs /\ Forgets
  /\ UNCHANGED <<local, mark, remote, request, latest>>

\* DeleteNoteSyncBinding: it refuses a binding that the user has not seen.
Unbind ==
  /\ Acts /\ RowExists /\ bound # NoTarget
  /\ tomb' = IF claim # NoPage THEN [tomb EXCEPT ![bound] = claim] ELSE tomb
  /\ claim' = NoPage /\ suppressed' = suppressed \cup {bound} /\ bound' = NoTarget
  /\ left' = left \cup {bound}
  /\ Disturbs /\ Forgets
  /\ UNCHANGED <<local, mark, remote, request, latest>>

\* deleteNoteWithStore: the row stays, marked as deleted, with its binding and claim;
\* deleting it again writes the tombstone of the claim again.
DeleteLocal ==
  /\ Acts /\ RowExists /\ (IsLive \/ claim # NoPage)
  /\ local' = [state |-> "deleted", text |-> 0]
  /\ tomb' = IF claim # NoPage THEN [tomb EXCEPT ![bound] = claim] ELSE tomb
  /\ deletedWith' = claim
  /\ Disturbs
  /\ UNCHANGED <<bound, claim, mark, suppressed, remote, request, latest, left>>

\* note.delete of a device touches none of the tables of the sync.
DeleteFromPhone ==
  /\ Acts /\ IsLive
  /\ local' = [state |-> "deleted", text |-> 0]
  /\ deletedWith' = NoPage
  /\ Disturbs
  /\ UNCHANGED <<bound, claim, mark, suppressed, tomb, remote, request, latest, left>>

\* Retention removes the row, long after any request that was under way.
PurgeLocal ==
  /\ local.state = "deleted" /\ \A r \in Request : request[r].at = "idle"
  /\ local' = [state |-> "absent", text |-> 0]
  /\ bound' = NoTarget /\ claim' = NoPage /\ mark' = [t \in Target |-> NoMark]
  /\ suppressed' = {} /\ left' = {}
  /\ Disturbs
  /\ UNCHANGED <<tomb, remote, request, bounds, deletedWith>>

----------------------------------------------------------------------------
(* Notion *)

EditPage(p) ==
  /\ Acts /\ remote[p].target # NoTarget /\ ~remote[p].archived /\ latest < MaxText
  /\ latest' = latest + 1 /\ remote' = [remote EXCEPT ![p].text = latest']
  /\ Disturbs /\ UNCHANGED <<rows, request, left, deletedWith>>

ArchiveOrRestorePage(p) ==
  /\ Acts /\ remote[p].target # NoTarget
  /\ remote' = [remote EXCEPT ![p].archived = ~remote[p].archived]
  /\ Disturbs /\ UNCHANGED <<rows, request, latest, left, deletedWith>>

----------------------------------------------------------------------------
(* Requests *)

At(r, step)  == request[r].at = step
Step(r, s)   == request' = [request EXCEPT ![r] = s]
Rest(r)      == Step(r, AtRest)
Aim(r)       == request[r].target

\* Only the bidirectional sync of the note's own target is asked for without end.
Asks(r, op, t) == IF r = Regular /\ op = "both" /\ t = bound THEN acts' = acts ELSE Acts

\* A call of Notion or a transaction fails, or the process dies.
Breaks(r) ==
  /\ ~At(r, "idle") /\ Acts
  /\ Rest(r) /\ Goes(r)
  /\ UNCHANGED <<rows, remote, latest, left, deletedWith>>

\* SyncNote or SyncTargetPush; what they load before the first call.
Loaded(r, op, t) ==
  LET p == IF mark[t].page # NoPage THEN mark[t].page ELSE claim
  IN [AtRest EXCEPT !.op = op, !.target = t, !.page = p, !.text = local.text,
                     !.at = IF p = NoPage THEN "lookup" ELSE "reserve"]

StartPush(r) ==
  /\ At(r, "idle") /\ Asks(r, "push", bound) /\ bound # NoTarget /\ IsLive
  /\ Step(r, Loaded(r, "push", bound)) /\ Goes(r)
  /\ UNCHANGED <<rows, remote, latest, left, deletedWith>>

\* findExistingNotionRemoteByFlowSpaceID: a push that did not finish left its page.
Lookup(r) ==
  /\ At(r, "lookup")
  /\ LET found == {p \in NotionPage : Visible(p, Aim(r)) /\ remote[p].named}
     IN IF found = {} THEN Step(r, [request[r] EXCEPT !.at = "create"])
        ELSE \E p \in found : Step(r, [request[r] EXCEPT !.at = "reserve", !.page = p])
  /\ Goes(r) /\ UNCHANGED <<rows, remote, bounds, left, deletedWith>>

\* reserveNotionClaimBeforeRemoteWrite
Reserve(r) ==
  /\ At(r, "reserve")
  /\ IF bound # Aim(r) THEN Rest(r) /\ UNCHANGED claim
     ELSE /\ claim' = request[r].page
          /\ Step(r, [request[r] EXCEPT !.at = "update"])
  /\ Goes(r)
  /\ UNCHANGED <<local, bound, mark, suppressed, tomb, remote, bounds, left, deletedWith>>

Written(r, text) ==
  remote' = [remote EXCEPT ![request[r].page] =
               [target |-> remote[request[r].page].target, text |-> text, named |-> TRUE, archived |-> FALSE]]

\* UpdateRemoteNote; Notion refuses to change an archived page.
Update(r) ==
  /\ At(r, "update")
  /\ IF remote[request[r].page].archived THEN Rest(r) /\ UNCHANGED remote
     ELSE Written(r, request[r].text) /\ Step(r, [request[r] EXCEPT !.at = "record"])
  /\ Goes(r) /\ UNCHANGED <<rows, bounds, left, deletedWith>>

\* replaceRemoteBlocks appends the new blocks before it archives the old ones.
UpdateHalf(r) ==
  /\ At(r, "update") /\ ~remote[request[r].page].archived
  /\ Acts
  /\ Written(r, Mixed) /\ Rest(r) /\ Goes(r)
  /\ UNCHANGED <<rows, latest, left, deletedWith>>

\* CreateRemoteNote; nothing of it is known to the database before Record.  It
\* fails when the bound on the pages is reached.
CreatePage(r) ==
  /\ At(r, "create")
  /\ \/ \E p \in NotionPage :
          /\ remote[p].target = NoTarget
          /\ remote' = [remote EXCEPT ![p] = [target |-> Aim(r), text |-> request[r].text,
                                              named |-> TRUE, archived |-> FALSE]]
          /\ Step(r, [request[r] EXCEPT !.at = "record", !.page = p])
     \/ (\A p \in NotionPage : remote[p].target # NoTarget) /\ Rest(r) /\ UNCHANGED remote
  /\ Goes(r) /\ UNCHANGED <<rows, bounds, left, deletedWith>>

Synced(p, text) == [page |-> p, seen |-> text, gone |-> FALSE]

\* recordSyncedNotionRemote
Record(r) ==
  /\ At(r, "record")
  /\ IF bound # Aim(r) THEN UNCHANGED <<claim, mark>>
     ELSE /\ claim' = request[r].page
          /\ mark' = [mark EXCEPT ![Aim(r)] = Synced(request[r].page, request[r].text)]
  /\ Rest(r) /\ Goes(r)
  /\ UNCHANGED <<local, bound, suppressed, tomb, remote, bounds, left, deletedWith>>

----------------------------------------------------------------------------
(* Pulling *)

\* SyncTargetPull and SyncTargetBidirectional; a note that has a state of this
\* target and is bound to another one stops them.
StartPull(r, op, t) ==
  /\ At(r, "idle") /\ Asks(r, op, t)
  /\ ~(mark[t].page # NoPage /\ bound \notin {NoTarget, t})
  /\ Step(r, [AtRest EXCEPT !.op = op, !.target = t, !.at = "query"])
  /\ alone' = IF op = "both" THEN {r} ELSE alone \cap {r}
  /\ UNCHANGED <<rows, remote, latest, left, deletedWith>>

\* QueryRemoteNotes
Query(r) ==
  /\ At(r, "query")
  /\ LET found == {p \in NotionPage : Visible(p, Aim(r))}
     IN Step(r, [request[r] EXCEPT !.at = "list", !.todo = found,
                   !.sees = [p \in NotionPage |-> IF p \in found THEN remote[p].text ELSE Hidden],
                   !.named = {p \in found : remote[p].named}])
  /\ Goes(r) /\ UNCHANGED <<rows, remote, bounds, left, deletedWith>>

\* ListStatesByTarget and ListAllNotes, after the query.
ListRows(r) ==
  /\ At(r, "list")
  /\ Step(r, [request[r] EXCEPT !.at = "pages", !.st = mark[Aim(r)], !.listed = IsLive])
  /\ Goes(r) /\ UNCHANGED <<rows, remote, bounds, left, deletedWith>>

\* Mutant: only a page that carries the note's id is looked up.
TombstonedById(r, p) == p \in request[r].named /\ \E u \in Target : tomb[u] # NoPage

\* FindImportTombstone: of this page, of the note here, of the note anywhere.
Tombstoned(r, p) ==
  \/ tomb[Aim(r)] = p
  \/ p \in request[r].named /\ \E u \in Target : tomb[u] # NoPage

\* checkNotionExternalBlockers
Blocked(r, p) ==
  \/ Tombstoned(r, p)
  \/ claim = p /\ p \notin request[r].named /\ request[r].st.page # p

\* matchNotionSyncState, matchNotionLocalNote
HasState(r, p) == request[r].st.page # NoPage /\ (p \in request[r].named \/ request[r].st.page = p)
HasNote(r, p)  == request[r].listed /\ (p \in request[r].named \/ HasState(r, p))

\* Mutant: a text that changed here too is kept.
LocalWins(r, p) ==
  ~HasState(r, p) \/ request[r].st.gone
  \/ (request[r].sees[p] # request[r].st.seen /\ local.text = request[r].st.seen)

Changed(r, p) ==
  \/ ~HasState(r, p)
  \/ request[r].sees[p] # request[r].st.seen
  \/ request[r].st.gone

\* PullRemote, up to the transaction for one page.
CheckPage(r, p) ==
  /\ At(r, "pages") /\ p \in request[r].todo
  /\ LET rest == [request[r] EXCEPT !.todo = @ \ {p}]
     IN Step(r, IF Blocked(r, p) THEN rest
                ELSE IF ~HasNote(r, p) THEN [rest EXCEPT !.at = "import", !.page = p]
                ELSE IF Changed(r, p) THEN [rest EXCEPT !.at = "into", !.page = p]
                ELSE rest)
  /\ Goes(r) /\ UNCHANGED <<rows, remote, bounds, left, deletedWith>>

Brought(r, t, p) ==
  /\ local' = [state |-> "live", text |-> request[r].sees[p]]
  /\ bound' = t /\ claim' = p
  /\ mark' = [mark EXCEPT ![t] = Synced(p, request[r].sees[p])]
  /\ Step(r, [request[r] EXCEPT !.at = "pages", !.handled = TRUE])

Refused(r) ==
  /\ Step(r, [request[r] EXCEPT !.at = "pages"])
  /\ UNCHANGED <<local, bound, claim, mark>>

\* Mutant: suppressions are not asked.
BindsAnyway(r) == bound \in {NoTarget, Aim(r)}

\* ensureOrCreatePullBindingInStore
PullMayBind(r) == bound = Aim(r) \/ (bound = NoTarget /\ Aim(r) \notin suppressed)

\* pullNotionRemoteIntoNoteWithStore
PullInto(r) ==
  /\ At(r, "into")
  /\ IF IsLive /\ PullMayBind(r)
     THEN Brought(r, Aim(r), request[r].page)
     ELSE Refused(r)
  /\ Goes(r) /\ UNCHANGED <<suppressed, tomb, remote, bounds, left, deletedWith>>

\* importNotionRemoteNoteWithStore: the row of a deleted note is still in the way.
ImportPage(r) ==
  /\ At(r, "import")
  /\ IF local.state = "absent" THEN Brought(r, Aim(r), request[r].page)
     ELSE Refused(r)
  /\ Goes(r) /\ UNCHANGED <<suppressed, tomb, remote, bounds, left, deletedWith>>

\* Mutant: a page that had nothing new counts as missing.
NotPulled(r) ==
  /\ request[r].st.page # NoPage /\ ~request[r].st.gone /\ request[r].listed
  /\ ~request[r].handled

\* The page of a state was neither returned by the query nor handled.
Missing(r) ==
  /\ request[r].st.page # NoPage /\ ~request[r].st.gone /\ request[r].listed
  /\ request[r].sees[request[r].st.page] = Hidden /\ ~request[r].handled

\* markNotionExternalDeleted writes back the row that it listed.
Sweep(r) ==
  /\ At(r, "pages") /\ request[r].todo = {}
  /\ mark' = IF Missing(r) THEN [mark EXCEPT ![Aim(r)] = [request[r].st EXCEPT !.gone = TRUE]] ELSE mark
  /\ IF request[r].op = "both" /\ bound = Aim(r) /\ IsLive
     THEN Step(r, [AtRest EXCEPT !.op = "both", !.target = Aim(r), !.at = "push"])
     ELSE Rest(r)
  /\ Goes(r)
  /\ UNCHANGED <<local, bound, claim, suppressed, tomb, remote, bounds, left, deletedWith>>

\* The second half of SyncTargetBidirectional.
PushAfterPull(r) ==
  /\ At(r, "push")
  /\ IF bound = Aim(r) /\ IsLive THEN Step(r, Loaded(r, "both", Aim(r))) ELSE Rest(r)
  /\ Goes(r) /\ UNCHANGED <<rows, remote, bounds, left, deletedWith>>

----------------------------------------------------------------------------
(* A page that is gone *)

\* RestoreNotionDeletionForTarget: RestorePage, then as a push.
StartRestore(r, t) ==
  /\ At(r, "idle") /\ Asks(r, "restore", t) /\ mark[t].gone /\ IsLive /\ bound = t
  /\ Step(r, [AtRest EXCEPT !.op = "restore", !.at = "restore", !.target = t,
                             !.page = mark[t].page, !.text = local.text])
  /\ Goes(r) /\ UNCHANGED <<rows, remote, latest, left, deletedWith>>

RestorePage(r) ==
  /\ At(r, "restore")
  /\ remote' = [remote EXCEPT ![request[r].page].archived = FALSE]
  /\ Step(r, [request[r] EXCEPT !.at = "update"])
  /\ Goes(r) /\ UNCHANGED <<rows, bounds, left, deletedWith>>

\* ConfirmNotionDeletionForTarget loads the state, and only then begins its transaction.
StartConfirm(r, t) ==
  /\ At(r, "idle") /\ Asks(r, "confirm", t) /\ mark[t].gone /\ IsLive
  /\ Step(r, [AtRest EXCEPT !.op = "confirm", !.at = "confirm", !.target = t, !.page = mark[t].page])
  /\ Goes(r) /\ UNCHANGED <<rows, remote, latest, left, deletedWith>>

\* confirmNotionDeletionWithStore, notionDeletionTombstone
Confirm(r) ==
  /\ At(r, "confirm")
  /\ tomb' = IF claim # NoPage THEN [tomb EXCEPT ![bound] = claim]
             ELSE [tomb EXCEPT ![Aim(r)] = request[r].page]
  /\ local' = [state |-> "deleted", text |-> 0]
  /\ mark' = [mark EXCEPT ![Aim(r)] = NoMark]
  /\ deletedWith' = (IF claim # NoPage THEN claim ELSE request[r].page)
  /\ Rest(r) /\ Goes(r)
  /\ UNCHANGED <<bound, claim, suppressed, remote, bounds, left>>

----------------------------------------------------------------------------
NotionUser ==
  \/ EditLocal \/ \E t \in Target : BindTo(t)
  \/ Unbind \/ DeleteLocal \/ DeleteFromPhone \/ PurgeLocal
  \/ \E p \in NotionPage : EditPage(p) \/ ArchiveOrRestorePage(p)

PushStep(r) == Lookup(r) \/ Reserve(r) \/ Update(r) \/ CreatePage(r) \/ Record(r)
PullStep(r) ==
  \/ Query(r) \/ ListRows(r) \/ \E p \in NotionPage : CheckPage(r, p)
  \/ PullInto(r) \/ ImportPage(r) \/ Sweep(r) \/ PushAfterPull(r)
RequestStep(r) == PushStep(r) \/ PullStep(r) \/ RestorePage(r) \/ Confirm(r)
RequestStart(r) ==
  \/ StartPush(r)
  \/ \E t \in Target, op \in {"pull", "both"} : StartPull(r, op, t)
  \/ \E t \in Target : StartRestore(r, t) \/ StartConfirm(r, t)

NotionNext ==
  \/ NotionUser
  \/ \E r \in Request : RequestStart(r) \/ RequestStep(r) \/ Breaks(r) \/ UpdateHalf(r)

\* The user asks again for the target that the note is bound to.
RegularSync(t) == bound = t /\ StartPull(Regular, "both", t)

\* The note is synced again and again, and these requests take their steps; any other
\* may stop anywhere.
NotionFairness ==
  /\ WF_notionVars(RequestStep(Regular))
  /\ \A t \in Target : WF_notionVars(RegularSync(t))

NotionSpec == NotionInit /\ [][NotionNext]_notionVars /\ NotionFairness

----------------------------------------------------------------------------
(* The rows, pages and requests have their types.                          *)
NotionTypeOK ==
  /\ local \in [state : {"absent", "live", "deleted"}, text : Text \cup {Mixed}]
  /\ remote \in [NotionPage -> [target : Target \cup {NoTarget}, text : Text \cup {Mixed},
                                named : BOOLEAN, archived : BOOLEAN]]
  /\ bound \in Target \cup {NoTarget} /\ claim \in NotionPage \cup {NoPage}
  /\ mark \in [Target -> [page : NotionPage \cup {NoPage}, seen : Text \cup {Mixed}, gone : BOOLEAN]]
  /\ suppressed \subseteq Target /\ tomb \in [Target -> NotionPage \cup {NoPage}]
  /\ latest \in Text /\ acts \in 0 .. MaxActs
  /\ left \subseteq Target /\ deletedWith \in NotionPage \cup {NoPage} /\ alone \subseteq Request

(***************************************************************************)
(* Leaving is final until the user comes back: a request that was under    *)
(* way, or one that comes later, does not bind the note again to a target  *)
(* that the user unbound it from (DeleteNoteSyncBinding, suppressions).    *)
(* A change of target counts when the note had a claim, of the page that   *)
(* the state of the target names if there is one, and no request was       *)
(* aiming at the old target: PutNoteSyncBinding writes no suppression, and *)
(* the tombstone of the claim is all that stops the others.                *)
(***************************************************************************)
LeftForGood == bound \notin left

(***************************************************************************)
(* A note deleted in the browser does not come back from Notion: once      *)
(* retention has removed its row, no pull imports the page that it had     *)
(* claimed, nor any page that carries its id, in whatever target           *)
(* (deleteNoteWithStore, FindImportTombstone).  The promise ends when the  *)
(* user comes back to the deleted note and its tombstone goes: binding it  *)
(* to that target erases the tombstone (PutNoteSyncBinding), and leaving   *)
(* that target puts the tombstone of a page that a late push has claimed   *)
(* in its place (tombstoneAndReleaseClaim).                                *)
(***************************************************************************)
DeletedForGood ==
  [][~IsLive /\ IsLive' /\ deletedWith # NoPage
       => claim' # deletedWith /\ ~remote[claim'].named]_notionVars

(***************************************************************************)
(* A bidirectional sync that nobody disturbs overwrites no text of Notion  *)
(* that it has not taken over first: the push of SyncTargetBidirectional   *)
(* comes after a pull that saw the page.  While a tombstone blocks the     *)
(* page of a note that went from one target to another, it does.           *)
(***************************************************************************)
EditsKept ==
  [][\A r \in Request :
       Update(r) /\ r \in alone /\ request[r].op = "both"
         => LET p == request[r].page IN
            \/ remote[p].archived
            \/ remote[p].text = mark[Aim(r)].seen /\ mark[Aim(r)].page = p
            \/ \E t \in Target : tomb[t] # NoPage]_notionVars

(***************************************************************************)
(* A bound note that is synced again and again ends with the same text as  *)
(* its page and a state that says so, whatever calls failed halfway before *)
(* (PullRemote, pushNotionLocalNote, recordSyncedNotionRemote); unless its *)
(* page is gone: shown to the user when there is a state of it, for ever   *)
(* unnoticed when only its claim was reserved.  (The first disjunct is the *)
(* bound on the pages.)                                                    *)
(***************************************************************************)
Settled ==
  bound # NoTarget /\ IsLive =>
    \/ claim = NoPage /\ \A p \in NotionPage : remote[p].target # NoTarget
    \/ mark[bound].gone /\ remote[mark[bound].page].archived
    \/ claim # NoPage /\ mark[bound].page = NoPage /\ remote[claim].archived
    \/ claim # NoPage /\ mark[bound] = Synced(claim, local.text) /\ remote[claim].text = local.text

NotionSettles == <>[]Settled
=============================================================================
