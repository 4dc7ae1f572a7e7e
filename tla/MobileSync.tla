----------------------------- MODULE MobileSync -----------------------------
(***************************************************************************)
(* One phone kept in step with a workspace over the mobile-v2 protocol:    *)
(*                                                                         *)
(*  - its commands, which may reach the server late, more than once or     *)
(*    from several server processes, and whose answers may be lost         *)
(*    (mobilev2service/content_commands.go, mobilev2service/dependencies.go,*)
(*    mobilev2command/sql_ledger.go);                                      *)
(*  - the change feed and the snapshots it reads (mobilev2sync/            *)
(*    sql_repository.go), against browser edits that publish changes too   *)
(*    (mobilev2change/content_changes.go) and the retention worker         *)
(*    (mobilev2service/content_retention.go);                              *)
(*  - the runtime epoch, which a cutover of the workspace raises.          *)
(*                                                                         *)
(* An item is a note or an inbox entry, named by its client id.  A command *)
(* id is an intent of the user and the epoch it was built for: a command   *)
(* refused for its epoch is built again under another id.                  *)
(***************************************************************************)
EXTENDS Integers, FiniteSetsExt

CONSTANTS
  Item,
  NoItem,      \* what a batch that carries nothing is about
  MaxIntent,   \* bound on what the user does on the phone
  MaxEpoch,    \* bound on the runtime epochs
  MaxWebWrite, \* bound on the edits in the browser
  MaxCompacted, \* bound on how far the feed is compacted
  PageLimit    \* change batches on a page

Intent == 1 .. MaxIntent
Epoch  == 1 .. MaxEpoch
MaxHead == MaxIntent * MaxEpoch + MaxWebWrite
MaxRev  == 1 + MaxIntent + MaxWebWrite

ASSUME SyncAssumption ==
  /\ Item # {} /\ NoItem \notin Item
  /\ MaxIntent \in Nat /\ MaxEpoch \in Nat \ {0} /\ MaxWebWrite \in Nat /\ MaxCompacted \in Nat
  /\ PageLimit \in Nat \ {0}

VARIABLES
  row,       \* item -> its row: state and revision, and the commit that deleted it
  retired,   \* the items in mobile_v2_content_tombstones
  head,      \* latest_sequence of mobile_v2_commit_heads
  feed,      \* rows of mobile_v2_scope_change_batches
  compacted, \* compacted_through_sequence of mobile_v2_scope_retention
  epoch,     \* the runtime epoch of the workspace
  receipts,  \* command -> its row of mobile_v2_command_receipts
  intent,    \* intent -> what the user did and what the phone was told of it
  requests,  \* the commands that were sent; each may be delivered at any time, and again
  phone,     \* the phone's copy of the workspace and where it is in the feed
  effects,   \* history: intent -> how often it was carried out
  buried,    \* history: the items that were ever deleted
  overtaken, \* history: the compaction that passed the phone while it read
  webWrites  \* what the bound counts

tables   == <<row, retired, head, feed, compacted, epoch, receipts>>
history  == <<effects, buried, overtaken, webWrites>>
syncVars == <<tables, intent, requests, phone, history>>

----------------------------------------------------------------------------
(* Data *)

NoRevision == 0
FromReceipt == -1   \* an expected revision taken from the receipt of the dependency

Command == [intent : Intent, epoch : Epoch]
Status  == {"applied", "conflict", "rejected"}
Kind    == {"create", "update", "delete"}

NoReceipt == [status |-> "none", revision |-> NoRevision]
NoIntent  == [state |-> "none", kind |-> "create", item |-> CHOOSE i \in Item : TRUE,
              expected |-> NoRevision, after |-> 0, epoch |-> 1]

\* A phone that has to begin again drops what it has.
Cleared == [at |-> "resync", store |-> [i \in Item |-> NoRevision], cursor |-> 0, bound |-> 1,
            latest |-> 0]

\* What a phone keeps of an item that has been deleted, or never was, is nothing.
Image(i)  == IF row[i].state = "live" THEN row[i].revision ELSE NoRevision
Projected == [i \in Item |-> Image(i)]

Batch == [sequence : 1 .. MaxHead, item : Item \cup {NoItem}, revision : NoRevision .. MaxRev]

----------------------------------------------------------------------------
\* Some items are there already; a phone that has nothing begins with a snapshot.
SyncInit ==
  /\ row \in [Item -> {[state |-> "absent", revision |-> 0, deletedAt |-> 0],
                       [state |-> "live", revision |-> 1, deletedAt |-> 0]}]
  /\ retired = {} /\ head = 0 /\ feed = {} /\ compacted = 0 /\ epoch = 1
  /\ receipts = [c \in Command |-> NoReceipt]
  /\ intent = [k \in Intent |-> NoIntent]
  /\ requests = {}
  /\ phone = Cleared
  /\ effects = [k \in Intent |-> 0] /\ buried = {} /\ overtaken = FALSE
  /\ webWrites = 0

----------------------------------------------------------------------------
(* Writes *)

Live(i, revision) ==
  row' = [row EXCEPT ![i] = [state |-> "live", revision |-> revision, deletedAt |-> 0]]

\* Deleting clears the row and keeps it for a while, and the client id for good.
Deleted(i) ==
  /\ row' = [row EXCEPT ![i] = [state |-> "deleted", revision |-> @.revision + 1,
                                deletedAt |-> head + 1]]
  /\ retired' = retired \cup {i} /\ buried' = buried \cup {i}

PublishAtHead(i, image) ==                \* Mutant: the sequence is read before it is raised.
  /\ head' = head + 1
  /\ feed' = feed \cup {[sequence |-> head, item |-> i, revision |-> image]}

\* The batch carries the item as the transaction leaves it.
Publish(i, image) ==
  /\ head' = head + 1
  /\ feed' = feed \cup {[sequence |-> head + 1, item |-> i, revision |-> image]}

\* The browser edits and deletes; AppendContentChanges in the same transaction.
WebEdit(i) ==
  /\ webWrites < MaxWebWrite /\ row[i].state = "live"
  /\ Live(i, row[i].revision + 1) /\ Publish(i, row[i].revision + 1)
  /\ webWrites' = webWrites + 1
  /\ UNCHANGED <<retired, compacted, epoch, receipts, intent, requests, phone,
                 effects, buried, overtaken>>

WebDelete(i) ==
  /\ webWrites < MaxWebWrite /\ row[i].state = "live"
  /\ Deleted(i) /\ Publish(i, NoRevision)
  /\ webWrites' = webWrites + 1
  /\ UNCHANGED <<compacted, epoch, receipts, intent, requests, phone,
                 effects, overtaken>>

\* The task-domain migration of the workspace drains, or is failed or recovered.
RaiseEpoch ==
  /\ epoch < MaxEpoch /\ epoch' = epoch + 1
  /\ UNCHANGED <<row, retired, head, feed, compacted, receipts, intent, requests, phone, history>>

----------------------------------------------------------------------------
(* The phone's commands *)

\* The requests of commands, each with the id of the command it depends on.
Sent(ks) ==
  requests' = requests \cup
    {[intent |-> k, epoch |-> intent'[k].epoch,
      after |-> IF intent'[k].after = 0 THEN 0 ELSE intent'[intent'[k].after].epoch] : k \in ks}

Fresh(k) == intent[k].state = "none" /\ \A j \in Intent : j < k => intent[j].state # "none"

\* The user creates, changes or deletes; an id is new, or that of an item deleted
\* meanwhile.  What follows an unanswered intent depends on it, and names the revision
\* that will leave, or takes it from its receipt.  Where an answer is late the phone
\* sends the command again.
Compose(k, kind, i) ==
  /\ Fresh(k) /\ phone.at = "idle"
  /\ LET before == {j \in Intent : intent[j].state \in {"open", "stale"}}
         done   == [state |-> "open", kind |-> kind, item |-> i, expected |-> phone.store[i],
                    after |-> 0, epoch |-> phone.bound]
     IN  \/ /\ before = {}
            /\ IF kind = "create" THEN phone.store[i] = NoRevision /\ row[i].state # "live"
                                  ELSE phone.store[i] # NoRevision
            /\ intent' = [intent EXCEPT ![k] = done]
         \/ \E j \in before :
              /\ intent[j].item = i /\ intent[j].kind # "delete" /\ kind # "create"
              /\ \A b \in before : b <= j
              /\ \E revision \in {FromReceipt, phone.store[i] + 1} :
                   intent' = [intent EXCEPT ![k] = [done EXCEPT !.after = j, !.expected = revision]]
  /\ Sent({k})
  /\ UNCHANGED <<tables, phone, history>>

\* An answer the phone waits for may arrive or be lost.
Told(m, state) ==
  \/ UNCHANGED intent
  \/ /\ intent[m.intent].state = "open" /\ intent[m.intent].epoch = m.epoch
     /\ intent' = [intent EXCEPT ![m.intent].state = state]

Verdict(status) == IF status = "applied" THEN "done" ELSE "refused"

AnyRuntime(e) == TRUE                     \* Mutant: the epoch is not checked in the transaction.

\* The transaction is fenced: the epoch that the process resolved, perhaps from a
\* cached runtime, has to be the tenant's (BeginFencedMobileV2Write).
Fenced(e) == e = epoch

CommandIn(m) == [intent |-> m.intent, epoch |-> m.epoch]
Received(c) == receipts[c].status # "none"
DependencyIn(m) == [intent |-> intent[m.intent].after, epoch |-> m.after]

NotAwaited(m) == TRUE                     \* Mutant: a dependency is not waited for.

\* resolveCommandDependencies; before that the command is answered retry_later.
DependencyMet(m) ==
  m.after # 0 => Received(DependencyIn(m)) /\ receipts[DependencyIn(m)].status = "applied"

DependencyFailed(m) ==
  m.after # 0 /\ Received(DependencyIn(m)) /\ receipts[DependencyIn(m)].status # "applied"

NewCommand(m) == ~Received(CommandIn(m))

\* A command that has its receipt is answered with it.
ReplayReceipt(m) ==
  /\ m \in requests /\ Received(CommandIn(m))
  /\ Told(m, Verdict(receipts[CommandIn(m)].status)) /\ intent' # intent
  /\ UNCHANGED <<tables, requests, phone, history>>

\* FinalizeOnRunner, but for the batch.
Receipt(m, status, revision) ==
  receipts' = [receipts EXCEPT ![CommandIn(m)] = [status |-> status, revision |-> revision]]

\* The receipt of a rejected command takes a sequence and publishes nothing.
RejectDependent(m, e) ==
  /\ m \in requests /\ Fenced(e) /\ NewCommand(m) /\ DependencyFailed(m)
  /\ Receipt(m, "rejected", NoRevision) /\ head' = head + 1
  /\ Told(m, "refused")
  /\ UNCHANGED <<row, retired, feed, compacted, epoch, requests, phone, history>>

\* Stale: nothing is committed, and the phone builds the command for the new epoch.
RefuseStale(m, e) ==
  /\ m \in requests /\ Fenced(e) /\ NewCommand(m) /\ DependencyMet(m)
  /\ m.epoch # e
  /\ Told(m, "stale") /\ intent' # intent
  /\ UNCHANGED <<tables, requests, phone, history>>

\* Every intent after it that is not answered depends on it, and is built again too.
Rebuild(k) ==
  /\ intent[k].state = "stale"
  /\ intent' = [j \in Intent |->
       IF j >= k /\ intent[j].state \in {"open", "stale"}
       THEN [intent[j] EXCEPT !.state = "open", !.epoch = epoch] ELSE intent[j]]
  /\ Sent({j \in Intent : j >= k /\ intent'[j].state = "open"})
  /\ UNCHANGED <<tables, phone, history>>

RetiredForgotten(i) == FALSE              \* Mutant: tombstones are not asked.

Retired(i) == i \in retired

Expected(m) ==
  IF intent[m.intent].expected = FromReceipt THEN receipts[DependencyIn(m)].revision
                                             ELSE intent[m.intent].expected

Admitted(m) ==
  LET i == intent[m.intent].item
  IN  IF intent[m.intent].kind = "create" THEN ~Retired(i)
      ELSE row[i].state = "live" /\ row[i].revision = Expected(m)

\* The whole transaction: domain change, receipt and batch, or a conflict, which is
\* a receipt and a batch too.
ApplyCommand(m, e) ==
  /\ m \in requests /\ Fenced(e) /\ NewCommand(m) /\ DependencyMet(m) /\ m.epoch = e
  /\ LET k == m.intent  i == intent[k].item
     IN  IF Admitted(m)
           THEN /\ IF intent[k].kind = "delete"
                     THEN Deleted(i) /\ Publish(i, NoRevision)
                     ELSE /\ Live(i, row[i].revision + 1) /\ Publish(i, row[i].revision + 1)
                          /\ UNCHANGED <<retired, buried>>
                /\ Receipt(m, "applied", row[i].revision + 1)
                /\ effects' = [effects EXCEPT ![k] = @ + 1]
                /\ Told(m, "done")
           ELSE /\ UNCHANGED <<row, retired, buried, effects>>
                /\ IF intent[k].kind = "create" THEN Publish(NoItem, NoRevision)
                                               ELSE Publish(i, Image(i))
                /\ Receipt(m, "conflict", NoRevision)
                /\ Told(m, "refused")
  /\ UNCHANGED <<compacted, epoch, requests, phone, overtaken, webWrites>>

----------------------------------------------------------------------------
(* Reading *)

\* ReadChanges is three queries of no common transaction: the head, ...
ReadHead ==
  /\ phone.at = "idle"
  /\ phone' = IF phone.bound # epoch \/ phone.cursor > head
              THEN Cleared
              ELSE [phone EXCEPT !.at = "retention", !.latest = head]
  /\ UNCHANGED <<tables, intent, requests, history>>

TooOld == phone.cursor < compacted

\* ... what has been compacted, ...
ReadRetention ==
  /\ phone.at = "retention"
  /\ phone' = IF TooOld THEN Cleared ELSE [phone EXCEPT !.at = "rows"]
  /\ UNCHANGED <<tables, intent, requests, history>>

\* The batches of a page, and what the phone's copy becomes.
Page ==
  {b \in feed : b.sequence > phone.cursor
     /\ Cardinality({a \in feed : a.sequence > phone.cursor /\ a.sequence < b.sequence}) < PageLimit}

HasMore == \E b \in feed : b.sequence > phone.cursor /\ b \notin Page

Upserted ==
  [i \in Item |->
     LET of == {b \in Page : b.item = i}
     IN  IF of = {} THEN phone.store[i]
         ELSE (CHOOSE b \in of : \A a \in of : a.sequence <= b.sequence).revision]

LatestAlways == phone.latest              \* Mutant: also where there is more.

NextCursor == IF HasMore THEN Max({b.sequence : b \in Page}) ELSE phone.latest

\* ... and the batches.
ReadRows ==
  /\ phone.at = "rows"
  /\ phone' = [phone EXCEPT !.at = "idle", !.store = Upserted, !.cursor = NextCursor, !.latest = 0]
  /\ UNCHANGED <<tables, intent, requests, history>>

\* A snapshot is stored whole in one transaction and then read page by page.
CreateSnapshot ==
  /\ phone.at = "resync"
  /\ phone' = [at |-> "paging", store |-> Projected, cursor |-> head, bound |-> epoch,
               latest |-> 0]
  /\ overtaken' = FALSE
  /\ UNCHANGED <<tables, intent, requests, effects, buried, webWrites>>

ReadSnapshotPages ==
  /\ phone.at = "paging"
  /\ phone' = IF phone.bound # epoch THEN Cleared ELSE [phone EXCEPT !.at = "idle"]
  /\ UNCHANGED <<tables, intent, requests, history>>

----------------------------------------------------------------------------
\* Retention, in one transaction: batches older than the cutoff go, and so do the
\* rows deleted before it, and snapshots that have expired: a phone that is reading
\* one is refused its next page.
Retain(cutoff) ==
  /\ cutoff <= MaxCompacted /\ \E b \in feed : b.sequence = cutoff
  /\ compacted' = Max({compacted, cutoff})
  /\ feed' = {b \in feed : b.sequence > cutoff}
  /\ row' = [i \in Item |->
       IF row[i].state = "deleted" /\ row[i].deletedAt <= cutoff
       THEN [state |-> "absent", revision |-> 0, deletedAt |-> 0] ELSE row[i]]
  /\ overtaken' = (overtaken \/ (phone.at = "rows" /\ phone.cursor < cutoff))
  /\ \/ UNCHANGED phone
     \/ phone.at = "paging" /\ phone' = Cleared
  /\ UNCHANGED <<retired, head, epoch, receipts, intent, requests, effects, buried, webWrites>>

----------------------------------------------------------------------------
PhoneStep ==
  \/ ReadHead \/ ReadRetention \/ ReadRows \/ CreateSnapshot \/ ReadSnapshotPages

Handle(m) ==
  \/ ReplayReceipt(m)
  \/ \E e \in Epoch : e <= epoch /\ (RejectDependent(m, e) \/ RefuseStale(m, e) \/ ApplyCommand(m, e))

SyncUser ==
  \/ \E i \in Item : WebEdit(i) \/ WebDelete(i)
  \/ \E k \in Intent, kind \in Kind, i \in Item : Compose(k, kind, i)

SyncNext ==
  \/ SyncUser
  \/ PhoneStep
  \/ \E k \in Intent : Rebuild(k)
  \/ \E m \in requests : Handle(m)
  \/ \E cutoff \in 1 .. MaxHead : Retain(cutoff)
  \/ RaiseEpoch

\* An answer that reaches the phone, which it may have to act on.
Answered ==
  \/ (\E m \in requests : Handle(m)) /\ intent' # intent
  \/ \E k \in Intent : Rebuild(k)

\* The phone keeps polling and sending, and not every answer is lost.
SyncFairness ==
  /\ WF_syncVars(PhoneStep)
  /\ WF_syncVars(Answered)

SyncSpec == SyncInit /\ [][SyncNext]_syncVars /\ SyncFairness

----------------------------------------------------------------------------
(* Properties *)

SyncTypeOK ==
  /\ row \in [Item -> [state : {"absent", "live", "deleted"}, revision : 0 .. MaxRev,
                       deletedAt : 0 .. MaxHead]]
  /\ retired \subseteq Item
  /\ head \in 0 .. MaxHead /\ compacted \in 0 .. head /\ epoch \in Epoch
  /\ feed \subseteq Batch /\ \A b \in feed : compacted < b.sequence /\ b.sequence <= head
  /\ receipts \in [Command -> [status : Status \cup {"none"}, revision : 0 .. MaxRev]]
  /\ intent \in [Intent -> [state : {"none", "open", "stale", "done", "refused"}, kind : Kind,
                            item : Item, expected : FromReceipt .. MaxRev,
                            after : {0} \cup Intent, epoch : Epoch]]
  /\ requests \subseteq [intent : Intent, epoch : Epoch, after : 0 .. MaxEpoch]
  /\ phone \in [at : {"resync", "paging", "idle", "retention", "rows"},
                store : [Item -> 0 .. MaxRev], cursor : 0 .. MaxHead, bound : Epoch,
                latest : 0 .. MaxHead]

(* What the phone was told of an intent is what happened to it, and stays   *)
(* so whatever requests still arrive: carried out once, or never (receipts  *)
(* are looked up first, and a command of another epoch is never new).       *)
AnswersHold ==
  \A k \in Intent :
    /\ effects[k] <= 1
    /\ intent[k].state = "done" => effects[k] = 1
    /\ intent[k].state \in {"stale", "refused"} => effects[k] = 0

(* What the phone's copy lacks is still to come: a batch after its cursor   *)
(* has it, or the cursor is too old and the phone will be told so.  Unless  *)
(* a compaction went by between two queries of one read.                    *)
NothingMissed ==
  phone.at \in {"idle", "retention", "rows"} /\ phone.cursor >= compacted /\ ~overtaken =>
    \A i \in Item :
      phone.store[i] # Image(i) => \E b \in feed : b.sequence > phone.cursor /\ b.item = i

(* A deleted item never comes back under its client id, not after its row   *)
(* has been purged and not by a command that was on its way since.          *)
NoResurrection == \A i \in buried : row[i].state # "live"

(* A command that depends on another is carried out after it or not at all. *)
DependentsFollow ==
  \A k \in Intent : intent[k].after # 0 /\ effects[k] > 0 => effects[intent[k].after] > 0

(* The command that was built for an intent last.                           *)
Cur(k) == [intent |-> k, epoch |-> intent[k].epoch]

Log == INSTANCE IntentLog WITH
  told    <- [k \in Intent |-> intent[k].state],
  after   <- [k \in Intent |-> intent[k].after],
  decided <- {k \in Intent : Received(Cur(k))},
  times   <- effects

(* Lost, late and repeated requests, receipts, epochs and snapshots make a  *)
(* log of intents (IntentLog): each is decided once, in the user's order    *)
(* and after what it depends on, and answered as it was decided.            *)
IntentsInOrder == Log!Spec

(* Once the edits end, every intent has its answer and the phone has caught *)
(* up with the workspace, unless a compaction overtook it.                  *)
InStep ==
  /\ \A k \in Intent : intent[k].state \notin {"open", "stale"}
  /\ overtaken \/ (phone.at \notin {"resync", "paging"} /\ phone.store = Projected)

SyncEnds == <>[]InStep
=============================================================================
