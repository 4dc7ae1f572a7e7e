# FlowSpace: a verification project

FlowSpace is a note and task service: a Go backend (`src/backend`) that stores
every workspace in SQLite or PostgreSQL, and web, macOS and mini-program
clients. This directory models the parts of the backend whose correctness
depends on the order in which several actors act, checks the models with TLC and
proves theorems about them with TLAPS.

Contents

1. [Inventory](#1-inventory)
2. [Modules](#2-modules)
3. [The migration model](#3-the-migration-model)
4. [The generation model](#4-the-generation-model)
5. [The task commands](#5-the-task-commands)
6. [The services of a workspace](#6-the-services-of-a-workspace)
7. [Runs, bounds and fairness](#7-runs-bounds-and-fairness)
8. [Findings](#8-findings)
9. [Proofs](#9-proofs)
10. [What is not modelled](#10-what-is-not-modelled)
11. [Plan](#11-plan)

To repeat the checks:

    tlc -workers 2 -config MigrationSafety.cfg MCTaskMigration
    tlc -workers 2 -config GenerationSafety.cfg MCOccurrenceGeneration
    tlc -workers 2 -config WorkspaceServices.cfg MCWorkspaceServices
    tlapm TaskMigration_proofs.tla
    tlapm WorkspaceServices_proofs.tla

and likewise for each row of the table of runs and each `*_proofs` module. A call of
`tlapm` checks the proofs of the module it names and not those of the modules that
one extends.

## 1. Inventory

Paths are relative to `src/backend/internal` unless they begin with `src/`.

### 1.1 Components

| Component | Durable state | Operations | Talks to |
|---|---|---|---|
| Task-domain migration (`taskmigration`, `src/backend/cmd/flowspace-admin`) | `workspace_task_domain_state`, `task_domain_legacy_outbox`, `task_domain_legacy_id_map`, version ledger | install triggers, backfill, replay, drain, reconcile, mark ready, cut over, fail, recover | legacy rows (by triggers), v2 rows, the tenant anchor |
| Fenced tenant writer (`storage/*/tenant_writer.go`) | `tenant_workspaces.epoch`, first-write mark | fenced read and write, fence and activate a workspace | every v2 command |
| Task runtime (`taskruntime`) | none (a cached runtime per workspace) | select the model, build a runtime for one epoch | state row, writer, generation nudge |
| Generation jobs (`generationclaims`) | `task_domain_generation_jobs` in the control database | ensure, claim under a lease, complete | scheduler and workers |
| Generation daemon and worker (`taskgeneration`, `taskdomain/generator*.go`) | `generation_watermark`, occurrences | reconcile, nudge, plan, insert missing, complete, acknowledge | tenant and control database, never in one transaction |
| Schedules, occurrences, tasks (`taskdomain`) | tasks, schedule versions, occurrences, logs | create, publish, pause, resume, cancel, archive, reschedule one or all following, start, finish, block, skip, reopen | fenced writer |
| Dependencies, completion, projects, roadmaps (`taskdomain`) | edges, requirements, projects | add and remove an edge, evaluate completion | fenced writer |
| Runtime epochs (`runtimecontrol`, `tenantruntime`) | control row: epoch, mode, binding | advance the epoch, change the binding, resolve | tenant writer, admin commands |
| Transcription (`transcriptionjob`) | `transcription_jobs` | enqueue, claim, heartbeat, fail, complete | notes, change feed, speech service |
| Voice audio cleanup (`voiceaudiocleanup`) | `voice_audio_cleanup_jobs` | claim, remove object, complete, fail | object store |
| Content import (`contentimport`, `storage/contentimportdb`) | `content_imports`, artifacts | create, claim, store artifact, complete, fail, cancel, retry, delete | content hosts, notes |
| Mobile v2 commands (`mobilev2command`, `mobilev2service`) | ledger of receipts | prepare, execute, replay a receipt | task and note commands |
| Mobile v2 sync (`mobilev2sync`, `mobilev2change`, `mobilev2projection`) | change batches, snapshot sessions, retention | snapshot page, changes after a cursor, retention | every write that publishes a change |
| Mobile v1 sync (`mobilesync`, `mobilecontract`) | change log, conflicts | push, pull, shut down | legacy tasks and notes |
| Sign-in, native clients, OAuth (`auth`, `service/native.go`) | sessions, device tokens, OAuth states | issue, refresh, revoke, exchange | clients |
| Legacy tasks, events (`service`, `repository`) | legacy rows | create, edit, delete, generate | outbox triggers |
| Notes, folders, inbox, search | rows | create, read, update, delete | change feed, external sync |
| Notion sync (`service/sync_dispatch.go`, `service/notion_bidirectional.go`) | bindings, claims, states, suppressions and tombstones of notes | bind, unbind, push, pull, both, confirm or restore a deletion | Notion, notes |
| Obsidian sync (`service/obsidian_bidirectional.go`) | the same tables | the same, with a directory | files, notes |
| Settings, credentials, AI runtime, object store, outbound | configuration rows | read and write | external services |
| Schema migration, bootstrap, routing, user interfaces | none of their own | start-up | all |

### 1.2 What is hard, and what makes each part correct

- **Migration.** Legacy clients write while the coordinator copies; the
  coordinator may run twice and may die between any two transactions; an
  operator may fail and recover it; v2 requests resolved for an old epoch are
  still in flight. *Correct*: no accepted write is lost or duplicated, a cutover
  switches to exactly the frozen legacy data, nothing but a client changes the
  v2 rows afterwards, rolling back is impossible after the first v2 write, and a
  migration that is kept running ends.
- **Generation.** The window is extended by workers that hold a lease in one
  database and write in another, while users edit the schedule and act on the
  occurrences. *Correct*: no occurrence of a superseded rule survives, nothing a
  user did is lost, the watermark tells the truth, a superseded worker cannot
  report, and the window is extended every day.
- **Task commands.** A command is one transaction, but the client that sends it
  read the task earlier, and the generator adds work without a change of
  revision. *Correct*: lifecycle and occurrences agree, an ended task and a
  completed project keep no runnable work, and a command touches only what its
  client saw.
- **Epochs and caches.** A runtime is cached while the workspace moves on.
  *Correct*: a write commits only in the store that owns the workspace.
- **Lease-based jobs** (transcription, cleanup, import). *Correct*: one result
  per job, no result after a cancel, the user's edits survive, attempts are
  bounded, a job that can succeed does.
- **Mobile commands and feed.** Commands arrive late, twice or through a cached
  runtime; a page of the feed is read by three queries of no common transaction.
  *Correct*: a repeated command is applied once and answered alike, a deleted
  item does not return, and a device that follows the feed reaches the server's
  state.
- **External sync.** A push or pull is a chain of remote calls and transactions
  with no lock around it, and users move the note meanwhile. *Correct*: a note
  that left a target or was deleted stays so, an edit on the other side is not
  overwritten unread, and a note synced again and again reaches its page.

`PROJECT.json` lists the hazards one by one, at the line where each bites, with
the properties that cover it.

## 2. Modules

| Module | Role |
|---|---|
| `TaskDomainState` | the durable state row: its fields, `ValidState` (`Validate`), and one operator for the guard and one for the effect of each command of `state.go` |
| `TaskMigration` | the migration of one workspace: coordinators, cutover, operator, legacy and v2 clients; extends `TaskDomainState` |
| `TaskData` | abstract specification: one table of task data, served by one model at a time |
| `TaskMigration_proofs` | theorems about `TaskMigration` |
| `MCTaskMigration` | its TLC instances: migration ids and symmetry |
| `OccurrenceGeneration` | clients, scheduler and workers that maintain the rolling window of one workspace |
| `OccurrenceGeneration_proofs` | theorems about it |
| `MCOccurrenceGeneration` | its TLC instances |
| `TaskAggregate` | tasks, occurrences, schedules and projects under the commands of clients that may act on an old reading |
| `TaskAggregate_proofs` | theorems about it |
| `MCTaskAggregate` | its TLC instance |
| `ContentImport` | podcast imports: users against workers with leases |
| `VoiceNotes` | one voice note: uploads, transcription, edits and cleanup of its audio |
| `LeasedJobs_proofs` | theorems about the two, whose workers hold leases |
| `MobileSync` | one phone: its commands, the change feed, retention and the runtime epoch |
| `IntentLog` | abstract specification: what the user did on a phone as a log, each entry decided once and in order |
| `MobileSync_proofs` | theorems about `MobileSync` |
| `NotionSync` | one note, its sync targets and its pages in Notion |
| `NotionSync_proofs` | theorems about it |
| `RuntimeEpoch` | the rollout of the task domain across the tenant and the control database, and the requests that resolve a runtime meanwhile; its migration steps are those of `TaskDomainState` |
| `RuntimeEpoch_proofs` | theorems about it |
| `MCWorkspaceServices` | imports, voice notes, phone, Notion and rollout in one TLC instance |
| `WorkspaceServices_proofs` | the composition: what is proved of each of the five holds of all together |

`TaskMigration` instantiates `TaskData` (as `Data`) with the refinement mapping
`data <- Rows, serving <- st.model, irrevocable <- v2Written`: the table is the
v2 rows while v2 serves, the legacy rows before.

`MobileSync` instantiates `IntentLog` (as `Log`): what was told of an intent and what
it depends on are fields of `intent`, an intent is *decided* when the command built
for it last has a receipt, and `times` is `effects`. Epochs, requests, receipts,
rows and the phone's copy have no counterpart in the log.

Definitions commented as *Mutant* are not part of a specification. Each is a
plausible mistake in the definition that follows it; put in its place, it makes
the property named beside it in `PROJECT.json` fail, which shows that the
property depends on what the code does there.

## 3. The migration model

### State

| Variable | Code |
|---|---|
| `st` | the row `workspace_task_domain_state` (phase, model, revision, epochs, fence, watermark, cutover sequence, first-write mark) |
| `anchor` | `tenant_workspaces.epoch` |
| `legacy`, `triggers` | legacy rows with their version ledger; whether the triggers exist |
| `outbox`, `nextSeq`, `open` | committed events; the sequence; events of uncommitted PostgreSQL transactions |
| `v2`, `idmap` | v2 rows and `task_domain_legacy_id_map` |
| `admitted` | epochs for which some request holds a resolved runtime |
| `co` | what each process holds in memory between transactions |
| `v2Written` | history variable: a v2 write has committed |

A row's content is the logical version that wrote it, `Edited` if a v2 client
wrote it, `Absent` if there is none. That is exactly what the projection and the
comparison tell apart: version and existence decide every branch of
`replay_projector.go` and `reconcile.go`, the columns none.

### Actions

Every transaction is an action. The coordinator's `Step` is a program counter in
`co[c].pc`, since each step loads the row, decides, and acts in a later
transaction on a row that may have changed:

    Load -> Install -> Start                      prepare, StartBackfill
    Load -> TakeSnapshot -> Backfill              backfilling
    Load -> FetchPage -> CommitPage ... -> Drain  catching_up
    Load -> FetchPage -> CommitPage ... -> Capture -> Observe
         -> Repair -> Capture ... | -> Reload -> Mark   draining
    LoadReady -> CheckGates -> Flip               flowspace-admin cutover

`Abandon` is the death of the process, or the error return of any step whose
compare-and-swap lost. `OperatorFail` and `OperatorRecover` are the transitions
`Fail` and `Recover` of `state.go`, which the state store accepts; the runbook has a
"maintenance recovery command" (`src/docs/task-domain-v2-rollout-runbook.md:149-151`),
but no command of `flowspace-admin` issues either transition yet. `OperatorRecover` returns to the legacy model,
from which a new migration can start. `LegacyStep` is a legacy client: one write with its trigger,
on PostgreSQL as a transaction that takes its sequence number when it writes and
commits or aborts later. `ResolveV2` and `V2Write` are a request that resolves a
runtime and writes through it, perhaps much later.

On SQLite a transaction reads after it owns the only write lock, so a backfill or
a page is one action. On PostgreSQL its first statement fixes the snapshot and
then waits for the row lock, which open legacy transactions hold: `TakeSnapshot`
and `Backfill` or `CommitPage` are separate actions there (`View`,
`StateRowFree`).

### Properties

`CutoverIsFinal`, `CutoverExact`, `MapTruthful`, `NothingSkipped`,
`RollbackBoundary` and `DurableStateAgrees` are invariants; `Forward` and
`OnlyClientsWriteV2` are action properties; `DataPreserved` is the refinement of
`TaskData`; `MigrationCompletes` is the liveness property. Each is stated in
words above its definition.

## 4. The generation model

### State

| Variable | Code |
|---|---|
| `today` | the current date in the schedules' time zone |
| `active` | the task's lifecycle is `active` (`GenerationEnabled`) |
| `versions` | `domain_task_schedule_versions_v2`: half-open effective ranges and the dates the rule matches |
| `occ` | `domain_task_occurrences_v2` by occurrence key |
| `watermark` | `generation_watermark` |
| `job` | the row of `task_domain_generation_jobs`; `due` and `expired` stand for the comparison of its times with the clock |
| `worker` | what a worker holds: its claim id and date, then its claim id and outcome |
| `vouched` | history variable: the number of versions when the watermark was written |

An occurrence is `none`, `open` (nobody touched it), `kept` (something protects
it from `scheduleOccurrenceMustBePreserved`: started, blocked, terminal or
overridden) or `reopened` (finished, then reopened, with nothing left to protect
it). A reopened occurrence keeps its immutable execution logs, so an edit that
would delete it fails on their foreign key and changes nothing. A recurrence is the set of dates it matches: the rule arithmetic, time zones
and `ends_on` decide which dates, never what is done with them. Tasks that occur
once are not generation targets and are left out, as are the effective ranges
without a start that only migrated, never edited schedules have.

### Actions

`Reschedule` is `RescheduleThisAndFuture` with its reconciliation of all
occurrences; `Touch`, `Reopen` and `PauseOrResume` are what generation and edits
observe of the other commands. `EnsureScheduled` is the periodic scan and the
nudge after a commit, which are the same statement. `ClaimJob`, `Generate`,
`Refuse`, `Interrupted` and `Acknowledge` are a worker's batch: the date is read
before the claim, the window of every enabled task is generated in one tenant
transaction, and the control database is told in another. `LeaseExpires` lets
another worker take the job over at any time after the claim; `Crash` loses what
a worker holds.

A generation is one action because both engines exclude every other fenced write
of the workspace while it runs (`BEGIN IMMEDIATE` on SQLite; on PostgreSQL the
anchor row and the commit head are locked `FOR UPDATE`). The claim's compare on
the job revision is left out: the claim id already changes with every claim. An
id is the smallest one that neither the row nor a worker holds, which gives
every reuse that could confuse two claims and no unbounded counter.

### Properties

`NoOrphans`, `WatermarkHonest` (invariants), `HistoryKept`, `EndedByHolder`
(action properties) and `WindowsFilled` (liveness).

Three constants widen the environment, so that each run says what it assumes:
`EditsPast` (an edit may materialise less than up to today), `EditsAgain` (an
edit may start on the current version's first date) and `DaysLost` (which
tasks, active or paused, may see a day end before it was generated).

## 5. The task commands

### State

| Variable | Code |
|---|---|
| `project` | `domain_projects_v2`: `status`, `archived_from_status` |
| `task` | `domain_tasks_v2` (lifecycle, revision, project) with the schedule's revision, the kind (single or recurring) of its current version and the kinds its versions ever had |
| `occ` | `domain_task_occurrences_v2` by task and occurrence key: status, revision, the kind of the version it was made from, whether something protects it from schedule edits, whether it has execution logs |
| `reading` | what one client read of all tasks some time ago |

### Actions

Each command is one transaction, and the transactions of a workspace exclude one
another (`BEGIN IMMEDIATE` on SQLite; on PostgreSQL `LockCommitHead` takes the
commit head `FOR UPDATE`), so that each command is one action. The concurrency
is that of the clients: a command carries the revisions of the task, the schedule
and the occurrences that its client read. `TaskCommand(v, t)` is a command of a
client whose reading is `v`: `reading` for one that read long ago, `Fresh` for
those that read just now.

`CreateTask`, `MoveTask` (publish, pause, resume, restore), `EndTask` (cancel,
archive), `DeleteTask`, `PatchTask` (as far as the project), `ExecuteOccurrence`
(start, block, unblock, complete, skip, cancel, reopen), `RescheduleOccurrence`
and `RescheduleThisAndFuture` are the commands of the services; `MoveProject` and
`DeleteProject` those of `project_service.go`, for ordinary projects. A project
command carries one revision, which every project command changes and no task
command reads, so that an old reading is simply refused. `GenerateMissing` is what
the worker of section 4 does to a task: it adds occurrences and changes no
revision. Whether the completion requirements allow an occurrence to be completed
is not modelled: a command that is refused is like one that is not sent.

Which dates a schedule gives, and which are past, are inputs, since the
properties hold for all of them. The recurrence of an aggregate is read as the
code reads it (`Recurring`): from the versions its occurrences were made from,
not from the current one.

### Properties

`OneOffAgrees`, `CompletedIsQuiet` (invariants), `EndingIsComplete` and
`ActsOnWhatItSaw` (action properties). The first two are about tasks whose
schedule never recurred; what the code does with others is the reason:

- The generator does not ask the project, so that a recurring task of a completed
  project gets new runnable occurrences.
- A recurring task may be active with all its occurrences done, and cancelled or
  archived with occurrences that a reschedule adds afterwards:
  `RescheduleThisAndFuture` does not look at the lifecycle.

Two more observations, which no property states: a cancelled one-off task that is
restored is active with a cancelled occurrence, which `ReopenSingleOccurrence`
refuses to reopen because it asks for a *completed* task (`aggregate.go:74`; the
design, `src/docs/superpowers/specs/2026-07-21-project-task-schedule-domain-redesign.md`
lines 350 and 1401, has the task restored first and then its occurrences reopened); and the only occurrence of a paused task
can be started but not completed.

## 6. The services of a workspace

Five parts share the pattern "read, call something outside, come back and hope
that the row still says so", and share no state. `MCWorkspaceServices` composes
them: `focus`, chosen at the start, says which of them a behaviour is about, and
the others stay as they are. One run then checks all five side by side.

### Imports (`ContentImport`)

`imports` is the row of `content_imports` (status, stage, lease holder, whether
the lease has lapsed, attempt, what was found, whether AI is asked for),
`transcript` the stored artifact, `notes` the notes made, `importer` the step a
worker is about to take. The user creates, cancels, retries and deletes;
`ClaimImport` ... `PublishImport` are the statements of `RunOne`, each fenced by
token and status (`ImportHeld`) except `StoreTranscript`, as in the code.
`AbandonImport` is a death or an error reported nowhere. A lease lapses at any
time once its holder is gone, and by mishap before. A token is named by the
worker that drew it, since a worker that drew another has forgotten the last.

Properties: `OneNote`, `CancelHolds`, `ImportsEnd`. The design
(`src/docs/superpowers/specs/2026-08-05-podcast-to-note-import-design.md:622`)
asks for an unexpired lease; the code asks for token and status only, and the
properties hold all the same. An error of the last transaction that repeats for
ever would have the import taken over for ever: `ImportsEnd` counts such errors
among the bounded mishaps.

### A voice note (`VoiceNotes`)

`note`, `voice`, `job`, `results`, `cleanup` are rows, `objects` the object
store, `uploader`, `transcriber`, `cleaner` what each request or worker is doing.
Every call of the object store is an action of its own, between the transactions
around it. Only the latest job of the voice note is kept: no other is active.
`dictation` is the second way to a transcript, `POST
/api/voice-notes/:clientID/transcription` (`TranscribeVoiceNote`): a request that
opens the audio (`OpenDictation`), waits for the speech service, and then
overwrites the body of the note (`PublishDictation`), or comes to nothing
(`EndDictation`). It has no job and no lease, so that no change of the audio ends it.

Properties: `TranscriptOfCurrentAudio`, `GoneIsSilent`, `ErasedForGood`,
`VoiceWorkEnds`, and `AudioHeld`, which the code violates (finding 5). Three
exceptions are stated in them because the code has them:

- A *first* upload that comes late, after a replacement, leaves its object in the
  store and no row knows of it (`leaked`).
- `note.delete` of a device leaves the voice note and its job, whose completion
  rolls back and is tried again without end.
- A synchronous request compares neither audio revision nor digest nor
  `audio_state` once the speech service has answered (`service/native.go:483-494`).
  When the audio was replaced or deleted while it listened (`overtaken`), it
  publishes the transcript of the old recording all the same, over what the user
  wrote meanwhile. `TranscriptOfCurrentAudio` holds of workers without exception
  and of such requests unless they were overtaken.

### A phone (`MobileSync`)

`row`, `retired`, `head`, `feed`, `compacted`, `epoch`, `receipts` are tables;
`intent` is what the user did on the phone and what the phone was told of it,
`requests` the commands in flight (each may be delivered at any time, and again),
`phone` its copy and cursor. `ApplyCommand` is the whole transaction of a
command: dependency, epoch, domain change, receipt and batch. A server process
may use any epoch up to the present one as the one it resolved. `ReadHead`,
`ReadRetention` and `ReadRows` are the three queries of `ReadChanges`. The phone
is modelled from what the protocol allows it: it names a revision it knows or
takes it from the receipt of the command before, builds a command refused for its
epoch again under a new id together with those that depend on it, and takes new
client ids or those of items deleted meanwhile.

Properties: `AnswersHold`, `IntentsInOrder`, `NoResurrection`, `NothingMissed`
and `PhoneCatchesUp`. `IntentsInOrder` is the refinement of `IntentLog`: seen
through the mapping of section 2, a command that is carried out or refused decides
the first undecided intent (`Carry`, `Refuse`), an answer from a receipt or a refusal
for the epoch tells what is decided (`Tell`), `Rebuild` tries again (`TryAgain`), and
everything else (browser edits, snapshots, pages, compaction, epochs, requests that
come to nothing) is a stutter. `DependentsFollow`, that what depends on an intent
is carried out only if that was, is one of its consequences. `NothingMissed` and
`PhoneCatchesUp` make one exception the code has: a compaction
between two of the three queries (`overtaken`) can hide batches from the phone.

### A note in Notion (`NotionSync`)

`local` is the note; `bound`, `claim`, `mark`, `suppressed`, `tomb` are its rows
in the five sync tables; `remote` the pages (external, from how the code uses
Notion); `request` the steps of each push, pull, bidirectional sync, restoration
or confirmation. Every Notion call and every transaction is one action, and any
of them may fail (`Breaks`), an update also halfway (`UpdateHalf`).

Properties: `LeftForGood`, `DeletedForGood`, `EditsKept`, `NotionCatchesUp`.
What the code does differently from its design
(`src/docs/superpowers/specs/2026-06-18-single-note-sync-target-design.md`), or
what a user might not expect, appears in the properties as an exception:

- A change of target writes no suppression (lines 161 and 277 of the design ask
  for one), so a pull that passed its checks before may bind the note again:
  `LeftForGood` counts a change of target only when no request aims at the old one.
  All that stops later pulls is the tombstone, and it is one of the *claim*. A
  claim and the state of a target can name different pages (an import took one and
  a push created another), so that a change of target also counts only when both
  name the same page, or the state names none. The exception was found by trying
  to prove the property: with ten acts or so a pull of the state's page binds the
  note back to a target it had left, beyond the bounds of the run.
- The tombstone left at the old target blocks every pull of a page that carries
  the note's id, in any target. Edits made at the new page then never arrive, and
  the next push overwrites them: the last disjunct of `EditsKept`.
- A reserved claim without a state whose page is archived makes every push fail,
  and no deletion is shown to the user: third disjunct of `Settled`.
- Two concurrent first pushes create two pages, of which the note keeps one. A push
  between a pull's query and its listing has its note marked as deleted there, until
  the next pull.
- A death after `UpdateRemoteNote` has the next pull take our own text for an
  edit, and a half-done update leaves a mixed page; both end in agreement, on
  either text.
- Confirming a deletion loads the state before its transaction begins.
- `PutNoteSyncBinding` and `DeleteNoteSyncBinding` do not load the note, so that a
  request that is late, or comes from a second window, binds or unbinds a deleted
  note as long as its row is there. Binding it to the target of its tombstone erases
  the tombstone (`handler/sync_binding.go:99`), and leaving a target whose claim a
  late push reserved puts that page's tombstone in its place. Once retention has
  removed the row, a pull imports the page again. `DeletedForGood` therefore
  lasts as long as the tombstone of the page does: `deletedWith` is reset where the
  user's request takes it away (`Forgets`), and only there.
- `note.delete` of a device (`DeleteFromPhone`) writes no tombstone of the sync: it
  promises nothing about Notion, and `DeletedForGood` says nothing of it, unless the
  note is deleted in the browser too (`DeleteLocal` may repeat a deletion).
- A state at one target and a binding to another make every pull of the first
  target refuse (`ensureTargetSyncHasNoForeignBindings`).

### A rollout (`RuntimeEpoch`)

`tenant` is the row of `workspace_task_domain_state` in the tenant database and
`control` the row of `workspace_runtime_state` in the control database; `rollout`
is the step of `flowspace-admin task-migration-cutover` and what it has read,
`up` says whether the server runs, `runtime` is its cached runtime and `call`
what each request is doing. The migration up to `ready` (`Migrate`) takes the
transitions of `TaskDomainState`, with an empty outbox.

`StartRollout`, `CutOver`, `ReadControl`, `AdvanceEpoch` are the command: its
gates and the cutover in the tenant, the read of the control row, the
compare-and-swap that raises the control epoch. The command may die before any of
them (`CommandDies`) and is started again; `StartServer` may happen in the middle
of it, and a user may change a service binding (`ChangeBinding`), which makes the
compare-and-swap fail. A request takes one action for each step of the resolvers
(`LoadVersion`, `LookUp`, `LoadSnapshot`, `Build`, `Verify`, `Invalidate`, `Act`),
twice: for the selector of its route and for its application. `GateFree` is the
gate of a workspace in the resolver.

Properties: `RolloutEnds` in the run; `EpochsInStep` and `V2IsCurrent` are proved.
`V2IsCurrent` says why no fence has to turn away a v2 request that the cutover
overtook: the tenant's epoch rises at the drain, before any v2 runtime exists, and
a legacy runtime is refused by its model. `EpochsInStep` says that the control
epoch is at most one behind, all that `synchronizeControlEpoch` repairs. It holds
because no command issues `Fail` or `Recover`: a drain that fails and a recovery from
v2 each raise the tenant epoch again, and the wider gap would be refused, although
the runbook (lines 108-110) has the cutover command repair a stale control epoch.

## 7. Runs, bounds and fairness

| Run | Instance | States | Shows |
|---|---|---|---|
| `migration` | 2 rows, 1 coordinator, PostgreSQL (concurrent legacy transactions), ids reused, pages of 2, 3 events, revision up to 8 | 1,138,581 | types, the row's and the map's invariants, the single writer and the refinement, through repeated fail, recover and start again |
| `race` | 1 row, 2 coordinators of one migration, 3 events | about 1.15 million | compare-and-swaps protect against a concurrent coordinator: the cutover is exact and the migration moves forward; on SQLite no event is skipped |
| `liveness` | 1 row, 1 coordinator, 2 events | 1,832 | a migration ends |
| `replay_skip` | as `migration`, 2 events | until violated | finding 1 |
| `stale_repair` | 1 row, 2 coordinators, 1 event | until violated | finding 2 |
| `generation` | 1 task, 2 workers, horizon 1, days 1 and 2, 2 versions, every environment constant on | about 2.08 million | all safety of generation |
| `window` | 1 task, 1 worker, horizon 1, 3 days, 2 versions, environment constants off | about 551,000 | the window is filled again and again |
| `empty_version` | as `window`, 1 day, `EditsAgain` | until violated | finding 3 |
| `long_pause` | as `window`, 4 days, no edits, `DaysLost = {FALSE}` | until violated | finding 4 |
| `commands` | 1 task, 2 projects, 1 date besides the key of a single occurrence, 4 task, 2 schedule and 3 occurrence revisions | 998,268 | the task commands |
| `services` | see below | 814,148 | safety and liveness of the five services, and that the phone's commands implement `IntentLog` |
| `audio_lost` | 2 uploads, 2 recordings, a transcriber and a cleaner without work | until violated | finding 5 |

Why the bounds are enough:

- `MaxSeq = 3` events on two rows give a row that is created, deleted and created
  again within a page of two and across pages of one, with an event on either
  side of every snapshot, watermark and drain. No condition of the replay
  compares more than a watermark, an event and the head.
- `MaxRevision` bounds only the revision from which a new migration may start, so
  no run is cut in the middle of a migration. `MaxRevision = 8` allows a second
  complete migration after a recovery; 1 allows one.
- Two coordinators of one migration are enough for one to hold a stale row: every
  guard compares a held row with the current one, never with a third process.
- A horizon of one day keeps what a horizon of 90 has: keys before, in and after
  the window, and a window that moves by less than its length. Two versions give
  one closed and one open range. Two workers are a holder and a successor.
- In `commands`, 4 task revisions let a task be created, published, completed and
  reopened; 2 schedule revisions turn a recurring task into a one-off and back; the
  date and `Once` give a task with two occurrences of different versions. The old
  reading is taken at revision 2, after which the generator may add work and two
  more commands may follow. Projects are only two to move between, and alike
  (symmetry). Tasks share nothing but the project, whose status each asks by
  itself.
- Deadlock is checked in the migration and generation runs. `services`,
  `audio_lost` and `commands` do not check it: there a workspace may come to rest,
  when imports have ended and users have nothing left to do, or have deleted
  everything.
- Symmetry (rows, processes, workers) is used only in runs without liveness.

The instance of `services`:

- imports: one import, two workers, one retry, two mishaps. A second import would
  only wait its turn; two workers are a holder and a successor.
- voice: two requests, two recordings, one transcriber, two cleaners, one job, two
  attempts, one synchronous request for a transcript, one trouble, audio revisions
  up to 4 (an upload, two replacements and a deletion). A synchronous request counts
  as the trouble. The recordings are alike, so that the first upload is always of
  the same one (`Opening`), which halves the states. Safety was also checked on its own with two transcribers and two
  troubles (2,213,592 states), where a synchronous request meets a crash or a lost
  lease; `GoneIsSilent` and `TranscriptOfCurrentAudio` are proved for any numbers.
- phone: one item, two intents of which the second may depend on the first, two
  epochs, one edit in the browser, one compaction, pages of one batch, so that
  every page but the last has more to come. `IntentsInOrder` was also checked by
  itself with two edits in the browser (1.34 million states) and, not to the end, with
  three intents (7 million states).
- Notion: two targets, two pages, two requests of which one syncs regularly, two
  edits and three acts of users, other requests and failures. On its own it was
  also checked with four acts (2,832,179 states).
- rollout: two callers, of which one comes again and again and the other twice, two
  binding revisions, two outages. A request under way at the cutover and one that
  comes after it are the two callers; two outages allow a death on either side of
  the gap between the databases, or a server that is started in it.

Its liveness properties are all of the form "in the end for ever", with the focus
inside, so that TLC checks them in one tableau.

Fairness of the migration (`FairCoordinator`): weak fairness of `Load`, because
the runbook has the operator start the command again until the workspace is
ready; strong fairness of each transaction of the coordinator, because a retried
transaction is not assumed to fail every time although the process may die
(`Abandon`) between any two attempts. Nothing is assumed of clients, of the
operator's `fail` and `recover`, or of `Abandon`. Events are bounded, which
stands for a client that does not write faster than a page is replayed for ever;
the code has no such bound before the drain closes the fence.

The run `liveness` is one of SQLite. On PostgreSQL with two rows the event that
finding 1 skips can leave a difference that reconciliation does not repair, so
that the migration completes only after the operator has failed it; with one row
it completes (both checked separately, with open legacy transactions assumed to
end).

Fairness of generation: weak fairness of clocks (`RetryDue`, `LeaseExpires`), of
the scheduler's and the workers' loops (`Run` repeats after every interval,
also after an error) and of `Refuse`; strong fairness of `Generate` and
`Acknowledge`, since a worker may be interrupted or killed at any attempt but not
at all of them. Nothing is assumed of clients or of `NextDay`.

Fairness of the services: workers keep polling and leases expire (weak fairness of
`ImportWork`, `TranscriberStep`, `CleanerStep` and of the lapses); the phone keeps
reading, and not every answer that would tell it something is lost (`PhoneStep`,
`Answered`); the user asks again for the sync of a bound note (`RegularSync`), and
these syncs take their steps (`RequestStep` of the regular request), while an upload,
a synchronous transcription or any other sync may stop anywhere; the operator runs the
migration and the cutover command until it succeeds, and starts the server when no
command runs (`RolloutStep`, `StartServer`, as the runbook has it), and requests
come and take their steps. Nothing is assumed of users, and troubles, mishaps,
outages and acts are bounded: a service that fails for ever promises nothing.

## 8. Findings

1. **A replayed watermark can pass an uncommitted event** (run `replay_skip`,
   PostgreSQL). The design calls `source_watermark` the sequence already
   replayed. Sequence numbers are taken inside legacy transactions, and replay
   reads the outbox in a snapshot that may be older than the commit of a lower
   number. The event is never replayed. The final reconciliation compares whole
   tables, so `CutoverExact` still holds: the loss is repaired or the cutover
   refused.
2. **A repair can run after the cutover** (run `stale_repair`). Observing and
   applying a repair plan read neither the state row nor its epoch. A second
   coordinator that planned before the cutover inserts rows a v2 client has
   deleted since. Theorem `OnlyLateRepairsIntrude` says that this is the only way:
   with any number of processes, what is planned before the cutover and applied
   after it changes no row unless a v2 client has written in between, and then
   only as a repair. With a single migration process it cannot happen at all
   (`SoleWriterOfV2`).
3. **Editing a schedule twice on its first date stops generation** (run
   `empty_version`). Tenant migration 0013 allows the empty version `[date, date)`
   this leaves, and the key calculation refuses empty ranges, so every later
   generation of the whole workspace fails.
4. **A pause longer than the window stops generation** (run `long_pause`). The
   worker creates keys from today on, and the completeness check asks for every
   key since the first version. The days of the pause beyond the old window are
   never created, so after the resumption every generation of the workspace
   fails. A workspace whose service was down as long is in the same position, as
   is one whose schedule was edited from a past date without materialising up to
   today: hence the assumptions of `window`.
5. **A replacement can remove the recording that replaced it** (run
   `audio_lost`). `uploadVoiceAudio` removes the object key it read before it
   swapped the row. Keys are client id and digest, so another device that
   replaces the recording back to what it was gives the row that same key again;
   the late removal deletes the object the row names. Both requests were answered
   with success.

## 9. Proofs

### Migration

`TaskMigration_proofs` proves, for every set of rows and processes, every
assignment of migration ids, every page size and both engines unless stated:

| Theorem | Statement |
|---|---|
| `TypeInvariant` | `Spec => []TypeOK` |
| `DurableStateAlwaysAgrees` | `Spec => []DurableStateAgrees` |
| `NoRollbackAfterV2Write` | `Spec => []RollbackBoundary` |
| `MigrationMovesForward` | `Spec => Forward` |
| `CutoverAlwaysFinal` | `Spec => []CutoverIsFinal` |
| `MapAlwaysTruthful` | `Spec => []MapTruthful` |
| `CutoverAlwaysExact` | `Spec => []CutoverExact` |
| `OnlyLateRepairsIntrude` | `Spec => [][ServingV2(st) /\ v2' # v2 => ClientWrites \/ LateRepair]_vars` |
| `OnlyLateRepairsLoseData` | `Spec /\ [][~LateRepair]_vars => DataPreserved` |
| `SoleWriterOfV2` | `SingleProcess => (Spec => OnlyClientsWriteV2)` |
| `MigrationPreservesData` | `SingleProcess => (Spec => DataPreserved)` |
| `ReplaySkipsNothing` | `~Postgres => (Spec => []NothingSkipped)` |

A `LateRepair` is a repair that is carried out after the first write of a v2 client.
`OnlyLateRepairsIntrude` has no hypothesis. That `OnlyLateRepairsLoseData` excludes
late repairs, and the two theorems after it a second process, is necessary: the run
`stale_repair` shows such a repair with two processes. `replay_skip` violates the
last property on PostgreSQL.

Assumptions: `MigrationAssumption` and `ConstantsAssumption`, the types of the
constants. That a nonempty outbox has a last event is proved from the bound
`MaxSeq`, whose value is arbitrary, and a well-founded order on the naturals.

The argument has four layers, each an inductive invariant that uses the ones
before it.

- `RowInv` says what the durable row and the rows in memory are: types,
  `DurableStateAgrees`, `RollbackBoundary`; a row held by a process is not
  newer than the durable one and, at the same revision, equal to it
  (`RowsRemembered`); a process about to mark ready or to flip holds a row that
  satisfies that command's guard (`GuardsRemembered`); no admitted epoch is ahead
  of the row's, and one that equals it means v2 serves (`EpochsAdmitted`). Without `RowsRemembered` the
  compare-and-swap would prove nothing: equality of revisions has to imply
  equality of rows.
- `DataInv` adds that an open legacy transaction implies an open fence
  (`FenceHolds`), that every live row has a version once the triggers exist
  (`Baselined`), `CutoverIsFinal` and `MapTruthful`. The drain is where they meet:
  closing the fence requires the row lock, which open transactions hold.
- `FrozenMatch`: from the moment the final gates have passed on the current row
  (`Frozen`), v2 and legacy rows match, so the flip preserves it. It is stated
  from the gates and not from the flip because the gates and the flip are two
  transactions; the proof shows that nothing that can happen in between on an
  unchanged row breaks the match.
- `ServingInv` adds `NativeRests`: in a workspace that is v2 without a migration no
  process has anything to do. While v2 serves after a migration, a backfill or a page
  is stopped by the phase, and a repair before the first v2 write finds both sides
  equal (`FrozenMatch`) and writes what is there. Only a late repair is left, which
  gives `OnlyLateRepairsIntrude`; and in a behaviour without one every step maps to a
  step of `TaskData` or a stutter, by `MapTruthful` and `FrozenMatch`.

For one process, `Rests` says that it is idle while v2 serves, so that no planned
repair is left (`NoLateRepair`), and the theorems about `SingleProcess` follow from
the two before them.

`ReplayInv` (SQLite) relates the outbox to the ledger: the last event of a row is
its ledger row and sequences neither repeat nor reach the next one
(`OutboxIsHistory`), no process holds an old view (`NoOldViews`), and the
watermark is behind the sequence (`WatermarkBehind`).

### Generation

`OccurrenceGeneration_proofs`, for every set of tasks and workers, horizon, number
of days and versions, and whatever the environment constants allow:

| Theorem | Statement |
|---|---|
| `GenerationTypes` | `Spec => []TypeOK` |
| `NoOrphansHolds` | `Spec => []NoOrphans` |
| `WatermarkHonestHolds` | `Spec => []WatermarkHonest` |
| `HistoryKeptHolds` | `Spec => HistoryKept` |
| `EndedByHolderHolds` | `Spec => EndedByHolder` |

`NoOrphans` is inductive with the types. `WatermarkHonest` needs `VouchedExists`:
the watermark vouches only for versions that exist, so that the version an edit
appends outdates it. `EndedByHolder` rests on the choice of a fresh claim id: no
other worker holds the id of the present claim.

### Imports and voice notes

`LeasedJobs_proofs`, for any number of imports, requests, workers and recordings:

| Theorem | Statement |
|---|---|
| `ImportTypes` | `ImportSpec => []ImportTypeOK` |
| `OneNotePerImport` | `ImportSpec => []OneNote` |
| `CancelIsFinal` | `ImportSpec => CancelHolds` |
| `VoiceTypes` | `VoiceSpec => []VoiceTypeOK` |
| `GoneIsSilentHolds` | `VoiceSpec => []GoneIsSilent` |
| `TranscriptOfCurrentAudioHolds` | `VoiceSpec => TranscriptOfCurrentAudio` |
| `DeletedAudioIsErased` | `VoiceSpec => []ErasedForGood` |

`OneNote` is inductive with the types, which include that only an active import
has a holder. `TranscriptOfCurrentAudio` needs, for workers, `AudioInv`: what one has heard
under the job it holds has the digest of the row (`HeardCurrent`), because what is
stored under a digest has that digest (`StoredByDigest`) and the first key holds
the row's recording while the row names it. It shows why replacing and deleting
must end the job in the same transaction: afterwards the object may change. Note
that `AudioInv` cannot claim that the object is there (finding 5), only that it is
not another recording. For synchronous requests it needs `DictationInv`: they may
open audio that is already being deleted, and what is stored under the row's key is
the row's recording then too (`KeptAudio`), so that what they hear has the digest of
the row until they are overtaken (`HeardUnlessOvertaken`).

`ErasedForGood` needs `EraseInv`: unless something leaked, every object in the
store is named by the row, or a request under way is about to remove it
(`Accounted`, `Removes`). That is kept by a step of a replacement because it is
based on a revision of the row: while the revision stands, the row names the object
that the replacement will remove (`BasedOn`), so that the swap hands the old object
from the row to the request in one transaction. What a cleaner has removed does not
come back except with a request that will find the audio deleted and undo its own
upload (`Removed`); hence a cleanup can be recorded in a transaction of its own,
after the call of the object store.

### Task commands

`TaskAggregate_proofs`, for any projects, tasks, dates and revisions, and a client
whose reading is of any age:

| Theorem | Statement |
|---|---|
| `AggregateTypes` | `AggregateSpec => []AggregateTypeOK` |
| `OneOffAlwaysAgrees` | `AggregateSpec => []OneOffAgrees` |
| `CompletedStaysQuiet` | `AggregateSpec => []CompletedIsQuiet` |
| `EndingLeavesNothing` | `AggregateSpec => EndingIsComplete` |
| `AlwaysActsOnWhatItSaw` | `AggregateSpec => ActsOnWhatItSaw` |

The inductive invariant `IInv` adds to the types, for each task,

- `RowsOK`: its rows agree with the kinds its schedule had, so that an aggregate
  that never had a recurring version has at most the occurrence `Once`, and the
  code that asks the *occurrences* whether the task recurs gets the answer that
  the schedule would give;
- `OneOffOK`: what `OneOffAgrees` says;
- `QuietOK`: no runnable work of a one-off in a project that is completed *or
  archived from completed*. Without the second, restoring an archived project
  would bring back what was allowed to become runnable in the archive;
- `ReadingOK`: revisions in the reading are not ahead of the rows'; while the
  revisions of task and schedule are those read, the task is what was read, and
  each occurrence is, or has a later revision. It is what makes the comparisons in
  `ExpectedTask` and `ExpectedOccurrence` mean anything, and it is where a command
  that changed a row without its revision would break the proof.

One lemma, `RowsOfStep`, says what any step does to the rows of one task (nothing,
create, generate, one command), so that the four parts are proved by four cases
each instead of one per action.

### The rollout

`RuntimeEpoch_proofs`, for any number of requests, bindings and outages:

| Theorem | Statement |
|---|---|
| `RuntimeTypes` | `RuntimeSpec => []RuntimeTypeOK` |
| `EpochsStayInStep` | `RuntimeSpec => []EpochsInStep` |
| `V2RuntimesAreCurrent` | `RuntimeSpec => []V2IsCurrent` |

The invariant `RuntimeInv` says that the epochs are equal until the drain and at most
one apart afterwards (`EpochsByPhase`), and that a command which has passed the
cutover finds the tenant on v2 and raises a control epoch only where it has read one
that is one behind (`RolloutKnows`). A v2 runtime has the tenant's epoch when it is
built, and once the tenant is on v2 its epoch does not move (`HeldCurrent`).

### The phone

`MobileSync_proofs`, for any number of items, intents, epochs, edits in the browser
and compactions, and pages of any size:

| Theorem | Statement |
|---|---|
| `SyncTypes` | `SyncSpec => []SyncTypeOK` |
| `AnswersAreTrue` | `SyncSpec => []AnswersHold` |
| `DependentsAreLater` | `SyncSpec => []DependentsFollow` |
| `IntentsAreALog` | `SyncSpec => IntentsInOrder` |
| `PhonesMissNothing` | `SyncSpec => []NothingMissed` |
| `DeletedStaysDeleted` | `SyncSpec => []NoResurrection` |

`SyncInv` has six layers:

- `Types`, without the bounds of revisions and sequences.
- `Order`: of the commands built for an intent only the last is ever received
  (`OneCommand`); commands are received in the order of the intents, and carried out
  only after what they depend on (`InOrder`); along the pending intents the epochs
  never rise and then fall again (`EpochsOfPending`). That is what makes it safe to
  build a stale command again *together with those that depend on it*: a delayed
  request of the old epoch finds its dependency missing or stale too (`OldRequests`).
- `Counted`: every received command and every edit in the browser takes one
  sequence, and a command has an effect exactly if its receipt says so.
- `Bounds`: no revision and no cursor is ahead of the commits. The bounds of
  `SyncTypeOK` are a consequence of `Counted` and `Bounds`, not an assumption.
- `Copy`: the last batch of the feed that carries an item carries it as it is
  (`FeedLast`), and where the phone's copy differs, a batch after its cursor
  carries the item (`Missing`). A page is a prefix of what is behind the cursor
  (proved from the choice of the page), so that what it leaves out stays behind the
  new cursor. `RowsFresh` is the retention check between two queries, and fails
  only when compaction comes between them (`overtaken`).
- `Buried`: an item that was ever deleted is among the retired client ids, which
  `ApplyCommand` asks before it creates.

`IntentsAreALog` maps each action to one of `IntentLog`. `SyncInv` gives what the
abstract guards ask and the concrete ones do not say: that a command which is received
is the last one built for its intent (`OneCommand`, `OldRequests`), that the phone
still waits for its answer, and that everything before it is received
(`Receives`, from `Composing` and `InOrder`), so that it is that intent's turn; that a
receipt that is found again says what `effects` says (`Counted`); and that building a
command again, under another id, decides nothing and undoes no decision, because the
intents from the stale one on have no receipt (`StaleIsFirst`).

### The note in Notion

`NotionSync_proofs`, for any targets, pages, requests, texts and number of acts:

| Theorem | Statement |
|---|---|
| `NotionTypes` | `NotionSpec => []NotionTypeOK` |
| `LeavingIsFinal` | `NotionSpec => []LeftForGood` |
| `DeletionIsFinal` | `NotionSpec => DeletedForGood` |
| `UndisturbedEditsAreKept` | `NotionSpec => EditsKept` |

`NotionInv` is the conjunction of

- `Typed` and `Pages`: whatever names a page of a target (claim, state, tombstone,
  request) names one; pages never change their target.
- `Left`: a target that was left and is not suppressed has a tombstone, of the only
  page that its state and the requests aiming at it name. So no request passes the
  check of the blockers, and suppressed targets are refused by the binding itself.
- `StaysDeleted`: the page of the claim with which the note was deleted has a
  tombstone (`PageBuried`), every tombstone is of a page of its target (`Tombs`), so
  that a tombstone is erased or replaced only by a step for that target, and once
  the row is gone only pulls are under way, which know the pages with the note's id
  and import none that has a tombstone (`Free`).
- `Owned`: a push writes to the page of the state, or to one that carries the
  note's id.
- `Alone`: follows the one undisturbed request from its query to its push. Before
  the page is handled, it will be (`Pulling`); afterwards the state has seen the
  page's text (`Good`), and the push writes to a page that the state knows
  (`Known`), or to one that is gone.

Three properties changed on the way. `LeftForGood` had an exception too few, beyond
the bounds of any run (section 6); `EditsKept` had one too many, a page whose text is
already that of the push, which the proof did not need; and `DeletedForGood` rested
on a guard that `PutNoteSyncBinding` does not have, and now ends with the tombstone.

### The workspace

`WorkspaceServices_proofs`, for the workspace in which all five services run:

| Theorem | Statement |
|---|---|
| `ServicesStayTyped` | `ServicesSpec => []ServicesTypeOK` |
| `ServicesAreSafe` | `ServicesSpec => []` of `OneNote`, `GoneIsSilent`, `ErasedForGood`, `AnswersHold`, `DependentsFollow`, `NothingMissed`, `NoResurrection`, `LeftForGood`, `EpochsInStep`, `V2IsCurrent` |
| `ServicesStepsAreSafe` | `ServicesSpec =>` `CancelHolds`, `TranscriptOfCurrentAudio`, `DeletedForGood`, `EditsKept`, `IntentsInOrder` |

A step of the workspace is for each service one of its own steps or a stutter
(`ServicesStep`), so that the conjunction of the five invariants is inductive
(`ServicesInv`). The proof does not use the focus: it would be the same if the steps
of the services were interleaved in one behaviour, and so justifies that the run
`services` takes them one at a time.

### What is assumed, and what is only model-checked

The assumptions of each module (`...Assumption`) are the types of its constants, and
that some constants are not others.
TLC checked every invariant and strengthening before its proof was written.

Every safety property that a passing run checks is proved, the refinements of
`TaskData` and `IntentLog` included, on SQLite or for a single migration process where
the table of the migration says so. Only model-checked are the liveness properties
(`MigrationCompletes`, `WindowsFilled`, `ImportsEnd`, `VoiceWorkEnds`,
`PhoneCatchesUp`, `NotionCatchesUp`, `RolloutEnds`), since fairness and `ENABLED` are
beyond the prover.

## 10. What is not modelled

- The mapping of columns from legacy to v2 rows, preflight reports, manifests and
  status output: pure functions or output, no durable state.
- Rule arithmetic, time zones, daylight saving (`generator.go`, `schedule.go`):
  pure functions of their input, well suited to table tests.
- Several workspaces at once (no state of the modelled parts is shared between
  them) and the attempt counter of generation jobs (it decides nothing).
- `Repository.Reschedule` of generation jobs and `CompletionService.Evaluate`:
  no production caller.
- Cancel, archive and restore of a task in the generation model: to generation
  they are a pause or a resumption together with touched occurrences.
- In the services: the status `needs_review` of an import, which no code sets; the
  v1 receipts of transcription requests; task commands and the sliding window of
  occurrences in mobile v2; the older Notion entry points for a default target,
  tags (pulls skip pages without the required tags, pushes ignore them),
  unsupported blocks, several notes and the administration of targets. An
  imported page that never carried the note's id, of a target the note left, can be
  imported again after the note's purge: `DeletedForGood` is about claimed and named
  pages.
- Notion targets without `flowspace_id_property`, which has no default
  (`notion_config.go:53`): `NotionSync` takes it to be set for each target. Without it a
  written page does not carry the note's id, a push that died after creating a page
  creates another (`Lookup` finds none), and a pull knows pages by claim and state
  only.
- The column `transcription_state` of a voice note. A synchronous request that finds
  it completed, with a body, is answered at once and changes nothing else; one that
  answers late marks the voice note as completed although its recording was replaced
  since, so that the next such request is answered with the old transcript. No worker
  and no job asks the column.
- In the rollout: several runtimes (the cache is per workspace, and one is modelled),
  the storage migration of `runtimecontrol` (`BeginOperation`, `Transition`,
  `ActivateBinding` have no production caller), and a migration that fails or is
  recovered, which no command issues.
- Components with status `not_modelled` in `PROJECT.json`, with the reason there:
  single-row services, clients of external services, start-up, user interfaces.

## 11. Plan

| Module | Models | Properties and theorems |
|---|---|---|
| `ObsidianSync` | two-way sync with a directory, sharing the tables of `NotionSync` | edits kept on both sides |
| `MobileV1Sync` | the older change log with its conflicts | a conflict is shown, not overwritten |
| `RuntimeEpoch` | storage migration (mode and store of a workspace), and recovery once a command issues it | one store owns a workspace |
