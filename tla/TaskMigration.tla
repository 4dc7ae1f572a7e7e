--------------------------- MODULE TaskMigration ---------------------------
(***************************************************************************)
(* The online migration of one workspace from the legacy task model to v2  *)
(* (internal/taskmigration), running against live clients of both models:  *)
(*                                                                         *)
(*  - legacy clients write legacy rows; database triggers bump a logical   *)
(*    version per entity and append the change to an outbox;               *)
(*  - coordinators (any number of processes, each able to die between two  *)
(*    transactions) snapshot, replay, drain, reconcile and mark ready;     *)
(*  - a cutover service flips the model once its final gates pass;         *)
(*  - an operator may fail and recover a migration;                        *)
(*  - v2 clients resolve a runtime for an epoch and write through it.      *)
(*                                                                         *)
(* A row's content is represented by the logical version that wrote it.    *)
(* One transaction of the code is one action, except where PostgreSQL lets *)
(* another transaction act between its first read and its lock.            *)
(***************************************************************************)
EXTENDS TaskDomainState, FiniteSets

CONSTANTS
  Entity,        \* legacy source rows: projects, tasks, rules, occurrences, events
  Coordinator,   \* processes running the migration coordinator or the cutover command
  MigrationOf,   \* the migration id each of them was started with
  Postgres,      \* TRUE: PostgreSQL (concurrent writers), FALSE: SQLite (one writer)
  Recreation,    \* whether legacy clients reuse the id of a deleted row
  PageSize,      \* outbox events a coordinator replays in one transaction
  MaxSeq,        \* bound on the outbox sequence
  MaxRevision    \* bound on the revision from which a migration may start

ASSUME ConstantsAssumption ==
  /\ MigrationOf \in [Coordinator -> Migration]
  /\ Postgres \in BOOLEAN /\ Recreation \in BOOLEAN
  /\ PageSize \in Nat \ {0} /\ MaxSeq \in Nat /\ MaxRevision \in Nat

VARIABLES
  st,         \* the row workspace_task_domain_state
  anchor,     \* tenant_workspaces.epoch
  legacy,     \* entity -> [ver, live]: its version-ledger row, and whether the row exists
  outbox,     \* committed events of task_domain_legacy_outbox
  nextSeq,    \* next value of the outbox sequence
  open,       \* events of legacy transactions that have not committed (PostgreSQL)
  triggers,   \* whether the outbox triggers are installed
  v2,         \* entity -> content of its v2 projection
  idmap,      \* entity -> [ver, deleted]: its row of task_domain_legacy_id_map
  admitted,   \* epochs for which a request holds a resolved v2 runtime
  v2Written,  \* history: a v2 business write has committed
  co          \* coordinator -> what the process holds in memory

vars == <<st, anchor, legacy, outbox, nextSeq, open, triggers, v2, idmap, admitted, v2Written, co>>

stateVars  == <<st, anchor>>
legacyVars == <<legacy, outbox, nextSeq, open, triggers>>
v2Vars     == <<v2, idmap>>
clientVars == <<admitted, v2Written>>

----------------------------------------------------------------------------
(* Contents and events *)

Absent == 0                 \* no v2 row
Edited == -1                \* content written by a v2 client
Content == Nat \cup {Edited}

NoMapping == [ver |-> 0, deleted |-> FALSE]

Event == [seq : 1 .. MaxSeq, ent : Entity, ver : Nat \ {0}, live : BOOLEAN]

(* What the v2 row of an entity must hold to represent its legacy row. *)
LegacyContent(row) == IF row.live THEN row.ver ELSE Absent

Match == \A e \in Entity : v2[e] = LegacyContent(legacy[e])

After(events, w) == {ev \in events : ev.seq > w}
Between(events, from, to) == {ev \in events : from < ev.seq /\ ev.seq <= to}

(* COALESCE(MAX(sequence), 0) *)
Head(events) ==
  IF events = {} THEN 0 ELSE (CHOOSE ev \in events : \A f \in events : f.seq <= ev.seq).seq

(* ORDER BY sequence ASC LIMIT PageSize *)
PageAfter(events, w) ==
  {ev \in events : ev.seq > w /\ Cardinality(Between(events, w, ev.seq)) <= PageSize}

----------------------------------------------------------------------------
(* Initial states: a workspace on the legacy model that was never migrated, *)
(* or one created directly on v2 with no legacy rows.                       *)

Idle == [pc |-> "idle"]

Init ==
  /\ \E model \in Model, rows \in SUBSET Entity :
       /\ st = InitialState(model)
       /\ model = "v2" => rows = {}
       /\ legacy = [e \in Entity |-> [ver |-> 0, live |-> e \in rows]]
  /\ anchor = st.epoch
  /\ outbox = {} /\ nextSeq = 1 /\ open = {} /\ triggers = FALSE
  /\ v2 = [e \in Entity |-> Absent]
  /\ idmap = [e \in Entity |-> NoMapping]
  /\ admitted = {} /\ v2Written = FALSE
  /\ co = [c \in Coordinator |-> Idle]

----------------------------------------------------------------------------
(* Legacy clients *)

(* Before the triggers exist nothing records a change. *)
UncapturedWrite(e) ==
  /\ ~triggers /\ st.model = "legacy"
  /\ legacy' = [legacy EXCEPT ![e].live = ~@]
  /\ UNCHANGED <<outbox, nextSeq, open, triggers, stateVars, v2Vars, clientVars, co>>

(* The trigger of one INSERT, UPDATE (live) or DELETE (not live) statement:  *)
(* it reads accept_legacy_writes under a share lock, bumps the ledger row    *)
(* and takes the next sequence number.  At most one open transaction holds   *)
(* the ledger row of an entity.                                              *)
TriggerAccepts(e, live) ==
  /\ triggers /\ st.accept /\ nextSeq <= MaxSeq
  /\ \A ev \in open : ev.ent # e
  /\ live \/ legacy[e].live
  /\ (live /\ ~legacy[e].live) => (Recreation \/ legacy[e].ver = 0)

(* Mutant: the trigger does not bump the ledger version. *)
UnversionedEvent(e, live) ==
  [seq |-> nextSeq, ent |-> e, ver |-> legacy[e].ver, live |-> live]

TriggerEvent(e, live) ==
  [seq |-> nextSeq, ent |-> e, ver |-> legacy[e].ver + 1, live |-> live]

Committed(ev) == [legacy EXCEPT ![ev.ent] = [ver |-> ev.ver, live |-> ev.live]]

(* SQLite: one writer at a time, so statement and commit are one step. *)
LegacyWrite(e, live) ==
  /\ ~Postgres /\ TriggerAccepts(e, live)
  /\ outbox' = outbox \cup {TriggerEvent(e, live)}
  /\ legacy' = Committed(TriggerEvent(e, live))
  /\ nextSeq' = nextSeq + 1
  /\ UNCHANGED <<open, triggers, stateVars, v2Vars, clientVars, co>>

(* PostgreSQL: the sequence number is taken when the trigger runs, the       *)
(* event becomes visible when the transaction commits, and meanwhile the     *)
(* transaction holds a share lock on the state row.                          *)
LegacyBegin(e, live) ==
  /\ Postgres /\ TriggerAccepts(e, live)
  /\ open' = open \cup {TriggerEvent(e, live)}
  /\ nextSeq' = nextSeq + 1
  /\ UNCHANGED <<legacy, outbox, triggers, stateVars, v2Vars, clientVars, co>>

LegacyCommit(ev) ==
  /\ open' = open \ {ev}
  /\ outbox' = outbox \cup {ev}
  /\ legacy' = Committed(ev)
  /\ UNCHANGED <<nextSeq, triggers, stateVars, v2Vars, clientVars, co>>

LegacyAbort(ev) ==
  /\ open' = open \ {ev}
  /\ UNCHANGED <<legacy, outbox, nextSeq, triggers, stateVars, v2Vars, clientVars, co>>

----------------------------------------------------------------------------
(* Every transaction that updates the state row first locks it FOR UPDATE,   *)
(* which waits for the share lock of every open legacy transaction.          *)
NoLock == TRUE      \* Mutant: the trigger reads the fence without a lock.

StateRowFree == open = {}

(* StateStore.CompareAndSwap: the anchor must carry the row's epoch, and the *)
(* row's revision, epoch, model, migration and cutover must be those the     *)
(* caller read.                                                              *)
SameMigrationId(s, t) == s.migrationId = t.migrationId  \* Mutant: no revision check.

SameIdentity(s, t) ==
  /\ s.revision = t.revision /\ s.epoch = t.epoch /\ s.model = t.model
  /\ s.migrationId = t.migrationId /\ s.cutover = t.cutover

(* Mutant: the anchor keeps its epoch. *)
SwapRowOnly(expected, next) ==
  StateRowFree /\ SameIdentity(st, expected) /\ st' = next /\ UNCHANGED anchor

CompareAndSwap(expected, next) ==
  /\ StateRowFree
  /\ anchor = st.epoch
  /\ SameIdentity(st, expected)
  /\ st' = next
  /\ anchor' = next.epoch

Goto(c, r) == co' = [co EXCEPT ![c] = r]
Done(c) == Goto(c, Idle)
At(c, pc) == co[c].pc = pc

(* A process stops between two transactions: it crashed, a transaction of    *)
(* it failed, or it answered that the work was already done.  The operator   *)
(* runs the command again, which loads the durable phase.                    *)
Abandon(c) ==
  /\ ~At(c, "idle")
  /\ Done(c)
  /\ UNCHANGED <<stateVars, legacyVars, v2Vars, clientVars>>

----------------------------------------------------------------------------
(* Coordinator.Step: load the durable row and dispatch on its phase. *)

(* Mutant: a drained migration cannot be resumed. *)
NoResumeOfDrain == [idle |-> "prepare", backfilling |-> "snapshot", catching_up |-> "fetch"]

PhaseEntry == [idle |-> "prepare", backfilling |-> "snapshot",
               catching_up |-> "fetch", draining |-> "fetch"]

Load(c) ==
  /\ At(c, "idle")
  /\ st.model = "legacy" /\ st.phase \in DOMAIN PhaseEntry
  /\ st.phase # "idle" => st.migrationId = MigrationOf[c]
  /\ Goto(c, [pc |-> PhaseEntry[st.phase], st |-> st])
  /\ UNCHANGED <<stateVars, legacyVars, v2Vars, clientVars>>

(* prepare, first half: install the triggers and give every existing row its *)
(* baseline version, under a lock on the source tables.                      *)
Install(c) ==
  /\ At(c, "prepare") /\ StateRowFree
  /\ triggers' = TRUE
  /\ legacy' = [e \in Entity |-> IF legacy[e].live /\ legacy[e].ver = 0
                                 THEN [legacy[e] EXCEPT !.ver = 1] ELSE legacy[e]]
  /\ Goto(c, [co[c] EXCEPT !.pc = "start"])
  /\ UNCHANGED <<outbox, nextSeq, open, stateVars, v2Vars, clientVars>>

(* prepare, second half. *)
Start(c) ==
  /\ At(c, "start") /\ co[c].st.revision <= MaxRevision
  /\ CanStartBackfill(co[c].st)
  /\ CompareAndSwap(co[c].st, StartBackfill(co[c].st, MigrationOf[c]))
  /\ Done(c)
  /\ UNCHANGED <<legacyVars, v2Vars, clientVars>>

(* The database as one transaction reads it.  In PostgreSQL the snapshot of  *)
(* a REPEATABLE READ or SERIALIZABLE transaction is fixed by its first       *)
(* statement, SELECT ... FOR UPDATE on the state row, before that statement  *)
(* waits for the lock.  SQLite reads after it owns the only write lock.      *)
View == [st |-> st, legacy |-> legacy, outbox |-> outbox]

TakeSnapshot(c) ==
  /\ Postgres
  /\ \/ /\ At(c, "snapshot")
        /\ Goto(c, [pc |-> "backfill", st |-> co[c].st, view |-> View])
     \/ /\ At(c, "commit")
        /\ Goto(c, [pc |-> "replay", page |-> co[c].page, view |-> View])
  /\ UNCHANGED <<stateVars, legacyVars, v2Vars, clientVars>>

(* V2ProjectionWriter.Write: insert every row, or find the same row already  *)
(* there under a live mapping of the same version.                           *)
Writable(source) ==
  \A e \in Entity : source[e].live =>
    /\ source[e].ver > 0
    /\ v2[e] \in {Absent, source[e].ver}
    /\ idmap[e] \in {NoMapping, [ver |-> source[e].ver, deleted |-> FALSE]}

WriteProjection(source) ==
  /\ v2' = [e \in Entity |-> IF source[e].live THEN source[e].ver ELSE v2[e]]
  /\ idmap' = [e \in Entity |-> IF source[e].live
                                THEN [ver |-> source[e].ver, deleted |-> FALSE] ELSE idmap[e]]

(* BackfillStore.RunBackfill: one transaction reads the legacy rows and the  *)
(* head of the outbox, writes the projection and enters catching_up at that  *)
(* head.  A locked row that changed after the snapshot aborts it.            *)
BackfillOn(c, view) ==
  /\ StateRowFree
  /\ st.revision = co[c].st.revision /\ st.epoch = co[c].st.epoch
  /\ st.phase = "backfilling" /\ CanBeginCatchingUp(st, Head(view.outbox))
  /\ Writable(view.legacy) /\ WriteProjection(view.legacy)
  /\ st' = BeginCatchingUp(st, Head(view.outbox))
  /\ Done(c)
  /\ UNCHANGED <<anchor, legacyVars, clientVars>>

Backfill(c) ==
  \/ ~Postgres /\ At(c, "snapshot") /\ BackfillOn(c, View)
  \/ At(c, "backfill") /\ co[c].view.st = st /\ BackfillOn(c, co[c].view)

----------------------------------------------------------------------------
(* Replay *)

(* The phases in which a page that ends at sequence `to' may be replayed. *)
ReplayPhase(s, to) ==
  /\ s.model = "legacy"
  /\ \/ s.phase = "catching_up" /\ s.cutover = NoCutover
     \/ s.phase = "draining" /\ to <= s.cutover

(* ReplayStore.FetchPage, and what Step does with its result: a page with    *)
(* events is committed; an empty page starts the drain, or, once draining,   *)
(* the reconciliation.                                                       *)
FetchPage(c) ==
  LET page == PageAfter(outbox, st.watermark) IN
  /\ At(c, "fetch") /\ ReplayPhase(st, st.watermark)
  /\ \/ /\ page # {}
        /\ Goto(c, [pc |-> "commit",
                    page |-> [events |-> page, from |-> st.watermark, id |-> st.migrationId]])
     \/ /\ page = {} /\ co[c].st.phase = "catching_up"
        /\ Goto(c, [pc |-> "drain", st |-> co[c].st])
     \/ /\ page = {} /\ co[c].st.phase = "draining"
        /\ Goto(c, [pc |-> "capture"])
  /\ UNCHANGED <<stateVars, legacyVars, v2Vars, clientVars>>

(* normalizeEvents: only the last event of an entity in a page is applied. *)
Last(events) == {ev \in events : \A f \in events : f.ent = ev.ent => f.seq <= ev.seq}

(* applyEvent: whether an event is accepted against the ledger row, the v2   *)
(* content and the mapping of its entity, or rejects the whole page.         *)
Accepts(ev, ledger, content, map) ==
  /\ ledger.ver >= ev.ver /\ (ledger.ver = ev.ver => ledger.live = ev.live)
  /\ \/ map.ver = 0 /\ (ev.live => content \in {Absent, ev.ver})
     \/ map.ver > 0 /\ ev.ver < map.ver
     \/ map.ver > 0 /\ ev.ver = map.ver /\ (map.deleted \/ (ev.live /\ content = ev.ver))
     \/ map.ver > 0 /\ ev.ver > map.ver /\ content # Absent /\ (ev.live => ~map.deleted)

(* An event not newer than the mapping changes nothing; a delete of a row    *)
(* that was never projected only records its tombstone.                      *)
Applied(ev, content, map) ==
  IF map.ver > 0 /\ ev.ver <= map.ver THEN content
  ELSE IF ev.live THEN ev.ver
  ELSE IF map.ver = 0 THEN content ELSE Absent

(* Mutants: a deletion leaves no tombstone; an update leaves the version. *)
NoTombstone(ev, map) ==
  IF map.ver > 0 /\ ev.ver <= map.ver THEN map ELSE [ver |-> ev.ver, deleted |-> FALSE]

VersionKept(ev, map) ==
  IF map.ver > 0 /\ ev.live THEN map ELSE [ver |-> ev.ver, deleted |-> ~ev.live]

Advanced(ev, map) ==
  IF map.ver > 0 /\ ev.ver <= map.ver THEN map ELSE [ver |-> ev.ver, deleted |-> ~ev.live]

Touches(events, e) == \E ev \in events : ev.ent = e
EventOf(events, e) == CHOOSE ev \in Last(events) : ev.ent = e

(* Mutant: the page need not start at the durable watermark. *)
PageFromAnywhere(page, events) ==
  /\ ReplayPhase(st, Head(page.events)) /\ st.migrationId = page.id
  /\ Between(events, page.from, Head(page.events)) = page.events

(* A page must still start at the durable watermark of its migration and     *)
(* equal the durable outbox range it spans.                                  *)
PageCurrent(page, events) ==
  /\ ReplayPhase(st, Head(page.events)) /\ st.migrationId = page.id
  /\ st.watermark = page.from
  /\ Between(events, page.from, Head(page.events)) = page.events

(* ReplayStore.CommitPage: the projector and the watermark advance are one   *)
(* transaction.                                                              *)
CommitPageOn(c, view) ==
  LET page == co[c].page IN
  /\ StateRowFree
  /\ PageCurrent(page, view.outbox)
  /\ \A ev \in Last(page.events) :
       Accepts(ev, view.legacy[ev.ent], v2[ev.ent], idmap[ev.ent])
  /\ v2' = [e \in Entity |-> IF Touches(page.events, e)
                             THEN Applied(EventOf(page.events, e), v2[e], idmap[e]) ELSE v2[e]]
  /\ idmap' = [e \in Entity |-> IF Touches(page.events, e)
                                THEN Advanced(EventOf(page.events, e), idmap[e]) ELSE idmap[e]]
  /\ st' = [st EXCEPT !.watermark = Head(page.events), !.revision = @ + 1]
  /\ Done(c)
  /\ UNCHANGED <<anchor, legacyVars, clientVars>>

CommitPage(c) ==
  \/ ~Postgres /\ At(c, "commit") /\ CommitPageOn(c, View)
  \/ At(c, "replay") /\ co[c].view.st = st /\ CommitPageOn(c, co[c].view)

----------------------------------------------------------------------------
(* Drain *)

(* DrainStore.BeginDrain: once the locks are held no legacy transaction is   *)
(* open, so the head of the outbox is final; the fence closes and the epoch  *)
(* advances on the row and on the anchor together.                           *)
Drain(c) ==
  LET cut == Head(outbox) IN
  /\ At(c, "drain") /\ StateRowFree
  /\ anchor = st.epoch
  /\ st.revision = co[c].st.revision /\ st.epoch = co[c].st.epoch
  /\ st.migrationId = MigrationOf[c] /\ CanBeginDrain(st, cut)
  /\ st' = BeginDrain(st, cut)
  /\ anchor' = st'.epoch
  /\ Done(c)
  /\ UNCHANGED <<legacyVars, v2Vars, clientVars>>

----------------------------------------------------------------------------
(* Reconcile *)

(* captureFrozenProjection: the live legacy rows and their versions. *)
CanCapture == \A e \in Entity : legacy[e].live => legacy[e].ver > 0

Capture(c) ==
  /\ At(c, "capture") /\ CanCapture
  /\ Goto(c, [pc |-> "observe", source |-> [e \in Entity |-> LegacyContent(legacy[e])]])
  /\ UNCHANGED <<stateVars, legacyVars, v2Vars, clientVars>>

(* observeTx: every captured version must still be the durable one, a        *)
(* mapping may lack its target only if the source should have it, and a      *)
(* deleted mapping counts while its target is still there.                   *)
Mapped == {e \in Entity : idmap[e].ver > 0 /\ (idmap[e].deleted => v2[e] # Absent)}

Observable(source) ==
  /\ \A e \in Entity : source[e] # Absent => legacy[e] = [ver |-> source[e], live |-> TRUE]
  /\ \A e \in Mapped : v2[e] # Absent \/ source[e] # Absent

Observation == [v2 |-> v2, mapped |-> Mapped]

Missing(source) == {e \in Entity : source[e] # Absent /\ v2[e] = Absent}
Extra(source)   == {e \in Mapped : source[e] = Absent /\ v2[e] # Absent}

(* Differences that no repair may touch: a source row without a mapping, or  *)
(* with a v2 row of another content.                                         *)
Unsafe(source) ==
  {e \in Entity : source[e] # Absent /\ (e \notin Mapped \/ v2[e] \notin {Absent, source[e]})}

Reconciled(source) == Missing(source) \cup Extra(source) \cup Unsafe(source) = {}

Observe(c) ==
  /\ At(c, "observe") /\ Observable(co[c].source)
  /\ \/ /\ Reconciled(co[c].source)
        /\ Goto(c, [pc |-> "reload"])
     \/ /\ ~Reconciled(co[c].source)
        /\ Goto(c, [pc |-> "repair", source |-> co[c].source, seen |-> Observation])
  /\ UNCHANGED <<stateVars, legacyVars, v2Vars, clientVars>>

(* ReconcileStore.ApplyPlan: observe again inside the write transaction,     *)
(* refuse a plan that differs or is unsafe, re-insert missing projections,   *)
(* and delete mapped targets whose source is tombstoned.  The state row is   *)
(* neither locked nor read.                                                  *)
Repair(c) ==
  LET source  == co[c].source
      missing == Missing(source)
      extra   == Extra(source)
  IN
  /\ At(c, "repair") /\ Observable(source)
  /\ Observation = co[c].seen
  /\ Unsafe(source) = {}
  /\ missing # {} => \A e \in Entity : source[e] # Absent =>
                        idmap[e] = [ver |-> source[e], deleted |-> FALSE]
  /\ \A e \in extra : legacy[e].ver > 0 /\ ~legacy[e].live
  /\ v2' = [e \in Entity |-> IF e \in missing THEN source[e]
                             ELSE IF e \in extra THEN Absent ELSE v2[e]]
  /\ idmap' = [e \in Entity |-> IF e \in extra
                                THEN [ver |-> legacy[e].ver, deleted |-> TRUE] ELSE idmap[e]]
  /\ Done(c)
  /\ UNCHANGED <<stateVars, legacyVars, clientVars>>

(* replayOrReconcile after a clean observation: load the row again, check    *)
(* the fence, and compare-and-swap it to ready.                              *)
Reload(c) ==
  /\ At(c, "reload")
  /\ st.phase = "draining" /\ st.migrationId = MigrationOf[c] /\ CanMarkReady(st)
  /\ Goto(c, [pc |-> "mark", st |-> st])
  /\ UNCHANGED <<stateVars, legacyVars, v2Vars, clientVars>>

Mark(c) ==
  /\ At(c, "mark")
  /\ CompareAndSwap(co[c].st, MarkReady(co[c].st))
  /\ Done(c)
  /\ UNCHANGED <<legacyVars, v2Vars, clientVars>>

----------------------------------------------------------------------------
(* Cutover, CutoverService.Execute *)

LoadReady(c) ==
  /\ At(c, "idle")
  /\ st.phase = "ready" /\ st.migrationId = MigrationOf[c]
  /\ Goto(c, [pc |-> "gates", st |-> st])
  /\ UNCHANGED <<stateVars, legacyVars, v2Vars, clientVars>>

(* ObserveFinalCutover and evaluateCutoverGates: one read-only snapshot in   *)
(* which the fence is closed, the anchor agrees, nothing was written after   *)
(* the cutover sequence, everything up to it is replayed, and source and v2  *)
(* reconcile with no repair left.                                            *)
CheckGates(c) ==
  /\ At(c, "gates")
  /\ st.phase \in {"draining", "ready"} /\ st.migrationId = MigrationOf[c]
  /\ st.cutover = co[c].st.cutover /\ anchor = st.epoch /\ st.epoch > 1 /\ triggers
  /\ Head(outbox) = st.cutover /\ st.watermark = st.cutover
  /\ CanCapture
  /\ LET source == [e \in Entity |-> LegacyContent(legacy[e])]
     IN  Observable(source) /\ Reconciled(source)
  /\ CanCutover(co[c].st, MigrationOf[c])
  /\ Goto(c, [co[c] EXCEPT !.pc = "flip"])
  /\ UNCHANGED <<stateVars, legacyVars, v2Vars, clientVars>>

(* Mutant: the command reconciles once more after the flip. *)
FlipThenReconcile(c) ==
  /\ At(c, "flip")
  /\ CompareAndSwap(co[c].st, Cutover(co[c].st))
  /\ Goto(c, [pc |-> "capture"])
  /\ UNCHANGED <<legacyVars, v2Vars, clientVars>>

Flip(c) ==
  /\ At(c, "flip")
  /\ CompareAndSwap(co[c].st, Cutover(co[c].st))
  /\ Done(c)
  /\ UNCHANGED <<legacyVars, v2Vars, clientVars>>

----------------------------------------------------------------------------
(* Operator commands.  Each is a load, a pure command and one                *)
(* compare-and-swap on what was loaded, so it acts on the current row.       *)

OperatorFail ==
  /\ CanFail(st)
  /\ CompareAndSwap(st, Fail(st))
  /\ UNCHANGED <<legacyVars, v2Vars, clientVars, co>>

OperatorRecover ==
  /\ CanRecover(st)
  /\ CompareAndSwap(st, Recover(st))
  /\ UNCHANGED <<legacyVars, v2Vars, clientVars, co>>

----------------------------------------------------------------------------
(* v2 clients *)

(* A request resolves a v2 runtime: stableTaskModel accepts the row and the  *)
(* runtime remembers the epoch.                                              *)
ResolveV2 ==
  /\ ServingV2(st) /\ anchor = st.epoch
  /\ admitted' = admitted \cup {st.epoch}
  /\ UNCHANGED <<stateVars, legacyVars, v2Vars, v2Written, co>>

Unfenced(epoch) == TRUE     \* Mutant: a write does not check its epoch.

Fenced(epoch) == anchor = epoch

(* A write through a resolved runtime: fenced by the anchor's epoch, it      *)
(* edits, creates or deletes a row and marks the first write, atomically.    *)
V2Write(e, epoch, content) ==
  /\ Fenced(epoch)
  /\ StateRowFree
  /\ content = Absent => v2[e] # Absent
  /\ v2' = [v2 EXCEPT ![e] = content]
  /\ st' = MarkV2FirstWrite(st)
  /\ v2Written' = TRUE
  /\ UNCHANGED <<anchor, legacyVars, idmap, admitted, co>>

----------------------------------------------------------------------------
LegacyStep ==
  \/ \E e \in Entity : UncapturedWrite(e)
  \/ \E e \in Entity, live \in BOOLEAN : LegacyWrite(e, live) \/ LegacyBegin(e, live)
  \/ \E ev \in open : LegacyCommit(ev) \/ LegacyAbort(ev)

CoordinatorStep(c) ==
  \/ Load(c) \/ Install(c) \/ Start(c) \/ TakeSnapshot(c) \/ Backfill(c)
  \/ FetchPage(c) \/ CommitPage(c) \/ Drain(c)
  \/ Capture(c) \/ Observe(c) \/ Repair(c) \/ Reload(c) \/ Mark(c)

CutoverStep(c) == LoadReady(c) \/ CheckGates(c) \/ Flip(c)

OperatorStep == OperatorFail \/ OperatorRecover

V2Step ==
  \/ ResolveV2
  \/ \E e \in Entity, epoch \in admitted, content \in {Edited, Absent} :
       V2Write(e, epoch, content)

Next ==
  \/ LegacyStep
  \/ \E c \in Coordinator : CoordinatorStep(c) \/ CutoverStep(c) \/ Abandon(c)
  \/ OperatorStep
  \/ V2Step

Spec == Init /\ [][Next]_vars

(* Fairness: the operator keeps running the coordinator until the workspace  *)
(* is ready, and no transaction of it fails every time it is attempted.      *)
FairCoordinator(c) ==
  /\ WF_vars(Load(c))
  /\ SF_vars(Install(c)) /\ SF_vars(Start(c)) /\ SF_vars(TakeSnapshot(c))
  /\ SF_vars(Backfill(c)) /\ SF_vars(FetchPage(c)) /\ SF_vars(CommitPage(c))
  /\ SF_vars(Drain(c)) /\ SF_vars(Capture(c)) /\ SF_vars(Observe(c))
  /\ SF_vars(Repair(c)) /\ SF_vars(Reload(c)) /\ SF_vars(Mark(c))

FairSpec == Spec /\ \A c \in Coordinator : FairCoordinator(c)

----------------------------------------------------------------------------
(* Type invariant *)

Row     == [ver : Nat, live : BOOLEAN]
Mapping == [ver : Nat, deleted : BOOLEAN]
Views   == [st : State, legacy : [Entity -> Row], outbox : SUBSET Event]
Page    == [events : SUBSET Event, from : Nat, id : Migration \cup {NoMigration}]
Source  == [Entity -> Nat]
Seen    == [v2 : [Entity -> Content], mapped : SUBSET Entity]

Process ==
  [pc : {"idle", "capture", "reload"}]
  \cup [pc : {"prepare", "start", "snapshot", "fetch", "drain", "mark", "gates", "flip"}, st : State]
  \cup [pc : {"backfill"}, st : State, view : Views]
  \cup [pc : {"commit"}, page : Page]
  \cup [pc : {"replay"}, page : Page, view : Views]
  \cup [pc : {"observe"}, source : Source]
  \cup [pc : {"repair"}, source : Source, seen : Seen]

(* Every variable, and every value a process holds, has its type. *)
TypeOK ==
  /\ st \in State /\ anchor \in Nat \ {0}
  /\ legacy \in [Entity -> Row] /\ outbox \subseteq Event /\ open \subseteq Event
  /\ nextSeq \in Nat \ {0} /\ triggers \in BOOLEAN
  /\ v2 \in [Entity -> Content] /\ idmap \in [Entity -> Mapping]
  /\ admitted \subseteq Nat /\ v2Written \in BOOLEAN
  /\ co \in [Coordinator -> Process]

----------------------------------------------------------------------------
(* Safety *)

(* Whatever interleaving of coordinators, operators and clients produced the *)
(* durable state: the row passes the code's own Validate (one that does not  *)
(* would make every later command fail), and the two copies of the write     *)
(* epoch are equal (different stores write them, drain and compare-and-swap, *)
(* and every fence compares only one of them).                               *)
StateValid  == ValidState(st)
EpochsAgree == anchor = st.epoch
DurableStateAgrees == StateValid /\ EpochsAgree

(* Once drained, the recorded cutover sequence is the last one there will    *)
(* ever be: no legacy transaction is open and none commits behind it.        *)
CutoverIsFinal ==
  st.phase \in {"draining", "ready", "cutover"} => open = {} /\ Head(outbox) = st.cutover

(* When the workspace switches to v2, and until the first v2 write, the v2   *)
(* rows are exactly the frozen legacy rows, so no accepted legacy write is   *)
(* lost and the switch can be undone.                                        *)
CutoverExact == st.phase = "cutover" /\ ~st.firstWrite => Match

(* The rollback boundary: once a v2 business write has committed the         *)
(* workspace never serves the legacy model again.                            *)
RollbackBoundary == v2Written => ServingV2(st) /\ st.firstWrite

(* Until the first v2 write the id map says exactly what the v2 rows hold:   *)
(* three different stores write the two tables (backfill, replay, repair),   *)
(* and replay decides what to apply from the map alone.                      *)
MapTruthful ==
  ~st.firstWrite =>
    \A e \in Entity :
      v2[e] = IF idmap[e].deleted \/ idmap[e].ver = 0 THEN Absent ELSE idmap[e].ver

(* Every committed legacy event up to the watermark has been projected: the  *)
(* map of an entity has reached its last upsert.  A deletion from before the *)
(* snapshot is left to the reconciliation.                                   *)
NothingSkipped ==
  st.phase \in {"catching_up", "draining", "ready"} =>
    \A ev \in Last({f \in outbox : f.seq <= st.watermark}) :
      ev.live => idmap[ev.ent].ver >= ev.ver

(* A migration only moves forward: while the same migration stays active its *)
(* watermark never decreases and its fence, once closed, opens again only    *)
(* through the failed phase.                                                 *)
Forward ==
  [][st'.phase \notin {"idle", "backfilling", "failed"} =>
       /\ st'.watermark >= st.watermark
       /\ st'.accept => st.accept]_vars

(* While v2 serves the workspace nothing but a fenced client write changes a *)
(* v2 row; in particular no migration process that is still running does.    *)
OnlyClientsWriteV2 ==
  [][ServingV2(st) /\ v2' # v2 =>
       \E e \in Entity, epoch \in admitted, content \in {Edited, Absent} :
          V2Write(e, epoch, content)]_vars

(* One authoritative table of task data, whatever model serves it. *)
Rows ==
  [e \in Entity |->
     IF st.model = "v2" THEN v2[e]
     ELSE IF legacy[e].live /\ legacy[e].ver = 0 THEN 1 ELSE LegacyContent(legacy[e])]

Data == INSTANCE TaskData WITH data <- Rows, serving <- st.model, irrevocable <- v2Written

(* The migration implements TaskData: its steps are invisible to clients.    *)
DataPreserved == Data!Spec

----------------------------------------------------------------------------
(* Liveness *)

(* A migration that has started reaches ready, unless an operator fails it.  *)
MigrationCompletes == st.phase = "backfilling" ~> st.phase \in {"ready", "failed"}
=============================================================================
