--------------------------- MODULE TaskAggregate ---------------------------
(***************************************************************************)
(* The commands of the v2 task domain: a task's lifecycle, its             *)
(* occurrences, its schedule and the project it is in                      *)
(* (taskdomain/{service,occurrence_service,aggregate,schedule_service,     *)
(* project_service}.go over storage/{sqlite,postgres}/task_domain_v2.go).  *)
(*                                                                         *)
(* A command is one transaction, and the transactions of a workspace       *)
(* follow one another (BEGIN IMMEDIATE; in PostgreSQL the row lock of      *)
(* mobilev2change.LockCommitHead), so that each is one action.  What is    *)
(* concurrent are the clients: a command carries the revisions its client  *)
(* read at a time since when other clients and the generator may have      *)
(* written.  One client with an old reading and others with a fresh one    *)
(* stand for them all.                                                     *)
(*                                                                         *)
(* Which dates a schedule gives, and which are past, are inputs here.      *)
(***************************************************************************)
EXTENDS Naturals

CONSTANTS
  Project, Task,
  Date,           \* occurrence keys of recurring schedules
  Once,           \* the occurrence key of a schedule that does not recur
  MaxTaskRevision, MaxScheduleRevision, MaxOccurrenceRevision, \* bounds on revisions
  ReadRevision         \* revisions at which the client with the old reading reads

ASSUME AggregateAssumption ==
  /\ Once \notin Date
  /\ MaxTaskRevision \in Nat /\ MaxScheduleRevision \in Nat
  /\ MaxOccurrenceRevision \in Nat

VARIABLES
  project,   \* domain_projects_v2: status and archived_from_status
  task,      \* domain_tasks_v2 with the header and the versions of its schedule
  occ,       \* domain_task_occurrences_v2 by task and occurrence key
  reading    \* what a client read of the tasks some time ago

aggregateVars == <<project, task, occ, reading>>

OccurrenceKey == Date \cup {Once}
Kind          == {"single", "recurring"}      \* of a version, and of what is made from it
KeysOf(kind)  == IF kind = "recurring" THEN Date ELSE {Once}
KindOf(k)     == IF k = Once THEN "single" ELSE "recurring"
Runnable      == {"open", "active", "blocked"}
Terminal      == {"done", "skipped", "cancelled"}
Lifecycle     == {"draft", "active", "paused", "completed", "cancelled", "archived"}
Restorable    == {"planning", "active", "paused", "completed"}

(* An occurrence: its status and revision, the kind of the version it was   *)
(* made from, whether actual_start_at or manually_overridden protects it    *)
(* from schedule edits, and whether it has execution logs.                  *)
NoOccurrence == [status |-> "none", revision |-> 0, kind |-> "single",
                 kept |-> FALSE, logged |-> FALSE]
PlannedOccurrence(kind) == [status |-> "open", revision |-> 1, kind |-> kind,
                            kept |-> FALSE, logged |-> FALSE]

(* A task: lifecycle, revision and project; the revision of its schedule,   *)
(* the kind of the current version and of all it had.  (Its completion      *)
(* requirements may refuse that an occurrence is completed; a command that  *)
(* is refused is like one that is not sent.)                                *)
NoTask(life, p) == [life |-> life, revision |-> 0, project |-> p, schedule |-> 0,
                    kind |-> "single", kinds |-> {}]

\* The next revision of a task with another lifecycle; the same revision of it with
\* another schedule version.
WithLife(row, life) ==
  [life |-> life, revision |-> row.revision + 1, project |-> row.project,
   schedule |-> row.schedule, kind |-> row.kind, kinds |-> row.kinds]
WithVersion(row, kind) ==
  [life |-> row.life, revision |-> row.revision, project |-> row.project,
   schedule |-> row.schedule + 1, kind |-> kind, kinds |-> row.kinds \cup {kind}]

Exists(t)   == task[t].life \in Lifecycle
Present(t)  == {k \in OccurrenceKey : occ[t][k].status # "none"}
OpenWork(t) == {k \in OccurrenceKey : occ[t][k].status \in Runnable}
OneOff(t)   == Exists(t) /\ "recurring" \notin task[t].kinds

\* Aggregate.Recurring: one of its occurrences was made from a recurring version.
RecurringAsScheduled(t) == task[t].kind = "recurring"   \* Mutant: asks the current version.
Recurring(t) == \E k \in Present(t) : occ[t][k].kind = "recurring"

\* ensureProjectAcceptsNonTerminalOccurrences.
AcceptsUnlessGone(p) == project[p].status # "gone"   \* Mutant: any project does.
Accepts(p) == project[p].status \in {"planning", "active", "paused"}

-----------------------------------------------------------------------------
(* Clients.  A command with reading v may name what v has of task t.        *)
Fresh == [task |-> task, occ |-> occ]

ReadTask ==
  /\ \A t \in Task : task[t].revision \in ReadRevision
  /\ reading' = Fresh
  /\ UNCHANGED <<project, task, occ>>

\* The task and schedule revisions that every command carries are the current ones.
ExpectedTask(v, t) ==
  /\ Exists(t)
  /\ v.task[t].revision = task[t].revision
  /\ v.task[t].schedule = task[t].schedule

ExpectedOccurrence(v, t, k) ==
  k \in Present(t) /\ v.occ[t][k].revision = occ[t][k].revision

WithinBounds(t) ==
  /\ task[t].revision < MaxTaskRevision
  /\ \A k \in OccurrenceKey : occ[t][k].revision < MaxOccurrenceRevision

-----------------------------------------------------------------------------
(* Tasks.                                                                   *)
CreateTask(t, p) ==
  /\ task[t].life = "none" /\ Accepts(p)
  /\ \E kind \in Kind : \E keys \in SUBSET KeysOf(kind) :
       /\ kind = "single" => keys = {Once}
       /\ task' = [task EXCEPT ![t] = [life |-> "draft", revision |-> 1, project |-> p,
                     schedule |-> 1, kind |-> kind, kinds |-> {kind}]]
       /\ occ' = [occ EXCEPT ![t] = [k \in OccurrenceKey |->
                     IF k \in keys THEN PlannedOccurrence(kind) ELSE NoOccurrence]]
  /\ UNCHANGED <<project, reading>>

\* publish, pause, resume and restore, which may name no occurrence.
LifecycleMoves ==
  {<<"draft", "active">>, <<"active", "paused">>, <<"paused", "active">>,
   <<"cancelled", "active">>}

MoveTask(v, t) ==
  /\ ExpectedTask(v, t) /\ WithinBounds(t)
  /\ \E m \in LifecycleMoves :
       /\ task[t].life = m[1]
       /\ task' = [task EXCEPT ![t] = WithLife(@, m[2])]
  /\ UNCHANGED <<project, occ, reading>>

(* cancel and archive: the client names the runnable occurrences it saw; it *)
(* must have named all there are, at their revisions.  All are cancelled.   *)
Ending(life) ==
  {m \in {"cancelled", "archived"} :
     IF m = "cancelled" THEN life \in {"draft", "active", "paused"} ELSE life # "archived"}

NamesWhatItSaw(v, t) ==                         \* Mutant: one it did not name may be left.
  \A k \in OpenWork(t) : v.occ[t][k].status \in Runnable => ExpectedOccurrence(v, t, k)
NamesOpenWork(v, t) ==
  LET named == {k \in OccurrenceKey : v.occ[t][k].status \in Runnable}
  IN  OpenWork(t) \subseteq named /\ \A k \in named : ExpectedOccurrence(v, t, k)

CancelOccurrence(o) == [status |-> "cancelled", revision |-> o.revision + 1,
                        kind |-> o.kind, kept |-> o.kept, logged |-> TRUE]

EndTask(v, t) ==
  /\ ExpectedTask(v, t) /\ WithinBounds(t)
  /\ NamesOpenWork(v, t)
  /\ \E life \in Ending(task[t].life) :
       task' = [task EXCEPT ![t] = WithLife(@, life)]
  /\ occ' = [occ EXCEPT ![t] = [k \in OccurrenceKey |->
               IF k \in OpenWork(t) THEN CancelOccurrence(occ[t][k]) ELSE occ[t][k]]]
  /\ UNCHANGED <<project, reading>>

\* A deleted task is gone with its rows; its id is never used again.
DeleteTask(v, t) ==
  /\ ExpectedTask(v, t)
  /\ \A k \in OccurrenceKey :
       k \in Present(t) \/ v.occ[t][k].status # "none" => ExpectedOccurrence(v, t, k)
  /\ task' = [task EXCEPT ![t] = NoTask("gone", @.project)]
  /\ occ' = [occ EXCEPT ![t] = [k \in OccurrenceKey |-> NoOccurrence]]
  /\ UNCHANGED <<project, reading>>

(* An edit of the task's attributes, among them its project: runnable work  *)
(* does not go where it is not accepted; a planning project becomes active. *)
PatchTask(v, t, p) ==
  /\ ExpectedTask(v, t) /\ WithinBounds(t)
  /\ project[p].status # "gone"
  /\ OpenWork(t) # {} => Accepts(p)
  /\ task' = [task EXCEPT ![t].project = p, ![t].revision = @ + 1]
  /\ project' = IF project[p].status = "planning"
                THEN [project EXCEPT ![p].status = "active"] ELSE project
  /\ UNCHANGED <<occ, reading>>

-----------------------------------------------------------------------------
(* Occurrences.                                                             *)
(* start, block, unblock, complete, skip, cancel and reopen: from, to.      *)
Moves(o) ==
  {to \in Runnable \cup Terminal :
     CASE to = "active" -> o.status \in {"open", "blocked"}
       [] to = "blocked" -> o.status = "active"
       [] to = "done" -> o.status \in {"open", "active"}
       [] to = "skipped" -> o.status = "open" /\ o.kind = "recurring"
       [] to = "cancelled" -> o.status \in Runnable
       [] to = "open" -> o.status \in Terminal}

Moved(o, to) == [status |-> to, revision |-> o.revision + 1, kind |-> o.kind,
                 kept |-> o.kept \/ (o.status = "open" /\ to = "active"), logged |-> TRUE]

(* What the command makes of the lifecycle, if it is not refused: the       *)
(* occurrence of an aggregate that does not recur takes its task along.     *)
SingleLifecycles(life, to) ==
  CASE to = "done"      -> IF life = "active" THEN {"completed"} ELSE {}
    [] to = "open"      -> IF life = "completed" THEN {"active"} ELSE {}
    [] to = "cancelled" -> IF life \in {"draft", "active", "paused"} THEN {"cancelled"} ELSE {}
    [] OTHER            -> {life}

RecurringLifecycles(life, to) ==
  CASE to = "open" /\ life = "cancelled" -> {}
    [] to = "open" /\ life = "completed" -> {"active"}
    [] OTHER -> {life}

LifecycleKept(t, to) == {task[t].life}        \* Mutant: only the occurrence moves.
LifecyclesAfter(t, to) ==
  IF Recurring(t) THEN RecurringLifecycles(task[t].life, to)
  ELSE SingleLifecycles(task[t].life, to)

ExecuteOccurrence(v, t, k) ==
  /\ ExpectedTask(v, t) /\ WithinBounds(t)
  /\ ExpectedOccurrence(v, t, k)
  /\ \E to \in Moves(occ[t][k]) :
       /\ to \in Runnable => Accepts(task[t].project)
       /\ \E life \in LifecyclesAfter(t, to) :
            task' = [task EXCEPT ![t] = WithLife(@, life)]
       /\ occ' = [occ EXCEPT ![t][k] = Moved(@, to)]
  /\ UNCHANGED <<project, reading>>

Overridden(o) == [status |-> o.status, revision |-> o.revision + 1, kind |-> o.kind,
                  kept |-> TRUE, logged |-> o.logged]

\* Another time for one occurrence; the revision of the task is checked and kept.
RescheduleOccurrence(v, t, k) ==
  /\ ExpectedTask(v, t) /\ WithinBounds(t)
  /\ ExpectedOccurrence(v, t, k) /\ k \in OpenWork(t)
  /\ occ' = [occ EXCEPT ![t][k] = Overridden(@)]
  /\ UNCHANGED <<project, task, reading>>

-----------------------------------------------------------------------------
(* Schedules.  A new version recurs or not and gives some keys; occurrences *)
(* that are protected or past stay, those it gives are moved under it or    *)
(* made, the others are deleted, which their logs would refuse.  Neither    *)
(* the lifecycle nor the revision of the task matters or changes.           *)
Stays(o) == o.kept \/ o.status \in {"active", "blocked"} \cup Terminal

UnderNewVersion(o, kind) ==
  [status |-> "open", revision |-> o.revision + 1, kind |-> kind,
   kept |-> FALSE, logged |-> o.logged]

RescheduleThisAndFuture(v, t) ==
  /\ ExpectedTask(v, t) /\ WithinBounds(t) /\ task[t].schedule < MaxScheduleRevision
  /\ \E kind \in Kind, past \in SUBSET OccurrenceKey : \E given \in SUBSET KeysOf(kind) :
       LET staying == {k \in Present(t) : k \in past \/ Stays(occ[t][k])}
           made    == given \ staying
           deleted == Present(t) \ (staying \cup given)
       IN  /\ made # {} => Accepts(task[t].project)
           /\ \A k \in deleted : ~occ[t][k].logged
           /\ occ' = [occ EXCEPT ![t] = [k \in OccurrenceKey |->
                IF k \in made THEN UnderNewVersion(occ[t][k], kind)
                ELSE IF k \in deleted THEN NoOccurrence ELSE occ[t][k]]]
           /\ task' = [task EXCEPT ![t] = WithVersion(@, kind)]
  /\ UNCHANGED <<project, reading>>

(* The generator fills the window of an active task that recurs, also from  *)
(* older versions.  It looks neither at the project nor changes a revision  *)
(* (OccurrenceGeneration has the rest of it).                               *)
GenerateMissing(t) ==
  /\ task[t].life = "active" /\ task[t].kind = "recurring"
  /\ \E keys \in SUBSET ((UNION {KeysOf(kind) : kind \in task[t].kinds}) \ Present(t)) :
       /\ keys # {}
       /\ occ' = [occ EXCEPT ![t] = [k \in OccurrenceKey |->
            IF k \in keys THEN PlannedOccurrence(KindOf(k)) ELSE occ[t][k]]]
  /\ UNCHANGED <<project, task, reading>>

-----------------------------------------------------------------------------
(* Projects.  activate, pause, resume, complete, archive, restore, delete.  *)
TasksOf(p) == {t \in Task : Exists(t) /\ task[t].project = p}

NextStatuses(p) ==
  LET s == project[p].status IN
  CASE s = "planning"  -> {"active", "archived"}
    [] s = "active"    -> {"paused", "archived", "completed"}
    [] s = "paused"    -> {"active", "archived", "completed"}
    [] s = "completed" -> {"archived"}
    [] s = "archived"  -> {project[p].from}
    [] OTHER           -> {}

OriginForgotten(s, was) == [status |-> s, from |-> "none"]   \* Mutant.
WithStatus(s, was) == [status |-> s, from |-> IF s = "archived" THEN was ELSE "none"]

MoveProject(p) ==
  /\ \E s \in NextStatuses(p) :
       /\ (s = "completed" /\ project[p].status # "archived")
            => \A t \in TasksOf(p) : OpenWork(t) = {}
       /\ project' = [project EXCEPT ![p] = WithStatus(s, @.status)]
  /\ UNCHANGED <<task, occ, reading>>

DeleteProject(p) ==
  /\ project[p].status # "gone"
  /\ project' = [project EXCEPT ![p] = [status |-> "gone", from |-> "none"]]
  /\ task' = [t \in Task |-> IF t \in TasksOf(p) THEN NoTask("gone", p) ELSE task[t]]
  /\ occ' = [t \in Task |-> IF t \in TasksOf(p) THEN [k \in OccurrenceKey |-> NoOccurrence]
                            ELSE occ[t]]
  /\ UNCHANGED reading

-----------------------------------------------------------------------------
AggregateInit ==
  /\ project \in [Project -> {[status |-> s, from |-> "none"] : s \in {"planning", "active"}}]
  /\ \E p \in Project : task = [t \in Task |-> NoTask("none", p)]
  /\ occ = [t \in Task |-> [k \in OccurrenceKey |-> NoOccurrence]]
  /\ reading = Fresh

TaskCommand(v, t) ==
  \/ MoveTask(v, t)
  \/ EndTask(v, t)
  \/ DeleteTask(v, t)
  \/ \E p \in Project : PatchTask(v, t, p)
  \/ \E k \in OccurrenceKey : ExecuteOccurrence(v, t, k)
  \/ \E k \in OccurrenceKey : RescheduleOccurrence(v, t, k)
  \/ RescheduleThisAndFuture(v, t)

AggregateNext ==
  \/ ReadTask
  \/ \E t \in Task, p \in Project : CreateTask(t, p)
  \/ \E t \in Task : TaskCommand(reading, t)
  \/ \E t \in Task : TaskCommand(Fresh, t)
  \/ \E t \in Task : GenerateMissing(t)
  \/ \E p \in Project : MoveProject(p)
  \/ \E p \in Project : DeleteProject(p)

AggregateSpec == AggregateInit /\ [][AggregateNext]_aggregateVars

-----------------------------------------------------------------------------
OccurrenceType == [status : Runnable \cup Terminal \cup {"none"}, revision : Nat,
                   kind : Kind, kept : BOOLEAN, logged : BOOLEAN]
TaskType == [life : Lifecycle \cup {"none", "gone"}, revision : Nat, project : Project,
             schedule : Nat, kind : Kind, kinds : SUBSET Kind]

AggregateTypeOK ==
  /\ project \in [Project -> [status : Restorable \cup {"archived", "gone"},
                              from : Restorable \cup {"none"}]]
  /\ task \in [Task -> TaskType]
  /\ occ \in [Task -> [OccurrenceKey -> OccurrenceType]]
  /\ reading \in [task : [Task -> TaskType], occ : [Task -> [OccurrenceKey -> OccurrenceType]]]

(* A task that never recurred is completed when its one occurrence is done, *)
(* and only then (until it is archived), whatever schedule edits and        *)
(* commands of other clients come in between.                               *)
OneOffAgrees ==
  \A t \in Task : OneOff(t) =>
    /\ task[t].life = "completed" => occ[t][Once].status = "done"
    /\ occ[t][Once].status = "done" => task[t].life \in {"completed", "archived"}

(* A completed project has no runnable work of tasks that never recurred:   *)
(* the count on completion, and every later way to make work runnable in    *)
(* it, or to move it there, agree.  (The generator does not ask, so that    *)
(* recurring tasks are another matter.)                                     *)
CompletedIsQuiet ==
  \A t \in Task :
    OneOff(t) /\ project[task[t].project].status = "completed" => OpenWork(t) = {}

(* A task that is cancelled or archived, by its own command or by           *)
(* cancelling its only occurrence, has nothing runnable left.               *)
EndingIsComplete ==
  [][\A t \in Task : task'[t].life \in Ending(task[t].life) => OpenWork(t)' = {}]_aggregateVars

(* A client's command ends, deletes or moves a task only in the state in    *)
(* which the client saw it: a revision it read still stands for what it     *)
(* read, and work it has not seen is neither cancelled nor deleted.         *)
SawTask(t) ==
  /\ reading.task[t] = task[t]
  /\ \A k \in Present(t) : reading.occ[t][k] = occ[t][k]
ActsOnWhatItSaw ==
  [][\A t \in Task :
       /\ EndTask(reading, t) => \A k \in OpenWork(t) : reading.occ[t][k] = occ[t][k]
       /\ DeleteTask(reading, t) => SawTask(t)
       /\ TaskCommand(reading, t) => reading.task[t] = task[t]]_aggregateVars

=============================================================================
