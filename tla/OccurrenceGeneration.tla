------------------------ MODULE OccurrenceGeneration ------------------------
(***************************************************************************)
(* The rolling window of recurring task occurrences in one workspace, as   *)
(* three parties maintain it:                                              *)
(*                                                                         *)
(*  - clients edit schedules ("this and future"), act on occurrences, and  *)
(*    pause or resume tasks, one tenant transaction each                   *)
(*    (internal/taskdomain, internal/storage/{sqlite,postgres});           *)
(*  - the scheduler keeps one durable generation job per workspace         *)
(*    (internal/taskgeneration, internal/generationclaims);                *)
(*  - workers claim the job under a lease, generate the window in one      *)
(*    tenant transaction, and acknowledge in the control database after    *)
(*    that transaction has committed.                                      *)
(*                                                                         *)
(* A calendar date is a natural number, a recurrence the set of dates it   *)
(* matches.  Every tenant transaction is one action: on both engines a     *)
(* generation excludes every other fenced write of its workspace.          *)
(***************************************************************************)
EXTENDS Integers, Sequences, FiniteSets

CONSTANTS
  Task,          \* recurring tasks of the workspace
  Worker,        \* generation workers, one per server process
  Horizon,       \* days a window reaches beyond today (90 in the code)
  Recurrence,    \* the sets of dates that schedules choose from
  MaxDay,        \* bound on the current date
  MaxVersions,   \* bound on the schedule versions of a task
  EditsPast,     \* environment: an edit may materialise less than up to today
  EditsAgain,    \* environment: an edit may start where the current version does
  DaysLost       \* environment: a task whose activity is in this set may see a day
                 \* end before the occurrences of that day are generated

LastDay == MaxDay + Horizon
Day     == 1 .. LastDay

ASSUME GenerationAssumption ==
  /\ Horizon \in Nat /\ MaxDay \in Nat \ {0} /\ MaxVersions \in Nat \ {0}
  /\ Recurrence \subseteq SUBSET Day
  /\ EditsPast \in BOOLEAN /\ EditsAgain \in BOOLEAN /\ DaysLost \subseteq BOOLEAN
  /\ IsFiniteSet(Worker)

VARIABLES
  today,       \* the current date in the schedules' timezone
  active,      \* task -> its lifecycle is active
  versions,    \* task -> its schedule versions; their number is the schedule revision
  occ,         \* task -> date -> the occurrence with that key
  watermark,   \* task -> generation_watermark, 0 for NULL
  vouched,     \* history: the number of versions when the watermark was last written
  job,         \* the row of task_domain_generation_jobs
  worker       \* worker -> what it holds in memory

vars == <<today, active, versions, occ, watermark, vouched, job, worker>>

taskVars == <<active, versions, occ, watermark, vouched>>

----------------------------------------------------------------------------
(* Schedules and occurrence keys *)

Open == 0      \* effective_to of the current version

Version == [from : Day, to : Day \cup {Open}, days : Recurrence]

Current(t) == versions[t][Len(versions[t])]
Earliest(t) == versions[t][1].from

(* CalculateOccurrenceKeys: the keys of a version in a window.  It refuses a *)
(* version whose effective range is empty.                                   *)
Keys(v, from, through) ==
  {d \in v.days : from <= d /\ d <= through /\ v.from <= d /\ (v.to = Open \/ d < v.to)}

Calculable(v) == v.to = Open \/ v.from < v.to

KeysOf(t, from, through) ==
  UNION {Keys(versions[t][i], from, through) : i \in DOMAIN versions[t]}

(* An occurrence is absent, untouched ("open"), protected by something a     *)
(* user did ("kept": started, blocked, finished, overridden), or finished    *)
(* and reopened with nothing left to protect it.                             *)
Occurrence == {"none", "open", "kept", "reopened"}

Existing(t) == {d \in Day : occ[t][d] # "none"}

----------------------------------------------------------------------------
(* The generation job and its workers *)

NoClaim == 0
Claim == 1 .. Cardinality(Worker) + 2   \* one more than can be held at once

Job == [status : {"none", "queued", "claimed", "retry_pending", "completed", "failed"},
        claim : Claim \cup {NoClaim}, due : BOOLEAN, expired : BOOLEAN]

Outcome == {"completed", "retry_pending", "failed"}
Idle == [pc |-> "idle"]

(* uuid.NewString(): an id that nobody holds. *)
Held == {job.claim} \cup {worker[w].claim : w \in {x \in Worker : worker[x].pc # "idle"}}
EmptyClaim == NoClaim                                   \* Mutant: no id is made.
FreshClaim == CHOOSE id \in Claim : id \notin Held

----------------------------------------------------------------------------
(* Every task was created and published on day 1, with its first window.     *)
Init ==
  /\ today = 1
  /\ active = [t \in Task |-> TRUE]
  /\ versions \in [Task -> {<<[from |-> 1, to |-> Open, days |-> r]>> : r \in Recurrence}]
  /\ occ = [t \in Task |-> [d \in Day |->
              IF d \in KeysOf(t, 1, 1 + Horizon) THEN "open" ELSE "none"]]
  /\ watermark = [t \in Task |-> 0] /\ vouched = [t \in Task |-> 0]
  /\ job = [status |-> "none", claim |-> NoClaim, due |-> FALSE, expired |-> FALSE]
  /\ worker = [w \in Worker |-> Idle]

----------------------------------------------------------------------------
(* Time *)

NextDay ==
  /\ today < MaxDay
  /\ \A t \in Task : active[t] \in DaysLost \/ KeysOf(t, 1, today) \subseteq Existing(t)
  /\ today' = today + 1
  /\ UNCHANGED <<taskVars, job, worker>>

RetryDue ==
  /\ job.status = "retry_pending" /\ ~job.due
  /\ job' = [job EXCEPT !.due = TRUE]
  /\ UNCHANGED <<today, taskVars, worker>>

LeaseExpires ==
  /\ job.status = "claimed" /\ ~job.expired
  /\ job' = [job EXCEPT !.expired = TRUE]
  /\ UNCHANGED <<today, taskVars, worker>>

----------------------------------------------------------------------------
(* Clients *)

(* scheduleOccurrenceMustBePreserved *)
PreservedByDate(s, d, from) == s # "none" /\ d < from   \* Mutant: history is not protected.

Preserved(s, d, from) == s = "kept" \/ (s # "none" /\ d < from)

(* An occurrence the new version wants is inserted, or moved under it.       *)
Upserted(s) == IF s = "none" THEN "open" ELSE s

(* reconcileScheduleOccurrences: what becomes of each occurrence when a      *)
(* version with these days takes effect at `from', materialised up to        *)
(* `through' (exclusive).                                                    *)
UndesiredStay(old, from, through, days) ==              \* Mutant: nothing is deleted.
  [d \in Day |-> IF Preserved(old[d], d, from) THEN old[d]
                 ELSE IF d \in days /\ from <= d /\ d < through THEN Upserted(old[d])
                 ELSE old[d]]

Reconciled(old, from, through, days) ==
  [d \in Day |-> IF Preserved(old[d], d, from) THEN old[d]
                 ELSE IF d \in days /\ from <= d /\ d < through THEN Upserted(old[d])
                 ELSE "none"]

(* The versions of a task, the current one closed where another begins. *)
Closed(t, from) == [versions[t] EXCEPT ![Len(versions[t])] = [Current(t) EXCEPT !.to = from]]

(* RescheduleThisAndFuture: close the current version where the new one      *)
(* begins and reconcile the occurrences from there on.  The transaction is   *)
(* refused when it would delete an occurrence that has execution logs: they  *)
(* are immutable and refer to it by a foreign key without cascade.           *)
Reschedule(t, from, through, days) ==
  /\ Len(versions[t]) < MaxVersions
  /\ from >= Current(t).from /\ through > from
  /\ EditsAgain \/ from > Current(t).from
  /\ EditsPast \/ through >= today
  /\ \A d \in Day : occ[t][d] = "reopened" => Reconciled(occ[t], from, through, days)[d] # "none"
  /\ versions' = [versions EXCEPT ![t] =
       Append(Closed(t, from), [from |-> from, to |-> Open, days |-> days])]
  /\ occ' = [occ EXCEPT ![t] = Reconciled(occ[t], from, through, days)]
  /\ UNCHANGED <<today, active, watermark, vouched, job, worker>>

(* A user starts, finishes, blocks, skips or moves an occurrence. *)
Touch(t, d) ==
  /\ occ[t][d] \in {"open", "reopened"}
  /\ occ' = [occ EXCEPT ![t][d] = "kept"]
  /\ UNCHANGED <<today, active, versions, watermark, vouched, job, worker>>

Reopen(t, d) ==
  /\ occ[t][d] = "kept"
  /\ occ' = [occ EXCEPT ![t][d] = "reopened"]
  /\ UNCHANGED <<today, active, versions, watermark, vouched, job, worker>>

PauseOrResume(t) ==
  /\ active' = [active EXCEPT ![t] = ~@]
  /\ UNCHANGED <<today, versions, occ, watermark, vouched, job, worker>>

----------------------------------------------------------------------------
(* The scheduler *)

(* Mutant: only a completed cycle is started again. *)
AfterSuccess(status) == status \in {"none", "completed"}

Restartable(status) == status \in {"none", "completed", "failed"}

(* EnsureScheduled, called periodically by Reconcile and, best effort, by    *)
(* Nudge after a client's commit.                                            *)
EnsureScheduled ==
  /\ Restartable(job.status)
  /\ job' = [status |-> "queued", claim |-> NoClaim, due |-> TRUE, expired |-> FALSE]
  /\ UNCHANGED <<today, taskVars, worker>>

----------------------------------------------------------------------------
(* Workers *)

Claimable ==
  \/ job.status \in {"queued", "retry_pending"} /\ job.due
  \/ job.status = "claimed" /\ job.expired

(* ClaimGenerationWorkspaces; the date is read once, before the claim. *)
ClaimJob(w) ==
  /\ worker[w].pc = "idle" /\ Claimable
  /\ job' = [status |-> "claimed", claim |-> FreshClaim, due |-> FALSE, expired |-> FALSE]
  /\ worker' = [worker EXCEPT ![w] = [pc |-> "generate", claim |-> FreshClaim, day |-> today]]
  /\ UNCHANGED <<today, taskVars>>

(* planGenerationTarget: the missing keys of today's window, and a watermark *)
(* that never moves back.                                                    *)
ClosedRangesIgnored(t, day) ==             \* Mutant: a superseded version still generates.
  UNION {{d \in versions[t][i].days : day <= d /\ d <= day + Horizon /\ versions[t][i].from <= d} :
         i \in DOMAIN versions[t]} \ Existing(t)

Planned(t, day) == KeysOf(t, day, day + Horizon) \ Existing(t)

NextWatermark(t, day) ==
  IF watermark[t] > day + Horizon THEN watermark[t] ELSE day + Horizon

Plannable(t) == \A i \in DOMAIN versions[t] : Calculable(versions[t][i])

(* CompleteGeneration: every expected key from the first version up to the   *)
(* watermark must exist.                                                     *)
NotChecked(t, day) == TRUE                              \* Mutant

Complete(t, day) ==
  KeysOf(t, Earliest(t), NextWatermark(t, day)) \subseteq Existing(t) \cup Planned(t, day)

Finish(w, outcome) ==
  worker' = [worker EXCEPT ![w] = [pc |-> "ack", claim |-> worker[w].claim, outcome |-> outcome]]

GenerationSucceeds(day) == \A t \in Task : active[t] => Plannable(t) /\ Complete(t, day)

(* BeginGenerationWrite: all enabled tasks of the workspace, or none. *)
Generate(w) ==
  LET day == worker[w].day IN
  /\ worker[w].pc = "generate" /\ GenerationSucceeds(day)
  /\ occ' = [t \in Task |-> [d \in Day |->
       IF active[t] /\ d \in Planned(t, day) THEN "open" ELSE occ[t][d]]]
  /\ watermark' = [t \in Task |-> IF active[t] THEN NextWatermark(t, day) ELSE watermark[t]]
  /\ vouched' = [t \in Task |-> IF active[t] THEN Len(versions[t]) ELSE vouched[t]]
  /\ Finish(w, "completed")
  /\ UNCHANGED <<today, active, versions, job>>

(* The plan is refused: not retryable, so the claim fails. *)
Refuse(w) ==
  /\ worker[w].pc = "generate" /\ ~GenerationSucceeds(worker[w].day)
  /\ Finish(w, "failed")
  /\ UNCHANGED <<today, taskVars, job>>

(* The runtime cannot be resolved, its epoch is stale, or the transaction    *)
(* fails for a passing reason.                                               *)
Interrupted(w) ==
  /\ worker[w].pc = "generate"
  /\ \E outcome \in {"retry_pending", "failed"} : Finish(w, outcome)
  /\ UNCHANGED <<today, taskVars, job>>

(* CompleteGenerationClaim *)
AnyClaim(w) == job.status = "claimed"                   \* Mutant: the claim id is not compared.

HoldsClaim(w) == job.status = "claimed" /\ job.claim = worker[w].claim

Acknowledge(w) ==
  /\ worker[w].pc = "ack"
  /\ job' = IF HoldsClaim(w)
            THEN [job EXCEPT !.status = worker[w].outcome, !.due = FALSE, !.expired = FALSE]
            ELSE job
  /\ worker' = [worker EXCEPT ![w] = Idle]
  /\ UNCHANGED <<today, taskVars>>

(* The process dies; a claim it held stays in the row until its lease ends.  *)
Crash(w) ==
  /\ worker[w].pc # "idle"
  /\ worker' = [worker EXCEPT ![w] = Idle]
  /\ UNCHANGED <<today, taskVars, job>>

----------------------------------------------------------------------------
ClientStep(t) ==
  \/ \E from \in Day, through \in 2 .. LastDay + 1, days \in Recurrence :
       Reschedule(t, from, through, days)
  \/ \E d \in Day : Touch(t, d) \/ Reopen(t, d)
  \/ PauseOrResume(t)

WorkerStep(w) ==
  ClaimJob(w) \/ Generate(w) \/ Refuse(w) \/ Interrupted(w) \/ Acknowledge(w) \/ Crash(w)

Next ==
  \/ NextDay \/ RetryDue \/ LeaseExpires \/ EnsureScheduled
  \/ \E t \in Task : ClientStep(t)
  \/ \E w \in Worker : WorkerStep(w)

Spec == Init /\ [][Next]_vars

(* Fairness: clocks advance, the scheduler's loop keeps running, and a       *)
(* worker that keeps claiming is not interrupted or killed every time.       *)
Fairness ==
  /\ WF_vars(RetryDue) /\ WF_vars(LeaseExpires) /\ WF_vars(EnsureScheduled)
  /\ \A w \in Worker : WF_vars(ClaimJob(w)) /\ WF_vars(Refuse(w))
                       /\ SF_vars(Generate(w)) /\ SF_vars(Acknowledge(w))

FairSpec == Spec /\ Fairness

----------------------------------------------------------------------------
(* Every variable has its type. *)
TypeOK ==
  /\ today \in 1 .. MaxDay /\ active \in [Task -> BOOLEAN]
  /\ versions \in [Task -> Seq(Version)]
  /\ \A t \in Task : Len(versions[t]) > 0
  /\ occ \in [Task -> [Day -> Occurrence]]
  /\ watermark \in [Task -> Nat] /\ vouched \in [Task -> Nat]
  /\ job \in Job
  /\ worker \in [Worker -> [pc : {"idle"}] \cup [pc : {"generate"}, claim : Claim, day : Day]
                           \cup [pc : {"ack"}, claim : Claim, outcome : Outcome]]

(* Every occurrence that nobody has touched is a key of the version in force *)
(* on its date: neither an edit that races a generation nor a generation     *)
(* planned before an edit leaves an occurrence of a superseded schedule.     *)
NoOrphans ==
  \A t \in Task : \A d \in Day : occ[t][d] = "open" => d \in KeysOf(t, d, d)

(* What a user did to an occurrence survives every schedule edit and every   *)
(* generation: only the user reopens it.                                     *)
HistoryKept ==
  [][\A t \in Task : \A d \in Day :
       occ[t][d] = "kept" => occ'[t][d] = "kept" \/ Reopen(t, d)]_vars

(* The watermark tells the truth until the next edit of the schedule: every  *)
(* key expected up to it exists, whatever users and other workers do.        *)
WatermarkHonest ==
  \A t \in Task :
    vouched[t] = Len(versions[t]) =>
      KeysOf(t, Earliest(t), watermark[t]) \subseteq Existing(t)

(* Only the worker that holds the current claim ends a cycle: one whose      *)
(* lease expired and was taken over cannot report over its successor.        *)
EndedByHolder ==
  [][job.status = "claimed" /\ job'.status \in Outcome =>
       \E w \in Worker : /\ worker[w].pc = "ack" /\ worker[w].claim = job.claim
                         /\ worker[w].outcome = job'.status]_vars

(* The window is extended every day: again and again, every active task has  *)
(* all the occurrences from today to the horizon.                            *)
Filled(t) == active[t] => KeysOf(t, today, today + Horizon) \subseteq Existing(t)

WindowsFilled == []<>(\A t \in Task : Filled(t))
=============================================================================
