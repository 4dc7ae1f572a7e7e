-------------------------- MODULE TaskDomainState --------------------------
(***************************************************************************)
(* The durable row workspace_task_domain_state and the commands that move  *)
(* a workspace from the legacy task model to the v2 model                  *)
(* (internal/taskmigration/state.go).  Every command of the code is a pure *)
(* function from a row to a row or an error; here a command X is a pair of *)
(* operators: CanX, true when the function returns no error, and X, the    *)
(* row it returns.  The revision and epoch that a caller passes are        *)
(* compared by the caller's compare-and-swap, in TaskMigration.            *)
(*                                                                         *)
(* The timezone, the audit text of a failure and the timestamp of the      *)
(* first v2 write are abstracted: the last one to whether it is set.       *)
(***************************************************************************)
EXTENDS Integers

CONSTANTS Migration,    \* the identities an operator gives to a migration
          NoMigration   \* migration_id IS NULL

ASSUME MigrationAssumption == NoMigration \notin Migration

NoCutover == -1         \* cutover_revision IS NULL

Model  == {"legacy", "v2"}
Phase  == {"idle", "backfilling", "catching_up", "draining", "ready", "cutover", "failed"}

State == [model       : Model,
          phase       : Phase,
          watermark   : Nat,
          cutover     : Nat \cup {NoCutover},
          epoch       : Nat \ {0},
          accept      : BOOLEAN,
          firstWrite  : BOOLEAN,
          migrationId : Migration \cup {NoMigration},
          revision    : Nat \ {0}]

InitialState(model) ==
  [model |-> model, phase |-> "idle", watermark |-> 0, cutover |-> NoCutover,
   epoch |-> 1, accept |-> model = "legacy", firstWrite |-> FALSE,
   migrationId |-> NoMigration, revision |-> 1]

ServingV2(s) == s.model = "v2" /\ s.phase \in {"idle", "cutover"}

(* WorkspaceTaskDomainState.Validate, one conjunct per phase of its switch. *)
ValidState(s) ==
  /\ s.firstWrite => ServingV2(s)
  /\ s.phase = "idle" =>
       /\ s.cutover = NoCutover
       /\ s.accept = (s.model = "legacy")
       /\ s.model = "v2" => s.migrationId = NoMigration /\ s.watermark = 0
  /\ s.phase \in {"backfilling", "catching_up"} =>
       s.model = "legacy" /\ s.migrationId # NoMigration /\ s.accept /\ s.cutover = NoCutover
  /\ s.phase \in {"draining", "ready"} =>
       s.model = "legacy" /\ s.migrationId # NoMigration /\ ~s.accept /\ s.cutover # NoCutover
  /\ s.phase = "cutover" =>
       s.model = "v2" /\ s.migrationId # NoMigration /\ ~s.accept /\ s.cutover # NoCutover
  /\ s.phase \in {"ready", "cutover"} => s.watermark >= s.cutover
  /\ s.phase = "failed" => s.model = "legacy" /\ s.migrationId # NoMigration /\ s.accept

----------------------------------------------------------------------------
CanStartBackfill(s) == ValidState(s) /\ s.model = "legacy" /\ s.phase = "idle"

StartBackfill(s, m) ==
  [s EXCEPT !.phase = "backfilling", !.watermark = 0, !.cutover = NoCutover,
            !.migrationId = m, !.revision = @ + 1]

CanBeginCatchingUp(s, w) ==
  ValidState(s) /\ s.phase \in {"backfilling", "catching_up"} /\ w >= s.watermark

BeginCatchingUp(s, w) ==
  [s EXCEPT !.phase = "catching_up", !.watermark = w, !.revision = @ + 1]

CanBeginDrain(s, cut) ==
  ValidState(s) /\ s.phase = "catching_up" /\ cut >= s.watermark

BeginDrain(s, cut) ==
  [s EXCEPT !.phase = "draining", !.cutover = cut, !.accept = FALSE,
            !.epoch = @ + 1, !.revision = @ + 1]

CanMarkReady(s) ==
  ValidState(s) /\ s.phase = "draining" /\ s.cutover # NoCutover /\ s.watermark >= s.cutover

MarkReady(s) == [s EXCEPT !.phase = "ready", !.revision = @ + 1]

CanCutover(s, m) ==
  /\ ValidState(s) /\ s.phase = "ready" /\ s.model = "legacy" /\ s.migrationId = m
  /\ s.cutover # NoCutover /\ s.watermark >= s.cutover /\ ~s.accept

Cutover(s) == [s EXCEPT !.model = "v2", !.phase = "cutover", !.revision = @ + 1]

CanFail(s) == ValidState(s) /\ s.model = "legacy" /\ s.phase \notin {"idle", "failed"}

(* A failed drain reopens the legacy fence, which invalidates every runtime *)
(* of the drained epoch; a failure before the drain keeps the epoch.        *)
Fail(s) ==
  [s EXCEPT !.phase = "failed", !.accept = TRUE,
            !.epoch = IF s.accept THEN @ ELSE @ + 1, !.revision = @ + 1]

(* Mutant: the first v2 write does not end the possibility to recover. *)
RecoverAnytime(s) ==
  /\ ValidState(s)
  /\ s.phase = IF s.model = "v2" THEN "cutover" ELSE "failed"

CanRecover(s) ==
  /\ ValidState(s)
  /\ \/ s.model = "v2" /\ s.phase = "cutover" /\ ~s.firstWrite
     \/ s.model = "legacy" /\ s.phase = "failed"

(* resetToLegacyIdle keeps the migration id for audit. *)
Recover(s) ==
  [s EXCEPT !.model = "legacy", !.phase = "idle", !.watermark = 0, !.cutover = NoCutover,
            !.accept = TRUE, !.firstWrite = FALSE,
            !.epoch = IF s.model = "v2" THEN @ + 1 ELSE @, !.revision = @ + 1]

(* MarkV2FirstWrite as the tenant writers run it: a no-op unless the row     *)
(* serves v2 and has no first write yet.                                     *)
MarkV2FirstWrite(s) ==
  IF s.model = "v2" /\ ~s.firstWrite
  THEN [s EXCEPT !.firstWrite = TRUE, !.revision = @ + 1]
  ELSE s
=============================================================================
