---------------------------- MODULE RuntimeEpoch ----------------------------
(***************************************************************************)
(* The write epoch of a workspace is kept twice: in its tenant database,   *)
(* where a migration raises it, and in the control database, which names   *)
(* the version of the runtime that requests use.  This module is the       *)
(* rollout that changes one after the other, and the requests that resolve *)
(* a runtime meanwhile:                                                    *)
(*                                                                         *)
(*  - flowspace-admin task-migration-cutover, started by an operator again *)
(*    and again until it succeeds (cmd/flowspace-admin/taskcutover.go);    *)
(*  - the server, its requests, and the runtimes they share                *)
(*    (taskruntime/model_selector.go, taskruntime/resolver.go,             *)
(*    tenantruntime/resolver.go, taskruntime/factory.go);                  *)
(*  - a user who changes a service binding (controlprofile/binding.go).    *)
(*                                                                         *)
(* The steps of a migration up to ready are those of TaskDomainState, with *)
(* an empty outbox; TaskMigration models how they are reached.  No command *)
(* fails or recovers a migration: that would raise the tenant epoch a      *)
(* second time, and the control epoch only ever follows by one.            *)
(***************************************************************************)
EXTENDS Naturals

CONSTANTS
  Caller,       \* requests that can be under way at once
  Steady,       \* the one after which another comes, again and again
  MaxBinding,   \* bound on the changes of a service binding
  MaxOutages,   \* bound on the deaths of the command and on starts of the server during it
  MaxOthers     \* bound on the requests of the other callers

ASSUME RuntimeAssumption ==
  /\ Steady \in Caller
  /\ MaxBinding \in Nat \ {0} /\ MaxOutages \in Nat /\ MaxOthers \in Nat

VARIABLES
  tenant,    \* the row workspace_task_domain_state
  control,   \* the row workspace_runtime_state: its epoch and binding_revision
  rollout,   \* the step of the cutover command, and what it has read of `control'
  up,        \* the server is running
  runtime,   \* the cached runtime: the version it was built for, and its model
  call,      \* what each request is doing
  outages, others

runtimeVars == <<tenant, control, rollout, up, runtime, call, outages, others>>

Durable == INSTANCE TaskDomainState WITH Migration <- {"rollout"}, NoMigration <- "none"

NoVersion == [epoch |-> 0, binding |-> 0]
NoRuntime == [version |-> NoVersion, model |-> "none"]
Asleep    == [at |-> "idle"]

RuntimeInit ==
  /\ tenant = Durable!InitialState("legacy")
  /\ control = [epoch |-> 1, binding |-> 1]
  /\ rollout = [step |-> "due", read |-> NoVersion]
  /\ up = TRUE /\ runtime = NoRuntime /\ call = [c \in Caller |-> Asleep]
  /\ outages = 0 /\ others = 0

----------------------------------------------------------------------------
(* Rollout *)

Migrate ==
  /\ \/ Durable!CanStartBackfill(tenant) /\ tenant' = Durable!StartBackfill(tenant, "rollout")
     \/ tenant.phase = "backfilling" /\ tenant' = Durable!BeginCatchingUp(tenant, 0)
     \/ Durable!CanBeginDrain(tenant, 0) /\ tenant' = Durable!BeginDrain(tenant, 0)
     \/ Durable!CanMarkReady(tenant) /\ tenant' = Durable!MarkReady(tenant)
  /\ UNCHANGED <<control, rollout, up, runtime, call, outages, others>>

(* The server stops: its requests and its runtimes are gone with it. *)
Stopped == up' = FALSE /\ runtime' = NoRuntime /\ call' = [c \in Caller |-> Asleep]

RolloutTo(step, read) == rollout' = [step |-> step, read |-> read]

(* The operator stops the server and starts the command. *)
StartRollout ==
  /\ rollout.step = "due" /\ tenant.phase \in {"ready", "cutover"}
  /\ Stopped /\ RolloutTo("gates", NoVersion)
  /\ UNCHANGED <<tenant, control, outages, others>>

(* Mutant: a cutover that is found applied is refused, as not ready. *)
AppliedIsRefused ==
  /\ tenant.phase = "cutover" /\ RolloutTo("due", NoVersion) /\ UNCHANGED tenant

(* CutoverService.Execute returns with the tenant on v2: it has applied the  *)
(* cutover, behind its gates, or finds it applied.                           *)
AlreadyApplied ==
  /\ tenant.phase = "cutover" /\ RolloutTo("synchronise", NoVersion) /\ UNCHANGED tenant

CutOver ==
  /\ rollout.step = "gates"
  /\ \/ AlreadyApplied
     \/ /\ Durable!CanCutover(tenant, "rollout") /\ ~up
        /\ tenant' = Durable!Cutover(tenant) /\ RolloutTo("synchronise", NoVersion)
     \/ Durable!CanCutover(tenant, "rollout") /\ up /\ RolloutTo("due", NoVersion) /\ UNCHANGED tenant
  /\ UNCHANGED <<control, up, runtime, call, outages, others>>

(* synchronizeControlEpoch reads the control row: an equal epoch is done, a  *)
(* gap of one is closed by a compare-and-swap, a wider one refused.          *)
ReadControl ==
  /\ rollout.step = "synchronise"
  /\ IF control.epoch + 1 = tenant.epoch THEN RolloutTo("advance", control)
     ELSE RolloutTo(IF control.epoch = tenant.epoch THEN "finished" ELSE "due", NoVersion)
  /\ UNCHANGED <<tenant, control, up, runtime, call, outages, others>>

AdvanceEpoch ==
  /\ rollout.step = "advance"
  /\ \/ /\ control = rollout.read /\ control' = [control EXCEPT !.epoch = @ + 1]
        /\ RolloutTo("finished", NoVersion)
     \/ control # rollout.read /\ RolloutTo("due", NoVersion) /\ UNCHANGED control
  /\ UNCHANGED <<tenant, up, runtime, call, outages, others>>

CommandRuns == rollout.step \in {"gates", "synchronise", "advance"}

Outage == outages < MaxOutages /\ outages' = outages + 1

CommandDies ==
  /\ CommandRuns /\ Outage /\ RolloutTo("due", NoVersion)
  /\ UNCHANGED <<tenant, control, up, runtime, call, others>>

(* The server is started after the command, also after one that failed; and  *)
(* perhaps by somebody during it.                                            *)
StartServer ==
  /\ ~up /\ up' = TRUE
  /\ IF CommandRuns THEN Outage ELSE UNCHANGED outages
  /\ UNCHANGED <<tenant, control, rollout, runtime, call, others>>

(* SetBinding: a change of any service binding raises the revision of all. *)
ChangeBinding ==
  /\ up /\ control.binding < MaxBinding
  /\ control' = [control EXCEPT !.binding = @ + 1]
  /\ UNCHANGED <<tenant, rollout, up, runtime, call, outages, others>>

----------------------------------------------------------------------------
(* Requests *)

CallAt(c, step)   == up /\ call[c].at = step
CallGoes(c, next) == call' = [call EXCEPT ![c] = next]

requestVars == <<tenant, control, rollout, up, outages, others>>

(* A request resolves twice: the selector of its route, which asks for the   *)
(* model, and for a v2 workspace the application.  `again' is the second     *)
(* attempt of either.                                                        *)
Arrive(c) ==
  /\ CallAt(c, "idle")
  /\ IF c = Steady THEN UNCHANGED others ELSE others < MaxOthers /\ others' = others + 1
  /\ CallGoes(c, [at |-> "enter", selects |-> TRUE, again |-> FALSE])
  /\ UNCHANGED <<tenant, control, rollout, up, runtime, outages>>

(* Resolver.Resolve loads the version before it waits for the gate of the    *)
(* workspace, which one request holds from its look in the cache until the   *)
(* runtime is built.                                                         *)
GateFree == \A d \in Caller : call[d].at \notin {"load", "build"}

Resolving(c, step, version) ==
  [at |-> step, selects |-> call[c].selects, again |-> call[c].again, version |-> version]

LoadVersion(c) ==
  /\ CallAt(c, "enter") /\ CallGoes(c, Resolving(c, "gate", control))
  /\ UNCHANGED <<requestVars, runtime>>

(* A failure of the selector drops the runtime, one of the application only  *)
(* if it has got one.                                                        *)
Rejected(c) ==
  IF call[c].selects \/ call[c].at = "verify" THEN [at |-> "drop", next |-> Asleep] ELSE Asleep

Holding(c, held) ==
  [at |-> "verify", selects |-> call[c].selects, again |-> call[c].again,
   held |-> held, open |-> TRUE]

(* Mutant: any runtime of the epoch will do. *)
OfEpoch(cached, version) == cached # NoRuntime /\ cached.version.epoch = version.epoch

OfVersion(cached, version) == cached # NoRuntime /\ cached.version = version

LookUp(c) ==
  /\ CallAt(c, "gate") /\ GateFree
  /\ IF OfVersion(runtime, call[c].version)
     THEN CallGoes(c, Holding(c, runtime))
     ELSE CallGoes(c, Resolving(c, "load", call[c].version))
  /\ UNCHANGED <<requestVars, runtime>>

(* LoadSnapshot refuses a version that has changed since. *)
LoadSnapshot(c) ==
  /\ CallAt(c, "load")
  /\ IF control = call[c].version
     THEN CallGoes(c, Resolving(c, "build", control)) ELSE CallGoes(c, Rejected(c))
  /\ UNCHANGED <<requestVars, runtime>>

(* stableTaskModel: the models a request can be served by; draining, ready,  *)
(* and every other phase on the way have none.                               *)
Stable(s) == s.phase = "idle" \/ s.model = "v2"

(* Whoever holds the runtime that leaves the cache holds a closed one. *)
Closed(calls) ==
  [d \in Caller |-> IF calls[d].at = "verify" THEN [calls[d] EXCEPT !.open = FALSE] ELSE calls[d]]

(* Factory.Build: the tenant must have the epoch of the control row. *)
Build(c) ==
  LET version == call[c].version
      built   == [version |-> version, model |-> tenant.model]
  IN
  /\ CallAt(c, "build")
  /\ \/ /\ Stable(tenant) /\ tenant.epoch = version.epoch
        /\ runtime' = built /\ call' = [Closed(call) EXCEPT ![c] = Holding(c, built)]
     \/ /\ ~(Stable(tenant) /\ tenant.epoch = version.epoch)
        /\ CallGoes(c, Rejected(c)) /\ UNCHANGED runtime
  /\ UNCHANGED requestVars

(* The selector has found the model, or the application has got its runtime. *)
Served(c) ==
  LET held == call[c].held IN
  IF ~call[c].selects THEN [at |-> "act", held |-> held]
  ELSE IF held.model = "v2" THEN [at |-> "enter", selects |-> FALSE, again |-> FALSE]
  ELSE Asleep

(* Resolver.Invalidate waits for the gate. *)
Invalidate(c) ==
  /\ CallAt(c, "drop") /\ GateFree
  /\ runtime' = NoRuntime
  /\ call' = [Closed(call) EXCEPT ![c] = call[c].next]
  /\ UNCHANGED requestVars

(* loadVerifiedDurableModel compares the runtime with the tenant once more.  *)
(* One that was closed, that has no v2 application, or whose workspace is    *)
(* between two models is of no use; a change of the epoch, and for the       *)
(* selector one of the model, is worth a second attempt.                     *)
Verify(c) ==
  LET held   == call[c].held
      usable == /\ call[c].open /\ Stable(tenant)
                /\ call[c].selects \/ held.model = "v2"
      newEpoch == tenant.epoch # held.version.epoch
      newModel == tenant.model # held.model
      retries  == ~call[c].again /\ (newEpoch \/ (call[c].selects /\ newModel))
  IN
  /\ CallAt(c, "verify")
  /\ \/ /\ usable /\ ~newEpoch /\ ~newModel
        /\ CallGoes(c, Served(c))
     \/ /\ usable /\ retries
        /\ CallGoes(c, [at |-> "drop",
                    next |-> [at |-> "enter", selects |-> call[c].selects, again |-> TRUE]])
     \/ /\ ~usable \/ ((newEpoch \/ newModel) /\ ~retries)
        /\ CallGoes(c, Rejected(c))
  /\ UNCHANGED <<requestVars, runtime>>

(* The request writes: the tenant's fence compares the epoch once more. *)
Act(c) ==
  /\ CallAt(c, "act")
  /\ tenant' = IF tenant.epoch = call[c].held.version.epoch
               THEN Durable!MarkV2FirstWrite(tenant) ELSE tenant
  /\ CallGoes(c, Asleep)
  /\ UNCHANGED <<control, rollout, up, runtime, outages, others>>

----------------------------------------------------------------------------
RequestSteps(c) ==
  \/ LoadVersion(c) \/ LookUp(c) \/ LoadSnapshot(c) \/ Build(c)
  \/ Verify(c) \/ Invalidate(c) \/ Act(c)

RolloutStep == Migrate \/ StartRollout \/ CutOver \/ ReadControl \/ AdvanceEpoch

RuntimeNext ==
  \/ RolloutStep \/ CommandDies \/ StartServer \/ ChangeBinding
  \/ \E c \in Caller : Arrive(c) \/ RequestSteps(c)

(* The operator runs the migration, and the command until it succeeds; the   *)
(* server is started after it; requests come, and take their steps.          *)
RuntimeFairness ==
  /\ WF_runtimeVars(RolloutStep) /\ WF_runtimeVars(~CommandRuns /\ StartServer)
  /\ WF_runtimeVars(Arrive(Steady)) /\ \A c \in Caller : WF_runtimeVars(RequestSteps(c))

RuntimeSpec == RuntimeInit /\ [][RuntimeNext]_runtimeVars /\ RuntimeFairness

----------------------------------------------------------------------------
(* Properties *)

VersionType == [epoch : Nat, binding : Nat]
CachedType  == [version : VersionType, model : {"none", "legacy", "v2"}]
CallAtRest     == {Asleep} \cup [at : {"enter"}, selects : BOOLEAN, again : BOOLEAN]

CallType ==
  CallAtRest
  \cup [at : {"gate", "load", "build"}, selects : BOOLEAN, again : BOOLEAN, version : VersionType]
  \cup [at : {"verify"}, selects : BOOLEAN, again : BOOLEAN, held : CachedType, open : BOOLEAN]
  \cup [at : {"drop"}, next : CallAtRest]
  \cup [at : {"act"}, held : CachedType]

RuntimeTypeOK ==
  /\ tenant \in Durable!State /\ control \in VersionType
  /\ rollout \in [step : {"due", "gates", "synchronise", "advance", "finished"}, read : VersionType]
  /\ up \in BOOLEAN /\ runtime \in CachedType
  /\ call \in [Caller -> CallType]
  /\ outages \in Nat /\ others \in Nat

(* Two databases, one epoch: the control row never has an epoch that the      *)
(* tenant does not have yet, and is never more than one behind, which is all *)
(* that synchronizeControlEpoch can repair.                                  *)
EpochsInStep == control.epoch <= tenant.epoch /\ tenant.epoch <= control.epoch + 1

(* A runtime of the v2 model, in the cache or in the hands of a request, is  *)
(* of the tenant's epoch: the fence turns no request away that a cutover     *)
(* overtook, since the epoch rises before there is a v2 runtime, not after.  *)
V2IsCurrent ==
  \A held \in {runtime} \cup {call[c].held : c \in {d \in Caller : call[d].at \in {"verify", "act"}}} :
    held.model = "v2" => tenant.model = "v2" /\ held.version.epoch = tenant.epoch

(* Two databases, one epoch: however the command is interrupted between      *)
(* them, the rollout ends with a workspace whose requests are served by v2,  *)
(* again and again, on runtimes of the current epoch.                        *)
ServedByV2(c) == call[c].at = "act" /\ call[c].held.version.epoch = tenant.epoch
WorkspaceServed == []<>(\E c \in Caller : ServedByV2(c))
=============================================================================
