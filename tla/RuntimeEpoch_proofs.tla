------------------------ MODULE RuntimeEpoch_proofs ------------------------
(***************************************************************************)
(* Proofs, for any number of requests, changes of bindings and outages, of *)
(* the safety of the rollout: the types, and how far the two databases can *)
(* be apart.                                                               *)
(***************************************************************************)
EXTENDS RuntimeEpoch, TLAPS

RunningCommand == {"synchronise", "advance", "finished"}

(* Where the command is, and how far the migration has come.                *)
RolloutKnows ==
  /\ tenant.phase \in {"idle", "backfilling", "catching_up", "draining", "ready", "cutover"}
  /\ tenant.model = "v2" <=> tenant.phase = "cutover"
  /\ rollout.step = "gates" => tenant.phase \in {"ready", "cutover"}
  /\ rollout.step \in RunningCommand => tenant.phase = "cutover"
  /\ rollout.step = "advance" => rollout.read.epoch + 1 = tenant.epoch

(* The epochs are equal until the drain, and a step apart until the command  *)
(* has closed the gap.                                                       *)
EpochsByPhase ==
  /\ tenant.phase \in {"idle", "backfilling", "catching_up"} => tenant.epoch = control.epoch
  /\ control.epoch <= tenant.epoch /\ tenant.epoch <= control.epoch + 1

Current(held) == held.model = "v2" => tenant.model = "v2" /\ held.version.epoch = tenant.epoch

HeldCurrent == \A c \in Caller : call[c].at \in {"verify", "act"} => Current(call[c].held)

RuntimeInv == RuntimeTypeOK /\ RolloutKnows /\ EpochsByPhase /\ Current(runtime) /\ HeldCurrent

----------------------------------------------------------------------------
(* Types *)

Resolved == [at : {"gate", "load", "build"}, selects : BOOLEAN, again : BOOLEAN, version : VersionType]
Holds    == [at : {"verify"}, selects : BOOLEAN, again : BOOLEAN, held : CachedType, open : BOOLEAN]
Dropping == [at : {"drop"}, next : CallAtRest]
Acting   == [at : {"act"}, held : CachedType]

LEMMA CallShapes ==
  ASSUME NEW x \in CallType
  PROVE  /\ x.at = "enter" => x \in [at : {"enter"}, selects : BOOLEAN, again : BOOLEAN]
         /\ x.at \in {"gate", "load", "build"} => x \in Resolved
         /\ x.at = "verify" => x \in Holds
         /\ x.at = "drop" => x \in Dropping
         /\ x.at = "act" => x \in Acting
BY DEF CallType, CallAtRest, Asleep, Resolved, Holds, Dropping, Acting

LEMMA ShapesOfCalls ==
  CallAtRest \cup Resolved \cup Holds \cup Dropping \cup Acting = CallType
BY DEF CallType, Resolved, Holds, Dropping, Acting

(* Closing the runtimes that others hold changes only whether they are open. *)
LEMMA ClosedCalls ==
  ASSUME call \in [Caller -> CallType]
  PROVE  /\ Closed(call) \in [Caller -> CallType]
         /\ \A c \in Caller : Closed(call)[c].at = call[c].at
         /\ \A c \in Caller : call[c].at \in {"verify", "act"} => Closed(call)[c].held = call[c].held
<1> SUFFICES ASSUME NEW c \in Caller
             PROVE  /\ Closed(call)[c] \in CallType
                    /\ Closed(call)[c].at = call[c].at
                    /\ call[c].at \in {"verify", "act"} => Closed(call)[c].held = call[c].held
  BY DEF Closed
<1>1. CASE call[c].at = "verify"
  <2>1. call[c] \in Holds
    BY <1>1, CallShapes
  <2>2. Closed(call)[c] = [call[c] EXCEPT !.open = FALSE]
    BY <1>1 DEF Closed
  <2>3. Closed(call)[c] \in Holds /\ Closed(call)[c].held = call[c].held
    BY <2>1, <2>2 DEF Holds
  <2> QED BY <1>1, <2>1, <2>3, ShapesOfCalls DEF Holds
<1>2. CASE call[c].at # "verify"
  BY <1>2 DEF Closed
<1> QED BY <1>1, <1>2

LEMMA CallMoves ==
  ASSUME call \in [Caller -> CallType], NEW c \in Caller, NEW next \in CallType, CallGoes(c, next)
  PROVE  call' \in [Caller -> CallType]
BY DEF CallGoes

LEMMA RejectedType ==
  ASSUME NEW c \in Caller PROVE Rejected(c) \in CallType /\ Rejected(c).at \in {"idle", "drop"}
BY DEF Rejected, Asleep, CallType, CallAtRest

LEMMA ResolvingType ==
  ASSUME call \in [Caller -> CallType], NEW c \in Caller,
         call[c].at \in {"enter", "gate", "load", "build"},
         NEW step \in {"gate", "load", "build"}, NEW version \in VersionType
  PROVE  Resolving(c, step, version) \in CallType /\ Resolving(c, step, version).at = step
<1>1. call[c].selects \in BOOLEAN /\ call[c].again \in BOOLEAN
  BY CallShapes DEF Resolved
<1>2. Resolving(c, step, version) \in Resolved
  BY <1>1 DEF Resolving, Resolved
<1> QED BY <1>2, ShapesOfCalls DEF Resolving

LEMMA HoldingType ==
  ASSUME call \in [Caller -> CallType], NEW c \in Caller, call[c].at \in {"gate", "build"},
         NEW held \in CachedType
  PROVE  Holding(c, held) \in CallType /\ Holding(c, held).at = "verify" /\ Holding(c, held).held = held
<1>1. call[c].selects \in BOOLEAN /\ call[c].again \in BOOLEAN
  BY CallShapes DEF Resolved
<1>2. Holding(c, held) \in Holds
  BY <1>1 DEF Holding, Holds
<1> QED BY <1>2, ShapesOfCalls DEF Holding

LEMMA ServedType ==
  ASSUME call \in [Caller -> CallType], NEW c \in Caller, call[c].at = "verify"
  PROVE  /\ Served(c) \in CallType /\ Served(c).at \in {"idle", "enter", "act"}
         /\ Served(c).at = "act" => Served(c).held = call[c].held
<1>1. call[c] \in Holds
  BY CallShapes
<1>2. call[c].held \in CachedType
  BY <1>1 DEF Holds
<1> QED BY <1>2 DEF Served, CallType, CallAtRest, Asleep

LEMMA NoRuntimeType == NoRuntime \in CachedType /\ Current(NoRuntime) /\ NoVersion \in VersionType
BY DEF NoRuntime, NoVersion, CachedType, VersionType, Current

(* The commands of a migration keep the type of the row, ...                *)
LEMMA MigrationTypes ==
  ASSUME NEW s \in Durable!State
  PROVE  /\ Durable!StartBackfill(s, "rollout") \in Durable!State
         /\ Durable!BeginCatchingUp(s, 0) \in Durable!State
         /\ Durable!BeginDrain(s, 0) \in Durable!State
         /\ Durable!MarkReady(s) \in Durable!State
         /\ Durable!Cutover(s) \in Durable!State
         /\ Durable!MarkV2FirstWrite(s) \in Durable!State
<1>1. \A n \in Nat \ {0} : n + 1 \in Nat \ {0}
  OBVIOUS
<1>2. Durable!StartBackfill(s, "rollout") \in Durable!State
  BY <1>1 DEF Durable!State, Durable!Phase, Durable!StartBackfill
<1>3. Durable!BeginCatchingUp(s, 0) \in Durable!State
  BY <1>1 DEF Durable!State, Durable!Phase, Durable!BeginCatchingUp
<1>4. Durable!BeginDrain(s, 0) \in Durable!State
  BY <1>1 DEF Durable!State, Durable!Phase, Durable!BeginDrain
<1>5. Durable!MarkReady(s) \in Durable!State /\ Durable!Cutover(s) \in Durable!State
  BY <1>1 DEF Durable!State, Durable!Model, Durable!Phase, Durable!MarkReady, Durable!Cutover
<1>6. Durable!MarkV2FirstWrite(s) \in Durable!State
  BY <1>1 DEF Durable!State, Durable!MarkV2FirstWrite
<1> QED BY <1>2, <1>3, <1>4, <1>5, <1>6

(* ... and move its epoch only at the drain.                                *)
LEMMA MigrationCommands ==
  ASSUME tenant \in Durable!State, Migrate
  PROVE  /\ tenant' \in Durable!State
         /\ tenant'.model = tenant.model
         /\ \/ tenant.phase = "idle" /\ tenant'.phase = "backfilling" /\ tenant'.epoch = tenant.epoch
            \/ tenant.phase = "backfilling" /\ tenant'.phase = "catching_up" /\ tenant'.epoch = tenant.epoch
            \/ tenant.phase = "catching_up" /\ tenant'.phase = "draining" /\ tenant'.epoch = tenant.epoch + 1
            \/ tenant.phase = "draining" /\ tenant'.phase = "ready" /\ tenant'.epoch = tenant.epoch
<1>1. CASE Durable!CanStartBackfill(tenant) /\ tenant' = Durable!StartBackfill(tenant, "rollout")
  BY <1>1, MigrationTypes DEF Durable!CanStartBackfill, Durable!StartBackfill, Durable!State
<1>2. CASE tenant.phase = "backfilling" /\ tenant' = Durable!BeginCatchingUp(tenant, 0)
  BY <1>2, MigrationTypes DEF Durable!BeginCatchingUp, Durable!State
<1>3. CASE Durable!CanBeginDrain(tenant, 0) /\ tenant' = Durable!BeginDrain(tenant, 0)
  BY <1>3, MigrationTypes DEF Durable!CanBeginDrain, Durable!BeginDrain, Durable!State
<1>4. CASE Durable!CanMarkReady(tenant) /\ tenant' = Durable!MarkReady(tenant)
  BY <1>4, MigrationTypes DEF Durable!CanMarkReady, Durable!MarkReady, Durable!State
<1> QED BY <1>1, <1>2, <1>3, <1>4 DEF Migrate

LEMMA CutoverCommand ==
  ASSUME tenant \in Durable!State, Durable!CanCutover(tenant, "rollout"), tenant' = Durable!Cutover(tenant)
  PROVE  /\ tenant' \in Durable!State /\ tenant'.model = "v2" /\ tenant'.phase = "cutover"
         /\ tenant'.epoch = tenant.epoch /\ tenant.phase = "ready" /\ tenant.model = "legacy"
BY MigrationTypes DEF Durable!CanCutover, Durable!Cutover, Durable!State

LEMMA FirstWriteCommand ==
  ASSUME tenant \in Durable!State
  PROVE  /\ Durable!MarkV2FirstWrite(tenant) \in Durable!State
         /\ Durable!MarkV2FirstWrite(tenant).epoch = tenant.epoch
         /\ Durable!MarkV2FirstWrite(tenant).phase = tenant.phase
         /\ Durable!MarkV2FirstWrite(tenant).model = tenant.model
BY MigrationTypes DEF Durable!MarkV2FirstWrite, Durable!State

----------------------------------------------------------------------------
(* Steps *)

(* What a step of a request that leaves the databases alone has to show.    *)
LEMMA RequestStepKeeps ==
  ASSUME RuntimeInv, UNCHANGED requestVars, call' \in [Caller -> CallType],
         runtime' \in CachedType, Current(runtime'),
         \A d \in Caller : call'[d].at \in {"verify", "act"} => Current(call'[d].held)
  PROVE  RuntimeInv'
BY DEF RuntimeInv, RuntimeTypeOK, RolloutKnows, EpochsByPhase, HeldCurrent, Current, requestVars

(* Only the caller moves, to a place without a runtime.                     *)
LEMMA CallerMoves ==
  ASSUME RuntimeInv, UNCHANGED <<requestVars, runtime>>, NEW c \in Caller, NEW next \in CallType,
         next.at \in {"verify", "act"} => Current(next.held), CallGoes(c, next)
  PROVE  RuntimeInv'
<1>1. call' \in [Caller -> CallType]
  BY CallMoves DEF RuntimeInv, RuntimeTypeOK
<1>2. \A d \in Caller : call'[d].at \in {"verify", "act"} => Current(call'[d].held)
  BY DEF CallGoes, RuntimeInv, RuntimeTypeOK, HeldCurrent
<1>3. runtime' \in CachedType /\ Current(runtime')
  BY DEF RuntimeInv, RuntimeTypeOK
<1> QED BY <1>1, <1>2, <1>3, RequestStepKeeps

(* A request builds a runtime, or throws it away: others see theirs closed. *)
LEMMA RuntimeReplaced ==
  ASSUME RuntimeInv, UNCHANGED requestVars, NEW c \in Caller, NEW next \in CallType,
         next.at \in {"verify", "act"} => Current(next.held),
         runtime' \in CachedType, Current(runtime'),
         call' = [Closed(call) EXCEPT ![c] = next]
  PROVE  RuntimeInv'
<1>1. call \in [Caller -> CallType]
  BY DEF RuntimeInv, RuntimeTypeOK
<1>2. call' \in [Caller -> CallType]
  BY <1>1, ClosedCalls
<1>3. ASSUME NEW d \in Caller, call'[d].at \in {"verify", "act"} PROVE Current(call'[d].held)
  <2>1. CASE d = c
    BY <1>1, <1>3, <2>1, ClosedCalls
  <2>2. CASE d # c
    <3>1. call'[d] = Closed(call)[d]
      BY <1>1, <2>2, ClosedCalls
    <3> QED BY <1>1, <1>3, <3>1, ClosedCalls DEF RuntimeInv, HeldCurrent
  <2> QED BY <2>1, <2>2
<1> QED BY <1>2, <1>3, RequestStepKeeps

(* The databases move, and no request or runtime changes with them; or the  *)
(* server is stopped.                                                       *)
LEMMA DatabasesMove ==
  ASSUME RuntimeInv,
         tenant' \in Durable!State, control' \in VersionType,
         rollout' \in [step : {"due", "gates", "synchronise", "advance", "finished"}, read : VersionType],
         up' \in BOOLEAN, outages' \in Nat, UNCHANGED others,
         RolloutKnows', EpochsByPhase',
         tenant.model = "v2" => tenant'.model = "v2" /\ tenant'.epoch = tenant.epoch,
         UNCHANGED <<runtime, call>> \/ (runtime' = NoRuntime /\ call' = [c \in Caller |-> Asleep])
  PROVE  RuntimeInv'
<1>1. CASE UNCHANGED <<runtime, call>>
  <2>1. Current(runtime)'
    BY <1>1 DEF RuntimeInv, Current
  <2>2. HeldCurrent'
    BY <1>1 DEF RuntimeInv, HeldCurrent, Current
  <2> QED BY <1>1, <2>1, <2>2 DEF RuntimeInv, RuntimeTypeOK
<1>2. CASE runtime' = NoRuntime /\ call' = [c \in Caller |-> Asleep]
  <2>1. Asleep \in CallType /\ Asleep.at = "idle"
    BY DEF Asleep, CallType, CallAtRest
  <2>2. runtime' \in CachedType /\ Current(runtime)'
    BY <1>2, NoRuntimeType DEF NoRuntime, Current
  <2>3. call' \in [Caller -> CallType] /\ HeldCurrent'
    BY <1>2, <2>1 DEF HeldCurrent
  <2> QED BY <2>2, <2>3 DEF RuntimeInv, RuntimeTypeOK
<1> QED BY <1>1, <1>2

LEMMA RolloutType ==
  ASSUME NEW step \in {"due", "gates", "synchronise", "advance", "finished"}, NEW read \in VersionType,
         RolloutTo(step, read)
  PROVE  /\ rollout' \in [step : {"due", "gates", "synchronise", "advance", "finished"}, read : VersionType]
         /\ rollout'.step = step /\ rollout'.read = read
BY DEF RolloutTo

LEMMA MigrateSafe == ASSUME RuntimeInv, Migrate PROVE RuntimeInv'
<1>1. tenant \in Durable!State /\ tenant.epoch \in Nat /\ control.epoch \in Nat
  BY DEF RuntimeInv, RuntimeTypeOK, Durable!State, VersionType
<1>2. UNCHANGED <<control, rollout, up, runtime, call, outages, others>>
  BY DEF Migrate
<1>3. tenant.model # "v2" /\ tenant.phase # "cutover"
  BY <1>1, MigrationCommands DEF RuntimeInv, RolloutKnows
<1>4. rollout.step \notin RunningCommand /\ rollout.step # "gates"
  BY <1>1, <1>3, MigrationCommands DEF RuntimeInv, RolloutKnows, RunningCommand
<1>5. RolloutKnows'
  BY <1>1, <1>2, <1>3, <1>4, MigrationCommands DEF RolloutKnows, RunningCommand
<1>6. EpochsByPhase'
  BY <1>1, <1>2, MigrationCommands DEF RuntimeInv, EpochsByPhase
<1> QED BY <1>1, <1>2, <1>3, <1>5, <1>6, MigrationCommands, DatabasesMove DEF RuntimeInv, RuntimeTypeOK

LEMMA StartRolloutSafe == ASSUME RuntimeInv, StartRollout PROVE RuntimeInv'
<1>1. rollout' \in [step : {"due", "gates", "synchronise", "advance", "finished"}, read : VersionType]
      /\ rollout'.step = "gates"
  BY RolloutType, NoRuntimeType DEF StartRollout
<1>2. RolloutKnows' /\ EpochsByPhase'
  BY <1>1 DEF StartRollout, RuntimeInv, RolloutKnows, EpochsByPhase, RunningCommand
<1> QED BY <1>1, <1>2, DatabasesMove DEF StartRollout, Stopped, RuntimeInv, RuntimeTypeOK

LEMMA CutOverSafe == ASSUME RuntimeInv, CutOver PROVE RuntimeInv'
<1>1. tenant \in Durable!State /\ tenant.epoch \in Nat /\ control.epoch \in Nat
  BY DEF RuntimeInv, RuntimeTypeOK, Durable!State, VersionType
<1>2. UNCHANGED <<control, up, runtime, call, outages, others>>
  BY DEF CutOver
<1>3. CASE AlreadyApplied
  <2>1. rollout' \in [step : {"due", "gates", "synchronise", "advance", "finished"}, read : VersionType]
        /\ rollout'.step = "synchronise"
    BY <1>3, RolloutType, NoRuntimeType DEF AlreadyApplied
  <2>2. RolloutKnows' /\ EpochsByPhase'
    BY <1>2, <1>3, <2>1 DEF AlreadyApplied, RuntimeInv, RolloutKnows, EpochsByPhase
  <2> QED BY <1>2, <1>3, <2>1, <2>2, DatabasesMove DEF AlreadyApplied, RuntimeInv, RuntimeTypeOK
<1>4. CASE /\ Durable!CanCutover(tenant, "rollout") /\ ~up
           /\ tenant' = Durable!Cutover(tenant) /\ RolloutTo("synchronise", NoVersion)
  <2>1. rollout' \in [step : {"due", "gates", "synchronise", "advance", "finished"}, read : VersionType]
        /\ rollout'.step = "synchronise"
    BY <1>4, RolloutType, NoRuntimeType
  <2>2. RolloutKnows' /\ EpochsByPhase'
    BY <1>1, <1>2, <1>4, <2>1, CutoverCommand DEF RuntimeInv, RolloutKnows, EpochsByPhase
  <2> QED BY <1>1, <1>2, <1>4, <2>1, <2>2, CutoverCommand, DatabasesMove DEF RuntimeInv, RuntimeTypeOK
<1>5. CASE Durable!CanCutover(tenant, "rollout") /\ up /\ RolloutTo("due", NoVersion) /\ UNCHANGED tenant
  <2>1. rollout' \in [step : {"due", "gates", "synchronise", "advance", "finished"}, read : VersionType]
        /\ rollout'.step = "due"
    BY <1>5, RolloutType, NoRuntimeType
  <2>2. RolloutKnows' /\ EpochsByPhase'
    BY <1>2, <1>5, <2>1 DEF RuntimeInv, RolloutKnows, EpochsByPhase, RunningCommand
  <2> QED BY <1>2, <1>5, <2>1, <2>2, DatabasesMove DEF RuntimeInv, RuntimeTypeOK
<1> QED BY <1>3, <1>4, <1>5 DEF CutOver

LEMMA ReadControlSafe == ASSUME RuntimeInv, ReadControl PROVE RuntimeInv'
<1>1. control \in VersionType /\ UNCHANGED <<tenant, control, up, runtime, call, outages, others>>
  BY DEF ReadControl, RuntimeInv, RuntimeTypeOK
<1>2. tenant.phase = "cutover" /\ tenant.model = "v2"
  BY DEF ReadControl, RuntimeInv, RolloutKnows, RunningCommand
<1>3. \/ rollout'.step = "advance" /\ rollout'.read = control /\ control.epoch + 1 = tenant.epoch
      \/ rollout'.step \in {"finished", "due"}
  BY <1>1 DEF ReadControl, RolloutTo
<1>4. rollout' \in [step : {"due", "gates", "synchronise", "advance", "finished"}, read : VersionType]
  BY <1>1, NoRuntimeType DEF ReadControl, RolloutTo
<1>5. RolloutKnows' /\ EpochsByPhase'
  BY <1>1, <1>2, <1>3 DEF RuntimeInv, RolloutKnows, EpochsByPhase, RunningCommand
<1> QED BY <1>1, <1>4, <1>5, DatabasesMove DEF RuntimeInv, RuntimeTypeOK

LEMMA AdvanceEpochSafe == ASSUME RuntimeInv, AdvanceEpoch PROVE RuntimeInv'
<1>1. /\ control \in VersionType /\ control.epoch \in Nat /\ tenant.epoch \in Nat
      /\ UNCHANGED <<tenant, up, runtime, call, outages, others>>
  BY DEF AdvanceEpoch, RuntimeInv, RuntimeTypeOK, VersionType, Durable!State
<1>2. tenant.phase = "cutover" /\ tenant.model = "v2" /\ rollout.read.epoch + 1 = tenant.epoch
  BY DEF AdvanceEpoch, RuntimeInv, RolloutKnows, RunningCommand
<1>3. CASE /\ control = rollout.read /\ control' = [control EXCEPT !.epoch = @ + 1]
           /\ RolloutTo("finished", NoVersion)
  <2>1. rollout' \in [step : {"due", "gates", "synchronise", "advance", "finished"}, read : VersionType]
        /\ rollout'.step = "finished"
    BY <1>3, RolloutType, NoRuntimeType
  <2>2. control' \in VersionType /\ control'.epoch = tenant.epoch
    BY <1>1, <1>2, <1>3 DEF VersionType
  <2>3. RolloutKnows' /\ EpochsByPhase'
    BY <1>1, <1>2, <2>1, <2>2 DEF RuntimeInv, RolloutKnows, EpochsByPhase
  <2> QED BY <1>1, <2>1, <2>2, <2>3, DatabasesMove DEF RuntimeInv, RuntimeTypeOK
<1>4. CASE control # rollout.read /\ RolloutTo("due", NoVersion) /\ UNCHANGED control
  <2>1. rollout' \in [step : {"due", "gates", "synchronise", "advance", "finished"}, read : VersionType]
        /\ rollout'.step = "due"
    BY <1>4, RolloutType, NoRuntimeType
  <2>2. RolloutKnows' /\ EpochsByPhase'
    BY <1>1, <1>4, <2>1 DEF RuntimeInv, RolloutKnows, EpochsByPhase, RunningCommand
  <2> QED BY <1>1, <1>4, <2>1, <2>2, DatabasesMove DEF RuntimeInv, RuntimeTypeOK
<1> QED BY <1>3, <1>4 DEF AdvanceEpoch

LEMMA TroubleSafe == ASSUME RuntimeInv, CommandDies \/ StartServer \/ ChangeBinding PROVE RuntimeInv'
<1>1. control \in VersionType /\ outages \in Nat
  BY DEF RuntimeInv, RuntimeTypeOK
<1>2. CASE CommandDies
  <2>1. rollout' \in [step : {"due", "gates", "synchronise", "advance", "finished"}, read : VersionType]
        /\ rollout'.step = "due"
    BY <1>2, RolloutType, NoRuntimeType DEF CommandDies
  <2>2. RolloutKnows' /\ EpochsByPhase' /\ outages' \in Nat
    BY <1>1, <1>2, <2>1 DEF CommandDies, Outage, RuntimeInv, RolloutKnows, EpochsByPhase, RunningCommand
  <2> QED BY <1>2, <2>1, <2>2, DatabasesMove DEF CommandDies, RuntimeInv, RuntimeTypeOK
<1>3. CASE StartServer
  <2>1. RolloutKnows' /\ EpochsByPhase' /\ outages' \in Nat /\ up' \in BOOLEAN
    BY <1>1, <1>3 DEF StartServer, Outage, RuntimeInv, RolloutKnows, EpochsByPhase
  <2> QED BY <1>3, <2>1, DatabasesMove DEF StartServer, RuntimeInv, RuntimeTypeOK
<1>4. CASE ChangeBinding
  <2>1. control' \in VersionType /\ control'.epoch = control.epoch
    BY <1>1, <1>4 DEF ChangeBinding, VersionType
  <2>2. RolloutKnows' /\ EpochsByPhase'
    BY <1>4, <2>1 DEF ChangeBinding, RuntimeInv, RolloutKnows, EpochsByPhase
  <2> QED BY <1>4, <2>1, <2>2, DatabasesMove DEF ChangeBinding, RuntimeInv, RuntimeTypeOK
<1> QED BY <1>2, <1>3, <1>4

LEMMA ArriveSafe == ASSUME RuntimeInv, NEW c \in Caller, Arrive(c) PROVE RuntimeInv'
<1> DEFINE next == [at |-> "enter", selects |-> TRUE, again |-> FALSE]
<1>1. next \in CallType /\ next.at = "enter"
  BY DEF CallType, CallAtRest
<1>2. call' = [call EXCEPT ![c] = next] /\ UNCHANGED <<tenant, control, rollout, up, runtime, outages>>
  BY DEF Arrive, CallGoes
<1>3. others' \in Nat
  BY DEF Arrive, RuntimeInv, RuntimeTypeOK
<1> HIDE DEF next
<1>4. call' \in [Caller -> CallType]
  BY <1>1, <1>2 DEF RuntimeInv, RuntimeTypeOK
<1>5. HeldCurrent'
  BY <1>1, <1>2 DEF HeldCurrent, Current, RuntimeInv, RuntimeTypeOK
<1> QED BY <1>2, <1>3, <1>4, <1>5 DEF RuntimeInv, RuntimeTypeOK, RolloutKnows, EpochsByPhase, Current

LEMMA LookUpSafe == ASSUME RuntimeInv, NEW c \in Caller, LookUp(c) PROVE RuntimeInv'
<1>1. call \in [Caller -> CallType] /\ runtime \in CachedType /\ Current(runtime) /\ call[c].at = "gate"
  BY DEF LookUp, CallAt, RuntimeInv, RuntimeTypeOK
<1>2. call[c].version \in VersionType
  BY <1>1, CallShapes DEF Resolved
<1>3. CASE CallGoes(c, Holding(c, runtime))
  BY <1>1, <1>3, HoldingType, CallerMoves DEF LookUp
<1>4. CASE CallGoes(c, Resolving(c, "load", call[c].version))
  BY <1>1, <1>2, <1>4, ResolvingType, CallerMoves DEF LookUp
<1> QED BY <1>3, <1>4 DEF LookUp

LEMMA LoadsSafe ==
  ASSUME RuntimeInv, NEW c \in Caller, LoadVersion(c) \/ LoadSnapshot(c)
  PROVE  RuntimeInv'
<1>1. call \in [Caller -> CallType] /\ control \in VersionType
  BY DEF RuntimeInv, RuntimeTypeOK
<1>2. CASE LoadVersion(c)
  BY <1>1, <1>2, ResolvingType, CallerMoves DEF LoadVersion, CallAt
<1>3. CASE LoadSnapshot(c)
  <2>1. CASE CallGoes(c, Resolving(c, "build", control))
    BY <1>1, <1>3, <2>1, ResolvingType, CallerMoves DEF LoadSnapshot, CallAt
  <2>2. CASE CallGoes(c, Rejected(c))
    BY <1>3, <2>2, RejectedType, CallerMoves DEF LoadSnapshot
  <2> QED BY <1>3, <2>1, <2>2 DEF LoadSnapshot
<1> QED BY <1>2, <1>3

LEMMA BuildSafe == ASSUME RuntimeInv, NEW c \in Caller, Build(c) PROVE RuntimeInv'
<1> DEFINE built == [version |-> call[c].version, model |-> tenant.model]
<1>1. call \in [Caller -> CallType] /\ call[c].at = "build" /\ UNCHANGED requestVars
  BY DEF Build, CallAt, RuntimeInv, RuntimeTypeOK
<1>2. call[c].version \in VersionType
  BY <1>1, CallShapes DEF Resolved
<1>3. CASE /\ tenant.epoch = call[c].version.epoch
           /\ runtime' = built /\ call' = [Closed(call) EXCEPT ![c] = Holding(c, built)]
  <2>1. built \in CachedType
    BY <1>2 DEF RuntimeInv, RuntimeTypeOK, CachedType, Durable!State, Durable!Model
  <2>2. Current(built) /\ Current(runtime')
    BY <1>3 DEF Current
  <2> HIDE DEF built
  <2>3. Holding(c, built) \in CallType /\ Holding(c, built).held = built
    BY <1>1, <2>1, HoldingType
  <2> QED BY <1>1, <1>3, <2>1, <2>2, <2>3, RuntimeReplaced
<1>4. CASE CallGoes(c, Rejected(c)) /\ UNCHANGED runtime
  BY <1>1, <1>4, RejectedType, CallerMoves DEF requestVars
<1> QED BY <1>3, <1>4 DEF Build

LEMMA InvalidateSafe == ASSUME RuntimeInv, NEW c \in Caller, Invalidate(c) PROVE RuntimeInv'
<1>1. call \in [Caller -> CallType] /\ call[c].at = "drop"
  BY DEF Invalidate, CallAt, RuntimeInv, RuntimeTypeOK
<1>2. call[c].next \in CallAtRest
  BY <1>1, CallShapes DEF Dropping
<1>3. call[c].next \in CallType /\ call[c].next.at \in {"idle", "enter"}
  BY <1>2 DEF CallType, CallAtRest, Asleep
<1> QED BY <1>3, NoRuntimeType, RuntimeReplaced DEF Invalidate

LEMMA VerifySafe == ASSUME RuntimeInv, NEW c \in Caller, Verify(c) PROVE RuntimeInv'
<1>1. call \in [Caller -> CallType] /\ call[c].at = "verify" /\ UNCHANGED <<requestVars, runtime>>
  BY DEF Verify, CallAt, RuntimeInv, RuntimeTypeOK
<1>2. call[c].selects \in BOOLEAN /\ Current(call[c].held)
  BY <1>1, CallShapes DEF Holds, RuntimeInv, HeldCurrent
<1> DEFINE next == [at |-> "drop", next |-> [at |-> "enter", selects |-> call[c].selects, again |-> TRUE]]
<1>3. next \in CallType /\ next.at = "drop"
  BY <1>2 DEF CallType, CallAtRest
<1>4. CASE CallGoes(c, Served(c))
  BY <1>1, <1>2, <1>4, ServedType, CallerMoves
<1>5. CASE CallGoes(c, next)
  <2> HIDE DEF next
  <2> QED BY <1>1, <1>3, <1>5, CallerMoves
<1>6. CASE CallGoes(c, Rejected(c))
  BY <1>1, <1>6, RejectedType, CallerMoves
<1> QED BY <1>4, <1>5, <1>6 DEF Verify

LEMMA ActSafe == ASSUME RuntimeInv, NEW c \in Caller, Act(c) PROVE RuntimeInv'
<1>1. tenant \in Durable!State
  BY DEF RuntimeInv, RuntimeTypeOK
<1>2. /\ tenant' \in Durable!State /\ tenant'.epoch = tenant.epoch
      /\ tenant'.phase = tenant.phase /\ tenant'.model = tenant.model
  BY <1>1, FirstWriteCommand DEF Act
<1>3. Asleep \in CallType /\ Asleep.at = "idle"
  BY DEF Asleep, CallType, CallAtRest
<1>4. call' \in [Caller -> CallType] /\ call' = [call EXCEPT ![c] = Asleep]
  BY <1>3 DEF Act, CallGoes, RuntimeInv, RuntimeTypeOK
<1>5. HeldCurrent'
  BY <1>2, <1>3, <1>4 DEF HeldCurrent, Current, RuntimeInv, RuntimeTypeOK
<1>6. RuntimeTypeOK'
  BY <1>2, <1>4 DEF Act, RuntimeInv, RuntimeTypeOK
<1>7. RolloutKnows' /\ EpochsByPhase' /\ Current(runtime)'
  BY <1>2 DEF Act, RuntimeInv, RolloutKnows, EpochsByPhase, Current
<1> QED BY <1>5, <1>6, <1>7 DEF RuntimeInv

----------------------------------------------------------------------------
(* The invariant, and what follows from it *)

LEMMA RuntimeStarts == RuntimeInit => RuntimeInv
<1> SUFFICES ASSUME RuntimeInit PROVE RuntimeInv
  OBVIOUS
<1>1. tenant \in Durable!State /\ tenant.phase = "idle" /\ tenant.model = "legacy" /\ tenant.epoch = 1
  BY DEF RuntimeInit, Durable!InitialState, Durable!State, Durable!Model, Durable!Phase
<1>2. control \in VersionType /\ control.epoch = 1
  BY DEF RuntimeInit, VersionType
<1>3. rollout \in [step : {"due", "gates", "synchronise", "advance", "finished"}, read : VersionType]
      /\ rollout.step = "due"
  BY NoRuntimeType DEF RuntimeInit
<1>4. Asleep \in CallType /\ Asleep.at = "idle"
  BY DEF Asleep, CallType, CallAtRest
<1>5. call \in [Caller -> CallType] /\ \A c \in Caller : call[c].at = "idle"
  BY <1>4 DEF RuntimeInit
<1>6. RolloutKnows /\ EpochsByPhase /\ HeldCurrent
  BY <1>1, <1>2, <1>3, <1>5 DEF RolloutKnows, EpochsByPhase, HeldCurrent, RunningCommand
<1> QED BY <1>1, <1>2, <1>3, <1>5, <1>6, NoRuntimeType DEF RuntimeInit, RuntimeInv, RuntimeTypeOK

LEMMA RuntimeInvInductive == RuntimeInv /\ [RuntimeNext]_runtimeVars => RuntimeInv'
<1> SUFFICES ASSUME RuntimeInv, [RuntimeNext]_runtimeVars PROVE RuntimeInv'
  OBVIOUS
<1>1. CASE RolloutStep
  BY <1>1, MigrateSafe, StartRolloutSafe, CutOverSafe, ReadControlSafe, AdvanceEpochSafe DEF RolloutStep
<1>2. CASE CommandDies \/ StartServer \/ ChangeBinding
  BY <1>2, TroubleSafe
<1>3. ASSUME NEW c \in Caller, Arrive(c) \/ RequestSteps(c) PROVE RuntimeInv'
  BY <1>3, ArriveSafe, LoadsSafe, LookUpSafe, BuildSafe, VerifySafe, InvalidateSafe, ActSafe DEF RequestSteps
<1>4. CASE UNCHANGED runtimeVars
  BY <1>4 DEF runtimeVars, RuntimeInv, RuntimeTypeOK, RolloutKnows, EpochsByPhase, HeldCurrent, Current
<1> QED BY <1>1, <1>2, <1>3, <1>4 DEF RuntimeNext

LEMMA RuntimeInvHolds == RuntimeSpec => []RuntimeInv
BY RuntimeStarts, RuntimeInvInductive, PTL DEF RuntimeSpec

(* The rows of both databases, the command, the runtimes and the requests   *)
(* keep their types (all of RuntimeNext).                                   *)
THEOREM RuntimeTypes == RuntimeSpec => []RuntimeTypeOK
<1>1. RuntimeInv => RuntimeTypeOK
  BY DEF RuntimeInv
<1> QED BY <1>1, RuntimeInvHolds, PTL

LEMMA EpochsByInv == RuntimeInv => EpochsInStep
BY DEF RuntimeInv, EpochsByPhase, EpochsInStep

LEMMA CurrentByInv == RuntimeInv => V2IsCurrent
BY DEF RuntimeInv, HeldCurrent, Current, V2IsCurrent

(* However the rollout is interrupted between the two databases, and       *)
(* whoever starts the command again, the control epoch is the tenant's or   *)
(* one behind, so that synchronizeControlEpoch always finds a gap that it   *)
(* can close.                                                               *)
THEOREM EpochsStayInStep == RuntimeSpec => []EpochsInStep
BY EpochsByInv, RuntimeInvHolds, PTL

(* No request holds a v2 runtime of an epoch that has passed                *)
(* (Factory.Build, loadVerifiedDurableModel).                               *)
THEOREM V2RuntimesAreCurrent == RuntimeSpec => []V2IsCurrent
BY CurrentByInv, RuntimeInvHolds, PTL
=============================================================================
