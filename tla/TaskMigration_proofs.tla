------------------------ MODULE TaskMigration_proofs ------------------------
(***************************************************************************)
(* Proofs, for any set of entities, coordinators and migrations, of the    *)
(* invariants of TaskMigration that TLC checks on small instances.         *)
(***************************************************************************)
EXTENDS TaskMigration, WellFoundedInduction, TLAPS

----------------------------------------------------------------------------
(* The head of a set of events *)

(* A set of events that is not empty has an event of greatest sequence.  The *)
(* sequence is bounded by MaxSeq, so the distance to it is well founded.     *)
LEMMA LastEventExists ==
  ASSUME NEW events \in SUBSET Event, events # {}
  PROVE  \E ev \in events : \A f \in events : f.seq <= ev.seq
<1> DEFINE R == OpToRel(<, Nat)
           D == {MaxSeq - ev.seq : ev \in events}
<1>1. D \subseteq Nat /\ D # {}
  BY ConstantsAssumption DEF Event
<1>2. \E x \in D : \A y \in D : ~(<<y, x>> \in R)
  <2>1. IsWellFoundedOn(R, Nat)
    BY NatLessThanWellFounded
  <2> HIDE DEF R, D
  <2> QED BY <1>1, <2>1, WFMin
<1>3. PICK x \in D : \A y \in D : ~(y < x)
  BY <1>1, <1>2 DEF OpToRel
<1>4. PICK ev \in events : x = MaxSeq - ev.seq
  BY <1>3
<1>5. ASSUME NEW f \in events PROVE f.seq <= ev.seq
  <2>1. ~(MaxSeq - f.seq < MaxSeq - ev.seq)
    BY <1>3, <1>4
  <2> QED BY <2>1, ConstantsAssumption DEF Event
<1> QED BY <1>5

(* Head bounds every sequence of the set and belongs to an event of it. *)
LEMMA HeadProperties ==
  ASSUME NEW events \in SUBSET Event
  PROVE  /\ Head(events) \in 0 .. MaxSeq
         /\ \A ev \in events : ev.seq <= Head(events)
         /\ events # {} => \E ev \in events : ev.seq = Head(events)
         /\ events = {} => Head(events) = 0
<1>1. CASE events = {}
  BY <1>1, ConstantsAssumption DEF Head
<1>2. CASE events # {}
  <2> DEFINE top == CHOOSE ev \in events : \A f \in events : f.seq <= ev.seq
  <2>1. top \in events /\ \A f \in events : f.seq <= top.seq
    BY <1>2, LastEventExists
  <2>2. Head(events) = top.seq
    BY <1>2 DEF Head
  <2>3. top.seq \in 0 .. MaxSeq
    BY <2>1, ConstantsAssumption DEF Event
  <2> QED BY <1>2, <2>1, <2>2, <2>3
<1> QED BY <1>1, <1>2

----------------------------------------------------------------------------
(* Types *)

(* A command of state.go returns a row when it is given one. *)
LEMMA CommandTypes ==
  ASSUME NEW s \in State
  PROVE  /\ \A m \in Migration : StartBackfill(s, m) \in State
         /\ \A w \in Nat : /\ BeginCatchingUp(s, w) \in State
                           /\ BeginDrain(s, w) \in State
                           /\ [s EXCEPT !.watermark = w, !.revision = @ + 1] \in State
         /\ MarkReady(s) \in State
         /\ Cutover(s) \in State
         /\ Fail(s) \in State
         /\ Recover(s) \in State
         /\ MarkV2FirstWrite(s) \in State
<1>1. \A e \in Nat \ {0} : e + 1 \in Nat \ {0}
  OBVIOUS
<1>2. \A m \in Migration : StartBackfill(s, m) \in State
  BY <1>1 DEF State, Phase, StartBackfill
<1>3. ASSUME NEW w \in Nat
      PROVE  /\ BeginCatchingUp(s, w) \in State
             /\ BeginDrain(s, w) \in State
             /\ [s EXCEPT !.watermark = w, !.revision = @ + 1] \in State
  BY <1>1 DEF State, Phase, BeginCatchingUp, BeginDrain
<1>4. MarkReady(s) \in State /\ Cutover(s) \in State
  BY <1>1 DEF State, Model, Phase, MarkReady, Cutover
<1>5. Fail(s) \in State /\ Recover(s) \in State
  BY <1>1 DEF State, Model, Phase, Fail, Recover
<1>6. MarkV2FirstWrite(s) \in State
  BY <1>1 DEF State, MarkV2FirstWrite
<1> QED BY <1>2, <1>3, <1>4, <1>5, <1>6

(* What a process holds depends on where it is. *)
LEMMA ProcessFields ==
  ASSUME NEW p \in Process
  PROVE  /\ p.pc \in {"prepare", "start", "snapshot", "fetch", "drain", "mark", "gates",
                      "flip", "backfill"} => p.st \in State
         /\ p.pc \in {"backfill", "replay"} => p.view \in Views
         /\ p.pc \in {"commit", "replay"} => p.page \in Page
         /\ p.pc \in {"observe", "repair"} => p.source \in Source
         /\ p.pc = "repair" => p.seen \in Seen
BY DEF Process

(* The records a process is set to are processes. *)
LEMMA ProcessRecords ==
  /\ \A pc \in {"idle", "capture", "reload"} : [pc |-> pc] \in Process
  /\ \A pc \in {"prepare", "start", "snapshot", "fetch", "drain", "mark", "gates", "flip"},
        s \in State : [pc |-> pc, st |-> s] \in Process
  /\ \A s \in State, v \in Views : [pc |-> "backfill", st |-> s, view |-> v] \in Process
  /\ \A g \in Page : [pc |-> "commit", page |-> g] \in Process
  /\ \A g \in Page, v \in Views : [pc |-> "replay", page |-> g, view |-> v] \in Process
  /\ \A r \in Source : [pc |-> "observe", source |-> r] \in Process
  /\ \A r \in Source, n \in Seen : [pc |-> "repair", source |-> r, seen |-> n] \in Process
<1>1. \A pc \in {"idle", "capture", "reload"} : [pc |-> pc] \in Process
  BY DEF Process
<1>2. \A pc \in {"prepare", "start", "snapshot", "fetch", "drain", "mark", "gates", "flip"},
         s \in State : [pc |-> pc, st |-> s] \in Process
  BY DEF Process
<1>3. \A s \in State, v \in Views : [pc |-> "backfill", st |-> s, view |-> v] \in Process
  BY DEF Process
<1>4. \A g \in Page : [pc |-> "commit", page |-> g] \in Process
  BY DEF Process
<1>5. \A g \in Page, v \in Views : [pc |-> "replay", page |-> g, view |-> v] \in Process
  BY DEF Process
<1>6. \A r \in Source : [pc |-> "observe", source |-> r] \in Process
  BY DEF Process
<1>7. \A r \in Source, n \in Seen : [pc |-> "repair", source |-> r, seen |-> n] \in Process
  BY DEF Process
<1> QED BY <1>1, <1>2, <1>3, <1>4, <1>5, <1>6, <1>7

(* The two transitions that only move the program counter. *)
LEMMA ProcessMoves ==
  ASSUME NEW p \in Process
  PROVE  /\ p.pc = "prepare" => [p EXCEPT !.pc = "start"] = [pc |-> "start", st |-> p.st]
         /\ p.pc = "gates" => [p EXCEPT !.pc = "flip"] = [pc |-> "flip", st |-> p.st]
BY DEF Process

(* The event CommitPage applies to an entity is the last one of the page. *)
LEMMA EventOfProperties ==
  ASSUME NEW events \in SUBSET Event, NEW e \in Entity, Touches(events, e)
  PROVE  EventOf(events, e) \in Last(events) /\ EventOf(events, e).ent = e
<1> DEFINE mine == {ev \in events : ev.ent = e}
<1>1. mine \in SUBSET Event /\ mine # {}
  BY DEF Touches
<1>2. PICK ev \in mine : \A f \in mine : f.seq <= ev.seq
  BY <1>1, LastEventExists
<1>3. ev \in Last(events) /\ ev.ent = e
  BY <1>2 DEF Last
<1> QED BY <1>3 DEF EventOf

(* One transaction's view of the database is well typed. *)
LEMMA ViewType == TypeOK => View \in Views
BY DEF TypeOK, View, Views

LEMMA InitType == Init => TypeOK
<1> SUFFICES ASSUME Init PROVE TypeOK
  OBVIOUS
<1>1. st \in State /\ anchor \in Nat \ {0}
  BY DEF Init, InitialState, State, Model, Phase, NoCutover
<1>2. legacy \in [Entity -> Row] /\ v2 \in [Entity -> Content] /\ idmap \in [Entity -> Mapping]
  BY DEF Init, Row, Content, Mapping, Absent, NoMapping
<1>3. co \in [Coordinator -> Process]
  BY ProcessRecords DEF Init, Idle
<1>4. /\ outbox \subseteq Event /\ open \subseteq Event /\ admitted \subseteq Nat
      /\ triggers \in BOOLEAN /\ v2Written \in BOOLEAN
  BY DEF Init
<1>5. nextSeq \in Nat \ {0}
  BY DEF Init
<1> QED BY <1>1, <1>2, <1>3, <1>4, <1>5 DEF TypeOK

(* The variables a legacy client changes keep their types. *)
LEMMA LegacyStepType == TypeOK /\ LegacyStep => TypeOK'
<1> SUFFICES ASSUME TypeOK, LegacyStep PROVE TypeOK'
  OBVIOUS
<1> USE DEF stateVars, legacyVars, v2Vars, clientVars
<1>1. ASSUME NEW e \in Entity, UncapturedWrite(e) PROVE TypeOK'
  <2>1. legacy' \in [Entity -> Row]
    BY <1>1 DEF UncapturedWrite, TypeOK, Row
  <2> QED BY <1>1, <2>1 DEF UncapturedWrite, TypeOK
<1>2. ASSUME NEW e \in Entity, NEW live \in BOOLEAN, TriggerAccepts(e, live)
      PROVE  TriggerEvent(e, live) \in Event /\ nextSeq + 1 \in Nat \ {0}
  BY <1>2, ConstantsAssumption DEF TriggerAccepts, TriggerEvent, TypeOK, Event, Row
<1>3. ASSUME NEW ev \in Event PROVE Committed(ev) \in [Entity -> Row]
  BY DEF Committed, TypeOK, Event, Row
<1>4. ASSUME NEW e \in Entity, NEW live \in BOOLEAN, LegacyWrite(e, live) PROVE TypeOK'
  <2>1. TriggerEvent(e, live) \in Event /\ nextSeq' \in Nat \ {0}
    BY <1>2, <1>4 DEF LegacyWrite
  <2>2. legacy' \in [Entity -> Row]
    BY <1>3, <1>4, <2>1 DEF LegacyWrite
  <2> QED BY <1>4, <2>1, <2>2 DEF LegacyWrite, TypeOK
<1>5. ASSUME NEW e \in Entity, NEW live \in BOOLEAN, LegacyBegin(e, live) PROVE TypeOK'
  <2>1. TriggerEvent(e, live) \in Event /\ nextSeq' \in Nat \ {0}
    BY <1>2, <1>5 DEF LegacyBegin
  <2> QED BY <1>5, <2>1 DEF LegacyBegin, TypeOK
<1>6. ASSUME NEW ev \in open, LegacyCommit(ev) PROVE TypeOK'
  <2>1. ev \in Event
    BY DEF TypeOK
  <2>2. legacy' \in [Entity -> Row]
    BY <1>3, <1>6, <2>1 DEF LegacyCommit
  <2> QED BY <1>6, <2>1, <2>2 DEF LegacyCommit, TypeOK
<1>7. ASSUME NEW ev \in open, LegacyAbort(ev) PROVE TypeOK'
  BY <1>7 DEF LegacyAbort, TypeOK
<1> QED BY <1>1, <1>4, <1>5, <1>6, <1>7 DEF LegacyStep

(* So do the variables a coordinator changes. *)
LEMMA CoordinatorStepType ==
  ASSUME TypeOK, NEW c \in Coordinator, CoordinatorStep(c)
  PROVE  TypeOK'
<1> USE DEF stateVars, legacyVars, v2Vars, clientVars
<1>c. co[c] \in Process
  BY DEF TypeOK
<1>g. ASSUME NEW r \in Process, Goto(c, r) PROVE co' \in [Coordinator -> Process]
  BY <1>g DEF Goto, TypeOK
<1>d. ASSUME Done(c) PROVE co' \in [Coordinator -> Process]
  BY <1>d, <1>g, ProcessRecords DEF Done, Idle
<1>m. MigrationOf[c] \in Migration
  BY ConstantsAssumption
<1>1. ASSUME Load(c) PROVE TypeOK'
  <2>1. PhaseEntry[st.phase] \in {"prepare", "snapshot", "fetch"}
    BY <1>1 DEF Load, PhaseEntry
  <2>2. [pc |-> PhaseEntry[st.phase], st |-> st] \in Process
    BY <2>1, ProcessRecords DEF TypeOK
  <2> QED BY <1>1, <1>g, <2>2 DEF Load, TypeOK
<1>2. ASSUME Install(c) PROVE TypeOK'
  <2>1. [co[c] EXCEPT !.pc = "start"] \in Process
    <3>1. co[c].pc = "prepare" /\ co[c].st \in State
      BY <1>2, <1>c, ProcessFields DEF Install, At
    <3>2. [co[c] EXCEPT !.pc = "start"] = [pc |-> "start", st |-> co[c].st]
      BY <1>c, <3>1, ProcessMoves
    <3> QED BY <3>1, <3>2, ProcessRecords
  <2>2. legacy' \in [Entity -> Row]
    BY <1>2 DEF Install, TypeOK, Row
  <2> QED BY <1>2, <1>g, <2>1, <2>2 DEF Install, TypeOK
<1>3. ASSUME Start(c) PROVE TypeOK'
  <2>1. StartBackfill(co[c].st, MigrationOf[c]) \in State
    BY <1>3, <1>c, <1>m, ProcessFields, CommandTypes DEF Start, At
  <2> QED BY <1>3, <1>d, <2>1 DEF Start, CompareAndSwap, TypeOK, State
<1>4. ASSUME TakeSnapshot(c) PROVE TypeOK'
  <2>1. CASE At(c, "snapshot") /\ Goto(c, [pc |-> "backfill", st |-> co[c].st, view |-> View])
    BY <1>4, <1>c, <1>g, <2>1, ViewType, ProcessFields, ProcessRecords DEF TakeSnapshot, At, TypeOK
  <2>2. CASE At(c, "commit") /\ Goto(c, [pc |-> "replay", page |-> co[c].page, view |-> View])
    BY <1>4, <1>c, <1>g, <2>2, ViewType, ProcessFields, ProcessRecords DEF TakeSnapshot, At, TypeOK
  <2> QED BY <1>4, <2>1, <2>2 DEF TakeSnapshot
<1>5. ASSUME NEW view \in Views, BackfillOn(c, view) PROVE TypeOK'
  <2>1. Head(view.outbox) \in Nat
    BY HeadProperties, ConstantsAssumption DEF Views
  <2>2. st' \in State
    BY <1>5, <1>m, <2>1, CommandTypes DEF BackfillOn, TypeOK
  <2>3. v2' \in [Entity -> Content] /\ idmap' \in [Entity -> Mapping]
    BY <1>5 DEF BackfillOn, WriteProjection, TypeOK, Views, Row, Content, Mapping
  <2> QED BY <1>5, <1>d, <2>2, <2>3 DEF BackfillOn, TypeOK
<1>6. ASSUME FetchPage(c) PROVE TypeOK'
  <2> DEFINE page == PageAfter(outbox, st.watermark)
             record == [events |-> page, from |-> st.watermark, id |-> st.migrationId]
  <2>1. page \in SUBSET Event
    BY DEF PageAfter, TypeOK
  <2>2. record \in Page
    BY <2>1 DEF Page, TypeOK, State
  <2>3. CASE Goto(c, [pc |-> "commit", page |-> record])
    <3>1. [pc |-> "commit", page |-> record] \in Process
      BY <2>2, ProcessRecords
    <3> QED BY <1>6, <1>g, <2>3, <3>1 DEF FetchPage, TypeOK
  <2>4. CASE Goto(c, [pc |-> "drain", st |-> co[c].st])
    <3>1. [pc |-> "drain", st |-> co[c].st] \in Process
      BY <1>6, <1>c, ProcessFields, ProcessRecords DEF FetchPage, At
    <3> QED BY <1>6, <1>g, <2>4, <3>1 DEF FetchPage, TypeOK
  <2>5. CASE Goto(c, [pc |-> "capture"])
    BY <1>6, <1>g, <2>5, ProcessRecords DEF FetchPage, TypeOK
  <2> QED BY <1>6, <2>3, <2>4, <2>5 DEF FetchPage
<1>7. ASSUME NEW view \in Views, co[c].page \in Page, CommitPageOn(c, view) PROVE TypeOK'
  <2> DEFINE page == co[c].page
  <2>1. page.events \in SUBSET Event
    BY <1>7 DEF Page
  <2>2. Head(page.events) \in Nat
    BY <2>1, HeadProperties, ConstantsAssumption
  <2>3. st' \in State
    BY <1>7, <1>m, <2>2, CommandTypes DEF CommitPageOn, TypeOK
  <2>4. ASSUME NEW e \in Entity, Touches(page.events, e) PROVE EventOf(page.events, e) \in Event
    BY <2>1, <2>4, EventOfProperties DEF Last
  <2>5. ASSUME NEW ev \in Event, NEW content \in Content, NEW map \in Mapping
        PROVE  Applied(ev, content, map) \in Content /\ Advanced(ev, map) \in Mapping
    BY DEF Event, Content, Mapping, Applied, Advanced, Absent
  <2>6. v2' \in [Entity -> Content]
    BY <1>7, <2>4, <2>5 DEF CommitPageOn, TypeOK
  <2>7. idmap' \in [Entity -> Mapping]
    BY <1>7, <2>4, <2>5 DEF CommitPageOn, TypeOK
  <2> QED BY <1>7, <1>d, <2>3, <2>6, <2>7 DEF CommitPageOn, TypeOK
<1>8. ASSUME Drain(c) PROVE TypeOK'
  <2>1. Head(outbox) \in Nat
    BY HeadProperties, ConstantsAssumption DEF TypeOK
  <2>2. st' \in State
    BY <1>8, <1>m, <2>1, CommandTypes DEF Drain, TypeOK
  <2> QED BY <1>8, <1>d, <2>2 DEF Drain, TypeOK, State
<1>9. ASSUME Capture(c) PROVE TypeOK'
  <2>1. [e \in Entity |-> LegacyContent(legacy[e])] \in Source
    BY DEF TypeOK, Row, LegacyContent, Absent, Source
  <2> QED BY <1>9, <1>g, <2>1, ProcessRecords DEF Capture, TypeOK
<1>10. ASSUME Observe(c) PROVE TypeOK'
  <2>1. CASE Goto(c, [pc |-> "reload"])
    BY <1>10, <1>g, <2>1, ProcessRecords DEF Observe, TypeOK
  <2>2. CASE Goto(c, [pc |-> "repair", source |-> co[c].source, seen |-> Observation])
    <3>1. Observation \in Seen
      BY DEF Observation, Seen, Mapped, TypeOK
    <3>2. [pc |-> "repair", source |-> co[c].source, seen |-> Observation] \in Process
      BY <1>10, <1>c, <3>1, ProcessFields, ProcessRecords DEF Observe, At
    <3> QED BY <1>10, <1>g, <2>2, <3>2 DEF Observe, TypeOK
  <2> QED BY <1>10, <2>1, <2>2 DEF Observe
<1>11. ASSUME Repair(c) PROVE TypeOK'
  <2>1. co[c].source \in Source
    BY <1>11, <1>c, ProcessFields DEF Repair, At
  <2>2. v2' \in [Entity -> Content] /\ idmap' \in [Entity -> Mapping]
    BY <1>11, <2>1 DEF Repair, TypeOK, Source, Row, Content, Mapping, Absent
  <2> QED BY <1>11, <1>d, <2>2 DEF Repair, TypeOK
<1>12. ASSUME Reload(c) PROVE TypeOK'
  <2>1. [pc |-> "mark", st |-> st] \in Process
    BY ProcessRecords DEF TypeOK
  <2> QED BY <1>12, <1>g, <2>1 DEF Reload, TypeOK
<1>13. ASSUME Mark(c) PROVE TypeOK'
  <2>1. MarkReady(co[c].st) \in State
    BY <1>13, <1>c, <1>m, ProcessFields, CommandTypes DEF Mark, At
  <2> QED BY <1>13, <1>d, <2>1 DEF Mark, CompareAndSwap, TypeOK, State
<1>14. ASSUME Backfill(c) PROVE TypeOK'
  <2>1. PICK view \in Views : BackfillOn(c, view)
    BY <1>14, <1>c, ViewType, ProcessFields DEF Backfill, At
  <2> QED BY <1>5, <2>1
<1>15. ASSUME CommitPage(c) PROVE TypeOK'
  <2>1. co[c].page \in Page
    BY <1>15, <1>c, ProcessFields DEF CommitPage, At
  <2>2. PICK view \in Views : CommitPageOn(c, view)
    BY <1>15, <1>c, ViewType, ProcessFields DEF CommitPage, At
  <2> QED BY <1>7, <2>1, <2>2
<1> QED
  BY <1>1, <1>2, <1>3, <1>4, <1>6, <1>8, <1>9, <1>10, <1>11, <1>12, <1>13, <1>14, <1>15
  DEF CoordinatorStep

(* And those of the cutover service, the operator and the v2 clients. *)
LEMMA OtherStepType ==
  ASSUME TypeOK,
         \/ \E c \in Coordinator : CutoverStep(c) \/ Abandon(c)
         \/ OperatorStep \/ V2Step
  PROVE  TypeOK'
<1> USE DEF stateVars, legacyVars, v2Vars, clientVars
<1>g. ASSUME NEW c \in Coordinator, NEW r \in Process, Goto(c, r)
      PROVE  co' \in [Coordinator -> Process]
  BY <1>g DEF Goto, TypeOK
<1>d. ASSUME NEW c \in Coordinator, Done(c) PROVE co' \in [Coordinator -> Process]
  BY <1>d, <1>g, ProcessRecords DEF Done, Idle
<1>1. ASSUME NEW c \in Coordinator, LoadReady(c) PROVE TypeOK'
  <2>1. [pc |-> "gates", st |-> st] \in Process
    BY ProcessRecords DEF TypeOK
  <2> QED BY <1>1, <1>g, <2>1 DEF LoadReady, TypeOK
<1>2. ASSUME NEW c \in Coordinator, CheckGates(c) PROVE TypeOK'
  <2>1. co[c] \in Process
    BY DEF TypeOK
  <2>2. [co[c] EXCEPT !.pc = "flip"] \in Process
    <3>1. co[c].pc = "gates" /\ co[c].st \in State
      BY <1>2, <2>1, ProcessFields DEF CheckGates, At
    <3>2. [co[c] EXCEPT !.pc = "flip"] = [pc |-> "flip", st |-> co[c].st]
      BY <2>1, <3>1, ProcessMoves
    <3> QED BY <3>1, <3>2, ProcessRecords
  <2> QED BY <1>2, <1>g, <2>2 DEF CheckGates, TypeOK
<1>3. ASSUME NEW c \in Coordinator, Flip(c) PROVE TypeOK'
  <2>1. co[c] \in Process /\ MigrationOf[c] \in Migration
    BY ConstantsAssumption DEF TypeOK
  <2>2. Cutover(co[c].st) \in State
    BY <1>3, <2>1, ProcessFields, CommandTypes DEF Flip, At
  <2> QED BY <1>3, <1>d, <2>2 DEF Flip, CompareAndSwap, TypeOK, State
<1>4. ASSUME NEW c \in Coordinator, Abandon(c) PROVE TypeOK'
  BY <1>4, <1>d DEF Abandon, TypeOK
<1>5. ASSUME OperatorStep PROVE TypeOK'
  <2>1. Fail(st) \in State /\ Recover(st) \in State
    BY CommandTypes DEF TypeOK
  <2> QED BY <1>5, <2>1 DEF OperatorStep, OperatorFail, OperatorRecover, CompareAndSwap, TypeOK, State
<1>6. ASSUME ResolveV2 PROVE TypeOK'
  BY <1>6 DEF ResolveV2, TypeOK, State
<1>7. ASSUME NEW e \in Entity, NEW epoch \in admitted, NEW content \in {Edited, Absent},
             V2Write(e, epoch, content)
      PROVE  TypeOK'
  <2>1. MarkV2FirstWrite(st) \in State
    BY CommandTypes DEF TypeOK
  <2>2. v2' \in [Entity -> Content]
    BY <1>7 DEF V2Write, TypeOK, Content, Edited, Absent
  <2> QED BY <1>7, <2>1, <2>2 DEF V2Write, TypeOK
<1> QED BY <1>1, <1>2, <1>3, <1>4, <1>5, <1>6, <1>7 DEF CutoverStep, V2Step

LEMMA NextType == TypeOK /\ [Next]_vars => TypeOK'
<1> SUFFICES ASSUME TypeOK, [Next]_vars PROVE TypeOK'
  OBVIOUS
<1>1. CASE Next
  BY <1>1, LegacyStepType, CoordinatorStepType, OtherStepType DEF Next
<1>2. CASE UNCHANGED vars
  BY <1>2 DEF vars, TypeOK
<1> QED BY <1>1, <1>2

(* Every variable, and all a process remembers between two transactions of   *)
(* internal/taskmigration, keeps its type.                                   *)
THEOREM TypeInvariant == Spec => []TypeOK
<1> QED BY InitType, NextType, PTL DEF Spec

----------------------------------------------------------------------------
(* The rows that processes remember *)

Holders == {"prepare", "start", "snapshot", "fetch", "drain", "mark", "gates", "flip", "backfill"}

(* A remembered row is an old version of the durable one, or is it: the      *)
(* revision identifies a version, which is what a compare-and-swap relies on.*)
RowsRemembered ==
  \A c \in Coordinator : co[c].pc \in Holders =>
    /\ co[c].st.revision <= st.revision
    /\ co[c].st.revision = st.revision => co[c].st = st

(* What a process checked before it came to the step it is at. *)
GuardsRemembered ==
  \A c \in Coordinator :
    /\ co[c].pc = "mark" => CanMarkReady(co[c].st)
    /\ co[c].pc = "flip" => CanCutover(co[c].st, MigrationOf[c])
    /\ co[c].pc \in {"commit", "replay"} => co[c].page.events # {}

(* A v2 runtime resolved for the current epoch means v2 serves: every way    *)
(* out of v2 advances the epoch.                                             *)
EpochsAdmitted ==
  \A a \in admitted : a <= st.epoch /\ (a = st.epoch => ServingV2(st))

RowInv ==
  /\ TypeOK /\ EpochsAgree /\ StateValid /\ RollbackBoundary
  /\ RowsRemembered /\ GuardsRemembered /\ EpochsAdmitted

(* No legacy transaction is open behind a closed fence. *)
FenceHolds == open # {} => st.accept

(* Once the triggers are installed every live row has a version. *)
Baselined == triggers => \A e \in Entity : legacy[e].live => legacy[e].ver > 0

DataInv == FenceHolds /\ CutoverIsFinal /\ Baselined /\ MapTruthful

(* Whoever passed the gates on the current row saw the two models agree, and *)
(* they still do; so they do after the switch.                               *)
Frozen ==
  \/ st.phase = "cutover" /\ ~st.firstWrite
  \/ \E c \in Coordinator : co[c].pc = "flip" /\ co[c].st.revision = st.revision

FrozenMatch == Frozen => Match /\ triggers

(* What a step may do to the durable row: nothing, or one command of         *)
(* state.go whose guard the row satisfies, or the advance of the watermark   *)
(* by a replayed page.                                                       *)
RowCommand ==
  \/ st' = st
  \/ \E m \in Migration : CanStartBackfill(st) /\ st' = StartBackfill(st, m)
  \/ \E w \in Nat : /\ st.phase = "backfilling" /\ CanBeginCatchingUp(st, w)
                    /\ st' = BeginCatchingUp(st, w)
  \/ \E w \in Nat : /\ ReplayPhase(st, w) /\ w > st.watermark
                    /\ st' = [st EXCEPT !.watermark = w, !.revision = @ + 1]
  \/ open = {} /\ CanBeginDrain(st, Head(outbox)) /\ st' = BeginDrain(st, Head(outbox))
  \/ CanMarkReady(st) /\ st' = MarkReady(st)
  \/ \E c \in Coordinator : /\ co[c].pc = "flip" /\ co[c].st = st
                            /\ CanCutover(st, MigrationOf[c]) /\ st' = Cutover(st)
  \/ CanFail(st) /\ st' = Fail(st)
  \/ CanRecover(st) /\ st' = Recover(st)
  \/ ServingV2(st) /\ st' = MarkV2FirstWrite(st)

LEMMA HeldRow ==
  ASSUME TypeOK, NEW c \in Coordinator, co[c].pc \in Holders
  PROVE  co[c].st \in State
<1>1. co[c] \in Process
  BY DEF TypeOK
<1> QED BY <1>1, ProcessFields DEF Holders

LEMMA HeldPage ==
  ASSUME TypeOK, NEW c \in Coordinator, co[c].pc \in {"commit", "replay"}
  PROVE  co[c].page \in Page
<1>1. co[c] \in Process
  BY DEF TypeOK
<1> QED BY <1>1, ProcessFields

(* A compare-and-swap that succeeds found the row its caller remembered. *)
LEMMA SwapOnCurrentRow ==
  ASSUME TypeOK, RowsRemembered, NEW c \in Coordinator, co[c].pc \in Holders, NEW next,
         CompareAndSwap(co[c].st, next)
  PROVE  co[c].st = st /\ st' = next /\ anchor' = next.epoch
BY DEF CompareAndSwap, SameIdentity, RowsRemembered

(* A page that CommitPage accepts ends after the durable watermark. *)
LEMMA PageAdvances ==
  ASSUME TypeOK, GuardsRemembered, NEW c \in Coordinator, CommitPage(c)
  PROVE  \E w \in Nat : /\ ReplayPhase(st, w) /\ w > st.watermark
                        /\ st' = [st EXCEPT !.watermark = w, !.revision = @ + 1]
<1> DEFINE page == co[c].page
           to == Head(page.events)
<1>1. co[c].pc \in {"commit", "replay"}
  BY DEF CommitPage, At
<1>2. page \in Page /\ page.events # {}
  BY <1>1, HeldPage DEF GuardsRemembered
<1>3. page.events \in SUBSET Event
  BY <1>2 DEF Page
<1>4. PICK view : CommitPageOn(c, view)
  BY DEF CommitPage
<1>5. to \in Nat /\ \E ev \in page.events : ev.seq = to
  BY <1>2, <1>3, HeadProperties, ConstantsAssumption
<1>6. page.events = Between(view.outbox, page.from, to) /\ page.from = st.watermark
  BY <1>4 DEF CommitPageOn, PageCurrent
<1>7. to > st.watermark
  BY <1>3, <1>5, <1>6 DEF Between, Event, TypeOK, State
<1> QED BY <1>4, <1>5, <1>7 DEF CommitPageOn, PageCurrent

LEMMA EveryStepIsARowCommand ==
  ASSUME RowInv, [Next]_vars
  PROVE  RowCommand
<1> USE DEF RowInv, stateVars
<1>1. CASE UNCHANGED vars
  BY <1>1 DEF vars, RowCommand
<1>2. ASSUME LegacyStep PROVE st' = st
  BY <1>2 DEF LegacyStep, UncapturedWrite, LegacyWrite, LegacyBegin, LegacyCommit, LegacyAbort
<1>3. ASSUME NEW c \in Coordinator, Start(c) PROVE RowCommand
  <2>1. co[c].pc \in Holders
    BY <1>3 DEF Start, At, Holders
  <2>2. co[c].st = st /\ st' = StartBackfill(co[c].st, MigrationOf[c])
    BY <1>3, <2>1, SwapOnCurrentRow DEF Start
  <2>3. MigrationOf[c] \in Migration
    BY ConstantsAssumption
  <2> QED BY <1>3, <2>2, <2>3 DEF Start, RowCommand
<1>4. ASSUME NEW c \in Coordinator, Backfill(c) PROVE RowCommand
  <2>1. PICK view \in Views : BackfillOn(c, view)
    <3>1. co[c] \in Process
      BY DEF TypeOK
    <3> QED BY <1>4, <3>1, ViewType, ProcessFields DEF Backfill, At
  <2>2. Head(view.outbox) \in Nat
    BY HeadProperties, ConstantsAssumption DEF Views
  <2> QED BY <2>1, <2>2 DEF BackfillOn, RowCommand
<1>5. ASSUME NEW c \in Coordinator, CommitPage(c) PROVE RowCommand
  BY <1>5, PageAdvances DEF RowCommand
<1>6. ASSUME NEW c \in Coordinator, Drain(c) PROVE RowCommand
  BY <1>6 DEF Drain, StateRowFree, RowCommand
<1>7. ASSUME NEW c \in Coordinator, Mark(c) PROVE RowCommand
  <2>1. co[c].pc \in Holders /\ CanMarkReady(co[c].st)
    BY <1>7 DEF Mark, At, Holders, GuardsRemembered
  <2>2. co[c].st = st /\ st' = MarkReady(co[c].st)
    BY <1>7, <2>1, SwapOnCurrentRow DEF Mark
  <2> QED BY <2>1, <2>2 DEF RowCommand
<1>8. ASSUME NEW c \in Coordinator, Flip(c) PROVE RowCommand
  <2>1. co[c].pc = "flip" /\ co[c].pc \in Holders /\ CanCutover(co[c].st, MigrationOf[c])
    BY <1>8 DEF Flip, At, Holders, GuardsRemembered
  <2>2. co[c].st = st /\ st' = Cutover(co[c].st)
    BY <1>8, <2>1, SwapOnCurrentRow DEF Flip
  <2> QED BY <2>1, <2>2 DEF RowCommand
<1>9. ASSUME NEW c \in Coordinator,
             \/ Load(c) \/ Install(c) \/ TakeSnapshot(c) \/ FetchPage(c) \/ Capture(c)
             \/ Observe(c) \/ Repair(c) \/ Reload(c) \/ LoadReady(c) \/ CheckGates(c) \/ Abandon(c)
      PROVE  st' = st
  BY <1>9 DEF Load, Install, TakeSnapshot, FetchPage, Capture, Observe, Repair, Reload,
              LoadReady, CheckGates, Abandon
<1>10. ASSUME OperatorStep PROVE RowCommand
  BY <1>10 DEF OperatorStep, OperatorFail, OperatorRecover, CompareAndSwap, RowCommand
<1>11. ASSUME V2Step PROVE RowCommand
  <2>1. CASE ResolveV2
    BY <2>1 DEF ResolveV2, RowCommand
  <2>2. ASSUME NEW e \in Entity, NEW epoch \in admitted, NEW content \in {Edited, Absent},
               V2Write(e, epoch, content)
        PROVE  RowCommand
    <3>1. ServingV2(st)
      BY <2>2 DEF V2Write, Fenced, EpochsAgree, EpochsAdmitted
    <3> QED BY <2>2, <3>1 DEF V2Write, RowCommand
  <2> QED BY <1>11, <2>1, <2>2 DEF V2Step
<1>12. CASE Next
  <2>1. CASE LegacyStep
    BY <1>2, <2>1 DEF RowCommand
  <2>2. ASSUME NEW c \in Coordinator, CoordinatorStep(c) \/ CutoverStep(c) \/ Abandon(c)
        PROVE  RowCommand
    BY <1>3, <1>4, <1>5, <1>6, <1>7, <1>8, <1>9, <2>2
    DEF CoordinatorStep, CutoverStep, RowCommand
  <2> QED BY <1>10, <1>11, <1>12, <2>1, <2>2 DEF Next
<1> QED BY <1>1, <1>12

----------------------------------------------------------------------------
(* The row invariant is inductive *)

(* What every command of state.go does to a valid row. *)
LEMMA RowCommandEffects ==
  ASSUME TypeOK, ValidState(st), RowCommand
  PROVE  /\ ValidState(st')
         /\ st' # st => st'.revision > st.revision
         /\ st'.epoch >= st.epoch
         /\ ServingV2(st) => ServingV2(st') \/ (st'.epoch > st.epoch /\ ~st.firstWrite)
         /\ st.firstWrite => st'.firstWrite
<1> DEFINE Effects(t) ==
      /\ ValidState(t)
      /\ t # st => t.revision > st.revision
      /\ t.epoch >= st.epoch
      /\ ServingV2(st) => ServingV2(t) \/ (t.epoch > st.epoch /\ ~st.firstWrite)
      /\ st.firstWrite => t.firstWrite
<1> USE DEF TypeOK, State, Model, Phase, NoCutover, ValidState, ServingV2
<1>1. ASSUME st' = st PROVE Effects(st')
  BY <1>1
<1>2. ASSUME NEW m \in Migration, CanStartBackfill(st), st' = StartBackfill(st, m) PROVE Effects(st')
  BY <1>2, MigrationAssumption DEF CanStartBackfill, StartBackfill
<1>3. ASSUME NEW w \in Nat, CanBeginCatchingUp(st, w), st' = BeginCatchingUp(st, w) PROVE Effects(st')
  BY <1>3 DEF CanBeginCatchingUp, BeginCatchingUp
<1>4. ASSUME NEW w \in Nat, ReplayPhase(st, w),  w > st.watermark,
             st' = [st EXCEPT !.watermark = w, !.revision = @ + 1]
      PROVE  Effects(st')
  BY <1>4 DEF ReplayPhase
<1>5. ASSUME CanBeginDrain(st, Head(outbox)), st' = BeginDrain(st, Head(outbox)) PROVE Effects(st')
  <2>1. Head(outbox) \in Nat
    BY HeadProperties, ConstantsAssumption
  <2> QED BY <1>5, <2>1 DEF CanBeginDrain, BeginDrain
<1>6. ASSUME CanMarkReady(st), st' = MarkReady(st) PROVE Effects(st')
  BY <1>6 DEF CanMarkReady, MarkReady
<1>7. ASSUME NEW m, CanCutover(st, m), st' = Cutover(st) PROVE Effects(st')
  BY <1>7 DEF CanCutover, Cutover
<1>8. ASSUME CanFail(st), st' = Fail(st) PROVE Effects(st')
  BY <1>8 DEF CanFail, Fail
<1>9. ASSUME CanRecover(st), st' = Recover(st) PROVE Effects(st')
  <2>1. CASE st.model = "v2"
    <3>1. ~st.firstWrite /\ st'.epoch = st.epoch + 1 /\ st'.revision = st.revision + 1
      BY <1>9, <2>1 DEF CanRecover, Recover
    <3>2. ValidState(st') /\ ~ServingV2(st')
      BY <1>9, <2>1 DEF CanRecover, Recover
    <3> QED BY <3>1, <3>2
  <2>2. CASE st.model = "legacy"
    <3>1. /\ st.phase = "failed" /\ ~st.firstWrite
          /\ st'.epoch = st.epoch /\ st'.revision = st.revision + 1
      BY <1>9, <2>2 DEF CanRecover, Recover
    <3>2. ValidState(st')
      BY <1>9, <2>2 DEF CanRecover, Recover
    <3> QED BY <2>2, <3>1, <3>2
  <2> QED BY <2>1, <2>2
<1>10. ASSUME ServingV2(st), st' = MarkV2FirstWrite(st) PROVE Effects(st')
  <2>1. CASE st.firstWrite
    BY <1>1, <1>10, <2>1 DEF MarkV2FirstWrite
  <2>2. CASE ~st.firstWrite
    <3>1. st' = [st EXCEPT !.firstWrite = TRUE, !.revision = @ + 1]
      BY <1>10, <2>2 DEF MarkV2FirstWrite
    <3> QED BY <1>10, <3>1
  <2> QED BY <2>1, <2>2
<1> HIDE DEF TypeOK, State, Model, Phase, NoCutover, ValidState, ServingV2
<1>11. Effects(st')
  <2> HIDE DEF Effects
  <2>1. CASE st' = st
    BY <1>1, <2>1 DEF Effects, TypeOK, State
  <2> QED BY <1>2, <1>3, <1>4, <1>5, <1>6, <1>7, <1>8, <1>9, <1>10, <2>1 DEF RowCommand
<1> QED BY <1>11

(* A step of a process changes what that process holds and nothing that      *)
(* another one does.                                                         *)
LEMMA ProcessSteps ==
  ASSUME NEW c \in Coordinator, CoordinatorStep(c) \/ CutoverStep(c) \/ Abandon(c)
  PROVE  \E r : Goto(c, r)
<1>1. CASE Load(c)
  BY <1>1 DEF Load
<1>2. CASE Install(c)
  BY <1>2 DEF Install
<1>3. CASE TakeSnapshot(c)
  BY <1>3 DEF TakeSnapshot
<1>4. CASE FetchPage(c)
  BY <1>4 DEF FetchPage
<1>5. CASE Capture(c)
  BY <1>5 DEF Capture
<1>6. CASE Observe(c)
  BY <1>6 DEF Observe
<1>7. CASE Reload(c)
  BY <1>7 DEF Reload
<1>8. CASE LoadReady(c)
  BY <1>8 DEF LoadReady
<1>9. CASE CheckGates(c)
  BY <1>9 DEF CheckGates
<1>10. CASE Done(c)
  BY <1>10 DEF Done
<1> QED
  BY <1>1, <1>2, <1>3, <1>4, <1>5, <1>6, <1>7, <1>8, <1>9, <1>10
  DEF CoordinatorStep, CutoverStep, Start, Backfill, BackfillOn, CommitPage, CommitPageOn,
      Drain, Repair, Mark, Flip, Abandon

(* A process keeps the row it remembers, loads the current one, or forgets.  *)
LEMMA RowsHeld ==
  ASSUME TypeOK, [Next]_vars, NEW c \in Coordinator, co'[c].pc \in Holders
  PROVE  \/ co[c].pc \in Holders /\ co'[c].st = co[c].st
         \/ st' = st /\ co'[c].st = st
<1> DEFINE Kept == \/ co[c].pc \in Holders /\ co'[c].st = co[c].st
                   \/ st' = st /\ co'[c].st = st
<1> USE DEF stateVars
<1>1. CASE co' = co
  BY <1>1
<1>2. ASSUME NEW d \in Coordinator, d # c, NEW r, Goto(d, r) PROVE co'[c] = co[c]
  BY <1>2 DEF Goto, TypeOK
<1>3. ASSUME NEW r, Goto(c, r) PROVE co'[c] = r
  BY <1>3 DEF Goto, TypeOK
<1>4. ASSUME Done(c) PROVE FALSE
  <2>1. co'[c] = Idle
    BY <1>3, <1>4 DEF Done
  <2> QED BY <2>1 DEF Idle, Holders
<1>5. ASSUME CoordinatorStep(c) \/ CutoverStep(c) \/ Abandon(c) PROVE Kept
  <2>0. co[c] \in Process
    BY DEF TypeOK
  <2>1. CASE Load(c)
    BY <1>3, <2>1 DEF Load
  <2>2. CASE Install(c)
    <3>1. co'[c] = [pc |-> "start", st |-> co[c].st] /\ co[c].pc = "prepare"
      BY <1>3, <2>0, <2>2, ProcessMoves DEF Install, At
    <3> QED BY <3>1 DEF Holders
  <2>3. CASE TakeSnapshot(c)
    BY <1>3, <2>3 DEF TakeSnapshot, At, Holders
  <2>4. CASE FetchPage(c)
    BY <1>3, <2>4 DEF FetchPage, At, Holders
  <2>5. CASE Capture(c)
    BY <1>3, <2>5 DEF Capture, Holders
  <2>6. CASE Observe(c)
    BY <1>3, <2>6 DEF Observe, Holders
  <2>7. CASE Reload(c) \/ LoadReady(c)
    BY <1>3, <2>7 DEF Reload, LoadReady
  <2>8. CASE CheckGates(c)
    <3>1. co'[c] = [pc |-> "flip", st |-> co[c].st] /\ co[c].pc = "gates"
      BY <1>3, <2>0, <2>8, ProcessMoves DEF CheckGates, At
    <3> QED BY <3>1 DEF Holders
  <2>9. CASE \/ Start(c) \/ Backfill(c) \/ CommitPage(c) \/ Drain(c) \/ Repair(c)
             \/ Mark(c) \/ Flip(c) \/ Abandon(c)
    BY <1>4, <2>9 DEF Start, Backfill, BackfillOn, CommitPage, CommitPageOn, Drain, Repair,
                     Mark, Flip, Abandon
  <2> QED BY <1>5, <2>1, <2>2, <2>3, <2>4, <2>5, <2>6, <2>7, <2>8, <2>9
          DEF CoordinatorStep, CutoverStep
<1>6. ASSUME NEW d \in Coordinator, d # c, CoordinatorStep(d) \/ CutoverStep(d) \/ Abandon(d)
      PROVE  co'[c] = co[c]
  <2>1. \E r : Goto(d, r)
    BY <1>6, ProcessSteps
  <2> QED BY <1>2, <1>6, <2>1
<1>7. ASSUME LegacyStep \/ OperatorStep \/ V2Step PROVE co' = co
  BY <1>7 DEF LegacyStep, UncapturedWrite, LegacyWrite, LegacyBegin, LegacyCommit, LegacyAbort,
       OperatorStep, OperatorFail, OperatorRecover, V2Step, ResolveV2, V2Write
<1>8. CASE UNCHANGED vars
  BY <1>8, <1>1 DEF vars
<1> QED BY <1>1, <1>5, <1>6, <1>7, <1>8 DEF Next

LEMMA InitRow == Init => RowInv
<1> SUFFICES ASSUME Init PROVE RowInv
  OBVIOUS
<1>1. PICK model \in Model : st = InitialState(model)
  BY DEF Init
<1>2. StateValid
  BY <1>1 DEF StateValid, ValidState, InitialState, Model
<1>3. \A c \in Coordinator : co[c].pc = "idle"
  BY DEF Init, Idle
<1>4. RowsRemembered /\ GuardsRemembered
  BY <1>3 DEF RowsRemembered, GuardsRemembered, Holders
<1> QED
  BY <1>2, <1>4, InitType
  DEF Init, RowInv, EpochsAgree, RollbackBoundary, EpochsAdmitted

(* The anchor is rewritten with the row, or by nobody. *)
LEMMA NextEpochs == RowInv /\ [Next]_vars => EpochsAgree'
<1> SUFFICES ASSUME RowInv, [Next]_vars PROVE EpochsAgree'
  OBVIOUS
<1> USE DEF stateVars, EpochsAgree
<1>0. anchor = st.epoch /\ st \in State
  BY DEF RowInv, TypeOK
<1>1. ASSUME UNCHANGED stateVars PROVE EpochsAgree'
  BY <1>0, <1>1
<1>2. ASSUME NEW s, NEW next, CompareAndSwap(s, next) PROVE EpochsAgree'
  BY <1>2 DEF CompareAndSwap
<1>3. ASSUME NEW c \in Coordinator, Backfill(c) PROVE EpochsAgree'
  BY <1>0, <1>3 DEF Backfill, BackfillOn, BeginCatchingUp, State
<1>4. ASSUME NEW c \in Coordinator, CommitPage(c) PROVE EpochsAgree'
  BY <1>0, <1>4 DEF CommitPage, CommitPageOn, State
<1>5. ASSUME NEW c \in Coordinator, Drain(c) PROVE EpochsAgree'
  BY <1>5 DEF Drain
<1>6. ASSUME NEW c \in Coordinator, CoordinatorStep(c) \/ CutoverStep(c) \/ Abandon(c)
      PROVE  EpochsAgree'
  BY <1>1, <1>2, <1>3, <1>4, <1>5, <1>6
  DEF CoordinatorStep, CutoverStep, Abandon, Load, Install, Start, TakeSnapshot, FetchPage,
      Capture, Observe, Repair, Reload, Mark, LoadReady, CheckGates, Flip
<1>7. ASSUME NEW e \in Entity, NEW epoch \in admitted, NEW content \in {Edited, Absent},
             V2Write(e, epoch, content)
      PROVE  EpochsAgree'
  BY <1>0, <1>7 DEF V2Write, MarkV2FirstWrite, State
<1>8. ASSUME LegacyStep \/ ResolveV2 PROVE EpochsAgree'
  BY <1>1, <1>8 DEF LegacyStep, UncapturedWrite, LegacyWrite, LegacyBegin, LegacyCommit,
     LegacyAbort, ResolveV2
<1>9. ASSUME OperatorStep PROVE EpochsAgree'
  BY <1>2, <1>9 DEF OperatorStep, OperatorFail, OperatorRecover
<1>10. CASE UNCHANGED vars
  BY <1>1, <1>10 DEF vars
<1> QED BY <1>6, <1>7, <1>8, <1>9, <1>10 DEF Next, V2Step

(* A process reaches a step only after the check that the step relies on. *)
LEMMA NextGuards == RowInv /\ [Next]_vars => GuardsRemembered'
<1> SUFFICES ASSUME RowInv, [Next]_vars, NEW c \in Coordinator
             PROVE  /\ co'[c].pc = "mark" => CanMarkReady(co'[c].st)
                    /\ co'[c].pc = "flip" => CanCutover(co'[c].st, MigrationOf[c])
                    /\ co'[c].pc \in {"commit", "replay"} => co'[c].page.events # {}
  BY DEF GuardsRemembered
<1> DEFINE G(r) == /\ r.pc = "mark" => CanMarkReady(r.st)
                   /\ r.pc = "flip" => CanCutover(r.st, MigrationOf[c])
                   /\ r.pc \in {"commit", "replay"} => r.page.events # {}
<1>0. TypeOK /\ G(co[c]) /\ co[c] \in Process
  BY DEF RowInv, TypeOK, GuardsRemembered
<1>1. ASSUME NEW r, Goto(c, r) PROVE co'[c] = r
  BY <1>0, <1>1 DEF Goto, TypeOK
<1>2. G(Idle)
  BY DEF Idle
<1>3. ASSUME CoordinatorStep(c) \/ CutoverStep(c) \/ Abandon(c) PROVE G(co'[c])
  <2>1. CASE Load(c)
    <3>1. co'[c].pc \in {"prepare", "snapshot", "fetch"}
      BY <1>1, <2>1 DEF Load, PhaseEntry
    <3> QED BY <3>1
  <2>2. CASE Install(c)
    <3>1. co[c].pc = "prepare" /\ co'[c] = [co[c] EXCEPT !.pc = "start"]
      BY <1>1, <2>2 DEF Install, At
    <3>2. co'[c] = [pc |-> "start", st |-> co[c].st]
      BY <1>0, <3>1, ProcessMoves
    <3> QED BY <3>2
  <2>3. CASE TakeSnapshot(c)
    BY <1>0, <1>1, <2>3 DEF TakeSnapshot, At
  <2>4. CASE FetchPage(c)
    BY <1>1, <2>4 DEF FetchPage
  <2>5. CASE Capture(c)
    BY <1>1, <2>5 DEF Capture
  <2>6. CASE Observe(c)
    BY <1>1, <2>6 DEF Observe
  <2>7. CASE Reload(c) \/ LoadReady(c)
    BY <1>1, <2>7 DEF Reload, LoadReady
  <2>8. CASE CheckGates(c)
    <3>1. co'[c] = [pc |-> "flip", st |-> co[c].st]
      BY <1>0, <1>1, <2>8, ProcessMoves DEF CheckGates, At
    <3> QED BY <2>8, <3>1 DEF CheckGates
  <2>9. CASE Done(c)
    BY <1>1, <1>2, <2>9 DEF Done
  <2> QED
    BY <1>3, <2>1, <2>2, <2>3, <2>4, <2>5, <2>6, <2>7, <2>8, <2>9
    DEF CoordinatorStep, CutoverStep, Start, Backfill, BackfillOn, CommitPage, CommitPageOn,
        Drain, Repair, Mark, Flip, Abandon
<1>4. ASSUME NEW d \in Coordinator, d # c, CoordinatorStep(d) \/ CutoverStep(d) \/ Abandon(d)
      PROVE  co'[c] = co[c]
  <2>1. \E r : Goto(d, r)
    BY <1>4, ProcessSteps
  <2> QED BY <1>0, <1>4, <2>1 DEF Goto, TypeOK
<1>5. ASSUME LegacyStep \/ OperatorStep \/ V2Step \/ UNCHANGED vars PROVE co' = co
  BY <1>5 DEF LegacyStep, UncapturedWrite, LegacyWrite, LegacyBegin, LegacyCommit, LegacyAbort,
     OperatorStep, OperatorFail, OperatorRecover, V2Step, ResolveV2, V2Write, vars
<1>6. G(co'[c])
  <2> HIDE DEF G
  <2> QED BY <1>0, <1>3, <1>4, <1>5 DEF Next
<1> QED BY <1>6

(* An epoch enters `admitted' while v2 serves, and v2Written is set by a     *)
(* write through one of them.                                                *)
LEMMA ClientSteps ==
  ASSUME RowInv, [Next]_vars
  PROVE  /\ admitted' \subseteq admitted \/ (admitted' = admitted \cup {st.epoch} /\ ServingV2(st) /\ st' = st)
         /\ v2Written' = v2Written \/ (ServingV2(st) /\ st'.firstWrite /\ v2Written')
<1> USE DEF clientVars
<1>1. ASSUME UNCHANGED clientVars
      PROVE  admitted' = admitted /\ v2Written' = v2Written
  BY <1>1
<1>2. ASSUME NEW c \in Coordinator, CoordinatorStep(c) PROVE UNCHANGED clientVars
  BY <1>2 DEF CoordinatorStep, Load, Install, Start, TakeSnapshot, Backfill, BackfillOn,
     FetchPage, CommitPage, CommitPageOn, Drain, Capture, Observe, Repair, Reload, Mark
<1>3. ASSUME NEW c \in Coordinator, CutoverStep(c) \/ Abandon(c) PROVE UNCHANGED clientVars
  BY <1>3 DEF CutoverStep, LoadReady, CheckGates, Flip, Abandon
<1>4. ASSUME LegacyStep \/ OperatorStep \/ UNCHANGED vars PROVE UNCHANGED clientVars
  BY <1>4 DEF LegacyStep, UncapturedWrite, LegacyWrite, LegacyBegin, LegacyCommit, LegacyAbort,
     OperatorStep, OperatorFail, OperatorRecover, vars
<1>5. CASE ResolveV2
  BY <1>5 DEF ResolveV2, stateVars
<1>6. ASSUME NEW e \in Entity, NEW epoch \in admitted, NEW content \in {Edited, Absent},
             V2Write(e, epoch, content)
      PROVE  ServingV2(st) /\ st'.firstWrite /\ v2Written' /\ admitted' = admitted
  <2>1. ServingV2(st) /\ st \in State
    BY <1>6 DEF V2Write, Fenced, RowInv, EpochsAgree, EpochsAdmitted, TypeOK
  <2> QED BY <1>6, <2>1 DEF V2Write, MarkV2FirstWrite, ServingV2, State
<1> QED BY <1>1, <1>2, <1>3, <1>4, <1>5, <1>6 DEF Next, V2Step

LEMMA NextRow == RowInv /\ [Next]_vars => RowInv'
<1> SUFFICES ASSUME RowInv, [Next]_vars PROVE RowInv'
  OBVIOUS
<1>1. TypeOK /\ TypeOK'
  BY NextType DEF RowInv
<1>2. /\ ValidState(st')
      /\ st' # st => st'.revision > st.revision
      /\ st'.epoch >= st.epoch
      /\ ServingV2(st) => ServingV2(st') \/ (st'.epoch > st.epoch /\ ~st.firstWrite)
      /\ st.firstWrite => st'.firstWrite
  BY <1>1, EveryStepIsARowCommand, RowCommandEffects DEF RowInv, StateValid
<1>3. st \in State /\ st' \in State
  BY <1>1 DEF TypeOK
<1>4. StateValid'
  BY <1>2 DEF StateValid
<1>5. EpochsAgree' /\ GuardsRemembered'
  BY NextEpochs, NextGuards
<1>6. RowsRemembered'
  <2> SUFFICES ASSUME NEW c \in Coordinator, co'[c].pc \in Holders
               PROVE  /\ co'[c].st.revision <= st'.revision
                      /\ co'[c].st.revision = st'.revision => co'[c].st = st'
    BY DEF RowsRemembered
  <2>1. CASE co[c].pc \in Holders /\ co'[c].st = co[c].st
    <3>1. co[c].st \in State
      BY <1>1, <2>1, HeldRow
    <3>2. /\ co[c].st.revision <= st.revision
          /\ co[c].st.revision = st.revision => co[c].st = st
      BY <2>1 DEF RowInv, RowsRemembered
    <3> QED BY <1>2, <1>3, <2>1, <3>1, <3>2 DEF State
  <2>2. CASE st' = st /\ co'[c].st = st
    BY <1>3, <2>2 DEF State
  <2> QED BY <1>1, <2>1, <2>2, RowsHeld
<1>7. EpochsAdmitted'
  <2> SUFFICES ASSUME NEW a \in admitted'
               PROVE  a <= st'.epoch /\ (a = st'.epoch => ServingV2(st'))
    BY DEF EpochsAdmitted
  <2>1. CASE a \in admitted
    <3>1. a \in Nat /\ a <= st.epoch /\ (a = st.epoch => ServingV2(st))
      BY <1>1, <2>1 DEF RowInv, TypeOK, EpochsAdmitted
    <3> QED BY <1>2, <1>3, <3>1 DEF State
  <2>2. CASE a = st.epoch /\ ServingV2(st) /\ st' = st
    BY <1>3, <2>2 DEF State
  <2> QED BY <2>1, <2>2, ClientSteps
<1>8. RollbackBoundary'
  <2> SUFFICES ASSUME v2Written' PROVE ServingV2(st') /\ st'.firstWrite
    BY DEF RollbackBoundary
  <2>1. CASE v2Written
    <3>1. ServingV2(st) /\ st.firstWrite
      BY <2>1 DEF RowInv, RollbackBoundary
    <3> QED BY <1>2, <3>1
  <2>2. CASE ServingV2(st) /\ st'.firstWrite
    BY <1>2, <2>2 DEF ValidState
  <2>3. v2Written \/ (ServingV2(st) /\ st'.firstWrite)
    BY ClientSteps
  <2> QED BY <2>1, <2>2, <2>3
<1> QED BY <1>1, <1>4, <1>5, <1>6, <1>7, <1>8 DEF RowInv

LEMMA RowInvariant == Spec => []RowInv
<1> QED BY InitRow, NextRow, PTL DEF Spec

(* In every reachable state the durable row passes the code's own Validate,  *)
(* and its epoch is that of the tenant's anchor.                             *)
THEOREM DurableStateAlwaysAgrees == Spec => []DurableStateAgrees
<1>1. RowInv => DurableStateAgrees
  BY DEF RowInv, DurableStateAgrees
<1> QED BY <1>1, RowInvariant, PTL

(* After a v2 business write the workspace never serves legacy again.        *)
THEOREM NoRollbackAfterV2Write == Spec => []RollbackBoundary
<1>1. RowInv => RollbackBoundary
  BY DEF RowInv
<1> QED BY <1>1, RowInvariant, PTL

(* A migration that stays active never moves its watermark back and never    *)
(* reopens its fence (Validate and the guards of state.go, with the          *)
(* compare-and-swap of state_store.go).                                      *)
THEOREM MigrationMovesForward == Spec => Forward
<1>1. ASSUME RowInv, [Next]_vars
      PROVE  [st'.phase \notin {"idle", "backfilling", "failed"} =>
                /\ st'.watermark >= st.watermark
                /\ st'.accept => st.accept]_vars
  <2> SUFFICES ASSUME st'.phase \notin {"idle", "backfilling", "failed"}
               PROVE  st'.watermark >= st.watermark /\ (st'.accept => st.accept)
    OBVIOUS
  <2>0. st \in State /\ RowCommand
    BY <1>1, EveryStepIsARowCommand DEF RowInv, TypeOK
  <2> USE DEF State
  <2>1. CASE st' = st
    BY <2>0, <2>1
  <2>2. ASSUME NEW m \in Migration, st' = StartBackfill(st, m) PROVE FALSE
    BY <2>0, <2>2 DEF StartBackfill
  <2>3. ASSUME NEW w \in Nat, CanBeginCatchingUp(st, w), st' = BeginCatchingUp(st, w)
        PROVE  st'.watermark >= st.watermark /\ st'.accept = st.accept
    BY <2>0, <2>3 DEF CanBeginCatchingUp, BeginCatchingUp
  <2>4. ASSUME NEW w \in Nat, w > st.watermark,
               st' = [st EXCEPT !.watermark = w, !.revision = @ + 1]
        PROVE  st'.watermark >= st.watermark /\ st'.accept = st.accept
    BY <2>0, <2>4
  <2>5. ASSUME st' = BeginDrain(st, Head(outbox))
        PROVE  st'.watermark >= st.watermark /\ ~st'.accept
    BY <2>0, <2>5 DEF BeginDrain
  <2>6. ASSUME st' = MarkReady(st) \/ st' = Cutover(st) \/ st' = MarkV2FirstWrite(st)
        PROVE  st'.watermark >= st.watermark /\ st'.accept = st.accept
    <3>1. st'.watermark = st.watermark /\ st'.accept = st.accept
      <4>1. CASE st' = MarkReady(st)
        BY <2>0, <4>1 DEF MarkReady
      <4>2. CASE st' = Cutover(st)
        BY <2>0, <4>2 DEF Cutover
      <4>3. CASE st' = MarkV2FirstWrite(st)
        BY <2>0, <4>3 DEF MarkV2FirstWrite
      <4> QED BY <2>6, <4>1, <4>2, <4>3
    <3> QED BY <2>0, <3>1
  <2>7. ASSUME st' = Fail(st) PROVE FALSE
    BY <2>0, <2>7 DEF Fail
  <2>8. ASSUME st' = Recover(st) PROVE FALSE
    BY <2>0, <2>8 DEF Recover
  <2> HIDE DEF State
  <2> QED BY <2>0, <2>1, <2>2, <2>3, <2>4, <2>5, <2>6, <2>7, <2>8 DEF RowCommand
<1> QED BY <1>1, RowInvariant, PTL DEF Spec, Forward

----------------------------------------------------------------------------
(* The legacy rows, the outbox and the v2 rows *)

(* Who changes the legacy side. *)
LEMMA LegacySideSteps ==
  ASSUME [Next]_vars
  PROVE  \/ UNCHANGED legacyVars
         \/ st' = st /\ v2' = v2 /\ idmap' = idmap /\ LegacyStep
         \/ st' = st /\ v2' = v2 /\ idmap' = idmap /\ \E c \in Coordinator : Install(c)
<1> USE DEF stateVars, v2Vars
<1>1. ASSUME LegacyStep PROVE st' = st /\ v2' = v2 /\ idmap' = idmap
  BY <1>1 DEF LegacyStep, UncapturedWrite, LegacyWrite, LegacyBegin, LegacyCommit, LegacyAbort
<1>2. ASSUME NEW c \in Coordinator, Install(c) PROVE st' = st /\ v2' = v2 /\ idmap' = idmap
  BY <1>2 DEF Install
<1>3. ASSUME NEW c \in Coordinator,
             CoordinatorStep(c) \/ CutoverStep(c) \/ Abandon(c), ~Install(c)
      PROVE  UNCHANGED legacyVars
  BY <1>3 DEF CoordinatorStep, CutoverStep, Load, Start, TakeSnapshot, Backfill, BackfillOn,
     FetchPage, CommitPage, CommitPageOn, Drain, Capture, Observe, Repair, Reload, Mark,
     LoadReady, CheckGates, Flip, Abandon
<1>4. ASSUME OperatorStep \/ V2Step PROVE UNCHANGED legacyVars
  BY <1>4 DEF OperatorStep, OperatorFail, OperatorRecover, V2Step, ResolveV2, V2Write
<1>5. CASE UNCHANGED vars
  BY <1>5 DEF vars, legacyVars
<1> QED BY <1>1, <1>2, <1>3, <1>4, <1>5 DEF Next

(* The durable row changes only while no legacy transaction shares its lock. *)
LEMMA RowLocked ==
  ASSUME [Next]_vars, st' # st
  PROVE  open = {} /\ UNCHANGED legacyVars
<1> USE DEF stateVars, StateRowFree
<1>1. ASSUME NEW c \in Coordinator, CoordinatorStep(c) PROVE open = {} /\ UNCHANGED legacyVars
  BY <1>1 DEF CoordinatorStep, Load, Install, Start, TakeSnapshot, Backfill, BackfillOn,
     FetchPage, CommitPage, CommitPageOn, Drain, Capture, Observe, Repair, Reload, Mark,
     CompareAndSwap
<1>2. ASSUME NEW c \in Coordinator, CutoverStep(c) \/ Abandon(c)
      PROVE  open = {} /\ UNCHANGED legacyVars
  BY <1>2 DEF CutoverStep, LoadReady, CheckGates, Flip, Abandon, CompareAndSwap
<1>3. ASSUME OperatorStep \/ V2Step PROVE open = {} /\ UNCHANGED legacyVars
  BY <1>3 DEF OperatorStep, OperatorFail, OperatorRecover, V2Step, ResolveV2, V2Write,
     CompareAndSwap
<1>4. ASSUME LegacyStep \/ UNCHANGED vars PROVE FALSE
  BY <1>4 DEF LegacyStep, UncapturedWrite, LegacyWrite, LegacyBegin, LegacyCommit, LegacyAbort,
     vars
<1> QED BY <1>1, <1>2, <1>3, <1>4 DEF Next

(* Who changes the v2 side. *)
LEMMA V2SideSteps ==
  ASSUME [Next]_vars
  PROVE  \/ v2' = v2 /\ idmap' = idmap
         \/ \E c \in Coordinator : Backfill(c) \/ CommitPage(c) \/ Repair(c)
         \/ \E e \in Entity, epoch \in admitted, content \in {Edited, Absent} :
               V2Write(e, epoch, content)
<1> USE DEF v2Vars
<1>1. ASSUME NEW c \in Coordinator, CoordinatorStep(c), v2' # v2 \/ idmap' # idmap
      PROVE  Backfill(c) \/ CommitPage(c) \/ Repair(c)
  BY <1>1 DEF CoordinatorStep, Load, Install, Start, TakeSnapshot, FetchPage, Drain, Capture,
     Observe, Reload, Mark
<1>2. ASSUME NEW c \in Coordinator, CutoverStep(c) \/ Abandon(c)
      PROVE  v2' = v2 /\ idmap' = idmap
  BY <1>2 DEF CutoverStep, LoadReady, CheckGates, Flip, Abandon
<1>3. ASSUME LegacyStep \/ OperatorStep \/ ResolveV2 \/ UNCHANGED vars
      PROVE  v2' = v2 /\ idmap' = idmap
  BY <1>3 DEF LegacyStep, UncapturedWrite, LegacyWrite, LegacyBegin, LegacyCommit, LegacyAbort,
     OperatorStep, OperatorFail, OperatorRecover, ResolveV2, vars
<1> QED BY <1>1, <1>2, <1>3 DEF Next, V2Step

LEMMA NextFence == RowInv /\ FenceHolds /\ [Next]_vars => FenceHolds'
<1> SUFFICES ASSUME RowInv, FenceHolds, [Next]_vars PROVE FenceHolds'
  OBVIOUS
<1> USE DEF FenceHolds, legacyVars, stateVars
<1>1. CASE UNCHANGED legacyVars
  <2>1. CASE st' = st
    BY <1>1, <2>1
  <2>2. CASE st' # st
    BY <1>1, <2>2, RowLocked
  <2> QED BY <2>1, <2>2
<1>2. CASE st' = st /\ LegacyStep
  BY <1>2 DEF LegacyStep, UncapturedWrite, LegacyWrite, LegacyBegin, LegacyCommit, LegacyAbort,
     TriggerAccepts
<1>3. ASSUME NEW c \in Coordinator, Install(c), st' = st PROVE FenceHolds'
  BY <1>3 DEF Install
<1> QED BY <1>1, <1>2, <1>3, LegacySideSteps

(* The phases behind the drain refuse legacy writes. *)
LEMMA ClosedPhases ==
  ASSUME RowInv, st.phase \in {"draining", "ready", "cutover"}
  PROVE  ~st.accept
BY DEF RowInv, StateValid, ValidState

LEMMA NextCutoverFinal ==
  RowInv /\ FenceHolds /\ CutoverIsFinal /\ [Next]_vars => CutoverIsFinal'
<1> SUFFICES ASSUME RowInv, FenceHolds, CutoverIsFinal, [Next]_vars,
                    st'.phase \in {"draining", "ready", "cutover"}
             PROVE  open' = {} /\ Head(outbox)' = st'.cutover
  BY DEF CutoverIsFinal
<1>0. st \in State
  BY DEF RowInv, TypeOK
<1>1. CASE st' = st
  <2>1. open = {} /\ Head(outbox) = st.cutover /\ ~st.accept
    BY <1>1, ClosedPhases DEF CutoverIsFinal
  <2>2. CASE UNCHANGED legacyVars
    BY <1>1, <2>1, <2>2 DEF legacyVars
  <2>3. CASE LegacyStep
    BY <1>1, <2>1, <2>3 DEF LegacyStep, UncapturedWrite, LegacyWrite, LegacyBegin, TriggerAccepts
  <2>4. ASSUME NEW c \in Coordinator, Install(c) PROVE open' = open /\ outbox' = outbox
    BY <2>4 DEF Install
  <2> QED BY <1>1, <2>1, <2>2, <2>3, <2>4, LegacySideSteps
<1>2. CASE st' # st
  <2>1. open = {} /\ open' = open /\ outbox' = outbox
    BY <1>2, RowLocked DEF legacyVars
  <2>2. \/ st.phase \in {"draining", "ready", "cutover"} /\ st'.cutover = st.cutover
        \/ st'.cutover = Head(outbox)
    <3> USE DEF State
    <3>1. ASSUME NEW m \in Migration, st' = StartBackfill(st, m) PROVE FALSE
      BY <1>0, <3>1 DEF StartBackfill
    <3>2. ASSUME NEW w \in Nat, st' = BeginCatchingUp(st, w) PROVE FALSE
      BY <1>0, <3>2 DEF BeginCatchingUp
    <3>3. ASSUME NEW w \in Nat, ReplayPhase(st, w),
                 st' = [st EXCEPT !.watermark = w, !.revision = @ + 1]
          PROVE  st.phase = "draining" /\ st'.cutover = st.cutover
      BY <1>0, <3>3 DEF ReplayPhase
    <3>4. ASSUME st' = BeginDrain(st, Head(outbox)) PROVE st'.cutover = Head(outbox)
      BY <1>0, <3>4 DEF BeginDrain
    <3>5. ASSUME CanMarkReady(st), st' = MarkReady(st)
          PROVE  st.phase = "draining" /\ st'.cutover = st.cutover
      BY <1>0, <3>5 DEF CanMarkReady, MarkReady
    <3>6. ASSUME NEW m, CanCutover(st, m), st' = Cutover(st)
          PROVE  st.phase = "ready" /\ st'.cutover = st.cutover
      BY <1>0, <3>6 DEF CanCutover, Cutover
    <3>7. ASSUME st' = Fail(st) PROVE FALSE
      <4>1. st'.phase = "failed"
        BY <1>0, <3>7 DEF Fail
      <4> QED BY <1>0, <4>1
    <3>9. ASSUME st' = Recover(st) PROVE FALSE
      <4>1. st'.phase = "idle"
        BY <1>0, <3>9 DEF Recover
      <4> QED BY <1>0, <4>1
    <3>8. ASSUME st' = MarkV2FirstWrite(st)
          PROVE  st.phase = st'.phase /\ st'.cutover = st.cutover
      BY <1>0, <3>8 DEF MarkV2FirstWrite
    <3> HIDE DEF State
    <3> QED
      BY <1>2, <3>1, <3>2, <3>3, <3>4, <3>5, <3>6, <3>7, <3>8, <3>9,
         EveryStepIsARowCommand
      DEF RowCommand
  <2> QED BY <2>1, <2>2 DEF CutoverIsFinal
<1> QED BY <1>1, <1>2

LEMMA NextBaselined == RowInv /\ Baselined /\ [Next]_vars => Baselined'
<1> SUFFICES ASSUME RowInv, Baselined, [Next]_vars PROVE Baselined'
  OBVIOUS
<1>0. TypeOK
  BY DEF RowInv
<1>1. CASE UNCHANGED legacyVars
  BY <1>1 DEF legacyVars, Baselined
<1>2. CASE LegacyStep
  <2>1. ASSUME NEW e \in Entity, UncapturedWrite(e) PROVE Baselined'
    BY <2>1 DEF UncapturedWrite, Baselined
  <2>2. ASSUME NEW ev, ev.ver > 0, triggers' = triggers, legacy' = Committed(ev) PROVE Baselined'
    BY <1>0, <2>2 DEF Committed, Baselined, TypeOK, Row
  <2>3. ASSUME NEW e \in Entity, NEW live \in BOOLEAN, LegacyWrite(e, live) PROVE Baselined'
    <3>1. TriggerEvent(e, live).ver > 0
      BY <1>0 DEF TriggerEvent, TypeOK, Row
    <3> QED BY <2>2, <2>3, <3>1 DEF LegacyWrite
  <2>4. ASSUME NEW ev \in open, LegacyCommit(ev) PROVE Baselined'
    <3>1. ev.ver > 0
      BY <1>0 DEF TypeOK, Event
    <3> QED BY <2>2, <2>4, <3>1 DEF LegacyCommit
  <2>5. ASSUME legacy' = legacy, triggers' = triggers PROVE Baselined'
    BY <2>5 DEF Baselined
  <2> QED BY <1>2, <2>1, <2>3, <2>4, <2>5 DEF LegacyStep, LegacyBegin, LegacyAbort
<1>3. ASSUME NEW c \in Coordinator, Install(c) PROVE Baselined'
  BY <1>0, <1>3 DEF Install, Baselined, TypeOK, Row
<1> QED BY <1>1, <1>2, <1>3, LegacySideSteps

(* What the id map says a v2 row holds. *)
Told(map) == IF map.deleted \/ map.ver = 0 THEN Absent ELSE map.ver

(* Backfill, replay and repair each keep the id map and the v2 rows in step. *)
LEMMA NextMap == RowInv /\ MapTruthful /\ [Next]_vars => MapTruthful'
<1> SUFFICES ASSUME RowInv, MapTruthful, [Next]_vars PROVE MapTruthful'
  OBVIOUS
<1>0. TypeOK /\ st \in State
  BY DEF RowInv, TypeOK
<1>t. MapTruthful <=> (~st.firstWrite => \A e \in Entity : v2[e] = Told(idmap[e]))
  BY DEF MapTruthful, Told
<1>u. MapTruthful' <=> (~st'.firstWrite => \A e \in Entity : v2'[e] = Told(idmap'[e]))
  BY DEF MapTruthful, Told
<1>f. st.firstWrite => st'.firstWrite
  BY EveryStepIsARowCommand, RowCommandEffects DEF RowInv, StateValid
<1>1. CASE v2' = v2 /\ idmap' = idmap
  BY <1>1, <1>f, <1>t, <1>u
<1>2. ASSUME NEW e \in Entity, NEW epoch \in admitted, NEW content \in {Edited, Absent},
             V2Write(e, epoch, content)
      PROVE  MapTruthful'
  <2>1. ServingV2(st)
    BY <1>2 DEF V2Write, Fenced, RowInv, EpochsAgree, EpochsAdmitted
  <2>2. st'.firstWrite
    BY <1>0, <1>2, <2>1 DEF V2Write, MarkV2FirstWrite, ServingV2, State
  <2> QED BY <2>2, <1>u
<1>3. ASSUME NEW c \in Coordinator, Backfill(c) PROVE MapTruthful'
  <2>1. PICK view \in Views : BackfillOn(c, view)
    <3>1. co[c] \in Process
      BY <1>0 DEF TypeOK
    <3> QED BY <1>0, <1>3, <3>1, ViewType, ProcessFields DEF Backfill, At
  <2>2. ASSUME NEW e \in Entity, v2[e] = Told(idmap[e]) PROVE v2'[e] = Told(idmap'[e])
    BY <2>1, <2>2 DEF BackfillOn, Writable, WriteProjection, Told, Views, Row
  <2> QED BY <1>f, <1>t, <1>u, <2>2
<1>4. ASSUME NEW c \in Coordinator, CommitPage(c) PROVE MapTruthful'
  <2> DEFINE page == co[c].page
  <2>1. page.events \in SUBSET Event
    <3>1. co[c].pc \in {"commit", "replay"}
      BY <1>4 DEF CommitPage, At
    <3> QED BY <1>0, <3>1, HeldPage DEF Page
  <2>2. PICK view : CommitPageOn(c, view)
    BY <1>4 DEF CommitPage
  <2>3. ASSUME NEW ev \in Event, NEW map \in Mapping
        PROVE  Applied(ev, Told(map), map) = Told(Advanced(ev, map))
    BY DEF Event, Mapping, Applied, Advanced, Told, Absent
  <2>4. ASSUME NEW e \in Entity, v2[e] = Told(idmap[e]) PROVE v2'[e] = Told(idmap'[e])
    <3>1. CASE Touches(page.events, e)
      <4>1. EventOf(page.events, e) \in Event
        BY <2>1, <3>1, EventOfProperties DEF Last
      <4>2. idmap[e] \in Mapping
        BY <1>0 DEF TypeOK
      <4>3. /\ v2'[e] = Applied(EventOf(page.events, e), v2[e], idmap[e])
            /\ idmap'[e] = Advanced(EventOf(page.events, e), idmap[e])
        BY <2>2, <3>1 DEF CommitPageOn
      <4> QED BY <2>3, <2>4, <4>1, <4>2, <4>3
    <3>2. CASE ~Touches(page.events, e)
      BY <2>2, <2>4, <3>2 DEF CommitPageOn
    <3> QED BY <3>1, <3>2
  <2> QED BY <1>f, <1>t, <1>u, <2>4
<1>5. ASSUME NEW c \in Coordinator, Repair(c) PROVE MapTruthful'
  <2> DEFINE source == co[c].source
  <2>1. source \in Source
    <3>1. co[c] \in Process
      BY <1>0 DEF TypeOK
    <3> QED BY <1>5, <3>1, ProcessFields DEF Repair, At
  <2>2. ASSUME NEW e \in Entity, v2[e] = Told(idmap[e]) PROVE v2'[e] = Told(idmap'[e])
    <3>1. CASE e \in Missing(source)
      <4>1. source[e] # Absent /\ source[e] \in Nat /\ e \notin Extra(source)
        BY <2>1, <3>1 DEF Missing, Extra, Source
      <4>2. idmap[e] = [ver |-> source[e], deleted |-> FALSE]
        BY <1>5, <3>1, <4>1 DEF Repair
      <4>3. v2'[e] = source[e] /\ idmap'[e] = idmap[e]
        BY <1>5, <3>1, <4>1 DEF Repair
      <4> QED BY <4>1, <4>2, <4>3 DEF Told, Absent
    <3>2. CASE e \notin Missing(source) /\ e \in Extra(source)
      BY <1>5, <3>2 DEF Repair, Told
    <3>3. CASE e \notin Missing(source) /\ e \notin Extra(source)
      BY <1>5, <2>2, <3>3 DEF Repair
    <3> QED BY <3>1, <3>2, <3>3
  <2> QED BY <1>f, <1>t, <1>u, <2>2
<1> QED BY <1>1, <1>2, <1>3, <1>4, <1>5, V2SideSteps

LEMMA InitData == Init => DataInv
<1> SUFFICES ASSUME Init PROVE DataInv
  OBVIOUS
<1>1. PICK model \in Model : st = InitialState(model)
  BY DEF Init
<1>2. CutoverIsFinal
  BY <1>1 DEF CutoverIsFinal, InitialState
<1>3. MapTruthful
  BY DEF Init, MapTruthful, NoMapping, Absent
<1> QED BY <1>2, <1>3 DEF Init, DataInv, FenceHolds, Baselined

LEMMA DataInvariant == Spec => [](RowInv /\ DataInv)
<1>1. RowInv /\ DataInv /\ [Next]_vars => RowInv' /\ DataInv'
  BY NextRow, NextFence, NextCutoverFinal, NextBaselined, NextMap DEF DataInv
<1> QED BY <1>1, InitRow, InitData, PTL DEF Spec

(* Behind the fence the outbox is complete: the cutover sequence recorded by *)
(* drain_store.go is the last one.                                           *)
THEOREM CutoverAlwaysFinal == Spec => []CutoverIsFinal
<1>1. DataInv => CutoverIsFinal
  BY DEF DataInv
<1> QED BY <1>1, DataInvariant, PTL

(* The id map always tells what the v2 rows hold, until a v2 client writes.  *)
THEOREM MapAlwaysTruthful == Spec => []MapTruthful
<1>1. DataInv => MapTruthful
  BY DEF DataInv
<1> QED BY <1>1, DataInvariant, PTL

----------------------------------------------------------------------------
(* The switch to v2 *)

(* A process is about to flip only right after it checked the gates. *)
LEMMA FlipReached ==
  ASSUME TypeOK, [Next]_vars, NEW c \in Coordinator, co'[c].pc = "flip"
  PROVE  co'[c] = co[c] \/ CheckGates(c)
<1>1. ASSUME NEW r, Goto(c, r) PROVE co'[c] = r
  BY <1>1 DEF Goto, TypeOK
<1>2. ASSUME CoordinatorStep(c) \/ CutoverStep(c) \/ Abandon(c), ~CheckGates(c) PROVE FALSE
  <2>0. co[c] \in Process
    BY DEF TypeOK
  <2>1. CASE Load(c)
    BY <1>1, <2>1 DEF Load, PhaseEntry
  <2>2. CASE Install(c)
    <3>1. co[c].pc = "prepare" /\ co'[c] = [co[c] EXCEPT !.pc = "start"]
      BY <1>1, <2>2 DEF Install, At
    <3>2. co'[c] = [pc |-> "start", st |-> co[c].st]
      BY <2>0, <3>1, ProcessMoves
    <3> QED BY <3>2
  <2>3. CASE TakeSnapshot(c) \/ FetchPage(c)
    BY <1>1, <2>3 DEF TakeSnapshot, FetchPage
  <2>4. CASE Capture(c) \/ Observe(c) \/ Reload(c) \/ LoadReady(c)
    BY <1>1, <2>4 DEF Capture, Observe, Reload, LoadReady
  <2>5. CASE Done(c)
    BY <1>1, <2>5 DEF Done, Idle
  <2> QED
    BY <1>2, <2>1, <2>2, <2>3, <2>4, <2>5
    DEF CoordinatorStep, CutoverStep, Start, Backfill, BackfillOn, CommitPage, CommitPageOn,
        Drain, Repair, Mark, Flip, Abandon
<1>3. ASSUME NEW d \in Coordinator, d # c, CoordinatorStep(d) \/ CutoverStep(d) \/ Abandon(d)
      PROVE  co'[c] = co[c]
  <2>1. \E r : Goto(d, r)
    BY <1>3, ProcessSteps
  <2> QED BY <1>3, <2>1 DEF Goto, TypeOK
<1>4. ASSUME LegacyStep \/ OperatorStep \/ V2Step \/ UNCHANGED vars PROVE co' = co
  BY <1>4 DEF LegacyStep, UncapturedWrite, LegacyWrite, LegacyBegin, LegacyCommit, LegacyAbort,
     OperatorStep, OperatorFail, OperatorRecover, V2Step, ResolveV2, V2Write, vars
<1> QED BY <1>2, <1>3, <1>4 DEF Next

(* The gates of the cutover pass only when the two models hold the same.     *)
LEMMA GatesMatch ==
  ASSUME RowInv, DataInv, NEW c \in Coordinator, CheckGates(c), ~st.firstWrite
  PROVE  Match /\ triggers
<1> DEFINE source == [e \in Entity |-> LegacyContent(legacy[e])]
<1>1. triggers /\ CanCapture /\ Reconciled(source)
  BY DEF CheckGates
<1>2. ASSUME NEW e \in Entity PROVE v2[e] = source[e]
  <2>0. legacy[e] \in Row
    BY DEF RowInv, TypeOK
  <2>1. /\ ~(source[e] # Absent /\ v2[e] = Absent)
        /\ ~(source[e] # Absent /\ v2[e] \notin {Absent, source[e]})
        /\ ~(e \in Mapped /\ source[e] = Absent /\ v2[e] # Absent)
    <3> HIDE DEF source
    <3> QED BY <1>1 DEF Reconciled, Missing, Extra, Unsafe
  <2>2. CASE source[e] # Absent
    BY <2>1, <2>2
  <2>3. CASE source[e] = Absent /\ e \in Mapped
    BY <2>1, <2>3
  <2>4. CASE source[e] = Absent /\ e \notin Mapped
    <3>1. v2[e] = Told(idmap[e]) /\ idmap[e] \in Mapping
      BY DEF DataInv, MapTruthful, Told, RowInv, TypeOK
    <3>2. ~(idmap[e].ver > 0 /\ (idmap[e].deleted => v2[e] # Absent))
      BY <2>4 DEF Mapped
    <3>3. v2[e] = Absent
      BY <3>1, <3>2 DEF Told, Mapping
    <3> QED BY <2>4, <3>3
  <2> QED BY <2>2, <2>3, <2>4
<1> QED BY <1>1, <1>2 DEF Match

(* Whatever is frozen after a step was frozen before it, or has just passed  *)
(* the gates on the current row.                                             *)
LEMMA FrozenBefore ==
  ASSUME RowInv, [Next]_vars, Frozen'
  PROVE  \/ Frozen
         \/ \E c \in Coordinator : CheckGates(c) /\ co[c].st = st /\ CanCutover(st, MigrationOf[c])
<1>1. TypeOK /\ TypeOK' /\ st \in State /\ st' \in State
  BY NextType DEF RowInv, TypeOK
<1>2. st' # st => st'.revision > st.revision
  BY EveryStepIsARowCommand, RowCommandEffects DEF RowInv, StateValid
<1>3. ASSUME st'.phase = "cutover", ~st'.firstWrite PROVE Frozen
  <2>1. CASE st' = st
    BY <1>3, <2>1 DEF Frozen
  <2>2. CASE st' # st
    <3> USE DEF State
    <3>1. ASSUME NEW m \in Migration, st' = StartBackfill(st, m) PROVE FALSE
      BY <1>1, <1>3, <3>1 DEF StartBackfill
    <3>2. ASSUME NEW w \in Nat, st' = BeginCatchingUp(st, w) PROVE FALSE
      BY <1>1, <1>3, <3>2 DEF BeginCatchingUp
    <3>3. ASSUME NEW w \in Nat, ReplayPhase(st, w),
                 st' = [st EXCEPT !.watermark = w, !.revision = @ + 1]
          PROVE  FALSE
      BY <1>1, <1>3, <3>3 DEF ReplayPhase
    <3>4. ASSUME st' = BeginDrain(st, Head(outbox)) PROVE FALSE
      BY <1>1, <1>3, <3>4 DEF BeginDrain
    <3>5. ASSUME st' = MarkReady(st) PROVE FALSE
      BY <1>1, <1>3, <3>5 DEF MarkReady
    <3>6. ASSUME NEW c \in Coordinator, co[c].pc = "flip", co[c].st = st PROVE Frozen
      BY <3>6 DEF Frozen
    <3>7. ASSUME st' = Fail(st) PROVE FALSE
      <4>1. st'.phase = "failed"
        BY <1>1, <3>7 DEF Fail
      <4> QED BY <1>3, <4>1
    <3>9. ASSUME st' = Recover(st) PROVE FALSE
      <4>1. st'.phase = "idle"
        BY <1>1, <3>9 DEF Recover
      <4> QED BY <1>3, <4>1
    <3>8. ASSUME ServingV2(st), st' = MarkV2FirstWrite(st) PROVE FALSE
      BY <1>1, <1>3, <2>2, <3>8 DEF MarkV2FirstWrite, ServingV2
    <3> HIDE DEF State
    <3> QED
      BY <2>2, <3>1, <3>2, <3>3, <3>4, <3>5, <3>6, <3>7, <3>8, <3>9,
         EveryStepIsARowCommand
      DEF RowCommand
  <2> QED BY <2>1, <2>2
<1>4. ASSUME NEW c \in Coordinator, co'[c].pc = "flip", co'[c].st.revision = st'.revision
      PROVE  \/ Frozen
             \/ CheckGates(c) /\ co[c].st = st /\ CanCutover(st, MigrationOf[c])
  <2>1. CASE co'[c] = co[c]
    <3>1. co[c].pc \in Holders
      BY <1>4, <2>1 DEF Holders
    <3>2. co[c].st \in State /\ co[c].st.revision <= st.revision
      BY <1>1, <3>1, HeldRow DEF RowInv, RowsRemembered
    <3>3. st' = st
      BY <1>1, <1>2, <1>4, <2>1, <3>2 DEF State
    <3> QED BY <1>4, <2>1, <3>3 DEF Frozen
  <2>2. CASE CheckGates(c)
    <3>1. st' = st /\ co[c].pc = "gates" /\ CanCutover(co[c].st, MigrationOf[c])
      BY <2>2 DEF CheckGates, At, stateVars
    <3>2. co'[c] = [pc |-> "flip", st |-> co[c].st]
      <4>1. co'[c] = [co[c] EXCEPT !.pc = "flip"] /\ co[c] \in Process
        BY <1>1, <2>2 DEF CheckGates, Goto, TypeOK
      <4> QED BY <3>1, <4>1, ProcessMoves
    <3>3. co[c].st.revision = st.revision
      BY <1>4, <3>1, <3>2
    <3>4. co[c].st = st
      BY <3>1, <3>3 DEF RowInv, RowsRemembered, Holders
    <3> QED BY <2>2, <3>1, <3>4
  <2> QED BY <1>1, <1>4, <2>1, <2>2, FlipReached
<1> QED BY <1>3, <1>4 DEF Frozen

(* In a frozen state the fence is closed, no replay can run and no legacy    *)
(* transaction is open.                                                      *)
LEMMA FrozenIsClosed ==
  ASSUME RowInv, DataInv, Frozen
  PROVE  /\ st.phase \in {"ready", "cutover"} /\ ~st.accept /\ open = {} /\ ~st.firstWrite
<1>1. st.phase \in {"ready", "cutover"} /\ ~st.firstWrite
  <2>1. CASE st.phase = "cutover" /\ ~st.firstWrite
    BY <2>1
  <2>2. ASSUME NEW c \in Coordinator, co[c].pc = "flip", co[c].st.revision = st.revision
        PROVE  st.phase = "ready" /\ ~st.firstWrite
    <3>1. co[c].st = st
      BY <2>2 DEF RowInv, RowsRemembered, Holders
    <3>2. CanCutover(st, MigrationOf[c])
      BY <2>2, <3>1 DEF RowInv, GuardsRemembered
    <3> QED BY <3>2 DEF CanCutover, ValidState, ServingV2
  <2> QED BY <2>1, <2>2 DEF Frozen
<1> QED BY <1>1, ClosedPhases DEF DataInv, CutoverIsFinal

(* A repair of data that already agrees changes nothing. *)
LEMMA RepairIsIdle ==
  ASSUME RowInv, Match, NEW c \in Coordinator, Repair(c)
  PROVE  v2' = v2
<1> DEFINE source == co[c].source
<1>0. v2 \in [Entity -> Content] /\ legacy \in [Entity -> Row]
  BY DEF RowInv, TypeOK
<1>1. ASSUME NEW e \in Entity PROVE e \notin Missing(source)
  <2> SUFFICES ASSUME source[e] # Absent PROVE v2[e] # Absent
    BY DEF Missing
  <2>1. Observable(source)
    BY DEF Repair
  <2>2. legacy[e] = [ver |-> source[e], live |-> TRUE]
    BY <2>1 DEF Observable
  <2>3. v2[e] = source[e]
    BY <2>2 DEF Match, LegacyContent
  <2> QED BY <2>3
<1>2. ASSUME NEW e \in Entity PROVE e \notin Extra(source)
  BY DEF Repair, Extra, Match, LegacyContent
<1>3. v2' = [e \in Entity |-> v2[e]]
  BY <1>1, <1>2 DEF Repair
<1> QED BY <1>0, <1>3

LEMMA NextFrozen ==
  RowInv /\ DataInv /\ FrozenMatch /\ [Next]_vars => FrozenMatch'
<1> SUFFICES ASSUME RowInv, DataInv, FrozenMatch, [Next]_vars, Frozen'
             PROVE  Match' /\ triggers'
  BY DEF FrozenMatch
<1>0. TypeOK /\ st \in State /\ legacy \in [Entity -> Row]
  BY DEF RowInv, TypeOK
<1>1. ASSUME Match, legacy' = legacy, v2' = v2 PROVE Match'
  BY <1>1 DEF Match
<1>2. ASSUME NEW c \in Coordinator, CheckGates(c), co[c].st = st, CanCutover(st, MigrationOf[c])
      PROVE  Match' /\ triggers'
  <2>1. ~st.firstWrite
    BY <1>2 DEF CanCutover, ValidState, ServingV2
  <2>2. Match /\ triggers
    BY <1>2, <2>1, GatesMatch
  <2> QED BY <1>1, <1>2, <2>2 DEF CheckGates, legacyVars, v2Vars
<1>3. CASE Frozen
  <2>1. Match /\ triggers /\ st.phase \in {"ready", "cutover"} /\ ~st.accept /\ open = {}
        /\ ~st.firstWrite
    BY <1>3, FrozenIsClosed DEF FrozenMatch
  <2>2. legacy' = legacy /\ triggers'
    <3>1. CASE UNCHANGED legacyVars
      BY <2>1, <3>1 DEF legacyVars
    <3>2. CASE LegacyStep
      BY <2>1, <3>2 DEF LegacyStep, UncapturedWrite, LegacyWrite, LegacyBegin, TriggerAccepts
    <3>3. ASSUME NEW c \in Coordinator, Install(c) PROVE legacy' = legacy /\ triggers'
      <4>1. legacy' = [e \in Entity |-> legacy[e]]
        BY <1>0, <2>1, <3>3 DEF Install, DataInv, Baselined, Row
      <4> QED BY <1>0, <3>3, <4>1 DEF Install
    <3> QED BY <3>1, <3>2, <3>3, LegacySideSteps
  <2>3. v2' = v2
    <3>1. ASSUME NEW c \in Coordinator, Backfill(c) PROVE FALSE
      BY <2>1, <3>1 DEF Backfill, BackfillOn
    <3>2. ASSUME NEW c \in Coordinator, CommitPage(c) PROVE FALSE
      BY <2>1, <3>2 DEF CommitPage, CommitPageOn, PageCurrent, ReplayPhase
    <3>3. ASSUME NEW c \in Coordinator, Repair(c) PROVE v2' = v2
      BY <2>1, <3>3, RepairIsIdle
    <3>4. ASSUME NEW e \in Entity, NEW epoch \in admitted, NEW content \in {Edited, Absent},
                 V2Write(e, epoch, content)
          PROVE  FALSE
      <4>1. st.model = "v2"
        BY <3>4 DEF V2Write, Fenced, RowInv, EpochsAgree, EpochsAdmitted, ServingV2
      <4>2. st' = [st EXCEPT !.firstWrite = TRUE, !.revision = @ + 1] /\ co' = co
        BY <2>1, <3>4, <4>1 DEF V2Write, MarkV2FirstWrite
      <4>3. st'.firstWrite /\ st'.revision = st.revision + 1
        BY <1>0, <4>2 DEF State
      <4>4. PICK c \in Coordinator : co[c].pc = "flip" /\ co[c].st.revision = st.revision + 1
        BY <4>2, <4>3 DEF Frozen
      <4>5. co[c].pc \in Holders
        BY <4>4 DEF Holders
      <4>6. co[c].st \in State /\ co[c].st.revision <= st.revision
        BY <1>0, <4>5, HeldRow DEF RowInv, RowsRemembered
      <4> QED BY <1>0, <4>4, <4>6 DEF State
    <3> QED BY <3>1, <3>2, <3>3, <3>4, V2SideSteps
  <2> QED BY <1>1, <2>1, <2>2, <2>3
<1> QED BY <1>2, <1>3, FrozenBefore

LEMMA InitFrozen == Init => FrozenMatch
<1> SUFFICES ASSUME Init PROVE ~Frozen
  BY DEF FrozenMatch
<1>1. PICK model \in Model : st = InitialState(model)
  BY DEF Init
<1>2. \A c \in Coordinator : co[c].pc = "idle"
  BY DEF Init, Idle
<1> QED BY <1>1, <1>2 DEF Frozen, InitialState

LEMMA FrozenInvariant == Spec => [](RowInv /\ DataInv /\ FrozenMatch)
<1>1. RowInv /\ DataInv /\ FrozenMatch /\ [Next]_vars => FrozenMatch'
  BY NextFrozen
<1> QED BY <1>1, InitFrozen, DataInvariant, PTL DEF Spec

(* Right after the switch, and until the first v2 write, v2 holds exactly    *)
(* the frozen legacy rows: final_cutover_observer.go, the closed fence and   *)
(* the compare-and-swap of cutover_service.go suffice, whatever other        *)
(* processes, even coordinators of another migration, still do.              *)
THEOREM CutoverAlwaysExact == Spec => []CutoverExact
<1>1. FrozenMatch => CutoverExact
  BY DEF FrozenMatch, Frozen, CutoverExact
<1> QED BY <1>1, FrozenInvariant, PTL

----------------------------------------------------------------------------
(* Who writes what v2 serves, with any number of processes *)

(* Only the cutover service switches the model to v2. *)
LEMMA SwitchIsFlip ==
  ASSUME RowInv, [Next]_vars, st.model = "legacy", st'.model = "v2"
  PROVE  \E c \in Coordinator : Flip(c)
<1> USE DEF State
<1>0. st \in State
  BY DEF RowInv, TypeOK
<1>1. ASSUME NEW c \in Coordinator, Start(c) PROVE FALSE
  <2>1. co[c].pc \in Holders
    BY <1>1 DEF Start, At, Holders
  <2>2. st' = StartBackfill(st, MigrationOf[c])
    BY <1>1, <2>1, SwapOnCurrentRow DEF Start, RowInv
  <2> QED BY <1>0, <2>2 DEF StartBackfill
<1>2. ASSUME NEW c \in Coordinator, Mark(c) PROVE FALSE
  <2>1. co[c].pc \in Holders
    BY <1>2 DEF Mark, At, Holders
  <2>2. st' = MarkReady(st)
    BY <1>2, <2>1, SwapOnCurrentRow DEF Mark, RowInv
  <2> QED BY <1>0, <2>2 DEF MarkReady
<1>3. ASSUME NEW c \in Coordinator, Backfill(c) PROVE FALSE
  BY <1>0, <1>3 DEF Backfill, BackfillOn, BeginCatchingUp
<1>4. ASSUME NEW c \in Coordinator, CommitPage(c) PROVE FALSE
  BY <1>0, <1>4 DEF CommitPage, CommitPageOn
<1>5. ASSUME NEW c \in Coordinator, Drain(c) PROVE FALSE
  BY <1>0, <1>5 DEF Drain, BeginDrain
<1>6. ASSUME OperatorStep PROVE FALSE
  <2>1. CASE OperatorFail
    <3>1. st' = Fail(st)
      BY <1>6, <2>1 DEF OperatorFail, CompareAndSwap
    <3>2. st'.model = st.model
      BY <1>0, <3>1 DEF Fail
    <3> QED BY <3>2
  <2>2. CASE OperatorRecover
    <3>1. st' = Recover(st)
      BY <1>6, <2>2 DEF OperatorRecover, CompareAndSwap
    <3>2. st'.model = "legacy"
      BY <1>0, <3>1 DEF Recover
    <3> QED BY <3>2
  <2> QED BY <1>6, <2>1, <2>2 DEF OperatorStep
<1>7. ASSUME V2Step PROVE FALSE
  <2>1. MarkV2FirstWrite(st) = st
    BY DEF MarkV2FirstWrite
  <2> QED BY <1>7, <2>1 DEF V2Step, ResolveV2, V2Write, stateVars
<1>8. ASSUME LegacyStep \/ UNCHANGED vars PROVE FALSE
  BY <1>8 DEF LegacyStep, UncapturedWrite, LegacyWrite, LegacyBegin, LegacyCommit, LegacyAbort,
     stateVars, vars
<1>9. ASSUME NEW c \in Coordinator, CoordinatorStep(c) \/ CutoverStep(c) \/ Abandon(c)
      PROVE  Flip(c)
  BY <1>1, <1>2, <1>3, <1>4, <1>5, <1>9
  DEF CoordinatorStep, CutoverStep, Load, Install, TakeSnapshot, FetchPage, Capture, Observe,
      Repair, Reload, LoadReady, CheckGates, Abandon, stateVars
<1> QED BY <1>6, <1>7, <1>8, <1>9 DEF Next

(* A resting process starts nothing while v2 serves. *)
LEMMA RestingStays ==
  ASSUME RowInv, st.model = "v2", NEW c \in Coordinator, co[c].pc = "idle",
         CoordinatorStep(c) \/ CutoverStep(c) \/ Abandon(c)
  PROVE  FALSE
<1>1. st.phase # "ready"
  BY DEF RowInv, StateValid, ValidState
<1> QED
  BY <1>1
  DEF CoordinatorStep, CutoverStep, Abandon, Load, Install, Start, TakeSnapshot, Backfill,
      FetchPage, CommitPage, Drain, Capture, Observe, Repair, Reload, Mark, LoadReady,
      CheckGates, Flip, At

(* In a workspace that has been v2 from the start no migration ever runs. *)
NativeRests ==
  st.model = "v2" /\ st.phase = "idle" => \A c \in Coordinator : co[c].pc = "idle"

LEMMA NextNativeRests == RowInv /\ NativeRests /\ [Next]_vars => NativeRests'
<1> SUFFICES ASSUME RowInv, NativeRests, [Next]_vars, st'.model = "v2", st'.phase = "idle"
             PROVE  \A c \in Coordinator : co'[c].pc = "idle"
  BY DEF NativeRests
<1>0. st \in State /\ st.model \in Model
  BY DEF RowInv, TypeOK, State
<1>1. st.model = "v2"
  <2>1. ASSUME NEW c \in Coordinator, Flip(c) PROVE FALSE
    <3>1. co[c].pc \in Holders
      BY <2>1 DEF Flip, At, Holders
    <3>2. st' = Cutover(st)
      BY <2>1, <3>1, SwapOnCurrentRow DEF Flip, RowInv
    <3> QED BY <1>0, <3>2 DEF Cutover, State
  <2> QED BY <1>0, <2>1, SwitchIsFlip DEF Model
<1>2. st.phase = "idle"
  <2> USE DEF State
  <2>1. CASE st' = st
    BY <2>1
  <2>2. CASE st' = MarkV2FirstWrite(st)
    BY <1>0, <2>2 DEF MarkV2FirstWrite
  <2>3. CASE st' = Recover(st)
    BY <1>0, <2>3 DEF Recover
  <2> HIDE DEF State
  <2>4. st.phase \in {"idle", "cutover"}
    BY <1>0, <1>1 DEF RowInv, StateValid, ValidState, State, Phase
  <2> QED
    BY <1>1, <2>1, <2>2, <2>3, <2>4, EveryStepIsARowCommand
    DEF RowCommand, CanStartBackfill, ReplayPhase, CanBeginDrain, CanMarkReady, CanCutover, CanFail
<1>3. \A d \in Coordinator : co[d].pc = "idle"
  BY <1>1, <1>2 DEF NativeRests
<1>4. ASSUME NEW d \in Coordinator, CoordinatorStep(d) \/ CutoverStep(d) \/ Abandon(d)
      PROVE  FALSE
  BY <1>1, <1>3, <1>4, RestingStays
<1>5. CASE LegacyStep \/ OperatorStep \/ V2Step \/ UNCHANGED vars
  <2>1. co' = co
    BY <1>5 DEF LegacyStep, UncapturedWrite, LegacyWrite, LegacyBegin, LegacyCommit,
       LegacyAbort, OperatorStep, OperatorFail, OperatorRecover, V2Step, ResolveV2, V2Write, vars
  <2> QED BY <1>3, <2>1
<1> QED BY <1>4, <1>5 DEF Next

ServingInv == RowInv /\ DataInv /\ FrozenMatch /\ NativeRests

LEMMA ServingInvariant == Spec => []ServingInv
<1>1. Init => NativeRests
  BY DEF Init, NativeRests, Idle
<1>2. RowInv /\ NativeRests /\ [Next]_vars => NativeRests'
  BY NextNativeRests
<1> QED BY <1>1, <1>2, FrozenInvariant, PTL DEF Spec, ServingInv

ClientWrites ==
  \E e \in Entity, epoch \in admitted, content \in {Edited, Absent} : V2Write(e, epoch, content)

(* A repair that was planned before the cutover and is applied after the     *)
(* first write of a v2 client.                                               *)
LateRepair == st.firstWrite /\ \E c \in Coordinator : Repair(c)

(* Backfill and replay find the row moved on; before the first v2 write a    *)
(* repair finds both sides equal.                                            *)
LEMMA ServingWriters ==
  ASSUME ServingInv, [Next]_vars, st.model = "v2", v2' # v2
  PROVE  ClientWrites \/ LateRepair
<1>1. ASSUME NEW c \in Coordinator, Backfill(c) \/ CommitPage(c) PROVE FALSE
  BY <1>1 DEF Backfill, BackfillOn, CommitPage, CommitPageOn, PageCurrent, ReplayPhase,
     ServingInv, RowInv, StateValid, ValidState
<1>2. ASSUME NEW c \in Coordinator, Repair(c), ~st.firstWrite PROVE FALSE
  <2>1. co[c].pc = "repair" /\ st' = st /\ legacy' = legacy
    BY <1>2 DEF Repair, At, stateVars, legacyVars
  <2>2. st.phase = "cutover"
    BY <2>1 DEF ServingInv, NativeRests, RowInv, TypeOK, State, Phase, StateValid, ValidState
  <2>3. Match /\ Match'
    BY <1>2, <2>1, <2>2, NextFrozen DEF ServingInv, FrozenMatch, Frozen
  <2>4. \A e \in Entity : v2'[e] = v2[e]
    BY <2>1, <2>3 DEF Match
  <2>5. v2 \in [Entity -> Content] /\ v2' \in [Entity -> Content]
    BY NextType DEF ServingInv, RowInv, TypeOK
  <2> QED BY <2>4, <2>5
<1> QED BY <1>1, <1>2, V2SideSteps DEF ClientWrites, LateRepair

(* However many coordinators and cutover processes there are, while v2       *)
(* serves a row of it changes only by a client's fenced write or, once a     *)
(* client has written, by a repair planned before the cutover                *)
(* (reconcile_store.go ApplyPlan: run StaleRepair): no backfill, page or     *)
(* earlier repair reaches it.                                                *)
THEOREM OnlyLateRepairsIntrude ==
  Spec => [][ServingV2(st) /\ v2' # v2 => ClientWrites \/ LateRepair]_vars
<1>1. ServingInv /\ [Next]_vars =>
        [ServingV2(st) /\ v2' # v2 => ClientWrites \/ LateRepair]_vars
  BY ServingWriters DEF ServingV2
<1> QED BY <1>1, ServingInvariant, PTL DEF Spec

----------------------------------------------------------------------------
(* One process at a time *)

SingleProcess == \A c, d \in Coordinator : c = d

(* While v2 serves, the only process of the workspace has nothing to do. *)
Rests == st.model = "v2" => \A c \in Coordinator : co[c].pc = "idle"

LEMMA NextRests == SingleProcess /\ RowInv /\ Rests /\ [Next]_vars => Rests'
<1> SUFFICES ASSUME SingleProcess, RowInv, Rests, [Next]_vars, st'.model = "v2",
                    NEW c \in Coordinator
             PROVE  co'[c].pc = "idle"
  BY DEF Rests
<1>0. TypeOK /\ st.model \in Model
  BY DEF RowInv, TypeOK, State
<1>1. CASE st.model = "v2"
  <2>1. \A d \in Coordinator : co[d].pc = "idle"
    BY <1>1 DEF Rests
  <2>2. ASSUME NEW d \in Coordinator, CoordinatorStep(d) \/ CutoverStep(d) \/ Abandon(d)
        PROVE  FALSE
    BY <1>1, <2>1, <2>2, RestingStays
  <2>3. CASE LegacyStep \/ OperatorStep \/ V2Step \/ UNCHANGED vars
    <3>1. co' = co
      BY <2>3 DEF LegacyStep, UncapturedWrite, LegacyWrite, LegacyBegin, LegacyCommit,
         LegacyAbort, OperatorStep, OperatorFail, OperatorRecover, V2Step, ResolveV2, V2Write, vars
    <3> QED BY <2>1, <3>1
  <2> QED BY <2>2, <2>3 DEF Next
<1>2. CASE st.model = "legacy"
  <2>1. PICK d \in Coordinator : Flip(d)
    BY <1>2, SwitchIsFlip
  <2>2. d = c
    BY DEF SingleProcess
  <2> QED BY <1>0, <2>1, <2>2 DEF Flip, Done, Goto, Idle, TypeOK
<1> QED BY <1>0, <1>1, <1>2 DEF Model

LEMMA NoLateRepair == SingleProcess => (Spec => [][~LateRepair]_vars)
<1> SUFFICES ASSUME SingleProcess PROVE Spec => [][~LateRepair]_vars
  OBVIOUS
<1>1. Init => Rests
  BY DEF Init, Rests, Idle
<1>2. RowInv /\ Rests /\ [Next]_vars => Rests'
  BY NextRests
<1>3. RowInv /\ Rests => ~LateRepair
  <2> SUFFICES ASSUME RowInv, Rests, st.firstWrite, NEW c \in Coordinator, Repair(c) PROVE FALSE
    BY DEF LateRepair
  <2>1. st.model = "v2"
    BY DEF RowInv, StateValid, ValidState, ServingV2
  <2> QED BY <2>1 DEF Rests, Repair, At
<1>4. RowInv /\ Rests /\ [Next]_vars => [~LateRepair]_vars
  BY <1>3
<1> QED BY <1>1, <1>2, <1>4, ServingInvariant, PTL DEF Spec, ServingInv

(* With one coordinator or cutover process at a time, nothing but a fenced   *)
(* client write changes a v2 row that v2 serves.  (With two, a stalled       *)
(* reconcile_store.go repair does: run StaleRepair.)                         *)
THEOREM SoleWriterOfV2 == SingleProcess => (Spec => OnlyClientsWriteV2)
<1>1. [ServingV2(st) /\ v2' # v2 => ClientWrites \/ LateRepair]_vars /\ [~LateRepair]_vars =>
        [ServingV2(st) /\ v2' # v2 =>
           \E e \in Entity, epoch \in admitted, content \in {Edited, Absent} :
              V2Write(e, epoch, content)]_vars
  BY DEF ClientWrites
<1> QED BY <1>1, OnlyLateRepairsIntrude, NoLateRepair, PTL DEF OnlyClientsWriteV2

----------------------------------------------------------------------------
(* Refinement of TaskData *)

LEMMA RefinementInit == Init => Data!Init
<1> SUFFICES ASSUME Init PROVE Data!Init
  OBVIOUS
<1>1. PICK model \in Model, rows \in SUBSET Entity :
        /\ st = InitialState(model)
        /\ model = "v2" => rows = {}
        /\ legacy = [e \in Entity |-> [ver |-> 0, live |-> e \in rows]]
  BY DEF Init
<1>2. st.model = model
  BY <1>1 DEF InitialState
<1>3. v2 = [e \in Entity |-> Absent] /\ v2Written = FALSE
  BY DEF Init
<1>4. Rows \in [Entity -> {Data!Absent, 1}]
  BY <1>1, <1>3 DEF Rows, LegacyContent, Absent, Data!Absent
<1>5. st.model = "v2" => Rows = [e \in Entity |-> Data!Absent]
  BY <1>3 DEF Rows, Absent, Data!Absent
<1>6. st.model \in {"legacy", "v2"} /\ v2Written = FALSE
  BY <1>2, <1>3 DEF Model
<1> QED BY <1>4, <1>5, <1>6 DEF Data!Init

(* A v2 client write is the only step that sets v2Written. *)
LEMMA FirstWriteIsAWrite ==
  ASSUME [Next]_vars
  PROVE  \/ v2Written' = v2Written
         \/ \E e \in Entity, epoch \in admitted, content \in {Edited, Absent} :
               V2Write(e, epoch, content)
<1> USE DEF clientVars
<1>1. ASSUME NEW c \in Coordinator, CoordinatorStep(c) PROVE v2Written' = v2Written
  BY <1>1 DEF CoordinatorStep, Load, Install, Start, TakeSnapshot, Backfill, BackfillOn,
     FetchPage, CommitPage, CommitPageOn, Drain, Capture, Observe, Repair, Reload, Mark
<1>2. ASSUME NEW c \in Coordinator, CutoverStep(c) \/ Abandon(c) PROVE v2Written' = v2Written
  BY <1>2 DEF CutoverStep, LoadReady, CheckGates, Flip, Abandon
<1>3. ASSUME LegacyStep \/ OperatorStep \/ ResolveV2 \/ UNCHANGED vars
      PROVE  v2Written' = v2Written
  BY <1>3 DEF LegacyStep, UncapturedWrite, LegacyWrite, LegacyBegin, LegacyCommit, LegacyAbort,
     OperatorStep, OperatorFail, OperatorRecover, ResolveV2, vars
<1> QED BY <1>1, <1>2, <1>3 DEF Next, V2Step

(* The authoritative row of an entity on the legacy side. *)
LegacyRow(row) == IF row.live /\ row.ver = 0 THEN 1 ELSE LegacyContent(row)

LEMMA RowsOnLegacy ==
  /\ st.model = "legacy" => Rows = [e \in Entity |-> LegacyRow(legacy[e])]
  /\ st'.model = "legacy" => Rows' = [e \in Entity |-> LegacyRow(legacy'[e])]
BY DEF Rows, LegacyRow

LEMMA RowsOnV2 ==
  /\ TypeOK /\ st.model = "v2" => Rows = v2
  /\ TypeOK' /\ st'.model = "v2" => Rows' = v2'
BY DEF Rows, TypeOK

(* A legacy client changes at most one legacy row. *)
LEMMA LegacyStepChangesOneRow ==
  ASSUME TypeOK, LegacyStep
  PROVE  \/ legacy' = legacy
         \/ \E e \in Entity, row \in Row : legacy' = [legacy EXCEPT ![e] = row]
<1>1. ASSUME NEW e \in Entity, UncapturedWrite(e)
      PROVE  \E row \in Row : legacy' = [legacy EXCEPT ![e] = row]
  <2> DEFINE row == [legacy[e] EXCEPT !.live = ~@]
  <2>0. legacy[e] \in Row
    BY DEF TypeOK
  <2>1. row \in Row
    BY <2>0 DEF Row
  <2>2. legacy' = [legacy EXCEPT ![e].live = ~@]
    BY <1>1 DEF UncapturedWrite
  <2>3. legacy' = [legacy EXCEPT ![e] = row]
    BY <2>2, Zenon
  <2> QED BY <2>1, <2>3
<1>2. ASSUME NEW ev \in Event, legacy' = Committed(ev)
      PROVE  \E row \in Row : legacy' = [legacy EXCEPT ![ev.ent] = row]
  BY <1>2 DEF Committed, Event, Row
<1>3. ASSUME NEW e \in Entity, NEW live \in BOOLEAN, LegacyWrite(e, live)
      PROVE  TriggerEvent(e, live) \in Event /\ legacy' = Committed(TriggerEvent(e, live))
  BY <1>3, ConstantsAssumption
  DEF LegacyWrite, TriggerAccepts, TriggerEvent, TypeOK, Event, Row
<1>4. ASSUME NEW ev \in open, LegacyCommit(ev) PROVE ev \in Event /\ legacy' = Committed(ev)
  BY <1>4 DEF LegacyCommit, TypeOK
<1>5. \A ev \in Event : ev.ent \in Entity
  BY DEF Event
<1> QED
  BY <1>1, <1>2, <1>3, <1>4, <1>5 DEF LegacyStep, LegacyBegin, LegacyAbort

LEMMA RefinementStep ==
  ASSUME ServingInv, ~LateRepair, [Next]_vars
  PROVE  [Data!Next]_(Data!vars)
<1>i. RowInv /\ DataInv /\ FrozenMatch
  BY DEF ServingInv
<1>0. TypeOK /\ TypeOK' /\ st \in State /\ st' \in State
  BY <1>i, NextType DEF RowInv, TypeOK
<1>m. st.model \in {"legacy", "v2"} /\ st'.model \in {"legacy", "v2"}
  BY <1>0 DEF State, Model
<1>w. ASSUME NEW e \in Entity, NEW epoch \in admitted, NEW content \in {Edited, Absent},
             V2Write(e, epoch, content)
      PROVE  st.model = "v2" /\ st'.model = "v2"
  <2>1. ServingV2(st)
    BY <1>i, <1>w DEF V2Write, Fenced, RowInv, EpochsAgree, EpochsAdmitted
  <2> QED BY <1>0, <1>w, <2>1 DEF V2Write, MarkV2FirstWrite, ServingV2, State
<1>s. ASSUME UNCHANGED <<Rows, st, v2Written>> PROVE UNCHANGED Data!vars
  BY <1>s DEF Data!vars
<1>1. CASE st.model = "legacy" /\ st'.model = "legacy"
  <2>1. v2Written' = v2Written
    BY <1>1, <1>w, FirstWriteIsAWrite
  <2>2. CASE legacy' = legacy
    <3>1. Rows' = Rows
      BY <1>1, <2>2, RowsOnLegacy
    <3> QED BY <1>1, <2>1, <3>1 DEF Data!vars
  <2>3. ASSUME NEW e \in Entity, NEW row \in Row, legacy' = [legacy EXCEPT ![e] = row]
        PROVE  Data!LegacyClient(e)
    <3>1. Rows' = [Rows EXCEPT ![e] = LegacyRow(row)]
      BY <1>0, <1>1, <2>3, RowsOnLegacy DEF TypeOK
    <3>2. LegacyRow(row) \in Nat
      BY DEF LegacyRow, LegacyContent, Row, Absent
    <3>3. Rows'[e] = LegacyRow(row)
      BY <1>1, <2>3, <1>0, RowsOnLegacy DEF TypeOK
    <3> QED BY <1>1, <2>1, <3>1, <3>2, <3>3 DEF Data!LegacyClient, Data!OnlyRow
  <2>4. ASSUME NEW c \in Coordinator, Install(c) PROVE Rows' = Rows
    <3>1. \A e \in Entity : LegacyRow(legacy'[e]) = LegacyRow(legacy[e])
      BY <1>0, <2>4 DEF Install, LegacyRow, LegacyContent, TypeOK, Row
    <3> QED BY <1>1, <3>1, RowsOnLegacy
  <2>5. CASE LegacyStep
    BY <1>0, <2>2, <2>3, <2>5, LegacyStepChangesOneRow DEF Data!Next
  <2>6. CASE UNCHANGED legacyVars
    BY <2>2, <2>6 DEF legacyVars
  <2>7. ASSUME NEW c \in Coordinator, Install(c) PROVE UNCHANGED Data!vars
    BY <1>1, <2>1, <2>4, <2>7 DEF Data!vars
  <2> QED BY <2>5, <2>6, <2>7, LegacySideSteps
<1>2. CASE st.model = "v2" /\ st'.model = "v2"
  <2>1. Rows = v2 /\ Rows' = v2'
    BY <1>0, <1>2, RowsOnV2
  <2>2. ASSUME NEW e \in Entity, NEW epoch \in admitted, NEW content \in {Edited, Absent},
               V2Write(e, epoch, content)
        PROVE  Data!V2Client(e)
    <3>1. v2' = [v2 EXCEPT ![e] = content] /\ v2Written'
      BY <2>2 DEF V2Write
    <3>2. v2'[e] = content /\ v2' = [v2 EXCEPT ![e] = v2'[e]]
      BY <1>0, <3>1 DEF TypeOK
    <3>3. v2Written' = TRUE
      BY <2>2 DEF V2Write
    <3> QED BY <1>2, <2>1, <3>2, <3>3
            DEF Data!V2Client, Data!OnlyRow, Data!Edited, Data!Absent, Edited, Absent
  <2>3. ASSUME ~\E e \in Entity, epoch \in admitted, content \in {Edited, Absent} :
                  V2Write(e, epoch, content)
        PROVE  UNCHANGED Data!vars
    <3>1. v2Written' = v2Written
      BY <2>3, FirstWriteIsAWrite
    <3>2. v2' = v2
      BY <1>2, <2>3, ServingWriters DEF ClientWrites
    <3> QED BY <1>2, <2>1, <3>1, <3>2 DEF Data!vars
  <2> QED BY <2>2, <2>3 DEF Data!Next
<1>3. CASE st.model = "legacy" /\ st'.model = "v2"
  <2>1. PICK c \in Coordinator : Flip(c)
    BY <1>i, <1>3, SwitchIsFlip
  <2>2. co[c].pc = "flip" /\ legacy' = legacy /\ v2' = v2 /\ v2Written' = v2Written
    BY <2>1 DEF Flip, At, legacyVars, v2Vars, clientVars
  <2>3. co[c].st = st
    <3>1. co[c].pc \in Holders
      BY <2>2 DEF Holders
    <3> QED BY <1>i, <1>0, <2>1, <3>1, SwapOnCurrentRow DEF Flip, RowInv
  <2>4. Match /\ triggers
    BY <1>i, <2>2, <2>3 DEF FrozenMatch, Frozen
  <2>5. Rows' = Rows
    <3>1. \A e \in Entity : v2[e] = LegacyRow(legacy[e])
      BY <1>i, <1>0, <2>4 DEF Match, LegacyRow, DataInv, Baselined, TypeOK, Row
    <3>2. v2 = [e \in Entity |-> v2[e]]
      BY <1>0 DEF TypeOK
    <3>3. Rows = v2
      BY <1>3, <3>1, <3>2, RowsOnLegacy
    <3> QED BY <1>0, <1>3, <2>2, <3>3, RowsOnV2
  <2> QED BY <1>3, <2>2, <2>5 DEF Data!Next, Data!SwitchToV2
<1>4. CASE st.model = "v2" /\ st'.model = "legacy"
  <2>1. legacy' = legacy
    BY <1>i, <1>4, RowLocked DEF legacyVars
  <2>2. v2Written' = v2Written
    BY <1>4, <1>w, FirstWriteIsAWrite
  <2>3. st.phase = "cutover" /\ ~st.firstWrite
    <3>1. ServingV2(st) => ~st.firstWrite
      <4>1. ~ServingV2(st')
        BY <1>4 DEF ServingV2
      <4> QED BY <1>i, <1>0, <4>1, EveryStepIsARowCommand, RowCommandEffects DEF RowInv, StateValid
    <3>2. ServingV2(st)
      BY <1>i, <1>4, <1>0 DEF RowInv, StateValid, ValidState, ServingV2, State, Phase
    <3>3. st.phase = "cutover"
      <4> USE DEF State
      <4>1. ASSUME st' = MarkV2FirstWrite(st) PROVE FALSE
        BY <1>0, <1>4, <4>1 DEF MarkV2FirstWrite
      <4>2. ASSUME NEW w \in Nat, st' = [st EXCEPT !.watermark = w, !.revision = @ + 1] PROVE FALSE
        BY <1>0, <1>4, <4>2
      <4>3. st' # st
        BY <1>4
      <4> HIDE DEF State
      <4> QED
        BY <1>i, <1>4, <3>2, <4>1, <4>2, <4>3, EveryStepIsARowCommand
        DEF RowCommand, CanStartBackfill, CanBeginCatchingUp, CanBeginDrain, CanMarkReady,
            CanCutover, CanFail, CanRecover, ServingV2
    <3> QED BY <3>1, <3>2, <3>3
  <2>4. Match /\ triggers
    BY <1>i, <2>3 DEF FrozenMatch, Frozen
  <2>5. ~v2Written
    BY <1>i, <2>3 DEF RowInv, RollbackBoundary
  <2>6. Rows' = Rows
    <3>1. \A e \in Entity : v2[e] = LegacyRow(legacy[e])
      BY <1>i, <1>0, <2>4 DEF Match, LegacyRow, DataInv, Baselined, TypeOK, Row
    <3>2. v2 = [e \in Entity |-> v2[e]]
      BY <1>0 DEF TypeOK
    <3>3. Rows' = v2
      BY <1>4, <2>1, <3>1, <3>2, RowsOnLegacy
    <3> QED BY <1>0, <1>4, <3>3, RowsOnV2
  <2> QED BY <1>4, <2>2, <2>5, <2>6 DEF Data!Next, Data!SwitchBack
<1> QED BY <1>m, <1>1, <1>2, <1>3, <1>4

(* However many processes migrate, fail, restart and roll back, the          *)
(* migration implements TaskData unless a late repair comes: clients see one *)
(* table, only they change it, and the switch is invisible and, once         *)
(* written, final.                                                           *)
THEOREM OnlyLateRepairsLoseData == Spec /\ [][~LateRepair]_vars => DataPreserved
<1>1. ServingInv /\ [~LateRepair]_vars /\ [Next]_vars => [Data!Next]_(Data!vars)
  <2>1. CASE UNCHANGED vars
    BY <2>1 DEF vars, Data!vars, Rows
  <2> QED BY <2>1, RefinementStep
<1> QED BY <1>1, RefinementInit, ServingInvariant, PTL DEF Spec, DataPreserved, Data!Spec

(* With one process at a time there is no late repair, so that nothing of    *)
(* the migration is seen.                                                    *)
THEOREM MigrationPreservesData == SingleProcess => (Spec => DataPreserved)
BY NoLateRepair, OnlyLateRepairsLoseData, PTL

----------------------------------------------------------------------------
(* SQLite: nothing is skipped *)

(* With a single writer a transaction reads what is durable, never an older  *)
(* view of it.                                                               *)
NoOldViews ==
  /\ open = {}
  /\ \A c \in Coordinator : co[c].pc \notin {"backfill", "replay"}

(* The outbox is the history of the ledger: sequences are below the next     *)
(* one and never repeat, no event is newer than its ledger row, and the last *)
(* event of an entity is its ledger row.                                     *)
OutboxIsHistory ==
  /\ outbox # {} => triggers
  /\ \A ev \in outbox : ev.seq < nextSeq /\ ev.ver <= legacy[ev.ent].ver
  /\ \A ev, f \in outbox : ev.seq = f.seq => ev = f
  /\ \A ev \in Last(outbox) : legacy[ev.ent] = [ver |-> ev.ver, live |-> ev.live]

Replaying == st.phase \in {"catching_up", "draining", "ready"}

(* The watermark never runs ahead of the outbox. *)
WatermarkBehind == Replaying => st.watermark < nextSeq

ReplayInv == NoOldViews /\ OutboxIsHistory /\ WatermarkBehind /\ NothingSkipped

(* The map has reached every upsert up to sequence w. *)
Covered(w, events, map) ==
  \A ev \in Last({f \in events : f.seq <= w}) : ev.live => map[ev.ent].ver >= ev.ver

LEMMA CoveredIsNothingSkipped ==
  /\ NothingSkipped <=> (Replaying => Covered(st.watermark, outbox, idmap))
  /\ NothingSkipped' <=> (Replaying' => Covered(st'.watermark, outbox', idmap'))
BY DEF NothingSkipped, Replaying, Covered

LEMMA InitReplay == Init => ReplayInv
<1> SUFFICES ASSUME Init PROVE ReplayInv
  OBVIOUS
<1>1. PICK model \in Model : st = InitialState(model)
  BY DEF Init
<1>2. ~Replaying
  BY <1>1 DEF Replaying, InitialState
<1>3. NoOldViews
  BY DEF Init, Idle, NoOldViews
<1>4. OutboxIsHistory
  BY DEF Init, OutboxIsHistory, Last
<1> QED BY <1>2, <1>3, <1>4, CoveredIsNothingSkipped DEF ReplayInv, WatermarkBehind

LEMMA NextNoOldViews ==
  ASSUME ~Postgres, RowInv, NoOldViews, [Next]_vars
  PROVE  NoOldViews'
<1> USE DEF NoOldViews
<1>0. TypeOK
  BY DEF RowInv
<1>1. open' = {}
  <2>1. CASE UNCHANGED legacyVars
    BY <2>1 DEF legacyVars
  <2>2. CASE LegacyStep
    BY <2>2 DEF LegacyStep, UncapturedWrite, LegacyWrite, LegacyBegin
  <2>3. ASSUME NEW c \in Coordinator, Install(c) PROVE open' = open
    BY <2>3 DEF Install
  <2> QED BY <2>1, <2>2, <2>3, LegacySideSteps
<1>2. ASSUME NEW c \in Coordinator PROVE co'[c].pc \notin {"backfill", "replay"}
  <2>1. ASSUME NEW r, Goto(c, r) PROVE co'[c] = r
    BY <1>0, <2>1 DEF Goto, TypeOK
  <2>2. ASSUME CoordinatorStep(c) \/ CutoverStep(c) \/ Abandon(c)
        PROVE  co'[c].pc \notin {"backfill", "replay"}
    <3>0. co[c] \in Process
      BY <1>0 DEF TypeOK
    <3>1. CASE Load(c)
      BY <2>1, <3>1 DEF Load, PhaseEntry
    <3>2. CASE Install(c)
      <4>1. co[c].pc = "prepare" /\ co'[c] = [co[c] EXCEPT !.pc = "start"]
        BY <2>1, <3>2 DEF Install, At
      <4>2. co'[c] = [pc |-> "start", st |-> co[c].st]
        BY <3>0, <4>1, ProcessMoves
      <4> QED BY <4>2
    <3>3. CASE FetchPage(c)
      BY <2>1, <3>3 DEF FetchPage
    <3>4. CASE Capture(c) \/ Observe(c) \/ Reload(c) \/ LoadReady(c)
      BY <2>1, <3>4 DEF Capture, Observe, Reload, LoadReady
    <3>5. CASE CheckGates(c)
      <4>1. co[c].pc = "gates" /\ co'[c] = [co[c] EXCEPT !.pc = "flip"]
        BY <2>1, <3>5 DEF CheckGates, At
      <4>2. co'[c] = [pc |-> "flip", st |-> co[c].st]
        BY <3>0, <4>1, ProcessMoves
      <4> QED BY <4>2
    <3>6. CASE Done(c)
      BY <2>1, <3>6 DEF Done, Idle
    <3>7. ~TakeSnapshot(c)
      BY DEF TakeSnapshot
    <3> QED
      BY <2>2, <3>1, <3>2, <3>3, <3>4, <3>5, <3>6, <3>7
      DEF CoordinatorStep, CutoverStep, Start, Backfill, BackfillOn, CommitPage, CommitPageOn,
          Drain, Repair, Mark, Flip, Abandon
  <2>3. ASSUME NEW d \in Coordinator, d # c, CoordinatorStep(d) \/ CutoverStep(d) \/ Abandon(d)
        PROVE  co'[c] = co[c]
    <3>1. \E r : Goto(d, r)
      BY <2>3, ProcessSteps
    <3> QED BY <1>0, <2>3, <3>1 DEF Goto, TypeOK
  <2>4. ASSUME LegacyStep \/ OperatorStep \/ V2Step \/ UNCHANGED vars PROVE co' = co
    BY <2>4 DEF LegacyStep, UncapturedWrite, LegacyWrite, LegacyBegin, LegacyCommit,
       LegacyAbort, OperatorStep, OperatorFail, OperatorRecover, V2Step, ResolveV2, V2Write, vars
  <2> QED BY <2>2, <2>3, <2>4 DEF Next
<1> QED BY <1>1, <1>2

(* With no transaction open, a legacy step that reaches the outbox is one    *)
(* whole write.                                                              *)
LEMMA LegacyStepAlone ==
  ASSUME ~Postgres, NoOldViews, LegacyStep
  PROVE  \/ ~triggers /\ outbox' = outbox /\ nextSeq' = nextSeq /\ triggers' = triggers
         \/ \E e \in Entity, live \in BOOLEAN : LegacyWrite(e, live)
BY DEF NoOldViews, LegacyStep, UncapturedWrite, LegacyBegin

LEMMA WriteExtendsHistory ==
  ASSUME RowInv, OutboxIsHistory, NEW e \in Entity, NEW live \in BOOLEAN, LegacyWrite(e, live)
  PROVE  OutboxIsHistory'
<1> DEFINE new == TriggerEvent(e, live)
<1>0. /\ legacy \in [Entity -> Row] /\ nextSeq \in Nat /\ outbox \subseteq Event
      /\ legacy[e].ver \in Nat
  BY DEF RowInv, TypeOK, Row
<1>1. /\ outbox' = outbox \cup {new} /\ nextSeq' = nextSeq + 1
      /\ triggers' = triggers /\ triggers
      /\ legacy' = [legacy EXCEPT ![e] = [ver |-> new.ver, live |-> new.live]]
  BY DEF LegacyWrite, TriggerAccepts, Committed, TriggerEvent
<1>2. new.seq = nextSeq /\ new.ent = e /\ new.ver = legacy[e].ver + 1
  BY DEF TriggerEvent
<1> HIDE DEF new
<1>3. /\ legacy'[e] = [ver |-> new.ver, live |-> new.live]
      /\ \A d \in Entity : d # e => legacy'[d] = legacy[d]
  BY <1>0, <1>1
<1>4. \A ev \in outbox : ev.seq \in Nat /\ ev.seq < nextSeq /\ ev.ver \in Nat /\ ev.ent \in Entity
                         /\ ev.ver <= legacy[ev.ent].ver
  BY <1>0 DEF Event, OutboxIsHistory
<1>5. \A ev \in outbox' : ev.seq < nextSeq' /\ ev.ver <= legacy'[ev.ent].ver
  <2> SUFFICES ASSUME NEW ev \in outbox' PROVE ev.seq < nextSeq' /\ ev.ver <= legacy'[ev.ent].ver
    OBVIOUS
  <2>1. CASE ev = new
    BY <1>0, <1>1, <1>2, <1>3, <2>1
  <2>2. CASE ev \in outbox /\ ev.ent = e
    BY <1>0, <1>1, <1>2, <1>3, <1>4, <2>2
  <2>3. CASE ev \in outbox /\ ev.ent # e
    BY <1>0, <1>1, <1>3, <1>4, <2>3
  <2> QED BY <1>1, <2>1, <2>2, <2>3
<1>6. \A ev, f \in outbox' : ev.seq = f.seq => ev = f
  BY <1>0, <1>1, <1>2, <1>4 DEF OutboxIsHistory
<1>7. \A ev \in Last(outbox)' : legacy'[ev.ent] = [ver |-> ev.ver, live |-> ev.live]
  <2> SUFFICES ASSUME NEW ev \in outbox', \A f \in outbox' : f.ent = ev.ent => f.seq <= ev.seq
               PROVE  legacy'[ev.ent] = [ver |-> ev.ver, live |-> ev.live]
    BY DEF Last
  <2>1. CASE ev.ent = e
    <3>1. ev = new
      BY <1>0, <1>1, <1>2, <1>4, <2>1
    <3> QED BY <1>2, <1>3, <3>1
  <2>2. CASE ev.ent # e
    <3>1. ev \in Last(outbox)
      BY <1>1, <1>2, <2>2 DEF Last
    <3> QED BY <1>3, <1>4, <2>2, <3>1 DEF OutboxIsHistory, Last
  <2> QED BY <2>1, <2>2
<1> QED BY <1>1, <1>5, <1>6, <1>7 DEF OutboxIsHistory

LEMMA NextHistory ==
  ASSUME ~Postgres, RowInv, NoOldViews, OutboxIsHistory, [Next]_vars
  PROVE  OutboxIsHistory'
<1>0. TypeOK
  BY DEF RowInv
<1>1. CASE UNCHANGED legacyVars
  BY <1>1 DEF legacyVars, OutboxIsHistory, Last
<1>2. CASE LegacyStep
  <2>1. CASE ~triggers /\ outbox' = outbox
    <3>1. outbox = {} /\ outbox' = {}
      BY <2>1 DEF OutboxIsHistory
    <3> QED BY <3>1 DEF OutboxIsHistory, Last
  <2> QED BY <1>2, <2>1, LegacyStepAlone, WriteExtendsHistory
<1>3. ASSUME NEW c \in Coordinator, Install(c) PROVE OutboxIsHistory'
  <2>1. outbox' = outbox /\ nextSeq' = nextSeq /\ triggers'
    BY <1>3 DEF Install
  <2>2. ASSUME NEW ev \in outbox PROVE legacy'[ev.ent] = legacy[ev.ent]
    <3>1. ev.ent \in Entity /\ ev.ver \in Nat \ {0} /\ ev.ver <= legacy[ev.ent].ver
      BY <1>0 DEF TypeOK, Event, OutboxIsHistory
    <3>2. legacy[ev.ent].ver # 0
      BY <1>0, <3>1 DEF TypeOK, Row
    <3> QED BY <1>3, <3>1, <3>2 DEF Install
  <2> QED BY <2>1, <2>2 DEF OutboxIsHistory, Last
<1> QED BY <1>1, <1>2, <1>3, LegacySideSteps

(* The watermark of a replaying migration moves only when a backfill or a    *)
(* page commits.                                                             *)
LEMMA WatermarkSteps ==
  ASSUME RowInv, [Next]_vars, Replaying'
  PROVE  \/ Replaying /\ st'.watermark = st.watermark
         \/ \E c \in Coordinator : Backfill(c) \/ CommitPage(c)
<1> DEFINE Same == Replaying /\ st'.watermark = st.watermark
<1> USE DEF State, Replaying
<1>0. st \in State
  BY DEF RowInv, TypeOK
<1>1. ASSUME st' = st PROVE Same
  BY <1>1
<1>2. ASSUME NEW c \in Coordinator, Start(c) PROVE FALSE
  <2>1. co[c].pc \in Holders
    BY <1>2 DEF Start, At, Holders
  <2>2. st' = StartBackfill(st, MigrationOf[c])
    BY <1>2, <2>1, SwapOnCurrentRow DEF Start, RowInv
  <2> QED BY <1>0, <2>2 DEF StartBackfill
<1>3. ASSUME NEW c \in Coordinator, Drain(c) PROVE Same
  BY <1>0, <1>3 DEF Drain, BeginDrain, CanBeginDrain
<1>4. ASSUME NEW c \in Coordinator, Mark(c) PROVE Same
  <2>1. co[c].pc \in Holders
    BY <1>4 DEF Mark, At, Holders
  <2>2. st' = MarkReady(st) /\ CanMarkReady(st)
    BY <1>4, <2>1, SwapOnCurrentRow DEF Mark, At, RowInv, GuardsRemembered
  <2> QED BY <1>0, <2>2 DEF MarkReady, CanMarkReady
<1>5. ASSUME NEW c \in Coordinator, Flip(c) PROVE FALSE
  <2>1. co[c].pc \in Holders
    BY <1>5 DEF Flip, At, Holders
  <2>2. st' = Cutover(st)
    BY <1>5, <2>1, SwapOnCurrentRow DEF Flip, RowInv
  <2> QED BY <1>0, <2>2 DEF Cutover
<1>6. ASSUME OperatorStep PROVE FALSE
  <2>1. CASE OperatorFail
    <3>1. st' = Fail(st)
      BY <1>6, <2>1 DEF OperatorFail, CompareAndSwap
    <3>2. st'.phase = "failed"
      BY <1>0, <3>1 DEF Fail
    <3> QED BY <3>2
  <2>2. CASE OperatorRecover
    <3>1. st' = Recover(st)
      BY <1>6, <2>2 DEF OperatorRecover, CompareAndSwap
    <3>2. st'.phase = "idle"
      BY <1>0, <3>1 DEF Recover
    <3> QED BY <3>2
  <2> QED BY <1>6, <2>1, <2>2 DEF OperatorStep
<1>7. ASSUME st' = MarkV2FirstWrite(st) PROVE Same
  BY <1>0, <1>7 DEF MarkV2FirstWrite
<1>8. ASSUME LegacyStep \/ ResolveV2 \/ UNCHANGED vars PROVE st' = st
  BY <1>8 DEF LegacyStep, UncapturedWrite, LegacyWrite, LegacyBegin, LegacyCommit, LegacyAbort,
     ResolveV2, stateVars, vars
<1> HIDE DEF State, Replaying, Same
<1>9. ASSUME NEW c \in Coordinator, CoordinatorStep(c) \/ CutoverStep(c) \/ Abandon(c)
      PROVE  Same \/ Backfill(c) \/ CommitPage(c)
  BY <1>1, <1>2, <1>3, <1>4, <1>5, <1>9
  DEF CoordinatorStep, CutoverStep, Load, Install, TakeSnapshot, FetchPage, Capture, Observe,
      Repair, Reload, LoadReady, CheckGates, Abandon, stateVars
<1>10. Same \/ \E c \in Coordinator : Backfill(c) \/ CommitPage(c)
  BY <1>1, <1>6, <1>7, <1>8, <1>9 DEF Next, V2Step, V2Write
<1> QED BY <1>10 DEF Same

LEMMA BackfillCovers ==
  ASSUME ~Postgres, RowInv, NoOldViews, OutboxIsHistory, NEW c \in Coordinator, Backfill(c)
  PROVE  Covered(st'.watermark, outbox', idmap') /\ st'.watermark < nextSeq'
<1>0. st \in State /\ outbox \in SUBSET Event /\ nextSeq \in Nat \ {0} /\ legacy \in [Entity -> Row]
  BY DEF RowInv, TypeOK
<1>1. BackfillOn(c, View)
  BY DEF Backfill, NoOldViews, At
<1>2. st'.watermark = Head(outbox) /\ outbox' = outbox /\ nextSeq' = nextSeq
  BY <1>0, <1>1 DEF BackfillOn, View, BeginCatchingUp, State, legacyVars
<1>3. {f \in outbox : f.seq <= Head(outbox)} = outbox
  BY <1>0, HeadProperties
<1>4. ASSUME NEW ev \in Last(outbox), ev.live PROVE idmap'[ev.ent].ver >= ev.ver
  <2>1. ev \in Event /\ legacy[ev.ent] = [ver |-> ev.ver, live |-> ev.live]
    BY <1>0, <1>4 DEF OutboxIsHistory, Last
  <2>2. idmap'[ev.ent] = [ver |-> ev.ver, deleted |-> FALSE]
    <3>1. WriteProjection(legacy)
      BY <1>1 DEF BackfillOn, View
    <3>2. ev.ent \in Entity /\ legacy[ev.ent].live /\ legacy[ev.ent].ver = ev.ver
      BY <1>4, <2>1 DEF Event
    <3> QED BY <3>1, <3>2 DEF WriteProjection
  <2> QED BY <2>1, <2>2 DEF Event
<1>5. Head(outbox) < nextSeq
  <2>1. CASE outbox = {}
    BY <1>0, <2>1, HeadProperties
  <2>2. CASE outbox # {}
    BY <1>0, <2>2, HeadProperties DEF OutboxIsHistory
  <2> QED BY <2>1, <2>2
<1> QED BY <1>2, <1>3, <1>4, <1>5 DEF Covered

LEMMA PageCovers ==
  ASSUME ~Postgres, RowInv, NoOldViews, OutboxIsHistory, NothingSkipped,
         NEW c \in Coordinator, CommitPage(c)
  PROVE  Covered(st'.watermark, outbox', idmap') /\ st'.watermark < nextSeq'
<1> DEFINE page == co[c].page
           to == Head(page.events)
<1>0. /\ st \in State /\ outbox \in SUBSET Event /\ nextSeq \in Nat \ {0}
      /\ idmap \in [Entity -> Mapping] /\ st.watermark \in Nat
  BY DEF RowInv, TypeOK, State
<1>1. co[c].pc = "commit" /\ CommitPageOn(c, View)
  BY DEF CommitPage, NoOldViews, At
<1>2. page.events # {} /\ page.events \in SUBSET Event
  BY <1>1, HeldPage DEF RowInv, GuardsRemembered, Page
<1>3. page.events = Between(outbox, st.watermark, to)
  BY <1>1 DEF CommitPageOn, PageCurrent, View
<1>4. st'.watermark = to /\ outbox' = outbox /\ nextSeq' = nextSeq
  BY <1>0, <1>1 DEF CommitPageOn, State, legacyVars
<1>5. Covered(st.watermark, outbox, idmap)
  BY <1>1, CoveredIsNothingSkipped DEF CommitPageOn, PageCurrent, ReplayPhase, Replaying
<1>6. to \in Nat /\ to < nextSeq
  BY <1>0, <1>2, <1>3, HeadProperties, ConstantsAssumption DEF Between, OutboxIsHistory
<1> HIDE DEF to
<1>7. ASSUME NEW ev \in outbox, ev.seq <= to, ev.live,
             \A f \in outbox : f.seq <= to /\ f.ent = ev.ent => f.seq <= ev.seq
      PROVE  idmap'[ev.ent].ver >= ev.ver
  <2>0. ev \in Event /\ ev.ent \in Entity /\ idmap[ev.ent] \in Mapping
    BY <1>0 DEF Event
  <2>1. CASE Touches(page.events, ev.ent)
    <3> DEFINE g == EventOf(page.events, ev.ent)
    <3>1. g \in Last(page.events) /\ g.ent = ev.ent
      BY <1>2, <2>0, <2>1, EventOfProperties
    <3> HIDE DEF g
    <3>2. g \in outbox /\ g.seq <= to /\ st.watermark < g.seq /\ g \in Event
      BY <1>2, <1>3, <3>1 DEF Last, Between
    <3>3. g.seq <= ev.seq
      BY <1>7, <3>1, <3>2
    <3>4. ev \in page.events
      BY <1>0, <1>3, <1>7, <2>0, <3>2, <3>3 DEF Between, Event
    <3>5. ev.seq <= g.seq
      BY <3>1, <3>4 DEF Last
    <3>6. ev = g
      BY <2>0, <3>2, <3>3, <3>5 DEF OutboxIsHistory, Event
    <3>7. idmap'[ev.ent] = Advanced(ev, idmap[ev.ent])
      BY <1>1, <2>0, <2>1, <3>6 DEF CommitPageOn, g
    <3> QED BY <2>0, <3>7 DEF Advanced, Event, Mapping
  <2>2. CASE ~Touches(page.events, ev.ent)
    <3>1. ev \notin page.events
      BY <2>2 DEF Touches
    <3>2. ev.seq <= st.watermark
      BY <1>0, <1>3, <1>6, <1>7, <2>0, <3>1 DEF Between, Event
    <3>3. ev \in Last({f \in outbox : f.seq <= st.watermark})
      <4>1. \A f \in outbox : f.ent = ev.ent /\ f.seq <= st.watermark => f.seq <= to
        BY <1>0, <1>2, <1>3, <1>6, HeadProperties DEF Between, Event, to
      <4> QED BY <1>7, <3>2, <4>1 DEF Last
    <3>4. idmap[ev.ent].ver >= ev.ver
      BY <1>5, <1>7, <3>3 DEF Covered
    <3>5. idmap'[ev.ent] = idmap[ev.ent]
      BY <1>1, <2>0, <2>2 DEF CommitPageOn
    <3> QED BY <3>4, <3>5
  <2> QED BY <2>1, <2>2
<1> QED BY <1>4, <1>6, <1>7 DEF Covered, Last

LEMMA NextReplay ==
  ASSUME ~Postgres, RowInv, ReplayInv, [Next]_vars
  PROVE  ReplayInv'
<1> USE DEF ReplayInv
<1>0. /\ st \in State /\ outbox \subseteq Event /\ nextSeq \in Nat
      /\ idmap \in [Entity -> Mapping] /\ legacy \in [Entity -> Row]
  BY DEF RowInv, TypeOK
<1>1. NoOldViews' /\ OutboxIsHistory'
  BY NextNoOldViews, NextHistory
<1>2. ASSUME Replaying, st'.watermark = st.watermark,
             ~\E c \in Coordinator : Backfill(c) \/ CommitPage(c)
      PROVE  Covered(st'.watermark, outbox', idmap') /\ st'.watermark < nextSeq'
  <2>1. Covered(st.watermark, outbox, idmap) /\ st.watermark < nextSeq /\ st.watermark \in Nat
    BY <1>0, <1>2, CoveredIsNothingSkipped DEF WatermarkBehind, State
  <2>2. /\ {f \in outbox' : f.seq <= st.watermark} = {f \in outbox : f.seq <= st.watermark}
        /\ nextSeq' >= nextSeq
    <3>1. ASSUME outbox' = outbox, nextSeq' = nextSeq
          PROVE  /\ {f \in outbox' : f.seq <= st.watermark} = {f \in outbox : f.seq <= st.watermark}
                 /\ nextSeq' >= nextSeq
      BY <1>0, <3>1
    <3>2. ASSUME NEW e \in Entity, NEW live \in BOOLEAN, LegacyWrite(e, live)
          PROVE  /\ {f \in outbox' : f.seq <= st.watermark} = {f \in outbox : f.seq <= st.watermark}
                 /\ nextSeq' >= nextSeq
      <4>1. outbox' = outbox \cup {TriggerEvent(e, live)} /\ nextSeq' = nextSeq + 1
        BY <3>2 DEF LegacyWrite
      <4>2. TriggerEvent(e, live).seq = nextSeq
        BY DEF TriggerEvent
      <4>3. ~(TriggerEvent(e, live).seq <= st.watermark)
        BY <1>0, <2>1, <4>2
      <4> QED BY <1>0, <4>1, <4>3
    <3>3. ASSUME NEW c \in Coordinator, Install(c) PROVE outbox' = outbox /\ nextSeq' = nextSeq
      BY <3>3 DEF Install
    <3> QED BY <3>1, <3>2, <3>3, LegacySideSteps, LegacyStepAlone DEF legacyVars
  <2>3. ASSUME NEW ev \in Last({f \in outbox : f.seq <= st.watermark}), ev.live
        PROVE  idmap'[ev.ent].ver >= ev.ver
    <3>0. ev \in outbox /\ ev \in Event /\ ev.ent \in Entity
      BY <1>0, <2>3 DEF Last, Event
    <3>1. idmap[ev.ent].ver >= ev.ver
      BY <2>1, <2>3 DEF Covered
    <3>2. ASSUME NEW c \in Coordinator, Repair(c) PROVE idmap'[ev.ent].ver >= ev.ver
      <4>1. CASE idmap'[ev.ent] = idmap[ev.ent]
        BY <3>1, <4>1
      <4>2. CASE idmap'[ev.ent] = [ver |-> legacy[ev.ent].ver, deleted |-> TRUE]
        <5>1. legacy[ev.ent].ver >= ev.ver
          BY <1>0, <3>0 DEF OutboxIsHistory, Row, Event
        <5> QED BY <4>2, <5>1
      <4> QED BY <3>0, <3>2, <4>1, <4>2 DEF Repair
    <3>3. ASSUME NEW e \in Entity, NEW epoch \in admitted, NEW content \in {Edited, Absent},
                 V2Write(e, epoch, content)
          PROVE  idmap' = idmap
      BY <3>3 DEF V2Write
    <3> QED BY <1>2, <3>1, <3>2, <3>3, V2SideSteps
  <2>4. st'.watermark < nextSeq'
    <3>1. nextSeq' \in Nat
      BY NextType DEF RowInv, TypeOK
    <3> QED BY <1>0, <1>2, <2>1, <2>2, <3>1
  <2>5. Covered(st.watermark, outbox, idmap')
    BY <2>3 DEF Covered
  <2>6. Covered(st.watermark, outbox', idmap')
    BY <2>2, <2>5 DEF Covered
  <2> QED BY <1>2, <2>4, <2>6
<1>3. Replaying' => Covered(st'.watermark, outbox', idmap') /\ st'.watermark < nextSeq'
  BY <1>2, WatermarkSteps, BackfillCovers, PageCovers
<1>4. NothingSkipped'
  BY <1>3, CoveredIsNothingSkipped
<1>5. WatermarkBehind'
  BY <1>3 DEF WatermarkBehind
<1> QED BY <1>1, <1>4, <1>5

(* On SQLite the watermark never passes a legacy upsert that replay has not  *)
(* projected (backfill_store.go, replay_store.go).  On PostgreSQL it does:   *)
(* run ReplaySkip.                                                           *)
THEOREM ReplaySkipsNothing == ~Postgres => (Spec => []NothingSkipped)
<1> SUFFICES ASSUME ~Postgres PROVE Spec => []NothingSkipped
  OBVIOUS
<1>1. RowInv /\ ReplayInv /\ [Next]_vars => ReplayInv'
  BY NextReplay
<1>2. ReplayInv => NothingSkipped
  BY DEF ReplayInv
<1> QED BY <1>1, <1>2, InitReplay, RowInvariant, PTL DEF Spec
=============================================================================
