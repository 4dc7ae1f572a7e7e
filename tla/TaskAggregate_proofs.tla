------------------------ MODULE TaskAggregate_proofs ------------------------
(***************************************************************************)
(* Proofs, for any number of projects, tasks, dates and revisions, of the  *)
(* properties of TaskAggregate that TLC checks on a small instance.        *)
(***************************************************************************)
EXTENDS TaskAggregate, TLAPS

----------------------------------------------------------------------------
(* Types *)

ProjectType == [status : Restorable \cup {"archived", "gone"}, from : Restorable \cup {"none"}]
Rows        == [OccurrenceKey -> OccurrenceType]

LEMMA KeysAreKeys ==
  /\ \A kind : KeysOf(kind) \subseteq OccurrenceKey
  /\ \A kind \in Kind : \A k \in KeysOf(kind) : kind = KindOf(k)
  /\ \A k : KindOf(k) \in Kind
  BY AggregateAssumption DEF KeysOf, KindOf, OccurrenceKey, Kind

LEMMA OccurrenceTypes ==
  /\ NoOccurrence \in OccurrenceType
  /\ \A r \in Kind : PlannedOccurrence(r) \in OccurrenceType
  /\ \A o \in OccurrenceType : CancelOccurrence(o) \in OccurrenceType
  /\ \A o \in OccurrenceType : Overridden(o) \in OccurrenceType
  /\ \A o \in OccurrenceType, r \in Kind : UnderNewVersion(o, r) \in OccurrenceType
  /\ \A o \in OccurrenceType, to \in Runnable \cup Terminal : Moved(o, to) \in OccurrenceType
  BY DEF OccurrenceType, Kind, Runnable, Terminal, NoOccurrence, PlannedOccurrence, CancelOccurrence,
         UnderNewVersion, Overridden, Moved

LEMMA NoTaskType ==
  \A life \in {"none", "gone"}, p \in Project : NoTask(life, p) \in TaskType
  BY DEF NoTask, TaskType, Kind

LEMMA VersionType ==
  ASSUME NEW row \in TaskType, NEW r \in Kind
  PROVE  WithVersion(row, r) \in TaskType
<1>1. row.kinds \cup {r} \in SUBSET Kind
  BY DEF TaskType
<1> QED BY <1>1 DEF WithVersion, TaskType

LEMMA LifeType ==
  ASSUME NEW row \in TaskType, NEW life \in Lifecycle \cup {"none", "gone"}
  PROVE  WithLife(row, life) \in TaskType
  BY DEF WithLife, TaskType

LEMMA InitTyped == AggregateInit => AggregateTypeOK
  BY OccurrenceTypes, NoTaskType DEF AggregateInit, AggregateTypeOK, Fresh, Restorable

(* What a schedule edit does, with the sets of its occurrences named.       *)
Edit(t, kind, staying, made, deleted) ==
  /\ \A k \in Present(t) : Stays(occ[t][k]) => k \in staying
  /\ made \subseteq KeysOf(kind) /\ made \cap staying = {}
  /\ deleted \cap (made \cup staying) = {}
  /\ made # {} => Accepts(task[t].project)
  /\ occ' = [occ EXCEPT ![t] = [k \in OccurrenceKey |->
       IF k \in made THEN UnderNewVersion(occ[t][k], kind)
       ELSE IF k \in deleted THEN NoOccurrence ELSE occ[t][k]]]
  /\ task' = [task EXCEPT ![t] = WithVersion(@, kind)]

LEMMA RescheduleShape ==
  ASSUME NEW v, NEW t \in Task, RescheduleThisAndFuture(v, t)
  PROVE  \E kind \in Kind, staying, made, deleted \in SUBSET OccurrenceKey :
           Edit(t, kind, staying, made, deleted)
<1>1. PICK kind \in Kind, past \in SUBSET OccurrenceKey :
      \E given \in SUBSET KeysOf(kind) :
       LET staying == {k \in Present(t) : k \in past \/ Stays(occ[t][k])}
           made    == given \ staying
           deleted == Present(t) \ (staying \cup given)
       IN  /\ made # {} => Accepts(task[t].project)
           /\ \A k \in deleted : ~occ[t][k].logged
           /\ occ' = [occ EXCEPT ![t] = [k \in OccurrenceKey |->
                IF k \in made THEN UnderNewVersion(occ[t][k], kind)
                ELSE IF k \in deleted THEN NoOccurrence ELSE occ[t][k]]]
           /\ task' = [task EXCEPT ![t] = WithVersion(@, kind)]
  BY DEF RescheduleThisAndFuture
<1>2. PICK given \in SUBSET KeysOf(kind) :
       LET staying == {k \in Present(t) : k \in past \/ Stays(occ[t][k])}
           made    == given \ staying
           deleted == Present(t) \ (staying \cup given)
       IN  /\ made # {} => Accepts(task[t].project)
           /\ occ' = [occ EXCEPT ![t] = [k \in OccurrenceKey |->
                IF k \in made THEN UnderNewVersion(occ[t][k], kind)
                ELSE IF k \in deleted THEN NoOccurrence ELSE occ[t][k]]]
           /\ task' = [task EXCEPT ![t] = WithVersion(@, kind)]
  BY <1>1
<1> DEFINE staying == {k \in Present(t) : k \in past \/ Stays(occ[t][k])}
           made    == given \ staying
           deleted == Present(t) \ (staying \cup given)
<1>3. /\ \A k \in Present(t) : Stays(occ[t][k]) => k \in staying
      /\ made \subseteq KeysOf(kind) /\ made \cap staying = {}
      /\ deleted \cap (made \cup staying) = {}
  OBVIOUS
<1>4. /\ staying \in SUBSET OccurrenceKey /\ made \in SUBSET OccurrenceKey
      /\ deleted \in SUBSET OccurrenceKey
  BY KeysAreKeys DEF Present
<1>5. /\ made # {} => Accepts(task[t].project)
      /\ occ' = [occ EXCEPT ![t] = [k \in OccurrenceKey |->
                IF k \in made THEN UnderNewVersion(occ[t][k], kind)
                ELSE IF k \in deleted THEN NoOccurrence ELSE occ[t][k]]]
      /\ task' = [task EXCEPT ![t] = WithVersion(@, kind)]
  BY <1>2
<1> HIDE DEF staying, made, deleted
<1>6. Edit(t, kind, staying, made, deleted)
  BY <1>3, <1>5 DEF Edit
<1> QED BY <1>4, <1>6

(* An archived project remembers a status it can be restored to.            *)
OriginKept == \A p \in Project : project[p].status = "archived" => project[p].from \in Restorable

TypeInv == AggregateTypeOK /\ OriginKept

(* A command replaces the rows of its task and leaves the other tasks and   *)
(* all readings alone.                                                      *)
LEMMA OneTask ==
  ASSUME AggregateTypeOK, NEW v, NEW t \in Task, TaskCommand(v, t)
  PROVE  /\ reading' = reading
         /\ task' = [task EXCEPT ![t] = task'[t]]
         /\ occ' = [occ EXCEPT ![t] = occ'[t]]
<1>0. /\ task \in [Task -> TaskType]
      /\ occ \in [Task -> Rows]
  BY DEF AggregateTypeOK, Rows
<1>1. CASE MoveTask(v, t)
  BY <1>0, <1>1 DEF MoveTask
<1>2. CASE EndTask(v, t)
  BY <1>0, <1>2 DEF EndTask
<1>3. CASE DeleteTask(v, t)
  BY <1>0, <1>3 DEF DeleteTask
<1>4. CASE \E p \in Project : PatchTask(v, t, p)
  BY <1>0, <1>4 DEF PatchTask
<1>5. CASE \E k \in OccurrenceKey : ExecuteOccurrence(v, t, k)
  BY <1>0, <1>5 DEF ExecuteOccurrence
<1>6. CASE \E k \in OccurrenceKey : RescheduleOccurrence(v, t, k)
  BY <1>0, <1>6 DEF RescheduleOccurrence
<1>7. CASE RescheduleThisAndFuture(v, t)
  <2>1. PICK kind \in Kind, staying \in SUBSET OccurrenceKey,
             made \in SUBSET OccurrenceKey, deleted \in SUBSET OccurrenceKey :
          Edit(t, kind, staying, made, deleted)
    BY <1>7, RescheduleShape
  <2>2. reading' = reading
    BY <1>7 DEF RescheduleThisAndFuture
  <2> QED BY <1>0, <2>1, <2>2 DEF Edit
<1> QED BY <1>1, <1>2, <1>3, <1>4, <1>5, <1>6, <1>7 DEF TaskCommand

(* Whatever a command does, every row keeps its type.                       *)
LEMMA CommandTyped ==
  ASSUME AggregateTypeOK, NEW v, NEW t \in Task, TaskCommand(v, t)
  PROVE  AggregateTypeOK'
<1>0. /\ task \in [Task -> TaskType] /\ task[t] \in TaskType
      /\ occ \in [Task -> Rows] /\ occ[t] \in Rows
  BY DEF AggregateTypeOK, Rows
<1>a. /\ reading' = reading
      /\ task' = [task EXCEPT ![t] = task'[t]]
      /\ occ' = [occ EXCEPT ![t] = occ'[t]]
  BY OneTask
<1>c. SUFFICES /\ project' \in [Project -> ProjectType]
               /\ task'[t] \in TaskType
               /\ occ'[t] \in Rows
  <2>1. ASSUME task'[t] \in TaskType, occ'[t] \in Rows
        PROVE  /\ task' \in [Task -> TaskType]
               /\ occ' \in [Task -> Rows]
    BY <1>0, <1>a, <2>1
  <2> QED BY <1>a, <2>1 DEF AggregateTypeOK, ProjectType, Rows
<1>b. project \in [Project -> ProjectType]
  BY DEF AggregateTypeOK, ProjectType
<1>1. CASE MoveTask(v, t)
  <2>1. PICK m \in LifecycleMoves : task' = [task EXCEPT ![t] = WithLife(@, m[2])]
    BY <1>1 DEF MoveTask
  <2>2. m[2] \in Lifecycle
    BY DEF LifecycleMoves, Lifecycle
  <2>3. task'[t] \in TaskType
    BY <1>0, <2>1, <2>2, LifeType
  <2> QED BY <1>0, <1>b, <1>1, <2>3 DEF MoveTask
<1>2. CASE EndTask(v, t)
  <2>1. task'[t] \in TaskType
    BY <1>0, <1>2, LifeType DEF EndTask, Ending, Lifecycle
  <2>2. occ'[t] \in Rows
    BY <1>0, <1>2, OccurrenceTypes DEF EndTask, Rows
  <2> QED BY <1>b, <1>2, <2>1, <2>2 DEF EndTask
<1>3. CASE DeleteTask(v, t)
  <2>1. task[t].project \in Project
    BY <1>0 DEF TaskType
  <2>2. task'[t] \in TaskType
    BY <1>0, <1>3, <2>1, NoTaskType DEF DeleteTask
  <2>3. occ'[t] \in Rows
    BY <1>0, <1>3, OccurrenceTypes DEF DeleteTask, Rows
  <2> QED BY <1>b, <1>3, <2>2, <2>3 DEF DeleteTask
<1>4. ASSUME NEW p \in Project, PatchTask(v, t, p)
      PROVE  project' \in [Project -> ProjectType] /\ task'[t] \in TaskType /\ occ'[t] \in Rows
  <2>1. task'[t] \in TaskType
    BY <1>0, <1>4 DEF PatchTask, TaskType
  <2>2. project' \in [Project -> ProjectType]
    BY <1>b, <1>4 DEF PatchTask, ProjectType, Restorable
  <2> QED BY <1>0, <1>4, <2>1, <2>2 DEF PatchTask
<1>5. ASSUME NEW k \in OccurrenceKey, ExecuteOccurrence(v, t, k)
      PROVE  project' \in [Project -> ProjectType] /\ task'[t] \in TaskType /\ occ'[t] \in Rows
  <2>1. PICK to \in Moves(occ[t][k]) :
          /\ \E life \in LifecyclesAfter(t, to) : task' = [task EXCEPT ![t] = WithLife(@, life)]
          /\ occ' = [occ EXCEPT ![t][k] = Moved(@, to)]
    BY <1>5 DEF ExecuteOccurrence
  <2>2. LifecyclesAfter(t, to) \subseteq Lifecycle \cup {"none", "gone"}
    <3>1. task[t].life \in Lifecycle \cup {"none", "gone"}
      BY <1>0 DEF TaskType
    <3> QED BY <3>1 DEF LifecyclesAfter, SingleLifecycles, RecurringLifecycles, Lifecycle
  <2>3. task'[t] \in TaskType
    BY <1>0, <2>1, <2>2, LifeType
  <2>4. occ'[t] \in Rows
    BY <1>0, <2>1, OccurrenceTypes DEF Moves, Rows
  <2> QED BY <1>b, <1>5, <2>3, <2>4 DEF ExecuteOccurrence
<1>6. ASSUME NEW k \in OccurrenceKey, RescheduleOccurrence(v, t, k)
      PROVE  project' \in [Project -> ProjectType] /\ task'[t] \in TaskType /\ occ'[t] \in Rows
  <2>1. occ'[t] \in Rows
    BY <1>0, <1>6, OccurrenceTypes DEF RescheduleOccurrence, Rows
  <2> QED BY <1>0, <1>b, <1>6, <2>1 DEF RescheduleOccurrence
<1>7. CASE RescheduleThisAndFuture(v, t)
  <2>1. PICK kind \in Kind, staying \in SUBSET OccurrenceKey,
             made \in SUBSET OccurrenceKey, deleted \in SUBSET OccurrenceKey :
          Edit(t, kind, staying, made, deleted)
    BY <1>7, RescheduleShape
  <2>2. task'[t] \in TaskType
    BY <1>0, <2>1, VersionType DEF Edit
  <2>3. occ'[t] = [k \in OccurrenceKey |->
          IF k \in made THEN UnderNewVersion(occ[t][k], kind)
          ELSE IF k \in deleted THEN NoOccurrence ELSE occ[t][k]]
    BY <1>0, <2>1 DEF Edit
  <2>4. ASSUME NEW k \in OccurrenceKey
        PROVE  occ'[t][k] \in OccurrenceType
    <3>1. occ[t][k] \in OccurrenceType
      BY <1>0 DEF Rows
    <3>2. UnderNewVersion(occ[t][k], kind) \in OccurrenceType
      BY <3>1 DEF UnderNewVersion, OccurrenceType, Runnable
    <3>3. NoOccurrence \in OccurrenceType
      BY OccurrenceTypes
    <3> QED BY <2>3, <3>1, <3>2, <3>3
  <2>5. occ'[t] \in Rows
    BY <2>3, <2>4 DEF Rows
  <2>6. project' = project
    BY <1>7 DEF RescheduleThisAndFuture
  <2> QED BY <1>b, <2>2, <2>5, <2>6
<1> QED BY <1>1, <1>2, <1>3, <1>4, <1>5, <1>6, <1>7 DEF TaskCommand

LEMMA CreateTyped ==
  ASSUME AggregateTypeOK, NEW t \in Task, NEW p \in Project, CreateTask(t, p)
  PROVE  AggregateTypeOK'
<1>1. PICK kind \in Kind, keys \in SUBSET OccurrenceKey :
        /\ keys \subseteq KeysOf(kind)
        /\ task' = [task EXCEPT ![t] = [life |-> "draft", revision |-> 1, project |-> p,
                      schedule |-> 1, kind |-> kind, kinds |-> {kind}]]
        /\ occ' = [occ EXCEPT ![t] = [k \in OccurrenceKey |->
                      IF k \in keys THEN PlannedOccurrence(kind) ELSE NoOccurrence]]
  BY KeysAreKeys DEF CreateTask
<1>2. [life |-> "draft", revision |-> 1, project |-> p,
       schedule |-> 1, kind |-> kind, kinds |-> {kind}] \in TaskType
  BY DEF TaskType, Lifecycle
<1>3. PlannedOccurrence(kind) \in OccurrenceType
  BY KeysAreKeys DEF PlannedOccurrence, OccurrenceType, Runnable
<1>4. task' \in [Task -> TaskType]
  BY <1>1, <1>2 DEF AggregateTypeOK
<1>5. occ' \in [Task -> [OccurrenceKey -> OccurrenceType]]
  BY <1>1, <1>3, OccurrenceTypes DEF AggregateTypeOK
<1> QED BY <1>4, <1>5 DEF AggregateTypeOK, CreateTask

LEMMA GenerateTyped ==
  ASSUME AggregateTypeOK, NEW t \in Task, GenerateMissing(t)
  PROVE  AggregateTypeOK'
<1>1. PICK keys \in SUBSET ((UNION {KeysOf(kind) : kind \in task[t].kinds}) \ Present(t)) :
        occ' = [occ EXCEPT ![t] = [k \in OccurrenceKey |->
                 IF k \in keys THEN PlannedOccurrence(KindOf(k)) ELSE occ[t][k]]]
  BY DEF GenerateMissing
<1>2. \A k \in OccurrenceKey : PlannedOccurrence(KindOf(k)) \in OccurrenceType
  BY KeysAreKeys DEF PlannedOccurrence, OccurrenceType, Runnable
<1>3. occ' \in [Task -> [OccurrenceKey -> OccurrenceType]]
  BY <1>1, <1>2 DEF AggregateTypeOK
<1> QED BY <1>3 DEF AggregateTypeOK, GenerateMissing

LEMMA ProjectTyped ==
  ASSUME TypeInv, NEW p \in Project, MoveProject(p) \/ DeleteProject(p)
  PROVE  AggregateTypeOK'
<1>0. project \in [Project -> ProjectType]
  BY DEF TypeInv, AggregateTypeOK, ProjectType
<1>1. CASE MoveProject(p)
  <2>1. PICK s \in NextStatuses(p) : project' = [project EXCEPT ![p] = WithStatus(s, @.status)]
    BY <1>1 DEF MoveProject
  <2>2. project[p].status \in Restorable \cup {"archived", "gone"}
    BY <1>0 DEF ProjectType
  <2>3. s \in Restorable \cup {"archived"} /\ (s = "archived" => project[p].status \in Restorable)
    BY <2>1, <2>2 DEF NextStatuses, TypeInv, OriginKept, Restorable
  <2>4. WithStatus(s, project[p].status) \in ProjectType
    BY <2>2, <2>3 DEF WithStatus, ProjectType
  <2>5. project' \in [Project -> ProjectType]
    BY <1>0, <2>1, <2>4
  <2> QED BY <1>1, <2>5 DEF MoveProject, TypeInv, AggregateTypeOK, ProjectType
<1>2. CASE DeleteProject(p)
  <2>1. project' \in [Project -> ProjectType]
    BY <1>0, <1>2 DEF DeleteProject, ProjectType
  <2>2. task' \in [Task -> TaskType]
    BY <1>2, NoTaskType DEF DeleteProject, TypeInv, AggregateTypeOK
  <2>3. occ' \in [Task -> [OccurrenceKey -> OccurrenceType]]
    BY <1>2, OccurrenceTypes DEF DeleteProject, TypeInv, AggregateTypeOK
  <2> QED BY <1>2, <2>1, <2>2, <2>3 DEF DeleteProject, TypeInv, AggregateTypeOK, ProjectType
<1> QED BY <1>1, <1>2

LEMMA ReadTyped ==
  ASSUME AggregateTypeOK, ReadTask
  PROVE  AggregateTypeOK'
  BY DEF AggregateTypeOK, ReadTask, Fresh

(* Only MoveProject archives a project.                                     *)
LEMMA OriginStep ==
  ASSUME TypeInv, [AggregateNext]_aggregateVars
  PROVE  OriginKept'
<1>0. /\ project \in [Project -> ProjectType]
      /\ \A p \in Project : project[p].status = "archived" => project[p].from \in Restorable
  BY DEF TypeInv, AggregateTypeOK, ProjectType, OriginKept
<1>1. CASE project' = project
  BY <1>0, <1>1 DEF OriginKept
<1>2. ASSUME NEW v, NEW t \in Task, NEW p \in Project, PatchTask(v, t, p)
      PROVE  OriginKept'
  BY <1>0, <1>2 DEF PatchTask, OriginKept, ProjectType
<1>3. ASSUME NEW p \in Project, MoveProject(p) PROVE OriginKept'
  <2>1. PICK s \in NextStatuses(p) : project' = [project EXCEPT ![p] = WithStatus(s, @.status)]
    BY <1>3 DEF MoveProject
  <2>2. s = "archived" => project[p].status \in Restorable
    BY <1>0, <2>1 DEF NextStatuses, Restorable, ProjectType
  <2> QED BY <1>0, <2>1, <2>2 DEF WithStatus, OriginKept, ProjectType
<1>4. ASSUME NEW p \in Project, DeleteProject(p) PROVE OriginKept'
  BY <1>0, <1>4 DEF DeleteProject, OriginKept, ProjectType
<1>5. ASSUME NEW v, NEW t \in Task, TaskCommand(v, t) PROVE OriginKept'
  BY <1>1, <1>2, <1>5 DEF TaskCommand, MoveTask, EndTask, DeleteTask, ExecuteOccurrence,
     RescheduleOccurrence, RescheduleThisAndFuture
<1> QED BY <1>1, <1>3, <1>4, <1>5
     DEF AggregateNext, aggregateVars, ReadTask, CreateTask, GenerateMissing

LEMMA TypeStep == TypeInv /\ [AggregateNext]_aggregateVars => TypeInv'
<1> SUFFICES ASSUME TypeInv, [AggregateNext]_aggregateVars PROVE AggregateTypeOK'
  BY OriginStep DEF TypeInv
<1>0. AggregateTypeOK
  BY DEF TypeInv
<1>1. CASE UNCHANGED aggregateVars
  BY <1>0, <1>1 DEF aggregateVars, AggregateTypeOK
<1>2. CASE ReadTask
  BY <1>0, <1>2, ReadTyped
<1>3. ASSUME NEW v, NEW t \in Task, TaskCommand(v, t) PROVE AggregateTypeOK'
  BY <1>0, <1>3, CommandTyped
<1>4. ASSUME NEW t \in Task PROVE GenerateMissing(t) => AggregateTypeOK'
  BY <1>0, GenerateTyped
<1>5. ASSUME NEW t \in Task, NEW p \in Project PROVE CreateTask(t, p) => AggregateTypeOK'
  BY <1>0, CreateTyped
<1>6. ASSUME NEW p \in Project PROVE MoveProject(p) \/ DeleteProject(p) => AggregateTypeOK'
  BY ProjectTyped
<1> QED BY <1>1, <1>2, <1>3, <1>4, <1>5, <1>6 DEF AggregateNext

LEMMA TypeInit == AggregateInit => TypeInv
<1>1. AggregateInit => OriginKept
  BY DEF AggregateInit, OriginKept
<1> QED BY <1>1, InitTyped DEF TypeInv

(* Every row of the task domain keeps its type, and an archived project the *)
(* status that a restore gives it back.                                     *)
THEOREM AggregateTypes == AggregateSpec => []AggregateTypeOK
<1>1. TypeInv => AggregateTypeOK
  BY DEF TypeInv
<1> QED BY <1>1, TypeInit, TypeStep, PTL DEF AggregateSpec

----------------------------------------------------------------------------
(* Rows and their keys *)

(* What the rows of a task have in common: a task that is not there has no  *)
(* occurrences, an occurrence that is not there no revision, and the key of *)
(* an occurrence tells whether the version it was made from recurs.         *)
RowsOK(t) ==
  /\ task[t].life = "none" => task[t].revision = 0 /\ task[t].schedule = 0
  /\ ~Exists(t) => \A k \in OccurrenceKey : occ[t][k].status = "none"
  /\ task[t].kind = "recurring" => "recurring" \in task[t].kinds
  /\ \A k \in OccurrenceKey :
       IF occ[t][k].status = "none" THEN occ[t][k].revision = 0
       ELSE occ[t][k].kind = KindOf(k) /\ occ[t][k].kind \in task[t].kinds

(* What one step does to a task, in terms of its rows.                      *)
SameRows(t) == task'[t] = task[t] /\ occ'[t] = occ[t]

Relived(t) ==
  /\ \E m \in LifecycleMoves : task[t].life = m[1] /\ task'[t] = WithLife(task[t], m[2])
  /\ occ'[t] = occ[t]

Ended(t) ==
  /\ \E life \in Ending(task[t].life) : task'[t] = WithLife(task[t], life)
  /\ occ'[t] = [k \in OccurrenceKey |->
       IF k \in OpenWork(t) THEN CancelOccurrence(occ[t][k]) ELSE occ[t][k]]

Gone(t) ==
  /\ task'[t] = NoTask("gone", task[t].project)
  /\ occ'[t] = [k \in OccurrenceKey |-> NoOccurrence]

Patched(t) ==
  /\ \E p \in Project :
       /\ task'[t] = [task[t] EXCEPT !.project = p, !.revision = @ + 1]
       /\ OpenWork(t) # {} => Accepts(p)
  /\ occ'[t] = occ[t]

ExecutedBy(t, k, to, life) ==
  /\ to \in Moves(occ[t][k]) /\ life \in LifecyclesAfter(t, to)
  /\ to \in Runnable => Accepts(task[t].project)
  /\ task'[t] = WithLife(task[t], life)
  /\ occ'[t] = [occ[t] EXCEPT ![k] = Moved(occ[t][k], to)]
Executed(t) == \E k \in Present(t) : \E to, life : ExecutedBy(t, k, to, life)

Rescheduled(t) ==
  \E k \in OpenWork(t) :
    /\ task'[t] = task[t]
    /\ occ'[t] = [occ[t] EXCEPT ![k] = Overridden(occ[t][k])]

EditedBy(t, kind, staying, made, deleted) ==
  /\ \A k \in Present(t) : Stays(occ[t][k]) => k \in staying
  /\ made \subseteq KeysOf(kind) /\ made \cap staying = {}
  /\ deleted \cap (made \cup staying) = {}
  /\ made # {} => Accepts(task[t].project)
  /\ occ'[t] = [k \in OccurrenceKey |->
       IF k \in made THEN UnderNewVersion(occ[t][k], kind)
       ELSE IF k \in deleted THEN NoOccurrence ELSE occ[t][k]]
  /\ task'[t] = WithVersion(task[t], kind)
Edited(t) ==
  \E kind \in Kind, staying, made, deleted \in SUBSET OccurrenceKey :
    EditedBy(t, kind, staying, made, deleted)

CreatedBy(t, kind, p, keys) ==
  /\ task[t].life = "none" /\ Accepts(p)
  /\ keys \subseteq KeysOf(kind)
  /\ task'[t] = [life |-> "draft", revision |-> 1, project |-> p,
                 schedule |-> 1, kind |-> kind, kinds |-> {kind}]
  /\ occ'[t] = [k \in OccurrenceKey |->
                 IF k \in keys THEN PlannedOccurrence(kind) ELSE NoOccurrence]
Created(t) ==
  \E kind \in Kind, p \in Project, keys \in SUBSET OccurrenceKey :
    CreatedBy(t, kind, p, keys)

Generated(t) ==
  /\ task[t].life = "active" /\ task[t].kind = "recurring"
  /\ \E keys \in SUBSET {k \in OccurrenceKey \ Present(t) : KindOf(k) \in task[t].kinds} :
       /\ task'[t] = task[t]
       /\ occ'[t] = [k \in OccurrenceKey |->
            IF k \in keys THEN PlannedOccurrence(KindOf(k)) ELSE occ[t][k]]

Commanded(t) ==
  /\ Exists(t)
  /\ Relived(t) \/ Ended(t) \/ Gone(t) \/ Patched(t) \/ Executed(t) \/ Rescheduled(t) \/ Edited(t)

LEMMA CommandRows ==
  ASSUME AggregateTypeOK, NEW v, NEW t \in Task, TaskCommand(v, t)
  PROVE  ExpectedTask(v, t) /\ Commanded(t)
<1>0. /\ task \in [Task -> TaskType] /\ task[t] \in TaskType
      /\ occ \in [Task -> Rows] /\ occ[t] \in Rows
  BY DEF AggregateTypeOK, Rows
<1>1. CASE MoveTask(v, t)
  <2>1. Relived(t)
    BY <1>0, <1>1 DEF MoveTask, Relived
  <2> QED BY <1>1, <2>1 DEF MoveTask, ExpectedTask, Commanded
<1>2. CASE EndTask(v, t)
  <2>1. Ended(t)
    BY <1>0, <1>2 DEF EndTask, Ended
  <2> QED BY <1>2, <2>1 DEF EndTask, ExpectedTask, Commanded
<1>3. CASE DeleteTask(v, t)
  <2>1. Gone(t)
    BY <1>0, <1>3 DEF DeleteTask, Gone
  <2> QED BY <1>3, <2>1 DEF DeleteTask, ExpectedTask, Commanded
<1>4. ASSUME NEW p \in Project, PatchTask(v, t, p) PROVE ExpectedTask(v, t) /\ Commanded(t)
  <2>1. task'[t] = [task[t] EXCEPT !.project = p, !.revision = @ + 1]
    BY <1>0, <1>4 DEF PatchTask
  <2>2. Patched(t)
    BY <1>4, <2>1 DEF PatchTask, Patched
  <2> QED BY <1>4, <2>2 DEF PatchTask, ExpectedTask, Commanded
<1>5. ASSUME NEW k \in OccurrenceKey, ExecuteOccurrence(v, t, k)
      PROVE  ExpectedTask(v, t) /\ Commanded(t)
  <2>1. PICK to \in Moves(occ[t][k]) :
          /\ to \in Runnable => Accepts(task[t].project)
          /\ \E life \in LifecyclesAfter(t, to) : task' = [task EXCEPT ![t] = WithLife(@, life)]
          /\ occ' = [occ EXCEPT ![t][k] = Moved(@, to)]
    BY <1>5 DEF ExecuteOccurrence
  <2>2. occ'[t] = [occ[t] EXCEPT ![k] = Moved(occ[t][k], to)]
    BY <1>0, <2>1
  <2>3. PICK life \in LifecyclesAfter(t, to) : task'[t] = WithLife(task[t], life)
    BY <1>0, <2>1
  <2>4. k \in Present(t)
    BY <1>5 DEF ExecuteOccurrence, ExpectedOccurrence
  <2>5. ExecutedBy(t, k, to, life)
    BY <2>1, <2>2, <2>3 DEF ExecutedBy
  <2>6. Executed(t)
    BY <2>4, <2>5 DEF Executed
  <2> QED BY <1>5, <2>6 DEF ExecuteOccurrence, ExpectedTask, Commanded
<1>6. ASSUME NEW k \in OccurrenceKey, RescheduleOccurrence(v, t, k)
      PROVE  ExpectedTask(v, t) /\ Commanded(t)
  <2>1. Rescheduled(t)
    BY <1>0, <1>6 DEF RescheduleOccurrence, Rescheduled
  <2> QED BY <1>6, <2>1 DEF RescheduleOccurrence, ExpectedTask, Commanded
<1>7. CASE RescheduleThisAndFuture(v, t)
  <2>1. PICK kind \in Kind, staying \in SUBSET OccurrenceKey,
             made \in SUBSET OccurrenceKey, deleted \in SUBSET OccurrenceKey :
          Edit(t, kind, staying, made, deleted)
    BY <1>7, RescheduleShape
  <2>2. EditedBy(t, kind, staying, made, deleted)
    BY <1>0, <2>1 DEF Edit, EditedBy
  <2>3. Edited(t)
    BY <2>2 DEF Edited
  <2> QED BY <1>7, <2>3 DEF RescheduleThisAndFuture, ExpectedTask, Commanded
<1> QED BY <1>1, <1>2, <1>3, <1>4, <1>5, <1>6, <1>7 DEF TaskCommand

(* Every step does to each task what a command does, creates or generates,  *)
(* or leaves it alone.                                                      *)
StepRows(t) == SameRows(t) \/ Created(t) \/ Generated(t) \/ Commanded(t)

LEMMA RowsOfStep ==
  ASSUME AggregateTypeOK, [AggregateNext]_aggregateVars, NEW u \in Task
  PROVE  StepRows(u)
<1>0. /\ task \in [Task -> TaskType] /\ task[u] \in TaskType
      /\ occ \in [Task -> Rows] /\ occ[u] \in Rows
  BY DEF AggregateTypeOK, Rows
<1>1. CASE task' = task /\ occ' = occ
  BY <1>1 DEF StepRows, SameRows
<1>2. ASSUME NEW v, NEW t \in Task, TaskCommand(v, t) PROVE StepRows(u)
  <2>1. CASE t = u
    BY <1>2, <2>1, CommandRows DEF StepRows
  <2>2. CASE t # u
    <3>1. /\ task' = [task EXCEPT ![t] = task'[t]]
          /\ occ' = [occ EXCEPT ![t] = occ'[t]]
      BY <1>2, OneTask
    <3> QED BY <1>0, <2>2, <3>1 DEF StepRows, SameRows
  <2> QED BY <2>1, <2>2
<1>3. ASSUME NEW t \in Task, NEW p \in Project, CreateTask(t, p) PROVE StepRows(u)
  <2>1. PICK kind \in Kind, keys \in SUBSET OccurrenceKey :
        /\ keys \subseteq KeysOf(kind)
        /\ task' = [task EXCEPT ![t] = [life |-> "draft", revision |-> 1, project |-> p,
                      schedule |-> 1, kind |-> kind, kinds |-> {kind}]]
        /\ occ' = [occ EXCEPT ![t] = [k \in OccurrenceKey |->
                      IF k \in keys THEN PlannedOccurrence(kind) ELSE NoOccurrence]]
    BY <1>3, KeysAreKeys DEF CreateTask
  <2>2. CASE t # u
    BY <1>0, <2>1, <2>2 DEF StepRows, SameRows
  <2>3. CASE t = u
    <3>2. /\ task'[t] = [life |-> "draft", revision |-> 1, project |-> p,
                         schedule |-> 1, kind |-> kind, kinds |-> {kind}]
          /\ occ'[t] = [k \in OccurrenceKey |->
                      IF k \in keys THEN PlannedOccurrence(kind) ELSE NoOccurrence]
      BY <1>0, <2>1
    <3>3. task[t].life = "none" /\ Accepts(p)
      BY <1>3 DEF CreateTask
    <3>4. CreatedBy(t, kind, p, keys)
      BY <2>1, <3>2, <3>3 DEF CreatedBy
    <3>5. Created(t)
      BY <3>4 DEF Created
    <3> QED BY <2>3, <3>5 DEF StepRows
  <2> QED BY <2>2, <2>3
<1>4. ASSUME NEW t \in Task, GenerateMissing(t) PROVE StepRows(u)
  <2>1. PICK keys \in SUBSET ((UNION {KeysOf(kind) : kind \in task[t].kinds}) \ Present(t)) :
          occ' = [occ EXCEPT ![t] = [k \in OccurrenceKey |->
                   IF k \in keys THEN PlannedOccurrence(KindOf(k)) ELSE occ[t][k]]]
    BY <1>4 DEF GenerateMissing
  <2>2. task' = task /\ task[t].life = "active" /\ task[t].kind = "recurring"
    BY <1>0, <1>4 DEF GenerateMissing, TaskType, AggregateTypeOK
  <2>3. CASE t # u
    BY <1>0, <2>1, <2>2, <2>3 DEF StepRows, SameRows
  <2>4. CASE t = u
    <3>1. occ'[t] = [k \in OccurrenceKey |->
                      IF k \in keys THEN PlannedOccurrence(KindOf(k)) ELSE occ[t][k]]
      BY <1>0, <2>1
    <3>2. keys \in SUBSET {k \in OccurrenceKey \ Present(t) : KindOf(k) \in task[t].kinds}
      <4>1. task[t].kinds \subseteq Kind
        BY <1>0, <2>4 DEF TaskType
      <4> QED BY <4>1, KeysAreKeys
    <3>3. Generated(t)
      BY <2>2, <3>1, <3>2 DEF Generated
    <3> QED BY <2>4, <3>3 DEF StepRows
  <2> QED BY <2>3, <2>4
<1>5. ASSUME NEW p \in Project, DeleteProject(p) PROVE StepRows(u)
  <2>1. CASE u \in TasksOf(p)
    <3>1. task'[u] = NoTask("gone", p) /\ occ'[u] = [k \in OccurrenceKey |-> NoOccurrence]
      BY <1>5, <2>1 DEF DeleteProject
    <3> QED BY <2>1, <3>1 DEF TasksOf, StepRows, Commanded, Gone
  <2>2. CASE u \notin TasksOf(p)
    BY <1>5, <2>2 DEF DeleteProject, StepRows, SameRows
  <2> QED BY <2>1, <2>2
<1>6. ASSUME NEW p \in Project, MoveProject(p) PROVE StepRows(u)
  BY <1>1, <1>6 DEF MoveProject
<1> QED BY <1>1, <1>2, <1>3, <1>4, <1>5, <1>6 DEF AggregateNext, aggregateVars, ReadTask

----------------------------------------------------------------------------
LEMMA RowsStep ==
  ASSUME AggregateTypeOK, NEW t \in Task, RowsOK(t), StepRows(t)
  PROVE  RowsOK(t)'
<1>0. task[t] \in TaskType /\ occ[t] \in Rows
  BY DEF AggregateTypeOK, Rows
<1>1. CASE SameRows(t)
  BY <1>1 DEF SameRows, RowsOK, Exists
<1>2. CASE Created(t)
  <2>1. PICK kind \in Kind, p \in Project, keys \in SUBSET OccurrenceKey :
          CreatedBy(t, kind, p, keys)
    BY <1>2 DEF Created
  <2>2. task'[t].life = "draft" /\ task'[t].kind = kind /\ task'[t].kinds = {kind}
    BY <2>1 DEF CreatedBy
  <2>3. \A k \in OccurrenceKey :
          IF k \in keys THEN occ'[t][k].status = "open" /\ occ'[t][k].kind = kind
                        ELSE occ'[t][k].status = "none" /\ occ'[t][k].revision = 0
    BY <2>1 DEF CreatedBy, PlannedOccurrence, NoOccurrence
  <2>4. \A k \in keys : kind = KindOf(k)
    BY <2>1, KeysAreKeys DEF CreatedBy
  <2> QED BY <2>2, <2>3, <2>4 DEF RowsOK, Exists, Lifecycle
<1>3. CASE Generated(t)
  <2>1. PICK keys \in SUBSET {k \in OccurrenceKey \ Present(t) : KindOf(k) \in task[t].kinds} :
          /\ task'[t] = task[t]
          /\ occ'[t] = [k \in OccurrenceKey |->
               IF k \in keys THEN PlannedOccurrence(KindOf(k)) ELSE occ[t][k]]
    BY <1>3 DEF Generated
  <2>2. \A k \in OccurrenceKey :
          IF k \in keys THEN occ'[t][k].status = "open" /\ occ'[t][k].kind = KindOf(k)
                        ELSE occ'[t][k] = occ[t][k]
    BY <2>1 DEF PlannedOccurrence
  <2>3. task[t].life = "active"
    BY <1>3 DEF Generated
  <2> QED BY <2>1, <2>2, <2>3 DEF RowsOK, Exists, Lifecycle
<1>4. CASE Exists(t) /\ Relived(t)
  <2>1. PICK m \in LifecycleMoves : task'[t] = WithLife(task[t], m[2])
    BY <1>4 DEF Relived
  <2>2. m[2] \in Lifecycle
    BY DEF LifecycleMoves, Lifecycle
  <2>3. /\ task'[t].life \in Lifecycle /\ task'[t].kind = task[t].kind
        /\ task'[t].kinds = task[t].kinds
    BY <2>1, <2>2 DEF WithLife
  <2> QED BY <1>4, <2>3 DEF Relived, RowsOK, Exists, Lifecycle
<1>5. CASE Exists(t) /\ Ended(t)
  <2>1. \A k \in OccurrenceKey :
          \/ occ'[t][k] = occ[t][k]
          \/ /\ occ[t][k].status # "none" /\ occ'[t][k].status = "cancelled"
             /\ occ'[t][k].kind = occ[t][k].kind
    BY <1>5 DEF Ended, OpenWork, CancelOccurrence, Runnable
  <2>2. PICK life \in Ending(task[t].life) : task'[t] = WithLife(task[t], life)
    BY <1>5 DEF Ended
  <2>3. /\ task'[t].life \in Lifecycle /\ task'[t].kind = task[t].kind
        /\ task'[t].kinds = task[t].kinds
    BY <2>2 DEF Ending, WithLife, Lifecycle
  <2> QED BY <2>1, <2>3 DEF RowsOK, Exists, Lifecycle
<1>6. CASE Exists(t) /\ Gone(t)
  <2>1. \A k \in OccurrenceKey : occ'[t][k].status = "none" /\ occ'[t][k].revision = 0
    BY <1>6 DEF Gone, NoOccurrence
  <2>2. task'[t].life = "gone" /\ task'[t].kind = "single"
    BY <1>6 DEF Gone, NoTask
  <2> QED BY <2>1, <2>2 DEF RowsOK
<1>7. CASE Exists(t) /\ Patched(t)
  <2>1. PICK p \in Project : task'[t] = [task[t] EXCEPT !.project = p, !.revision = @ + 1]
    BY <1>7 DEF Patched
  <2>2. /\ task'[t].life = task[t].life /\ task'[t].kind = task[t].kind
        /\ task'[t].kinds = task[t].kinds
    BY <1>0, <2>1 DEF TaskType
  <2> QED BY <1>7, <2>2 DEF Patched, RowsOK, Exists, Lifecycle
<1>8. CASE Exists(t) /\ Executed(t)
  <2>k. PICK k \in Present(t) : \E to, life : ExecutedBy(t, k, to, life)
    BY <1>8 DEF Executed
  <2>1. PICK to, life : k \in Present(t) /\ ExecutedBy(t, k, to, life)
    BY <2>k
  <2>2. life \in Lifecycle
    BY <1>8, <2>1 DEF ExecutedBy, LifecyclesAfter, SingleLifecycles, RecurringLifecycles, Exists, Lifecycle
  <2>3. /\ task'[t].life \in Lifecycle /\ task'[t].kind = task[t].kind
        /\ task'[t].kinds = task[t].kinds
    BY <2>1, <2>2 DEF ExecutedBy, WithLife
  <2>4. to # "none"
    BY <2>1 DEF ExecutedBy, Moves, Runnable, Terminal
  <2>5. \A j \in OccurrenceKey :
          \/ occ'[t][j] = occ[t][j]
          \/ /\ occ[t][j].status # "none" /\ occ'[t][j].status # "none"
             /\ occ'[t][j].kind = occ[t][j].kind
    BY <1>0, <2>1, <2>4 DEF ExecutedBy, Moved, Present, Rows
  <2> QED BY <2>3, <2>5 DEF RowsOK, Exists, Lifecycle
<1>9. CASE Exists(t) /\ Rescheduled(t)
  <2>1. \A j \in OccurrenceKey :
          \/ occ'[t][j] = occ[t][j]
          \/ /\ occ[t][j].status # "none" /\ occ'[t][j].status # "none"
             /\ occ'[t][j].kind = occ[t][j].kind
    BY <1>0, <1>9 DEF Rescheduled, Overridden, OpenWork, Runnable, Rows
  <2>2. task'[t] = task[t]
    BY <1>9 DEF Rescheduled
  <2> QED BY <1>9, <2>1, <2>2 DEF RowsOK, Exists
<1>10. CASE Exists(t) /\ Edited(t)
  <2>1. PICK kind \in Kind, staying \in SUBSET OccurrenceKey,
             made \in SUBSET OccurrenceKey, deleted \in SUBSET OccurrenceKey :
          EditedBy(t, kind, staying, made, deleted)
    BY <1>10 DEF Edited
  <2>2. /\ task'[t].life = task[t].life /\ task'[t].kind = kind
        /\ task'[t].kinds = task[t].kinds \cup {kind}
    BY <2>1 DEF EditedBy, WithVersion
  <2>3. \A k \in OccurrenceKey :
          IF k \in made THEN occ'[t][k].status = "open" /\ occ'[t][k].kind = kind
          ELSE IF k \in deleted THEN occ'[t][k].status = "none" /\ occ'[t][k].revision = 0
          ELSE occ'[t][k] = occ[t][k]
    BY <2>1 DEF EditedBy, UnderNewVersion, NoOccurrence
  <2>4. \A k \in made : kind = KindOf(k)
    BY <2>1, KeysAreKeys DEF EditedBy
  <2> QED BY <1>10, <2>2, <2>3, <2>4 DEF RowsOK, Exists, Lifecycle
<1> QED BY <1>1, <1>2, <1>3, <1>4, <1>5, <1>6, <1>7, <1>8, <1>9, <1>10 DEF StepRows, Commanded

----------------------------------------------------------------------------
(* Tasks that never recurred *)

OneOffOK(t) ==
  OneOff(t) =>
    /\ task[t].life = "completed" => occ[t][Once].status = "done"
    /\ occ[t][Once].status = "done" => task[t].life \in {"completed", "archived"}

\* Such a task has only its one occurrence, and its aggregate does not recur.
LEMMA OneOffKeys ==
  ASSUME NEW t \in Task, RowsOK(t), OneOff(t)
  PROVE  Present(t) \subseteq {Once} /\ ~Recurring(t)
<1>1. ASSUME NEW k \in Present(t) PROVE k = Once /\ occ[t][k].kind # "recurring"
  <2>1. occ[t][k].kind = KindOf(k) /\ occ[t][k].kind # "recurring"
    BY <1>1 DEF Present, RowsOK, OneOff
  <2> QED BY <2>1 DEF KindOf
<1> QED BY <1>1 DEF Recurring

LEMMA OneOffStep ==
  ASSUME AggregateTypeOK, NEW t \in Task, RowsOK(t), OneOffOK(t), StepRows(t)
  PROVE  OneOffOK(t)'
<1>0. task[t] \in TaskType /\ occ[t] \in Rows /\ Once \in OccurrenceKey
  BY DEF AggregateTypeOK, Rows, OccurrenceKey
<1> SUFFICES ASSUME OneOff(t)' PROVE OneOffOK(t)'
  BY DEF OneOffOK
<1>1. CASE SameRows(t)
  BY <1>1 DEF SameRows, OneOffOK, OneOff, Exists
<1>2. CASE Created(t)
  <2>1. PICK kind \in Kind, p \in Project, keys \in SUBSET OccurrenceKey :
          CreatedBy(t, kind, p, keys)
    BY <1>2 DEF Created
  <2>2. task'[t].life = "draft" /\ occ'[t][Once].status # "done"
    BY <1>0, <2>1 DEF CreatedBy, PlannedOccurrence, NoOccurrence
  <2> QED BY <2>2 DEF OneOffOK
<1>3. CASE Generated(t)
  BY <1>3 DEF Generated, RowsOK, OneOff
<1>4. CASE Exists(t) /\ Relived(t)
  <2>1. PICK m \in LifecycleMoves : task[t].life = m[1] /\ task'[t] = WithLife(task[t], m[2])
    BY <1>4 DEF Relived
  <2>2. /\ m[1] \in {"draft", "active", "paused", "cancelled"} /\ m[2] # "completed"
    BY DEF LifecycleMoves
  <2>3. task'[t].life = m[2] /\ task'[t].kinds = task[t].kinds /\ occ'[t] = occ[t]
    BY <1>4, <2>1 DEF WithLife, Relived
  <2> QED BY <1>4, <2>1, <2>2, <2>3 DEF OneOffOK, OneOff
<1>5. CASE Exists(t) /\ Ended(t)
  <2>1. PICK life \in Ending(task[t].life) : task'[t] = WithLife(task[t], life)
    BY <1>5 DEF Ended
  <2>2. task'[t].life = life /\ task'[t].kinds = task[t].kinds
    BY <2>1 DEF WithLife
  <2>3. occ'[t][Once].status = "done" => occ[t][Once].status = "done"
    BY <1>0, <1>5 DEF Ended, CancelOccurrence
  <2>4. \/ life = "archived"
        \/ life = "cancelled" /\ task[t].life \in {"draft", "active", "paused"}
    BY DEF Ending
  <2> QED BY <1>5, <2>2, <2>3, <2>4 DEF OneOffOK, OneOff
<1>6. CASE Exists(t) /\ Gone(t)
  BY <1>6 DEF Gone, NoTask, OneOff, Exists, Lifecycle
<1>7. CASE Exists(t) /\ Patched(t)
  <2>1. /\ task'[t].life = task[t].life /\ task'[t].kinds = task[t].kinds
        /\ occ'[t] = occ[t]
    BY <1>0, <1>7 DEF Patched, TaskType
  <2> QED BY <1>7, <2>1 DEF OneOffOK, OneOff
<1>8. CASE Exists(t) /\ Executed(t)
  <2>k. PICK k \in Present(t) : \E to, life : ExecutedBy(t, k, to, life)
    BY <1>8 DEF Executed
  <2>1. PICK to, life : k \in Present(t) /\ ExecutedBy(t, k, to, life)
    BY <2>k
  <2>2. task'[t].life = life /\ task'[t].kinds = task[t].kinds
    BY <2>1 DEF ExecutedBy, WithLife
  <2>3. k = Once /\ ~Recurring(t) /\ OneOff(t)
    BY <1>8, <2>2, OneOffKeys DEF OneOff
  <2>4. life \in SingleLifecycles(task[t].life, to)
    BY <2>1, <2>3 DEF ExecutedBy, LifecyclesAfter
  <2>5. occ'[t][Once].status = to
    BY <1>0, <2>1, <2>3 DEF ExecutedBy, Moved, Rows
  <2>6. to \in Moves(occ[t][Once]) /\ occ[t][Once].kind # "recurring"
    BY <2>1, <2>3 DEF ExecutedBy, Recurring
  <2>7. CASE to = "done"
    BY <2>2, <2>4, <2>5, <2>7 DEF SingleLifecycles, OneOffOK
  <2>8. CASE to = "open"
    BY <2>2, <2>4, <2>5, <2>8 DEF SingleLifecycles, OneOffOK
  <2>9. CASE to = "cancelled"
    BY <2>2, <2>4, <2>5, <2>9 DEF SingleLifecycles, OneOffOK
  <2>10. CASE to \in {"active", "blocked", "skipped"}
    <3>1. occ[t][Once].status # "done"
      BY <2>6, <2>10 DEF Moves
    <3>2. life = task[t].life
      BY <2>4, <2>10 DEF SingleLifecycles
    <3> QED BY <2>2, <2>3, <2>5, <2>10, <3>1, <3>2 DEF OneOffOK
  <2>11. to \in {"done", "open", "cancelled", "active", "blocked", "skipped"}
    BY <2>6 DEF Moves, Runnable, Terminal
  <2> QED BY <2>7, <2>8, <2>9, <2>10, <2>11
<1>9. CASE Exists(t) /\ Rescheduled(t)
  <2>1. occ'[t][Once].status = occ[t][Once].status /\ task'[t] = task[t]
    BY <1>0, <1>9 DEF Rescheduled, Overridden, Rows
  <2> QED BY <1>9, <2>1 DEF OneOffOK, OneOff
<1>10. CASE Exists(t) /\ Edited(t)
  <2>1. PICK kind \in Kind, staying \in SUBSET OccurrenceKey,
             made \in SUBSET OccurrenceKey, deleted \in SUBSET OccurrenceKey :
          EditedBy(t, kind, staying, made, deleted)
    BY <1>10 DEF Edited
  <2>2. /\ task'[t].life = task[t].life
        /\ task'[t].kinds = task[t].kinds \cup {kind}
    BY <2>1 DEF EditedBy, WithVersion
  <2>3. OneOff(t)
    BY <1>10, <2>2 DEF OneOff
  <2>4. occ[t][Once].status = "done" => occ'[t][Once] = occ[t][Once]
    BY <1>0, <2>1 DEF EditedBy, Present, Stays, Terminal
  <2>5. occ[t][Once].status # "done" => occ'[t][Once].status # "done"
    BY <1>0, <2>1 DEF EditedBy, UnderNewVersion, NoOccurrence
  <2> QED BY <2>2, <2>3, <2>4, <2>5 DEF OneOffOK
<1> QED BY <1>1, <1>2, <1>3, <1>4, <1>5, <1>6, <1>7, <1>8, <1>9, <1>10 DEF StepRows, Commanded

(* What ends a task leaves nothing runnable: cancelling or archiving        *)
(* cancels all there is, and an occurrence takes its task along only if     *)
(* there is no other.                                                       *)
LEMMA EndingStep ==
  ASSUME AggregateTypeOK, NEW t \in Task, RowsOK(t), StepRows(t),
         task'[t].life \in Ending(task[t].life)
  PROVE  OpenWork(t)' = {}
<1>0. task[t] \in TaskType /\ occ[t] \in Rows /\ Once \in OccurrenceKey
  BY DEF AggregateTypeOK, Rows, OccurrenceKey
<1>1. task'[t].life # task[t].life /\ task'[t].life \in {"cancelled", "archived"}
  BY DEF Ending
<1>2. CASE SameRows(t) \/ Generated(t)
  BY <1>1, <1>2 DEF SameRows, Generated
<1>3. CASE Created(t)
  BY <1>1, <1>3 DEF Created, CreatedBy
<1>4. CASE Exists(t) /\ Relived(t)
  <2>1. PICK m \in LifecycleMoves : task'[t] = WithLife(task[t], m[2])
    BY <1>4 DEF Relived
  <2> QED BY <1>1, <2>1 DEF LifecycleMoves, WithLife
<1>5. CASE Exists(t) /\ Ended(t)
  BY <1>5 DEF Ended, OpenWork, CancelOccurrence, Runnable
<1>6. CASE Exists(t) /\ Gone(t)
  BY <1>1, <1>6 DEF Gone, NoTask
<1>7. CASE Exists(t) /\ Patched(t)
  <2>1. task'[t].life = task[t].life
    BY <1>0, <1>7 DEF Patched, TaskType
  <2> QED BY <1>1, <2>1
<1>8. CASE Exists(t) /\ Executed(t)
  <2>k. PICK k \in Present(t) : \E to, life : ExecutedBy(t, k, to, life)
    BY <1>8 DEF Executed
  <2>1. PICK to, life : k \in Present(t) /\ ExecutedBy(t, k, to, life)
    BY <2>k
  <2>2. task'[t].life = life
    BY <2>1 DEF ExecutedBy, WithLife
  <2>3. ~Recurring(t)
    BY <1>1, <2>1, <2>2 DEF ExecutedBy, LifecyclesAfter, RecurringLifecycles
  <2>4. to = "cancelled"
    BY <1>1, <2>1, <2>2, <2>3 DEF ExecutedBy, LifecyclesAfter, SingleLifecycles
  <2>5. ASSUME NEW j \in Present(t) PROVE j = Once
    <3>1. occ[t][j].kind = KindOf(j) /\ occ[t][j].kind # "recurring"
      BY <2>3, <2>5 DEF Recurring, RowsOK, Present
    <3> QED BY <3>1 DEF KindOf
  <2>6. \A j \in OccurrenceKey : occ'[t][j].status \notin Runnable
    BY <1>0, <2>1, <2>4, <2>5 DEF ExecutedBy, Moved, Rows, Present, Runnable
  <2> QED BY <2>6 DEF OpenWork
<1>9. CASE Exists(t) /\ (Rescheduled(t) \/ Edited(t))
  <2>1. CASE Rescheduled(t)
    BY <1>1, <2>1 DEF Rescheduled
  <2>2. CASE Edited(t)
    <3>1. PICK kind \in Kind, staying \in SUBSET OccurrenceKey,
               made \in SUBSET OccurrenceKey, deleted \in SUBSET OccurrenceKey :
            EditedBy(t, kind, staying, made, deleted)
      BY <2>2 DEF Edited
    <3> QED BY <1>1, <3>1 DEF EditedBy, WithVersion
  <2> QED BY <1>9, <2>1, <2>2
<1> QED BY <1>2, <1>3, <1>4, <1>5, <1>6, <1>7, <1>8, <1>9 DEF StepRows, Commanded

----------------------------------------------------------------------------
(* Completed projects *)

(* Completed, or archived when it was: a restore makes it completed again.  *)
Closed(p) ==
  project[p].status = "completed" \/ (project[p].status = "archived" /\ project[p].from = "completed")

QuietOK(t) == OneOff(t) /\ Closed(task[t].project) => OpenWork(t) = {}

\* A closed project accepts no work, and closing it is refused while there is some.
LEMMA ClosedStep ==
  ASSUME TypeInv, [AggregateNext]_aggregateVars, NEW p \in Project, Closed(p)'
  PROVE  \/ Closed(p)
         \/ task' = task /\ occ' = occ /\ \A u \in TasksOf(p) : OpenWork(u) = {}
<1>0. project \in [Project -> ProjectType]
  BY DEF TypeInv, AggregateTypeOK, ProjectType
<1>1. ASSUME project' = project PROVE Closed(p)
  BY <1>1 DEF Closed
<1>2. ASSUME NEW v, NEW t \in Task, NEW q \in Project, PatchTask(v, t, q)
      PROVE  Closed(p)
  BY <1>0, <1>2 DEF PatchTask, Closed, ProjectType
<1>3. ASSUME NEW q \in Project, MoveProject(q)
      PROVE  \/ Closed(p)
             \/ task' = task /\ occ' = occ /\ \A u \in TasksOf(p) : OpenWork(u) = {}
  <2>1. PICK s \in NextStatuses(q) :
          /\ s = "completed" /\ project[q].status # "archived"
               => \A t \in TasksOf(q) : OpenWork(t) = {}
          /\ project' = [project EXCEPT ![q] = WithStatus(s, @.status)]
    BY <1>3 DEF MoveProject
  <2>2. CASE p # q
    BY <1>0, <2>1, <2>2 DEF Closed
  <2>3. CASE p = q
    <3>1. project'[p] = WithStatus(s, project[p].status)
      BY <1>0, <2>1, <2>3
    <3>2. CASE s = "archived"
      BY <3>1, <3>2 DEF WithStatus, Closed
    <3>3. CASE s # "archived"
      <4>1. s = "completed"
        BY <3>1, <3>3 DEF WithStatus, Closed
      <4>2. CASE project[p].status = "archived"
        BY <2>1, <2>3, <4>1, <4>2 DEF NextStatuses, Closed
      <4>3. CASE project[p].status # "archived"
        BY <1>3, <2>1, <2>3, <4>1, <4>3 DEF MoveProject
      <4> QED BY <4>2, <4>3
    <3> QED BY <3>2, <3>3
  <2> QED BY <2>2, <2>3
<1>4. ASSUME NEW q \in Project, DeleteProject(q) PROVE Closed(p)
  BY <1>0, <1>4 DEF DeleteProject, Closed, ProjectType
<1>5. ASSUME NEW v, NEW t \in Task, TaskCommand(v, t) PROVE Closed(p)
  <2>1. project' = project \/ \E q \in Project : PatchTask(v, t, q)
    BY <1>5 DEF TaskCommand, MoveTask, EndTask, DeleteTask, ExecuteOccurrence,
       RescheduleOccurrence, RescheduleThisAndFuture
  <2> QED BY <1>1, <1>2, <2>1
<1> QED BY <1>1, <1>3, <1>4, <1>5
     DEF AggregateNext, aggregateVars, ReadTask, CreateTask, GenerateMissing

LEMMA QuietStep ==
  ASSUME TypeInv, [AggregateNext]_aggregateVars,
         NEW t \in Task, RowsOK(t), QuietOK(t), AggregateTypeOK'
  PROVE  QuietOK(t)'
<1>0. /\ task[t] \in TaskType /\ occ[t] \in Rows /\ task'[t].project \in Project
      /\ StepRows(t)
  BY RowsOfStep DEF TypeInv, AggregateTypeOK, Rows, TaskType
<1> SUFFICES ASSUME OneOff(t)', Closed(task[t].project)' PROVE OpenWork(t)' = {}
  BY DEF QuietOK
<1>1. \/ Closed(task'[t].project)
      \/ task' = task /\ occ' = occ /\ \A u \in TasksOf(task'[t].project) : OpenWork(u) = {}
  BY <1>0, ClosedStep
<1>2. CASE task' = task /\ occ' = occ /\ \A u \in TasksOf(task'[t].project) : OpenWork(u) = {}
  BY <1>2 DEF TasksOf, OneOff, Exists, OpenWork
<1>3. CASE Closed(task'[t].project)
  <2>1. ~Accepts(task'[t].project)
    BY <1>3 DEF Closed, Accepts
  <2>2. CASE SameRows(t)
    BY <1>3, <2>2 DEF SameRows, QuietOK, OneOff, Exists, OpenWork
  <2>3. CASE Created(t)
    BY <2>1, <2>3 DEF Created, CreatedBy
  <2>4. CASE Generated(t)
    BY <2>4 DEF Generated, RowsOK, OneOff
  <2>5. CASE Exists(t) /\ Relived(t)
    <3>1. /\ task'[t].project = task[t].project /\ task'[t].kinds = task[t].kinds
          /\ occ'[t] = occ[t]
      BY <2>5 DEF Relived, WithLife
    <3> QED BY <1>3, <2>5, <3>1 DEF QuietOK, OneOff, OpenWork
  <2>6. CASE Exists(t) /\ Ended(t)
    BY <2>6 DEF Ended, OpenWork, CancelOccurrence, Runnable
  <2>7. CASE Exists(t) /\ Gone(t)
    BY <2>7 DEF Gone, NoTask, OneOff, Exists, Lifecycle
  <2>8. CASE Exists(t) /\ Patched(t)
    <3>1. PICK p \in Project : /\ task'[t] = [task[t] EXCEPT !.project = p, !.revision = @ + 1]
                               /\ OpenWork(t) # {} => Accepts(p)
      BY <2>8 DEF Patched
    <3>2. task'[t].project = p
      BY <1>0, <3>1 DEF TaskType
    <3>3. OpenWork(t)' = OpenWork(t)
      BY <2>8 DEF Patched, OpenWork
    <3> QED BY <2>1, <3>1, <3>2, <3>3
  <2>9. CASE Exists(t) /\ Executed(t)
    <3>k. PICK k \in Present(t) : \E to, life : ExecutedBy(t, k, to, life)
      BY <2>9 DEF Executed
    <3>1. PICK to, life : k \in Present(t) /\ ExecutedBy(t, k, to, life)
      BY <3>k
    <3>2. task'[t].project = task[t].project /\ task'[t].kinds = task[t].kinds
      BY <3>1 DEF ExecutedBy, WithLife
    <3>3. OpenWork(t) = {} /\ to \notin Runnable
      BY <1>3, <2>1, <2>9, <3>1, <3>2 DEF QuietOK, OneOff, ExecutedBy
    <3>4. \A j \in OccurrenceKey : occ'[t][j].status \notin Runnable
      BY <1>0, <3>1, <3>3 DEF ExecutedBy, Moved, Rows, OpenWork
    <3> QED BY <3>4 DEF OpenWork
  <2>10. CASE Exists(t) /\ Rescheduled(t)
    <3>1. OpenWork(t) # {} /\ task'[t] = task[t]
      BY <2>10 DEF Rescheduled
    <3> QED BY <1>3, <2>10, <3>1 DEF QuietOK, OneOff
  <2>11. CASE Exists(t) /\ Edited(t)
    <3>1. PICK kind \in Kind, staying \in SUBSET OccurrenceKey,
               made \in SUBSET OccurrenceKey, deleted \in SUBSET OccurrenceKey :
            EditedBy(t, kind, staying, made, deleted)
      BY <2>11 DEF Edited
    <3>2. /\ task'[t].project = task[t].project
          /\ task'[t].kinds = task[t].kinds \cup {kind}
      BY <3>1 DEF EditedBy, WithVersion
    <3>3. OpenWork(t) = {} /\ made = {}
      BY <1>3, <2>1, <2>11, <3>1, <3>2 DEF QuietOK, OneOff, EditedBy
    <3>4. \A j \in OccurrenceKey : occ'[t][j].status \notin Runnable
      BY <3>1, <3>3 DEF EditedBy, NoOccurrence, OpenWork, Runnable
    <3> QED BY <3>4 DEF OpenWork
  <2> QED BY <1>0, <2>2, <2>3, <2>4, <2>5, <2>6, <2>7, <2>8, <2>9, <2>10, <2>11
          DEF StepRows, Commanded
<1> QED BY <1>1, <1>2, <1>3

----------------------------------------------------------------------------
(* Readings *)

(* A reading of a task is not ahead of it; while the revisions of the task  *)
(* and of its schedule are those it read, the task is what it read and each *)
(* occurrence is what it read or has gone on.                               *)
ReadingOK(t) ==
  /\ task[t].life = "none" => reading.task[t].revision = 0 /\ reading.task[t].schedule = 0
  /\ Exists(t) =>
       /\ reading.task[t].revision <= task[t].revision
       /\ reading.task[t].schedule <= task[t].schedule
       /\ reading.task[t].revision = task[t].revision /\ reading.task[t].schedule = task[t].schedule
            => /\ reading.task[t] = task[t]
               /\ \A k \in OccurrenceKey :
                    \/ reading.occ[t][k] = occ[t][k]
                    \/ reading.occ[t][k].revision < occ[t][k].revision

LEMMA ReadingStep ==
  ASSUME AggregateTypeOK, [AggregateNext]_aggregateVars,
         NEW t \in Task, RowsOK(t), ReadingOK(t), AggregateTypeOK'
  PROVE  ReadingOK(t)'
<1>0. /\ task[t] \in TaskType /\ occ[t] \in Rows /\ task'[t] \in TaskType /\ occ'[t] \in Rows
      /\ reading.task[t] \in TaskType /\ reading.occ[t] \in Rows
      /\ StepRows(t)
  BY RowsOfStep DEF AggregateTypeOK, Rows
<1>n. /\ task[t].revision \in Nat /\ task[t].schedule \in Nat
      /\ reading.task[t].revision \in Nat /\ reading.task[t].schedule \in Nat
      /\ \A k \in OccurrenceKey : occ[t][k].revision \in Nat /\ reading.occ[t][k].revision \in Nat
  BY <1>0 DEF TaskType, Rows, OccurrenceType
<1>1. CASE ReadTask
  BY <1>1, <1>n DEF ReadTask, Fresh, ReadingOK, RowsOK, Exists
<1>2. CASE reading' = reading
  <2>1. CASE SameRows(t)
    BY <1>2, <2>1 DEF SameRows, ReadingOK, Exists
  <2>2. CASE Created(t)
    <3>1. task'[t].life = "draft" /\ task'[t].revision = 1 /\ task'[t].schedule = 1
      BY <2>2 DEF Created, CreatedBy
    <3>2. reading.task[t].revision = 0 /\ reading.task[t].schedule = 0
      BY <2>2 DEF Created, CreatedBy, ReadingOK
    <3> QED BY <1>2, <3>1, <3>2 DEF ReadingOK
  <2>3. CASE Generated(t)
    <3>1. PICK keys \in SUBSET {k \in OccurrenceKey \ Present(t) : KindOf(k) \in task[t].kinds} :
            /\ task'[t] = task[t]
            /\ occ'[t] = [k \in OccurrenceKey |->
                 IF k \in keys THEN PlannedOccurrence(KindOf(k)) ELSE occ[t][k]]
      BY <2>3 DEF Generated
    <3>2. \A k \in OccurrenceKey :
            \/ occ'[t][k] = occ[t][k]
            \/ occ'[t][k].revision = 1 /\ occ[t][k].revision = 0
      BY <3>1 DEF PlannedOccurrence, Present, RowsOK
    <3>3. \A k \in OccurrenceKey :
            \/ occ'[t][k] = occ[t][k]
            \/ occ'[t][k].revision \in Nat /\ occ[t][k].revision < occ'[t][k].revision
      BY <3>2
    <3> QED BY <1>2, <1>n, <3>1, <3>3 DEF ReadingOK, Exists
  <2>4. CASE Exists(t) /\ (Relived(t) \/ Ended(t) \/ Executed(t))
    <3>1. task'[t].revision = task[t].revision + 1 /\ task'[t].schedule = task[t].schedule
      <4>1. \E life : task'[t] = WithLife(task[t], life)
        BY <2>4 DEF Relived, Ended, Executed, ExecutedBy
      <4> QED BY <4>1 DEF WithLife
    <3>2. task'[t].life # "none"
      <4>1. CASE Relived(t)
        BY <4>1 DEF Relived, LifecycleMoves, WithLife
      <4>2. CASE Ended(t)
        BY <4>2 DEF Ended, Ending, WithLife
      <4>3. CASE Executed(t)
        <5>k. PICK k \in Present(t) : \E to, life : ExecutedBy(t, k, to, life)
          BY <4>3 DEF Executed
        <5>1. PICK to, life : k \in Present(t) /\ ExecutedBy(t, k, to, life)
          BY <5>k
        <5> QED BY <2>4, <5>1 DEF ExecutedBy, WithLife, LifecyclesAfter, SingleLifecycles,
                  RecurringLifecycles, Exists, Lifecycle
      <4> QED BY <2>4, <4>1, <4>2, <4>3
    <3> QED BY <1>2, <1>n, <2>4, <3>1, <3>2 DEF ReadingOK, Exists
  <2>5. CASE Exists(t) /\ Patched(t)
    <3>1. /\ task'[t].revision = task[t].revision + 1 /\ task'[t].schedule = task[t].schedule
          /\ task'[t].life = task[t].life
      BY <1>0, <2>5 DEF Patched, TaskType
    <3> QED BY <1>2, <1>n, <2>5, <3>1 DEF ReadingOK, Exists, Lifecycle
  <2>6. CASE Exists(t) /\ Gone(t)
    BY <2>6 DEF Gone, NoTask, ReadingOK, Exists, Lifecycle
  <2>7. CASE Exists(t) /\ Rescheduled(t)
    <3>1. PICK k \in OpenWork(t) : /\ task'[t] = task[t]
                                   /\ occ'[t] = [occ[t] EXCEPT ![k] = Overridden(occ[t][k])]
      BY <2>7 DEF Rescheduled
    <3>2. \A j \in OccurrenceKey :
            \/ occ'[t][j] = occ[t][j]
            \/ occ'[t][j].revision = occ[t][j].revision + 1
      BY <1>0, <3>1 DEF Overridden, Rows
    <3>3. \A j \in OccurrenceKey :
            \/ occ'[t][j] = occ[t][j]
            \/ occ'[t][j].revision \in Nat /\ occ[t][j].revision < occ'[t][j].revision
      BY <1>n, <3>2
    <3> QED BY <1>2, <1>n, <2>7, <3>1, <3>3 DEF ReadingOK, Exists
  <2>8. CASE Exists(t) /\ Edited(t)
    <3>1. PICK kind \in Kind, staying \in SUBSET OccurrenceKey,
               made \in SUBSET OccurrenceKey, deleted \in SUBSET OccurrenceKey :
            EditedBy(t, kind, staying, made, deleted)
      BY <2>8 DEF Edited
    <3>2. /\ task'[t].revision = task[t].revision /\ task'[t].schedule = task[t].schedule + 1
          /\ task'[t].life = task[t].life
      BY <3>1 DEF EditedBy, WithVersion
    <3> QED BY <1>2, <1>n, <2>8, <3>2 DEF ReadingOK, Exists, Lifecycle
  <2> QED BY <1>0, <2>1, <2>2, <2>3, <2>4, <2>5, <2>6, <2>7, <2>8 DEF StepRows, Commanded
<1>3. ASSUME NEW v, NEW u \in Task, TaskCommand(v, u) PROVE reading' = reading
  BY <1>3, OneTask
<1>4. ReadTask \/ reading' = reading
  BY <1>3 DEF AggregateNext, aggregateVars, CreateTask, GenerateMissing, MoveProject, DeleteProject
<1> QED BY <1>1, <1>2, <1>4

----------------------------------------------------------------------------
(* The invariant and the theorems *)

IInv ==
  /\ TypeInv
  /\ \A t \in Task : RowsOK(t) /\ OneOffOK(t) /\ QuietOK(t) /\ ReadingOK(t)

LEMMA InitInv == AggregateInit => IInv
<1> SUFFICES ASSUME AggregateInit PROVE IInv
  OBVIOUS
<1>1. TypeInv
  BY TypeInit
<1>2. ASSUME NEW t \in Task PROVE RowsOK(t) /\ OneOffOK(t) /\ QuietOK(t) /\ ReadingOK(t)
  <2>1. /\ task[t].life = "none" /\ task[t].revision = 0 /\ task[t].schedule = 0
        /\ task[t].kind = "single"
        /\ \A k \in OccurrenceKey : occ[t][k].status = "none" /\ occ[t][k].revision = 0
        /\ reading.task[t] = task[t]
    BY DEF AggregateInit, NoTask, NoOccurrence, Fresh
  <2>2. ~Exists(t)
    BY <2>1 DEF Exists, Lifecycle
  <2>3. RowsOK(t)
    BY <2>1 DEF RowsOK
  <2>4. ReadingOK(t)
    BY <2>1, <2>2 DEF ReadingOK
  <2> QED BY <2>2, <2>3, <2>4 DEF OneOffOK, QuietOK, OneOff
<1> QED BY <1>1, <1>2 DEF IInv

LEMMA StepInv == IInv /\ [AggregateNext]_aggregateVars => IInv'
<1> SUFFICES ASSUME IInv, [AggregateNext]_aggregateVars PROVE IInv'
  OBVIOUS
<1>1. TypeInv /\ TypeInv'
  BY TypeStep DEF IInv
<1>2. AggregateTypeOK /\ AggregateTypeOK'
  BY <1>1 DEF TypeInv
<1>3. ASSUME NEW t \in Task
      PROVE  RowsOK(t)' /\ OneOffOK(t)' /\ QuietOK(t)' /\ ReadingOK(t)'
  <2>1. RowsOK(t) /\ OneOffOK(t) /\ QuietOK(t) /\ ReadingOK(t)
    BY DEF IInv
  <2>2. StepRows(t)
    BY <1>2, RowsOfStep
  <2>3. RowsOK(t)'
    BY <1>2, <2>1, <2>2, RowsStep
  <2>4. OneOffOK(t)'
    BY <1>2, <2>1, <2>2, OneOffStep
  <2>5. QuietOK(t)'
    BY <1>1, <1>2, <2>1, QuietStep
  <2>6. ReadingOK(t)'
    BY <1>2, <2>1, ReadingStep
  <2> QED BY <2>3, <2>4, <2>5, <2>6
<1> QED BY <1>1, <1>3 DEF IInv

LEMMA Invariance == AggregateSpec => []IInv
  BY InitInv, StepInv, PTL DEF AggregateSpec

(* A task that never recurred and its one occurrence agree on whether it is *)
(* done, whatever edits and commands of other clients come in between.      *)
THEOREM OneOffAlwaysAgrees == AggregateSpec => []OneOffAgrees
<1>1. IInv => OneOffAgrees
  BY DEF IInv, OneOffOK, OneOffAgrees
<1> QED BY <1>1, Invariance, PTL

(* A completed project has no runnable work of tasks that never recurred.   *)
THEOREM CompletedStaysQuiet == AggregateSpec => []CompletedIsQuiet
<1>1. IInv => CompletedIsQuiet
  BY DEF IInv, QuietOK, Closed, CompletedIsQuiet
<1> QED BY <1>1, Invariance, PTL

(* What ends a task leaves nothing runnable in it.                          *)
THEOREM EndingLeavesNothing == AggregateSpec => EndingIsComplete
<1>1. IInv /\ [AggregateNext]_aggregateVars =>
        [\A t \in Task : task'[t].life \in Ending(task[t].life) => OpenWork(t)' = {}]_aggregateVars
  <2> SUFFICES ASSUME IInv, [AggregateNext]_aggregateVars, NEW t \in Task,
                      task'[t].life \in Ending(task[t].life)
               PROVE  OpenWork(t)' = {}
    OBVIOUS
  <2>1. AggregateTypeOK /\ RowsOK(t)
    BY DEF IInv, TypeInv
  <2>2. StepRows(t)
    BY <2>1, RowsOfStep
  <2> QED BY <2>1, <2>2, EndingStep
<1> QED BY <1>1, Invariance, PTL DEF AggregateSpec, EndingIsComplete

(* A command acts on the task and the occurrences its client read: equal    *)
(* revisions stand for equal rows, so that none is ended, deleted or moved  *)
(* in a state that its client has not seen.                                 *)
THEOREM AlwaysActsOnWhatItSaw == AggregateSpec => ActsOnWhatItSaw
<1>1. ASSUME IInv, NEW t \in Task, TaskCommand(reading, t)
      PROVE  /\ reading.task[t] = task[t]
             /\ \A k \in OccurrenceKey : ExpectedOccurrence(reading, t, k) => reading.occ[t][k] = occ[t][k]
  <2>1. AggregateTypeOK /\ ReadingOK(t)
    BY <1>1 DEF IInv, TypeInv
  <2>2. ExpectedTask(reading, t)
    BY <1>1, <2>1, CommandRows
  <2>3. \A k \in OccurrenceKey : occ[t][k].revision \in Nat
    BY <2>1 DEF AggregateTypeOK, OccurrenceType
  <2> QED BY <2>1, <2>2, <2>3 DEF ReadingOK, ExpectedTask, ExpectedOccurrence
<1>2. ASSUME IInv, NEW t \in Task
      PROVE  /\ EndTask(reading, t) => \A k \in OpenWork(t) : reading.occ[t][k] = occ[t][k]
             /\ DeleteTask(reading, t) => SawTask(t)
             /\ TaskCommand(reading, t) => reading.task[t] = task[t]
  <2>1. ASSUME EndTask(reading, t) PROVE \A k \in OpenWork(t) : reading.occ[t][k] = occ[t][k]
    <3>1. TaskCommand(reading, t)
      BY <2>1 DEF TaskCommand
    <3>2. \A k \in OpenWork(t) : ExpectedOccurrence(reading, t, k) /\ k \in OccurrenceKey
      BY <2>1 DEF EndTask, NamesOpenWork, OpenWork
    <3> QED BY <1>1, <1>2, <3>1, <3>2
  <2>2. ASSUME DeleteTask(reading, t) PROVE SawTask(t)
    <3>1. TaskCommand(reading, t)
      BY <2>2 DEF TaskCommand
    <3>2. \A k \in Present(t) : ExpectedOccurrence(reading, t, k) /\ k \in OccurrenceKey
      BY <2>2 DEF DeleteTask, Present
    <3>3. \A k \in Present(t) : reading.occ[t][k] = occ[t][k]
      BY <1>1, <1>2, <3>1, <3>2
    <3>4. reading.task[t] = task[t]
      BY <1>1, <1>2, <3>1
    <3> QED BY <3>3, <3>4 DEF SawTask
  <2>3. ASSUME TaskCommand(reading, t) PROVE reading.task[t] = task[t]
    BY <1>1, <1>2, <2>3
  <2> QED BY <2>1, <2>2, <2>3
<1>3. IInv => [\A t \in Task :
       /\ EndTask(reading, t) => \A k \in OpenWork(t) : reading.occ[t][k] = occ[t][k]
       /\ DeleteTask(reading, t) => SawTask(t)
       /\ TaskCommand(reading, t) => reading.task[t] = task[t]]_aggregateVars
  BY <1>2
<1> QED BY <1>3, Invariance, PTL DEF ActsOnWhatItSaw
=============================================================================
