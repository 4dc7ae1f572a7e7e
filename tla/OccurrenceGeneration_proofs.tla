--------------------- MODULE OccurrenceGeneration_proofs ---------------------
(***************************************************************************)
(* Proofs, for any set of tasks, any finite number of workers and any      *)
(* calendar, of the properties of OccurrenceGeneration that TLC checks on  *)
(* a small instance.                                                       *)
(***************************************************************************)
EXTENDS OccurrenceGeneration, FiniteSetTheorems, TLAPS

----------------------------------------------------------------------------
(* Claim ids *)

(* The workers hold at most one id each, so there is always one to make up:  *)
(* the code draws a random UUID.                                             *)
LEMMA ClaimsHeld ==
  ASSUME TypeOK
  PROVE  IsFiniteSet(Held) /\ Cardinality(Held) <= Cardinality(Worker) + 1
<1> DEFINE busy == {x \in Worker : worker[x].pc # "idle"}
           ids == {worker[w].claim : w \in busy}
           f == [w \in busy |-> worker[w].claim]
<1>1. IsFiniteSet(busy) /\ Cardinality(busy) <= Cardinality(Worker)
  <2>1. busy \in SUBSET Worker
    OBVIOUS
  <2> HIDE DEF busy
  <2> QED BY <2>1, FS_Subset, GenerationAssumption DEF GenerationAssumption
<1>2. f \in Surjection(busy, ids)
  BY DEF Surjection
<1>3. IsFiniteSet(ids) /\ Cardinality(ids) <= Cardinality(busy)
  <2> HIDE DEF busy, ids, f
  <2> QED BY <1>1, <1>2, FS_Surjection
<1>4. /\ Cardinality(ids) \in Nat /\ Cardinality(busy) \in Nat /\ Cardinality(Worker) \in Nat
  <2> HIDE DEF busy, ids, f
  <2> QED BY <1>1, <1>3, FS_CardinalityType, GenerationAssumption DEF GenerationAssumption
<1>5. /\ IsFiniteSet(ids \cup {job.claim})
      /\ Cardinality(ids \cup {job.claim}) <= Cardinality(ids) + 1
  <2> HIDE DEF busy, ids, f
  <2>1. /\ IsFiniteSet(ids \cup {job.claim})
        /\ Cardinality(ids \cup {job.claim}) =
             IF job.claim \in ids THEN Cardinality(ids) ELSE Cardinality(ids) + 1
    BY <1>3, FS_AddElement
  <2> QED BY <1>4, <2>1
<1>6. Held = ids \cup {job.claim}
  BY DEF Held
<1> HIDE DEF busy, ids, f
<1>7. Cardinality(ids \cup {job.claim}) \in Nat
  BY <1>5, FS_CardinalityType
<1>8. Cardinality(ids \cup {job.claim}) <= Cardinality(Worker) + 1
  BY <1>1, <1>3, <1>4, <1>5, <1>7
<1> QED BY <1>5, <1>6, <1>8

LEMMA FreshClaimIsFresh ==
  ASSUME TypeOK
  PROVE  FreshClaim \in Claim /\ FreshClaim \notin Held
<1>1. Cardinality(Worker) \in Nat
  BY FS_CardinalityType, GenerationAssumption DEF GenerationAssumption
<1>2. IsFiniteSet(Claim) /\ Cardinality(Claim) = Cardinality(Worker) + 2
  <2>1. /\ IsFiniteSet(1 .. Cardinality(Worker) + 2)
        /\ Cardinality(1 .. Cardinality(Worker) + 2) =
             IF 1 > Cardinality(Worker) + 2 THEN 0 ELSE (Cardinality(Worker) + 2) - 1 + 1
    BY <1>1, FS_Interval
  <2> QED BY <1>1, <2>1 DEF Claim
<1>3. ~(Claim \subseteq Held)
  <2> SUFFICES ASSUME Claim \subseteq Held PROVE FALSE
    OBVIOUS
  <2>1. IsFiniteSet(Held) /\ Cardinality(Held) <= Cardinality(Worker) + 1
    BY ClaimsHeld
  <2>2. Cardinality(Claim) <= Cardinality(Held)
    BY <2>1, FS_Subset
  <2>3. Cardinality(Held) \in Nat
    BY <2>1, FS_CardinalityType
  <2> QED BY <1>1, <1>2, <2>1, <2>2, <2>3
<1> QED BY <1>3 DEF FreshClaim

----------------------------------------------------------------------------
(* Schedules *)

LEMMA KeysOfAVersion ==
  ASSUME NEW t, NEW from, NEW through, NEW d
  PROVE  d \in KeysOf(t, from, through) <=>
           \E i \in DOMAIN versions[t] : d \in Keys(versions[t][i], from, through)
  BY DEF KeysOf

(* An edit closes the current version and appends one. *)
Edited(t, from, days) ==
  Append(Closed(t, from), [from |-> from, to |-> Open, days |-> days])

LEMMA LastReplacedOneAppended ==
  ASSUME NEW S, NEW s \in Seq(S), NEW n \in Nat, n = Len(s), n > 0,
         NEW c \in S, NEW l \in S,
         NEW r, r = Append([s EXCEPT ![n] = c], l)
  PROVE  /\ r \in Seq(S) /\ Len(r) = n + 1 /\ DOMAIN r = 1 .. n + 1
         /\ \A i \in 1 .. n : i # n => r[i] = s[i]
         /\ r[n] = c /\ r[n + 1] = l
<1> DEFINE e == [s EXCEPT ![n] = c]
<1>1. e \in Seq(S) /\ Len(e) = n
  OBVIOUS
<1>2. e[n] = c /\ \A i \in 1 .. n : i # n => e[i] = s[i]
  OBVIOUS
<1>3. r = Append(e, l)
  OBVIOUS
<1> HIDE DEF e
<1>4. /\ r \in Seq(S) /\ Len(r) = n + 1 /\ DOMAIN r = 1 .. n + 1
      /\ \A i \in 1 .. n : r[i] = e[i]
      /\ r[n + 1] = l
  BY <1>1, <1>3
<1>5. n \in 1 .. n
  OBVIOUS
<1> QED BY <1>2, <1>4, <1>5

LEMMA EditedIsReplacedAppended ==
  ASSUME TypeOK, NEW t \in Task, NEW from \in Day, NEW days \in Recurrence
  PROVE  \E c \in Version, l \in Version :
           /\ Edited(t, from, days) = Append([versions[t] EXCEPT ![Len(versions[t])] = c], l)
           /\ c.from = Current(t).from /\ c.to = from /\ c.days = Current(t).days
           /\ l.from = from /\ l.to = Open /\ l.days = days
<1> DEFINE c == [Current(t) EXCEPT !.to = from]
           l == [from |-> from, to |-> Open, days |-> days]
<1>1. Current(t) \in Version
  <2>1. versions[t] \in Seq(Version) /\ Len(versions[t]) > 0
    BY DEF TypeOK
  <2> QED BY <2>1 DEF Current
<1>2. /\ c \in Version /\ l \in Version
      /\ c.from = Current(t).from /\ c.to = from /\ c.days = Current(t).days
      /\ l.from = from /\ l.to = Open /\ l.days = days
  BY <1>1 DEF Version
<1>3. Edited(t, from, days) = Append([versions[t] EXCEPT ![Len(versions[t])] = c], l)
  BY DEF Edited, Closed
<1> HIDE DEF c, l
<1> QED BY <1>2, <1>3

LEMMA EditedType ==
  ASSUME TypeOK, NEW t \in Task, NEW from \in Day, NEW days \in Recurrence
  PROVE  Edited(t, from, days) \in Seq(Version)
<1>1. PICK c \in Version, l \in Version :
        Edited(t, from, days) = Append([versions[t] EXCEPT ![Len(versions[t])] = c], l)
  BY EditedIsReplacedAppended
<1>2. versions[t] \in Seq(Version) /\ Len(versions[t]) > 0
  BY DEF TypeOK
<1> QED BY <1>1, <1>2, LastReplacedOneAppended

LEMMA EditedLonger ==
  ASSUME TypeOK, NEW t \in Task, NEW from \in Day, NEW days \in Recurrence
  PROVE  Len(Edited(t, from, days)) = Len(versions[t]) + 1
<1>1. PICK c \in Version, l \in Version :
        Edited(t, from, days) = Append([versions[t] EXCEPT ![Len(versions[t])] = c], l)
  BY EditedIsReplacedAppended
<1>2. versions[t] \in Seq(Version) /\ Len(versions[t]) > 0
  BY DEF TypeOK
<1> QED BY <1>1, <1>2, LastReplacedOneAppended

LEMMA ReconciledType ==
  ASSUME NEW old \in [Day -> Occurrence], NEW from, NEW through, NEW days
  PROVE  Reconciled(old, from, through, days) \in [Day -> Occurrence]
  BY DEF Reconciled, Upserted, Occurrence

----------------------------------------------------------------------------
(* Types *)

LEMMA TypeInit == Init => TypeOK
<1> SUFFICES ASSUME Init PROVE TypeOK
  OBVIOUS
<1> USE GenerationAssumption DEF GenerationAssumption
<1>1. 1 \in Day
  BY DEF Day, LastDay
<1>2. \A r \in Recurrence : /\ <<[from |-> 1, to |-> Open, days |-> r]>> \in Seq(Version)
                            /\ Len(<<[from |-> 1, to |-> Open, days |-> r]>>) = 1
  BY <1>1 DEF Version
<1>3. versions \in [Task -> Seq(Version)] /\ \A t \in Task : Len(versions[t]) > 0
  <2> DEFINE First == {<<[from |-> 1, to |-> Open, days |-> r]>> : r \in Recurrence}
  <2>1. versions \in [Task -> First]
    BY DEF Init
  <2>2. \A v \in First : v \in Seq(Version) /\ Len(v) = 1
    BY <1>2
  <2> HIDE DEF First
  <2> QED BY <2>1, <2>2
<1>4. occ \in [Task -> [Day -> Occurrence]]
  BY DEF Init, Occurrence
<1>5. job \in Job
  BY DEF Init, Job
<1>6. worker \in [Worker -> [pc : {"idle"}]]
  BY DEF Init, Idle
<1> QED BY <1>3, <1>4, <1>5, <1>6 DEF Init, TypeOK

LEMMA TypeStep == TypeOK /\ [Next]_vars => TypeOK'
<1> SUFFICES ASSUME TypeOK, [Next]_vars PROVE TypeOK'
  OBVIOUS
<1> USE GenerationAssumption DEF GenerationAssumption
<1> DEFINE Held1 == [pc : {"generate"}, claim : Claim, day : Day]
           Held2 == [pc : {"ack"}, claim : Claim, outcome : Outcome]
<1>1. CASE NextDay
  BY <1>1 DEF NextDay, taskVars, TypeOK
<1>2. CASE RetryDue \/ LeaseExpires \/ EnsureScheduled
  <2>0. job \in Job
    BY DEF TypeOK
  <2>1. job' \in Job
    <3>1. CASE RetryDue
      BY <2>0, <3>1 DEF RetryDue, Job
    <3>2. CASE LeaseExpires
      BY <2>0, <3>2 DEF LeaseExpires, Job
    <3>3. CASE EnsureScheduled
      BY <3>3 DEF EnsureScheduled, Job
    <3> QED BY <1>2, <3>1, <3>2, <3>3
  <2> QED BY <1>2, <2>1 DEF RetryDue, LeaseExpires, EnsureScheduled, taskVars, TypeOK
<1>3. ASSUME NEW t \in Task, ClientStep(t) PROVE TypeOK'
  <2>1. ASSUME NEW from \in Day, NEW through \in 2 .. LastDay + 1, NEW days \in Recurrence,
               Reschedule(t, from, through, days)
        PROVE  TypeOK'
    <3>1. /\ versions' \in [Task -> Seq(Version)]
          /\ \A u \in Task : Len(versions'[u]) > 0
      <4>1. versions' = [versions EXCEPT ![t] = Edited(t, from, days)]
        BY <2>1 DEF Reschedule, Edited
      <4>2. /\ Edited(t, from, days) \in Seq(Version)
            /\ Len(Edited(t, from, days)) = Len(versions[t]) + 1
        BY EditedType, EditedLonger
      <4>3. Len(versions[t]) \in Nat
        BY DEF TypeOK
      <4> QED BY <4>1, <4>2, <4>3 DEF TypeOK
    <3>2. occ' \in [Task -> [Day -> Occurrence]]
      BY <2>1, ReconciledType DEF Reschedule, TypeOK
    <3> QED BY <2>1, <3>1, <3>2 DEF Reschedule, TypeOK
  <2>2. ASSUME NEW d \in Day, Touch(t, d) \/ Reopen(t, d) PROVE TypeOK'
    <3>1. PICK s \in Occurrence : occ' = [occ EXCEPT ![t][d] = s]
      BY <2>2 DEF Touch, Reopen, Occurrence
    <3>2. occ' \in [Task -> [Day -> Occurrence]]
      BY <3>1 DEF TypeOK
    <3> QED BY <2>2, <3>2 DEF Touch, Reopen, TypeOK
  <2>3. CASE PauseOrResume(t)
    BY <2>3 DEF PauseOrResume, TypeOK
  <2> QED BY <1>3, <2>1, <2>2, <2>3 DEF ClientStep
<1>4. ASSUME NEW w \in Worker, WorkerStep(w) PROVE TypeOK'
  <2>1. CASE ClaimJob(w)
    <3>1. FreshClaim \in Claim
      BY FreshClaimIsFresh
    <3>2. today \in Day
      BY DEF TypeOK, Day, LastDay
    <3>3. [pc |-> "generate", claim |-> FreshClaim, day |-> today] \in Held1
      BY <3>1, <3>2
    <3>4. [status |-> "claimed", claim |-> FreshClaim, due |-> FALSE, expired |-> FALSE] \in Job
      BY <3>1 DEF Job
    <3> QED BY <2>1, <3>3, <3>4 DEF ClaimJob, taskVars, TypeOK
  <2>2. ASSUME worker[w].pc = "generate"
        PROVE  worker[w].claim \in Claim /\ worker[w].day \in Day
    BY <2>2 DEF TypeOK
  <2>3. ASSUME worker[w].pc = "generate", NEW outcome \in Outcome, Finish(w, outcome)
        PROVE  worker' \in [Worker -> [pc : {"idle"}] \cup Held1 \cup Held2]
    <3>1. [pc |-> "ack", claim |-> worker[w].claim, outcome |-> outcome] \in Held2
      BY <2>2, <2>3
    <3> QED BY <2>3, <3>1 DEF Finish, TypeOK
  <2>4. CASE Generate(w)
    <3>1. worker' \in [Worker -> [pc : {"idle"}] \cup Held1 \cup Held2]
      BY <2>3, <2>4 DEF Generate, Outcome
    <3>2. occ' \in [Task -> [Day -> Occurrence]]
      BY <2>4 DEF Generate, TypeOK, Occurrence
    <3>3. watermark' \in [Task -> Nat]
      <4>1. worker[w].day + Horizon \in Nat
        BY <2>2, <2>4 DEF Generate, Day, LastDay
      <4>2. \A t \in Task : NextWatermark(t, worker[w].day) \in Nat
        BY <4>1 DEF NextWatermark, TypeOK
      <4> QED BY <2>4, <4>2 DEF Generate, TypeOK
    <3>4. vouched' \in [Task -> Nat]
      <4>1. \A t \in Task : Len(versions[t]) \in Nat
        BY DEF TypeOK
      <4> QED BY <2>4, <4>1 DEF Generate, TypeOK
    <3> QED BY <2>4, <3>1, <3>2, <3>3, <3>4 DEF Generate, TypeOK
  <2>5. CASE Refuse(w) \/ Interrupted(w)
    <3>1. worker' \in [Worker -> [pc : {"idle"}] \cup Held1 \cup Held2]
      BY <2>3, <2>5 DEF Refuse, Interrupted, Outcome
    <3> QED BY <2>5, <3>1 DEF Refuse, Interrupted, taskVars, TypeOK
  <2>6. CASE Acknowledge(w)
    <3>1. worker[w].outcome \in Outcome
      BY <2>6 DEF Acknowledge, TypeOK
    <3>2. job' \in Job
      BY <2>6, <3>1 DEF Acknowledge, TypeOK, Job, Outcome
    <3>3. worker' \in [Worker -> [pc : {"idle"}] \cup Held1 \cup Held2]
      BY <2>6 DEF Acknowledge, TypeOK, Idle
    <3> QED BY <2>6, <3>2, <3>3 DEF Acknowledge, taskVars, TypeOK
  <2>7. CASE Crash(w)
    <3>1. worker' \in [Worker -> [pc : {"idle"}] \cup Held1 \cup Held2]
      BY <2>7 DEF Crash, TypeOK, Idle
    <3> QED BY <2>7, <3>1 DEF Crash, taskVars, TypeOK
  <2> QED BY <1>4, <2>1, <2>4, <2>5, <2>6, <2>7 DEF WorkerStep
<1>5. CASE UNCHANGED vars
  BY <1>5 DEF vars, TypeOK
<1> QED BY <1>1, <1>2, <1>3, <1>4, <1>5 DEF Next

(* Every variable keeps its type, and there is always an id for a claim. *)
THEOREM GenerationTypes == Spec => []TypeOK
  BY TypeInit, TypeStep, PTL DEF Spec

----------------------------------------------------------------------------
(* No occurrence of a superseded schedule *)

LEMMA OrphansInit == Init => NoOrphans
<1> SUFFICES ASSUME Init PROVE NoOrphans
  OBVIOUS
<1> SUFFICES ASSUME NEW t \in Task, NEW d \in Day, occ[t][d] = "open"
             PROVE  d \in KeysOf(t, d, d)
  BY DEF NoOrphans
<1>1. d \in KeysOf(t, 1, 1 + Horizon)
  BY DEF Init
<1>2. PICK i \in DOMAIN versions[t] : d \in Keys(versions[t][i], 1, 1 + Horizon)
  BY <1>1, KeysOfAVersion
<1>3. d \in Nat
  BY GenerationAssumption DEF GenerationAssumption, Day, LastDay
<1>4. d \in Keys(versions[t][i], d, d)
  BY <1>2, <1>3 DEF Keys
<1> QED BY <1>2, <1>4, KeysOfAVersion

(* An edit keeps the open occurrences before its date, which stay keys of    *)
(* the versions that were, and those it materialises itself.                 *)
LEMMA OrphansEdit ==
  ASSUME TypeOK, NoOrphans, NEW t \in Task, NEW from \in Day,
         NEW through \in 2 .. LastDay + 1, NEW days \in Recurrence,
         Reschedule(t, from, through, days), NEW d \in Day, occ'[t][d] = "open"
  PROVE  d \in KeysOf(t, d, d)'
<1> DEFINE s == versions[t]
           new == Edited(t, from, days)
           n == Len(s)
<1>1. PICK c \in Version, l \in Version :
        /\ new = Append([s EXCEPT ![n] = c], l)
        /\ c.from = s[n].from /\ c.to = from /\ c.days = s[n].days
        /\ l.from = from /\ l.to = Open /\ l.days = days
  BY EditedIsReplacedAppended DEF Current
<1>2. versions'[t] = new
  BY DEF Reschedule, Edited, TypeOK
<1>3. /\ n \in Nat /\ n > 0 /\ DOMAIN s = 1 .. n /\ DOMAIN new = 1 .. n + 1
      /\ \A i \in 1 .. n : i # n => new[i] = s[i]
      /\ new[n] = c /\ new[n + 1] = l
  <2>1. s \in Seq(Version) /\ n > 0
    BY DEF TypeOK
  <2> HIDE DEF s, new
  <2> QED BY <1>1, <2>1, LastReplacedOneAppended
<1>4. d \in Nat /\ from \in Nat
  BY GenerationAssumption DEF GenerationAssumption, Day, LastDay
<1>5. occ'[t][d] = Reconciled(occ[t], from, through, days)[d]
  BY DEF Reschedule, TypeOK
<1>6. \E i \in 1 .. n + 1 : d \in Keys(new[i], d, d)
  <2>1. CASE Preserved(occ[t][d], d, from)
    <3>1. occ[t][d] = "open" /\ d < from
      BY <1>5, <2>1 DEF Reconciled, Preserved
    <3>2. PICK i \in 1 .. n : d \in Keys(s[i], d, d)
      BY <1>3, <3>1, KeysOfAVersion DEF NoOrphans
    <3>3. d \in Keys(new[i], d, d)
      <4>1. CASE i = n
        <5> HIDE DEF s, new, n
        <5> QED BY <1>1, <1>3, <1>4, <3>1, <3>2, <4>1 DEF Keys
      <4>2. CASE i # n
        BY <1>3, <3>2, <4>2
      <4> QED BY <4>1, <4>2
    <3>4. i \in 1 .. n + 1
      BY <1>3
    <3> QED BY <3>3, <3>4
  <2>2. CASE ~Preserved(occ[t][d], d, from)
    <3>1. d \in days /\ from <= d
      BY <1>5, <2>2 DEF Reconciled
    <3>2. d \in Keys(new[n + 1], d, d)
      <4> HIDE DEF s, new, n
      <4> QED BY <1>1, <1>3, <1>4, <3>1 DEF Keys
    <3>3. n + 1 \in 1 .. n + 1
      BY <1>3
    <3> QED BY <3>2, <3>3
  <2> QED BY <2>1, <2>2
<1> QED BY <1>2, <1>3, <1>6 DEF KeysOf

LEMMA OrphansStep == TypeOK /\ NoOrphans /\ [Next]_vars => NoOrphans'
<1> SUFFICES ASSUME TypeOK, NoOrphans, [Next]_vars PROVE NoOrphans'
  OBVIOUS
<1>1. ASSUME versions' = versions,
             \A t \in Task : \A d \in Day :
               occ'[t][d] = "open" => occ[t][d] = "open" \/ d \in KeysOf(t, d, d)
      PROVE  NoOrphans'
  BY <1>1 DEF NoOrphans, KeysOf
<1>2. CASE NextDay \/ RetryDue \/ LeaseExpires \/ EnsureScheduled \/ UNCHANGED vars
  BY <1>1, <1>2 DEF NextDay, RetryDue, LeaseExpires, EnsureScheduled, vars, taskVars
<1>3. ASSUME NEW t \in Task, ClientStep(t) PROVE NoOrphans'
  <2>1. ASSUME NEW from \in Day, NEW through \in 2 .. LastDay + 1, NEW days \in Recurrence,
               Reschedule(t, from, through, days)
        PROVE  NoOrphans'
    <3> SUFFICES ASSUME NEW u \in Task, NEW d \in Day, occ'[u][d] = "open"
                 PROVE  d \in KeysOf(u, d, d)'
      BY DEF NoOrphans
    <3>1. CASE u = t
      BY <2>1, <3>1, OrphansEdit
    <3>2. CASE u # t
      <4>1. versions'[u] = versions[u] /\ occ'[u] = occ[u]
        BY <2>1, <3>2 DEF Reschedule, TypeOK
      <4> QED BY <4>1 DEF NoOrphans, KeysOf
    <3> QED BY <3>1, <3>2
  <2>2. ASSUME NEW d \in Day, Touch(t, d) \/ Reopen(t, d) PROVE NoOrphans'
    <3>1. PICK s \in {"kept", "reopened"} : occ' = [occ EXCEPT ![t][d] = s]
      BY <2>2 DEF Touch, Reopen
    <3>2. \A u \in Task : \A e \in Day : occ'[u][e] = "open" => occ[u][e] = "open"
      BY <3>1 DEF TypeOK
    <3>3. versions' = versions
      BY <2>2 DEF Touch, Reopen
    <3> QED BY <1>1, <3>2, <3>3
  <2>3. CASE PauseOrResume(t)
    BY <1>1, <2>3 DEF PauseOrResume
  <2> QED BY <1>3, <2>1, <2>2, <2>3 DEF ClientStep
<1>4. ASSUME NEW w \in Worker, WorkerStep(w) PROVE NoOrphans'
  <2>1. CASE Generate(w)
    <3> DEFINE day == worker[w].day
    <3>1. ASSUME NEW t \in Task, NEW d \in Day, occ'[t][d] = "open", occ[t][d] # "open"
          PROVE  d \in KeysOf(t, d, d)
      <4>1. d \in Planned(t, day)
        BY <2>1, <3>1 DEF Generate
      <4>2. PICK i \in DOMAIN versions[t] : d \in Keys(versions[t][i], day, day + Horizon)
        BY <4>1, KeysOfAVersion DEF Planned
      <4>3. d \in Nat
        BY GenerationAssumption DEF GenerationAssumption, Day, LastDay
      <4>4. d \in Keys(versions[t][i], d, d)
        BY <4>2, <4>3 DEF Keys
      <4> QED BY <4>2, <4>4, KeysOfAVersion
    <3>2. versions' = versions
      BY <2>1 DEF Generate
    <3> QED BY <1>1, <3>1, <3>2
  <2>2. CASE ~Generate(w)
    BY <1>1, <1>4, <2>2 DEF WorkerStep, ClaimJob, Refuse, Interrupted, Acknowledge, Crash, taskVars
  <2> QED BY <2>1, <2>2
<1> QED BY <1>2, <1>3, <1>4 DEF Next

(* However edits, user actions and generations interleave, an occurrence     *)
(* that nobody has touched belongs to the version in force on its date.      *)
THEOREM NoOrphansHolds == Spec => []NoOrphans
<1>1. Init => NoOrphans /\ TypeOK
  BY OrphansInit, TypeInit
<1>2. NoOrphans /\ TypeOK /\ [Next]_vars => (NoOrphans /\ TypeOK)'
  BY OrphansStep, TypeStep
<1> QED BY <1>1, <1>2, PTL DEF Spec

----------------------------------------------------------------------------
(* The watermark *)

(* A generation vouches for versions that exist, so an edit outdates it.     *)
VouchedExists == \A t \in Task : vouched[t] <= Len(versions[t])

LEMMA HonestInit == Init => VouchedExists /\ WatermarkHonest
<1> SUFFICES ASSUME Init PROVE VouchedExists /\ WatermarkHonest
  OBVIOUS
<1>1. TypeOK
  BY TypeInit
<1>2. \A t \in Task : vouched[t] = 0 /\ Len(versions[t]) \in Nat /\ Len(versions[t]) > 0
  BY <1>1 DEF Init, TypeOK
<1> QED BY <1>2 DEF VouchedExists, WatermarkHonest

(* A step that leaves schedules and watermarks alone and deletes no          *)
(* occurrence keeps both.                                                    *)
LEMMA HonestKept ==
  ASSUME VouchedExists, WatermarkHonest,
         versions' = versions, watermark' = watermark, vouched' = vouched,
         \A t \in Task : \A d \in Day : occ[t][d] # "none" => occ'[t][d] # "none"
  PROVE  VouchedExists' /\ WatermarkHonest'
<1>1. \A t \in Task : Existing(t) \subseteq Existing(t)'
  BY DEF Existing
<1>2. \A t \in Task : KeysOf(t, Earliest(t), watermark[t])' = KeysOf(t, Earliest(t), watermark[t])
  BY DEF KeysOf, Earliest
<1> QED BY <1>1, <1>2 DEF VouchedExists, WatermarkHonest

LEMMA HonestStep ==
  TypeOK /\ VouchedExists /\ WatermarkHonest /\ [Next]_vars => VouchedExists' /\ WatermarkHonest'
<1> SUFFICES ASSUME TypeOK, VouchedExists, WatermarkHonest, [Next]_vars
             PROVE  VouchedExists' /\ WatermarkHonest'
  OBVIOUS
<1>1. CASE NextDay \/ RetryDue \/ LeaseExpires \/ EnsureScheduled \/ UNCHANGED vars
  BY <1>1, HonestKept DEF NextDay, RetryDue, LeaseExpires, EnsureScheduled, vars, taskVars
<1>2. ASSUME NEW t \in Task, ClientStep(t) PROVE VouchedExists' /\ WatermarkHonest'
  <2>1. ASSUME NEW from \in Day, NEW through \in 2 .. LastDay + 1, NEW days \in Recurrence,
               Reschedule(t, from, through, days)
        PROVE  VouchedExists' /\ WatermarkHonest'
    <3>1. /\ Len(versions'[t]) = Len(versions[t]) + 1 /\ Len(versions[t]) \in Nat
          /\ vouched' = vouched /\ watermark' = watermark /\ vouched[t] \in Nat
      <4>1. versions'[t] = Edited(t, from, days)
        BY <2>1 DEF Reschedule, Edited, TypeOK
      <4>2. vouched[t] \in Nat
        BY DEF TypeOK
      <4>3. Len(Edited(t, from, days)) = Len(versions[t]) + 1
        BY EditedLonger
      <4>4. Len(versions[t]) \in Nat
        BY DEF TypeOK
      <4> QED BY <2>1, <4>1, <4>2, <4>3, <4>4 DEF Reschedule
    <3>2. \A u \in Task \ {t} : versions'[u] = versions[u] /\ occ'[u] = occ[u]
      BY <2>1 DEF Reschedule, TypeOK
    <3>3. ASSUME NEW u \in Task
          PROVE  /\ vouched'[u] <= Len(versions'[u])
                 /\ vouched'[u] = Len(versions'[u]) =>
                      KeysOf(u, Earliest(u), watermark[u])' \subseteq Existing(u)'
      <4>1. CASE u = t
        BY <3>1, <4>1 DEF VouchedExists
      <4>2. CASE u # t
        <5>1. versions'[u] = versions[u] /\ occ'[u] = occ[u]
          BY <3>2, <4>2
        <5>2. /\ Existing(u)' = Existing(u)
              /\ KeysOf(u, Earliest(u), watermark[u])' = KeysOf(u, Earliest(u), watermark[u])
          BY <3>1, <5>1 DEF Existing, KeysOf, Earliest
        <5> QED BY <3>1, <5>1, <5>2 DEF VouchedExists, WatermarkHonest
      <4> QED BY <4>1, <4>2
    <3> QED BY <3>3 DEF VouchedExists, WatermarkHonest
  <2>2. ASSUME NEW d \in Day, Touch(t, d) \/ Reopen(t, d)
        PROVE  VouchedExists' /\ WatermarkHonest'
    <3>1. PICK s \in {"kept", "reopened"} : occ' = [occ EXCEPT ![t][d] = s]
      BY <2>2 DEF Touch, Reopen
    <3>2. \A u \in Task : \A e \in Day : occ[u][e] # "none" => occ'[u][e] # "none"
      BY <3>1 DEF TypeOK
    <3> QED BY <2>2, <3>2, HonestKept DEF Touch, Reopen
  <2>3. CASE PauseOrResume(t)
    BY <2>3, HonestKept DEF PauseOrResume
  <2> QED BY <1>2, <2>1, <2>2, <2>3 DEF ClientStep
<1>3. ASSUME NEW w \in Worker, WorkerStep(w) PROVE VouchedExists' /\ WatermarkHonest'
  <2>1. CASE Generate(w)
    <3> DEFINE day == worker[w].day
    <3>1. ASSUME NEW t \in Task
          PROVE  /\ vouched'[t] <= Len(versions'[t])
                 /\ vouched'[t] = Len(versions'[t]) =>
                      KeysOf(t, Earliest(t), watermark[t])' \subseteq Existing(t)'
      <4>1. versions' = versions /\ Len(versions[t]) \in Nat
        BY <2>1 DEF Generate, TypeOK
      <4>2. Existing(t) \subseteq Existing(t)'
        BY <2>1 DEF Generate, Existing
      <4>3. CASE active[t]
        <5>1. /\ watermark'[t] = NextWatermark(t, day) /\ vouched'[t] = Len(versions[t])
              /\ Complete(t, day)
          BY <2>1, <4>3 DEF Generate, GenerationSucceeds
        <5>2. Planned(t, day) \cap Day \subseteq Existing(t)'
          BY <2>1, <4>3 DEF Generate, Existing
        <5>3. KeysOf(t, Earliest(t), watermark[t])' \subseteq Existing(t) \cup Planned(t, day)
          BY <4>1, <5>1 DEF Complete, KeysOf, Earliest
        <5>4. KeysOf(t, Earliest(t), watermark[t])' \subseteq Day
          <6>1. versions[t] \in Seq(Version)
            BY DEF TypeOK
          <6>2. ASSUME NEW i \in DOMAIN versions[t] PROVE versions[t][i].days \subseteq Day
            <7>1. versions[t][i] \in Version
              BY <6>1
            <7>2. versions[t][i].days \in Recurrence
              BY <7>1 DEF Version
            <7> QED BY <7>2, GenerationAssumption DEF GenerationAssumption
          <6>3. \A v : Keys(v, Earliest(t)', watermark'[t]) \subseteq v.days
            BY DEF Keys
          <6> QED BY <4>1, <6>2, <6>3 DEF KeysOf
        <5> QED BY <4>1, <4>2, <5>1, <5>2, <5>3, <5>4
      <4>4. CASE ~active[t]
        <5>1. watermark'[t] = watermark[t] /\ vouched'[t] = vouched[t]
          BY <2>1, <4>4 DEF Generate
        <5>2. KeysOf(t, Earliest(t), watermark[t])' = KeysOf(t, Earliest(t), watermark[t])
          BY <4>1, <5>1 DEF KeysOf, Earliest
        <5> QED BY <4>1, <4>2, <5>1, <5>2 DEF VouchedExists, WatermarkHonest
      <4> QED BY <4>3, <4>4
    <3> QED BY <3>1 DEF VouchedExists, WatermarkHonest
  <2>2. CASE ~Generate(w)
    BY <1>3, <2>2, HonestKept DEF WorkerStep, ClaimJob, Refuse, Interrupted, Acknowledge, Crash, taskVars
  <2> QED BY <2>1, <2>2
<1> QED BY <1>1, <1>2, <1>3 DEF Next

(* Until the next edit of its schedule, every key a task expects up to its   *)
(* watermark exists.                                                         *)
THEOREM WatermarkHonestHolds == Spec => []WatermarkHonest
<1> DEFINE I == TypeOK /\ VouchedExists /\ WatermarkHonest
<1>1. Init => I
  BY TypeInit, HonestInit
<1>2. I /\ [Next]_vars => I'
  BY TypeStep, HonestStep
<1>3. I => WatermarkHonest
  OBVIOUS
<1> QED BY <1>1, <1>2, <1>3, PTL DEF Spec

----------------------------------------------------------------------------
(* What a step may never do *)

(* Only the user who acted on an occurrence takes that back.                 *)
THEOREM HistoryKeptHolds == Spec => HistoryKept
<1>1. ASSUME TypeOK, [Next]_vars, NEW t \in Task, NEW d \in Day, occ[t][d] = "kept"
      PROVE  occ'[t][d] = "kept" \/ Reopen(t, d)
  <2>1. CASE NextDay \/ RetryDue \/ LeaseExpires \/ EnsureScheduled \/ UNCHANGED vars
    BY <1>1, <2>1 DEF NextDay, RetryDue, LeaseExpires, EnsureScheduled, vars, taskVars
  <2>2. ASSUME NEW u \in Task, ClientStep(u) PROVE occ'[t][d] = "kept" \/ Reopen(t, d)
    <3>1. ASSUME NEW from \in Day, NEW through \in 2 .. LastDay + 1, NEW days \in Recurrence,
                 Reschedule(u, from, through, days)
          PROVE  occ'[t][d] = "kept"
      <4>1. occ' = [occ EXCEPT ![u] = Reconciled(occ[u], from, through, days)]
        BY <3>1 DEF Reschedule
      <4>2. Reconciled(occ[t], from, through, days)[d] = "kept"
        BY <1>1 DEF Reconciled, Preserved
      <4>3. occ'[t] = occ[t] \/ occ'[t] = Reconciled(occ[t], from, through, days)
        <5> DEFINE row == Reconciled(occ[u], from, through, days)
        <5>1. CASE u = t
          BY <1>1, <4>1, <5>1 DEF TypeOK
        <5>2. CASE u # t
          BY <1>1, <4>1, <5>2 DEF TypeOK
        <5> QED BY <5>1, <5>2
      <4> QED BY <1>1, <4>2, <4>3
    <3>2. ASSUME NEW e \in Day, Touch(u, e) PROVE occ'[t][d] = "kept"
      BY <1>1, <3>2 DEF Touch, TypeOK
    <3>3. ASSUME NEW e \in Day, Reopen(u, e) PROVE occ'[t][d] = "kept" \/ Reopen(t, d)
      <4>1. CASE u = t /\ e = d
        BY <3>3, <4>1
      <4>2. CASE ~(u = t /\ e = d)
        BY <1>1, <3>3, <4>2 DEF Reopen, TypeOK
      <4> QED BY <4>1, <4>2
    <3>4. CASE PauseOrResume(u)
      BY <1>1, <3>4 DEF PauseOrResume
    <3> QED BY <2>2, <3>1, <3>2, <3>3, <3>4 DEF ClientStep
  <2>3. ASSUME NEW w \in Worker, WorkerStep(w) PROVE occ'[t][d] = "kept"
    <3>1. CASE Generate(w)
      <4>1. d \notin Planned(t, worker[w].day)
        BY <1>1 DEF Planned, Existing
      <4> QED BY <1>1, <3>1, <4>1 DEF Generate
    <3>2. CASE ~Generate(w)
      BY <1>1, <2>3, <3>2 DEF WorkerStep, ClaimJob, Refuse, Interrupted, Acknowledge, Crash, taskVars
    <3> QED BY <3>1, <3>2
  <2> QED BY <1>1, <2>1, <2>2, <2>3 DEF Next
<1>2. TypeOK /\ [Next]_vars =>
        [\A t \in Task : \A d \in Day :
           occ[t][d] = "kept" => occ'[t][d] = "kept" \/ Reopen(t, d)]_vars
  BY <1>1
<1> QED BY <1>2, GenerationTypes, PTL DEF Spec, HistoryKept

(* A cycle is ended by the worker that holds its claim.                      *)
THEOREM EndedByHolderHolds == Spec => EndedByHolder
<1>1. ASSUME TypeOK, [Next]_vars, job.status = "claimed", job'.status \in Outcome
      PROVE  \E w \in Worker : /\ worker[w].pc = "ack" /\ worker[w].claim = job.claim
                               /\ worker[w].outcome = job'.status
  <2>0. job' # job
    BY <1>1 DEF Outcome
  <2>1. CASE NextDay \/ RetryDue \/ UNCHANGED vars
    BY <1>1, <2>0, <2>1 DEF NextDay, RetryDue, vars
  <2>2. CASE LeaseExpires
    BY <1>1, <2>2 DEF LeaseExpires, TypeOK, Job, Outcome
  <2>3. CASE EnsureScheduled
    BY <1>1, <2>3 DEF EnsureScheduled, Restartable
  <2>4. ASSUME NEW t \in Task, ClientStep(t) PROVE FALSE
    BY <2>0, <2>4 DEF ClientStep, Reschedule, Touch, Reopen, PauseOrResume
  <2>5. ASSUME NEW w \in Worker, WorkerStep(w)
        PROVE  /\ worker[w].pc = "ack" /\ worker[w].claim = job.claim
               /\ worker[w].outcome = job'.status
    <3>1. CASE ClaimJob(w)
      BY <1>1, <3>1 DEF ClaimJob, Outcome
    <3>2. CASE Acknowledge(w)
      <4>1. HoldsClaim(w)
        BY <2>0, <3>2 DEF Acknowledge
      <4>2. job' = [job EXCEPT !.status = worker[w].outcome, !.due = FALSE, !.expired = FALSE]
        BY <3>2, <4>1 DEF Acknowledge
      <4>3. job'.status = worker[w].outcome
        BY <1>1, <4>2 DEF TypeOK, Job
      <4> QED BY <3>2, <4>1, <4>3 DEF Acknowledge, HoldsClaim
    <3>3. CASE Generate(w) \/ Refuse(w) \/ Interrupted(w) \/ Crash(w)
      BY <2>0, <3>3 DEF Generate, Refuse, Interrupted, Crash
    <3> QED BY <2>5, <3>1, <3>2, <3>3 DEF WorkerStep
  <2> QED BY <1>1, <2>1, <2>2, <2>3, <2>4, <2>5 DEF Next
<1>2. TypeOK /\ [Next]_vars =>
        [job.status = "claimed" /\ job'.status \in Outcome =>
           \E w \in Worker : /\ worker[w].pc = "ack" /\ worker[w].claim = job.claim
                             /\ worker[w].outcome = job'.status]_vars
  BY <1>1
<1> QED BY <1>2, GenerationTypes, PTL DEF Spec, EndedByHolder
=============================================================================
