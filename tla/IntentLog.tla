----------------------------- MODULE IntentLog -----------------------------
(***************************************************************************)
(* What the user of a phone is promised of what was done on it while the   *)
(* workspace could not be asked: a log of intents, each decided once, in   *)
(* the order in which the user made them, and carried out only if what it  *)
(* depends on was; the phone is told of a decision only what was decided,  *)
(* and is asked to try again only while nothing was.  There are no         *)
(* messages, receipts or epochs here.                                      *)
(***************************************************************************)
EXTENDS Integers

CONSTANT MaxIntent

Intent == 1 .. MaxIntent

VARIABLES told,     \* intent -> what the phone knows of it
          after,    \* intent -> the one it depends on, or 0
          decided,  \* the intents that are decided for good
          times     \* intent -> how often it was carried out

vars == <<told, after, decided, times>>

Init ==
  /\ told = [k \in Intent |-> "none"] /\ after = [k \in Intent |-> 0]
  /\ decided = {} /\ times = [k \in Intent |-> 0]

(* What is done while an earlier intent is unanswered depends on the last    *)
(* one that is.                                                              *)
Unanswered == {j \in Intent : told[j] \in {"open", "stale"}}

Compose(k) ==
  /\ told[k] = "none" /\ \A l \in Intent : l < k => told[l] # "none"
  /\ told' = [told EXCEPT ![k] = "open"]
  /\ \/ Unanswered = {} /\ after' = [after EXCEPT ![k] = 0]
     \/ \E j \in Unanswered : /\ \A b \in Unanswered : b <= j
                              /\ after' = [after EXCEPT ![k] = j]
  /\ UNCHANGED <<decided, times>>

Turn(k) == told[k] = "open" /\ k \notin decided /\ \A l \in Intent : l < k => l \in decided

(* With the decision the phone is told of it, or the answer is lost.         *)
Decide(k, answer) ==
  /\ Turn(k)
  /\ decided' = decided \cup {k}
  /\ told' \in {told, [told EXCEPT ![k] = answer]}
  /\ UNCHANGED after

Carry(k) ==
  /\ Decide(k, "done")
  /\ after[k] # 0 => times[after[k]] > 0
  /\ times' = [times EXCEPT ![k] = @ + 1]

Refuse(k) == Decide(k, "refused") /\ UNCHANGED times

Tell(k) ==
  /\ told[k] = "open"
  /\ told' = [told EXCEPT ![k] = IF k \notin decided THEN "stale"
                                 ELSE IF times[k] > 0 THEN "done" ELSE "refused"]
  /\ UNCHANGED <<after, decided, times>>

(* What is tried again is tried again together with all that came after it.  *)
TryAgain(k) ==
  /\ told[k] = "stale"
  /\ told' = [j \in Intent |-> IF j >= k /\ told[j] = "stale" THEN "open" ELSE told[j]]
  /\ UNCHANGED <<after, decided, times>>

Next == \E k \in Intent : Compose(k) \/ Carry(k) \/ Refuse(k) \/ Tell(k) \/ TryAgain(k)

Spec == Init /\ [][Next]_vars
=============================================================================
