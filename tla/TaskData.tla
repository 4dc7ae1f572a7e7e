------------------------------ MODULE TaskData ------------------------------
(***************************************************************************)
(* What a workspace promises to its clients across the migration: there is *)
(* one table of task data and one model that serves it.  Clients of the    *)
(* serving model change it one row at a time.  Switching the model changes *)
(* no row, and switching back is possible only until the first v2 write.   *)
(***************************************************************************)
EXTENDS Integers

CONSTANT Entity

VARIABLES data,         \* entity -> content
          serving,      \* the model whose clients may write
          irrevocable   \* a v2 client has written

vars == <<data, serving, irrevocable>>

Absent == 0
Edited == -1

Init ==
  /\ serving \in {"legacy", "v2"}
  /\ data \in [Entity -> {Absent, 1}]
  /\ serving = "v2" => data = [e \in Entity |-> Absent]
  /\ irrevocable = FALSE

OnlyRow(e) == data' = [data EXCEPT ![e] = data'[e]]

LegacyClient(e) ==
  /\ serving = "legacy"
  /\ data'[e] \in Nat /\ OnlyRow(e)
  /\ UNCHANGED <<serving, irrevocable>>

V2Client(e) ==
  /\ serving = "v2"
  /\ data'[e] \in {Edited, Absent} /\ OnlyRow(e)
  /\ irrevocable' = TRUE
  /\ UNCHANGED serving

SwitchToV2 ==
  /\ serving = "legacy" /\ serving' = "v2"
  /\ UNCHANGED <<data, irrevocable>>

SwitchBack ==
  /\ serving = "v2" /\ ~irrevocable /\ serving' = "legacy"
  /\ UNCHANGED <<data, irrevocable>>

Next ==
  \/ \E e \in Entity : LegacyClient(e) \/ V2Client(e)
  \/ SwitchToV2 \/ SwitchBack

Spec == Init /\ [][Next]_vars
=============================================================================
