------------------------- MODULE MobileSync_proofs -------------------------
(***************************************************************************)
(* Proofs, for any number of items, intents, epochs and edits and pages of *)
(* any size, of the safety of the mobile-v2 protocol: the types, what the  *)
(* phone is told of its commands, the order they are carried out in, what  *)
(* its copy may lack, and that what is deleted stays deleted.              *)
(***************************************************************************)
EXTENDS MobileSync, FiniteSetTheorems, WellFoundedInduction, TLAPS

(* The types without the bounds: the bounds follow from what the sequences  *)
(* count, at the end.                                                       *)
RowType     == [state : {"absent", "live", "deleted"}, revision : Nat, deletedAt : Nat]
BatchType   == [sequence : Nat, item : Item \cup {NoItem}, revision : Nat]
ReceiptType == [status : Status \cup {"none"}, revision : Nat]
IntentType  == [state : {"none", "open", "stale", "done", "refused"}, kind : Kind, item : Item,
                expected : Int, after : 0 .. MaxIntent, epoch : Epoch]
RequestType == [intent : Intent, epoch : Epoch, after : 0 .. MaxEpoch]
PhoneType   == [at : {"resync", "paging", "idle", "retention", "rows"}, store : [Item -> Nat],
                cursor : Nat, bound : Epoch, latest : Nat]

ServerTypes ==
  /\ row \in [Item -> RowType]
  /\ retired \subseteq Item /\ buried \subseteq Item
  /\ head \in Nat /\ compacted \in 0 .. head /\ epoch \in Epoch
  /\ feed \subseteq BatchType /\ IsFiniteSet(feed)
  /\ \A b \in feed : compacted < b.sequence /\ b.sequence <= head

CommandTypes ==
  /\ receipts \in [Command -> ReceiptType]
  /\ intent \in [Intent -> IntentType]
  /\ requests \subseteq RequestType
  /\ effects \in [Intent -> Nat] /\ webWrites \in Nat /\ overtaken \in BOOLEAN

Types == ServerTypes /\ CommandTypes /\ phone \in PhoneType

----------------------------------------------------------------------------
(* Batches *)

(* A set of batches of the feed has a last one, ...                         *)
LEMMA LastBatch ==
  ASSUME ServerTypes, NEW S \in SUBSET feed, S # {}
  PROVE  \E b \in S : \A a \in S : a.sequence <= b.sequence
<1> DEFINE R == OpToRel(<, Nat)  D == {head - b.sequence : b \in S}
<1>1. D \subseteq Nat /\ D # {}
  BY DEF ServerTypes, BatchType
<1>2. \E x \in D : \A y \in D : ~(<<y, x>> \in R)
  <2>1. IsWellFoundedOn(R, Nat)
    BY NatLessThanWellFounded
  <2> HIDE DEF R, D
  <2> QED BY <1>1, <2>1, WFMin
<1>3. PICK x \in D : \A y \in D : ~(y < x)
  BY <1>1, <1>2 DEF OpToRel
<1>4. PICK b \in S : x = head - b.sequence
  BY <1>3
<1>5. ASSUME NEW a \in S PROVE a.sequence <= b.sequence
  <2>1. ~(head - a.sequence < head - b.sequence)
    BY <1>3, <1>4
  <2>2. a.sequence \in Nat /\ b.sequence \in Nat /\ head \in Nat
    BY DEF ServerTypes, BatchType
  <2> QED BY <2>1, <2>2
<1> QED BY <1>5

(* ... and a first one.                                                     *)
LEMMA FirstBatch ==
  ASSUME ServerTypes, NEW S \in SUBSET feed, S # {}
  PROVE  \E b \in S : \A a \in S : b.sequence <= a.sequence
<1> DEFINE R == OpToRel(<, Nat)  D == {b.sequence : b \in S}
<1>1. D \subseteq Nat /\ D # {}
  BY DEF ServerTypes, BatchType
<1>2. \E x \in D : \A y \in D : ~(<<y, x>> \in R)
  <2>1. IsWellFoundedOn(R, Nat)
    BY NatLessThanWellFounded
  <2> HIDE DEF R, D
  <2> QED BY <1>1, <2>1, WFMin
<1>3. PICK x \in D : \A y \in D : ~(y < x)
  BY <1>1, <1>2 DEF OpToRel
<1>4. PICK b \in S : x = b.sequence
  BY <1>3
<1>5. ASSUME NEW a \in S PROVE b.sequence <= a.sequence
  <2>1. ~(a.sequence < b.sequence)
    BY <1>3, <1>4
  <2>2. a.sequence \in Nat /\ b.sequence \in Nat
    BY DEF ServerTypes, BatchType
  <2> QED BY <2>1, <2>2
<1> QED BY <1>5

(* A page is a prefix of what comes after the cursor, and it is not empty   *)
(* while there is something to come.                                        *)
LEMMA PageIsPrefix ==
  ASSUME ServerTypes, phone \in PhoneType
  PROVE  /\ \A b \in Page : b \in feed /\ b.sequence > phone.cursor
         /\ \A b \in Page, a \in feed :
              phone.cursor < a.sequence /\ a.sequence <= b.sequence => a \in Page
         /\ (\E b \in feed : b.sequence > phone.cursor) => Page # {}
<1> DEFINE Before(b) == {a \in feed : a.sequence > phone.cursor /\ a.sequence < b.sequence}
<1>1. \A b \in feed : IsFiniteSet(Before(b)) /\ Cardinality(Before(b)) \in Nat
  BY FS_Subset, FS_CardinalityType DEF ServerTypes
<1>2. \A b \in feed : b \in Page <=> b.sequence > phone.cursor /\ Cardinality(Before(b)) < PageLimit
  BY DEF Page
<1>3. \A b \in Page : b \in feed /\ b.sequence > phone.cursor
  BY DEF Page
<1>4. ASSUME NEW b \in Page, NEW a \in feed, phone.cursor < a.sequence, a.sequence <= b.sequence
      PROVE  a \in Page
  <2>1. a.sequence \in Nat /\ b.sequence \in Nat /\ phone.cursor \in Nat
    BY <1>3 DEF ServerTypes, BatchType, PhoneType
  <2>2. Before(a) \in SUBSET Before(b)
    <3> SUFFICES ASSUME NEW c \in feed, c.sequence > phone.cursor, c.sequence < a.sequence
                 PROVE  c.sequence < b.sequence
      OBVIOUS
    <3>1. c.sequence \in Nat
      BY DEF ServerTypes, BatchType
    <3> QED BY <2>1, <3>1, <1>4
  <2>3. Cardinality(Before(a)) <= Cardinality(Before(b))
    <3> HIDE DEF Before
    <3> QED BY <1>1, <1>3, <2>2, FS_Subset
  <2>4. Cardinality(Before(b)) < PageLimit
    BY <1>2, <1>3
  <2>5. Cardinality(Before(a)) < PageLimit
    <3> HIDE DEF Before
    <3> QED BY <1>1, <1>3, <2>3, <2>4, SyncAssumption
  <2> QED BY <1>2, <2>1, <2>5, <1>4
<1>5. ASSUME NEW c \in feed, c.sequence > phone.cursor PROVE Page # {}
  <2> DEFINE S == {b \in feed : b.sequence > phone.cursor}
  <2>1. S \in SUBSET feed /\ S # {}
    BY <1>5
  <2>2. PICK b \in S : \A a \in S : b.sequence <= a.sequence
    <3> HIDE DEF S
    <3> QED BY <2>1, FirstBatch
  <2>3. Before(b) = {}
    <3> SUFFICES ASSUME NEW a \in feed, a.sequence > phone.cursor, a.sequence < b.sequence
                 PROVE  FALSE
      OBVIOUS
    <3>1. b.sequence <= a.sequence
      BY <2>2
    <3>2. a.sequence \in Nat /\ b.sequence \in Nat
      BY DEF ServerTypes, BatchType
    <3> QED BY <3>1, <3>2
  <2>4. Cardinality(Before(b)) < PageLimit
    BY <2>3, FS_EmptySet, SyncAssumption
  <2> QED BY <1>2, <2>2, <2>4
<1> QED BY <1>3, <1>4, <1>5

(* Where there is more, the cursor moves to the last batch of the page.     *)
LEMMA NextCursorIsLast ==
  ASSUME ServerTypes, phone \in PhoneType
  PROVE  /\ ~HasMore => NextCursor = phone.latest
         /\ HasMore => /\ \E b \in Page : NextCursor = b.sequence
                       /\ \A a \in Page : a.sequence <= NextCursor
<1>1. ~HasMore => NextCursor = phone.latest
  BY DEF NextCursor
<1>2. ASSUME HasMore
      PROVE  (\E b \in Page : NextCursor = b.sequence) /\ \A a \in Page : a.sequence <= NextCursor
  <2> DEFINE S == {b.sequence : b \in Page}
  <2>1. Page # {} /\ Page \in SUBSET feed
    BY <1>2, PageIsPrefix DEF HasMore
  <2>2. PICK b \in Page : \A a \in Page : a.sequence <= b.sequence
    BY <2>1, LastBatch
  <2>3. \A n \in S : n \in Nat
    BY <2>1 DEF ServerTypes, BatchType
  <2>4. \E x \in S : \A y \in S : x >= y
    BY <2>2, <2>3
  <2>5. Max(S) \in S /\ \A y \in S : Max(S) >= y
    <3> HIDE DEF S
    <3> QED BY <2>4 DEF Max
  <2>6. NextCursor = Max(S)
    BY <1>2 DEF NextCursor
  <2>7. NextCursor \in S /\ \A y \in S : y <= NextCursor
    <3> HIDE DEF S
    <3> QED BY <2>3, <2>5, <2>6
  <2> QED BY <2>7
<1> QED BY <1>1, <1>2

(* The copy takes an item from the last batch of the page that carries it.  *)
LEMMA UpsertedFromLast ==
  ASSUME ServerTypes, phone \in PhoneType, NEW i \in Item
  PROVE  \/ /\ \A b \in Page : b.item # i
            /\ Upserted[i] = phone.store[i]
         \/ \E b \in Page : /\ b.item = i /\ Upserted[i] = b.revision
                            /\ \A a \in Page : a.item = i => a.sequence <= b.sequence
<1> DEFINE of == {b \in Page : b.item = i}
           last == CHOOSE b \in of : \A a \in of : a.sequence <= b.sequence
<1>1. CASE of = {}
  BY <1>1 DEF Upserted
<1>2. CASE of # {}
  <2>1. of \in SUBSET feed
    BY PageIsPrefix
  <2>2. \E b \in of : \A a \in of : a.sequence <= b.sequence
    <3> HIDE DEF of
    <3> QED BY <1>2, <2>1, LastBatch
  <2>3. last \in of /\ \A a \in of : a.sequence <= last.sequence
    <3> HIDE DEF of
    <3> QED BY <2>2
  <2>4. Upserted[i] = last.revision
    BY <1>2 DEF Upserted
  <2> HIDE DEF last
  <2> QED BY <2>3, <2>4
<1> QED BY <1>1, <1>2

----------------------------------------------------------------------------
(* Types *)

LEMMA InitTypes == SyncInit => Types
<1> SUFFICES ASSUME SyncInit PROVE Types
  OBVIOUS
<1>1. 1 \in Epoch
  BY SyncAssumption DEF Epoch
<1>2. NoIntent \in IntentType
  <2>1. (CHOOSE i \in Item : TRUE) \in Item
    BY SyncAssumption
  <2>2. 0 \in 0 .. MaxIntent
    BY SyncAssumption
  <2> QED BY <1>1, <2>1, <2>2 DEF NoIntent, IntentType, Kind, NoRevision
<1>3. ServerTypes
  BY <1>1, FS_EmptySet DEF SyncInit, ServerTypes, RowType
<1>4. CommandTypes
  BY <1>2 DEF SyncInit, CommandTypes, ReceiptType, NoReceipt, NoRevision
<1>5. phone \in PhoneType
  BY <1>1 DEF SyncInit, PhoneType, Cleared, NoRevision
<1> QED BY <1>3, <1>4, <1>5 DEF Types

(* What the statements of a transaction leave.                              *)
LEMMA PublishTypes ==
  ASSUME ServerTypes, NEW i \in Item \cup {NoItem}, NEW image \in Nat, Publish(i, image),
         compacted' = compacted
  PROVE  /\ head' = head + 1 /\ head' \in Nat /\ compacted' \in 0 .. head'
         /\ feed' \subseteq BatchType /\ IsFiniteSet(feed')
         /\ \A b \in feed' : compacted' < b.sequence /\ b.sequence <= head'
<1> DEFINE new == [sequence |-> head + 1, item |-> i, revision |-> image]
<1>1. head' = head + 1 /\ feed' = feed \cup {new}
  BY DEF Publish
<1>2. new \in BatchType /\ new.sequence = head + 1
  BY DEF ServerTypes, BatchType
<1>3. IsFiniteSet(feed')
  <2> HIDE DEF new
  <2> QED BY <1>1, FS_AddElement DEF ServerTypes
<1>4. feed' \subseteq BatchType
  BY <1>1, <1>2 DEF ServerTypes
<1>5. ASSUME NEW b \in feed' PROVE compacted < b.sequence /\ b.sequence <= head + 1
  <2>1. b \in feed \/ b = new
    BY <1>1
  <2> HIDE DEF new
  <2> QED BY <2>1, <1>2 DEF ServerTypes, BatchType
<1> QED BY <1>1, <1>3, <1>4, <1>5 DEF ServerTypes

LEMMA LiveTypes ==
  ASSUME ServerTypes, NEW i \in Item, NEW revision \in Nat, Live(i, revision)
  PROVE  row' \in [Item -> RowType]
BY DEF ServerTypes, Live, RowType

LEMMA DeletedTypes ==
  ASSUME ServerTypes, NEW i \in Item, Deleted(i)
  PROVE  row' \in [Item -> RowType] /\ retired' \subseteq Item /\ buried' \subseteq Item
<1>1. row[i].revision + 1 \in Nat /\ head + 1 \in Nat
  BY DEF ServerTypes, RowType
<1> QED BY <1>1 DEF ServerTypes, Deleted, RowType

LEMMA RevisionTypes ==
  ASSUME ServerTypes
  PROVE  \A i \in Item : row[i].revision \in Nat /\ Image(i) \in Nat
BY DEF ServerTypes, RowType, Image, NoRevision

(* An answer changes at most the state of its intent, and only while that   *)
(* is open and the command is the one that was sent last.                   *)
LEMMA ToldOnly ==
  ASSUME CommandTypes, NEW m \in RequestType, NEW state \in {"stale", "done", "refused"},
         Told(m, state)
  PROVE  /\ intent' \in [Intent -> IntentType]
         /\ \A k \in Intent :
              /\ intent'[k].epoch = intent[k].epoch /\ intent'[k].after = intent[k].after
              /\ intent'[k].item = intent[k].item /\ intent'[k].kind = intent[k].kind
              /\ intent'[k].expected = intent[k].expected
              /\ \/ intent'[k].state = intent[k].state
                 \/ /\ k = m.intent /\ intent[k].state = "open" /\ intent[k].epoch = m.epoch
                    /\ intent'[k].state = state
<1>1. m.intent \in Intent /\ intent[m.intent] \in IntentType
  BY DEF RequestType, CommandTypes
<1>2. CASE UNCHANGED intent
  BY <1>2 DEF CommandTypes
<1>3. CASE /\ intent[m.intent].state = "open" /\ intent[m.intent].epoch = m.epoch
           /\ intent' = [intent EXCEPT ![m.intent].state = state]
  <2>1. intent' \in [Intent -> IntentType]
    BY <1>1, <1>3 DEF CommandTypes, IntentType
  <2>2. \A k \in Intent : k # m.intent => intent'[k] = intent[k]
    BY <1>3 DEF CommandTypes
  <2>3. intent'[m.intent] = [intent[m.intent] EXCEPT !.state = state]
    BY <1>1, <1>3 DEF CommandTypes
  <2>4. /\ intent'[m.intent].epoch = intent[m.intent].epoch
        /\ intent'[m.intent].after = intent[m.intent].after
        /\ intent'[m.intent].item = intent[m.intent].item
        /\ intent'[m.intent].kind = intent[m.intent].kind
        /\ intent'[m.intent].expected = intent[m.intent].expected
        /\ intent'[m.intent].state = state
    BY <1>1, <2>3 DEF IntentType
  <2> QED BY <1>3, <2>1, <2>2, <2>4
<1> QED BY <1>2, <1>3 DEF Told

LEMMA ReceiptTypes ==
  ASSUME CommandTypes, NEW m \in RequestType, NEW status \in Status, NEW revision \in Nat,
         Receipt(m, status, revision)
  PROVE  /\ CommandIn(m) \in Command
         /\ receipts' \in [Command -> ReceiptType]
         /\ receipts'[CommandIn(m)] = [status |-> status, revision |-> revision]
         /\ \A c \in Command : c # CommandIn(m) => receipts'[c] = receipts[c]
<1>1. CommandIn(m) \in Command
  BY DEF RequestType, Command, CommandIn
<1> QED BY <1>1 DEF CommandTypes, Receipt, ReceiptType

LEMMA SentTypes ==
  ASSUME CommandTypes, NEW ks \in SUBSET Intent, intent' \in [Intent -> IntentType], Sent(ks)
  PROVE  /\ requests' \subseteq RequestType
         /\ \A m \in requests' :
              \/ m \in requests
              \/ /\ m.intent \in ks /\ m.epoch = intent'[m.intent].epoch
                 /\ m.after = IF intent'[m.intent].after = 0 THEN 0
                                ELSE intent'[intent'[m.intent].after].epoch
<1> DEFINE Of(k) == [intent |-> k, epoch |-> intent'[k].epoch,
                     after |-> IF intent'[k].after = 0 THEN 0
                               ELSE intent'[intent'[k].after].epoch]
<1>1. requests' = requests \cup {Of(k) : k \in ks}
  BY DEF Sent
<1>2. \A k \in Intent : Of(k) \in RequestType
  <2> SUFFICES ASSUME NEW k \in Intent PROVE Of(k) \in RequestType
    OBVIOUS
  <2>1. intent'[k] \in IntentType
    OBVIOUS
  <2>2. intent'[k].after # 0 => intent'[k].after \in Intent
    BY <2>1, SyncAssumption DEF IntentType, Intent
  <2>3. intent'[k].after # 0 => intent'[intent'[k].after].epoch \in 0 .. MaxEpoch
    BY <2>2, SyncAssumption DEF IntentType, Epoch
  <2>4. 0 \in 0 .. MaxEpoch
    BY SyncAssumption
  <2> QED BY <2>1, <2>3, <2>4 DEF RequestType, IntentType
<1> QED BY <1>1, <1>2 DEF CommandTypes

(* Every action keeps the types.                                            *)
LEMMA WebEditTypes ==
  ASSUME Types, NEW i \in Item, WebEdit(i) PROVE Types'
<1>1. row[i].revision + 1 \in Nat
  BY RevisionTypes DEF Types
<1>2. ServerTypes'
  <2>1. Live(i, row[i].revision + 1) /\ Publish(i, row[i].revision + 1) /\ compacted' = compacted
    BY DEF WebEdit
  <2>2. row' \in [Item -> RowType]
    BY <1>1, <2>1, LiveTypes DEF Types
  <2>3. /\ head' \in Nat /\ compacted' \in 0 .. head'
        /\ feed' \subseteq BatchType /\ IsFiniteSet(feed')
        /\ \A b \in feed' : compacted' < b.sequence /\ b.sequence <= head'
    BY <1>1, <2>1, PublishTypes DEF Types
  <2> QED BY <2>2, <2>3 DEF WebEdit, Types, ServerTypes
<1>3. CommandTypes'
  BY DEF WebEdit, Types, CommandTypes
<1> QED BY <1>2, <1>3 DEF WebEdit, Types

LEMMA WebDeleteTypes ==
  ASSUME Types, NEW i \in Item, WebDelete(i) PROVE Types'
<1>1. ServerTypes'
  <2>1. Deleted(i) /\ Publish(i, NoRevision) /\ compacted' = compacted
    BY DEF WebDelete
  <2>2. row' \in [Item -> RowType] /\ retired' \subseteq Item /\ buried' \subseteq Item
    BY <2>1, DeletedTypes DEF Types
  <2>3. /\ head' \in Nat /\ compacted' \in 0 .. head'
        /\ feed' \subseteq BatchType /\ IsFiniteSet(feed')
        /\ \A b \in feed' : compacted' < b.sequence /\ b.sequence <= head'
    BY <2>1, PublishTypes DEF Types, NoRevision
  <2> QED BY <2>2, <2>3 DEF WebDelete, Types, ServerTypes
<1>2. CommandTypes'
  BY DEF WebDelete, Types, CommandTypes
<1> QED BY <1>1, <1>2 DEF WebDelete, Types

LEMMA RaiseEpochTypes ==
  ASSUME Types, RaiseEpoch PROVE Types'
<1>1. epoch' \in Epoch
  BY SyncAssumption DEF RaiseEpoch, Types, ServerTypes, Epoch
<1> QED BY <1>1 DEF RaiseEpoch, Types, ServerTypes, CommandTypes, history

(* What the user does makes an open intent of it and a request.             *)
ComposedRow(k, kind, i) ==
  /\ intent'[k].state = "open" /\ intent'[k].epoch = phone.bound
  /\ intent'[k].kind = kind /\ intent'[k].item = i
  /\ intent'[k].expected \in {FromReceipt, phone.store[i], phone.store[i] + 1}
  /\ \/ /\ intent'[k].after = 0
        /\ \A j \in Intent : intent[j].state \notin {"open", "stale"}
     \/ \E j \in Intent :
          /\ intent'[k].after = j /\ intent[j].state \in {"open", "stale"}
          /\ \A b \in Intent : intent[b].state \in {"open", "stale"} => b <= j

LEMMA ComposeIntents ==
  ASSUME Types, NEW k \in Intent, NEW kind \in Kind, NEW i \in Item, Compose(k, kind, i)
  PROVE  /\ intent' \in [Intent -> IntentType]
         /\ \A l \in Intent : l # k => intent'[l] = intent[l]
         /\ ComposedRow(k, kind, i)
<1> DEFINE before == {j \in Intent : intent[j].state \in {"open", "stale"}}
           done   == [state |-> "open", kind |-> kind, item |-> i, expected |-> phone.store[i],
                      after |-> 0, epoch |-> phone.bound]
<1>1. phone.store[i] \in Nat /\ phone.bound \in Epoch
  BY DEF Types, PhoneType
<1>2. done \in IntentType /\ 0 \in 0 .. MaxIntent
  BY <1>1, SyncAssumption DEF IntentType
<1>3. CASE before = {} /\ intent' = [intent EXCEPT ![k] = done]
  <2>1. intent'[k] = done
    BY <1>3 DEF Types, CommandTypes
  <2>2. /\ done.state = "open" /\ done.kind = kind /\ done.item = i /\ done.after = 0
        /\ done.expected = phone.store[i] /\ done.epoch = phone.bound
    OBVIOUS
  <2>3. intent' \in [Intent -> IntentType] /\ \A l \in Intent : l # k => intent'[l] = intent[l]
    BY <1>2, <1>3 DEF Types, CommandTypes
  <2>4. \A j \in Intent : intent[j].state \notin {"open", "stale"}
    BY <1>3
  <2> HIDE DEF done
  <2> QED BY <2>1, <2>2, <2>3, <2>4 DEF ComposedRow
<1>4. ASSUME NEW j \in before, \A b \in before : b <= j,
             NEW revision \in {FromReceipt, phone.store[i] + 1},
             intent' = [intent EXCEPT ![k] = [done EXCEPT !.after = j, !.expected = revision]]
      PROVE  /\ intent' \in [Intent -> IntentType]
             /\ \A l \in Intent : l # k => intent'[l] = intent[l]
             /\ ComposedRow(k, kind, i)
  <2> DEFINE next == [done EXCEPT !.after = j, !.expected = revision]
  <2>1. intent'[k] = next
    BY <1>4 DEF Types, CommandTypes
  <2>2. /\ next.state = "open" /\ next.kind = kind /\ next.item = i /\ next.after = j
        /\ next.expected = revision /\ next.epoch = phone.bound
    OBVIOUS
  <2>3. j \in 0 .. MaxIntent /\ revision \in Int
    BY <1>1, SyncAssumption DEF Intent, FromReceipt
  <2>4. next \in IntentType
    BY <1>1, <2>3 DEF IntentType
  <2> HIDE DEF next
  <2>5. intent' = [intent EXCEPT ![k] = next]
    BY <1>4 DEF next
  <2>6. intent' \in [Intent -> IntentType] /\ \A l \in Intent : l # k => intent'[l] = intent[l]
    BY <2>4, <2>5 DEF Types, CommandTypes
  <2>7. \A b \in Intent : intent[b].state \in {"open", "stale"} => b <= j
    BY <1>4
  <2> QED BY <1>4, <2>1, <2>2, <2>6, <2>7 DEF ComposedRow
<1> QED BY <1>3, <1>4 DEF Compose

LEMMA ComposeTypes ==
  ASSUME Types, NEW k \in Intent, NEW kind \in Kind, NEW i \in Item, Compose(k, kind, i)
  PROVE  Types'
<1>1. requests' \subseteq RequestType
  BY ComposeIntents, SentTypes DEF Types, Compose
<1>2. intent' \in [Intent -> IntentType]
  BY ComposeIntents
<1>3. UNCHANGED <<tables, phone, history>>
  BY DEF Compose
<1> QED BY <1>1, <1>2, <1>3 DEF Types, ServerTypes, CommandTypes, tables, history

LEMMA ReplayReceiptTypes ==
  ASSUME Types, NEW m \in requests, ReplayReceipt(m) PROVE Types'
<1>1. m \in RequestType
  BY DEF Types, CommandTypes
<1>2. intent' \in [Intent -> IntentType]
  BY <1>1, ToldOnly DEF ReplayReceipt, Verdict, Types
<1> QED BY <1>2 DEF ReplayReceipt, Types, ServerTypes, CommandTypes, tables, history

LEMMA RefuseStaleTypes ==
  ASSUME Types, NEW m \in requests, NEW e \in Epoch, RefuseStale(m, e) PROVE Types'
<1>1. m \in RequestType
  BY DEF Types, CommandTypes
<1>2. intent' \in [Intent -> IntentType]
  BY <1>1, ToldOnly DEF RefuseStale, Types
<1> QED BY <1>2 DEF RefuseStale, Types, ServerTypes, CommandTypes, tables, history

LEMMA RejectDependentTypes ==
  ASSUME Types, NEW m \in requests, NEW e \in Epoch, RejectDependent(m, e) PROVE Types'
<1>1. m \in RequestType
  BY DEF Types, CommandTypes
<1>2. intent' \in [Intent -> IntentType]
  BY <1>1, ToldOnly DEF RejectDependent, Types
<1>3. receipts' \in [Command -> ReceiptType]
  BY <1>1, ReceiptTypes DEF RejectDependent, Types, NoRevision, Status
<1>4. ServerTypes'
  BY DEF RejectDependent, Types, ServerTypes, BatchType, history
<1> QED BY <1>2, <1>3, <1>4 DEF RejectDependent, Types, CommandTypes, history

LEMMA ApplyCommandTypes ==
  ASSUME Types, NEW m \in requests, NEW e \in Epoch, ApplyCommand(m, e) PROVE Types'
<1> DEFINE k == m.intent
           i == intent[k].item
<1>1. m \in RequestType /\ k \in Intent /\ i \in Item
  BY DEF Types, CommandTypes, RequestType, IntentType
<1>2. row[i].revision + 1 \in Nat /\ Image(i) \in Nat /\ compacted' = compacted
  BY <1>1, RevisionTypes DEF Types, ApplyCommand
<1>3. CASE Admitted(m)
  <2>1. /\ Receipt(m, "applied", row[i].revision + 1)
        /\ effects' = [effects EXCEPT ![k] = @ + 1]
        /\ Told(m, "done")
    BY <1>3 DEF ApplyCommand
  <2>2. CommandTypes'
    <3>1. intent' \in [Intent -> IntentType]
      BY <1>1, <2>1, ToldOnly DEF Types
    <3>2. receipts' \in [Command -> ReceiptType]
      BY <1>1, <1>2, <2>1, ReceiptTypes DEF Types, Status
    <3>3. effects' \in [Intent -> Nat]
      BY <1>1, <2>1 DEF Types, CommandTypes
    <3> QED BY <3>1, <3>2, <3>3 DEF ApplyCommand, Types, CommandTypes
  <2>3. ServerTypes'
    <3>1. CASE intent[k].kind = "delete"
      <4>1. Deleted(i) /\ Publish(i, NoRevision)
        BY <1>3, <3>1 DEF ApplyCommand
      <4>2. row' \in [Item -> RowType] /\ retired' \subseteq Item /\ buried' \subseteq Item
        BY <1>1, <4>1, DeletedTypes DEF Types
      <4>3. /\ head' \in Nat /\ compacted' \in 0 .. head'
            /\ feed' \subseteq BatchType /\ IsFiniteSet(feed')
            /\ \A b \in feed' : compacted' < b.sequence /\ b.sequence <= head'
        BY <1>1, <1>2, <4>1, PublishTypes DEF Types, NoRevision
      <4> QED BY <4>2, <4>3 DEF ApplyCommand, Types, ServerTypes
    <3>2. CASE intent[k].kind # "delete"
      <4>1. /\ Live(i, row[i].revision + 1) /\ Publish(i, row[i].revision + 1)
            /\ UNCHANGED <<retired, buried>>
        BY <1>3, <3>2 DEF ApplyCommand
      <4>2. row' \in [Item -> RowType]
        BY <1>1, <1>2, <4>1, LiveTypes DEF Types
      <4>3. /\ head' \in Nat /\ compacted' \in 0 .. head'
            /\ feed' \subseteq BatchType /\ IsFiniteSet(feed')
            /\ \A b \in feed' : compacted' < b.sequence /\ b.sequence <= head'
        BY <1>1, <1>2, <4>1, PublishTypes DEF Types
      <4> QED BY <4>1, <4>2, <4>3 DEF ApplyCommand, Types, ServerTypes
    <3> QED BY <3>1, <3>2
  <2> QED BY <2>2, <2>3 DEF ApplyCommand, Types
<1>4. CASE ~Admitted(m)
  <2>1. /\ UNCHANGED <<row, retired, buried, effects>>
        /\ Receipt(m, "conflict", NoRevision)
        /\ Told(m, "refused")
        /\ IF intent[k].kind = "create" THEN Publish(NoItem, NoRevision) ELSE Publish(i, Image(i))
    BY <1>4 DEF ApplyCommand
  <2>2. CommandTypes'
    <3>1. intent' \in [Intent -> IntentType]
      BY <1>1, <2>1, ToldOnly DEF Types
    <3>2. receipts' \in [Command -> ReceiptType]
      BY <1>1, <2>1, ReceiptTypes DEF Types, Status, NoRevision
    <3> QED BY <2>1, <3>1, <3>2 DEF ApplyCommand, Types, CommandTypes
  <2>3. /\ head' \in Nat /\ compacted' \in 0 .. head'
        /\ feed' \subseteq BatchType /\ IsFiniteSet(feed')
        /\ \A b \in feed' : compacted' < b.sequence /\ b.sequence <= head'
    <3>1. CASE Publish(NoItem, NoRevision)
      BY <1>2, <3>1, PublishTypes DEF Types, NoRevision
    <3>2. CASE Publish(i, Image(i))
      BY <1>1, <1>2, <3>2, PublishTypes DEF Types
    <3> QED BY <2>1, <3>1, <3>2
  <2>4. ServerTypes'
    BY <2>1, <2>3 DEF ApplyCommand, Types, ServerTypes
  <2> QED BY <2>2, <2>4 DEF ApplyCommand, Types
<1> QED BY <1>3, <1>4

LEMMA RebuildTypes ==
  ASSUME Types, NEW k \in Intent, Rebuild(k)
  PROVE  /\ Types'
         /\ \A j \in Intent :
              /\ intent'[j].kind = intent[j].kind /\ intent'[j].item = intent[j].item
              /\ intent'[j].expected = intent[j].expected /\ intent'[j].after = intent[j].after
              /\ IF j >= k /\ intent[j].state \in {"open", "stale"}
                 THEN intent'[j].state = "open" /\ intent'[j].epoch = epoch
                 ELSE intent'[j] = intent[j]
<1> DEFINE Next(j) == [intent[j] EXCEPT !.state = "open", !.epoch = epoch]
<1>1. \A j \in Intent : intent[j] \in IntentType /\ epoch \in Epoch
  BY DEF Types, CommandTypes, ServerTypes
<1>2. \A j \in Intent :
        /\ Next(j) \in IntentType /\ Next(j).state = "open" /\ Next(j).epoch = epoch
        /\ Next(j).kind = intent[j].kind /\ Next(j).item = intent[j].item
        /\ Next(j).expected = intent[j].expected /\ Next(j).after = intent[j].after
  BY <1>1 DEF IntentType
<1>3. intent' = [j \in Intent |-> IF j >= k /\ intent[j].state \in {"open", "stale"}
                                  THEN Next(j) ELSE intent[j]]
  BY DEF Rebuild
<1> HIDE DEF Next
<1>4. \A j \in Intent :
        intent'[j] = IF j >= k /\ intent[j].state \in {"open", "stale"} THEN Next(j) ELSE intent[j]
  BY <1>3
<1>5. intent' \in [Intent -> IntentType]
  <2>1. \A j \in Intent : intent'[j] \in IntentType
    BY <1>1, <1>2, <1>4
  <2> QED BY <1>3, <2>1
<1>6. requests' \subseteq RequestType
  <2> DEFINE ks == {j \in Intent : j >= k /\ intent'[j].state = "open"}
  <2>1. Sent(ks) /\ ks \in SUBSET Intent
    BY DEF Rebuild
  <2> HIDE DEF ks
  <2> QED BY <1>5, <2>1, SentTypes DEF Types
<1>7. Types'
  BY <1>5, <1>6 DEF Rebuild, Types, ServerTypes, CommandTypes, tables, history
<1> QED BY <1>2, <1>4, <1>7

LEMMA ClearedType == Cleared \in PhoneType
BY SyncAssumption DEF Cleared, PhoneType, Epoch, NoRevision

LEMMA PhoneStepTypes ==
  ASSUME Types, PhoneStep PROVE Types'
<1>1. phone \in PhoneType /\ head \in Nat /\ epoch \in Epoch
  BY DEF Types, ServerTypes
<1>2. phone' \in PhoneType
  <2>1. CASE ReadHead
    BY <1>1, <2>1, ClearedType DEF ReadHead, PhoneType
  <2>2. CASE ReadRetention
    BY <1>1, <2>2, ClearedType DEF ReadRetention, PhoneType
  <2>3. CASE ReadRows
    <3>1. NextCursor \in Nat
      <4>1. \A b \in Page : b.sequence \in Nat
        BY PageIsPrefix DEF Types, ServerTypes, BatchType
      <4> QED BY <1>1, <4>1, NextCursorIsLast DEF Types, PhoneType
    <3>2. Upserted \in [Item -> Nat]
      <4>1. \A b \in Page : b.revision \in Nat
        BY PageIsPrefix DEF Types, ServerTypes, BatchType
      <4>2. \A i \in Item : Upserted[i] \in Nat
        BY <1>1, <4>1, UpsertedFromLast DEF Types, PhoneType
      <4> QED BY <4>2 DEF Upserted
    <3> QED BY <1>1, <2>3, <3>1, <3>2 DEF ReadRows, PhoneType
  <2>4. CASE CreateSnapshot
    <3>1. Projected \in [Item -> Nat]
      BY RevisionTypes DEF Projected, Types
    <3> QED BY <1>1, <2>4, <3>1 DEF CreateSnapshot, PhoneType
  <2>5. CASE ReadSnapshotPages
    BY <1>1, <2>5, ClearedType DEF ReadSnapshotPages, PhoneType
  <2> QED BY <2>1, <2>2, <2>3, <2>4, <2>5 DEF PhoneStep
<1>3. /\ UNCHANGED <<tables, intent, requests, effects, buried, webWrites>>
      /\ overtaken' = overtaken \/ overtaken' = FALSE
  BY DEF PhoneStep, ReadHead, ReadRetention, ReadRows, CreateSnapshot, ReadSnapshotPages, history
<1>4. ServerTypes'
  BY <1>3 DEF Types, ServerTypes, tables
<1>5. CommandTypes'
  BY <1>3 DEF Types, CommandTypes, tables
<1> QED BY <1>2, <1>4, <1>5 DEF Types

(* Compaction goes up to a batch of the feed, or stays.                     *)
LEMMA RetainCompacts ==
  ASSUME Types, NEW cutoff \in 1 .. MaxHead, Retain(cutoff)
  PROVE  /\ compacted' = cutoff /\ compacted' \in 0 .. head /\ compacted < compacted'
         /\ feed' = {b \in feed : b.sequence > compacted'}
<1>1. PICK b \in feed : b.sequence = cutoff
  BY DEF Retain
<1>2. b.sequence \in Nat /\ compacted < b.sequence /\ b.sequence <= head /\ head \in Nat
      /\ compacted \in Nat
  BY DEF Types, ServerTypes, BatchType
<1>3. Max({compacted, cutoff}) = cutoff
  <2>1. cutoff \in {compacted, cutoff} /\ \A y \in {compacted, cutoff} : cutoff >= y
    BY <1>1, <1>2
  <2>2. \A x \in {compacted, cutoff} : (\A y \in {compacted, cutoff} : x >= y) => x = cutoff
    BY <1>1, <1>2
  <2> QED BY <2>1, <2>2 DEF Max
<1>4. compacted' = cutoff
  BY <1>3 DEF Retain
<1>5. feed' = {a \in feed : a.sequence > cutoff}
  BY DEF Retain
<1> QED BY <1>1, <1>2, <1>4, <1>5

LEMMA RetainTypes ==
  ASSUME Types, NEW cutoff \in 1 .. MaxHead, Retain(cutoff) PROVE Types'
<1>1. row' \in [Item -> RowType]
  <2>1. \A i \in Item : row[i] \in RowType
    BY DEF Types, ServerTypes
  <2>2. [state |-> "absent", revision |-> 0, deletedAt |-> 0] \in RowType
    BY DEF RowType
  <2> QED BY <2>1, <2>2 DEF Retain
<1>2. feed' \in SUBSET feed /\ IsFiniteSet(feed')
  BY RetainCompacts, FS_Subset DEF Types, ServerTypes
<1>3. ServerTypes'
  BY <1>1, <1>2, RetainCompacts DEF Retain, Types, ServerTypes
<1>4. CommandTypes'
  BY DEF Retain, Types, CommandTypes
<1>5. phone' \in PhoneType
  BY ClearedType DEF Retain, Types
<1> QED BY <1>3, <1>4, <1>5 DEF Types

----------------------------------------------------------------------------
(* The order of the commands *)

Applied(c) == receipts[c].status = "applied"
Composed(k) == intent[k].state # "none"
Pending(k) == Composed(k) /\ ~Received(Cur(k))

(* Intents are composed in their order, and depend on the last before them  *)
(* that was not answered.                                                   *)
Composing ==
  \A k \in Intent : Composed(k) =>
    /\ intent[k].epoch <= epoch
    /\ intent[k].after < k
    /\ \A l \in Intent : l < k => Composed(l)
    /\ \A l \in Intent : intent[k].after < l /\ l < k => intent[l].state \in {"done", "refused"}

RequestsKnown ==
  \A m \in requests :
    /\ Composed(m.intent) /\ m.epoch <= intent[m.intent].epoch
    /\ m.after = 0 <=> intent[m.intent].after = 0
    /\ m.after # 0 => m.after <= intent[intent[m.intent].after].epoch

(* Of all the commands built for an intent only the last is ever received.  *)
OneCommand ==
  \A c \in Command : Received(c) => Composed(c.intent) /\ c.epoch = intent[c.intent].epoch

Answers ==
  \A k \in Intent :
    /\ intent[k].state = "done" => Applied(Cur(k))
    /\ intent[k].state = "refused" => Received(Cur(k)) /\ ~Applied(Cur(k))
    /\ intent[k].state = "stale" =>
         /\ ~Received(Cur(k)) /\ intent[k].epoch < epoch
         /\ intent[k].after # 0 => Applied(Cur(intent[k].after))

(* Nothing is received before what the user did earlier, nor carried out    *)
(* unless what it depends on was.                                           *)
InOrder ==
  /\ \A l, k \in Intent : l < k /\ Pending(l) => ~Received(Cur(k))
  /\ \A k \in Intent : Composed(k) /\ intent[k].after # 0 /\ Applied(Cur(k))
                        => Applied(Cur(intent[k].after))

(* The epochs of what is not received never rise and then fall again.       *)
EpochsOfPending ==
  /\ phone.bound <= epoch
  /\ \A l, j \in Intent : l < j /\ Pending(l) /\ Pending(j) =>
       \/ intent[j].epoch <= intent[l].epoch
       \/ /\ phone.at # "resync" => intent[j].epoch <= phone.bound
          /\ \A k \in Intent : j < k /\ Pending(k) => intent[j].epoch <= intent[k].epoch

(* A command that was built again is of no use: what it names as its        *)
(* dependency was built again too, or is done.                              *)
OldRequests ==
  \A m \in requests :
    m.epoch < intent[m.intent].epoch /\ intent[m.intent].after # 0 =>
      \/ m.after < intent[intent[m.intent].after].epoch
      \/ Applied(Cur(intent[m.intent].after))

Order ==
  Composing /\ RequestsKnown /\ OneCommand /\ Answers /\ InOrder /\ EpochsOfPending /\ OldRequests

LEMMA IntentsOrdered ==
  \A l, n \in Intent :
    /\ l >= n <=> ~(l < n)
    /\ l > n <=> n < l
    /\ l <= n <=> ~(n < l)
    /\ l < n \/ l = n \/ n < l
<1>1. \A l \in Intent : l \in Int
  BY SyncAssumption DEF Intent
<1> SUFFICES ASSUME NEW l \in Int, NEW n \in Int
             PROVE  /\ l >= n <=> ~(l < n)
                    /\ l > n <=> n < l
                    /\ l <= n <=> ~(n < l)
                    /\ l < n \/ l = n \/ n < l
  BY <1>1
<1> QED OBVIOUS

LEMMA CommandFacts ==
  ASSUME Types
  PROVE  /\ \A k \in Intent : k \in Nat \ {0} /\ intent[k].epoch \in Nat /\ Cur(k) \in Command
         /\ \A k \in Intent : intent[k].after \in Nat
                              /\ (intent[k].after # 0 => intent[k].after \in Intent)
         /\ \A c \in Command : c = [intent |-> c.intent, epoch |-> c.epoch] /\ c.intent \in Intent
         /\ \A c \in Command : receipts[c].status \in Status \cup {"none"}
         /\ \A m \in requests : /\ m.intent \in Intent /\ m.epoch \in Nat /\ m.after \in Nat
                                /\ CommandIn(m) \in Command
                                /\ m \in RequestType
         /\ epoch \in Nat /\ phone.bound \in Nat
<1>1. \A k \in Intent : k \in Nat \ {0} /\ intent[k].epoch \in Nat /\ Cur(k) \in Command
  BY SyncAssumption DEF Types, CommandTypes, IntentType, Intent, Epoch, Cur, Command
<1>2. \A k \in Intent : intent[k].after \in Nat
                        /\ (intent[k].after # 0 => intent[k].after \in Intent)
  BY SyncAssumption DEF Types, CommandTypes, IntentType, Intent
<1>3. \A c \in Command : c = [intent |-> c.intent, epoch |-> c.epoch] /\ c.intent \in Intent
  BY DEF Command
<1>4. \A c \in Command : receipts[c].status \in Status \cup {"none"}
  BY DEF Types, CommandTypes, ReceiptType
<1>5. \A m \in requests : /\ m.intent \in Intent /\ m.epoch \in Nat /\ m.after \in Nat
                          /\ CommandIn(m) \in Command
                          /\ m \in RequestType
  BY SyncAssumption DEF Types, CommandTypes, RequestType, Epoch, CommandIn, Command
<1>6. epoch \in Nat /\ phone.bound \in Nat
  BY SyncAssumption DEF Types, ServerTypes, PhoneType, Epoch
<1> QED BY <1>1, <1>2, <1>3, <1>4, <1>5, <1>6

LEMMA InitOrder == SyncInit => Order
<1> SUFFICES ASSUME SyncInit PROVE Order
  OBVIOUS
<1>1. Types
  BY InitTypes
<1>2. \A k \in Intent : ~Composed(k)
  BY DEF SyncInit, Composed, NoIntent
<1>3. \A c \in Command : ~Received(c)
  BY DEF SyncInit, Received, NoReceipt
<1>4. requests = {} /\ phone.bound = 1 /\ epoch = 1
  BY DEF SyncInit, Cleared
<1>5. Answers
  BY DEF SyncInit, Answers, NoIntent
<1>6. InOrder /\ EpochsOfPending
  BY <1>1, <1>2, <1>3, <1>4, CommandFacts DEF InOrder, EpochsOfPending, Pending
<1> QED BY <1>2, <1>3, <1>4, <1>5, <1>6 DEF Order, Composing, RequestsKnown, OneCommand, OldRequests

(* The server's own steps and those of the reader leave the commands alone. *)
LEMMA OrderFrame ==
  ASSUME Types, Order, UNCHANGED <<receipts, intent, requests>>,
         epoch' \in Nat, epoch <= epoch', phone'.bound \in Nat, phone'.bound <= epoch',
         \/ phone'.at = "resync"
         \/ phone.at # "resync" /\ phone'.bound = phone.bound
         \/ phone'.bound = epoch
  PROVE  Order'
<1>1. \A k \in Intent : Cur(k)' = Cur(k) /\ (Composed(k)' <=> Composed(k))
                        /\ (Pending(k)' <=> Pending(k))
  BY DEF Cur, Composed, Pending, Received
<1>2. \A c \in Command : (Received(c)' <=> Received(c)) /\ (Applied(c)' <=> Applied(c))
  BY DEF Received, Applied
<1>3. \A k \in Intent : intent[k].epoch \in Nat
  BY CommandFacts
<1>4. Composing' /\ Answers'
  BY <1>1, <1>2, <1>3, CommandFacts DEF Order, Composing, Answers, Composed, Received, Applied, Cur
<1>5. RequestsKnown' /\ OneCommand' /\ OldRequests'
  BY DEF Order, RequestsKnown, OneCommand, OldRequests, Composed, Received, Applied, Cur
<1>6. InOrder'
  BY DEF Order, InOrder, Composed, Pending, Received, Applied, Cur
<1>7. EpochsOfPending'
  <2> SUFFICES ASSUME NEW l \in Intent, NEW j \in Intent, l < j, Pending(l), Pending(j),
                      ~(intent[j].epoch <= intent[l].epoch)
               PROVE  /\ phone'.at # "resync" => intent[j].epoch <= phone'.bound
                      /\ \A k \in Intent : j < k /\ Pending(k) => intent[j].epoch <= intent[k].epoch
    BY <1>1 DEF EpochsOfPending
  <2>1. /\ phone.at # "resync" => intent[j].epoch <= phone.bound
        /\ \A k \in Intent : j < k /\ Pending(k) => intent[j].epoch <= intent[k].epoch
    BY DEF Order, EpochsOfPending
  <2>2. intent[j].epoch <= epoch
    BY DEF Order, Composing, Pending
  <2> QED BY <2>1, <2>2
<1> QED BY <1>4, <1>5, <1>6, <1>7 DEF Order

(* Once what an intent depends on is received, so is all that came before.  *)
LEMMA EarlierReceived ==
  ASSUME Types, Order, NEW k \in Intent, Composed(k),
         intent[k].after # 0 => Received(Cur(intent[k].after)),
         NEW l \in Intent, l < k
  PROVE  Received(Cur(l)) /\ Composed(l)
<1>1. Composed(l)
  BY DEF Order, Composing
<1>2. CASE intent[k].after < l
  BY <1>2 DEF Order, Composing, Answers, Received, Applied
<1>3. intent[k].after \in Nat /\ l \in Nat \ {0}
  BY CommandFacts
<1>4. CASE intent[k].after = l
  BY <1>1, <1>3, <1>4
<1>5. CASE l < intent[k].after
  BY <1>1, <1>5, CommandFacts DEF Order, InOrder, Pending
<1> QED BY <1>1, <1>2, <1>3, <1>4, <1>5

(* A command that is answered may be received by it, if it is the current   *)
(* one of its intent and nothing earlier is missing.                        *)
Receives(m) ==
  /\ ~Received(Cur(m.intent)) /\ m.epoch = intent[m.intent].epoch
  /\ intent[m.intent].state # "stale"
  /\ \A l \in Intent : l < m.intent => Received(Cur(l))
  /\ Received(Cur(m.intent))'
  /\ intent[m.intent].after # 0 /\ Applied(Cur(m.intent))' => Applied(Cur(intent[m.intent].after))

(* What the answer says of the command.                                     *)
Says(m, state) ==
  m.epoch = intent[m.intent].epoch =>
    /\ state = "done" => Applied(Cur(m.intent))'
    /\ state = "refused" => Received(Cur(m.intent))' /\ ~Applied(Cur(m.intent))'
    /\ state = "stale" =>
         /\ ~Received(Cur(m.intent))' /\ intent[m.intent].epoch < epoch
         /\ intent[m.intent].after # 0 => Applied(Cur(intent[m.intent].after))

LEMMA AnswerKeepsOrder ==
  ASSUME Types, Order, NEW m \in requests, NEW state \in {"stale", "done", "refused"},
         Told(m, state), Says(m, state), UNCHANGED <<requests, epoch, phone>>,
         \/ UNCHANGED receipts
         \/ /\ Receives(m)
            /\ \A c \in Command : c # Cur(m.intent) => receipts'[c] = receipts[c]
  PROVE  Order'
<1> DEFINE n == m.intent
<1>1. /\ n \in Intent
      /\ \A k \in Intent :
           /\ intent'[k].epoch = intent[k].epoch /\ intent'[k].after = intent[k].after
           /\ \/ intent'[k].state = intent[k].state
              \/ /\ k = n /\ intent[k].state = "open" /\ intent[k].epoch = m.epoch
                 /\ intent'[k].state = state
  BY ToldOnly, CommandFacts DEF Types
<1>2. \A k \in Intent : Cur(k)' = Cur(k) /\ (Composed(k)' <=> Composed(k))
  BY <1>1 DEF Cur, Composed
<1>3. \A k, l \in Intent : Cur(k) = Cur(l) => k = l
  BY DEF Cur
<1>4. /\ \A c \in Command : Received(c) => Received(c)' /\ (Applied(c)' <=> Applied(c))
      /\ \A c \in Command : Received(c)' => Received(c) \/ (c = Cur(n) /\ Receives(m))
  BY <1>1, <1>2, CommandFacts DEF Received, Applied, Receives
<1>5. \A c \in Command : Applied(c) => Received(c)
  BY DEF Applied, Received
<1>6. /\ \A k \in Intent : k \in Nat \ {0} /\ intent[k].epoch \in Nat /\ Cur(k) \in Command
      /\ \A k \in Intent : intent[k].after \in Nat
                           /\ (intent[k].after # 0 => intent[k].after \in Intent)
      /\ epoch \in Nat
  BY CommandFacts
<1>7. Composed(n)
  BY DEF Order, RequestsKnown
<1>8. \A k \in Intent : Pending(k)' => Pending(k)
  BY <1>2, <1>4, <1>6 DEF Pending
<1> DEFINE Got(k) == receipts'[Cur(k)].status # "none"
           Done(k) == receipts'[Cur(k)].status = "applied"
<1>16. \A k \in Intent :
         /\ Received(Cur(k)) => Got(k) /\ (Done(k) <=> Applied(Cur(k)))
         /\ Got(k) => Received(Cur(k)) \/ (k = n /\ Receives(m))
         /\ Done(k) => Got(k)
  BY <1>1, <1>2, <1>3, <1>4, <1>6 DEF Received, Applied
<1>17. /\ \A k \in Intent : (Received(Cur(k))' <=> Got(k)) /\ (Applied(Cur(k))' <=> Done(k))
       /\ \A k \in Intent : intent[k].after # 0 =>
            (Applied(Cur(intent[k].after))' <=> Done(intent[k].after))
  BY <1>1, <1>6 DEF Received, Applied, Cur
<1> HIDE DEF Got, Done
<1>9. Composing'
  <2> SUFFICES ASSUME NEW k \in Intent, Composed(k)
               PROVE  /\ intent[k].epoch <= epoch
                      /\ intent[k].after < k
                      /\ \A l \in Intent : l < k => Composed(l)
                      /\ \A l \in Intent : intent[k].after < l /\ l < k
                                             => intent'[l].state \in {"done", "refused"}
    BY <1>1, <1>2 DEF Composing
  <2> QED BY <1>1 DEF Order, Composing
<1>10. RequestsKnown'
  <2>1. \A r \in requests : r.intent \in Intent
    BY CommandFacts
  <2> QED BY <2>1, <1>1, <1>2, <1>6 DEF Order, RequestsKnown
<1>11. OneCommand'
  <2> SUFFICES ASSUME NEW c \in Command, Received(c)'
               PROVE  Composed(c.intent) /\ c.epoch = intent[c.intent].epoch
    BY <1>1, <1>2, CommandFacts DEF OneCommand
  <2> QED BY <1>4, <1>7 DEF Order, OneCommand, Cur
<1>12. Answers'
  <2> SUFFICES ASSUME NEW k \in Intent
               PROVE  /\ intent'[k].state = "done" => Done(k)
                      /\ intent'[k].state = "refused" => Got(k) /\ ~Done(k)
                      /\ intent'[k].state = "stale" =>
                           /\ ~Got(k) /\ intent[k].epoch < epoch
                           /\ intent[k].after # 0 => Done(intent[k].after)
    BY <1>1, <1>2, <1>16, <1>17 DEF Answers
  <2>1. CASE intent'[k].state = intent[k].state
    <3>1. /\ intent[k].state = "done" => Applied(Cur(k))
          /\ intent[k].state = "refused" => Received(Cur(k)) /\ ~Applied(Cur(k))
          /\ intent[k].state = "stale" =>
               /\ ~Received(Cur(k)) /\ intent[k].epoch < epoch
               /\ intent[k].after # 0 => Applied(Cur(intent[k].after))
      BY DEF Order, Answers
    <3>2. Receives(m) => intent[n].state # "stale"
      BY DEF Receives
    <3> QED BY <2>1, <3>1, <3>2, <1>5, <1>6, <1>16
  <2>2. CASE k = n /\ intent[k].epoch = m.epoch /\ intent'[k].state = state
    <3>1. /\ state = "done" => Done(k)
          /\ state = "refused" => Got(k) /\ ~Done(k)
          /\ state = "stale" =>
               /\ ~Got(k) /\ intent[k].epoch < epoch
               /\ intent[k].after # 0 => Applied(Cur(intent[k].after))
      BY <2>2, <1>17 DEF Says
    <3> QED BY <2>2, <3>1, <1>5, <1>6, <1>16
  <2> QED BY <1>1, <2>1, <2>2
<1>13. InOrder'
  <2>1. ASSUME NEW l \in Intent, NEW k \in Intent, l < k, Pending(l)', Got(k)
        PROVE  FALSE
    <3>1. Pending(l)
      BY <2>1, <1>8
    <3>2. ~Received(Cur(k))
      BY <2>1, <3>1 DEF Order, InOrder
    <3>3. k = n /\ Receives(m)
      BY <2>1, <3>2, <1>16
    <3> QED BY <2>1, <3>1, <3>3 DEF Receives, Pending
  <2>2. ASSUME NEW k \in Intent, Composed(k), intent[k].after # 0, Done(k)
        PROVE  Done(intent[k].after)
    <3>1. CASE Received(Cur(k))
      <4>1. Applied(Cur(k))
        BY <2>2, <3>1, <1>16
      <4>2. Applied(Cur(intent[k].after))
        BY <2>2, <4>1 DEF Order, InOrder
      <4> QED BY <2>2, <4>2, <1>5, <1>6, <1>16
    <3>2. CASE ~Received(Cur(k))
      <4>1. k = n /\ Receives(m)
        BY <2>2, <3>2, <1>16
      <4>2. Applied(Cur(intent[k].after))
        BY <2>2, <4>1, <1>17 DEF Receives
      <4> QED BY <2>2, <4>2, <1>5, <1>6, <1>16
    <3> QED BY <3>1, <3>2
  <2> QED BY <2>1, <2>2, <1>1, <1>2, <1>16, <1>17 DEF InOrder
<1>14. EpochsOfPending'
  BY <1>1, <1>8, CommandFacts DEF Order, EpochsOfPending
<1>15. OldRequests'
  <2> SUFFICES ASSUME NEW r \in requests, r.epoch < intent[r.intent].epoch,
                      intent[r.intent].after # 0
               PROVE  \/ r.after < intent[intent[r.intent].after].epoch
                      \/ Done(intent[r.intent].after)
    <3>1. \A r \in requests : r.intent \in Intent
      BY CommandFacts
    <3> QED BY <3>1, <1>1, <1>6, <1>17 DEF OldRequests
  <2>1. r.intent \in Intent
    BY CommandFacts
  <2>2. \/ r.after < intent[intent[r.intent].after].epoch
        \/ Applied(Cur(intent[r.intent].after))
    BY DEF Order, OldRequests
  <2> QED BY <2>1, <2>2, <1>5, <1>6, <1>16
<1> QED BY <1>9, <1>10, <1>11, <1>12, <1>13, <1>14, <1>15 DEF Order

(* What a request names as its dependency, if it is received at all, is the *)
(* current command of that intent.                                          *)
LEMMA DependencyIsCurrent ==
  ASSUME Types, Order, NEW m \in requests, m.after # 0, Received(DependencyIn(m))
  PROVE  /\ intent[m.intent].after # 0 /\ intent[m.intent].after \in Intent
         /\ DependencyIn(m) = Cur(intent[m.intent].after)
         /\ m.after = intent[intent[m.intent].after].epoch
<1> DEFINE j == intent[m.intent].after
<1>1. m.intent \in Intent /\ j # 0
  BY CommandFacts DEF Order, RequestsKnown
<1>2. j \in Intent /\ m.after \in Epoch
  BY <1>1, CommandFacts, SyncAssumption DEF RequestType, Epoch
<1>3. DependencyIn(m) \in Command /\ DependencyIn(m).intent = j /\ DependencyIn(m).epoch = m.after
  BY <1>2 DEF DependencyIn, Command
<1>4. m.after = intent[j].epoch
  BY <1>3 DEF Order, OneCommand
<1> QED BY <1>1, <1>2, <1>4 DEF DependencyIn, Cur

LEMMA ReplayReceiptOrder ==
  ASSUME Types, Order, NEW m \in requests, ReplayReceipt(m) PROVE Order'
<1> DEFINE state == Verdict(receipts[CommandIn(m)].status)
<1>1. /\ Told(m, state) /\ state \in {"stale", "done", "refused"} /\ Received(CommandIn(m))
      /\ UNCHANGED <<receipts, requests, epoch, phone>>
  BY DEF ReplayReceipt, Verdict, tables
<1>2. m.epoch = intent[m.intent].epoch => CommandIn(m) = Cur(m.intent)
  BY DEF CommandIn, Cur
<1>3. intent'[m.intent].epoch = intent[m.intent].epoch
  BY <1>1, CommandFacts, ToldOnly DEF Types
<1>4. Says(m, state)
  BY <1>1, <1>2, <1>3 DEF Says, Verdict, Received, Applied, Cur
<1> HIDE DEF state
<1> QED BY <1>1, <1>4, AnswerKeepsOrder

LEMMA RefuseStaleOrder ==
  ASSUME Types, Order, NEW m \in requests, NEW e \in Epoch, RefuseStale(m, e) PROVE Order'
<1>1. /\ Told(m, "stale") /\ UNCHANGED <<receipts, requests, epoch, phone>>
      /\ ~Received(CommandIn(m)) /\ DependencyMet(m) /\ m.epoch # epoch
  BY DEF RefuseStale, NewCommand, Fenced, tables
<1>2. intent'[m.intent].epoch = intent[m.intent].epoch
  BY <1>1, CommandFacts, ToldOnly DEF Types
<1>3. ASSUME m.epoch = intent[m.intent].epoch
      PROVE  /\ ~Received(Cur(m.intent))' /\ intent[m.intent].epoch < epoch
             /\ intent[m.intent].after # 0 => Applied(Cur(intent[m.intent].after))
  <2>1. CommandIn(m) = Cur(m.intent) /\ Cur(m.intent)' = Cur(m.intent)
    BY <1>2, <1>3 DEF CommandIn, Cur
  <2>2. intent[m.intent].epoch <= epoch
    BY CommandFacts DEF Order, RequestsKnown, Composing
  <2>3. intent[m.intent].after # 0 => m.after # 0
    BY DEF Order, RequestsKnown
  <2>4. m.after # 0 => Applied(Cur(intent[m.intent].after))
    BY <1>1, DependencyIsCurrent DEF DependencyMet, Applied
  <2>5. ~Received(Cur(m.intent))'
    BY <1>1, <2>1 DEF Received
  <2>6. m.intent \in Intent /\ intent[m.intent].epoch \in Nat /\ epoch \in Nat
    BY CommandFacts
  <2>7. intent[m.intent].epoch < epoch
    BY <1>1, <1>3, <2>2, <2>6
  <2> QED BY <2>3, <2>4, <2>5, <2>7
<1>4. Says(m, "stale")
  BY <1>3 DEF Says
<1> QED BY <1>1, <1>4, AnswerKeepsOrder

LEMMA RejectDependentOrder ==
  ASSUME Types, Order, NEW m \in requests, NEW e \in Epoch, RejectDependent(m, e)
  PROVE  Order' /\ Receives(m) /\ m.epoch = intent[m.intent].epoch /\ Composed(m.intent)
<1> DEFINE j == intent[m.intent].after
<1>1. /\ Told(m, "refused") /\ UNCHANGED <<requests, epoch, phone>>
      /\ ~Received(CommandIn(m)) /\ Receipt(m, "rejected", NoRevision)
      /\ m.after # 0 /\ Received(DependencyIn(m)) /\ ~Applied(DependencyIn(m))
  BY DEF RejectDependent, NewCommand, DependencyFailed, Applied
<1>2. j # 0 /\ j \in Intent /\ DependencyIn(m) = Cur(j) /\ m.after = intent[j].epoch
  BY <1>1, DependencyIsCurrent
<1>3. m.intent \in Intent /\ Composed(m.intent) /\ m.epoch <= intent[m.intent].epoch
  BY CommandFacts DEF Order, RequestsKnown
<1>4. m.epoch = intent[m.intent].epoch
  <2>1. ~(m.epoch < intent[m.intent].epoch)
    BY <1>1, <1>2, <1>3, CommandFacts DEF Order, OldRequests
  <2>2. m.epoch \in Nat /\ intent[m.intent].epoch \in Nat
    BY <1>3, CommandFacts
  <2> QED BY <1>3, <2>1, <2>2
<1>5. CommandIn(m) = Cur(m.intent) /\ Cur(m.intent)' = Cur(m.intent)
  BY <1>1, <1>4, CommandFacts, ToldOnly DEF CommandIn, Cur, Types
<1>6. /\ receipts'[Cur(m.intent)] = [status |-> "rejected", revision |-> NoRevision]
      /\ \A c \in Command : c # Cur(m.intent) => receipts'[c] = receipts[c]
  BY <1>1, <1>5, CommandFacts, ReceiptTypes DEF Types, Status, NoRevision
<1>7. Received(Cur(m.intent))' /\ ~Applied(Cur(m.intent))'
  BY <1>5, <1>6 DEF Received, Applied
<1>8. intent[m.intent].state # "stale"
  BY <1>1, <1>2, <1>3 DEF Order, Answers
<1>9. \A l \in Intent : l < m.intent => Received(Cur(l))
  BY <1>1, <1>2, <1>3, EarlierReceived
<1>10. Receives(m)
  BY <1>1, <1>4, <1>5, <1>7, <1>8, <1>9 DEF Receives
<1>11. Says(m, "refused")
  BY <1>7 DEF Says
<1>12. Order'
  BY <1>1, <1>6, <1>10, <1>11, AnswerKeepsOrder
<1> QED BY <1>3, <1>4, <1>10, <1>12

LEMMA ApplyCommandOrder ==
  ASSUME Types, Order, NEW m \in requests, NEW e \in Epoch, ApplyCommand(m, e)
  PROVE  /\ Order' /\ Receives(m) /\ m.epoch = intent[m.intent].epoch /\ Composed(m.intent)
         /\ intent[m.intent].after # 0 => Applied(DependencyIn(m))
<1> DEFINE j == intent[m.intent].after
<1>1. /\ UNCHANGED <<requests, epoch, phone>>
      /\ ~Received(CommandIn(m)) /\ DependencyMet(m) /\ m.epoch = epoch
  BY DEF ApplyCommand, NewCommand, Fenced
<1>2. PICK status \in {"applied", "conflict"}, revision \in Nat :
        /\ Receipt(m, status, revision)
        /\ Told(m, Verdict(status))
  <2>1. row[intent[m.intent].item].revision + 1 \in Nat
    BY CommandFacts, RevisionTypes DEF Types, CommandTypes, IntentType
  <2> QED BY <2>1 DEF ApplyCommand, NoRevision, Verdict
<1>3. /\ m.intent \in Intent /\ Composed(m.intent) /\ m.epoch <= intent[m.intent].epoch
      /\ m.after = 0 <=> j = 0
  BY CommandFacts DEF Order, RequestsKnown
<1>4. m.epoch = intent[m.intent].epoch
  <2>1. intent[m.intent].epoch \in Nat /\ m.epoch \in Nat
    BY <1>3, CommandFacts
  <2>2. intent[m.intent].epoch <= m.epoch
    BY <1>1, <1>3 DEF Order, Composing
  <2> QED BY <1>3, <2>1, <2>2
<1>5. j # 0 => Applied(Cur(j)) /\ Received(Cur(j)) /\ Applied(DependencyIn(m))
  BY <1>1, <1>3, DependencyIsCurrent DEF DependencyMet, Applied, Received
<1>6. Verdict(status) \in {"done", "refused"} /\ status \in Status
  BY DEF Verdict, Status
<1>7. CommandIn(m) = Cur(m.intent) /\ Cur(m.intent)' = Cur(m.intent)
  BY <1>2, <1>4, <1>6, CommandFacts, ToldOnly DEF CommandIn, Cur, Types
<1>8. /\ receipts'[Cur(m.intent)] = [status |-> status, revision |-> revision]
      /\ \A c \in Command : c # Cur(m.intent) => receipts'[c] = receipts[c]
  BY <1>2, <1>6, <1>7, CommandFacts, ReceiptTypes DEF Types
<1>9. Received(Cur(m.intent))' /\ (Applied(Cur(m.intent))' <=> status = "applied")
  BY <1>7, <1>8 DEF Received, Applied
<1>10. intent[m.intent].state # "stale"
  BY <1>1, <1>3, <1>4, CommandFacts DEF Order, Answers
<1>11. \A l \in Intent : l < m.intent => Received(Cur(l))
  BY <1>3, <1>5, EarlierReceived
<1>12. Receives(m)
  BY <1>1, <1>4, <1>5, <1>7, <1>9, <1>10, <1>11 DEF Receives
<1>13. Says(m, Verdict(status))
  BY <1>9 DEF Says, Verdict
<1>14. Order'
  BY <1>1, <1>2, <1>6, <1>8, <1>12, <1>13, AnswerKeepsOrder
<1> QED BY <1>3, <1>4, <1>5, <1>12, <1>14

LEMMA ComposeOrder ==
  ASSUME Types, Order, NEW k \in Intent, NEW kind \in Kind, NEW i \in Item, Compose(k, kind, i)
  PROVE  Order' /\ \A e \in Epoch : ~Received([intent |-> k, epoch |-> e])
<1>1. /\ UNCHANGED <<receipts, epoch, phone>> /\ phone.at # "resync"
      /\ ~Composed(k) /\ \A l \in Intent : l < k => Composed(l)
  BY DEF Compose, Fresh, Composed, tables
<1>2. /\ k \in Nat /\ \A l \in Intent : l \in Nat \ {0} /\ intent[l].epoch \in Nat /\ Cur(l) \in Command
      /\ \A l \in Intent : intent[l].after \in Nat
      /\ \A l \in Intent : intent[l].after # 0 => intent[l].after \in Intent
      /\ phone.bound \in Nat /\ epoch \in Nat
  BY CommandFacts
<1>3. /\ \A l \in Intent : l # k => intent'[l] = intent[l]
      /\ intent' \in [Intent -> IntentType]
      /\ intent'[k].state = "open" /\ intent'[k].epoch = phone.bound
      /\ \/ /\ intent'[k].after = 0
            /\ \A j \in Intent : intent[j].state \notin {"open", "stale"}
         \/ \E j \in Intent :
              /\ intent'[k].after = j /\ intent[j].state \in {"open", "stale"}
              /\ \A b \in Intent : intent[b].state \in {"open", "stale"} => b <= j
  BY ComposeIntents DEF ComposedRow
<1>4. \A l \in Intent : Composed(l) => l < k
  BY <1>1, <1>2 DEF Order, Composing
<1>5. \A l \in Intent : (Composed(l)' <=> Composed(l) \/ l = k)
  BY <1>3 DEF Composed
<1>6. \A c \in Command : c.intent = k => ~Received(c)
  BY <1>1 DEF Order, OneCommand
<1>7. \A l \in Intent : Cur(l) \in Command /\ Cur(l)' \in Command /\ Cur(l).intent = l /\ Cur(l)'.intent = l
  BY <1>2, <1>3 DEF Cur, Command, IntentType
<1>8. \A l \in Intent : l # k => Cur(l)' = Cur(l)
  BY <1>3 DEF Cur
<1> DEFINE Got(l) == receipts'[[intent |-> l, epoch |-> intent'[l].epoch]].status # "none"
           Done(l) == receipts'[[intent |-> l, epoch |-> intent'[l].epoch]].status = "applied"
<1>9. \A l \in Intent : /\ Got(l) <=> Received(Cur(l)')
                        /\ Done(l) <=> Applied(Cur(l)')
                        /\ Received(Cur(l)') <=> Received(Cur(l))
                        /\ Applied(Cur(l)') <=> Applied(Cur(l))
  BY <1>1, <1>6, <1>7, <1>8 DEF Received, Applied, Cur
<1>10. /\ \A l \in Intent : /\ Got(l) <=> Received(Cur(l))
                            /\ Done(l) <=> Applied(Cur(l))
                            /\ Received(Cur(l))' <=> Got(l)
       /\ ~Received(Cur(k)) /\ ~Applied(Cur(k))
  BY <1>1, <1>6, <1>7, <1>9 DEF Received, Applied, Cur
<1>11. \A l \in Intent : (Pending(l)' <=> Pending(l) \/ l = k)
  BY <1>5, <1>10 DEF Pending
<1>12. intent'[k].after < k /\ intent'[k].after \in Nat
  BY <1>1, <1>2, <1>3, <1>4 DEF Composed
<1>13. \A l \in Intent : Composed(l) => intent[l].after < l /\ intent[l].after # k /\ intent'[l] = intent[l]
  BY <1>1, <1>2, <1>3, <1>4 DEF Order, Composing
<1>14. \A l \in Intent : Composed(l) /\ intent[l].after # 0 =>
          /\ intent'[l].after = intent[l].after
          /\ Done(intent'[l].after) <=> Applied(Cur(intent[l].after))
          /\ intent'[intent[l].after].epoch = intent[intent[l].after].epoch
  BY <1>1, <1>2, <1>3, <1>10, <1>13
<1>15. phone.bound <= epoch
  BY DEF Order, EpochsOfPending
<1>16. Composing'
  <2> SUFFICES ASSUME NEW n \in Intent, Composed(n)'
               PROVE  /\ intent'[n].epoch <= epoch
                      /\ intent'[n].after < n
                      /\ \A l \in Intent : l < n => Composed(l)'
                      /\ \A l \in Intent : intent'[n].after < l /\ l < n
                                             => intent'[l].state \in {"done", "refused"}
    BY <1>1 DEF Composing
  <2>1. CASE n = k
    <3>1. \A l \in Intent : intent[l].state \in {"none", "open", "stale", "done", "refused"}
      BY DEF Types, CommandTypes, IntentType
    <3>2. ASSUME NEW l \in Intent, intent'[k].after < l, l < k
          PROVE  intent'[l].state \in {"done", "refused"}
      <4>1. intent'[l] = intent[l] /\ intent[l].state # "none"
        BY <1>1, <1>2, <1>3, <3>2 DEF Composed
      <4>2. ASSUME intent[l].state \in {"open", "stale"} PROVE FALSE
        <5>1. PICK j \in Intent : intent'[k].after = j /\ l <= j
          BY <4>2, <1>3
        <5> QED BY <5>1, <3>2, IntentsOrdered
      <4> QED BY <3>1, <4>1, <4>2
    <3> QED BY <2>1, <3>2, <1>1, <1>3, <1>5, <1>12, <1>15
  <2>2. CASE n # k
    <3>1. Composed(n) /\ intent'[n] = intent[n] /\ n < k
      BY <2>2, <1>3, <1>4, <1>5
    <3>2. \A l \in Intent : l < n => intent'[l] = intent[l]
      BY <3>1, <1>2, <1>3
    <3> QED BY <3>1, <3>2, <1>5 DEF Order, Composing
  <2> QED BY <2>1, <2>2
<1>17. \A m \in requests' :
         \/ m \in requests /\ m.intent \in Intent /\ Composed(m.intent)
         \/ /\ m.intent = k /\ m.epoch = intent'[k].epoch /\ m.after \in Nat
            /\ m.after = IF intent'[k].after = 0 THEN 0 ELSE intent'[intent'[k].after].epoch
  <2>1. Sent({k}) /\ {k} \in SUBSET Intent
    BY DEF Compose
  <2>2. /\ requests' \subseteq RequestType
        /\ \A m \in requests' :
             \/ m \in requests
             \/ /\ m.intent \in {k} /\ m.epoch = intent'[m.intent].epoch
                /\ m.after = IF intent'[m.intent].after = 0 THEN 0
                             ELSE intent'[intent'[m.intent].after].epoch
    BY <1>3, <2>1, SentTypes DEF Types
  <2>3. \A m \in requests : m.intent \in Intent /\ Composed(m.intent)
    BY CommandFacts DEF Order, RequestsKnown
  <2>4. \A m \in requests' : m.after \in Nat
    BY <2>2, SyncAssumption DEF RequestType
  <2> QED BY <2>2, <2>3, <2>4
<1>18. RequestsKnown'
  <2> SUFFICES ASSUME NEW m \in requests'
               PROVE  /\ Composed(m.intent)' /\ m.epoch <= intent'[m.intent].epoch
                      /\ m.after = 0 <=> intent'[m.intent].after = 0
                      /\ m.after # 0 => m.after <= intent'[intent'[m.intent].after].epoch
    BY DEF RequestsKnown
  <2>1. CASE m \in requests /\ m.intent \in Intent /\ Composed(m.intent)
    <3>1. /\ m.epoch <= intent[m.intent].epoch
          /\ m.after = 0 <=> intent[m.intent].after = 0
          /\ m.after # 0 => m.after <= intent[intent[m.intent].after].epoch
      BY <2>1 DEF Order, RequestsKnown
    <3> QED BY <2>1, <3>1, <1>5, <1>13, <1>14
  <2>2. CASE /\ m.intent = k /\ m.epoch = intent'[k].epoch /\ m.after \in Nat
             /\ m.after = IF intent'[k].after = 0 THEN 0 ELSE intent'[intent'[k].after].epoch
    <3>1. Composed(k)' /\ intent'[k].epoch \in Nat
      BY <1>2, <1>3, <1>5
    <3>2. \A j \in Intent : intent'[j].epoch # 0
      BY <1>3, SyncAssumption DEF IntentType, Epoch
    <3>3. intent'[k].after # 0 => intent'[k].after \in Intent
      BY <1>3
    <3> QED BY <2>2, <3>1, <3>2, <3>3
  <2> QED BY <1>17, <2>1, <2>2
<1>19. OneCommand'
  <2> SUFFICES ASSUME NEW c \in Command, Received(c)
               PROVE  Composed(c.intent)' /\ c.epoch = intent'[c.intent].epoch
    BY <1>1 DEF OneCommand, Received
  <2>1. c.intent \in Intent /\ c.intent # k /\ Composed(c.intent) /\ c.epoch = intent[c.intent].epoch
    BY <1>6, CommandFacts DEF Order, OneCommand
  <2> QED BY <2>1, <1>3, <1>5
<1>20. Answers'
  <2> SUFFICES ASSUME NEW n \in Intent
               PROVE  /\ intent'[n].state = "done" => Done(n)
                      /\ intent'[n].state = "refused" => Got(n) /\ ~Done(n)
                      /\ intent'[n].state = "stale" =>
                           /\ ~Got(n) /\ intent'[n].epoch < epoch
                           /\ intent'[n].after # 0 => Done(intent'[n].after)
    BY <1>1 DEF Answers, Applied, Received, Cur
  <2> HIDE DEF Got, Done
  <2>1. CASE n = k
    BY <2>1, <1>3
  <2>2. CASE n # k
    <3>1. intent'[n] = intent[n]
      BY <2>2, <1>3
    <3>2. CASE Composed(n)
      BY <3>1, <3>2, <1>10, <1>14 DEF Order, Answers
    <3>3. CASE ~Composed(n)
      BY <3>1, <3>3 DEF Composed
    <3> QED BY <3>2, <3>3
  <2> QED BY <2>1, <2>2
<1>21. InOrder'
  <2>1. ASSUME NEW l \in Intent, NEW n \in Intent, l < n, Pending(l)', Got(n)
        PROVE  FALSE
    <3> HIDE DEF Got, Done
    <3>1. Received(Cur(n)) /\ n # k
      BY <2>1, <1>10
    <3>2. Composed(n)
      BY <3>1, <1>7 DEF Order, OneCommand
    <3>3. Pending(l)
      BY <2>1, <3>2, <1>2, <1>4, <1>11
    <3> QED BY <2>1, <3>1, <3>3 DEF Order, InOrder
  <2>2. ASSUME NEW n \in Intent, Composed(n)', intent'[n].after # 0, Done(n)
        PROVE  Done(intent'[n].after)
    <3> HIDE DEF Got, Done
    <3>1. Applied(Cur(n)) /\ n # k /\ Composed(n)
      BY <2>2, <1>5, <1>10
    <3>2. intent'[n].after = intent[n].after
      BY <3>1, <1>13
    <3>3. Applied(Cur(intent[n].after))
      BY <2>2, <3>1, <3>2 DEF Order, InOrder
    <3> QED BY <2>2, <3>1, <3>2, <3>3, <1>14
  <2> QED BY <2>1, <2>2 DEF InOrder, Applied, Received, Cur
<1>22. EpochsOfPending'
  <2> SUFFICES ASSUME NEW l \in Intent, NEW j \in Intent, l < j, Pending(l)', Pending(j)',
                      ~(intent'[j].epoch <= intent'[l].epoch)
               PROVE  /\ intent'[j].epoch <= phone.bound
                      /\ \A n \in Intent : j < n /\ Pending(n)' => intent'[j].epoch <= intent'[n].epoch
    BY <1>1, <1>15 DEF EpochsOfPending
  <2>1. \A n \in Intent : Pending(n) => n < k
    BY <1>4 DEF Pending
  <2>2. l # k /\ Pending(l) /\ intent'[l] = intent[l]
    BY <1>2, <1>3, <1>11, <2>1
  <2>3. CASE j = k
    BY <2>3, <1>2, <1>3, <1>11, <2>1
  <2>4. CASE j # k
    <3>1. Pending(j) /\ intent'[j] = intent[j] /\ j < k
      BY <2>4, <2>1, <1>3, <1>11
    <3>2. /\ intent[j].epoch <= phone.bound
          /\ \A n \in Intent : j < n /\ Pending(n) => intent[j].epoch <= intent[n].epoch
      BY <2>2, <3>1, <1>1 DEF Order, EpochsOfPending
    <3> QED BY <3>1, <3>2, <1>3, <1>11
  <2> QED BY <2>3, <2>4
<1>23. OldRequests'
  <2> SUFFICES ASSUME NEW m \in requests', m.epoch < intent'[m.intent].epoch,
                      intent'[m.intent].after # 0
               PROVE  \/ m.after < intent'[intent'[m.intent].after].epoch
                      \/ Done(intent'[m.intent].after)
    BY DEF OldRequests, Applied, Cur
  <2> HIDE DEF Got, Done
  <2>1. m \in requests /\ m.intent \in Intent /\ Composed(m.intent)
    <3>1. ~(intent'[k].epoch < intent'[k].epoch)
      BY <1>2, <1>3
    <3>2. ~(m.intent = k /\ m.epoch = intent'[k].epoch)
      BY <3>1
    <3> QED BY <1>17, <3>2
  <2>2. intent'[m.intent] = intent[m.intent]
    BY <2>1, <1>13
  <2>3. \/ m.after < intent[intent[m.intent].after].epoch
        \/ Applied(Cur(intent[m.intent].after))
    BY <2>1, <2>2 DEF Order, OldRequests
  <2> QED BY <2>1, <2>2, <2>3, <1>14
<1>24. \A e \in Epoch : ~Received([intent |-> k, epoch |-> e])
  BY <1>6 DEF Command
<1> QED BY <1>16, <1>18, <1>19, <1>20, <1>21, <1>22, <1>23, <1>24 DEF Order

(* A stale command is the first that is not received; what follows it is    *)
(* not received either, and all of it is built again.                       *)
LEMMA StaleIsFirst ==
  ASSUME Types, Order, NEW k \in Intent, intent[k].state = "stale"
  PROVE  /\ Composed(k) /\ intent[k].epoch < epoch
         /\ \A l \in Intent : l < k => Received(Cur(l)) /\ Composed(l)
         /\ \A l \in Intent : l >= k => ~Received(Cur(l))
         /\ \A l \in Intent : l >= k /\ Composed(l) => intent[l].state \in {"open", "stale"}
<1>1. /\ Composed(k) /\ intent[k].epoch < epoch /\ ~Received(Cur(k))
      /\ intent[k].after # 0 => Received(Cur(intent[k].after))
  BY DEF Order, Answers, Composed, Received, Applied
<1>2. \A l \in Intent : l < k => Received(Cur(l)) /\ Composed(l)
  BY <1>1, EarlierReceived
<1>3. \A l \in Intent : l >= k => ~Received(Cur(l))
  <2> SUFFICES ASSUME NEW l \in Intent, l >= k, Received(Cur(l)) PROVE FALSE
    OBVIOUS
  <2>1. l # k
    BY <1>1
  <2>2. k < l
    BY <2>1, IntentsOrdered
  <2> QED BY <1>1, <2>2 DEF Order, InOrder, Pending
<1>4. ASSUME NEW l \in Intent, l >= k, Composed(l) PROVE intent[l].state \in {"open", "stale"}
  <2>1. intent[l].state \in {"none", "open", "stale", "done", "refused"}
    BY DEF Types, CommandTypes, IntentType
  <2>2. ~Received(Cur(l)) /\ ~Applied(Cur(l))
    BY <1>3, <1>4 DEF Received, Applied
  <2> QED BY <1>4, <2>1, <2>2 DEF Order, Answers, Composed
<1> QED BY <1>1, <1>2, <1>3, <1>4

LEMMA RebuildOrder ==
  ASSUME Types, Order, NEW k \in Intent, Rebuild(k)
  PROVE  Order' /\ \A l \in Intent : /\ Applied(Cur(l)) <=> Applied(Cur(l))'
                                     /\ Received(Cur(l)) <=> Received(Cur(l))'
<1>1. /\ UNCHANGED <<receipts, epoch, phone>> /\ intent[k].state = "stale"
      /\ Sent({j \in Intent : j >= k /\ intent'[j].state = "open"})
  BY DEF Rebuild, tables
<1>2. /\ k \in Nat /\ \A l \in Intent : l \in Nat \ {0} /\ intent[l].epoch \in Nat /\ Cur(l) \in Command
      /\ \A l \in Intent : intent[l].after \in Nat
      /\ \A l \in Intent : intent[l].after # 0 => intent[l].after \in Intent
      /\ epoch \in Nat
  BY CommandFacts
<1>0. k \in Int /\ \A l \in Intent : l \in Int
  BY SyncAssumption DEF Intent
<1>3. /\ Composed(k) /\ intent[k].epoch < epoch
      /\ \A l \in Intent : l < k => Received(Cur(l)) /\ Composed(l)
      /\ \A l \in Intent : l >= k => ~Received(Cur(l))
      /\ \A l \in Intent : l >= k /\ Composed(l) => intent[l].state \in {"open", "stale"}
  BY <1>1, StaleIsFirst
<1>4. /\ \A l \in Intent : l < k => intent'[l] = intent[l]
      /\ \A l \in Intent : ~Composed(l) => intent'[l] = intent[l]
      /\ \A l \in Intent : l >= k /\ Composed(l) =>
            intent'[l].state = "open" /\ intent'[l].epoch = epoch
      /\ \A l \in Intent : intent'[l].after = intent[l].after
  <2>1. \A l \in Intent : /\ intent'[l].after = intent[l].after
                          /\ IF l >= k /\ intent[l].state \in {"open", "stale"}
                             THEN intent'[l].state = "open" /\ intent'[l].epoch = epoch
                             ELSE intent'[l] = intent[l]
    BY RebuildTypes
  <2>2. \A l \in Intent : l < k => ~(l >= k)
    BY <1>0, <1>2
  <2>3. \A l \in Intent : ~Composed(l) => intent[l].state \notin {"open", "stale"}
    BY DEF Composed
  <2> QED BY <2>1, <2>2, <2>3, <1>3
<1>5. intent' \in [Intent -> IntentType] /\ requests' \subseteq RequestType
  BY RebuildTypes DEF Types, CommandTypes
<1>6. \A l \in Intent : Composed(l)' <=> Composed(l)
  BY <1>2, <1>3, <1>4 DEF Composed
<1>7. \A l \in Intent : Composed(l) => intent'[l].epoch <= epoch /\ intent[l].epoch <= intent'[l].epoch
  BY <1>2, <1>4 DEF Order, Composing
<1>8. \A c \in Command : Received(c) =>
        c = Cur(c.intent) /\ c.intent < k /\ Composed(c.intent) /\ c.epoch = intent'[c.intent].epoch
  <2> SUFFICES ASSUME NEW c \in Command, Received(c)
               PROVE  c = Cur(c.intent) /\ c.intent < k /\ Composed(c.intent)
                      /\ c.epoch = intent'[c.intent].epoch
    OBVIOUS
  <2>1. /\ c = [intent |-> c.intent, epoch |-> c.epoch] /\ c.intent \in Intent
        /\ Composed(c.intent) /\ c.epoch = intent[c.intent].epoch
    BY CommandFacts DEF Order, OneCommand
  <2>2. c = Cur(c.intent)
    BY <2>1 DEF Cur
  <2>3. ~(c.intent >= k)
    BY <2>1, <2>2, <1>3
  <2> QED BY <2>1, <2>2, <2>3, <1>2, <1>4
<1> DEFINE Got(l) == receipts'[[intent |-> l, epoch |-> intent'[l].epoch]].status # "none"
           Done(l) == receipts'[[intent |-> l, epoch |-> intent'[l].epoch]].status = "applied"
<1>9. \A l \in Intent : /\ Got(l) <=> Received(Cur(l))
                        /\ Done(l) <=> Applied(Cur(l))
  <2> SUFFICES ASSUME NEW l \in Intent
               PROVE  (Got(l) <=> Received(Cur(l))) /\ (Done(l) <=> Applied(Cur(l)))
    OBVIOUS
  <2>1. CASE l < k
    BY <2>1, <1>1, <1>4 DEF Received, Applied, Cur
  <2>2. CASE l >= k
    <3> DEFINE c == [intent |-> l, epoch |-> intent'[l].epoch]
    <3>1. c \in Command /\ c.intent = l
      BY <1>5 DEF Command, IntentType
    <3>2. ~(l < k)
      BY <1>2, <2>2
    <3>3. ~Received(c)
      BY <3>1, <3>2, <1>8
    <3>4. ~Received(Cur(l))
      BY <2>2, <1>3
    <3> QED BY <3>3, <3>4, <1>1 DEF Received, Applied
  <2> QED BY <2>1, <2>2, <1>2
<1>10. \A l \in Intent : (Received(Cur(l))' <=> Got(l)) /\ (Applied(Cur(l))' <=> Done(l))
  BY DEF Received, Applied, Cur
<1>11. \A l \in Intent : Pending(l)' => l >= k /\ Composed(l)
  <2> SUFFICES ASSUME NEW l \in Intent, Pending(l)' PROVE l >= k /\ Composed(l)
    OBVIOUS
  <2> HIDE DEF Got, Done
  <2>1. Composed(l) /\ ~Received(Cur(l))
    BY <1>6, <1>9, <1>10 DEF Pending
  <2>2. ~(l < k)
    BY <2>1, <1>3
  <2> QED BY <1>0, <2>1, <2>2
<1>12. Composing'
  <2> SUFFICES ASSUME NEW n \in Intent, Composed(n)
               PROVE  /\ intent'[n].epoch <= epoch
                      /\ intent[n].after < n
                      /\ \A l \in Intent : l < n => Composed(l)
                      /\ \A l \in Intent : intent[n].after < l /\ l < n
                                             => intent'[l].state \in {"done", "refused"}
    BY <1>1, <1>4, <1>6 DEF Composing
  <2>1. /\ intent[n].after < n
        /\ \A l \in Intent : l < n => Composed(l)
        /\ \A l \in Intent : intent[n].after < l /\ l < n => intent[l].state \in {"done", "refused"}
    BY DEF Order, Composing
  <2>2. ASSUME NEW l \in Intent, intent[n].after < l, l < n PROVE intent'[l] = intent[l]
    <3>1. intent[l].state \in {"done", "refused"} /\ Composed(l)
      BY <2>1, <2>2
    <3>2. ~(l >= k)
      BY <3>1, <1>3
    <3>3. l < k
      BY <3>2, IntentsOrdered
    <3> QED BY <3>3, <1>4
  <2> QED BY <2>1, <2>2, <1>7
<1>13. \A m \in requests' :
         \/ m \in requests /\ m.intent \in Intent /\ m.epoch \in Nat /\ m.after \in Nat
         \/ /\ m.intent \in Intent /\ Composed(m.intent) /\ m.epoch = intent'[m.intent].epoch
            /\ m.epoch \in Nat /\ m.after \in Nat
            /\ m.after = IF intent'[m.intent].after = 0 THEN 0
                           ELSE intent'[intent'[m.intent].after].epoch
  <2> DEFINE ks == {j \in Intent : j >= k /\ intent'[j].state = "open"}
  <2>1. \A j \in ks : j \in Intent /\ Composed(j)
    BY <1>6 DEF Composed
  <2>2. Sent(ks) /\ ks \in SUBSET Intent
    BY <1>1
  <2>3. \A m \in requests' : m.intent \in Intent /\ m.epoch \in Nat /\ m.after \in Nat
    BY <1>5, SyncAssumption DEF RequestType, Epoch
  <2> HIDE DEF ks
  <2>4. \A m \in requests' :
             \/ m \in requests
             \/ /\ m.intent \in ks /\ m.epoch = intent'[m.intent].epoch
                /\ m.after = IF intent'[m.intent].after = 0 THEN 0
                             ELSE intent'[intent'[m.intent].after].epoch
    BY <1>5, <2>2, SentTypes DEF Types
  <2> QED BY <2>1, <2>3, <2>4
<1>14. \A m \in requests :
         /\ Composed(m.intent) /\ m.epoch <= intent[m.intent].epoch
         /\ m.after = 0 <=> intent[m.intent].after = 0
         /\ m.after # 0 => m.after <= intent[intent[m.intent].after].epoch
  BY DEF Order, RequestsKnown
<1>15. \A l \in Intent : Composed(l) /\ intent[l].after # 0 => Composed(intent[l].after)
  BY <1>2 DEF Order, Composing
<1>16. RequestsKnown'
  <2> SUFFICES ASSUME NEW m \in requests'
               PROVE  /\ Composed(m.intent)' /\ m.epoch <= intent'[m.intent].epoch
                      /\ m.after = 0 <=> intent'[m.intent].after = 0
                      /\ m.after # 0 => m.after <= intent'[intent'[m.intent].after].epoch
    BY DEF RequestsKnown
  <2>1. CASE m \in requests /\ m.intent \in Intent /\ m.epoch \in Nat /\ m.after \in Nat
    <3> DEFINE n == m.intent
               j == intent[n].after
    <3>1. Composed(n) /\ m.epoch <= intent[n].epoch /\ (m.after = 0 <=> j = 0)
          /\ (m.after # 0 => m.after <= intent[j].epoch)
      BY <2>1, <1>14
    <3>2. intent[n].epoch <= intent'[n].epoch /\ intent'[n].after = j
      BY <2>1, <3>1, <1>4, <1>7
    <3>3. j # 0 => j \in Intent /\ intent[j].epoch <= intent'[j].epoch
      BY <2>1, <3>1, <1>2, <1>7, <1>15
    <3>4. intent[n].epoch \in Nat /\ intent'[n].epoch \in Nat
      <4>1. \A l \in Intent : intent'[l].epoch \in Nat
        BY <1>5, SyncAssumption DEF IntentType, Epoch
      <4> QED BY <2>1, <4>1, <1>2
    <3>5. j # 0 => intent[j].epoch \in Nat /\ intent'[j].epoch \in Nat
      <4>1. \A l \in Intent : intent'[l].epoch \in Nat
        BY <1>5, SyncAssumption DEF IntentType, Epoch
      <4> QED BY <3>3, <4>1, <1>2
    <3>6. m.epoch <= intent'[n].epoch
      BY <2>1, <3>1, <3>2, <3>4
    <3>7. m.after # 0 => m.after <= intent'[j].epoch
      BY <2>1, <3>1, <3>3, <3>5
    <3>8. Composed(n)'
      BY <2>1, <3>1, <1>6
    <3> QED BY <3>1, <3>2, <3>6, <3>7, <3>8
  <2>2. CASE /\ m.intent \in Intent /\ Composed(m.intent) /\ m.epoch = intent'[m.intent].epoch
             /\ m.epoch \in Nat /\ m.after \in Nat
             /\ m.after = IF intent'[m.intent].after = 0 THEN 0
                            ELSE intent'[intent'[m.intent].after].epoch
    <3>1. \A j \in Intent : intent'[j].epoch # 0
      BY <1>5, SyncAssumption DEF IntentType, Epoch
    <3>2. intent'[m.intent].after # 0 => intent'[m.intent].after \in Intent
      BY <2>2, <1>2, <1>4
    <3> QED BY <2>2, <3>1, <3>2, <1>6
  <2> QED BY <1>13, <2>1, <2>2
<1>17. OneCommand'
  <2> SUFFICES ASSUME NEW c \in Command, Received(c)
               PROVE  Composed(c.intent)' /\ c.epoch = intent'[c.intent].epoch
    BY <1>1 DEF OneCommand, Received
  <2>1. c.intent \in Intent
    BY CommandFacts
  <2> QED BY <2>1, <1>6, <1>8
<1>18. Answers'
  <2> SUFFICES ASSUME NEW n \in Intent
               PROVE  /\ intent'[n].state = "done" => Done(n)
                      /\ intent'[n].state = "refused" => Got(n) /\ ~Done(n)
                      /\ intent'[n].state = "stale" =>
                           /\ ~Got(n) /\ intent'[n].epoch < epoch
                           /\ intent'[n].after # 0 => Done(intent'[n].after)
    BY <1>1 DEF Answers, Applied, Received, Cur
  <2> HIDE DEF Got, Done
  <2>1. CASE n >= k /\ Composed(n)
    BY <2>1, <1>4
  <2>2. CASE n >= k /\ ~Composed(n)
    BY <2>2, <1>4 DEF Composed
  <2>3. CASE n < k
    <3>1. intent'[n] = intent[n] /\ intent[n].state # "stale"
      BY <2>3, <1>3, <1>4 DEF Order, Answers
    <3> QED BY <3>1, <1>9 DEF Order, Answers
  <2>4. n >= k \/ n < k
    BY <1>0
  <2> QED BY <2>1, <2>2, <2>3, <2>4
<1>19. InOrder'
  <2>1. ASSUME NEW l \in Intent, NEW n \in Intent, l < n, Pending(l)', Got(n)
        PROVE  FALSE
    <3> HIDE DEF Got, Done
    <3>1. l >= k /\ Received(Cur(n))
      BY <2>1, <1>9, <1>11
    <3>2. n >= k
      <4>1. l \in Int /\ n \in Int /\ k \in Int
        BY <1>0
      <4> QED BY <2>1, <3>1, <4>1
    <3> QED BY <3>1, <3>2, <1>3
  <2>2. ASSUME NEW n \in Intent, Composed(n), intent[n].after # 0, Done(n)
        PROVE  Done(intent[n].after)
    <3> HIDE DEF Got, Done
    <3>1. Applied(Cur(intent[n].after))
      BY <2>2, <1>9 DEF Order, InOrder
    <3> QED BY <2>2, <3>1, <1>2, <1>9
  <2> QED BY <2>1, <2>2, <1>4, <1>6 DEF InOrder, Applied, Received, Cur
<1>20. EpochsOfPending'
  <2>1. phone'.bound <= epoch'
    BY <1>1 DEF Order, EpochsOfPending
  <2>2. \A l \in Intent : Pending(l)' => intent'[l].epoch = epoch
    BY <1>4, <1>11
  <2>3. epoch <= epoch
    BY <1>2
  <2> QED BY <2>1, <2>2, <2>3 DEF EpochsOfPending
<1>21. OldRequests'
  <2> SUFFICES ASSUME NEW m \in requests', m.epoch < intent'[m.intent].epoch,
                      intent[m.intent].after # 0, m.intent \in Intent
               PROVE  \/ m.after < intent'[intent[m.intent].after].epoch
                      \/ Done(intent[m.intent].after)
    BY <1>4, <1>13 DEF OldRequests, Applied, Cur
  <2> HIDE DEF Got, Done
  <2> DEFINE n == m.intent
             j == intent[n].after
  <2>1. m \in requests /\ m.epoch \in Nat /\ m.after \in Nat
    <3>1. ~(m.epoch = intent'[n].epoch)
      <4>1. intent'[n].epoch \in Nat
        BY <1>5, SyncAssumption DEF IntentType, Epoch
      <4> QED BY <4>1
    <3> QED BY <3>1, <1>13
  <2>2. /\ Composed(n) /\ m.epoch <= intent[n].epoch
        /\ m.after # 0 /\ m.after <= intent[j].epoch
    BY <2>1, <1>14
  <2>3. j \in Intent /\ Composed(j) /\ j < n
    BY <2>2, <1>2, <1>15 DEF Order, Composing
  <2>9. n \in Int /\ j \in Int
    BY <2>3, <1>0
  <2>4. m.epoch < intent[n].epoch => m.after < intent[j].epoch \/ Applied(Cur(j))
    BY <2>1 DEF Order, OldRequests
  <2>5. CASE Applied(Cur(j))
    BY <2>3, <2>5, <1>9
  <2>6. CASE ~Applied(Cur(j)) /\ n < k
    <3>1. j < k
      BY <2>3, <2>6, <2>9, <1>0
    <3>2. intent'[n] = intent[n] /\ intent'[j] = intent[j]
      BY <2>3, <2>6, <3>1, <1>4
    <3> QED BY <2>4, <2>6, <3>2
  <2>7. CASE ~Applied(Cur(j)) /\ n >= k
    <3>1. j >= k
      <4> SUFFICES ASSUME j < k PROVE FALSE
        BY <2>3, <1>0, <1>2
      <4>1. CASE n = k
        BY <2>7, <4>1, <1>1 DEF Order, Answers
      <4>2. CASE n # k
        <5>1. intent[k].state \in {"done", "refused"}
          <6>1. k < n
            BY <2>7, <2>9, <4>2, <1>0
          <6> QED BY <2>2, <6>1 DEF Order, Composing
        <5> QED BY <5>1, <1>1
      <4> QED BY <4>1, <4>2
    <3>2. intent'[j].epoch = epoch /\ intent'[n].epoch = epoch
      BY <2>2, <2>3, <2>7, <3>1, <1>4
    <3>3. intent[j].epoch <= epoch /\ intent[n].epoch <= epoch
      BY <2>2, <2>3 DEF Order, Composing
    <3>4. /\ intent[j].epoch \in Nat /\ intent[n].epoch \in Nat /\ epoch \in Nat
          /\ intent[k].epoch \in Nat
      BY <2>3, <1>2
    <3>5. CASE intent[j].epoch < epoch
      BY <2>1, <2>2, <3>2, <3>4, <3>5
    <3>6. CASE intent[j].epoch = epoch /\ m.epoch < intent[n].epoch
      BY <2>1, <2>4, <2>7, <3>2, <3>6
    <3>7. CASE intent[j].epoch = epoch /\ ~(m.epoch < intent[n].epoch)
      <4>1. intent[n].epoch < epoch
        BY <2>1, <2>2, <3>2, <3>4, <3>7
      <4>2. j # k
        BY <3>4, <3>7, <1>3
      <4>3. k < j /\ Pending(k) /\ Pending(j) /\ Pending(n)
        <5>1. k < j
          BY <2>3, <3>1, <4>2, IntentsOrdered
        <5>2. k >= k
          BY <1>0
        <5> QED BY <2>2, <2>3, <2>7, <3>1, <5>1, <5>2, <1>3 DEF Pending
      <4>4. intent[j].epoch <= intent[k].epoch \/ intent[j].epoch <= intent[n].epoch
        BY <2>3, <4>3 DEF Order, EpochsOfPending
      <4> QED BY <3>4, <3>7, <4>1, <4>4, <1>3
    <3> QED BY <3>3, <3>4, <3>5, <3>6, <3>7
  <2>8. n >= k \/ n < k
    BY <1>0, <2>9
  <2> QED BY <2>5, <2>6, <2>7, <2>8
<1>22. Order'
  BY <1>12, <1>16, <1>17, <1>18, <1>19, <1>20, <1>21 DEF Order
<1> QED BY <1>9, <1>10, <1>22

LEMMA WebOrder ==
  ASSUME Types, Order, NEW i \in Item, WebEdit(i) \/ WebDelete(i)
  PROVE  Order' /\ UNCHANGED <<receipts, intent, effects>>
<1>1. /\ UNCHANGED <<receipts, intent, requests>> /\ UNCHANGED epoch /\ UNCHANGED phone
      /\ UNCHANGED effects
  BY DEF WebEdit, WebDelete
<1>2. epoch \in Nat /\ phone.bound \in Nat /\ phone.bound <= epoch
  BY CommandFacts DEF Order, EpochsOfPending
<1>3. Order'
  BY <1>1, <1>2, OrderFrame
<1> QED BY <1>1, <1>3

LEMMA RaiseEpochOrder ==
  ASSUME Types, Order, RaiseEpoch PROVE Order' /\ UNCHANGED <<receipts, intent, effects>>
<1>1. /\ UNCHANGED <<receipts, intent, requests>> /\ epoch' = epoch + 1 /\ UNCHANGED phone
      /\ UNCHANGED effects
  BY DEF RaiseEpoch, history
<1>2. epoch \in Nat /\ phone.bound \in Nat /\ phone.bound <= epoch
  BY CommandFacts DEF Order, EpochsOfPending
<1>3. Order'
  BY <1>1, <1>2, OrderFrame
<1> QED BY <1>1, <1>3

LEMMA PhoneStepOrder ==
  ASSUME Types, Order, PhoneStep
  PROVE  Order' /\ UNCHANGED <<receipts, intent, effects, head, webWrites>>
<1>1. /\ UNCHANGED <<receipts, intent, requests>> /\ UNCHANGED epoch
      /\ UNCHANGED <<effects, head, webWrites>>
  BY DEF PhoneStep, ReadHead, ReadRetention, ReadRows, CreateSnapshot, ReadSnapshotPages,
         tables, history
<1>2. epoch \in Nat /\ phone.bound \in Nat /\ phone.bound <= epoch /\ 1 <= epoch
  BY CommandFacts, SyncAssumption DEF Order, EpochsOfPending, Types, ServerTypes, Epoch
<1>3. /\ phone'.bound \in {1, phone.bound, epoch}
      /\ \/ phone'.at = "resync"
         \/ phone.at # "resync" /\ phone'.bound = phone.bound
         \/ phone'.bound = epoch
  <2>1. phone \in PhoneType
    BY DEF Types
  <2>2. CASE ReadHead
    BY <2>1, <2>2 DEF ReadHead, Cleared, PhoneType
  <2>3. CASE ReadRetention
    BY <2>1, <2>3 DEF ReadRetention, Cleared, PhoneType
  <2>4. CASE ReadRows
    BY <2>1, <2>4 DEF ReadRows, PhoneType
  <2>5. CASE CreateSnapshot
    BY <2>5 DEF CreateSnapshot
  <2>6. CASE ReadSnapshotPages
    BY <2>1, <2>6 DEF ReadSnapshotPages, Cleared, PhoneType
  <2> QED BY <2>2, <2>3, <2>4, <2>5, <2>6 DEF PhoneStep
<1>4. Order'
  BY <1>1, <1>2, <1>3, OrderFrame
<1> QED BY <1>1, <1>4

LEMMA RetainOrder ==
  ASSUME Types, Order, NEW cutoff \in 1 .. MaxHead, Retain(cutoff)
  PROVE  Order' /\ UNCHANGED <<receipts, intent, effects, head, webWrites>>
<1>1. /\ UNCHANGED <<receipts, intent, requests>> /\ UNCHANGED epoch
      /\ UNCHANGED <<effects, head, webWrites>>
      /\ UNCHANGED phone \/ phone' = Cleared
  BY DEF Retain
<1>2. epoch \in Nat /\ phone.bound \in Nat /\ phone.bound <= epoch /\ 1 <= epoch
  BY CommandFacts, SyncAssumption DEF Order, EpochsOfPending, Types, ServerTypes, Epoch
<1>3. Order'
  BY <1>1, <1>2, OrderFrame DEF Cleared
<1> QED BY <1>1, <1>3

----------------------------------------------------------------------------
(* What is carried out, and what the sequences count: every command that is *)
(* received takes one, and so does every edit in the browser.               *)

Effects == \A k \in Intent : effects[k] = IF Applied(Cur(k)) THEN 1 ELSE 0

Handled == {k \in Intent : Received(Cur(k))}

Counted ==
  Effects /\ head = Cardinality(Handled) + webWrites /\ webWrites <= MaxWebWrite

LEMMA HandledFinite ==
  /\ IsFiniteSet(Handled) /\ Cardinality(Handled) \in Nat /\ Cardinality(Handled) <= MaxIntent
  /\ \A k \in Intent : k \notin Handled => Cardinality(Handled) + 1 <= MaxIntent
<1>1. IsFiniteSet(Intent) /\ Cardinality(Intent) = MaxIntent
  BY SyncAssumption, FS_Interval DEF Intent
<1>2. \A S \in SUBSET Intent :
        IsFiniteSet(S) /\ Cardinality(S) \in Nat /\ Cardinality(S) <= MaxIntent
  BY <1>1, FS_Subset, FS_CardinalityType
<1>3. Handled \in SUBSET Intent
  BY DEF Handled
<1>4. ASSUME NEW k \in Intent, k \notin Handled PROVE Cardinality(Handled) + 1 <= MaxIntent
  <2>1. Cardinality(Handled \cup {k}) = Cardinality(Handled) + 1
    BY <1>2, <1>3, <1>4, FS_AddElement
  <2>2. Handled \cup {k} \in SUBSET Intent
    BY <1>3
  <2> QED BY <1>2, <2>1, <2>2
<1> QED BY <1>2, <1>3, <1>4

(* Most actions receive nothing.                                            *)
LEMMA CountedFrame ==
  ASSUME Counted, UNCHANGED <<effects>>,
         \A k \in Intent : /\ Received(Cur(k))' <=> Received(Cur(k))
                           /\ Applied(Cur(k))' <=> Applied(Cur(k)),
         \/ UNCHANGED <<head, webWrites>>
         \/ webWrites < MaxWebWrite /\ webWrites' = webWrites + 1 /\ head' = head + 1,
         webWrites \in Nat
  PROVE  Counted'
<1>1. Handled' = Handled
  BY DEF Handled
<1>2. Effects'
  BY DEF Counted, Effects
<1>3. Cardinality(Handled) \in Nat
  BY HandledFinite
<1>4. Cardinality(Handled)' = Cardinality(Handled)
  BY <1>1
<1> QED BY <1>2, <1>3, <1>4, SyncAssumption DEF Counted

LEMMA InitCounted == SyncInit => Counted
<1> SUFFICES ASSUME SyncInit PROVE Counted
  OBVIOUS
<1>1. \A k \in Intent : Cur(k) \in Command
  BY InitTypes, CommandFacts
<1>2. \A k \in Intent : ~Received(Cur(k)) /\ ~Applied(Cur(k))
  BY <1>1 DEF SyncInit, Received, Applied, NoReceipt
<1>3. Handled = {}
  BY <1>2 DEF Handled
<1> QED BY <1>2, <1>3, FS_EmptySet, SyncAssumption DEF SyncInit, Counted, Effects

(* A command that is received for the first time takes a sequence, and is   *)
(* carried out if it is applied.                                            *)
LEMMA ReceivedCounts ==
  ASSUME Types, Order, Counted, NEW m \in requests, m.epoch = intent[m.intent].epoch,
         ~Received(CommandIn(m)), UNCHANGED webWrites, head' = head + 1,
         NEW status \in Status, NEW revision \in Nat, Receipt(m, status, revision),
         \A k \in Intent : intent'[k].epoch = intent[k].epoch,
         effects' = IF status = "applied" THEN [effects EXCEPT ![m.intent] = @ + 1] ELSE effects
  PROVE  Counted' /\ Handled' = Handled \cup {m.intent}
<1> DEFINE n == m.intent
<1>1. n \in Intent /\ m \in RequestType
  BY CommandFacts
<1>2. CommandIn(m) = Cur(n)
  BY DEF CommandIn, Cur
<1>3. /\ receipts'[Cur(n)].status = status
      /\ \A c \in Command : c # Cur(n) => receipts'[c] = receipts[c]
  <2>1. CommandTypes
    BY DEF Types
  <2>2. /\ receipts'[CommandIn(m)] = [status |-> status, revision |-> revision]
        /\ \A c \in Command : c # CommandIn(m) => receipts'[c] = receipts[c]
    BY <1>1, <2>1, ReceiptTypes
  <2> QED BY <1>2, <2>2
<1>4. \A k \in Intent : Cur(k)' = Cur(k) /\ Cur(k) \in Command /\ (Cur(k) = Cur(n) => k = n)
  BY CommandFacts DEF Cur
<1>5. Received(Cur(n))' /\ (Applied(Cur(n))' <=> status = "applied")
  <2>1. intent'[n].epoch = intent[n].epoch
    BY <1>1
  <2>2. receipts'[[intent |-> n, epoch |-> intent'[n].epoch]].status = status
    BY <1>3, <2>1 DEF Cur
  <2>3. status # "none"
    BY DEF Status
  <2> QED BY <2>2, <2>3 DEF Received, Applied, Cur
<1>6. \A k \in Intent : k # n => (Received(Cur(k))' <=> Received(Cur(k)))
                                 /\ (Applied(Cur(k))' <=> Applied(Cur(k)))
  BY <1>3, <1>4 DEF Received, Applied
<1>7. ~Received(Cur(n)) /\ ~Applied(Cur(n))
  BY <1>2 DEF Received, Applied
<1>8. Handled' = Handled \cup {n} /\ n \notin Handled
  BY <1>1, <1>5, <1>6, <1>7 DEF Handled
<1>9. Cardinality(Handled \cup {n}) = Cardinality(Handled) + 1 /\ Cardinality(Handled) \in Nat
  BY <1>8, HandledFinite, FS_AddElement
<1>10. head' = Cardinality(Handled)' + webWrites'
  BY <1>8, <1>9 DEF Counted, Types, CommandTypes
<1>11. Effects'
  <2> SUFFICES ASSUME NEW k \in Intent
               PROVE  effects'[k] = IF Applied(Cur(k))' THEN 1 ELSE 0
    BY DEF Effects
  <2>1. CASE k = n
    BY <1>1, <1>5, <1>7, <2>1 DEF Counted, Effects, Types, CommandTypes
  <2>2. CASE k # n
    BY <1>1, <1>6, <2>2 DEF Counted, Effects, Types, CommandTypes
  <2> QED BY <2>1, <2>2
<1> QED BY <1>8, <1>10, <1>11 DEF Counted

LEMMA QuietCounted ==
  ASSUME Types, Counted, UNCHANGED <<receipts, intent, effects>>,
         \/ UNCHANGED <<head, webWrites>>
         \/ webWrites < MaxWebWrite /\ webWrites' = webWrites + 1 /\ head' = head + 1
  PROVE  Counted'
<1>1. \A k \in Intent : /\ Received(Cur(k))' <=> Received(Cur(k))
                        /\ Applied(Cur(k))' <=> Applied(Cur(k))
  BY DEF Received, Applied, Cur
<1>2. webWrites \in Nat
  BY DEF Types, CommandTypes
<1> QED BY <1>1, <1>2, CountedFrame

LEMMA WebCounted ==
  ASSUME Types, Order, Counted, NEW i \in Item, WebEdit(i) \/ WebDelete(i) PROVE Counted'
<1>1. UNCHANGED <<receipts, intent, effects>>
  BY WebOrder
<1>2. webWrites < MaxWebWrite /\ webWrites' = webWrites + 1 /\ head' = head + 1
  BY DEF WebEdit, WebDelete, Publish
<1> QED BY <1>1, <1>2, QuietCounted

LEMMA RaiseEpochCounted ==
  ASSUME Types, Order, Counted, RaiseEpoch PROVE Counted'
BY RaiseEpochOrder, QuietCounted DEF RaiseEpoch, history

LEMMA PhoneStepCounted ==
  ASSUME Types, Order, Counted, PhoneStep PROVE Counted'
BY PhoneStepOrder, QuietCounted

LEMMA RetainCounted ==
  ASSUME Types, Order, Counted, NEW cutoff \in 1 .. MaxHead, Retain(cutoff) PROVE Counted'
BY RetainOrder, QuietCounted

LEMMA AnswerCounted ==
  ASSUME Types, Counted, NEW m \in requests, NEW state \in {"stale", "done", "refused"},
         Told(m, state), UNCHANGED <<receipts, effects, head, webWrites>>
  PROVE  Counted'
<1>1. \A k \in Intent : intent'[k].epoch = intent[k].epoch
  BY CommandFacts, ToldOnly DEF Types
<1>2. \A k \in Intent : /\ Received(Cur(k))' <=> Received(Cur(k))
                        /\ Applied(Cur(k))' <=> Applied(Cur(k))
  BY <1>1 DEF Received, Applied, Cur
<1>3. webWrites \in Nat
  BY DEF Types, CommandTypes
<1> QED BY <1>2, <1>3, CountedFrame

LEMMA ReplayReceiptCounted ==
  ASSUME Types, Counted, NEW m \in requests, ReplayReceipt(m) PROVE Counted'
BY AnswerCounted DEF ReplayReceipt, Verdict, tables, history

LEMMA RefuseStaleCounted ==
  ASSUME Types, Counted, NEW m \in requests, NEW e \in Epoch, RefuseStale(m, e) PROVE Counted'
BY AnswerCounted DEF RefuseStale, tables, history

LEMMA ComposeCounted ==
  ASSUME Types, Order, Counted, NEW k \in Intent, NEW kind \in Kind, NEW i \in Item,
         Compose(k, kind, i)
  PROVE  Counted' /\ k \notin Handled
<1>1. \A e \in Epoch : ~Received([intent |-> k, epoch |-> e])
  BY ComposeOrder
<1>2. /\ \A l \in Intent : l # k => intent'[l] = intent[l]
      /\ intent[k].epoch \in Epoch /\ intent'[k].epoch \in Epoch
  BY ComposeIntents DEF Types, CommandTypes, IntentType
<1>3. UNCHANGED <<receipts, effects, head, webWrites>>
  BY DEF Compose, tables, history
<1>4. ~Received(Cur(k)) /\ ~Received(Cur(k))' /\ ~Applied(Cur(k)) /\ ~Applied(Cur(k))'
  BY <1>1, <1>2, <1>3 DEF Received, Applied, Cur
<1>5. \A l \in Intent : /\ Received(Cur(l))' <=> Received(Cur(l))
                        /\ Applied(Cur(l))' <=> Applied(Cur(l))
  <2> SUFFICES ASSUME NEW l \in Intent, l # k
               PROVE  /\ Received(Cur(l))' <=> Received(Cur(l))
                      /\ Applied(Cur(l))' <=> Applied(Cur(l))
    BY <1>4
  <2> QED BY <1>2, <1>3 DEF Received, Applied, Cur
<1>6. webWrites \in Nat
  BY DEF Types, CommandTypes
<1>7. Counted'
  BY <1>3, <1>5, <1>6, CountedFrame
<1> QED BY <1>4, <1>7 DEF Handled

LEMMA RebuildCounted ==
  ASSUME Types, Order, Counted, NEW k \in Intent, Rebuild(k) PROVE Counted'
<1>1. \A l \in Intent : /\ Received(Cur(l))' <=> Received(Cur(l))
                        /\ Applied(Cur(l))' <=> Applied(Cur(l))
  BY RebuildOrder
<1>2. UNCHANGED <<effects, head, webWrites>>
  BY DEF Rebuild, tables, history
<1>3. webWrites \in Nat
  BY DEF Types, CommandTypes
<1> QED BY <1>1, <1>2, <1>3, CountedFrame

LEMMA RejectDependentCounted ==
  ASSUME Types, Order, Counted, NEW m \in requests, NEW e \in Epoch, RejectDependent(m, e)
  PROVE  Counted' /\ Handled' = Handled \cup {m.intent}
<1>1. /\ Told(m, "refused") /\ Receipt(m, "rejected", NoRevision) /\ head' = head + 1
      /\ ~Received(CommandIn(m)) /\ UNCHANGED <<effects, webWrites>>
  BY DEF RejectDependent, NewCommand, history
<1>2. \A k \in Intent : intent'[k].epoch = intent[k].epoch
  BY <1>1, CommandFacts, ToldOnly DEF Types
<1>3. m.epoch = intent[m.intent].epoch
  BY RejectDependentOrder
<1>4. "rejected" \in Status /\ NoRevision \in Nat /\ "rejected" # "applied"
  BY DEF Status, NoRevision
<1> QED BY <1>1, <1>2, <1>3, <1>4, ReceivedCounts

LEMMA ApplyCommandCounted ==
  ASSUME Types, Order, Counted, NEW m \in requests, NEW e \in Epoch, ApplyCommand(m, e)
  PROVE  Counted' /\ Handled' = Handled \cup {m.intent}
<1> DEFINE i == intent[m.intent].item
<1>1. m.epoch = intent[m.intent].epoch
  BY ApplyCommandOrder
<1>2. row[i].revision + 1 \in Nat
  BY CommandFacts, RevisionTypes DEF Types, CommandTypes, IntentType
<1>3. head' = head + 1 /\ ~Received(CommandIn(m)) /\ UNCHANGED webWrites
  BY DEF ApplyCommand, NewCommand, Publish
<1>4. CASE Admitted(m)
  <2>1. /\ Receipt(m, "applied", row[i].revision + 1) /\ Told(m, "done")
        /\ effects' = [effects EXCEPT ![m.intent] = @ + 1]
    BY <1>4 DEF ApplyCommand
  <2>2. \A k \in Intent : intent'[k].epoch = intent[k].epoch
    BY <2>1, CommandFacts, ToldOnly DEF Types
  <2>3. "applied" \in Status
    BY DEF Status
  <2> QED BY <1>1, <1>2, <1>3, <2>1, <2>2, <2>3, ReceivedCounts
<1>5. CASE ~Admitted(m)
  <2>1. /\ Receipt(m, "conflict", NoRevision) /\ Told(m, "refused") /\ effects' = effects
    BY <1>5 DEF ApplyCommand
  <2>2. \A k \in Intent : intent'[k].epoch = intent[k].epoch
    BY <2>1, CommandFacts, ToldOnly DEF Types
  <2>3. "conflict" \in Status /\ "conflict" # "applied" /\ NoRevision \in Nat
    BY DEF Status, NoRevision
  <2> QED BY <1>1, <1>3, <2>1, <2>2, <2>3, ReceivedCounts
<1> QED BY <1>4, <1>5

----------------------------------------------------------------------------
(* No revision is above the number of commits, and no cursor either.        *)

RowBounds     == \A i \in Item : row[i].revision <= 1 + head /\ row[i].deletedAt <= head
FeedBounds    == \A b \in feed : b.revision <= 1 + head
ReceiptBounds == \A c \in Command : receipts[c].revision <= 1 + head
PhoneBounds   == /\ \A i \in Item : phone.store[i] <= 1 + head
                 /\ phone.cursor <= head /\ phone.latest <= head
IntentBounds  == \A k \in Intent : intent[k].expected \in FromReceipt .. MaxRev

Bounds == RowBounds /\ FeedBounds /\ ReceiptBounds /\ PhoneBounds /\ IntentBounds

LEMMA HeadBound ==
  ASSUME Types, Counted
  PROVE  /\ 1 + head <= MaxRev /\ head <= MaxHead
         /\ MaxRev \in Nat /\ MaxHead \in Nat
         /\ \A k \in Intent : k \notin Handled => 2 + head <= MaxRev
<1>1. /\ Cardinality(Handled) \in Nat /\ Cardinality(Handled) <= MaxIntent
      /\ \A k \in Intent : k \notin Handled => Cardinality(Handled) + 1 <= MaxIntent
  BY HandledFinite
<1>2. head = Cardinality(Handled) + webWrites /\ webWrites <= MaxWebWrite /\ webWrites \in Nat
  BY DEF Counted, Types, CommandTypes
<1>3. MaxIntent * MaxEpoch \in Nat /\ MaxIntent <= MaxIntent * MaxEpoch
  <2>1. MaxEpoch - 1 \in Nat /\ MaxEpoch = (MaxEpoch - 1) + 1
    BY SyncAssumption
  <2>2. \A a, b \in Nat : a * b \in Nat /\ a * (b + 1) = a * b + a
    OBVIOUS
  <2>3. MaxIntent * (MaxEpoch - 1) \in Nat
        /\ MaxIntent * ((MaxEpoch - 1) + 1) = MaxIntent * (MaxEpoch - 1) + MaxIntent
    BY <2>1, <2>2, SyncAssumption
  <2>4. MaxIntent * MaxEpoch = MaxIntent * (MaxEpoch - 1) + MaxIntent
    BY <2>1, <2>3
  <2> QED BY <2>3, <2>4, SyncAssumption
<1>4. MaxHead \in Nat /\ head <= MaxHead
  BY <1>1, <1>2, <1>3, SyncAssumption DEF MaxHead
<1> QED BY <1>1, <1>2, <1>4, SyncAssumption DEF MaxRev

LEMMA BoundedNumbers ==
  ASSUME Types
  PROVE  /\ head \in Nat
         /\ \A i \in Item : /\ row[i].revision \in Nat /\ row[i].deletedAt \in Nat
                            /\ phone.store[i] \in Nat
         /\ \A b \in feed : b.revision \in Nat /\ b.sequence \in Nat
         /\ \A c \in Command : receipts[c].revision \in Nat
         /\ phone.cursor \in Nat /\ phone.latest \in Nat
         /\ \A k \in Intent : intent[k].expected \in Int
<1>1. head \in Nat
  BY DEF Types, ServerTypes
<1>2. \A i \in Item : row[i].revision \in Nat /\ row[i].deletedAt \in Nat
  BY DEF Types, ServerTypes, RowType
<1>3. /\ \A i \in Item : phone.store[i] \in Nat
      /\ phone.cursor \in Nat /\ phone.latest \in Nat
  BY DEF Types, PhoneType
<1>4. \A b \in feed : b.revision \in Nat /\ b.sequence \in Nat
  BY DEF Types, ServerTypes, BatchType
<1>5. \A c \in Command : receipts[c].revision \in Nat
  BY DEF Types, CommandTypes, ReceiptType
<1>6. \A k \in Intent : intent[k].expected \in Int
  BY DEF Types, CommandTypes, IntentType
<1> QED BY <1>1, <1>2, <1>3, <1>4, <1>5, <1>6

(* What is left alone stays within the bounds as the head grows.            *)
LEMMA BoundsGrow ==
  ASSUME Types, Bounds, head' = head \/ head' = head + 1
  PROVE  /\ row' = row => RowBounds'
         /\ feed' \subseteq feed => FeedBounds'
         /\ receipts' = receipts => ReceiptBounds'
         /\ phone' = phone \/ phone' = Cleared => PhoneBounds'
         /\ (\A k \in Intent : intent'[k].expected = intent[k].expected) => IntentBounds'
<1>0. \A n \in Nat : 0 <= 1 + n /\ 0 <= n
  OBVIOUS
<1>1. /\ head \in Nat /\ head' \in Nat
      /\ \A n \in Nat : (n <= head => n <= head') /\ (n <= 1 + head => n <= 1 + head')
  BY BoundedNumbers
<1>2. row' = row => RowBounds'
  BY <1>1, BoundedNumbers DEF Bounds, RowBounds
<1>3. feed' \subseteq feed => FeedBounds'
  BY <1>1, BoundedNumbers DEF Bounds, FeedBounds
<1>4. receipts' = receipts => ReceiptBounds'
  BY <1>1, BoundedNumbers DEF Bounds, ReceiptBounds
<1>5. phone' = phone \/ phone' = Cleared => PhoneBounds'
  <2>1. phone' = phone => PhoneBounds'
    BY <1>1, BoundedNumbers DEF Bounds, PhoneBounds
  <2>2. ASSUME phone' = Cleared PROVE PhoneBounds'
    <3>1. \A i \in Item : phone'.store[i] = 0
      BY <2>2 DEF Cleared, NoRevision
    <3>2. phone'.cursor = 0 /\ phone'.latest = 0
      BY <2>2 DEF Cleared
    <3>3. 0 <= 1 + head' /\ 0 <= head'
      BY <1>0, <1>1, Zenon
    <3> QED BY <3>1, <3>2, <3>3 DEF PhoneBounds
  <2> QED BY <2>1, <2>2
<1>6. (\A k \in Intent : intent'[k].expected = intent[k].expected) => IntentBounds'
  BY DEF Bounds, IntentBounds
<1> QED BY <1>2, <1>3, <1>4, <1>5, <1>6

LEMMA LiveBounds ==
  ASSUME Types, Bounds, NEW i \in Item, Live(i, row[i].revision + 1), head' = head + 1
  PROVE  RowBounds'
<1>1. row'[i].revision = row[i].revision + 1 /\ row'[i].deletedAt = 0
  BY DEF Live, Types, ServerTypes
<1>2. \A x \in Item : x # i => row'[x] = row[x]
  BY DEF Live, Types, ServerTypes
<1> QED BY <1>1, <1>2, BoundedNumbers DEF Bounds, RowBounds

LEMMA DeletedBounds ==
  ASSUME Types, Bounds, NEW i \in Item, Deleted(i), head' = head + 1
  PROVE  RowBounds'
<1>1. row'[i].revision = row[i].revision + 1 /\ row'[i].deletedAt = head + 1
  BY DEF Deleted, Types, ServerTypes
<1>2. \A x \in Item : x # i => row'[x] = row[x]
  BY DEF Deleted, Types, ServerTypes
<1> QED BY <1>1, <1>2, BoundedNumbers DEF Bounds, RowBounds

LEMMA PublishBounds ==
  ASSUME Types, Bounds, NEW i, NEW image \in Nat, image <= 2 + head, Publish(i, image)
  PROVE  FeedBounds'
<1>1. \A b \in feed' : b \in feed \/ b.revision = image
  BY DEF Publish
<1>2. head' = head + 1
  BY DEF Publish
<1> QED BY <1>1, <1>2, BoundedNumbers DEF Bounds, FeedBounds

LEMMA ReceiptsBounded ==
  ASSUME Types, Bounds, NEW m \in requests, NEW status \in Status, NEW revision \in Nat,
         revision <= 2 + head, Receipt(m, status, revision), head' = head + 1
  PROVE  ReceiptBounds'
<1>1. CommandTypes /\ m \in RequestType
  BY CommandFacts DEF Types
<1>2. /\ receipts'[CommandIn(m)] = [status |-> status, revision |-> revision]
      /\ \A c \in Command : c # CommandIn(m) => receipts'[c] = receipts[c]
  BY <1>1, ReceiptTypes
<1>3. receipts'[CommandIn(m)].revision = revision
  BY <1>2
<1> QED BY <1>2, <1>3, BoundedNumbers DEF Bounds, ReceiptBounds

LEMMA InitBounds == SyncInit => Bounds
<1> SUFFICES ASSUME SyncInit PROVE Bounds
  OBVIOUS
<1>1. RowBounds
  BY DEF SyncInit, RowBounds
<1>2. FeedBounds /\ ReceiptBounds /\ PhoneBounds
  BY DEF SyncInit, FeedBounds, ReceiptBounds, PhoneBounds, NoReceipt, Cleared, NoRevision
<1>3. IntentBounds
  BY SyncAssumption DEF SyncInit, IntentBounds, NoIntent, NoRevision, FromReceipt, MaxRev
<1> QED BY <1>1, <1>2, <1>3 DEF Bounds

LEMMA WebBounds ==
  ASSUME Types, Bounds, NEW i \in Item, WebEdit(i) \/ WebDelete(i) PROVE Bounds'
<1>1. /\ UNCHANGED <<receipts, intent, phone>> /\ head' = head + 1
      /\ \/ Live(i, row[i].revision + 1) /\ Publish(i, row[i].revision + 1)
         \/ Deleted(i) /\ Publish(i, NoRevision)
  BY DEF WebEdit, WebDelete, Publish
<1>2. row[i].revision + 1 \in Nat /\ row[i].revision + 1 <= 2 + head
  BY BoundedNumbers DEF Bounds, RowBounds
<1>3. NoRevision \in Nat /\ NoRevision <= 2 + head
  BY BoundedNumbers DEF NoRevision
<1>4. RowBounds'
  BY <1>1, LiveBounds, DeletedBounds
<1>5. FeedBounds'
  BY <1>1, <1>2, <1>3, PublishBounds
<1>6. ReceiptBounds' /\ PhoneBounds' /\ IntentBounds'
  BY <1>1, BoundsGrow
<1> QED BY <1>4, <1>5, <1>6 DEF Bounds

LEMMA RaiseEpochBounds ==
  ASSUME Types, Bounds, RaiseEpoch PROVE Bounds'
BY BoundsGrow DEF RaiseEpoch, Bounds

LEMMA AnswerBounds ==
  ASSUME Types, Bounds, NEW m \in requests, NEW state \in {"stale", "done", "refused"},
         Told(m, state), UNCHANGED <<tables, phone>>
  PROVE  Bounds'
<1>1. \A k \in Intent : intent'[k].expected = intent[k].expected
  BY CommandFacts, ToldOnly DEF Types
<1>2. RowBounds' /\ FeedBounds' /\ ReceiptBounds' /\ PhoneBounds' /\ IntentBounds'
  BY <1>1, BoundsGrow DEF tables
<1> QED BY <1>2 DEF Bounds

LEMMA ComposeBounds ==
  ASSUME Types, Order, Counted, Bounds, NEW k \in Intent, NEW kind \in Kind, NEW i \in Item,
         Compose(k, kind, i)
  PROVE  Bounds'
<1>1. UNCHANGED <<row, feed, receipts, head, phone>>
  BY DEF Compose, tables
<1>2. RowBounds' /\ FeedBounds' /\ ReceiptBounds' /\ PhoneBounds'
  BY <1>1, BoundsGrow
<1>3. 2 + head <= MaxRev /\ MaxRev \in Nat /\ phone.store[i] \in Nat /\ phone.store[i] <= 1 + head
      /\ head \in Nat
  BY ComposeCounted, HeadBound, BoundedNumbers DEF Bounds, PhoneBounds
<1>4. /\ \A l \in Intent : l # k => intent'[l] = intent[l]
      /\ intent'[k].expected \in {FromReceipt, phone.store[i], phone.store[i] + 1}
  BY ComposeIntents DEF ComposedRow
<1>5. \A n \in {FromReceipt, phone.store[i], phone.store[i] + 1} : n \in FromReceipt .. MaxRev
  BY <1>3 DEF FromReceipt
<1>6. IntentBounds'
  BY <1>4, <1>5 DEF Bounds, IntentBounds
<1> QED BY <1>2, <1>6 DEF Bounds

LEMMA RebuildBounds ==
  ASSUME Types, Bounds, NEW k \in Intent, Rebuild(k) PROVE Bounds'
<1>1. \A l \in Intent : intent'[l].expected = intent[l].expected
  BY RebuildTypes
<1>2. UNCHANGED <<row, feed, receipts, head, phone>>
  BY DEF Rebuild, tables
<1>3. RowBounds' /\ FeedBounds' /\ ReceiptBounds' /\ PhoneBounds' /\ IntentBounds'
  BY <1>1, <1>2, BoundsGrow
<1> QED BY <1>3 DEF Bounds

LEMMA RejectDependentBounds ==
  ASSUME Types, Bounds, NEW m \in requests, NEW e \in Epoch, RejectDependent(m, e) PROVE Bounds'
<1>1. /\ Told(m, "refused") /\ Receipt(m, "rejected", NoRevision) /\ head' = head + 1
      /\ UNCHANGED <<row, feed, phone>>
  BY DEF RejectDependent
<1>2. \A k \in Intent : intent'[k].expected = intent[k].expected
  BY <1>1, CommandFacts, ToldOnly DEF Types
<1>3. RowBounds' /\ FeedBounds' /\ PhoneBounds' /\ IntentBounds'
  BY <1>1, <1>2, BoundsGrow
<1>4. "rejected" \in Status /\ NoRevision \in Nat /\ NoRevision <= 2 + head
  BY BoundedNumbers DEF Status, NoRevision
<1>5. ReceiptBounds'
  BY <1>1, <1>4, ReceiptsBounded
<1> QED BY <1>3, <1>5 DEF Bounds

LEMMA ApplyCommandBounds ==
  ASSUME Types, Bounds, NEW m \in requests, NEW e \in Epoch, ApplyCommand(m, e) PROVE Bounds'
<1> DEFINE i == intent[m.intent].item
<1>1. i \in Item
  BY CommandFacts DEF Types, CommandTypes, IntentType
<1>2. /\ row[i].revision + 1 \in Nat /\ row[i].revision + 1 <= 2 + head
      /\ Image(i) \in Nat /\ Image(i) <= 2 + head
      /\ NoRevision \in Nat /\ NoRevision <= 2 + head
  BY <1>1, BoundedNumbers DEF Bounds, RowBounds, Image, NoRevision
<1>3. head' = head + 1 /\ UNCHANGED phone
  BY DEF ApplyCommand, Publish
<1>4. "applied" \in Status /\ "conflict" \in Status
  BY DEF Status
<1>5. \/ Told(m, "done")
      \/ Told(m, "refused")
  BY DEF ApplyCommand
<1>6. PhoneBounds'
  BY <1>3, BoundsGrow
<1>7. IntentBounds'
  <2>1. \A k \in Intent : intent'[k].expected = intent[k].expected
    BY <1>5, CommandFacts, ToldOnly DEF Types
  <2> QED BY <1>3, <2>1, BoundsGrow
<1>8. CASE Admitted(m)
  <2>1. /\ Receipt(m, "applied", row[i].revision + 1)
        /\ \/ Live(i, row[i].revision + 1) /\ Publish(i, row[i].revision + 1)
           \/ Deleted(i) /\ Publish(i, NoRevision)
    BY <1>8 DEF ApplyCommand
  <2>2. RowBounds'
    BY <1>1, <1>3, <2>1, LiveBounds, DeletedBounds
  <2>3. FeedBounds'
    BY <1>2, <2>1, PublishBounds
  <2>4. ReceiptBounds'
    BY <1>2, <1>3, <1>4, <2>1, ReceiptsBounded
  <2> QED BY <1>6, <1>7, <2>2, <2>3, <2>4 DEF Bounds
<1>9. CASE ~Admitted(m)
  <2>1. /\ Receipt(m, "conflict", NoRevision) /\ row' = row
        /\ Publish(NoItem, NoRevision) \/ Publish(i, Image(i))
    BY <1>9 DEF ApplyCommand
  <2>2. RowBounds'
    BY <1>3, <2>1, BoundsGrow
  <2>3. FeedBounds'
    BY <1>2, <2>1, PublishBounds
  <2>4. ReceiptBounds'
    BY <1>2, <1>3, <1>4, <2>1, ReceiptsBounded
  <2> QED BY <1>6, <1>7, <2>2, <2>3, <2>4 DEF Bounds
<1> QED BY <1>8, <1>9

LEMMA PhoneStepBounds ==
  ASSUME Types, Bounds, PhoneStep PROVE Bounds'
<1>1. UNCHANGED <<row, feed, receipts, head, intent>>
  BY DEF PhoneStep, ReadHead, ReadRetention, ReadRows, CreateSnapshot, ReadSnapshotPages, tables
<1>2. RowBounds' /\ FeedBounds' /\ ReceiptBounds' /\ IntentBounds'
  BY <1>1, BoundsGrow
<1>3. phone \in PhoneType /\ head \in Nat /\ PhoneBounds /\ 0 <= head
  BY BoundedNumbers DEF Types, Bounds
<1>4. PhoneBounds'
  <2>1. CASE phone' = Cleared
    BY <1>1, <2>1, BoundsGrow
  <2>2. CASE ReadHead /\ phone' # Cleared
    BY <1>1, <1>3, <2>2 DEF ReadHead, PhoneType, PhoneBounds
  <2>3. CASE ReadRetention /\ phone' # Cleared
    BY <1>1, <1>3, <2>3 DEF ReadRetention, PhoneType, PhoneBounds
  <2>4. CASE ReadRows
    <3>1. NextCursor <= head
      <4>1. \A b \in Page : b.sequence <= head
        BY PageIsPrefix DEF Types, ServerTypes
      <4> QED BY <1>3, <4>1, NextCursorIsLast DEF Types, PhoneBounds
    <3>2. \A i \in Item : Upserted[i] <= 1 + head
      <4>1. \A b \in Page : b.revision <= 1 + head
        BY PageIsPrefix DEF Types, Bounds, FeedBounds
      <4> QED BY <1>3, <4>1, UpsertedFromLast DEF Types, PhoneBounds
    <3>3. phone'.store = Upserted /\ phone'.cursor = NextCursor /\ phone'.latest = 0
      BY <1>3, <2>4 DEF ReadRows, PhoneType
    <3> QED BY <1>1, <1>3, <3>1, <3>2, <3>3 DEF PhoneBounds
  <2>5. CASE CreateSnapshot
    <3>1. \A i \in Item : Projected[i] <= 1 + head
      BY <1>3, BoundedNumbers DEF Projected, Image, Bounds, RowBounds, NoRevision
    <3>2. phone'.store = Projected /\ phone'.cursor = head /\ phone'.latest = 0
      BY <2>5 DEF CreateSnapshot
    <3> QED BY <1>1, <1>3, <3>1, <3>2 DEF PhoneBounds
  <2>6. CASE ReadSnapshotPages /\ phone' # Cleared
    BY <1>1, <1>3, <2>6 DEF ReadSnapshotPages, PhoneType, PhoneBounds
  <2> QED BY <2>1, <2>2, <2>3, <2>4, <2>5, <2>6 DEF PhoneStep
<1> QED BY <1>2, <1>4 DEF Bounds

(* Retention takes only rows that have been deleted.                        *)
LEMMA RetainRows ==
  ASSUME NEW cutoff, Retain(cutoff)
  PROVE  \A i \in Item :
           \/ row'[i] = row[i]
           \/ /\ row[i].state # "live" /\ row'[i].state # "live"
              /\ row'[i].revision = 0 /\ row'[i].deletedAt = 0
<1> DEFINE gone == [state |-> "absent", revision |-> 0, deletedAt |-> 0]
<1>1. gone.state # "live" /\ gone.revision = 0 /\ gone.deletedAt = 0
  OBVIOUS
<1> HIDE DEF gone
<1>2. \A i \in Item : row'[i] = row[i] \/ (row[i].state = "deleted" /\ row'[i] = gone)
  BY DEF Retain, gone
<1> QED BY <1>1, <1>2

LEMMA RetainBounds ==
  ASSUME Types, Bounds, NEW cutoff \in 1 .. MaxHead, Retain(cutoff) PROVE Bounds'
<1>1. /\ UNCHANGED <<head, receipts, intent>> /\ feed' \subseteq feed
      /\ phone' = phone \/ phone' = Cleared
  BY DEF Retain
<1>2. FeedBounds' /\ ReceiptBounds' /\ IntentBounds' /\ PhoneBounds'
  BY <1>1, BoundsGrow
<1>3. \A i \in Item : \/ row'[i] = row[i]
                      \/ row'[i].revision = 0 /\ row'[i].deletedAt = 0
  BY RetainRows
<1>4. RowBounds'
  BY <1>1, <1>3, BoundedNumbers DEF Bounds, RowBounds
<1> QED BY <1>2, <1>4 DEF Bounds

----------------------------------------------------------------------------
(* What the phone's copy lacks.  No two batches have a sequence, and the    *)
(* last one that carries an item carries it as it is.                       *)

FeedLast ==
  /\ \A a, b \in feed : a.sequence = b.sequence => a = b
  /\ \A b \in feed :
       b.item # NoItem /\ (\A a \in feed : a.item = b.item => a.sequence <= b.sequence)
         => b.revision = Image(b.item)

(* A phone that goes on to the rows was not too old when it was asked.      *)
RowsFresh == phone.at = "rows" /\ ~overtaken => phone.cursor >= compacted

MayMiss ==
  phone.at # "resync" /\ phone.cursor >= compacted /\ ~overtaken =>
    \A i \in Item :
      phone.store[i] # Image(i) => \E b \in feed : b.sequence > phone.cursor /\ b.item = i

Copy == FeedLast /\ RowsFresh /\ MayMiss

LEMMA InitCopy == SyncInit => Copy
BY DEF SyncInit, Copy, FeedLast, RowsFresh, MayMiss, Cleared

(* A transaction that changes a row publishes it.                           *)
LEMMA PublishCopy ==
  ASSUME Types, Bounds, Copy, NEW i \in Item \cup {NoItem}, NEW image \in Nat, Publish(i, image),
         UNCHANGED <<compacted, phone, overtaken>>,
         \A x \in Item : x # i => Image(x)' = Image(x),
         i \in Item => Image(i)' = image
  PROVE  Copy'
<1> DEFINE new == [sequence |-> head + 1, item |-> i, revision |-> image]
<1>1. feed' = feed \cup {new}
  BY DEF Publish
<1>2. new.sequence = head + 1 /\ new.item = i /\ new.revision = image
  OBVIOUS
<1>3. /\ head \in Nat /\ phone.cursor \in Nat /\ phone.cursor <= head
      /\ \A b \in feed : b.sequence \in Nat /\ b.sequence <= head /\ b.item \in Item \cup {NoItem}
  BY BoundedNumbers DEF Types, ServerTypes, BatchType, Bounds, PhoneBounds
<1> HIDE DEF new
<1>4. ASSUME NEW a \in feed', NEW b \in feed', a.sequence = b.sequence PROVE a = b
  <2>1. CASE a \in feed /\ b \in feed
    BY <1>4, <2>1 DEF Copy, FeedLast
  <2>2. CASE a = new /\ b \in feed
    BY <1>2, <1>3, <1>4, <2>2
  <2>3. CASE b = new /\ a \in feed
    BY <1>2, <1>3, <1>4, <2>3
  <2> QED BY <1>1, <2>1, <2>2, <2>3
<1>5. ASSUME NEW b \in feed', b.item # NoItem,
             \A a \in feed' : a.item = b.item => a.sequence <= b.sequence
      PROVE  b.revision = Image(b.item)'
  <2>1. CASE b = new
    BY <1>2, <1>5, <2>1
  <2>2. CASE b \in feed
    <3>1. b.item # i
      <4> SUFFICES ASSUME b.item = i PROVE FALSE
        OBVIOUS
      <4>1. new.sequence <= b.sequence
        BY <1>1, <1>2, <1>5
      <4> QED BY <1>2, <1>3, <2>2, <4>1
    <3>2. b.item \in Item /\ Image(b.item)' = Image(b.item)
      BY <1>3, <1>5, <2>2, <3>1
    <3>3. b.revision = Image(b.item)
      BY <1>1, <1>5, <2>2 DEF Copy, FeedLast
    <3> QED BY <3>2, <3>3
  <2> QED BY <1>1, <2>1, <2>2
<1>6. FeedLast'
  BY <1>4, <1>5 DEF FeedLast
<1>7. RowsFresh'
  BY DEF Copy, RowsFresh
<1>8. MayMiss'
  <2> SUFFICES ASSUME phone.at # "resync", phone.cursor >= compacted, ~overtaken,
                      NEW x \in Item, phone.store[x] # Image(x)'
               PROVE  \E b \in feed' : b.sequence > phone.cursor /\ b.item = x
    BY DEF MayMiss
  <2>1. CASE x = i
    <3>1. new.sequence > phone.cursor
      BY <1>2, <1>3
    <3> QED BY <1>1, <1>2, <2>1, <3>1
  <2>2. CASE x # i
    BY <1>1, <2>2 DEF Copy, MayMiss
  <2> QED BY <2>1, <2>2
<1> QED BY <1>6, <1>7, <1>8 DEF Copy

LEMMA QuietCopy ==
  ASSUME Copy, UNCHANGED <<row, feed, compacted, overtaken>>,
         \/ UNCHANGED phone
         \/ phone' = Cleared
         \/ /\ phone'.store = phone.store /\ phone'.cursor = phone.cursor /\ phone.at # "resync"
            /\ phone'.at = "rows" => phone.cursor >= compacted
  PROVE  Copy'
<1>1. \A i \in Item : Image(i)' = Image(i)
  BY DEF Image
<1>2. FeedLast'
  <2> SUFFICES ASSUME NEW b \in feed, b.item # NoItem,
                      \A a \in feed : a.item = b.item => a.sequence <= b.sequence
               PROVE  b.revision = Image(b.item)'
    BY DEF Copy, FeedLast
  <2>1. Image(b.item)' = Image(b.item)
    BY DEF Image
  <2> QED BY <2>1 DEF Copy, FeedLast
<1>3. RowsFresh'
  BY DEF Copy, RowsFresh, Cleared
<1>4. MayMiss'
  <2>1. CASE phone' = Cleared
    BY <2>1 DEF MayMiss, Cleared
  <2>2. CASE phone' # Cleared
    BY <1>1, <2>2 DEF Copy, MayMiss
  <2> QED BY <2>1, <2>2
<1> QED BY <1>2, <1>3, <1>4 DEF Copy

LEMMA LiveImage ==
  ASSUME Types, NEW i \in Item, NEW revision, Live(i, revision)
  PROVE  Image(i)' = revision /\ \A x \in Item : x # i => Image(x)' = Image(x)
<1>1. row'[i].state = "live" /\ row'[i].revision = revision
  BY DEF Live, Types, ServerTypes
<1>2. \A x \in Item : x # i => row'[x] = row[x]
  BY DEF Live, Types, ServerTypes
<1> QED BY <1>1, <1>2 DEF Image

LEMMA DeletedImage ==
  ASSUME Types, NEW i \in Item, Deleted(i)
  PROVE  Image(i)' = NoRevision /\ \A x \in Item : x # i => Image(x)' = Image(x)
<1>1. row'[i].state = "deleted"
  BY DEF Deleted, Types, ServerTypes
<1>2. \A x \in Item : x # i => row'[x] = row[x]
  BY DEF Deleted, Types, ServerTypes
<1> QED BY <1>1, <1>2 DEF Image

LEMMA WebCopy ==
  ASSUME Types, Bounds, Copy, NEW i \in Item, WebEdit(i) \/ WebDelete(i) PROVE Copy'
<1>1. /\ UNCHANGED <<compacted, phone, overtaken>>
      /\ \/ Live(i, row[i].revision + 1) /\ Publish(i, row[i].revision + 1)
         \/ Deleted(i) /\ Publish(i, NoRevision)
  BY DEF WebEdit, WebDelete
<1>2. row[i].revision + 1 \in Nat /\ NoRevision \in Nat
  BY BoundedNumbers DEF NoRevision
<1>3. CASE Live(i, row[i].revision + 1) /\ Publish(i, row[i].revision + 1)
  BY <1>1, <1>2, <1>3, LiveImage, PublishCopy
<1>4. CASE Deleted(i) /\ Publish(i, NoRevision)
  BY <1>1, <1>2, <1>4, DeletedImage, PublishCopy
<1> QED BY <1>1, <1>3, <1>4

LEMMA ApplyCommandCopy ==
  ASSUME Types, Bounds, Copy, NEW m \in requests, NEW e \in Epoch, ApplyCommand(m, e) PROVE Copy'
<1> DEFINE i == intent[m.intent].item
<1>1. i \in Item
  BY CommandFacts DEF Types, CommandTypes, IntentType
<1>2. row[i].revision + 1 \in Nat /\ NoRevision \in Nat /\ Image(i) \in Nat
  BY <1>1, BoundedNumbers DEF NoRevision, Image
<1>3. UNCHANGED <<compacted, phone, overtaken>>
  BY DEF ApplyCommand
<1>4. \/ Live(i, row[i].revision + 1) /\ Publish(i, row[i].revision + 1)
      \/ Deleted(i) /\ Publish(i, NoRevision)
      \/ UNCHANGED row /\ Publish(NoItem, NoRevision)
      \/ UNCHANGED row /\ Publish(i, Image(i))
  BY DEF ApplyCommand
<1>5. CASE Live(i, row[i].revision + 1) /\ Publish(i, row[i].revision + 1)
  BY <1>1, <1>2, <1>3, <1>5, LiveImage, PublishCopy
<1>6. CASE Deleted(i) /\ Publish(i, NoRevision)
  BY <1>1, <1>2, <1>3, <1>6, DeletedImage, PublishCopy
<1>7. UNCHANGED row => \A x \in Item : Image(x)' = Image(x)
  BY DEF Image
<1>8. CASE UNCHANGED row /\ Publish(NoItem, NoRevision)
  BY <1>2, <1>3, <1>7, <1>8, PublishCopy, SyncAssumption
<1>9. CASE UNCHANGED row /\ Publish(i, Image(i))
  BY <1>1, <1>2, <1>3, <1>7, <1>9, PublishCopy
<1> QED BY <1>4, <1>5, <1>6, <1>8, <1>9

(* What a page leaves out is behind the cursor that the phone goes on from. *)
LEMMA ReadRowsCopy ==
  ASSUME Types, Bounds, Copy, ReadRows PROVE Copy'
<1>1. ServerTypes /\ phone \in PhoneType
  BY DEF Types
<1>2. /\ phone'.at = "idle" /\ phone'.store = Upserted /\ phone'.cursor = NextCursor
      /\ phone.at = "rows" /\ UNCHANGED <<row, feed, compacted, overtaken>>
  BY <1>1 DEF ReadRows, PhoneType, tables, history
<1>3. \A i \in Item : Image(i)' = Image(i)
  BY <1>2 DEF Image
<1>4. FeedLast'
  <2> SUFFICES ASSUME NEW b \in feed, b.item # NoItem,
                      \A a \in feed : a.item = b.item => a.sequence <= b.sequence
               PROVE  b.revision = Image(b.item)'
    BY <1>2 DEF Copy, FeedLast
  <2>1. Image(b.item)' = Image(b.item)
    BY <1>2 DEF Image
  <2> QED BY <2>1 DEF Copy, FeedLast
<1>5. RowsFresh'
  BY <1>2 DEF RowsFresh
<1>6. ASSUME ~overtaken, NEW i \in Item, Upserted[i] # Image(i)
      PROVE  \E b \in feed : b.sequence > NextCursor /\ b.item = i
  <2>1. phone.cursor >= compacted
    BY <1>2, <1>6 DEF Copy, RowsFresh
  <2>2. /\ \A b \in feed : b.sequence \in Nat
        /\ phone.cursor \in Nat
    BY BoundedNumbers
  <2>3. PICK b \in feed : b.sequence > phone.cursor /\ b.item = i /\ b \notin Page
    <3>1. CASE (\A b \in Page : b.item # i) /\ Upserted[i] = phone.store[i]
      <4>1. PICK b \in feed : b.sequence > phone.cursor /\ b.item = i
        BY <1>2, <1>6, <2>1, <3>1 DEF Copy, MayMiss
      <4> QED BY <3>1, <4>1
    <3>2. CASE \E b \in Page : /\ b.item = i /\ Upserted[i] = b.revision
                               /\ \A a \in Page : a.item = i => a.sequence <= b.sequence
      <4>1. PICK l \in Page : /\ l.item = i /\ Upserted[i] = l.revision
                              /\ \A a \in Page : a.item = i => a.sequence <= l.sequence
        BY <3>2
      <4>2. l \in feed /\ l.sequence > phone.cursor /\ l.item # NoItem
        BY <1>1, <4>1, PageIsPrefix, SyncAssumption
      <4>3. PICK a \in feed : a.item = i /\ ~(a.sequence <= l.sequence)
        BY <1>6, <4>1, <4>2 DEF Copy, FeedLast
      <4>4. a \notin Page
        BY <4>1, <4>3
      <4>5. a.sequence > phone.cursor
        BY <2>2, <4>2, <4>3
      <4> QED BY <4>3, <4>4, <4>5
    <3> QED BY <1>1, <3>1, <3>2, UpsertedFromLast
  <2>4. HasMore
    BY <2>3 DEF HasMore
  <2>5. PICK l \in Page : NextCursor = l.sequence
    BY <1>1, <2>4, NextCursorIsLast
  <2>6. l \in feed /\ ~(b.sequence <= l.sequence)
    BY <1>1, <2>3, PageIsPrefix
  <2> QED BY <2>2, <2>3, <2>5, <2>6
<1>7. MayMiss'
  BY <1>2, <1>3, <1>6 DEF MayMiss
<1> QED BY <1>4, <1>5, <1>7 DEF Copy

LEMMA PhoneStepCopy ==
  ASSUME Types, Bounds, Copy, PhoneStep PROVE Copy'
<1>1. phone \in PhoneType
  BY DEF Types
<1>2. CASE ReadHead
  <2>1. UNCHANGED <<row, feed, compacted, overtaken>>
    BY <1>2 DEF ReadHead, tables, history
  <2>2. CASE phone' = Cleared
    BY <2>1, <2>2, QuietCopy
  <2>3. CASE phone' # Cleared
    BY <1>1, <1>2, <2>1, <2>3, QuietCopy DEF ReadHead, PhoneType
  <2> QED BY <2>2, <2>3
<1>3. CASE ReadRetention
  <2>1. UNCHANGED <<row, feed, compacted, overtaken>>
    BY <1>3 DEF ReadRetention, tables, history
  <2>2. CASE TooOld
    BY <1>3, <2>1, <2>2, QuietCopy DEF ReadRetention
  <2>3. CASE ~TooOld
    <3>1. /\ phone'.store = phone.store /\ phone'.cursor = phone.cursor /\ phone.at # "resync"
          /\ phone'.at = "rows"
      BY <1>1, <1>3, <2>3 DEF ReadRetention, PhoneType
    <3>2. phone.cursor >= compacted
      BY <2>3, BoundedNumbers DEF TooOld, Types, ServerTypes
    <3> QED BY <2>1, <3>1, <3>2, QuietCopy
  <2> QED BY <2>2, <2>3
<1>4. CASE ReadRows
  BY <1>4, ReadRowsCopy
<1>5. CASE CreateSnapshot
  <2>1. /\ UNCHANGED <<row, feed, compacted>>
        /\ phone'.at = "paging" /\ phone'.store = Projected
    BY <1>5 DEF CreateSnapshot, tables
  <2>2. \A i \in Item : Image(i)' = Image(i) /\ Projected[i] = Image(i)
    BY <2>1 DEF Image, Projected
  <2>3. FeedLast'
    <3> SUFFICES ASSUME NEW b \in feed, b.item # NoItem,
                        \A a \in feed : a.item = b.item => a.sequence <= b.sequence
                 PROVE  b.revision = Image(b.item)'
      BY <2>1 DEF Copy, FeedLast
    <3>1. Image(b.item)' = Image(b.item)
      BY <2>1 DEF Image
    <3> QED BY <3>1 DEF Copy, FeedLast
  <2> QED BY <2>1, <2>2, <2>3 DEF Copy, RowsFresh, MayMiss
<1>6. CASE ReadSnapshotPages
  <2>1. UNCHANGED <<row, feed, compacted, overtaken>>
    BY <1>6 DEF ReadSnapshotPages, tables, history
  <2>2. CASE phone' = Cleared
    BY <2>1, <2>2, QuietCopy
  <2>3. CASE phone' # Cleared
    BY <1>1, <1>6, <2>1, <2>3, QuietCopy DEF ReadSnapshotPages, PhoneType
  <2> QED BY <2>2, <2>3
<1> QED BY <1>2, <1>3, <1>4, <1>5, <1>6 DEF PhoneStep

LEMMA RetainCopy ==
  ASSUME Types, Bounds, Copy, NEW cutoff \in 1 .. MaxHead, Retain(cutoff) PROVE Copy'
<1>1. /\ compacted' = cutoff /\ compacted < compacted' /\ compacted' \in Nat /\ compacted \in Nat
      /\ feed' = {b \in feed : b.sequence > compacted'}
  BY RetainCompacts DEF Types, ServerTypes
<1>2. \A b \in feed : b.sequence \in Nat /\ b.item \in Item \cup {NoItem}
  BY DEF Types, ServerTypes, BatchType
<1>3. \A i \in Item : Image(i)' = Image(i)
  <2>1. \A i \in Item : row'[i] = row[i] \/ (row[i].state # "live" /\ row'[i].state # "live")
    BY RetainRows
  <2> QED BY <2>1 DEF Image
<1>4. phone' = phone \/ phone' = Cleared
  BY DEF Retain
<1>5. phone.cursor \in Nat
  BY BoundedNumbers
<1>6. ~overtaken' => ~overtaken /\ (phone.at = "rows" => phone.cursor >= cutoff)
  <2>1. overtaken' = (overtaken \/ (phone.at = "rows" /\ phone.cursor < cutoff))
    BY DEF Retain
  <2>2. ~(phone.cursor < cutoff) => phone.cursor >= cutoff
    BY <1>1, <1>5
  <2> QED BY <2>1, <2>2, Zenon
<1>7. FeedLast'
  <2>1. \A a, b \in feed' : a.sequence = b.sequence => a = b
    BY <1>1 DEF Copy, FeedLast
  <2>2. ASSUME NEW b \in feed', b.item # NoItem,
               \A a \in feed' : a.item = b.item => a.sequence <= b.sequence
        PROVE  b.revision = Image(b.item)'
    <3>1. b \in feed /\ b.sequence > compacted' /\ b.item \in Item
      BY <1>1, <1>2, <2>2
    <3>2. ASSUME NEW a \in feed, a.item = b.item PROVE a.sequence <= b.sequence
      <4>1. CASE a \in feed'
        BY <2>2, <3>2, <4>1
      <4>2. CASE a \notin feed'
        BY <1>1, <1>2, <3>1, <4>2
      <4> QED BY <4>1, <4>2
    <3>3. b.revision = Image(b.item)
      BY <2>2, <3>1, <3>2 DEF Copy, FeedLast
    <3> QED BY <1>3, <3>1, <3>3
  <2> QED BY <2>1, <2>2 DEF FeedLast
<1>8. RowsFresh'
  <2>1. CASE phone' = Cleared
    BY <2>1 DEF RowsFresh, Cleared
  <2>2. CASE phone' = phone
    BY <1>1, <1>6, <2>2 DEF RowsFresh
  <2> QED BY <1>4, <2>1, <2>2
<1>9. MayMiss'
  <2>1. CASE phone' = Cleared
    BY <2>1 DEF MayMiss, Cleared
  <2>2. CASE phone' = phone
    <3> SUFFICES ASSUME phone.at # "resync", phone.cursor >= compacted', ~overtaken',
                        NEW i \in Item, phone.store[i] # Image(i)
                 PROVE  \E b \in feed' : b.sequence > phone.cursor /\ b.item = i
      BY <1>3, <2>2 DEF MayMiss
    <3>1. phone.cursor >= compacted
      BY <1>1, <1>5
    <3>2. PICK b \in feed : b.sequence > phone.cursor /\ b.item = i
      BY <1>6, <3>1 DEF Copy, MayMiss
    <3>3. b.sequence > compacted'
      BY <1>1, <1>2, <1>5, <3>2
    <3> QED BY <1>1, <3>2, <3>3
  <2> QED BY <1>4, <2>1, <2>2
<1> QED BY <1>7, <1>8, <1>9 DEF Copy

----------------------------------------------------------------------------
(* What is deleted.  An item that was ever deleted is among the retired     *)
(* client ids, which are asked before an item is created.                   *)

Buried == buried \subseteq retired /\ NoResurrection

LEMMA LiveBuried ==
  ASSUME Types, Buried, NEW i \in Item, NEW revision, Live(i, revision), i \notin buried,
         UNCHANGED <<retired, buried>>
  PROVE  Buried'
<1>1. \A x \in Item : x # i => row'[x] = row[x]
  BY DEF Live, Types, ServerTypes
<1>2. buried \subseteq Item
  BY DEF Types, ServerTypes
<1> QED BY <1>1, <1>2 DEF Buried, NoResurrection

LEMMA DeletedBuried ==
  ASSUME Types, Buried, NEW i \in Item, Deleted(i) PROVE Buried'
<1>1. row'[i].state = "deleted"
  BY DEF Deleted, Types, ServerTypes
<1>2. \A x \in Item : x # i => row'[x] = row[x]
  BY DEF Deleted, Types, ServerTypes
<1>3. buried \subseteq Item /\ retired' = retired \cup {i} /\ buried' = buried \cup {i}
  BY DEF Deleted, Types, ServerTypes
<1> QED BY <1>1, <1>2, <1>3 DEF Buried, NoResurrection

LEMMA WebBuried ==
  ASSUME Types, Buried, NEW i \in Item, WebEdit(i) \/ WebDelete(i) PROVE Buried'
<1>1. CASE WebEdit(i)
  <2>1. Live(i, row[i].revision + 1) /\ row[i].state = "live" /\ UNCHANGED <<retired, buried>>
    BY <1>1 DEF WebEdit
  <2>2. i \notin buried
    BY <2>1 DEF Buried, NoResurrection
  <2> QED BY <2>1, <2>2, LiveBuried
<1>2. CASE WebDelete(i)
  BY <1>2, DeletedBuried DEF WebDelete
<1> QED BY <1>1, <1>2

LEMMA ApplyCommandBuried ==
  ASSUME Types, Buried, NEW m \in requests, NEW e \in Epoch, ApplyCommand(m, e) PROVE Buried'
<1> DEFINE i == intent[m.intent].item
<1>1. i \in Item
  BY CommandFacts DEF Types, CommandTypes, IntentType
<1>2. CASE UNCHANGED <<row, retired, buried>>
  BY <1>2 DEF Buried, NoResurrection
<1>3. CASE Deleted(i)
  BY <1>1, <1>3, DeletedBuried
<1>4. CASE Admitted(m) /\ Live(i, row[i].revision + 1) /\ UNCHANGED <<retired, buried>>
  <2>1. i \notin buried
    BY <1>4 DEF Admitted, Retired, Buried, NoResurrection
  <2> QED BY <1>1, <1>4, <2>1, LiveBuried
<1> QED BY <1>2, <1>3, <1>4 DEF ApplyCommand

LEMMA RetainBuried ==
  ASSUME Types, Buried, NEW cutoff \in 1 .. MaxHead, Retain(cutoff) PROVE Buried'
<1>1. UNCHANGED <<retired, buried>> /\ buried \subseteq Item
  BY DEF Retain, Types, ServerTypes
<1>2. \A x \in Item : row'[x] = row[x] \/ row'[x].state # "live"
  BY RetainRows
<1> QED BY <1>1, <1>2 DEF Buried, NoResurrection

LEMMA QuietBuried ==
  ASSUME Buried, UNCHANGED <<row, retired, buried>> PROVE Buried'
BY DEF Buried, NoResurrection

----------------------------------------------------------------------------
(* The inductive invariant *)

SyncInv == Types /\ Order /\ Counted /\ Bounds /\ Copy /\ Buried

LEMMA SyncInit_SyncInv == SyncInit => SyncInv
<1> SUFFICES ASSUME SyncInit PROVE SyncInv
  OBVIOUS
<1>1. Types /\ Order /\ Counted /\ Bounds /\ Copy
  BY InitTypes, InitOrder, InitCounted, InitBounds, InitCopy
<1>2. Buried
  BY DEF SyncInit, Buried, NoResurrection
<1> QED BY <1>1, <1>2 DEF SyncInv

LEMMA WebInv ==
  ASSUME SyncInv, NEW i \in Item, WebEdit(i) \/ WebDelete(i) PROVE SyncInv'
<1>1. Types'
  BY WebEditTypes, WebDeleteTypes DEF SyncInv
<1>2. Order' /\ Counted' /\ Bounds' /\ Copy' /\ Buried'
  BY WebOrder, WebCounted, WebBounds, WebCopy, WebBuried DEF SyncInv
<1> QED BY <1>1, <1>2 DEF SyncInv

LEMMA RaiseEpochInv ==
  ASSUME SyncInv, RaiseEpoch PROVE SyncInv'
<1>1. Types' /\ Order' /\ Counted' /\ Bounds'
  BY RaiseEpochTypes, RaiseEpochOrder, RaiseEpochCounted, RaiseEpochBounds DEF SyncInv
<1>2. UNCHANGED <<row, retired, feed, compacted, phone, buried, overtaken>>
  BY DEF RaiseEpoch, history
<1>3. Copy' /\ Buried'
  BY <1>2, QuietCopy, QuietBuried DEF SyncInv
<1> QED BY <1>1, <1>3 DEF SyncInv

LEMMA ComposeInv ==
  ASSUME SyncInv, NEW k \in Intent, NEW kind \in Kind, NEW i \in Item, Compose(k, kind, i)
  PROVE  SyncInv'
<1>1. Types' /\ Order' /\ Counted' /\ Bounds'
  BY ComposeTypes, ComposeOrder, ComposeCounted, ComposeBounds DEF SyncInv
<1>2. UNCHANGED <<row, retired, feed, compacted, phone, buried, overtaken>>
  BY DEF Compose, tables, history
<1>3. Copy' /\ Buried'
  BY <1>2, QuietCopy, QuietBuried DEF SyncInv
<1> QED BY <1>1, <1>3 DEF SyncInv

LEMMA RebuildInv ==
  ASSUME SyncInv, NEW k \in Intent, Rebuild(k) PROVE SyncInv'
<1>1. Types' /\ Order' /\ Counted' /\ Bounds'
  BY RebuildTypes, RebuildOrder, RebuildCounted, RebuildBounds DEF SyncInv
<1>2. UNCHANGED <<row, retired, feed, compacted, phone, buried, overtaken>>
  BY DEF Rebuild, tables, history
<1>3. Copy' /\ Buried'
  BY <1>2, QuietCopy, QuietBuried DEF SyncInv
<1> QED BY <1>1, <1>3 DEF SyncInv

LEMMA PhoneStepInv ==
  ASSUME SyncInv, PhoneStep PROVE SyncInv'
<1>1. Types' /\ Order' /\ Counted' /\ Bounds' /\ Copy'
  BY PhoneStepTypes, PhoneStepOrder, PhoneStepCounted, PhoneStepBounds, PhoneStepCopy DEF SyncInv
<1>2. UNCHANGED <<row, retired, buried>>
  BY DEF PhoneStep, ReadHead, ReadRetention, ReadRows, CreateSnapshot, ReadSnapshotPages,
         tables, history
<1> QED BY <1>1, <1>2, QuietBuried DEF SyncInv

LEMMA RetainInv ==
  ASSUME SyncInv, NEW cutoff \in 1 .. MaxHead, Retain(cutoff) PROVE SyncInv'
BY RetainTypes, RetainOrder, RetainCounted, RetainBounds, RetainCopy, RetainBuried DEF SyncInv

LEMMA ReplayReceiptInv ==
  ASSUME SyncInv, NEW m \in requests, ReplayReceipt(m) PROVE SyncInv'
<1>1. Types' /\ Order' /\ Counted'
  BY ReplayReceiptTypes, ReplayReceiptOrder, ReplayReceiptCounted DEF SyncInv
<1>2. /\ Told(m, Verdict(receipts[CommandIn(m)].status))
      /\ UNCHANGED <<tables, phone, buried, overtaken>>
  BY DEF ReplayReceipt, history
<1>3. Bounds'
  BY <1>2, AnswerBounds DEF SyncInv, Verdict
<1>4. Copy' /\ Buried'
  BY <1>2, QuietCopy, QuietBuried DEF SyncInv, tables
<1> QED BY <1>1, <1>3, <1>4 DEF SyncInv

LEMMA RefuseStaleInv ==
  ASSUME SyncInv, NEW m \in requests, NEW e \in Epoch, RefuseStale(m, e) PROVE SyncInv'
<1>1. Types' /\ Order' /\ Counted'
  BY RefuseStaleTypes, RefuseStaleOrder, RefuseStaleCounted DEF SyncInv
<1>2. Told(m, "stale") /\ UNCHANGED <<tables, phone, buried, overtaken>>
  BY DEF RefuseStale, history
<1>3. Bounds'
  BY <1>2, AnswerBounds DEF SyncInv
<1>4. Copy' /\ Buried'
  BY <1>2, QuietCopy, QuietBuried DEF SyncInv, tables
<1> QED BY <1>1, <1>3, <1>4 DEF SyncInv

LEMMA RejectDependentInv ==
  ASSUME SyncInv, NEW m \in requests, NEW e \in Epoch, RejectDependent(m, e) PROVE SyncInv'
<1>1. Types' /\ Order' /\ Counted' /\ Bounds'
  BY RejectDependentTypes, RejectDependentOrder, RejectDependentCounted, RejectDependentBounds
     DEF SyncInv
<1>2. UNCHANGED <<row, retired, feed, compacted, phone, buried, overtaken>>
  BY DEF RejectDependent, history
<1>3. Copy' /\ Buried'
  BY <1>2, QuietCopy, QuietBuried DEF SyncInv
<1> QED BY <1>1, <1>3 DEF SyncInv

LEMMA ApplyCommandInv ==
  ASSUME SyncInv, NEW m \in requests, NEW e \in Epoch, ApplyCommand(m, e) PROVE SyncInv'
BY ApplyCommandTypes, ApplyCommandOrder, ApplyCommandCounted, ApplyCommandBounds, ApplyCommandCopy,
   ApplyCommandBuried DEF SyncInv

LEMMA StutterInv ==
  ASSUME SyncInv, UNCHANGED syncVars PROVE SyncInv'
<1>1. UNCHANGED <<row, retired, head, feed, compacted, epoch, receipts, intent, requests, phone,
                  effects, buried, overtaken, webWrites>>
  BY DEF syncVars, tables, history
<1>2. Types'
  BY <1>1 DEF SyncInv, Types, ServerTypes, CommandTypes
<1>3. Order'
  <2>1. Composing' /\ RequestsKnown' /\ OneCommand'
    BY <1>1 DEF SyncInv, Order, Composing, RequestsKnown, OneCommand, Composed, Pending, Received, Cur
  <2>2. Answers'
    BY <1>1 DEF SyncInv, Order, Answers, Received, Applied, Cur
  <2>3. InOrder' /\ EpochsOfPending' /\ OldRequests'
    BY <1>1 DEF SyncInv, Order, InOrder, EpochsOfPending, OldRequests, Composed, Pending, Received,
                Applied, Cur
  <2> QED BY <2>1, <2>2, <2>3 DEF Order
<1>4. Counted'
  BY <1>1, QuietCounted DEF SyncInv
<1>5. Bounds'
  BY <1>1 DEF SyncInv, Bounds, RowBounds, FeedBounds, ReceiptBounds, PhoneBounds, IntentBounds
<1>6. Copy' /\ Buried'
  BY <1>1, QuietCopy, QuietBuried DEF SyncInv
<1> QED BY <1>2, <1>3, <1>4, <1>5, <1>6 DEF SyncInv

LEMMA SyncInv_Next == SyncInv /\ [SyncNext]_syncVars => SyncInv'
<1> SUFFICES ASSUME SyncInv, [SyncNext]_syncVars PROVE SyncInv'
  OBVIOUS
<1>1. CASE SyncUser
  BY <1>1, WebInv, ComposeInv DEF SyncUser
<1>2. CASE PhoneStep
  BY <1>2, PhoneStepInv
<1>3. CASE \E k \in Intent : Rebuild(k)
  BY <1>3, RebuildInv
<1>4. CASE \E m \in requests : Handle(m)
  BY <1>4, ReplayReceiptInv, RejectDependentInv, RefuseStaleInv, ApplyCommandInv DEF Handle
<1>5. CASE \E cutoff \in 1 .. MaxHead : Retain(cutoff)
  BY <1>5, RetainInv
<1>6. CASE RaiseEpoch
  BY <1>6, RaiseEpochInv
<1>7. CASE UNCHANGED syncVars
  BY <1>7, StutterInv
<1> QED BY <1>1, <1>2, <1>3, <1>4, <1>5, <1>6, <1>7 DEF SyncNext

LEMMA SyncInvariant == SyncSpec => []SyncInv
BY SyncInit_SyncInv, SyncInv_Next, PTL DEF SyncSpec

----------------------------------------------------------------------------
(* The theorems *)

LEMMA BoundedTypes ==
  ASSUME SyncInv PROVE SyncTypeOK
<1>1. /\ 1 + head <= MaxRev /\ head <= MaxHead /\ MaxRev \in Nat /\ MaxHead \in Nat
      /\ head \in Nat /\ compacted \in 0 .. head
      /\ \A n \in Nat : /\ n <= head => n \in 0 .. MaxHead
                        /\ n <= 1 + head => n \in 0 .. MaxRev /\ n \in NoRevision .. MaxRev
  <2>1. /\ 1 + head <= MaxRev /\ head <= MaxHead /\ MaxRev \in Nat /\ MaxHead \in Nat
        /\ head \in Nat /\ compacted \in 0 .. head
    BY HeadBound DEF SyncInv, Types, ServerTypes
  <2>2. \A n \in Nat : n <= head => n \in 0 .. MaxHead
    BY <2>1
  <2>3. \A n \in Nat : n <= 1 + head => n \in 0 .. MaxRev /\ n \in NoRevision .. MaxRev
    BY <2>1 DEF NoRevision
  <2> QED BY <2>1, <2>2, <2>3
<1>2. Types /\ Bounds
  BY DEF SyncInv
<1>3. row \in [Item -> [state : {"absent", "live", "deleted"}, revision : 0 .. MaxRev,
                        deletedAt : 0 .. MaxHead]]
  <2>1. \A i \in Item : row[i] \in RowType /\ row[i].revision \in 0 .. MaxRev
                        /\ row[i].deletedAt \in 0 .. MaxHead
    BY <1>1, <1>2, BoundedNumbers DEF Types, ServerTypes, Bounds, RowBounds
  <2>2. \A i \in Item : row[i] \in [state : {"absent", "live", "deleted"}, revision : 0 .. MaxRev,
                                    deletedAt : 0 .. MaxHead]
    BY <2>1 DEF RowType
  <2> QED BY <1>2, <2>2 DEF Types, ServerTypes
<1>4. feed \subseteq Batch /\ \A b \in feed : compacted < b.sequence /\ b.sequence <= head
  <2>1. \A b \in feed : compacted < b.sequence /\ b.sequence <= head
    BY <1>2 DEF Types, ServerTypes
  <2>2. \A b \in feed : /\ b \in BatchType
                        /\ b.sequence \in Nat /\ b.revision \in NoRevision .. MaxRev
    BY <1>1, <1>2, BoundedNumbers DEF Types, ServerTypes, Bounds, FeedBounds
  <2>3. \A n \in Nat : compacted < n /\ n <= head => n \in 1 .. MaxHead
    BY <1>1
  <2>4. \A b \in feed : b \in Batch
    BY <2>1, <2>2, <2>3 DEF BatchType, Batch
  <2> QED BY <2>1, <2>4
<1>5. receipts \in [Command -> [status : Status \cup {"none"}, revision : 0 .. MaxRev]]
  <2>1. \A c \in Command : receipts[c] \in ReceiptType /\ receipts[c].revision \in 0 .. MaxRev
    BY <1>1, <1>2, BoundedNumbers DEF Types, CommandTypes, Bounds, ReceiptBounds
  <2>2. \A c \in Command : receipts[c] \in [status : Status \cup {"none"}, revision : 0 .. MaxRev]
    BY <2>1 DEF ReceiptType
  <2> QED BY <1>2, <2>2 DEF Types, CommandTypes
<1>6. intent \in [Intent -> [state : {"none", "open", "stale", "done", "refused"}, kind : Kind,
                            item : Item, expected : FromReceipt .. MaxRev,
                            after : {0} \cup Intent, epoch : Epoch]]
  <2>1. \A n \in 0 .. MaxIntent : n \in {0} \cup Intent
    BY SyncAssumption DEF Intent
  <2>2. \A k \in Intent : intent[k] \in IntentType /\ intent[k].expected \in FromReceipt .. MaxRev
    BY <1>2 DEF Types, CommandTypes, Bounds, IntentBounds
  <2>3. \A k \in Intent :
          intent[k] \in [state : {"none", "open", "stale", "done", "refused"}, kind : Kind,
                         item : Item, expected : FromReceipt .. MaxRev,
                         after : {0} \cup Intent, epoch : Epoch]
    BY <2>1, <2>2 DEF IntentType
  <2> QED BY <1>2, <2>3 DEF Types, CommandTypes
<1>7. phone \in [at : {"resync", "paging", "idle", "retention", "rows"},
                 store : [Item -> 0 .. MaxRev], cursor : 0 .. MaxHead, bound : Epoch,
                 latest : 0 .. MaxHead]
  <2>1. phone \in PhoneType
    BY <1>2 DEF Types
  <2>2. phone.cursor \in 0 .. MaxHead /\ phone.latest \in 0 .. MaxHead
    BY <1>1, <1>2, BoundedNumbers DEF Bounds, PhoneBounds
  <2>3. \A i \in Item : phone.store[i] \in 0 .. MaxRev
    BY <1>1, <1>2, BoundedNumbers DEF Bounds, PhoneBounds
  <2>4. phone.store \in [Item -> 0 .. MaxRev]
    BY <2>1, <2>3 DEF PhoneType
  <2> QED BY <2>1, <2>2, <2>4 DEF PhoneType
<1>8. /\ retired \subseteq Item /\ epoch \in Epoch
      /\ requests \subseteq [intent : Intent, epoch : Epoch, after : 0 .. MaxEpoch]
  BY <1>2 DEF Types, ServerTypes, CommandTypes, RequestType
<1>9. head \in 0 .. MaxHead
  BY <1>1
<1> QED BY <1>1, <1>3, <1>4, <1>5, <1>6, <1>7, <1>8, <1>9 DEF SyncTypeOK

(* Whatever the phone, the browser, retention and the cutover do, every     *)
(* variable keeps its type, and no revision or sequence passes the number   *)
(* of commands that can be received and of edits in the browser.            *)
THEOREM SyncTypes == SyncSpec => []SyncTypeOK
<1>1. SyncInv => SyncTypeOK
  BY BoundedTypes
<1> QED BY <1>1, SyncInvariant, PTL

LEMMA AnswersTrue == SyncInv => AnswersHold
<1> SUFFICES ASSUME SyncInv, NEW k \in Intent
             PROVE  /\ effects[k] <= 1
                    /\ intent[k].state = "done" => effects[k] = 1
                    /\ intent[k].state \in {"stale", "refused"} => effects[k] = 0
  BY DEF AnswersHold
<1>1. effects[k] = IF Applied(Cur(k)) THEN 1 ELSE 0
  BY DEF SyncInv, Counted, Effects
<1>2. /\ intent[k].state = "done" => Applied(Cur(k))
      /\ intent[k].state = "refused" => ~Applied(Cur(k))
      /\ intent[k].state = "stale" => ~Received(Cur(k))
  BY DEF SyncInv, Order, Answers
<1>3. Applied(Cur(k)) => Received(Cur(k))
  BY DEF Applied, Received
<1> QED BY <1>1, <1>2, <1>3

(* An intent is carried out at most once, and the phone is told what became *)
(* of it: done if it was carried out, stale or refused if it was not and    *)
(* never will be by the command it was told of, however requests are lost,  *)
(* delayed and sent again and whichever epochs they were built for.         *)
THEOREM AnswersAreTrue == SyncSpec => []AnswersHold
BY AnswersTrue, SyncInvariant, PTL

LEMMA DependentsLater == SyncInv => DependentsFollow
<1> SUFFICES ASSUME SyncInv, NEW k \in Intent, intent[k].after # 0, effects[k] > 0
             PROVE  effects[intent[k].after] > 0
  BY DEF DependentsFollow
<1>1. intent[k].after \in Intent /\ Cur(k) \in Command /\ Cur(k).intent = k
  BY CommandFacts DEF SyncInv, Cur
<1>2. Applied(Cur(k))
  BY DEF SyncInv, Counted, Effects
<1>3. Composed(k)
  BY <1>1, <1>2 DEF SyncInv, Order, OneCommand, Applied, Received
<1>4. Applied(Cur(intent[k].after))
  BY <1>2, <1>3 DEF SyncInv, Order, InOrder
<1> QED BY <1>1, <1>4 DEF SyncInv, Counted, Effects

(* What was composed while an earlier intent was unanswered is carried out  *)
(* only if that one was, also when both were built again for a new epoch    *)
(* while requests of the old one were on their way.                         *)
THEOREM DependentsAreLater == SyncSpec => []DependentsFollow
BY DependentsLater, SyncInvariant, PTL

LEMMA NothingIsMissed == SyncInv => NothingMissed
BY DEF SyncInv, Copy, MayMiss, NothingMissed

(* A phone that follows the feed misses nothing: where its copy of an item  *)
(* is not the workspace's, a batch after its cursor carries that item,      *)
(* unless compaction passed it, which it is told at its next read or, in    *)
(* the window between two queries of one read, is recorded as overtaken.    *)
THEOREM PhonesMissNothing == SyncSpec => []NothingMissed
BY NothingIsMissed, SyncInvariant, PTL

LEMMA BuriedForGood == SyncInv => NoResurrection
BY DEF SyncInv, Buried

(* An item deleted on any side is never live again under its client id,     *)
(* neither after retention has purged its row nor by a command that was     *)
(* composed before the deletion and arrives after it.                       *)
THEOREM DeletedStaysDeleted == SyncSpec => []NoResurrection
BY BuriedForGood, SyncInvariant, PTL

----------------------------------------------------------------------------
(* The log of intents *)

States == [k \in Intent |-> intent[k].state]
Afters == [k \in Intent |-> intent[k].after]

(* An answer changes the log's view of one intent, or nothing.              *)
LEMMA AnswerTells ==
  ASSUME Types, NEW m \in requests, NEW state \in {"stale", "done", "refused"}, Told(m, state)
  PROVE  /\ Afters' = Afters
         /\ States' \in {States, [States EXCEPT ![m.intent] = state]}
         /\ intent' # intent =>
              /\ States' = [States EXCEPT ![m.intent] = state]
              /\ intent[m.intent].state = "open" /\ intent[m.intent].epoch = m.epoch
<1>1. /\ \A k \in Intent : intent'[k].after = intent[k].after
      /\ m.intent \in Intent
  BY ToldOnly, CommandFacts DEF Types
<1>2. CASE UNCHANGED intent
  BY <1>2 DEF States, Afters
<1>3. CASE /\ intent[m.intent].state = "open" /\ intent[m.intent].epoch = m.epoch
           /\ intent' = [intent EXCEPT ![m.intent].state = state]
  <2>1. \A k \in Intent : intent'[k].state = IF k = m.intent THEN state ELSE intent[k].state
    BY <1>1, <1>3 DEF Types, CommandTypes, IntentType
  <2>2. States' = [States EXCEPT ![m.intent] = state]
    BY <1>1, <2>1 DEF States
  <2> QED BY <1>1, <1>3, <2>2 DEF Afters
<1> QED BY <1>2, <1>3 DEF Told

(* It is the turn of an intent that is open and the first not received.     *)
LEMMA ReceivedInTurn ==
  ASSUME Types, Order, NEW m \in requests, Composed(m.intent), Receives(m)
  PROVE  /\ m.intent \in Intent /\ intent[m.intent].state = "open" /\ m.intent \notin Handled
         /\ \A l \in Intent : l < m.intent => l \in Handled
<1>1. m.intent \in Intent
  BY CommandFacts
<1>2. intent[m.intent].state \in {"none", "open", "stale", "done", "refused"}
  BY <1>1 DEF Types, CommandTypes, IntentType
<1>3. ~Received(Cur(m.intent)) /\ ~Applied(Cur(m.intent))
  BY DEF Receives, Received, Applied
<1>4. intent[m.intent].state = "open"
  BY <1>1, <1>2, <1>3 DEF Receives, Composed, Order, Answers
<1> QED BY <1>1, <1>3, <1>4 DEF Receives, Handled

LEMMA LogRefuses ==
  ASSUME Types, Order, NEW m \in requests, Composed(m.intent), Receives(m),
         Told(m, "refused"), Handled' = Handled \cup {m.intent}, UNCHANGED effects
  PROVE  Log!Next
<1>1. /\ Afters' = Afters
      /\ States' \in {States, [States EXCEPT ![m.intent] = "refused"]}
  BY AnswerTells
<1>2. Log!Refuse(m.intent)
  BY <1>1, ReceivedInTurn
     DEF Log!Refuse, Log!Decide, Log!Turn, Log!Intent, Intent, States, Afters, Handled
<1> QED BY <1>2, ReceivedInTurn DEF Log!Next, Log!Intent, Intent

(* It is carried out only after what it depends on.                         *)
LEMMA LogCarries ==
  ASSUME Types, Order, Effects, NEW m \in requests, Composed(m.intent), Receives(m),
         Told(m, "done"), Handled' = Handled \cup {m.intent},
         intent[m.intent].after # 0 => Applied(DependencyIn(m)),
         m.after # 0 \/ intent[m.intent].after = 0,
         effects' = [effects EXCEPT ![m.intent] = @ + 1]
  PROVE  Log!Next
<1> DEFINE j == intent[m.intent].after
<1>1. /\ Afters' = Afters
      /\ States' \in {States, [States EXCEPT ![m.intent] = "done"]}
  BY AnswerTells
<1>2. j # 0 => effects[j] > 0
  <2> SUFFICES ASSUME j # 0 PROVE effects[j] > 0
    OBVIOUS
  <2>1. Received(DependencyIn(m))
    BY DEF Applied, Received
  <2>2. j \in Intent /\ DependencyIn(m) = Cur(j)
    BY <2>1, DependencyIsCurrent
  <2> QED BY <2>2 DEF Effects
<1>3. Log!Carry(m.intent)
  BY <1>1, <1>2, ReceivedInTurn
     DEF Log!Carry, Log!Decide, Log!Turn, Log!Intent, Intent, States, Afters, Handled
<1> QED BY <1>3, ReceivedInTurn DEF Log!Next, Log!Intent, Intent

LEMMA ApplyCommandLog ==
  ASSUME Types, Order, Counted, NEW m \in requests, NEW e \in Epoch, ApplyCommand(m, e)
  PROVE  Log!Next
<1>1. /\ Composed(m.intent) /\ Receives(m) /\ Handled' = Handled \cup {m.intent}
      /\ intent[m.intent].after # 0 => Applied(DependencyIn(m))
  BY ApplyCommandOrder, ApplyCommandCounted
<1>2. m.after # 0 \/ intent[m.intent].after = 0
  BY DEF Order, RequestsKnown
<1>3. CASE Admitted(m)
  <2>1. Told(m, "done") /\ effects' = [effects EXCEPT ![m.intent] = @ + 1]
    BY <1>3 DEF ApplyCommand
  <2> QED BY <1>1, <1>2, <2>1, LogCarries DEF Counted
<1>4. CASE ~Admitted(m)
  <2>1. Told(m, "refused") /\ effects' = effects
    BY <1>4 DEF ApplyCommand
  <2> QED BY <1>1, <2>1, LogRefuses
<1> QED BY <1>3, <1>4

LEMMA RejectDependentLog ==
  ASSUME Types, Order, Counted, NEW m \in requests, NEW e \in Epoch, RejectDependent(m, e)
  PROVE  Log!Next
<1>1. Told(m, "refused") /\ effects' = effects
  BY DEF RejectDependent, history
<1> QED BY <1>1, RejectDependentOrder, RejectDependentCounted, LogRefuses

(* An answer that decides nothing says what is decided.                     *)
LEMMA LogTells ==
  ASSUME Types, NEW m \in requests, NEW state \in {"stale", "done", "refused"}, Told(m, state),
         intent' # intent, UNCHANGED <<receipts, effects>>,
         m.epoch = intent[m.intent].epoch =>
           state = IF m.intent \notin Handled THEN "stale"
                   ELSE IF effects[m.intent] > 0 THEN "done" ELSE "refused"
  PROVE  Log!Next
<1>1. /\ m.intent \in Intent
      /\ \A k \in Intent : intent'[k].epoch = intent[k].epoch
  BY CommandFacts, ToldOnly DEF Types
<1>2. /\ Afters' = Afters
      /\ States' = [States EXCEPT ![m.intent] = state]
      /\ intent[m.intent].state = "open" /\ intent[m.intent].epoch = m.epoch
  BY AnswerTells
<1>3. Handled' = Handled
  BY <1>1 DEF Handled, Received, Cur
<1>4. Log!Tell(m.intent)
  BY <1>1, <1>2, <1>3 DEF Log!Tell, Log!Intent, Intent, States, Afters, Handled
<1> QED BY <1>1, <1>4 DEF Log!Next, Log!Intent, Intent

LEMMA ReplayReceiptLog ==
  ASSUME Types, Order, Counted, NEW m \in requests, ReplayReceipt(m)
  PROVE  Log!Next
<1> DEFINE state == Verdict(receipts[CommandIn(m)].status)
<1>1. /\ Told(m, state) /\ state \in {"stale", "done", "refused"} /\ intent' # intent
      /\ Received(CommandIn(m)) /\ UNCHANGED <<receipts, effects>>
  BY DEF ReplayReceipt, Verdict, tables, history
<1>2. ASSUME m.epoch = intent[m.intent].epoch
      PROVE  state = IF m.intent \notin Handled THEN "stale"
                     ELSE IF effects[m.intent] > 0 THEN "done" ELSE "refused"
  <2>1. CommandIn(m) = Cur(m.intent) /\ m.intent \in Intent
    BY <1>2, CommandFacts DEF CommandIn, Cur
  <2>2. m.intent \in Handled
    BY <1>1, <2>1 DEF Handled
  <2>3. effects[m.intent] = IF Applied(CommandIn(m)) THEN 1 ELSE 0
    BY <2>1 DEF Counted, Effects
  <2> QED BY <2>2, <2>3 DEF Verdict, Applied
<1> HIDE DEF state
<1> QED BY <1>1, <1>2, LogTells

LEMMA RefuseStaleLog ==
  ASSUME Types, NEW m \in requests, NEW e \in Epoch, RefuseStale(m, e)
  PROVE  Log!Next
<1>1. /\ Told(m, "stale") /\ intent' # intent /\ ~Received(CommandIn(m))
      /\ UNCHANGED <<receipts, effects>>
  BY DEF RefuseStale, NewCommand, tables, history
<1>2. m.epoch = intent[m.intent].epoch => m.intent \notin Handled
  BY <1>1 DEF CommandIn, Cur, Handled
<1> QED BY <1>1, <1>2, LogTells

(* What is built again is tried again.                                      *)
LEMMA RebuildLog ==
  ASSUME Types, Order, NEW k \in Intent, Rebuild(k)
  PROVE  Log!Next
<1>1. /\ \A l \in Intent : Received(Cur(l))' <=> Received(Cur(l))
      /\ \A l \in Intent : intent'[l].after = intent[l].after
      /\ \A l \in Intent : IF l >= k /\ intent[l].state \in {"open", "stale"}
                           THEN intent'[l].state = "open" ELSE intent'[l] = intent[l]
  BY RebuildTypes, RebuildOrder
<1>2. intent[k].state = "stale" /\ UNCHANGED effects
  BY DEF Rebuild, history
<1>3. Handled' = Handled /\ Afters' = Afters
  BY <1>1 DEF Handled, Afters
<1>4. \A l \in Intent : intent'[l].state = IF l >= k /\ intent[l].state = "stale"
                                           THEN "open" ELSE intent[l].state
  BY <1>1
<1>5. States' = [l \in Intent |-> IF l >= k /\ States[l] = "stale" THEN "open" ELSE States[l]]
  BY <1>4 DEF States
<1>6. Log!TryAgain(k)
  BY <1>2, <1>3, <1>5 DEF Log!TryAgain, Log!Intent, Intent, States, Afters, Handled
<1> QED BY <1>6 DEF Log!Next, Log!Intent, Intent

(* What the user does is a new intent of the log.                           *)
LEMMA ComposeLog ==
  ASSUME Types, Order, Counted, NEW k \in Intent, NEW kind \in Kind, NEW i \in Item,
         Compose(k, kind, i)
  PROVE  Log!Next
<1>1. /\ \A l \in Intent : l # k => intent'[l] = intent[l]
      /\ ComposedRow(k, kind, i)
  BY ComposeIntents
<1>2. Fresh(k) /\ UNCHANGED <<receipts, effects>>
  BY DEF Compose, tables, history
<1>3. k \notin Handled
  BY ComposeCounted
<1>4. k \notin Handled'
  <2>1. \A e \in Epoch : ~Received([intent |-> k, epoch |-> e])
    BY ComposeOrder
  <2>2. intent'[k].epoch \in Epoch
    BY ComposeIntents DEF IntentType
  <2> QED BY <1>2, <2>1, <2>2 DEF Handled, Received, Cur
<1>5. Handled' = Handled
  <2>1. \A l \in Intent : l # k => (l \in Handled' <=> l \in Handled)
    BY <1>1, <1>2 DEF Handled, Received, Cur
  <2> QED BY <1>3, <1>4, <2>1 DEF Handled
<1>6. States' = [States EXCEPT ![k] = "open"]
  BY <1>1 DEF States, ComposedRow
<1>7. Afters' = [Afters EXCEPT ![k] = intent'[k].after]
  BY <1>1 DEF Afters
<1> DEFINE before == {l \in Intent : States[l] \in {"open", "stale"}}
<1>8. \/ before = {} /\ Afters' = [Afters EXCEPT ![k] = 0]
      \/ \E j \in before : /\ \A b \in before : b <= j
                           /\ Afters' = [Afters EXCEPT ![k] = j]
  BY <1>1, <1>7 DEF States, ComposedRow
<1>9. States[k] = "none" /\ \A l \in Intent : l < k => States[l] # "none"
  BY <1>2 DEF Fresh, States
<1>10. before = Log!Unanswered
  BY DEF Log!Unanswered, Log!Intent, Intent, States
<1> HIDE DEF before
<1>11. Log!Compose(k)
  BY <1>2, <1>5, <1>6, <1>8, <1>9, <1>10
     DEF Log!Compose, Log!Intent, Intent, States, Afters, Handled
<1> QED BY <1>11 DEF Log!Next, Log!Intent, Intent

LEMMA LogInit == SyncInit => Log!Init
<1> SUFFICES ASSUME SyncInit PROVE Log!Init
  OBVIOUS
<1>1. \A k \in Intent : /\ intent[k].state = "none" /\ intent[k].after = 0
                        /\ Cur(k) \in Command
  BY InitTypes, CommandFacts DEF SyncInit, NoIntent
<1>2. Handled = {}
  BY <1>1 DEF SyncInit, Handled, Received, NoReceipt
<1>3. States = [k \in Intent |-> "none"] /\ Afters = [k \in Intent |-> 0]
  BY <1>1 DEF States, Afters
<1>4. effects = [k \in Intent |-> 0]
  BY DEF SyncInit
<1> QED BY <1>2, <1>3, <1>4 DEF Log!Init, Log!Intent, Intent, States, Afters, Handled

LEMMA LogStep == SyncInv /\ [SyncNext]_syncVars => [Log!Next]_(Log!vars)
<1> SUFFICES ASSUME SyncInv, [SyncNext]_syncVars PROVE [Log!Next]_(Log!vars)
  OBVIOUS
<1>1. Types /\ Order /\ Counted
  BY DEF SyncInv
<1>2. ASSUME UNCHANGED <<receipts, intent, effects>> PROVE UNCHANGED Log!vars
  <2>1. States' = States /\ Afters' = Afters /\ Handled' = Handled
    BY <1>2 DEF States, Afters, Handled, Received, Cur
  <2> QED BY <1>2, <2>1 DEF Log!vars, States, Afters, Handled
<1>3. CASE \E i \in Item : WebEdit(i) \/ WebDelete(i)
  BY <1>1, <1>2, <1>3, WebOrder
<1>4. CASE \E k \in Intent, kind \in Kind, i \in Item : Compose(k, kind, i)
  BY <1>1, <1>4, ComposeLog
<1>5. CASE PhoneStep
  BY <1>1, <1>2, <1>5, PhoneStepOrder
<1>6. CASE \E k \in Intent : Rebuild(k)
  BY <1>1, <1>6, RebuildLog
<1>7. CASE \E m \in requests : Handle(m)
  BY <1>1, <1>7, ReplayReceiptLog, RejectDependentLog, RefuseStaleLog, ApplyCommandLog DEF Handle
<1>8. CASE \E cutoff \in 1 .. MaxHead : Retain(cutoff)
  BY <1>1, <1>2, <1>8, RetainOrder
<1>9. CASE RaiseEpoch
  BY <1>2, <1>9 DEF RaiseEpoch, history
<1>10. CASE UNCHANGED syncVars
  BY <1>2, <1>10 DEF syncVars, tables, history
<1> QED BY <1>3, <1>4, <1>5, <1>6, <1>7, <1>8, <1>9, <1>10 DEF SyncNext, SyncUser

(* The protocol implements the log of intents: whatever is lost, late or    *)
(* repeated, every intent is decided once, in the order of the user and     *)
(* after what it depends on, the phone is told what was decided, and is     *)
(* asked to try again only while nothing was.                               *)
THEOREM IntentsAreALog == SyncSpec => IntentsInOrder
BY LogInit, LogStep, SyncInvariant, PTL DEF SyncSpec, IntentsInOrder, Log!Spec

=============================================================================
