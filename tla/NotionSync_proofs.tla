------------------------- MODULE NotionSync_proofs -------------------------
(***************************************************************************)
(* Proofs, for any targets, pages, requests and edits, of the safety of    *)
(* the Notion sync: the types, that what the user left or deleted stays    *)
(* so, and that an undisturbed bidirectional sync keeps what was written   *)
(* in Notion.                                                              *)
(***************************************************************************)
EXTENDS NotionSync, TLAPS

TextSeen == Text \cup {Mixed}

PageRow == [target : Target \cup {NoTarget}, text : TextSeen, named : BOOLEAN, archived : BOOLEAN]

MarkRow == [page : NotionPage \cup {NoPage}, seen : TextSeen, gone : BOOLEAN]

RequestRow ==
  [op : {"none", "push", "pull", "both", "restore", "confirm"},
   at : {"idle", "lookup", "reserve", "update", "create", "record", "query", "list", "pages",
         "into", "import", "push", "restore", "confirm"},
   target : Target \cup {NoTarget}, page : NotionPage \cup {NoPage}, text : TextSeen,
   sees : [NotionPage -> TextSeen \cup {Hidden}], named : SUBSET NotionPage,
   todo : SUBSET NotionPage, st : MarkRow, listed : BOOLEAN, handled : BOOLEAN]

(* A page is gone only when there was one.                                  *)
MarkOK(m) == m.gone => m.page # NoPage

(* What a request has found out where it is.                                *)
RequestOK(s) ==
  /\ s.at = "idle" => s = AtRest
  /\ s.at # "idle" => s.target \in Target
  /\ s.at \in {"reserve", "update", "record", "into", "import", "restore", "confirm"}
       => s.page # NoPage
  /\ s.at \in {"into", "import"} => s.sees[s.page] # Hidden
  /\ \A p \in s.todo : s.sees[p] # Hidden
  /\ MarkOK(s.st)

RequestsTyped == request \in [Request -> RequestRow] /\ \A r \in Request : RequestOK(request[r])

TablesTyped ==
  /\ local \in [state : {"absent", "live", "deleted"}, text : TextSeen]
  /\ remote \in [NotionPage -> PageRow]
  /\ bound \in Target \cup {NoTarget} /\ claim \in NotionPage \cup {NoPage}
  /\ mark \in [Target -> MarkRow] /\ \A t \in Target : MarkOK(mark[t])
  /\ suppressed \subseteq Target /\ tomb \in [Target -> NotionPage \cup {NoPage}]

HistoryTyped ==
  /\ latest \in Text /\ acts \in 0 .. MaxActs
  /\ left \subseteq Target /\ deletedWith \in NotionPage \cup {NoPage} /\ alone \subseteq Request

NotionTyped == TablesTyped /\ RequestsTyped /\ HistoryTyped

LEMMA Constants ==
  /\ NoPage \notin NotionPage /\ 1 \in NotionPage /\ Hidden \notin TextSeen
  /\ Text \subseteq TextSeen /\ Mixed \in TextSeen /\ 0 \in Text /\ 0 \in 0 .. MaxActs
  /\ \A n \in Text : n < MaxText => n + 1 \in Text
BY NotionAssumption DEF NoPage, NotionPage, Hidden, TextSeen, Text, Mixed

LEMMA ActsTyped == NotionTyped /\ Acts => acts' \in 0 .. MaxActs
BY NotionAssumption DEF Acts, NotionTyped, HistoryTyped

LEMMA NoMarkTyped == NoMark \in MarkRow /\ MarkOK(NoMark)
BY Constants DEF NoMark, MarkRow, MarkOK, TextSeen

LEMMA AtRestTyped == AtRest \in RequestRow /\ RequestOK(AtRest)
<1>1. NoneSeen \in [NotionPage -> TextSeen \cup {Hidden}]
  BY DEF NoneSeen
<1>2. AtRest \in RequestRow
  BY <1>1, NoMarkTyped, Constants DEF AtRest, RequestRow
<1>3. RequestOK(AtRest)
  BY NoMarkTyped DEF AtRest, RequestOK
<1> QED BY <1>2, <1>3

(* A request moves alone.                                                   *)
LEMMA StepOnly ==
  ASSUME RequestsTyped, NEW r \in Request, NEW s, Step(r, s)
  PROVE  /\ request'[r] = s
         /\ \A q \in Request : q # r => request'[q] = request[q]
         /\ s \in RequestRow /\ RequestOK(s) => RequestsTyped'
<1>1. request'[r] = s /\ \A q \in Request : q # r => request'[q] = request[q]
  BY DEF RequestsTyped, Step
<1>2. ASSUME s \in RequestRow, RequestOK(s) PROVE RequestsTyped'
  <2>1. request' \in [Request -> RequestRow]
    BY <1>2 DEF RequestsTyped, Step
  <2>2. \A q \in Request : RequestOK(request'[q])
    BY <1>1, <1>2 DEF RequestsTyped
  <2> QED BY <2>1, <2>2 DEF RequestsTyped
<1> QED BY <1>1, <1>2

LEMMA RestTyped ==
  ASSUME RequestsTyped, NEW r \in Request, Rest(r) PROVE RequestsTyped' /\ request'[r] = AtRest
BY StepOnly, AtRestTyped DEF Rest

LEMMA InitTyped == NotionInit => NotionTyped
<1> SUFFICES ASSUME NotionInit PROVE NotionTyped
  OBVIOUS
<1>1. TablesTyped
  <2>1. local \in [state : {"absent", "live", "deleted"}, text : TextSeen]
    BY Constants DEF NotionInit
  <2>2. remote \in [NotionPage -> PageRow]
    <3>1. PICK t \in Target \cup {NoTarget} : remote = [p \in NotionPage |->
             [target |-> IF p = 1 THEN t ELSE NoTarget, text |-> 0, named |-> FALSE, archived |-> FALSE]]
      BY DEF NotionInit
    <3> QED BY <3>1, Constants DEF PageRow
  <2>3. mark \in [Target -> MarkRow] /\ \A t \in Target : MarkOK(mark[t])
    BY NoMarkTyped DEF NotionInit
  <2> QED BY <2>1, <2>2, <2>3 DEF NotionInit, TablesTyped
<1>2. RequestsTyped
  BY AtRestTyped DEF NotionInit, RequestsTyped
<1>3. HistoryTyped
  BY Constants DEF NotionInit, HistoryTyped
<1> QED BY <1>1, <1>2, <1>3 DEF NotionTyped

(* What anything names as a page of a target is one.                        *)
Aimed(pages, s) ==
  /\ s.page # NoPage => pages[s.page].target = s.target
  /\ s.st.page # NoPage => pages[s.st.page].target = s.target
  /\ \A p \in NotionPage : s.sees[p] # Hidden => pages[p].target = s.target

Pages ==
  /\ claim # NoPage => bound # NoTarget /\ remote[claim].target = bound
  /\ \A t \in Target : mark[t].page # NoPage => remote[mark[t].page].target = t
  /\ \A r \in Request : Aimed(remote, request[r])

----------------------------------------------------------------------------
(* The users and Notion *)

LEMMA EditLocalTyped == NotionTyped /\ EditLocal => NotionTyped'
<1> SUFFICES ASSUME NotionTyped, EditLocal PROVE NotionTyped'
  OBVIOUS
<1>1. latest' \in Text
  BY Constants DEF EditLocal, NotionTyped, HistoryTyped
<1>2. local' \in [state : {"absent", "live", "deleted"}, text : TextSeen]
  BY <1>1, Constants DEF EditLocal, NotionTyped, TablesTyped
<1>3. TablesTyped' /\ RequestsTyped'
  BY <1>2 DEF EditLocal, NotionTyped, TablesTyped, RequestsTyped
<1>4. HistoryTyped'
  BY <1>1, ActsTyped DEF EditLocal, Disturbs, NotionTyped, HistoryTyped
<1> QED BY <1>3, <1>4 DEF NotionTyped

LEMMA BindToTyped == ASSUME NotionTyped, Pages, NEW t \in Target, BindTo(t) PROVE NotionTyped'
<1>1. tomb' \in [Target -> NotionPage \cup {NoPage}] /\ claim' \in NotionPage \cup {NoPage}
  BY DEF BindTo, NotionTyped, TablesTyped
<1>2. TablesTyped' /\ RequestsTyped'
  BY <1>1 DEF BindTo, NotionTyped, TablesTyped, RequestsTyped
<1>3. claim # NoPage => bound \in Target
  BY DEF Pages, NotionTyped, TablesTyped
<1>4. left' \subseteq Target
  BY <1>3 DEF BindTo, NotionTyped, HistoryTyped
<1>5. HistoryTyped'
  BY <1>4, ActsTyped DEF BindTo, Forgets, Disturbs, NotionTyped, HistoryTyped
<1> QED BY <1>2, <1>5 DEF NotionTyped

LEMMA UnbindTyped == NotionTyped /\ Unbind => NotionTyped'
<1> SUFFICES ASSUME NotionTyped, Unbind PROVE NotionTyped'
  OBVIOUS
<1>1. bound \in Target
  BY DEF Unbind, NotionTyped, TablesTyped
<1>2. tomb' \in [Target -> NotionPage \cup {NoPage}] /\ claim' \in NotionPage \cup {NoPage}
  BY DEF Unbind, NotionTyped, TablesTyped
<1>3. TablesTyped' /\ RequestsTyped'
  BY <1>1, <1>2 DEF Unbind, NotionTyped, TablesTyped, RequestsTyped
<1>4. HistoryTyped'
  BY <1>1, ActsTyped DEF Unbind, Forgets, Disturbs, NotionTyped, HistoryTyped
<1> QED BY <1>3, <1>4 DEF NotionTyped

LEMMA DeleteLocalTyped == NotionTyped /\ DeleteLocal => NotionTyped'
<1> SUFFICES ASSUME NotionTyped, DeleteLocal PROVE NotionTyped'
  OBVIOUS
<1>1. tomb' \in [Target -> NotionPage \cup {NoPage}]
  BY DEF DeleteLocal, NotionTyped, TablesTyped
<1>2. local' \in [state : {"absent", "live", "deleted"}, text : TextSeen]
  BY Constants DEF DeleteLocal
<1>3. TablesTyped' /\ RequestsTyped'
  BY <1>1, <1>2 DEF DeleteLocal, NotionTyped, TablesTyped, RequestsTyped
<1>4. HistoryTyped'
  BY ActsTyped DEF DeleteLocal, Disturbs, NotionTyped, HistoryTyped, TablesTyped
<1> QED BY <1>3, <1>4 DEF NotionTyped

LEMMA DeleteFromPhoneTyped == NotionTyped /\ DeleteFromPhone => NotionTyped'
<1> SUFFICES ASSUME NotionTyped, DeleteFromPhone PROVE NotionTyped'
  OBVIOUS
<1>1. local' \in [state : {"absent", "live", "deleted"}, text : TextSeen]
  BY Constants DEF DeleteFromPhone
<1>2. TablesTyped' /\ RequestsTyped'
  BY <1>1 DEF DeleteFromPhone, NotionTyped, TablesTyped, RequestsTyped
<1>3. HistoryTyped'
  BY ActsTyped DEF DeleteFromPhone, Disturbs, NotionTyped, HistoryTyped
<1> QED BY <1>2, <1>3 DEF NotionTyped

LEMMA PurgeLocalTyped == NotionTyped /\ PurgeLocal => NotionTyped'
<1> SUFFICES ASSUME NotionTyped, PurgeLocal PROVE NotionTyped'
  OBVIOUS
<1>1. mark' \in [Target -> MarkRow] /\ \A t \in Target : MarkOK(mark'[t])
  BY NoMarkTyped DEF PurgeLocal
<1>2. local' \in [state : {"absent", "live", "deleted"}, text : TextSeen]
  BY Constants DEF PurgeLocal
<1>3. TablesTyped' /\ RequestsTyped'
  BY <1>1, <1>2 DEF PurgeLocal, NotionTyped, TablesTyped, RequestsTyped
<1>4. HistoryTyped'
  BY DEF PurgeLocal, Disturbs, NotionTyped, HistoryTyped, bounds
<1> QED BY <1>3, <1>4 DEF NotionTyped

LEMMA PageEditTyped ==
  ASSUME NotionTyped, NEW p \in NotionPage, EditPage(p) \/ ArchiveOrRestorePage(p) PROVE NotionTyped'
<1>1. latest' \in Text
  BY Constants DEF EditPage, ArchiveOrRestorePage, NotionTyped, HistoryTyped
<1>2. remote' \in [NotionPage -> PageRow]
  <2>1. CASE EditPage(p)
    <3>1. remote' = [remote EXCEPT ![p].text = latest'] /\ latest' \in TextSeen
      BY <1>1, <2>1, Constants DEF EditPage
    <3> QED BY <3>1 DEF NotionTyped, TablesTyped, PageRow
  <2>2. CASE ArchiveOrRestorePage(p)
    <3> DEFINE page == [remote[p] EXCEPT !.archived = ~remote[p].archived]
    <3>1. page \in PageRow
      BY DEF NotionTyped, TablesTyped, PageRow
    <3>2. remote' = [remote EXCEPT ![p] = page]
      BY <2>2 DEF ArchiveOrRestorePage
    <3> HIDE DEF page
    <3> QED BY <3>1, <3>2 DEF NotionTyped, TablesTyped
  <2> QED BY <2>1, <2>2
<1>3. UNCHANGED rows /\ UNCHANGED <<request, left, deletedWith>> /\ alone' = {} /\ Acts
  BY DEF EditPage, ArchiveOrRestorePage, Disturbs
<1>4. TablesTyped' /\ RequestsTyped'
  BY <1>2, <1>3 DEF rows, NotionTyped, TablesTyped, RequestsTyped
<1>5. HistoryTyped'
  BY <1>1, <1>3, ActsTyped DEF NotionTyped, HistoryTyped
<1> QED BY <1>4, <1>5 DEF NotionTyped

----------------------------------------------------------------------------
(* The requests *)

LEMMA RequestFacts ==
  ASSUME NotionTyped, NEW r \in Request
  PROVE  /\ request[r] \in RequestRow /\ RequestOK(request[r])
         /\ request[r].at # "idle" => Aim(r) \in Target
BY DEF NotionTyped, RequestsTyped, RequestOK, Aim

LEMMA GoesTyped ==
  ASSUME NotionTyped, NEW r \in Request PROVE Goes(r) => alone' \subseteq Request
BY DEF Goes, NotionTyped, HistoryTyped

LEMMA QuietTyped ==
  ASSUME NotionTyped, RequestsTyped', UNCHANGED rows, UNCHANGED <<remote, latest, left, deletedWith>>,
         acts' = acts \/ Acts, alone' \subseteq Request
  PROVE  NotionTyped'
<1>1. acts' \in 0 .. MaxActs
  BY ActsTyped DEF NotionTyped, HistoryTyped
<1>2. TablesTyped'
  BY DEF rows, NotionTyped, TablesTyped
<1>3. HistoryTyped'
  BY <1>1 DEF NotionTyped, HistoryTyped
<1> QED BY <1>2, <1>3 DEF NotionTyped

LEMMA AsksActs == \A r, op, t : Asks(r, op, t) => acts' = acts \/ Acts
BY DEF Asks

LEMMA BreaksTyped == ASSUME NotionTyped, NEW r \in Request, Breaks(r) PROVE NotionTyped'
<1>1. RequestsTyped'
  BY RestTyped DEF Breaks, NotionTyped
<1> QED BY <1>1, QuietTyped, GoesTyped DEF Breaks

(* What a push has loaded, before it calls Notion.                          *)
LEMMA LoadedTyped ==
  ASSUME NotionTyped, NEW r \in Request, NEW op \in {"push", "both"}, NEW t \in Target
  PROVE  /\ Loaded(r, op, t) \in RequestRow /\ RequestOK(Loaded(r, op, t))
         /\ Loaded(r, op, t).op = op /\ Loaded(r, op, t).target = t
         /\ Loaded(r, op, t).page = IF mark[t].page # NoPage THEN mark[t].page ELSE claim
         /\ Loaded(r, op, t).at = IF Loaded(r, op, t).page = NoPage THEN "lookup" ELSE "reserve"
         /\ Loaded(r, op, t).st = NoMark /\ Loaded(r, op, t).sees = NoneSeen
<1> DEFINE p == IF mark[t].page # NoPage THEN mark[t].page ELSE claim
<1>1. p \in NotionPage \cup {NoPage} /\ local.text \in TextSeen
  BY DEF NotionTyped, TablesTyped, MarkRow
<1>2. Loaded(r, op, t) = [AtRest EXCEPT !.op = op, !.target = t, !.page = p, !.text = local.text,
                                        !.at = IF p = NoPage THEN "lookup" ELSE "reserve"]
  BY DEF Loaded
<1> HIDE DEF p
<1>3. Loaded(r, op, t) \in RequestRow
  BY <1>1, <1>2, AtRestTyped DEF RequestRow
<1>4. /\ Loaded(r, op, t).op = op /\ Loaded(r, op, t).target = t /\ Loaded(r, op, t).page = p
      /\ Loaded(r, op, t).at = IF p = NoPage THEN "lookup" ELSE "reserve"
      /\ Loaded(r, op, t).st = AtRest.st /\ Loaded(r, op, t).sees = AtRest.sees
      /\ Loaded(r, op, t).todo = AtRest.todo
  BY <1>2, AtRestTyped DEF RequestRow
<1>5. AtRest.st = NoMark /\ AtRest.sees = NoneSeen /\ AtRest.todo = {}
  BY DEF AtRest
<1>6. RequestOK(Loaded(r, op, t))
  BY <1>4, <1>5, NoMarkTyped DEF RequestOK
<1> QED BY <1>3, <1>4, <1>5, <1>6 DEF p

LEMMA StartPushTyped == ASSUME NotionTyped, NEW r \in Request, StartPush(r) PROVE NotionTyped'
<1>1. bound \in Target
  BY DEF StartPush, NotionTyped, TablesTyped
<1>2. RequestsTyped'
  BY <1>1, LoadedTyped, StepOnly DEF StartPush, NotionTyped
<1>3. acts' = acts \/ Acts
  BY AsksActs DEF StartPush
<1> QED BY <1>2, <1>3, QuietTyped, GoesTyped DEF StartPush

(* A request that only moves keeps what it knows, ...                       *)
Steps == {"idle", "lookup", "reserve", "update", "create", "record", "query", "list", "pages",
          "into", "import", "push", "restore", "confirm"}

Knows(s, x) ==
  /\ s.op = x.op /\ s.target = x.target /\ s.text = x.text
  /\ s.sees = x.sees /\ s.named = x.named /\ s.st = x.st
  /\ s.listed = x.listed

Moved(x, at)     == [x EXCEPT !.at = at]
Turned(x, at, p) == [x EXCEPT !.at = at, !.page = p]

LEMMA MoveTyped ==
  ASSUME NEW x \in RequestRow, RequestOK(x), x.at # "idle", NEW at \in Steps \ {"idle"},
         at \in {"into", "import"} => x.page # NoPage /\ x.sees[x.page] # Hidden,
         at \in {"reserve", "update", "record", "restore", "confirm"} => x.page # NoPage
  PROVE  LET s == Moved(x, at)
         IN  /\ s \in RequestRow /\ RequestOK(s) /\ Knows(s, x)
             /\ s.at = at /\ s.page = x.page /\ s.todo = x.todo /\ s.handled = x.handled
<1> DEFINE s == Moved(x, at)
<1>1. /\ s \in RequestRow /\ Knows(s, x)
      /\ s.at = at /\ s.page = x.page /\ s.todo = x.todo /\ s.handled = x.handled
  BY DEF RequestRow, Knows, Steps, Moved, Turned
<1> HIDE DEF s
<1>2. RequestOK(s)
  BY <1>1 DEF RequestOK, Knows
<1> QED BY <1>1, <1>2 DEF s

(* ... and one that turns to a page the rest.                               *)
LEMMA TurnTyped ==
  ASSUME NEW x \in RequestRow, RequestOK(x), x.at # "idle", NEW at \in Steps \ {"idle"},
         NEW p \in NotionPage, at \in {"into", "import"} => x.sees[p] # Hidden
  PROVE  LET s == Turned(x, at, p)
         IN  /\ s \in RequestRow /\ RequestOK(s) /\ Knows(s, x)
             /\ s.at = at /\ s.page = p /\ s.todo = x.todo /\ s.handled = x.handled
<1> DEFINE s == Turned(x, at, p)
<1>1. /\ s \in RequestRow /\ Knows(s, x)
      /\ s.at = at /\ s.page = p /\ s.todo = x.todo /\ s.handled = x.handled
  BY DEF RequestRow, Knows, Steps, Moved, Turned
<1> HIDE DEF s
<1>2. RequestOK(s)
  BY <1>1, Constants DEF RequestOK, Knows
<1> QED BY <1>1, <1>2 DEF s

LEMMA StepNames ==
  /\ \A at \in {"create", "record", "reserve", "update", "list", "pages", "push"} :
       at \in Steps \ {"idle"} /\ at \notin {"into", "import"}
  /\ {"into", "import"} \subseteq Steps \ {"idle"}
BY DEF Steps

LEMMA LookupTyped ==
  ASSUME NotionTyped, NEW r \in Request, Lookup(r)
  PROVE  /\ NotionTyped' /\ Knows(request'[r], request[r])
         /\ \/ /\ request'[r].at = "create" /\ request'[r].page = request[r].page
               /\ \A p \in NotionPage : ~(Visible(p, Aim(r)) /\ remote[p].named)
            \/ /\ request'[r].at = "reserve" /\ request'[r].page \in NotionPage
               /\ Visible(request'[r].page, Aim(r)) /\ remote[request'[r].page].named
<1>1. request[r] \in RequestRow /\ RequestOK(request[r]) /\ request[r].at = "lookup"
  BY RequestFacts DEF Lookup, At
<1>2. CASE /\ Step(r, [request[r] EXCEPT !.at = "create"])
           /\ \A p \in NotionPage : ~(Visible(p, Aim(r)) /\ remote[p].named)
  <2> DEFINE s == Moved(request[r], "create")
  <2>2. /\ s \in RequestRow /\ RequestOK(s) /\ Knows(s, request[r])
        /\ s.at = "create" /\ s.page = request[r].page
    BY <1>1, MoveTyped, StepNames
  <2>3. Step(r, s)
    BY <1>2 DEF Moved
  <2> HIDE DEF s
  <2>1. /\ RequestsTyped' /\ Knows(request'[r], request[r])
        /\ request'[r].at = "create" /\ request'[r].page = request[r].page
    BY <2>2, <2>3, StepOnly DEF NotionTyped
  <2> QED BY <1>2, <2>1, QuietTyped, GoesTyped DEF Lookup, bounds
<1>3. ASSUME NEW p \in NotionPage, Visible(p, Aim(r)), remote[p].named,
             Step(r, [request[r] EXCEPT !.at = "reserve", !.page = p])
      PROVE  /\ NotionTyped' /\ request'[r].at = "reserve" /\ request'[r].page = p
             /\ Knows(request'[r], request[r])
  <2> DEFINE s == Turned(request[r], "reserve", p)
  <2>2. /\ s \in RequestRow /\ RequestOK(s) /\ Knows(s, request[r])
        /\ s.at = "reserve" /\ s.page = p
    BY <1>1, TurnTyped, StepNames
  <2>3. Step(r, s)
    BY <1>3 DEF Turned
  <2> HIDE DEF s
  <2>1. /\ RequestsTyped' /\ Knows(request'[r], request[r])
        /\ request'[r].at = "reserve" /\ request'[r].page = p
    BY <2>2, <2>3, StepOnly DEF NotionTyped
  <2> QED BY <2>1, QuietTyped, GoesTyped DEF Lookup, bounds
<1>4. \/ /\ Step(r, [request[r] EXCEPT !.at = "create"])
         /\ \A p \in NotionPage : ~(Visible(p, Aim(r)) /\ remote[p].named)
      \/ \E p \in NotionPage : /\ Visible(p, Aim(r)) /\ remote[p].named
                               /\ Step(r, [request[r] EXCEPT !.at = "reserve", !.page = p])
  BY DEF Lookup
<1> QED BY <1>2, <1>3, <1>4

LEMMA SyncedTyped ==
  ASSUME NEW p \in NotionPage \cup {NoPage}, NEW text \in TextSeen
  PROVE  Synced(p, text) \in MarkRow /\ MarkOK(Synced(p, text))
BY DEF Synced, MarkRow, MarkOK

(* What a request may write.                                                *)
LEMMA WritesTyped ==
  ASSUME NotionTyped, RequestsTyped', UNCHANGED <<suppressed, latest, left>>,
         local' \in [state : {"absent", "live", "deleted"}, text : TextSeen],
         remote' \in [NotionPage -> PageRow],
         bound' \in Target \cup {NoTarget}, claim' \in NotionPage \cup {NoPage},
         mark' \in [Target -> MarkRow], \A t \in Target : MarkOK(mark'[t]),
         tomb' \in [Target -> NotionPage \cup {NoPage}],
         deletedWith' \in NotionPage \cup {NoPage},
         acts' = acts \/ Acts, alone' \subseteq Request
  PROVE  NotionTyped'
<1>1. acts' \in 0 .. MaxActs
  BY ActsTyped DEF NotionTyped, HistoryTyped
<1>2. TablesTyped'
  BY DEF NotionTyped, TablesTyped
<1>3. HistoryTyped'
  BY <1>1 DEF NotionTyped, HistoryTyped
<1> QED BY <1>2, <1>3 DEF NotionTyped

LEMMA ReserveTyped ==
  ASSUME NotionTyped, NEW r \in Request, Reserve(r)
  PROVE  /\ NotionTyped'
         /\ \/ request'[r] = AtRest /\ claim' = claim
            \/ /\ bound = Aim(r) /\ claim' = request[r].page /\ claim' # NoPage
               /\ request'[r].at = "update" /\ request'[r].page = request[r].page
               /\ Knows(request'[r], request[r])
<1>1. request[r] \in RequestRow /\ RequestOK(request[r]) /\ request[r].at = "reserve"
  BY RequestFacts DEF Reserve, At
<1>2. /\ UNCHANGED <<local, bound, mark, suppressed, tomb, remote, latest, acts, left, deletedWith>>
      /\ alone' \subseteq Request
  BY GoesTyped DEF Reserve, bounds
<1>3. ASSUME RequestsTyped', claim' \in NotionPage \cup {NoPage} PROVE NotionTyped'
  BY <1>2, <1>3, WritesTyped DEF NotionTyped, TablesTyped, HistoryTyped
<1>4. CASE bound # Aim(r)
  <2>1. RequestsTyped' /\ request'[r] = AtRest /\ claim' = claim
    BY <1>4, RestTyped DEF Reserve, NotionTyped
  <2> QED BY <1>3, <2>1 DEF NotionTyped, TablesTyped
<1>5. CASE bound = Aim(r)
  <2> DEFINE s == Moved(request[r], "update")
  <2>1. request[r].page \in NotionPage /\ request[r].page # NoPage
    BY <1>1 DEF RequestRow, RequestOK
  <2>2. /\ s \in RequestRow /\ RequestOK(s) /\ Knows(s, request[r])
        /\ s.at = "update" /\ s.page = request[r].page
    BY <1>1, <2>1, MoveTyped, StepNames
  <2>3. Step(r, s) /\ claim' = request[r].page
    BY <1>5 DEF Reserve, Moved
  <2> HIDE DEF s
  <2>4. RequestsTyped' /\ request'[r] = s
    BY <2>2, <2>3, StepOnly DEF NotionTyped
  <2> QED BY <1>3, <1>5, <2>1, <2>2, <2>3, <2>4
<1> QED BY <1>4, <1>5

(* A page that is written keeps its target.                                 *)
LEMMA WrittenTyped ==
  ASSUME NotionTyped, NEW r \in Request, NEW text \in TextSeen, Written(r, text),
         request[r].page \in NotionPage
  PROVE  /\ remote' \in [NotionPage -> PageRow]
         /\ \A p \in NotionPage : /\ remote'[p].target = remote[p].target
                                  /\ remote[p].named => remote'[p].named
                                  /\ p # request[r].page => remote'[p] = remote[p]
         /\ remote'[request[r].page].named
<1> DEFINE p == request[r].page
           s == [target |-> remote[p].target, text |-> text, named |-> TRUE, archived |-> FALSE]
<1>1. s \in PageRow /\ s.target = remote[p].target /\ s.named
  BY DEF PageRow, NotionTyped, TablesTyped
<1>2. remote' = [remote EXCEPT ![p] = s]
  BY DEF Written
<1> HIDE DEF s, p
<1>3. p \in NotionPage
  BY DEF p
<1>4. remote'[p] = s /\ \A q \in NotionPage : q # p => remote'[q] = remote[q]
  BY <1>2, <1>3 DEF NotionTyped, TablesTyped
<1>5. remote' \in [NotionPage -> PageRow]
  BY <1>1, <1>2, <1>3 DEF NotionTyped, TablesTyped
<1> QED BY <1>1, <1>4, <1>5 DEF p

LEMMA UpdateTyped ==
  ASSUME NotionTyped, NEW r \in Request, Update(r)
  PROVE  /\ NotionTyped' /\ request[r].page \in NotionPage
         /\ \/ request'[r] = AtRest /\ remote' = remote
            \/ /\ request'[r].at = "record" /\ request'[r].page = request[r].page
               /\ Knows(request'[r], request[r]) /\ Written(r, request[r].text)
<1>1. request[r] \in RequestRow /\ RequestOK(request[r]) /\ request[r].at = "update"
  BY RequestFacts DEF Update, At
<1>2. request[r].page \in NotionPage /\ request[r].text \in TextSeen /\ request[r].page # NoPage
  BY <1>1 DEF RequestRow, RequestOK
<1>3. UNCHANGED rows /\ UNCHANGED <<latest, acts, left, deletedWith>> /\ alone' \subseteq Request
  BY GoesTyped DEF Update, bounds
<1>4. ASSUME RequestsTyped', remote' \in [NotionPage -> PageRow] PROVE NotionTyped'
  BY <1>3, <1>4, WritesTyped DEF NotionTyped, TablesTyped, HistoryTyped, rows
<1>5. CASE Rest(r) /\ UNCHANGED remote
  <2>1. RequestsTyped' /\ request'[r] = AtRest
    BY <1>5, RestTyped DEF NotionTyped
  <2> QED BY <1>2, <1>4, <1>5, <2>1 DEF NotionTyped, TablesTyped
<1>6. CASE Written(r, request[r].text) /\ Step(r, [request[r] EXCEPT !.at = "record"])
  <2> DEFINE s == Moved(request[r], "record")
  <2>1. /\ s \in RequestRow /\ RequestOK(s) /\ Knows(s, request[r])
        /\ s.at = "record" /\ s.page = request[r].page
    BY <1>1, <1>2, MoveTyped, StepNames
  <2>2. Step(r, s)
    BY <1>6 DEF Moved
  <2> HIDE DEF s
  <2>3. RequestsTyped' /\ request'[r] = s
    BY <2>1, <2>2, StepOnly DEF NotionTyped
  <2>4. remote' \in [NotionPage -> PageRow]
    BY <1>2, <1>6, WrittenTyped
  <2> QED BY <1>2, <1>4, <1>6, <2>1, <2>3, <2>4
<1> QED BY <1>5, <1>6 DEF Update

LEMMA UpdateHalfTyped ==
  ASSUME NotionTyped, NEW r \in Request, UpdateHalf(r)
  PROVE  NotionTyped' /\ request[r].page \in NotionPage /\ Written(r, Mixed) /\ request'[r] = AtRest
<1>1. request[r] \in RequestRow /\ RequestOK(request[r]) /\ request[r].at = "update"
  BY RequestFacts DEF UpdateHalf, At
<1>2. request[r].page \in NotionPage
  BY <1>1 DEF RequestRow, RequestOK
<1>3. RequestsTyped' /\ request'[r] = AtRest
  BY RestTyped DEF UpdateHalf, NotionTyped
<1>4. remote' \in [NotionPage -> PageRow]
  BY <1>2, WrittenTyped, Constants DEF UpdateHalf
<1>5. UNCHANGED rows /\ UNCHANGED <<latest, left, deletedWith>> /\ alone' \subseteq Request /\ Acts
  BY GoesTyped DEF UpdateHalf
<1>6. NotionTyped'
  BY <1>3, <1>4, <1>5, WritesTyped DEF NotionTyped, TablesTyped, HistoryTyped, rows
<1> QED BY <1>2, <1>3, <1>6 DEF UpdateHalf

LEMMA CreatePageTyped ==
  ASSUME NotionTyped, NEW r \in Request, CreatePage(r)
  PROVE  /\ NotionTyped'
         /\ \/ request'[r] = AtRest /\ remote' = remote
            \/ \E p \in NotionPage :
                 /\ remote[p].target = NoTarget
                 /\ request'[r].at = "record" /\ request'[r].page = p
                 /\ Knows(request'[r], request[r])
                 /\ \A q \in NotionPage : q # p => remote'[q] = remote[q]
                 /\ remote'[p].target = Aim(r) /\ remote'[p].named
<1>1. request[r] \in RequestRow /\ RequestOK(request[r]) /\ request[r].at = "create"
  BY RequestFacts DEF CreatePage, At
<1>2. request[r].text \in TextSeen /\ Aim(r) \in Target
  BY <1>1, RequestFacts DEF RequestRow
<1>3. UNCHANGED rows /\ UNCHANGED <<latest, acts, left, deletedWith>> /\ alone' \subseteq Request
  BY GoesTyped DEF CreatePage, bounds
<1>4. ASSUME RequestsTyped', remote' \in [NotionPage -> PageRow] PROVE NotionTyped'
  BY <1>3, <1>4, WritesTyped DEF NotionTyped, TablesTyped, HistoryTyped, rows
<1>5. CASE Rest(r) /\ UNCHANGED remote
  <2>1. RequestsTyped' /\ request'[r] = AtRest
    BY <1>5, RestTyped DEF NotionTyped
  <2> QED BY <1>4, <1>5, <2>1 DEF NotionTyped, TablesTyped
<1>6. ASSUME NEW p \in NotionPage, remote[p].target = NoTarget,
             remote' = [remote EXCEPT ![p] = [target |-> Aim(r), text |-> request[r].text,
                                              named |-> TRUE, archived |-> FALSE]],
             Step(r, [request[r] EXCEPT !.at = "record", !.page = p])
      PROVE  /\ NotionTyped' /\ request'[r].at = "record" /\ request'[r].page = p
             /\ Knows(request'[r], request[r])
             /\ \A q \in NotionPage : q # p => remote'[q] = remote[q]
             /\ remote'[p].target = Aim(r) /\ remote'[p].named
  <2> DEFINE s == Turned(request[r], "record", p)
             n == [target |-> Aim(r), text |-> request[r].text, named |-> TRUE, archived |-> FALSE]
  <2>1. s \in RequestRow /\ RequestOK(s) /\ Knows(s, request[r]) /\ s.at = "record" /\ s.page = p
    BY <1>1, TurnTyped, StepNames
  <2>2. Step(r, s) /\ remote' = [remote EXCEPT ![p] = n]
    BY <1>6 DEF Turned
  <2>3. n \in PageRow /\ n.target = Aim(r) /\ n.named
    BY <1>2 DEF PageRow
  <2> HIDE DEF s, n
  <2>4. RequestsTyped' /\ request'[r] = s
    BY <2>1, <2>2, StepOnly DEF NotionTyped
  <2>5. remote'[p] = n /\ \A q \in NotionPage : q # p => remote'[q] = remote[q]
    BY <2>2 DEF NotionTyped, TablesTyped
  <2>6. remote' \in [NotionPage -> PageRow]
    BY <2>2, <2>3 DEF NotionTyped, TablesTyped
  <2>7. NotionTyped'
    BY <1>4, <2>4, <2>6
  <2> QED BY <2>1, <2>3, <2>4, <2>5, <2>7
<1>7. \/ Rest(r) /\ UNCHANGED remote
      \/ \E p \in NotionPage :
           /\ remote[p].target = NoTarget
           /\ remote' = [remote EXCEPT ![p] = [target |-> Aim(r), text |-> request[r].text,
                                               named |-> TRUE, archived |-> FALSE]]
           /\ Step(r, [request[r] EXCEPT !.at = "record", !.page = p])
  BY DEF CreatePage
<1>8. CASE Rest(r) /\ UNCHANGED remote
  BY <1>5, <1>8
<1>9. CASE \E p \in NotionPage :
             /\ remote[p].target = NoTarget
             /\ remote' = [remote EXCEPT ![p] = [target |-> Aim(r), text |-> request[r].text,
                                                 named |-> TRUE, archived |-> FALSE]]
             /\ Step(r, [request[r] EXCEPT !.at = "record", !.page = p])
  <2>1. PICK p \in NotionPage :
             /\ remote[p].target = NoTarget
             /\ remote' = [remote EXCEPT ![p] = [target |-> Aim(r), text |-> request[r].text,
                                                 named |-> TRUE, archived |-> FALSE]]
             /\ Step(r, [request[r] EXCEPT !.at = "record", !.page = p])
    BY <1>9
  <2>2. /\ NotionTyped' /\ request'[r].at = "record" /\ request'[r].page = p
        /\ Knows(request'[r], request[r])
        /\ \A q \in NotionPage : q # p => remote'[q] = remote[q]
        /\ remote'[p].target = Aim(r) /\ remote'[p].named
    BY <2>1, <1>6
  <2> QED BY <2>1, <2>2
<1> QED BY <1>7, <1>8, <1>9

LEMMA RecordTyped ==
  ASSUME NotionTyped, NEW r \in Request, Record(r)
  PROVE  /\ NotionTyped' /\ request'[r] = AtRest
         /\ \/ UNCHANGED <<claim, mark>>
            \/ /\ bound = Aim(r) /\ Aim(r) \in Target /\ claim' = request[r].page
               /\ request[r].page \in NotionPage
               /\ mark' = [mark EXCEPT ![Aim(r)] = Synced(request[r].page, request[r].text)]
<1>1. request[r] \in RequestRow /\ RequestOK(request[r]) /\ request[r].at = "record"
  BY RequestFacts DEF Record, At
<1>2. /\ request[r].page \in NotionPage /\ request[r].text \in TextSeen /\ request[r].page # NoPage
      /\ Aim(r) \in Target
  BY <1>1, RequestFacts DEF RequestRow, RequestOK
<1>3. /\ UNCHANGED <<local, bound, suppressed, tomb, remote, latest, acts, left, deletedWith>>
      /\ alone' \subseteq Request
  BY GoesTyped DEF Record, bounds
<1>4. RequestsTyped' /\ request'[r] = AtRest
  BY RestTyped DEF Record, NotionTyped
<1>5. \/ UNCHANGED <<claim, mark>>
      \/ /\ bound = Aim(r) /\ claim' = request[r].page
         /\ mark' = [mark EXCEPT ![Aim(r)] = Synced(request[r].page, request[r].text)]
  BY DEF Record
<1>6. /\ claim' \in NotionPage \cup {NoPage}
      /\ mark' \in [Target -> MarkRow] /\ \A t \in Target : MarkOK(mark'[t])
  <2> DEFINE m == Synced(request[r].page, request[r].text)
  <2>1. m \in MarkRow /\ MarkOK(m)
    BY <1>2, SyncedTyped
  <2> HIDE DEF m
  <2> QED BY <1>2, <1>5, <2>1 DEF NotionTyped, TablesTyped, m
<1>7. NotionTyped'
  BY <1>3, <1>4, <1>6, WritesTyped DEF NotionTyped, TablesTyped, HistoryTyped
<1> QED BY <1>2, <1>4, <1>5, <1>7

(* A pull begins with nothing known.                                        *)
LEMMA StartPullTyped ==
  ASSUME NotionTyped, NEW r \in Request, NEW op \in {"pull", "both"}, NEW t \in Target,
         StartPull(r, op, t)
  PROVE  /\ NotionTyped'
         /\ request'[r].op = op /\ request'[r].target = t /\ request'[r].at = "query"
         /\ request'[r].page = NoPage /\ request'[r].st = NoMark /\ request'[r].sees = NoneSeen
         /\ ~request'[r].listed /\ ~request'[r].handled
<1> DEFINE s == [AtRest EXCEPT !.op = op, !.target = t, !.at = "query"]
<1>1. /\ s \in RequestRow /\ s.op = op /\ s.target = t /\ s.at = "query"
      /\ s.page = AtRest.page /\ s.st = AtRest.st /\ s.sees = AtRest.sees /\ s.todo = AtRest.todo
      /\ s.listed = AtRest.listed /\ s.handled = AtRest.handled
  BY AtRestTyped DEF RequestRow
<1>2. /\ AtRest.page = NoPage /\ AtRest.st = NoMark /\ AtRest.sees = NoneSeen /\ AtRest.todo = {}
      /\ ~AtRest.listed /\ ~AtRest.handled
  BY DEF AtRest
<1>3. Step(r, s) /\ (acts' = acts \/ Acts) /\ alone' \subseteq Request
      /\ UNCHANGED rows /\ UNCHANGED <<remote, latest, left, deletedWith>>
  BY AsksActs DEF StartPull, NotionTyped, HistoryTyped
<1> HIDE DEF s
<1>4. RequestOK(s)
  BY <1>1, <1>2, NoMarkTyped DEF RequestOK
<1>5. RequestsTyped' /\ request'[r] = s
  BY <1>1, <1>3, <1>4, StepOnly DEF NotionTyped
<1>6. NotionTyped'
  BY <1>3, <1>5, QuietTyped
<1> QED BY <1>1, <1>2, <1>5, <1>6 DEF s

LEMMA QueryTyped ==
  ASSUME NotionTyped, NEW r \in Request, Query(r)
  PROVE  /\ NotionTyped'
         /\ request'[r].at = "list" /\ request'[r].op = request[r].op
         /\ request'[r].target = request[r].target /\ request'[r].page = request[r].page
         /\ request'[r].st = request[r].st /\ request'[r].handled = request[r].handled
         /\ request'[r].listed = request[r].listed
         /\ request'[r].sees = [p \in NotionPage |-> IF Visible(p, Aim(r)) THEN remote[p].text
                                                                          ELSE Hidden]
         /\ request'[r].named = {p \in NotionPage : Visible(p, Aim(r)) /\ remote[p].named}
         /\ request'[r].todo = {p \in NotionPage : Visible(p, Aim(r))}
<1> DEFINE found == {p \in NotionPage : Visible(p, Aim(r))}
           seen  == [p \in NotionPage |-> IF p \in found THEN remote[p].text ELSE Hidden]
           ids   == {p \in found : remote[p].named}
           x     == request[r]
           s     == [x EXCEPT !.at = "list", !.todo = found, !.sees = seen, !.named = ids]
<1>1. x \in RequestRow /\ RequestOK(x) /\ x.at = "query"
  BY RequestFacts DEF Query, At
<1>2. seen \in [NotionPage -> TextSeen \cup {Hidden}]
  BY DEF NotionTyped, TablesTyped, PageRow
<1>3. found \in SUBSET NotionPage /\ ids \in SUBSET NotionPage
  OBVIOUS
<1>4. \A p \in found : seen[p] # Hidden
  BY Constants DEF NotionTyped, TablesTyped, PageRow
<1>5. /\ Step(r, s) /\ alone' \subseteq Request
      /\ UNCHANGED rows /\ UNCHANGED <<remote, latest, acts, left, deletedWith>>
  BY GoesTyped DEF Query, bounds
<1>6. /\ seen = [p \in NotionPage |-> IF Visible(p, Aim(r)) THEN remote[p].text ELSE Hidden]
      /\ ids = {p \in NotionPage : Visible(p, Aim(r)) /\ remote[p].named}
      /\ found = {p \in NotionPage : Visible(p, Aim(r))}
  OBVIOUS
<1> HIDE DEF seen, ids, found, x
<1>7. /\ s \in RequestRow /\ s.at = "list" /\ s.op = x.op /\ s.target = x.target
      /\ s.page = x.page /\ s.st = x.st /\ s.handled = x.handled /\ s.listed = x.listed
      /\ s.sees = seen /\ s.named = ids /\ s.todo = found
  BY <1>1, <1>2, <1>3 DEF RequestRow
<1> HIDE DEF s
<1>8. RequestOK(s)
  BY <1>1, <1>4, <1>7 DEF RequestOK
<1>9. RequestsTyped' /\ request'[r] = s
  BY <1>5, <1>7, <1>8, StepOnly DEF NotionTyped
<1>10. NotionTyped'
  BY <1>5, <1>9, QuietTyped
<1> QED BY <1>6, <1>7, <1>9, <1>10 DEF x

LEMMA ListRowsTyped ==
  ASSUME NotionTyped, NEW r \in Request, ListRows(r)
  PROVE  /\ NotionTyped'
         /\ request'[r].at = "pages" /\ request'[r].op = request[r].op
         /\ request'[r].target = request[r].target /\ request'[r].page = request[r].page
         /\ request'[r].sees = request[r].sees /\ request'[r].named = request[r].named
         /\ request'[r].todo = request[r].todo /\ request'[r].handled = request[r].handled
         /\ request'[r].st = mark[Aim(r)] /\ request'[r].listed = IsLive
<1> DEFINE x == request[r]
           m == mark[Aim(r)]
           s == [x EXCEPT !.at = "pages", !.st = m, !.listed = IsLive]
<1>1. x \in RequestRow /\ RequestOK(x) /\ x.at = "list" /\ Aim(r) \in Target
  BY RequestFacts DEF ListRows, At
<1>2. m \in MarkRow /\ MarkOK(m) /\ IsLive \in BOOLEAN
  BY <1>1 DEF NotionTyped, TablesTyped, IsLive
<1>3. /\ Step(r, s) /\ alone' \subseteq Request
      /\ UNCHANGED rows /\ UNCHANGED <<remote, latest, acts, left, deletedWith>>
  BY GoesTyped DEF ListRows, bounds
<1> HIDE DEF m, x
<1>4. /\ s \in RequestRow /\ s.at = "pages" /\ s.op = x.op /\ s.target = x.target
      /\ s.page = x.page /\ s.sees = x.sees /\ s.named = x.named /\ s.todo = x.todo
      /\ s.handled = x.handled /\ s.st = m /\ s.listed = IsLive
  BY <1>1, <1>2 DEF RequestRow
<1> HIDE DEF s
<1>5. RequestOK(s)
  BY <1>1, <1>2, <1>4 DEF RequestOK
<1>6. RequestsTyped' /\ request'[r] = s
  BY <1>3, <1>4, <1>5, StepOnly DEF NotionTyped
<1>7. NotionTyped'
  BY <1>3, <1>6, QuietTyped
<1> QED BY <1>4, <1>6, <1>7 DEF x, m

Passed(x, p) == [x EXCEPT !.todo = @ \ {p}]

LEMMA PassTyped ==
  ASSUME NEW x \in RequestRow, RequestOK(x), x.at = "pages", NEW p \in x.todo
  PROVE  LET s == Passed(x, p)
         IN  /\ s \in RequestRow /\ RequestOK(s) /\ Knows(s, x)
             /\ s.at = "pages" /\ s.page = x.page /\ s.todo = x.todo \ {p} /\ s.handled = x.handled
<1> DEFINE s == Passed(x, p)
<1>1. /\ s \in RequestRow /\ Knows(s, x)
      /\ s.at = "pages" /\ s.page = x.page /\ s.todo = x.todo \ {p} /\ s.handled = x.handled
  BY DEF RequestRow, Knows, Passed
<1> HIDE DEF s
<1>2. RequestOK(s)
  BY <1>1 DEF RequestOK, Knows
<1> QED BY <1>1, <1>2 DEF s

(* A page is passed over, or on its way to a transaction.                   *)
LEMMA CheckPageTyped ==
  ASSUME NotionTyped, NEW r \in Request, NEW p \in NotionPage, CheckPage(r, p)
  PROVE  /\ NotionTyped' /\ Knows(request'[r], request[r]) /\ request'[r].handled = request[r].handled
         /\ p \in request[r].todo /\ request'[r].todo = request[r].todo \ {p}
         /\ request[r].sees[p] # Hidden /\ request[r].at = "pages"
         /\ \/ /\ request'[r].at = "pages" /\ request'[r].page = request[r].page
               /\ Blocked(r, p) \/ (HasNote(r, p) /\ ~Changed(r, p))
            \/ /\ request'[r].at = "import" /\ request'[r].page = p
               /\ ~Blocked(r, p) /\ ~HasNote(r, p)
            \/ /\ request'[r].at = "into" /\ request'[r].page = p
               /\ ~Blocked(r, p) /\ HasNote(r, p)
<1> DEFINE x == request[r]
           y == Passed(x, p)
<1>1. x \in RequestRow /\ RequestOK(x) /\ x.at = "pages" /\ p \in x.todo
  BY RequestFacts DEF CheckPage, At
<1>2. x.sees[p] # Hidden
  BY <1>1 DEF RequestOK
<1>3. /\ y \in RequestRow /\ RequestOK(y) /\ Knows(y, x)
      /\ y.at = "pages" /\ y.page = x.page /\ y.todo = x.todo \ {p} /\ y.handled = x.handled
  BY <1>1, PassTyped
<1>4. \/ Step(r, y) /\ (Blocked(r, p) \/ (HasNote(r, p) /\ ~Changed(r, p)))
      \/ Step(r, Turned(y, "import", p)) /\ ~Blocked(r, p) /\ ~HasNote(r, p)
      \/ Step(r, Turned(y, "into", p)) /\ ~Blocked(r, p) /\ HasNote(r, p)
  <2>1. Step(r, IF Blocked(r, p) THEN y
                ELSE IF ~HasNote(r, p) THEN Turned(y, "import", p)
                ELSE IF Changed(r, p) THEN Turned(y, "into", p) ELSE y)
    BY DEF CheckPage, Passed, Turned
  <2> HIDE DEF y
  <2> QED BY <2>1
<1>5. UNCHANGED rows /\ UNCHANGED <<remote, latest, acts, left, deletedWith>> /\ alone' \subseteq Request
  BY GoesTyped DEF CheckPage, bounds
<1>6. x = request[r]
  OBVIOUS
<1> HIDE DEF x, y
<1>7. CASE Step(r, y) /\ (Blocked(r, p) \/ (HasNote(r, p) /\ ~Changed(r, p)))
  <2>1. RequestsTyped' /\ request'[r] = y
    BY <1>3, <1>7, StepOnly DEF NotionTyped
  <2>2. NotionTyped'
    BY <1>5, <2>1, QuietTyped
  <2> QED BY <1>1, <1>2, <1>3, <1>6, <1>7, <2>1, <2>2
<1>8. ASSUME NEW at \in {"import", "into"}, Step(r, Turned(y, at, p))
      PROVE  /\ NotionTyped' /\ Knows(request'[r], y) /\ request'[r].at = at /\ request'[r].page = p
             /\ request'[r].todo = y.todo /\ request'[r].handled = y.handled
  <2> DEFINE s == Turned(y, at, p)
  <2>1. y.sees[p] # Hidden /\ y.at # "idle" /\ at \in Steps \ {"idle"}
    BY <1>2, <1>3, StepNames DEF Knows
  <2>2. /\ s \in RequestRow /\ RequestOK(s) /\ Knows(s, y)
        /\ s.at = at /\ s.page = p /\ s.todo = y.todo /\ s.handled = y.handled
    BY <1>3, <2>1, TurnTyped
  <2> HIDE DEF s
  <2>3. Step(r, s)
    BY <1>8 DEF s
  <2>4. RequestsTyped' /\ request'[r] = s
    BY <2>2, <2>3, StepOnly DEF NotionTyped
  <2>5. NotionTyped'
    BY <1>5, <2>4, QuietTyped
  <2> QED BY <2>2, <2>4, <2>5
<1>9. CASE Step(r, Turned(y, "import", p)) /\ ~Blocked(r, p) /\ ~HasNote(r, p)
  <2>1. /\ NotionTyped' /\ Knows(request'[r], y) /\ request'[r].at = "import" /\ request'[r].page = p
        /\ request'[r].todo = y.todo /\ request'[r].handled = y.handled
    BY <1>8, <1>9
  <2> QED BY <1>1, <1>2, <1>3, <1>6, <1>9, <2>1 DEF Knows
<1>10. CASE Step(r, Turned(y, "into", p)) /\ ~Blocked(r, p) /\ HasNote(r, p)
  <2>1. /\ NotionTyped' /\ Knows(request'[r], y) /\ request'[r].at = "into" /\ request'[r].page = p
        /\ request'[r].todo = y.todo /\ request'[r].handled = y.handled
    BY <1>8, <1>10
  <2> QED BY <1>1, <1>2, <1>3, <1>6, <1>10, <2>1 DEF Knows
<1> QED BY <1>4, <1>7, <1>9, <1>10

HandledPage(x) == [x EXCEPT !.at = "pages", !.handled = TRUE]

LEMMA HandledTyped ==
  ASSUME NEW x \in RequestRow, RequestOK(x), x.at \in {"into", "import"}
  PROVE  LET s == HandledPage(x)
         IN  /\ s \in RequestRow /\ RequestOK(s) /\ Knows(s, x)
             /\ s.at = "pages" /\ s.page = x.page /\ s.todo = x.todo /\ s.handled
<1> DEFINE s == HandledPage(x)
<1>1. /\ s \in RequestRow /\ Knows(s, x)
      /\ s.at = "pages" /\ s.page = x.page /\ s.todo = x.todo /\ s.handled
  BY DEF RequestRow, Knows, HandledPage
<1> HIDE DEF s
<1>2. RequestOK(s)
  BY <1>1 DEF RequestOK, Knows
<1> QED BY <1>1, <1>2 DEF s

(* A transaction of a pull brings the page or changes nothing.              *)
LEMMA PulledTyped ==
  ASSUME NotionTyped, NEW r \in Request, PullInto(r) \/ ImportPage(r)
  PROVE  /\ NotionTyped' /\ Knows(request'[r], request[r])
         /\ request'[r].at = "pages" /\ request'[r].page = request[r].page
         /\ request'[r].todo = request[r].todo
         /\ request[r].page \in NotionPage /\ request[r].sees[request[r].page] \in TextSeen
         /\ Aim(r) \in Target
         /\ \/ /\ UNCHANGED <<local, bound, claim, mark>>
               /\ request'[r].handled = request[r].handled
               /\ ImportPage(r) => local.state # "absent"
               /\ PullInto(r) => ~(IsLive /\ PullMayBind(r))
            \/ /\ PullInto(r) => IsLive /\ PullMayBind(r)
               /\ ImportPage(r) => local.state = "absent"
               /\ local'.state = "live" /\ local'.text = request[r].sees[request[r].page]
               /\ bound' = Aim(r) /\ claim' = request[r].page
               /\ mark' = [mark EXCEPT ![Aim(r)] =
                             Synced(request[r].page, request[r].sees[request[r].page])]
               /\ request'[r].handled
<1> DEFINE x == request[r]
<1>1. x \in RequestRow /\ RequestOK(x) /\ x.at \in {"into", "import"} /\ x.at # "idle"
  BY RequestFacts DEF PullInto, ImportPage, At
<1>2. x.page \in NotionPage /\ x.page # NoPage /\ x.sees[x.page] \in TextSeen
  <2>1. x.page \in NotionPage /\ x.page # NoPage /\ x.sees[x.page] # Hidden
    BY <1>1 DEF RequestOK, RequestRow
  <2>2. x.sees[x.page] \in TextSeen \cup {Hidden}
    BY <1>1, <2>1 DEF RequestRow
  <2> QED BY <2>1, <2>2
<1>3. Aim(r) \in Target
  BY <1>1, RequestFacts
<1>4. /\ UNCHANGED <<suppressed, tomb, remote, latest, acts, left, deletedWith>>
      /\ alone' \subseteq Request
  BY GoesTyped DEF PullInto, ImportPage, bounds
<1>5. \/ /\ Refused(r)
         /\ ImportPage(r) => local.state # "absent"
         /\ PullInto(r) => ~(IsLive /\ PullMayBind(r))
      \/ /\ Brought(r, Aim(r), x.page)
         /\ PullInto(r) => IsLive /\ PullMayBind(r)
         /\ ImportPage(r) => local.state = "absent"
  <2>1. CASE PullInto(r)
    <3>1. ~ImportPage(r)
      BY <2>1 DEF PullInto, ImportPage, At
    <3> QED BY <2>1, <3>1 DEF PullInto
  <2>2. CASE ImportPage(r)
    <3>1. ~PullInto(r)
      BY <2>2 DEF PullInto, ImportPage, At
    <3> QED BY <2>2, <3>1 DEF ImportPage
  <2> QED BY <2>1, <2>2
<1>6. CASE /\ Refused(r)
           /\ ImportPage(r) => local.state # "absent"
           /\ PullInto(r) => ~(IsLive /\ PullMayBind(r))
  <2> DEFINE s == Moved(x, "pages")
  <2>1. /\ s \in RequestRow /\ RequestOK(s) /\ Knows(s, x) /\ s.at = "pages"
        /\ s.page = x.page /\ s.todo = x.todo /\ s.handled = x.handled
    BY <1>1, MoveTyped, StepNames
  <2>2. Step(r, s) /\ UNCHANGED <<local, bound, claim, mark>>
    BY <1>6 DEF Refused, Moved
  <2> HIDE DEF s
  <2>3. RequestsTyped' /\ request'[r] = s
    BY <2>1, <2>2, StepOnly DEF NotionTyped
  <2>4. NotionTyped'
    BY <1>4, <2>2, <2>3, WritesTyped DEF NotionTyped, TablesTyped, HistoryTyped
  <2> QED BY <1>2, <1>3, <1>6, <2>1, <2>2, <2>3, <2>4
<1>7. CASE /\ Brought(r, Aim(r), x.page)
           /\ PullInto(r) => IsLive /\ PullMayBind(r)
           /\ ImportPage(r) => local.state = "absent"
  <2> DEFINE s == HandledPage(x)
             m == Synced(x.page, x.sees[x.page])
  <2>1. /\ s \in RequestRow /\ RequestOK(s) /\ Knows(s, x) /\ s.at = "pages"
        /\ s.page = x.page /\ s.todo = x.todo /\ s.handled
    BY <1>1, HandledTyped
  <2>2. /\ Step(r, s) /\ local' = [state |-> "live", text |-> x.sees[x.page]]
        /\ bound' = Aim(r) /\ claim' = x.page /\ mark' = [mark EXCEPT ![Aim(r)] = m]
    BY <1>7 DEF Brought, HandledPage
  <2>3. m \in MarkRow /\ MarkOK(m)
    BY <1>2, SyncedTyped
  <2>4. m = Synced(x.page, x.sees[x.page])
    OBVIOUS
  <2> HIDE DEF s, m
  <2>5. RequestsTyped' /\ request'[r] = s
    BY <2>1, <2>2, StepOnly DEF NotionTyped
  <2>6. /\ mark' \in [Target -> MarkRow] /\ \A t \in Target : MarkOK(mark'[t])
    BY <1>3, <2>2, <2>3 DEF NotionTyped, TablesTyped
  <2>7. local' \in [state : {"absent", "live", "deleted"}, text : TextSeen]
    BY <1>2, <2>2
  <2>8. NotionTyped'
    BY <1>2, <1>3, <1>4, <2>2, <2>5, <2>6, <2>7, WritesTyped DEF NotionTyped, TablesTyped, HistoryTyped
  <2>9. local'.state = "live" /\ local'.text = x.sees[x.page]
    BY <2>2
  <2> QED BY <1>2, <1>3, <1>7, <2>1, <2>2, <2>4, <2>5, <2>8, <2>9
<1> QED BY <1>5, <1>6, <1>7

LEMMA SweepTyped ==
  ASSUME NotionTyped, NEW r \in Request, Sweep(r)
  PROVE  /\ NotionTyped' /\ Aim(r) \in Target /\ request[r].at = "pages" /\ request[r].todo = {}
         /\ mark' = IF Missing(r) THEN [mark EXCEPT ![Aim(r)] = [request[r].st EXCEPT !.gone = TRUE]]
                                  ELSE mark
         /\ Missing(r) => /\ mark'[Aim(r)].page = request[r].st.page
                          /\ request[r].st.page \in NotionPage
                          /\ \A t \in Target : t # Aim(r) => mark'[t] = mark[t]
         /\ \/ request'[r] = AtRest
            \/ /\ request[r].op = "both" /\ request'[r].op = "both" /\ request'[r].at = "push"
               /\ request'[r].target = request[r].target /\ request'[r].page = NoPage
               /\ request'[r].st = NoMark /\ request'[r].sees = NoneSeen
<1> DEFINE x == request[r]
           m == [x.st EXCEPT !.gone = TRUE]
           s == [AtRest EXCEPT !.op = "both", !.target = Aim(r), !.at = "push"]
<1>1. x \in RequestRow /\ RequestOK(x) /\ x.at = "pages" /\ Aim(r) \in Target /\ x.todo = {}
  BY RequestFacts DEF Sweep, At
<1>2. Missing(r) => m \in MarkRow /\ MarkOK(m) /\ m.page = x.st.page /\ m.page \in NotionPage
  <2>1. x.st \in MarkRow
    BY <1>1 DEF RequestRow
  <2>2. Missing(r) => x.st.page # NoPage
    BY DEF Missing
  <2>3. m \in MarkRow /\ m.page = x.st.page
    BY <2>1 DEF MarkRow
  <2>4. Missing(r) => m.page \in NotionPage /\ m.page # NoPage
    BY <2>2, <2>3 DEF MarkRow
  <2> QED BY <2>3, <2>4 DEF MarkOK
<1>3. /\ UNCHANGED <<local, bound, claim, suppressed, tomb, remote, latest, acts, left, deletedWith>>
      /\ alone' \subseteq Request
      /\ mark' = IF Missing(r) THEN [mark EXCEPT ![Aim(r)] = m] ELSE mark
  BY GoesTyped DEF Sweep, bounds
<1>4. Rest(r) \/ (request[r].op = "both" /\ Step(r, s))
  BY DEF Sweep
<1>5. /\ s \in RequestRow /\ s.op = "both" /\ s.target = Aim(r) /\ s.at = "push"
      /\ s.page = AtRest.page /\ s.st = AtRest.st /\ s.sees = AtRest.sees /\ s.todo = AtRest.todo
  BY <1>1, AtRestTyped DEF RequestRow
<1>6. AtRest.page = NoPage /\ AtRest.st = NoMark /\ AtRest.sees = NoneSeen /\ AtRest.todo = {}
  BY DEF AtRest
<1>7. m = [x.st EXCEPT !.gone = TRUE]
  OBVIOUS
<1> HIDE DEF m, s
<1>8. /\ mark' \in [Target -> MarkRow] /\ \A t \in Target : MarkOK(mark'[t])
      /\ Missing(r) => mark'[Aim(r)] = m /\ \A t \in Target : t # Aim(r) => mark'[t] = mark[t]
  BY <1>1, <1>2, <1>3 DEF NotionTyped, TablesTyped
<1>9. RequestOK(s)
  BY <1>1, <1>5, <1>6, NoMarkTyped DEF RequestOK
<1>10. RequestsTyped' /\ (request'[r] = AtRest \/ (request[r].op = "both" /\ request'[r] = s))
  BY <1>4, <1>5, <1>9, RestTyped, StepOnly DEF NotionTyped
<1>11. NotionTyped'
  BY <1>3, <1>8, <1>10, WritesTyped DEF NotionTyped, TablesTyped, HistoryTyped
<1>12. Missing(r) => /\ mark'[Aim(r)].page = request[r].st.page
                     /\ request[r].st.page \in NotionPage
                     /\ \A t \in Target : t # Aim(r) => mark'[t] = mark[t]
  BY <1>2, <1>8
<1>13. \/ request'[r] = AtRest
       \/ /\ request[r].op = "both" /\ request'[r].op = "both" /\ request'[r].at = "push"
          /\ request'[r].target = request[r].target /\ request'[r].page = NoPage
          /\ request'[r].st = NoMark /\ request'[r].sees = NoneSeen
  BY <1>5, <1>6, <1>10 DEF Aim
<1> QED BY <1>1, <1>3, <1>7, <1>11, <1>12, <1>13

LEMMA PushAfterPullTyped ==
  ASSUME NotionTyped, NEW r \in Request, PushAfterPull(r)
  PROVE  /\ NotionTyped'
         /\ \/ request'[r] = AtRest
            \/ /\ bound = Aim(r) /\ IsLive /\ Aim(r) \in Target
               /\ request'[r] = Loaded(r, "both", Aim(r))
<1>1. Aim(r) \in Target
  BY RequestFacts DEF PushAfterPull, At
<1>2. Rest(r) \/ (bound = Aim(r) /\ IsLive /\ Step(r, Loaded(r, "both", Aim(r))))
  BY DEF PushAfterPull
<1>3. /\ RequestsTyped'
      /\ \/ request'[r] = AtRest
         \/ bound = Aim(r) /\ IsLive /\ request'[r] = Loaded(r, "both", Aim(r))
  BY <1>1, <1>2, RestTyped, LoadedTyped, StepOnly DEF NotionTyped
<1>4. NotionTyped'
  BY <1>3, QuietTyped, GoesTyped DEF PushAfterPull, bounds
<1> QED BY <1>1, <1>3, <1>4

(* The requests that decide about a page that is gone begin with its state. *)
LEMMA StartGoneTyped ==
  ASSUME NotionTyped, NEW r \in Request, NEW t \in Target, StartRestore(r, t) \/ StartConfirm(r, t)
  PROVE  /\ NotionTyped' /\ request'[r].target = t
         /\ request'[r].page = mark[t].page /\ request'[r].page \in NotionPage
         /\ request'[r].st = NoMark /\ request'[r].sees = NoneSeen
         /\ \/ StartRestore(r, t) /\ request'[r].at = "restore" /\ request'[r].op = "restore"
            \/ StartConfirm(r, t) /\ request'[r].at = "confirm" /\ request'[r].op = "confirm"
<1>1. mark[t].page \in NotionPage /\ mark[t].page # NoPage /\ local.text \in TextSeen
  <2>1. mark[t].gone
    BY DEF StartRestore, StartConfirm
  <2> QED BY <2>1 DEF NotionTyped, TablesTyped, MarkRow, MarkOK
<1>2. AtRest.st = NoMark /\ AtRest.sees = NoneSeen /\ AtRest.todo = {}
  BY DEF AtRest
<1>3. UNCHANGED rows /\ UNCHANGED <<remote, latest, left, deletedWith>> /\ alone' \subseteq Request
  BY GoesTyped DEF StartRestore, StartConfirm
<1>4. acts' = acts \/ Acts
  BY AsksActs DEF StartRestore, StartConfirm
<1>5. CASE StartRestore(r, t)
  <2> DEFINE s == [AtRest EXCEPT !.op = "restore", !.at = "restore", !.target = t,
                                 !.page = mark[t].page, !.text = local.text]
  <2>1. /\ s \in RequestRow /\ s.op = "restore" /\ s.at = "restore" /\ s.target = t
        /\ s.page = mark[t].page /\ s.st = AtRest.st /\ s.sees = AtRest.sees /\ s.todo = AtRest.todo
    BY <1>1, AtRestTyped DEF RequestRow
  <2>2. Step(r, s)
    BY <1>5 DEF StartRestore
  <2> HIDE DEF s
  <2>3. RequestOK(s)
    BY <1>1, <1>2, <2>1, NoMarkTyped DEF RequestOK
  <2>4. RequestsTyped' /\ request'[r] = s
    BY <2>1, <2>2, <2>3, StepOnly DEF NotionTyped
  <2>5. NotionTyped'
    BY <1>3, <1>4, <2>4, QuietTyped
  <2> QED BY <1>1, <1>2, <1>5, <2>1, <2>4, <2>5
<1>6. CASE StartConfirm(r, t)
  <2> DEFINE s == [AtRest EXCEPT !.op = "confirm", !.at = "confirm", !.target = t,
                                 !.page = mark[t].page]
  <2>1. /\ s \in RequestRow /\ s.op = "confirm" /\ s.at = "confirm" /\ s.target = t
        /\ s.page = mark[t].page /\ s.st = AtRest.st /\ s.sees = AtRest.sees /\ s.todo = AtRest.todo
    BY <1>1, AtRestTyped DEF RequestRow
  <2>2. Step(r, s)
    BY <1>6 DEF StartConfirm
  <2> HIDE DEF s
  <2>3. RequestOK(s)
    BY <1>1, <1>2, <2>1, NoMarkTyped DEF RequestOK
  <2>4. RequestsTyped' /\ request'[r] = s
    BY <2>1, <2>2, <2>3, StepOnly DEF NotionTyped
  <2>5. NotionTyped'
    BY <1>3, <1>4, <2>4, QuietTyped
  <2> QED BY <1>1, <1>2, <1>6, <2>1, <2>4, <2>5
<1> QED BY <1>5, <1>6

LEMMA RestorePageTyped ==
  ASSUME NotionTyped, NEW r \in Request, RestorePage(r)
  PROVE  /\ NotionTyped' /\ request[r].page \in NotionPage
         /\ Knows(request'[r], request[r])
         /\ request'[r].at = "update" /\ request'[r].page = request[r].page
         /\ \A p \in NotionPage : /\ remote'[p].target = remote[p].target
                                  /\ remote'[p].named = remote[p].named
                                  /\ p # request[r].page => remote'[p] = remote[p]
<1> DEFINE s == Moved(request[r], "update")
           p == request[r].page
<1>1. request[r] \in RequestRow /\ RequestOK(request[r]) /\ request[r].at = "restore"
  BY RequestFacts DEF RestorePage, At
<1>2. p \in NotionPage /\ p # NoPage
  BY <1>1 DEF RequestRow, RequestOK
<1>3. /\ s \in RequestRow /\ RequestOK(s) /\ Knows(s, request[r])
      /\ s.at = "update" /\ s.page = request[r].page
  BY <1>1, <1>2, MoveTyped, StepNames
<1>4. /\ Step(r, s) /\ remote' = [remote EXCEPT ![p].archived = FALSE] /\ alone' \subseteq Request
      /\ UNCHANGED rows /\ UNCHANGED <<latest, acts, left, deletedWith>>
  BY GoesTyped DEF RestorePage, Moved, bounds
<1>5. p = request[r].page
  OBVIOUS
<1> HIDE DEF s, p
<1>6. RequestsTyped' /\ request'[r] = s
  BY <1>3, <1>4, StepOnly DEF NotionTyped
<1>7. /\ remote' \in [NotionPage -> PageRow]
      /\ \A q \in NotionPage : /\ remote'[q].target = remote[q].target
                               /\ remote'[q].named = remote[q].named
                               /\ q # p => remote'[q] = remote[q]
  BY <1>2, <1>4 DEF NotionTyped, TablesTyped, PageRow
<1>8. NotionTyped'
  BY <1>4, <1>6, <1>7, WritesTyped DEF NotionTyped, TablesTyped, HistoryTyped, rows
<1> QED BY <1>2, <1>3, <1>5, <1>6, <1>7, <1>8

LEMMA ConfirmTyped ==
  ASSUME NotionTyped, Pages, NEW r \in Request, Confirm(r)
  PROVE  /\ NotionTyped' /\ request'[r] = AtRest /\ Aim(r) \in Target /\ request[r].page \in NotionPage
         /\ local'.state = "deleted"
         /\ claim # NoPage => bound \in Target
<1>1. request[r] \in RequestRow /\ RequestOK(request[r]) /\ request[r].at = "confirm"
  BY RequestFacts DEF Confirm, At
<1>2. request[r].page \in NotionPage /\ Aim(r) \in Target
  BY <1>1, RequestFacts DEF RequestRow, RequestOK
<1>3. claim # NoPage => bound \in Target
  BY DEF Pages, NotionTyped, TablesTyped
<1>4. /\ UNCHANGED <<bound, claim, suppressed, remote, latest, acts, left>> /\ alone' \subseteq Request
  BY GoesTyped DEF Confirm, bounds
<1>5. RequestsTyped' /\ request'[r] = AtRest
  BY RestTyped DEF Confirm, NotionTyped
<1>6. tomb' \in [Target -> NotionPage \cup {NoPage}]
  BY <1>2, <1>3 DEF Confirm, NotionTyped, TablesTyped
<1>7. mark' \in [Target -> MarkRow] /\ \A t \in Target : MarkOK(mark'[t])
  BY <1>2, NoMarkTyped DEF Confirm, NotionTyped, TablesTyped
<1>8. /\ local' \in [state : {"absent", "live", "deleted"}, text : TextSeen]
      /\ local'.state = "deleted"
  BY Constants DEF Confirm
<1>9. deletedWith' \in NotionPage \cup {NoPage}
  BY <1>2 DEF Confirm, NotionTyped, TablesTyped
<1>10. NotionTyped'
  BY <1>4, <1>5, <1>6, <1>7, <1>8, <1>9, WritesTyped DEF NotionTyped, TablesTyped, HistoryTyped
<1> QED BY <1>2, <1>3, <1>5, <1>8, <1>10

----------------------------------------------------------------------------
(* What anything names as a page of a target is one: targets of pages stay. *)

LEMMA OthersWait ==
  ASSUME NotionTyped, NEW r \in Request, RequestStart(r) \/ RequestStep(r) \/ Breaks(r) \/ UpdateHalf(r)
  PROVE  /\ \A q \in Request : q # r => request'[q] = request[q]
         /\ Goes(r) \/ \E t \in Target : StartPull(r, "both", t)
<1>1. ASSUME NEW s, Step(r, s) PROVE \A q \in Request : q # r => request'[q] = request[q]
  BY <1>1, StepOnly DEF NotionTyped
<1>2. CASE RequestStart(r)
  <2>1. CASE StartPush(r)
    BY <1>1, <2>1 DEF StartPush
  <2>2. CASE \E t \in Target, op \in {"pull", "both"} : StartPull(r, op, t)
    BY <1>1, <2>2 DEF StartPull, Goes
  <2>3. CASE \E t \in Target : StartRestore(r, t) \/ StartConfirm(r, t)
    BY <1>1, <2>3 DEF StartRestore, StartConfirm
  <2> QED BY <1>2, <2>1, <2>2, <2>3 DEF RequestStart
<1>3. CASE PushStep(r)
  <2>1. Goes(r)
    BY <1>3 DEF PushStep, Lookup, Reserve, Update, CreatePage, Record
  <2>2. \E s : Step(r, s)
    BY <1>3 DEF PushStep, Lookup, Reserve, Update, CreatePage, Record, Rest
  <2> QED BY <1>1, <2>1, <2>2
<1>4. CASE PullStep(r)
  <2>1. Goes(r)
    BY <1>4 DEF PullStep, Query, ListRows, CheckPage, PullInto, ImportPage, Sweep, PushAfterPull
  <2>2. CASE Query(r) \/ ListRows(r)
    BY <1>1, <2>1, <2>2 DEF Query, ListRows
  <2>3. CASE \E p \in NotionPage : CheckPage(r, p)
    BY <1>1, <2>1, <2>3 DEF CheckPage
  <2>4. CASE PullInto(r) \/ ImportPage(r)
    BY <1>1, <2>1, <2>4 DEF PullInto, ImportPage, Brought, Refused
  <2>5. CASE Sweep(r) \/ PushAfterPull(r)
    BY <1>1, <2>1, <2>5 DEF Sweep, PushAfterPull, Rest
  <2> QED BY <1>4, <2>2, <2>3, <2>4, <2>5 DEF PullStep
<1>5. CASE RestorePage(r) \/ Confirm(r) \/ Breaks(r) \/ UpdateHalf(r)
  BY <1>1, <1>5 DEF RestorePage, Confirm, Breaks, UpdateHalf, Rest
<1> QED BY <1>2, <1>3, <1>4, <1>5 DEF RequestStep

LEMMA AimedStays ==
  ASSUME NEW pages, NEW pages2, NEW s \in RequestRow, RequestOK(s), Aimed(pages, s),
         \A p \in NotionPage : pages[p].target # NoTarget => pages2[p].target = pages[p].target
  PROVE  Aimed(pages2, s)
<1>1. CASE s.at = "idle"
  BY <1>1 DEF RequestOK, AtRest, NoMark, NoneSeen, Aimed
<1>2. CASE s.at # "idle"
  <2>1. s.target # NoTarget /\ s.page \in NotionPage \cup {NoPage} /\ s.st.page \in NotionPage \cup {NoPage}
    BY <1>2, NotionAssumption DEF RequestOK, RequestRow, MarkRow
  <2> QED BY <2>1 DEF Aimed
<1> QED BY <1>1, <1>2

LEMMA AimedKnows ==
  ASSUME NEW pages, NEW s, NEW x, Knows(s, x), Aimed(pages, x),
         s.page = NoPage \/ s.page = x.page \/ pages[s.page].target = x.target
  PROVE  Aimed(pages, s)
BY DEF Knows, Aimed

LEMMA AimedAfresh ==
  ASSUME NEW pages, NEW s, s.st = NoMark, s.sees = NoneSeen,
         s.page = NoPage \/ pages[s.page].target = s.target
  PROVE  Aimed(pages, s)
BY DEF NoMark, NoneSeen, Aimed

LEMMA AimedAtRest == \A pages : Aimed(pages, AtRest)
BY DEF AtRest, NoMark, NoneSeen, Aimed

(* A request steps, and no page changes its target.                         *)
LEMMA PagesKept ==
  ASSUME NotionTyped, Pages, NEW r \in Request,
         \A q \in Request : q # r => request'[q] = request[q],
         \A p \in NotionPage : remote[p].target # NoTarget => remote'[p].target = remote[p].target,
         Aimed(remote', request'[r]),
         claim' # NoPage => bound' # NoTarget /\ remote'[claim'].target = bound',
         \A t \in Target : mark'[t].page # NoPage => remote'[mark'[t].page].target = t
  PROVE  Pages'
<1>1. \A q \in Request : q # r => Aimed(remote', request'[q])
  BY AimedStays DEF NotionTyped, RequestsTyped, Pages
<1> QED BY <1>1 DEF Pages

(* The rows that are left alone go on naming pages of their targets.        *)
LEMMA RowsAimed ==
  ASSUME NotionTyped, Pages,
         \A p \in NotionPage : remote[p].target # NoTarget => remote'[p].target = remote[p].target
  PROVE  /\ UNCHANGED <<bound, claim>> =>
              (claim' # NoPage => bound' # NoTarget /\ remote'[claim'].target = bound')
         /\ \A t \in Target : mark'[t] = mark[t] /\ mark'[t].page # NoPage
                                => remote'[mark'[t].page].target = t
<1>1. claim \in NotionPage \cup {NoPage} /\ \A t \in Target : mark[t].page \in NotionPage \cup {NoPage}
  BY DEF NotionTyped, TablesTyped, MarkRow
<1> QED BY <1>1, NotionAssumption DEF Pages

LEMMA InitPages == NotionInit => Pages
BY AimedAtRest DEF NotionInit, Pages, NoMark

LEMMA UserPages == NotionTyped /\ Pages /\ NotionUser => Pages'
<1> SUFFICES ASSUME NotionTyped, Pages, NotionUser PROVE Pages'
  OBVIOUS
<1> DEFINE Same == \A p \in NotionPage : remote'[p].target = remote[p].target
<1>1. ASSUME UNCHANGED request, Same,
             claim' # NoPage => bound' # NoTarget /\ remote'[claim'].target = bound',
             \A t \in Target : mark'[t].page # NoPage => remote'[mark'[t].page].target = t
      PROVE  Pages'
  <2>1. \A q \in Request : Aimed(remote', request'[q])
    BY <1>1, AimedStays DEF NotionTyped, RequestsTyped, Pages
  <2> QED BY <1>1, <2>1 DEF Pages
<1>2. CASE EditLocal \/ DeleteLocal \/ DeleteFromPhone
  <2>1. UNCHANGED <<claim, bound, mark, remote, request>>
    BY <1>2 DEF EditLocal, DeleteLocal, DeleteFromPhone
  <2> QED BY <2>1 DEF Pages
<1>3. ASSUME NEW t \in Target, BindTo(t) PROVE Pages'
  <2>1. /\ UNCHANGED <<mark, remote, request>>
        /\ claim' # NoPage => claim' = claim /\ bound' = bound
    BY <1>3 DEF BindTo
  <2> QED BY <2>1 DEF Pages
<1>4. CASE Unbind
  <2>1. claim' = NoPage /\ UNCHANGED <<mark, remote, request>>
    BY <1>4 DEF Unbind
  <2> QED BY <2>1 DEF Pages
<1>5. CASE PurgeLocal
  <2>1. /\ claim' = NoPage /\ UNCHANGED <<remote, request>>
        /\ \A t \in Target : mark'[t].page = NoPage
    BY <1>5 DEF PurgeLocal, NoMark
  <2> QED BY <2>1 DEF Pages
<1>6. ASSUME NEW p \in NotionPage, EditPage(p) \/ ArchiveOrRestorePage(p) PROVE Pages'
  <2>1. Same
    BY <1>6 DEF EditPage, ArchiveOrRestorePage, NotionTyped, TablesTyped, PageRow
  <2>2. UNCHANGED <<claim, bound, mark, request>>
    BY <1>6 DEF EditPage, ArchiveOrRestorePage, rows
  <2> HIDE DEF Same
  <2>3. claim' # NoPage => bound' # NoTarget /\ remote'[claim'].target = bound'
    BY <2>1, <2>2, RowsAimed DEF Same
  <2>4. \A t \in Target : mark'[t].page # NoPage => remote'[mark'[t].page].target = t
    BY <2>1, <2>2, RowsAimed DEF Same
  <2> QED BY <1>1, <2>1, <2>2, <2>3, <2>4
<1> QED BY <1>2, <1>3, <1>4, <1>5, <1>6 DEF NotionUser

LEMMA RequestPages ==
  ASSUME NotionTyped, Pages, NEW r \in Request,
         RequestStart(r) \/ RequestStep(r) \/ Breaks(r) \/ UpdateHalf(r)
  PROVE  Pages'
<1>1. \A q \in Request : q # r => request'[q] = request[q]
  BY OthersWait
<1>2. request[r] \in RequestRow /\ RequestOK(request[r]) /\ Aimed(remote, request[r])
  BY RequestFacts DEF Pages
<1> DEFINE Same == \A p \in NotionPage : remote'[p].target = remote[p].target
<1>3. ASSUME Same PROVE Aimed(remote', request[r])
  BY <1>2, <1>3, AimedStays
<1>4. ASSUME UNCHANGED <<bound, claim, mark>>, Same, Aimed(remote', request'[r]) PROVE Pages'
  <2>1. \A p \in NotionPage : remote[p].target # NoTarget => remote'[p].target = remote[p].target
    BY <1>4
  <2>2. claim' # NoPage => bound' # NoTarget /\ remote'[claim'].target = bound'
    BY <1>4, <2>1, RowsAimed
  <2>3. \A t \in Target : mark'[t].page # NoPage => remote'[mark'[t].page].target = t
    BY <1>4, <2>1, RowsAimed
  <2> QED BY <1>1, <1>4, <2>1, <2>2, <2>3, PagesKept
<1>5. CASE Breaks(r)
  <2>1. UNCHANGED <<bound, claim, mark, remote>> /\ request'[r] = AtRest
    BY <1>5, RestTyped DEF Breaks, rows, NotionTyped
  <2> QED BY <1>4, <2>1, AimedAtRest
<1>6. CASE StartPush(r)
  <2>1. /\ UNCHANGED <<bound, claim, mark, remote>> /\ bound \in Target
        /\ Step(r, Loaded(r, "push", bound))
    BY <1>6 DEF StartPush, rows, NotionTyped, TablesTyped
  <2>2. request'[r] = Loaded(r, "push", bound)
    BY <2>1, StepOnly DEF NotionTyped
  <2>3. Aimed(remote, request'[r])
    BY <2>1, <2>2, LoadedTyped, AimedAfresh DEF Pages
  <2> QED BY <1>4, <2>1, <2>3
<1>7. CASE Lookup(r)
  <2>1. UNCHANGED <<bound, claim, mark, remote>>
    BY <1>7 DEF Lookup, rows
  <2>2. Aimed(remote, request'[r])
    BY <1>2, <1>7, LookupTyped, AimedKnows DEF Visible, Aim
  <2> QED BY <1>4, <2>1, <2>2
<1>8. CASE Reserve(r)
  <2>1. UNCHANGED <<bound, mark, remote>>
    BY <1>8 DEF Reserve
  <2>2. \/ request'[r] = AtRest /\ claim' = claim
        \/ /\ bound = Aim(r) /\ claim' = request[r].page /\ claim' # NoPage
           /\ request'[r].page = request[r].page /\ Knows(request'[r], request[r])
    BY <1>8, ReserveTyped
  <2>3. Aimed(remote, request'[r])
    BY <1>2, <2>2, AimedKnows, AimedAtRest
  <2>4. request[r].at # "idle"
    BY <1>8 DEF Reserve, At
  <2>5. claim' # NoPage => bound # NoTarget /\ remote[claim'].target = bound
    BY <1>2, <2>2, <2>4, RequestFacts, NotionAssumption DEF Pages, Aimed, Aim
  <2> QED BY <1>1, <2>1, <2>3, <2>5, PagesKept DEF Pages
<1>9. CASE Update(r)
  <2>1. UNCHANGED <<bound, claim, mark>>
    BY <1>9 DEF Update, rows
  <2>2. Same
    BY <1>9, UpdateTyped, RequestFacts, WrittenTyped DEF RequestRow
  <2>3. Aimed(remote', request[r])
    BY <1>3, <2>2
  <2>4. Aimed(remote', request'[r])
    BY <1>9, <2>3, UpdateTyped, AimedKnows, AimedAtRest
  <2> QED BY <1>4, <2>1, <2>2, <2>4
<1>10. CASE UpdateHalf(r)
  <2>1. UNCHANGED <<bound, claim, mark>>
    BY <1>10 DEF UpdateHalf, rows
  <2>2. Same /\ request'[r] = AtRest
    BY <1>10, UpdateHalfTyped, WrittenTyped, Constants
  <2> QED BY <1>4, <2>1, <2>2, AimedAtRest
<1>11. CASE CreatePage(r)
  <2>1. UNCHANGED <<bound, claim, mark>> /\ request[r].at # "idle"
    BY <1>11 DEF CreatePage, rows, At
  <2>2. CASE request'[r] = AtRest /\ remote' = remote
    BY <1>4, <2>1, <2>2, AimedAtRest
  <2>3. CASE \E p \in NotionPage :
               /\ remote[p].target = NoTarget
               /\ request'[r].page = p /\ Knows(request'[r], request[r])
               /\ \A q \in NotionPage : q # p => remote'[q] = remote[q]
               /\ remote'[p].target = Aim(r)
    <3>1. \A p \in NotionPage : remote[p].target # NoTarget => remote'[p].target = remote[p].target
      BY <2>3
    <3>2. Aimed(remote', request[r])
      BY <1>2, <3>1, AimedStays
    <3>3. Aimed(remote', request'[r])
      BY <2>3, <3>2, AimedKnows DEF Aim
    <3>4. claim' # NoPage => bound' # NoTarget /\ remote'[claim'].target = bound'
      BY <2>1, <3>1, RowsAimed
    <3>5. \A t \in Target : mark'[t].page # NoPage => remote'[mark'[t].page].target = t
      BY <2>1, <3>1, RowsAimed
    <3> QED BY <1>1, <3>1, <3>3, <3>4, <3>5, PagesKept
  <2> QED BY <1>11, <2>2, <2>3, CreatePageTyped
<1>12. CASE Record(r)
  <2>1. UNCHANGED <<bound, remote>> /\ request'[r] = AtRest /\ request[r].at # "idle"
    BY <1>12, RecordTyped DEF Record, At
  <2>2. CASE UNCHANGED <<claim, mark>>
    BY <1>4, <2>1, <2>2, AimedAtRest
  <2>3. CASE /\ bound = Aim(r) /\ Aim(r) \in Target /\ claim' = request[r].page
             /\ request[r].page \in NotionPage
             /\ mark' = [mark EXCEPT ![Aim(r)] = Synced(request[r].page, request[r].text)]
    <3>1. remote[request[r].page].target = Aim(r)
      BY <1>2, <2>3, Constants DEF Aimed, Aim
    <3>2. claim' # NoPage => bound' # NoTarget /\ remote'[claim'].target = bound'
      BY <2>1, <2>3, <3>1, NotionAssumption
    <3>3. \A t \in Target : mark'[t].page # NoPage => remote'[mark'[t].page].target = t
      <4> SUFFICES ASSUME NEW t \in Target, mark'[t].page # NoPage
                   PROVE  remote[mark'[t].page].target = t
        BY <2>1
      <4>1. CASE t = Aim(r)
        BY <2>3, <3>1, <4>1 DEF Synced, NotionTyped, TablesTyped
      <4>2. CASE t # Aim(r)
        BY <2>3, <4>2 DEF NotionTyped, TablesTyped, Pages
      <4> QED BY <4>1, <4>2
    <3> QED BY <1>1, <2>1, <3>2, <3>3, AimedAtRest, PagesKept
  <2> QED BY <1>12, <2>2, <2>3, RecordTyped
<1>13. ASSUME NEW op \in {"pull", "both"}, NEW t \in Target, StartPull(r, op, t) PROVE Pages'
  <2>1. UNCHANGED <<bound, claim, mark, remote>>
    BY <1>13 DEF StartPull, rows
  <2>2. request'[r].page = NoPage /\ request'[r].st = NoMark /\ request'[r].sees = NoneSeen
    BY <1>13, StartPullTyped
  <2>3. Aimed(remote, request'[r])
    BY <2>2, AimedAfresh
  <2> QED BY <1>4, <2>1, <2>3
<1>14. CASE Query(r)
  <2>1. UNCHANGED <<bound, claim, mark, remote>>
    BY <1>14 DEF Query, rows
  <2>2. /\ request'[r].page = request[r].page /\ request'[r].st = request[r].st
        /\ request'[r].target = request[r].target
        /\ request'[r].sees = [p \in NotionPage |-> IF Visible(p, Aim(r)) THEN remote[p].text
                                                                         ELSE Hidden]
    BY <1>14, QueryTyped
  <2>3. \A p \in NotionPage : request'[r].sees[p] # Hidden => remote[p].target = Aim(r)
    BY <2>2 DEF Visible
  <2>4. Aimed(remote, request'[r])
    BY <1>2, <2>2, <2>3 DEF Aimed, Aim
  <2> QED BY <1>4, <2>1, <2>4
<1>15. CASE ListRows(r)
  <2>1. UNCHANGED <<bound, claim, mark, remote>> /\ request[r].at # "idle"
    BY <1>15 DEF ListRows, rows, At
  <2>2. /\ request'[r].page = request[r].page /\ request'[r].st = mark[Aim(r)]
        /\ request'[r].target = request[r].target /\ request'[r].sees = request[r].sees
    BY <1>15, ListRowsTyped
  <2>3. Aimed(remote, request'[r])
    BY <1>2, <2>1, <2>2, RequestFacts DEF Aimed, Aim, Pages
  <2> QED BY <1>4, <2>1, <2>3
<1>16. ASSUME NEW p \in NotionPage, CheckPage(r, p) PROVE Pages'
  <2>1. UNCHANGED <<bound, claim, mark, remote>>
    BY <1>16 DEF CheckPage, rows
  <2>2. remote[p].target = request[r].target
    BY <1>2, <1>16, CheckPageTyped DEF Aimed
  <2>3. Knows(request'[r], request[r]) /\ request'[r].page \in {request[r].page, p}
    BY <1>16, CheckPageTyped
  <2>4. Aimed(remote, request'[r])
    BY <1>2, <2>2, <2>3, AimedKnows
  <2> QED BY <1>4, <2>1, <2>4
<1>17. CASE PullInto(r) \/ ImportPage(r)
  <2>1. UNCHANGED remote
    BY <1>17 DEF PullInto, ImportPage
  <2>2. /\ Knows(request'[r], request[r]) /\ request'[r].page = request[r].page
        /\ request[r].page \in NotionPage /\ Aim(r) \in Target
    BY <1>17, PulledTyped
  <2>3. Aimed(remote, request'[r])
    BY <1>2, <2>2, AimedKnows
  <2>4. CASE UNCHANGED <<local, bound, claim, mark>>
    BY <1>4, <2>1, <2>3, <2>4
  <2>5. CASE /\ bound' = Aim(r) /\ claim' = request[r].page
             /\ mark' = [mark EXCEPT ![Aim(r)] =
                           Synced(request[r].page, request[r].sees[request[r].page])]
    <3>1. remote[request[r].page].target = Aim(r)
      BY <1>2, <2>2, Constants DEF Aimed, Aim
    <3>2. claim' # NoPage => bound' # NoTarget /\ remote'[claim'].target = bound'
      BY <2>1, <2>2, <2>5, <3>1, NotionAssumption
    <3>3. \A t \in Target : mark'[t].page # NoPage => remote'[mark'[t].page].target = t
      <4> SUFFICES ASSUME NEW t \in Target, mark'[t].page # NoPage
                   PROVE  remote[mark'[t].page].target = t
        BY <2>1
      <4>1. CASE t = Aim(r)
        BY <2>5, <3>1, <4>1 DEF Synced, NotionTyped, TablesTyped
      <4>2. CASE t # Aim(r)
        BY <2>5, <4>2 DEF NotionTyped, TablesTyped, Pages
      <4> QED BY <4>1, <4>2
    <3> QED BY <1>1, <2>1, <2>3, <3>2, <3>3, PagesKept
  <2> QED BY <1>17, <2>4, <2>5, PulledTyped
<1>18. CASE Sweep(r)
  <2>1. UNCHANGED <<bound, claim, remote>>
    BY <1>18 DEF Sweep
  <2>2. Aimed(remote, request'[r])
    BY <1>18, SweepTyped, AimedAtRest, AimedAfresh
  <2>3. claim' # NoPage => bound' # NoTarget /\ remote'[claim'].target = bound'
    BY <2>1 DEF Pages
  <2>4. \A t \in Target : mark'[t].page # NoPage => remote'[mark'[t].page].target = t
    <3>1. CASE Missing(r)
      <4>1. /\ mark'[Aim(r)].page = request[r].st.page /\ request[r].st.page \in NotionPage
            /\ \A t \in Target : t # Aim(r) => mark'[t] = mark[t]
        BY <1>18, <3>1, SweepTyped
      <4> QED BY <1>2, <2>1, <4>1, Constants DEF Aimed, Aim, Pages
    <3>2. CASE ~Missing(r)
      BY <1>18, <2>1, <3>2, SweepTyped DEF Pages
    <3> QED BY <3>1, <3>2
  <2> QED BY <1>1, <2>1, <2>2, <2>3, <2>4, PagesKept
<1>19. CASE PushAfterPull(r)
  <2>1. UNCHANGED <<bound, claim, mark, remote>>
    BY <1>19 DEF PushAfterPull, rows
  <2>2. CASE request'[r] = AtRest
    BY <1>4, <2>1, <2>2, AimedAtRest
  <2>3. CASE bound = Aim(r) /\ Aim(r) \in Target /\ request'[r] = Loaded(r, "both", Aim(r))
    <3>1. Aimed(remote, request'[r])
      BY <2>3, LoadedTyped, AimedAfresh DEF Pages
    <3> QED BY <1>4, <2>1, <3>1
  <2> QED BY <1>19, <2>2, <2>3, PushAfterPullTyped
<1>20. ASSUME NEW t \in Target, StartRestore(r, t) \/ StartConfirm(r, t) PROVE Pages'
  <2>1. UNCHANGED <<bound, claim, mark, remote>>
    BY <1>20 DEF StartRestore, StartConfirm, rows
  <2>2. /\ request'[r].target = t /\ request'[r].page = mark[t].page /\ mark[t].page \in NotionPage
        /\ request'[r].st = NoMark /\ request'[r].sees = NoneSeen
    BY <1>20, StartGoneTyped
  <2>3. Aimed(remote, request'[r])
    BY <2>2, AimedAfresh DEF Pages
  <2> QED BY <1>4, <2>1, <2>3
<1>21. CASE RestorePage(r)
  <2>1. UNCHANGED <<bound, claim, mark>>
    BY <1>21 DEF RestorePage, rows
  <2>2. Same
    BY <1>21, RestorePageTyped
  <2>3. Aimed(remote', request[r])
    BY <1>3, <2>2
  <2>4. Aimed(remote', request'[r])
    BY <1>21, <2>3, RestorePageTyped, AimedKnows
  <2> QED BY <1>4, <2>1, <2>2, <2>4
<1>22. CASE Confirm(r)
  <2>1. UNCHANGED <<bound, claim, remote>> /\ mark' = [mark EXCEPT ![Aim(r)] = NoMark]
    BY <1>22 DEF Confirm
  <2>2. request'[r] = AtRest /\ Aim(r) \in Target
    BY <1>22, ConfirmTyped
  <2>3. \A t \in Target : mark'[t].page # NoPage => remote'[mark'[t].page].target = t
    BY <2>1, <2>2 DEF NoMark, NotionTyped, TablesTyped, Pages
  <2> QED BY <1>1, <2>1, <2>2, <2>3, AimedAtRest, PagesKept DEF Pages
<1> QED BY <1>5, <1>6, <1>7, <1>8, <1>9, <1>10, <1>11, <1>12, <1>13, <1>14, <1>15, <1>16, <1>17,
           <1>18, <1>19, <1>20, <1>21, <1>22
        DEF RequestStart, RequestStep, PushStep, PullStep

----------------------------------------------------------------------------
(* Leaving.  A target that the user left for another one has a tombstone:   *)
(* of the page that its state and the requests on their way to it name, if  *)
(* they name one, so that none of them passes the check of the blockers.    *)

Behind(s, t, p) ==
  s.target = t => /\ s.st.page \in {NoPage, p}
                  /\ s.at # "into"
                  /\ s.at = "confirm" => s.page = p

Left ==
  /\ bound \notin left
  /\ local.state = "absent" => left = {}
  /\ \A t \in left \ suppressed :
       /\ tomb[t] # NoPage /\ mark[t].page \in {NoPage, tomb[t]}
       /\ \A r \in Request : Behind(request[r], t, tomb[t])

LEMMA InitLeft == NotionInit => Left
BY DEF NotionInit, Left

LEMMA UserLeft == NotionTyped /\ Pages /\ Left /\ NotionUser => Left'
<1> SUFFICES ASSUME NotionTyped, Pages, Left, NotionUser PROVE Left'
  OBVIOUS
<1>1. CASE EditLocal
  <2>1. /\ UNCHANGED <<bound, left, suppressed, tomb, mark, request>>
        /\ local'.state = "absent" => local.state = "absent"
    BY <1>1 DEF EditLocal, NotionTyped, TablesTyped
  <2> QED BY <2>1 DEF Left
<1>2. ASSUME NEW t \in Target, BindTo(t) PROVE Left'
  <2>1. /\ UNCHANGED <<local, mark, request>> /\ local.state # "absent" /\ bound' = t
        /\ suppressed' = suppressed \ {t} /\ t \notin left'
    BY <1>2 DEF BindTo, RowExists
  <2>2. ASSUME NEW u \in left' \ suppressed'
        PROVE  /\ tomb'[u] # NoPage /\ mark[u].page \in {NoPage, tomb'[u]}
               /\ \A r \in Request : Behind(request[r], u, tomb'[u])
    <3>1. u # t /\ u \notin suppressed
      BY <2>1, <2>2
    <3>2. CASE u \in left
      <4>1. u # bound /\ u \in Target
        BY <3>2 DEF Left, NotionTyped, HistoryTyped
      <4>2. tomb'[u] = tomb[u]
        BY <1>2, <3>1, <4>1 DEF BindTo
      <4> QED BY <3>1, <3>2, <4>2 DEF Left
    <3>3. CASE u \notin left
      <4>1. /\ u = bound /\ claim # NoPage /\ mark[bound].page \in {NoPage, claim}
            /\ \A r \in Request : request[r].target # bound
        BY <1>2, <2>2, <3>3 DEF BindTo
      <4>2. u \in Target /\ tomb'[u] = claim
        <5>1. u \in Target
          BY <4>1 DEF Pages, NotionTyped, TablesTyped
        <5> QED BY <1>2, <3>1, <4>1, <5>1 DEF BindTo
      <4> QED BY <4>1, <4>2 DEF Behind
    <3> QED BY <3>2, <3>3
  <2> QED BY <2>1, <2>2 DEF Left
<1>3. CASE Unbind
  <2>1. /\ UNCHANGED <<local, mark, request>> /\ local.state # "absent" /\ bound' = NoTarget
        /\ suppressed' = suppressed \cup {bound} /\ left' = left \cup {bound} /\ bound \in Target
        /\ \A u \in Target : u # bound => tomb'[u] = tomb[u]
    BY <1>3 DEF Unbind, RowExists, NotionTyped, TablesTyped
  <2>2. bound' \notin left'
    BY <2>1, NotionAssumption DEF NotionTyped, HistoryTyped
  <2>3. \A u \in left' \ suppressed' : u \in left \ suppressed /\ tomb'[u] = tomb[u]
    BY <2>1 DEF NotionTyped, HistoryTyped
  <2> QED BY <2>1, <2>2, <2>3 DEF Left
<1>4. CASE DeleteLocal
  <2>1. /\ UNCHANGED <<bound, left, suppressed, mark, request>> /\ local'.state = "deleted"
        /\ \A u \in left : tomb'[u] = tomb[u]
    BY <1>4 DEF DeleteLocal, Left, NotionTyped, TablesTyped, HistoryTyped
  <2> QED BY <2>1 DEF Left
<1>5. CASE PurgeLocal \/ DeleteFromPhone
  BY <1>5 DEF PurgeLocal, DeleteFromPhone, Left
<1>6. ASSUME NEW p \in NotionPage, EditPage(p) \/ ArchiveOrRestorePage(p) PROVE Left'
  <2>1. UNCHANGED <<bound, local, left, suppressed, tomb, mark, request>>
    BY <1>6 DEF EditPage, ArchiveOrRestorePage, rows
  <2> QED BY <2>1 DEF Left
<1> QED BY <1>1, <1>2, <1>3, <1>4, <1>5, <1>6 DEF NotionUser

(* A request writes of a target that was left only what stays behind.       *)
LEMMA LeftKept ==
  ASSUME Left, NEW r \in Request,
         \A q \in Request : q # r => request'[q] = request[q],
         UNCHANGED <<left, suppressed>>, bound' \notin left,
         local'.state = "absent" => local.state = "absent",
         \A t \in left \ suppressed :
           /\ tomb'[t] = tomb[t] /\ mark'[t].page \in {NoPage, tomb[t]}
           /\ Behind(request'[r], t, tomb[t])
  PROVE  Left'
<1>1. \A t \in left \ suppressed : \A q \in Request : Behind(request'[q], t, tomb[t])
  BY DEF Left
<1> QED BY <1>1 DEF Left

(* The check of the blockers stops a page of a target that was left.        *)
LEMMA NoneOfTheLeft ==
  ASSUME NotionTyped, Left, NEW r \in Request, NEW p \in NotionPage,
         ~Blocked(r, p), HasNote(r, p)
  PROVE  Aim(r) \notin left \ suppressed
<1> SUFFICES ASSUME Aim(r) \in left \ suppressed PROVE FALSE
  OBVIOUS
<1>1. tomb[Aim(r)] # NoPage /\ request[r].st.page \in {NoPage, tomb[Aim(r)]} /\ Aim(r) \in Target
  BY DEF Left, Behind, Aim, NotionTyped, HistoryTyped
<1>2. tomb[Aim(r)] # p /\ p \notin request[r].named
  BY <1>1 DEF Blocked, Tombstoned
<1>3. request[r].st.page = p
  BY <1>2 DEF HasNote, HasState
<1> QED BY <1>1, <1>2, <1>3, Constants

LEMMA BehindKnows ==
  ASSUME NEW s, NEW x, NEW t, NEW p, Knows(s, x), Behind(x, t, p), s.at \notin {"into", "confirm"}
  PROVE  Behind(s, t, p)
BY DEF Knows, Behind

LEMMA BehindAfresh ==
  ASSUME NEW s, NEW t \in Target, NEW p, s = AtRest \/ (s.st = NoMark /\ s.at \notin {"into", "confirm"})
  PROVE  Behind(s, t, p)
BY NotionAssumption DEF Behind, AtRest, NoMark

LEMMA RequestLeft ==
  ASSUME NotionTyped, Pages, Left, NEW r \in Request,
         RequestStart(r) \/ RequestStep(r) \/ Breaks(r) \/ UpdateHalf(r)
  PROVE  Left'
<1>1. \A q \in Request : q # r => request'[q] = request[q]
  BY OthersWait
<1>2. left \ suppressed \subseteq Target
  BY DEF NotionTyped, HistoryTyped
<1>3. ASSUME NEW t \in left \ suppressed
      PROVE  mark[t].page \in {NoPage, tomb[t]} /\ Behind(request[r], t, tomb[t])
  BY DEF Left
<1>4. ASSUME UNCHANGED <<left, suppressed, tomb, bound, local>>,
             \A t \in left \ suppressed : /\ mark'[t].page \in {NoPage, tomb[t]}
                                          /\ Behind(request'[r], t, tomb[t])
      PROVE  Left'
  BY <1>1, <1>4, LeftKept DEF Left
<1>5. ASSUME UNCHANGED left, UNCHANGED rows,
             \A t \in left \ suppressed : Behind(request'[r], t, tomb[t])
      PROVE  Left'
  BY <1>3, <1>4, <1>5 DEF rows
<1>6. ASSUME UNCHANGED left, UNCHANGED rows, Knows(request'[r], request[r]),
             request'[r].at \notin {"into", "confirm"}
      PROVE  Left'
  BY <1>3, <1>5, <1>6, BehindKnows
<1>7. ASSUME UNCHANGED left, UNCHANGED rows,
             request'[r] = AtRest \/ (request'[r].st = NoMark /\ request'[r].at \notin {"into", "confirm"})
      PROVE  Left'
  BY <1>2, <1>5, <1>7, BehindAfresh
<1>8. CASE Breaks(r) \/ UpdateHalf(r)
  <2>1. UNCHANGED left /\ UNCHANGED rows /\ request'[r] = AtRest
    BY <1>8, RestTyped DEF Breaks, UpdateHalf, NotionTyped
  <2> QED BY <1>7, <2>1
<1>9. CASE StartPush(r)
  <2>1. UNCHANGED left /\ UNCHANGED rows /\ bound \in Target /\ Step(r, Loaded(r, "push", bound))
    BY <1>9 DEF StartPush, NotionTyped, TablesTyped
  <2>2. request'[r] = Loaded(r, "push", bound)
    BY <2>1, StepOnly DEF NotionTyped
  <2>3. request'[r].st = NoMark /\ request'[r].at \notin {"into", "confirm"}
    BY <2>1, <2>2, LoadedTyped
  <2> QED BY <1>7, <2>1, <2>3
<1>10. ASSUME NEW op \in {"pull", "both"}, NEW t \in Target, StartPull(r, op, t) PROVE Left'
  <2>1. UNCHANGED left /\ UNCHANGED rows
    BY <1>10 DEF StartPull
  <2>2. request'[r].st = NoMark /\ request'[r].at = "query"
    BY <1>10, StartPullTyped
  <2> QED BY <1>7, <2>1, <2>2
<1>11. ASSUME NEW t \in Target, StartRestore(r, t) \/ StartConfirm(r, t) PROVE Left'
  <2>1. UNCHANGED left /\ UNCHANGED rows
    BY <1>11 DEF StartRestore, StartConfirm
  <2>2. /\ request'[r].target = t /\ request'[r].page = mark[t].page /\ mark[t].page \in NotionPage
        /\ request'[r].st = NoMark /\ request'[r].at \in {"restore", "confirm"}
    BY <1>11, StartGoneTyped
  <2>3. \A u \in left \ suppressed : Behind(request'[r], u, tomb[u])
    BY <1>3, <2>2, Constants DEF Behind, NoMark
  <2> QED BY <1>5, <2>1, <2>3
<1>12. CASE Lookup(r) \/ Update(r) \/ CreatePage(r) \/ RestorePage(r)
  <2>1. UNCHANGED left /\ UNCHANGED rows
    BY <1>12 DEF Lookup, Update, CreatePage, RestorePage
  <2>2. \/ request'[r] = AtRest
        \/ Knows(request'[r], request[r]) /\ request'[r].at \in {"create", "reserve", "record", "update"}
    BY <1>12, LookupTyped, UpdateTyped, CreatePageTyped, RestorePageTyped
  <2> QED BY <1>6, <1>7, <2>1, <2>2
<1>13. CASE Reserve(r)
  <2>1. UNCHANGED <<left, suppressed, tomb, bound, local, mark>>
    BY <1>13 DEF Reserve
  <2>2. \/ request'[r] = AtRest
        \/ Knows(request'[r], request[r]) /\ request'[r].at = "update"
    BY <1>13, ReserveTyped
  <2>3. \A t \in left \ suppressed : Behind(request'[r], t, tomb[t])
    BY <1>2, <1>3, <2>2, BehindKnows, BehindAfresh
  <2> QED BY <1>3, <1>4, <2>1, <2>3
<1>14. CASE Record(r)
  <2>1. UNCHANGED <<left, suppressed, tomb, bound, local>> /\ request'[r] = AtRest
    BY <1>14, RecordTyped DEF Record
  <2>2. \A t \in left : mark'[t] = mark[t]
    <3>1. CASE UNCHANGED <<claim, mark>>
      BY <3>1
    <3>2. CASE bound = Aim(r) /\ \E m : mark' = [mark EXCEPT ![Aim(r)] = m]
      BY <3>2 DEF Left, NotionTyped, TablesTyped, HistoryTyped
    <3> QED BY <1>14, <3>1, <3>2, RecordTyped
  <2>3. \A t \in left \ suppressed : Behind(request'[r], t, tomb[t])
    BY <1>2, <2>1, BehindAfresh
  <2> QED BY <1>3, <1>4, <2>1, <2>2, <2>3
<1>15. CASE Query(r)
  <2>1. UNCHANGED left /\ UNCHANGED rows
    BY <1>15 DEF Query
  <2>2. /\ request'[r].target = request[r].target /\ request'[r].st = request[r].st
        /\ request'[r].at = "list"
    BY <1>15, QueryTyped
  <2>3. \A t \in left \ suppressed : Behind(request'[r], t, tomb[t])
    BY <1>3, <2>2 DEF Behind
  <2> QED BY <1>5, <2>1, <2>3
<1>16. CASE ListRows(r)
  <2>1. UNCHANGED left /\ UNCHANGED rows
    BY <1>16 DEF ListRows
  <2>2. /\ request'[r].target = Aim(r) /\ request'[r].st = mark[Aim(r)]
        /\ request'[r].at = "pages"
    BY <1>16, ListRowsTyped DEF Aim
  <2>3. \A t \in left \ suppressed : Behind(request'[r], t, tomb[t])
    BY <1>3, <2>2 DEF Behind
  <2> QED BY <1>5, <2>1, <2>3
<1>17. ASSUME NEW p \in NotionPage, CheckPage(r, p) PROVE Left'
  <2>1. UNCHANGED left /\ UNCHANGED rows
    BY <1>17 DEF CheckPage
  <2>2. CASE Knows(request'[r], request[r]) /\ request'[r].at \in {"pages", "import"}
    BY <1>6, <2>1, <2>2
  <2>3. CASE Knows(request'[r], request[r]) /\ ~Blocked(r, p) /\ HasNote(r, p)
    <3>1. request'[r].target \notin left \ suppressed
      BY <2>3, NoneOfTheLeft DEF Knows, Aim
    <3>2. \A t \in left \ suppressed : Behind(request'[r], t, tomb[t])
      BY <3>1 DEF Behind
    <3> QED BY <1>5, <2>1, <3>2
  <2> QED BY <1>17, <2>2, <2>3, CheckPageTyped
<1>18. CASE PullInto(r) \/ ImportPage(r)
  <2>1. UNCHANGED <<left, suppressed, tomb>>
    BY <1>18 DEF PullInto, ImportPage
  <2>2. Knows(request'[r], request[r]) /\ request'[r].at = "pages" /\ Aim(r) \in Target
    BY <1>18, PulledTyped
  <2>3. \A t \in left \ suppressed : Behind(request'[r], t, tomb[t])
    BY <1>3, <2>2, BehindKnows
  <2>4. CASE UNCHANGED <<local, bound, claim, mark>>
    BY <1>3, <1>4, <2>1, <2>3, <2>4
  <2>5. CASE /\ PullInto(r) => IsLive /\ PullMayBind(r)
             /\ ImportPage(r) => local.state = "absent"
             /\ local'.state = "live" /\ bound' = Aim(r)
             /\ \E m : mark' = [mark EXCEPT ![Aim(r)] = m]
    <3>1. Aim(r) \notin left
      <4>1. CASE PullInto(r)
        <5>1. bound = Aim(r) \/ Aim(r) \notin suppressed
          BY <2>5, <4>1 DEF PullMayBind
        <5>2. Aim(r) \notin left \ suppressed
          <6>1. request[r].at = "into"
            BY <4>1 DEF PullInto, At
          <6> QED BY <1>3, <6>1 DEF Behind, Aim
        <5> QED BY <5>1, <5>2 DEF Left
      <4>2. CASE ImportPage(r)
        BY <2>5, <4>2 DEF Left
      <4> QED BY <1>18, <4>1, <4>2
    <3>2. \A t \in left \ suppressed : mark'[t].page \in {NoPage, tomb[t]}
      BY <1>2, <1>3, <2>5, <3>1 DEF NotionTyped, TablesTyped
    <3> QED BY <1>1, <2>1, <2>3, <2>5, <3>1, <3>2, LeftKept
  <2>6. \/ UNCHANGED <<local, bound, claim, mark>>
        \/ /\ PullInto(r) => IsLive /\ PullMayBind(r)
           /\ ImportPage(r) => local.state = "absent"
           /\ local'.state = "live" /\ bound' = Aim(r)
           /\ mark' = [mark EXCEPT ![Aim(r)] =
                         Synced(request[r].page, request[r].sees[request[r].page])]
    BY <1>18, PulledTyped
  <2> QED BY <2>4, <2>5, <2>6
<1>19. CASE Sweep(r)
  <2>1. UNCHANGED <<left, suppressed, tomb, bound, local>>
    BY <1>19 DEF Sweep
  <2>2. request'[r] = AtRest \/ (request'[r].st = NoMark /\ request'[r].at = "push")
    BY <1>19, SweepTyped
  <2>3. \A t \in left \ suppressed : Behind(request'[r], t, tomb[t])
    BY <1>2, <2>2, BehindAfresh
  <2>4. \A t \in left \ suppressed : mark'[t].page \in {NoPage, tomb[t]}
    <3>1. CASE Missing(r)
      <4>1. /\ mark'[Aim(r)].page = request[r].st.page
            /\ \A t \in Target : t # Aim(r) => mark'[t] = mark[t]
        BY <1>19, <3>1, SweepTyped
      <4> QED BY <1>2, <1>3, <4>1 DEF Behind, Aim
    <3>2. CASE ~Missing(r)
      BY <1>3, <1>19, <3>2, SweepTyped
    <3> QED BY <3>1, <3>2
  <2> QED BY <1>4, <2>1, <2>3, <2>4
<1>20. CASE PushAfterPull(r)
  <2>1. UNCHANGED left /\ UNCHANGED rows
    BY <1>20 DEF PushAfterPull
  <2>2. \/ request'[r] = AtRest
        \/ request'[r].st = NoMark /\ request'[r].at \notin {"into", "confirm"}
    BY <1>20, PushAfterPullTyped, LoadedTyped
  <2> QED BY <1>7, <2>1, <2>2
<1>21. CASE Confirm(r)
  <2>1. /\ UNCHANGED <<left, suppressed, bound>> /\ mark' = [mark EXCEPT ![Aim(r)] = NoMark]
        /\ request[r].at = "confirm"
        /\ tomb' = IF claim # NoPage THEN [tomb EXCEPT ![bound] = claim]
                   ELSE [tomb EXCEPT ![Aim(r)] = request[r].page]
    BY <1>21 DEF Confirm, At
  <2>2. request'[r] = AtRest /\ Aim(r) \in Target /\ local'.state = "deleted"
    BY <1>21, ConfirmTyped
  <2>3. \A t \in left \ suppressed : tomb'[t] = tomb[t]
    BY <1>2, <1>3, <2>1 DEF Behind, Aim, Left, NotionTyped, TablesTyped
  <2>4. \A t \in left \ suppressed : mark'[t].page \in {NoPage, tomb[t]}
    BY <1>2, <1>3, <2>1, <2>2 DEF NoMark, NotionTyped, TablesTyped
  <2>5. \A t \in left \ suppressed : Behind(request'[r], t, tomb[t])
    BY <1>2, <2>2, BehindAfresh
  <2> QED BY <1>1, <2>1, <2>2, <2>3, <2>4, <2>5, LeftKept DEF Left
<1> QED BY <1>8, <1>9, <1>10, <1>11, <1>12, <1>13, <1>14, <1>15, <1>16, <1>17, <1>18, <1>19, <1>20,
           <1>21
        DEF RequestStart, RequestStep, PushStep, PullStep

----------------------------------------------------------------------------
(* Deletion.  The page with which the note was deleted has a tombstone, and *)
(* once its row is gone only pulls are under way: they know the pages that  *)
(* carry its id, and import none that has a tombstone.                      *)

PageBuried ==
  ~IsLive /\ deletedWith # NoPage =>
    remote[deletedWith].target \in Target /\ tomb[remote[deletedWith].target] = deletedWith

Tombs == \A t \in Target : tomb[t] # NoPage => remote[tomb[t]].target = t

Free(s, tombs, pages) ==
  /\ s.at \in {"idle", "query", "list", "pages", "import"} /\ ~s.listed
  /\ s.at \in {"list", "pages", "import"} =>
       \A p \in NotionPage : s.sees[p] # Hidden /\ pages[p].named => p \in s.named
  /\ s.at = "import" =>
       /\ tombs[s.target] # s.page
       /\ s.page \in s.named => \A u \in Target : tombs[u] = NoPage

StaysDeleted ==
  /\ PageBuried /\ Tombs
  /\ local.state = "absent" => \A r \in Request : Free(request[r], tomb, remote)

LEMMA FreeAtRest == \A tombs, pages : Free(AtRest, tombs, pages)
BY DEF Free, AtRest

LEMMA InitDeleted == NotionInit => StaysDeleted
BY FreeAtRest DEF NotionInit, StaysDeleted, PageBuried, Tombs

(* A page keeps its target, whatever a request does.                        *)
LEMMA PagesStay ==
  ASSUME NotionTyped, NEW r \in Request,
         RequestStart(r) \/ RequestStep(r) \/ Breaks(r) \/ UpdateHalf(r)
  PROVE  \A p \in NotionPage : remote[p].target # NoTarget => remote'[p].target = remote[p].target
<1>1. CASE RequestStart(r) \/ PullStep(r) \/ Breaks(r)
  <2>1. UNCHANGED remote
    BY <1>1 DEF RequestStart, StartPush, StartPull, StartRestore, StartConfirm, Breaks, PullStep,
                Query, ListRows, CheckPage, PullInto, ImportPage, Sweep, PushAfterPull
  <2> QED BY <2>1
<1>2. CASE Lookup(r) \/ Reserve(r) \/ Record(r) \/ Confirm(r)
  <2>1. UNCHANGED remote
    BY <1>2 DEF Lookup, Reserve, Record, Confirm
  <2> QED BY <2>1
<1>3. CASE Update(r)
  BY <1>3, UpdateTyped, RequestFacts, WrittenTyped DEF RequestRow
<1>4. CASE UpdateHalf(r)
  BY <1>4, UpdateHalfTyped, WrittenTyped, Constants
<1>5. CASE CreatePage(r)
  BY <1>5, CreatePageTyped
<1>6. CASE RestorePage(r)
  BY <1>6, RestorePageTyped
<1> QED BY <1>1, <1>2, <1>3, <1>4, <1>5, <1>6 DEF RequestStep, PushStep

LEMMA BuriedKept ==
  ASSUME NotionTyped, PageBuried, local'.state = local.state, UNCHANGED <<tomb, deletedWith>>,
         \A p \in NotionPage : remote[p].target # NoTarget => remote'[p].target = remote[p].target
  PROVE  PageBuried'
<1>1. deletedWith # NoPage => deletedWith \in NotionPage
  BY DEF NotionTyped, HistoryTyped
<1> QED BY <1>1, NotionAssumption DEF PageBuried, IsLive

(* Every tombstone is of a page of its target: a claim is always of the      *)
(* bound one, and a decision on a page that is gone of the target decided on.*)
LEMMA TombsUser == NotionTyped /\ Pages /\ Tombs /\ NotionUser => Tombs'
<1> SUFFICES ASSUME NotionTyped, Pages, Tombs, NotionUser PROVE Tombs'
  OBVIOUS
<1>1. claim # NoPage => bound \in Target /\ remote[claim].target = bound
  BY DEF Pages, NotionTyped, TablesTyped
<1>2. tomb \in [Target -> NotionPage \cup {NoPage}]
  BY DEF NotionTyped, TablesTyped
<1>3. ASSUME NEW t \in Target, BindTo(t) PROVE Tombs'
  <2>1. \A u \in Target : tomb'[u] \in {NoPage, tomb[u]} \/ (tomb'[u] = claim /\ u = bound /\ claim # NoPage)
    BY <1>3 DEF BindTo
  <2>2. UNCHANGED remote
    BY <1>3 DEF BindTo
  <2> QED BY <1>1, <2>1, <2>2 DEF Tombs
<1>4. CASE Unbind \/ DeleteLocal
  <2>1. UNCHANGED remote /\ tomb' = IF claim # NoPage THEN [tomb EXCEPT ![bound] = claim] ELSE tomb
    BY <1>4 DEF Unbind, DeleteLocal
  <2> QED BY <1>1, <1>2, <2>1 DEF Tombs
<1>5. CASE EditLocal \/ DeleteFromPhone \/ PurgeLocal
  BY <1>5 DEF EditLocal, DeleteFromPhone, PurgeLocal, Tombs
<1>6. ASSUME NEW p \in NotionPage, EditPage(p) \/ ArchiveOrRestorePage(p) PROVE Tombs'
  <2>1. \A q \in NotionPage : remote'[q].target = remote[q].target
    BY <1>6 DEF EditPage, ArchiveOrRestorePage, NotionTyped, TablesTyped, PageRow
  <2>2. UNCHANGED tomb
    BY <1>6 DEF EditPage, ArchiveOrRestorePage, rows
  <2> QED BY <1>2, <2>1, <2>2 DEF Tombs
<1> QED BY <1>3, <1>4, <1>5, <1>6 DEF NotionUser

LEMMA OnlyConfirmBuries ==
  ASSUME NEW r \in Request, ~Confirm(r),
         RequestStart(r) \/ RequestStep(r) \/ Breaks(r) \/ UpdateHalf(r)
  PROVE  UNCHANGED <<tomb, deletedWith>>
<1>1. CASE RequestStart(r) \/ Breaks(r) \/ UpdateHalf(r)
  BY <1>1 DEF RequestStart, StartPush, StartPull, StartRestore, StartConfirm, Breaks, UpdateHalf, rows
<1>2. CASE PushStep(r) \/ RestorePage(r)
  BY <1>2 DEF PushStep, Lookup, Reserve, Update, CreatePage, Record, RestorePage, rows
<1>3. CASE PullStep(r)
  BY <1>3 DEF PullStep, Query, ListRows, CheckPage, PullInto, ImportPage, Sweep, PushAfterPull, rows
<1> QED BY <1>1, <1>2, <1>3 DEF RequestStep

LEMMA TombsRequest ==
  ASSUME NotionTyped, Pages, Tombs, NEW r \in Request,
         RequestStart(r) \/ RequestStep(r) \/ Breaks(r) \/ UpdateHalf(r)
  PROVE  Tombs'
<1>1. tomb \in [Target -> NotionPage \cup {NoPage}]
  BY DEF NotionTyped, TablesTyped
<1>2. CASE Confirm(r)
  <2>1. /\ Aim(r) \in Target /\ request[r].page \in NotionPage
        /\ claim # NoPage => bound \in Target /\ remote[claim].target = bound
    BY <1>2, ConfirmTyped DEF Pages
  <2>2. remote[request[r].page].target = Aim(r)
    BY <2>1, Constants DEF Pages, Aimed, Aim
  <2>3. /\ UNCHANGED remote
        /\ tomb' = IF claim # NoPage THEN [tomb EXCEPT ![bound] = claim]
                   ELSE [tomb EXCEPT ![Aim(r)] = request[r].page]
    BY <1>2 DEF Confirm
  <2> QED BY <1>1, <2>1, <2>2, <2>3 DEF Tombs
<1>3. CASE ~Confirm(r)
  <2>1. UNCHANGED tomb
    BY <1>3, OnlyConfirmBuries
  <2>2. \A p \in NotionPage : remote[p].target # NoTarget => remote'[p].target = remote[p].target
    BY PagesStay
  <2> QED BY <1>1, <2>1, <2>2, NotionAssumption DEF Tombs
<1> QED BY <1>2, <1>3

LEMMA UserDeleted == NotionTyped /\ Pages /\ StaysDeleted /\ NotionUser => StaysDeleted'
<1> SUFFICES ASSUME NotionTyped, Pages, StaysDeleted, NotionUser PROVE StaysDeleted'
  OBVIOUS
<1>1. Tombs'
  BY TombsUser DEF StaysDeleted
<1>2. CASE EditLocal
  <2>1. local'.state = "live"
    BY <1>2 DEF EditLocal, IsLive, NotionTyped, TablesTyped
  <2> QED BY <1>1, <2>1 DEF StaysDeleted, PageBuried, IsLive
<1>3. CASE Unbind \/ \E t \in Target : BindTo(t)
  <2>1. UNCHANGED <<local, remote>> /\ local.state # "absent" /\ Forgets
    BY <1>3 DEF Unbind, BindTo, RowExists
  <2>2. deletedWith' # NoPage => \E u \in Target : tomb'[u] = deletedWith'
    BY <2>1 DEF Forgets
  <2>3. PageBuried'
    BY <1>1, <2>1, <2>2 DEF PageBuried, Tombs
  <2> QED BY <1>1, <2>1, <2>3 DEF StaysDeleted
<1>4. CASE DeleteLocal \/ DeleteFromPhone
  <2>1. local'.state = "deleted"
    BY <1>4 DEF DeleteLocal, DeleteFromPhone
  <2>2. CASE DeleteLocal
    <3>1. /\ UNCHANGED remote /\ deletedWith' = claim
          /\ claim # NoPage => tomb' = [tomb EXCEPT ![bound] = claim]
      BY <2>2 DEF DeleteLocal
    <3>2. claim # NoPage => bound \in Target /\ remote[claim].target = bound
      BY DEF Pages, NotionTyped, TablesTyped
    <3>3. PageBuried'
      BY <3>1, <3>2 DEF PageBuried, NotionTyped, TablesTyped
    <3> QED BY <1>1, <2>1, <3>3 DEF StaysDeleted
  <2>3. CASE DeleteFromPhone
    <3>1. deletedWith' = NoPage
      BY <2>3 DEF DeleteFromPhone
    <3> QED BY <1>1, <2>1, <3>1 DEF StaysDeleted, PageBuried
  <2> QED BY <1>4, <2>2, <2>3
<1>5. CASE PurgeLocal
  <2>1. /\ UNCHANGED <<tomb, remote, request, deletedWith>> /\ local.state = "deleted"
        /\ \A r \in Request : request[r].at = "idle"
    BY <1>5 DEF PurgeLocal
  <2>2. PageBuried'
    BY <2>1 DEF StaysDeleted, PageBuried, IsLive
  <2>3. \A r \in Request : request'[r] = AtRest
    BY <2>1, RequestFacts DEF RequestOK
  <2> QED BY <1>1, <2>2, <2>3, FreeAtRest DEF StaysDeleted
<1>6. ASSUME NEW p \in NotionPage, EditPage(p) \/ ArchiveOrRestorePage(p) PROVE StaysDeleted'
  <2>1. UNCHANGED <<local, tomb, request, deletedWith>>
    BY <1>6 DEF EditPage, ArchiveOrRestorePage, rows
  <2>2. \A q \in NotionPage : remote'[q].target = remote[q].target /\ remote'[q].named = remote[q].named
    BY <1>6 DEF EditPage, ArchiveOrRestorePage, NotionTyped, TablesTyped, PageRow
  <2>3. PageBuried'
    BY <2>1, <2>2, BuriedKept DEF StaysDeleted
  <2>4. local'.state = "absent" => \A r \in Request : Free(request'[r], tomb', remote')
    BY <2>1, <2>2 DEF StaysDeleted, Free
  <2> QED BY <1>1, <2>3, <2>4 DEF StaysDeleted
<1> QED BY <1>2, <1>3, <1>4, <1>5, <1>6 DEF NotionUser

(* Requests of a note without a row.                                        *)
LEMMA FreeKept ==
  ASSUME NotionTyped, NEW r \in Request, local.state = "absent", local'.state = "absent",
         Free(request[r], tomb, remote),
         RequestStart(r) \/ RequestStep(r) \/ Breaks(r) \/ UpdateHalf(r)
  PROVE  UNCHANGED <<tomb, remote>> /\ Free(request'[r], tomb, remote)
<1>1. /\ request[r].at \in {"idle", "query", "list", "pages", "import"} /\ ~request[r].listed
      /\ ~IsLive /\ request[r] \in RequestRow
  BY RequestFacts DEF Free, IsLive
<1>2. CASE Breaks(r)
  <2>1. UNCHANGED <<tomb, remote>> /\ request'[r] = AtRest
    BY <1>2, RestTyped DEF Breaks, rows, NotionTyped
  <2> QED BY <2>1, FreeAtRest
<1>3. ASSUME NEW op \in {"pull", "both"}, NEW t \in Target, StartPull(r, op, t)
      PROVE  UNCHANGED <<tomb, remote>> /\ Free(request'[r], tomb, remote)
  <2>1. UNCHANGED <<tomb, remote>>
    BY <1>3 DEF StartPull, rows
  <2>2. request'[r].at = "query" /\ ~request'[r].listed
    BY <1>3, StartPullTyped
  <2> QED BY <2>1, <2>2 DEF Free
<1>4. CASE Query(r)
  <2>1. UNCHANGED <<tomb, remote>>
    BY <1>4 DEF Query, rows
  <2>2. /\ request'[r].at = "list" /\ ~request'[r].listed
        /\ request'[r].sees = [p \in NotionPage |-> IF Visible(p, Aim(r)) THEN remote[p].text
                                                                         ELSE Hidden]
        /\ request'[r].named = {p \in NotionPage : Visible(p, Aim(r)) /\ remote[p].named}
    BY <1>1, <1>4, QueryTyped
  <2>3. \A p \in NotionPage : request'[r].sees[p] # Hidden /\ remote[p].named => p \in request'[r].named
    BY <2>2
  <2> QED BY <2>1, <2>2, <2>3 DEF Free
<1>5. CASE ListRows(r)
  <2>1. UNCHANGED <<tomb, remote>> /\ request[r].at = "list"
    BY <1>5 DEF ListRows, rows, At
  <2>2. /\ request'[r].at = "pages" /\ ~request'[r].listed
        /\ request'[r].sees = request[r].sees /\ request'[r].named = request[r].named
    BY <1>1, <1>5, ListRowsTyped
  <2> QED BY <2>1, <2>2 DEF Free
<1>6. ASSUME NEW p \in NotionPage, CheckPage(r, p)
      PROVE  UNCHANGED <<tomb, remote>> /\ Free(request'[r], tomb, remote)
  <2>1. UNCHANGED <<tomb, remote>>
    BY <1>6 DEF CheckPage, rows
  <2>2. ~HasNote(r, p)
    BY <1>1 DEF HasNote
  <2>3. /\ Knows(request'[r], request[r]) /\ request[r].at = "pages"
        /\ \/ request'[r].at = "pages"
           \/ request'[r].at = "import" /\ request'[r].page = p /\ ~Blocked(r, p)
    BY <1>6, <2>2, CheckPageTyped
  <2>4. ~Blocked(r, p) => /\ tomb[Aim(r)] # p
                          /\ p \in request[r].named => \A u \in Target : tomb[u] = NoPage
    BY DEF Blocked, Tombstoned
  <2> QED BY <2>1, <2>3, <2>4 DEF Free, Knows, Aim
<1>7. ~ImportPage(r)
  <2> SUFFICES ASSUME ImportPage(r) PROVE FALSE
    OBVIOUS
  <2> QED BY PulledTyped
<1>8. CASE Sweep(r)
  <2>1. UNCHANGED <<tomb, remote>> /\ Rest(r)
    BY <1>1, <1>8 DEF Sweep
  <2>2. request'[r] = AtRest
    BY <2>1, RestTyped DEF NotionTyped
  <2> QED BY <2>1, <2>2, FreeAtRest
<1>9. /\ ~PushStep(r) /\ ~PullInto(r) /\ ~PushAfterPull(r) /\ ~RestorePage(r) /\ ~Confirm(r)
      /\ ~UpdateHalf(r)
  BY <1>1 DEF PushStep, Lookup, Reserve, Update, CreatePage, Record, PullInto, PushAfterPull,
              RestorePage, Confirm, UpdateHalf, At
<1>10. /\ ~StartPush(r) /\ \A t \in Target : ~StartRestore(r, t) /\ ~StartConfirm(r, t)
  BY <1>1 DEF StartPush, StartRestore, StartConfirm
<1> QED BY <1>2, <1>3, <1>4, <1>5, <1>6, <1>7, <1>8, <1>9, <1>10
        DEF RequestStart, RequestStep, PullStep

LEMMA RequestDeleted ==
  ASSUME NotionTyped, Pages, StaysDeleted, NEW r \in Request,
         RequestStart(r) \/ RequestStep(r) \/ Breaks(r) \/ UpdateHalf(r)
  PROVE  StaysDeleted'
<1>1. \A q \in Request : q # r => request'[q] = request[q]
  BY OthersWait
<1>2. \A p \in NotionPage : remote[p].target # NoTarget => remote'[p].target = remote[p].target
  BY PagesStay
<1>3. Tombs'
  BY TombsRequest DEF StaysDeleted
<1>4. CASE Confirm(r)
  <2>1. /\ local'.state = "deleted" /\ Aim(r) \in Target /\ request[r].page \in NotionPage
        /\ claim # NoPage => bound \in Target /\ remote[claim].target = bound
    BY <1>4, ConfirmTyped DEF Pages
  <2>2. remote[request[r].page].target = Aim(r)
    BY <2>1, Constants DEF Pages, Aimed, Aim
  <2>3. /\ UNCHANGED remote
        /\ tomb' = IF claim # NoPage THEN [tomb EXCEPT ![bound] = claim]
                   ELSE [tomb EXCEPT ![Aim(r)] = request[r].page]
        /\ deletedWith' = IF claim # NoPage THEN claim ELSE request[r].page
    BY <1>4 DEF Confirm
  <2>4. PageBuried'
    <3>1. CASE claim # NoPage
      BY <2>1, <2>3, <3>1 DEF PageBuried, NotionTyped, TablesTyped
    <3>2. CASE claim = NoPage
      BY <2>1, <2>2, <2>3, <3>2 DEF PageBuried, NotionTyped, TablesTyped
    <3> QED BY <3>1, <3>2
  <2> QED BY <1>3, <2>1, <2>4 DEF StaysDeleted
<1>5. CASE local'.state = "live"
  BY <1>5, <1>3 DEF StaysDeleted, PageBuried, IsLive
<1>6. CASE ~Confirm(r) /\ local'.state # "live"
  <2>1. UNCHANGED <<tomb, deletedWith>>
    BY <1>6, OnlyConfirmBuries
  <2>2. local'.state = local.state
    <3>1. CASE PullInto(r) \/ ImportPage(r)
      <4>1. UNCHANGED local \/ local'.state = "live"
        BY <3>1, PulledTyped
      <4> QED BY <1>6, <4>1
    <3>2. CASE RequestStart(r) \/ Breaks(r) \/ UpdateHalf(r)
      BY <3>2 DEF RequestStart, StartPush, StartPull, StartRestore, StartConfirm, Breaks, UpdateHalf, rows
    <3>3. CASE PushStep(r) \/ RestorePage(r)
      BY <3>3 DEF PushStep, Lookup, Reserve, Update, CreatePage, Record, RestorePage, rows
    <3>4. CASE Query(r) \/ ListRows(r) \/ (\E p \in NotionPage : CheckPage(r, p)) \/ Sweep(r)
                 \/ PushAfterPull(r)
      BY <3>4 DEF Query, ListRows, CheckPage, Sweep, PushAfterPull, rows
    <3> QED BY <1>6, <3>1, <3>2, <3>3, <3>4 DEF RequestStep, PullStep
  <2>3. PageBuried'
    BY <1>2, <2>1, <2>2, BuriedKept DEF StaysDeleted
  <2>4. ASSUME local'.state = "absent", NEW q \in Request PROVE Free(request'[q], tomb', remote')
    <3>1. UNCHANGED <<tomb, remote>> /\ Free(request'[r], tomb, remote)
      BY <2>2, <2>4, FreeKept DEF StaysDeleted
    <3> QED BY <1>1, <2>2, <2>4, <3>1 DEF StaysDeleted
  <2> QED BY <1>3, <2>3, <2>4 DEF StaysDeleted
<1> QED BY <1>4, <1>5, <1>6

(* Only an import brings a note to life.                                    *)
LEMMA OnlyImportsRevive ==
  ASSUME NotionTyped, Pages, NotionNext, ~IsLive, IsLive'
  PROVE  \E r \in Request : ImportPage(r) /\ local.state = "absent" /\ claim' = request[r].page
<1>1. local'.state # local.state
  BY DEF IsLive
<1>2. CASE NotionUser
  BY <1>1, <1>2 DEF NotionUser, EditLocal, BindTo, Unbind, DeleteLocal, DeleteFromPhone, PurgeLocal,
                    EditPage, ArchiveOrRestorePage, rows, IsLive
<1>3. ASSUME NEW r \in Request,
             RequestStart(r) \/ RequestStep(r) \/ Breaks(r) \/ UpdateHalf(r)
      PROVE  ImportPage(r) /\ local.state = "absent" /\ claim' = request[r].page
  <2>1. CASE RequestStart(r) \/ Breaks(r) \/ UpdateHalf(r)
    BY <1>1, <2>1 DEF RequestStart, StartPush, StartPull, StartRestore, StartConfirm, Breaks,
                      UpdateHalf, rows
  <2>2. CASE PushStep(r) \/ RestorePage(r)
    BY <1>1, <2>2 DEF PushStep, Lookup, Reserve, Update, CreatePage, Record, RestorePage, rows
  <2>3. CASE Query(r) \/ ListRows(r) \/ (\E p \in NotionPage : CheckPage(r, p)) \/ Sweep(r)
               \/ PushAfterPull(r)
    BY <1>1, <2>3 DEF Query, ListRows, CheckPage, Sweep, PushAfterPull, rows
  <2>4. CASE Confirm(r)
    BY <2>4, ConfirmTyped DEF IsLive
  <2>5. CASE PullInto(r)
    BY <1>1, <2>5, PulledTyped
  <2>6. CASE ImportPage(r)
    BY <1>1, <2>6, PulledTyped
  <2> QED BY <1>3, <2>1, <2>2, <2>3, <2>4, <2>5, <2>6 DEF RequestStep, PullStep
<1> QED BY <1>2, <1>3 DEF NotionNext

----------------------------------------------------------------------------
(* A push writes to the page of the state, or to one that has the note's id *)

Ours(s, pages, m) ==
  s.at \in {"reserve", "update", "record", "restore"} =>
    m.page # NoPage \/ pages[s.page].named

Owned ==
  /\ IsLive /\ claim # NoPage => mark[bound].page # NoPage \/ remote[claim].named
  /\ IsLive => \A r \in Request : Ours(request[r], remote, mark[Aim(r)])

LEMMA InitOwned == NotionInit => Owned
BY DEF NotionInit, Owned, Ours, AtRest

LEMMA NamesStay ==
  ASSUME NotionTyped, NEW r \in Request,
         RequestStart(r) \/ RequestStep(r) \/ Breaks(r) \/ UpdateHalf(r)
  PROVE  \A p \in NotionPage : remote[p].named => remote'[p].named
<1>1. CASE RequestStart(r) \/ PullStep(r) \/ Breaks(r)
  <2>1. UNCHANGED remote
    BY <1>1 DEF RequestStart, StartPush, StartPull, StartRestore, StartConfirm, Breaks, PullStep,
                Query, ListRows, CheckPage, PullInto, ImportPage, Sweep, PushAfterPull
  <2> QED BY <2>1
<1>2. CASE Lookup(r) \/ Reserve(r) \/ Record(r) \/ Confirm(r)
  <2>1. UNCHANGED remote
    BY <1>2 DEF Lookup, Reserve, Record, Confirm
  <2> QED BY <2>1
<1>3. CASE Update(r)
  BY <1>3, UpdateTyped, RequestFacts, WrittenTyped DEF RequestRow
<1>4. CASE UpdateHalf(r)
  BY <1>4, UpdateHalfTyped, WrittenTyped, Constants
<1>5. CASE CreatePage(r)
  BY <1>5, CreatePageTyped
<1>6. CASE RestorePage(r)
  BY <1>6, RestorePageTyped
<1> QED BY <1>1, <1>2, <1>3, <1>4, <1>5, <1>6 DEF RequestStep, PushStep

(* While the note is there, the state of a target goes on naming a page.    *)
LEMMA MarksStay ==
  ASSUME NotionTyped, Pages, NEW r \in Request, IsLive',
         RequestStart(r) \/ RequestStep(r) \/ Breaks(r) \/ UpdateHalf(r)
  PROVE  \A t \in Target : mark[t].page # NoPage => mark'[t].page # NoPage
<1>1. CASE RequestStart(r) \/ Breaks(r) \/ UpdateHalf(r) \/ RestorePage(r)
  <2>1. UNCHANGED mark
    BY <1>1 DEF RequestStart, StartPush, StartPull, StartRestore, StartConfirm, Breaks, UpdateHalf,
                RestorePage, rows
  <2> QED BY <2>1
<1>2. CASE Lookup(r) \/ Reserve(r) \/ Update(r) \/ CreatePage(r) \/ Query(r) \/ ListRows(r)
           \/ (\E p \in NotionPage : CheckPage(r, p)) \/ PushAfterPull(r)
  <2>1. UNCHANGED mark
    BY <1>2 DEF Lookup, Reserve, Update, CreatePage, Query, ListRows, CheckPage, PushAfterPull, rows
  <2> QED BY <2>1
<1>3. CASE Record(r)
  BY <1>3, RecordTyped, Constants DEF Synced, NotionTyped, TablesTyped
<1>4. CASE PullInto(r) \/ ImportPage(r)
  <2>1. /\ request[r].page \in NotionPage /\ Aim(r) \in Target
        /\ \/ UNCHANGED mark
           \/ mark' = [mark EXCEPT ![Aim(r)] =
                         Synced(request[r].page, request[r].sees[request[r].page])]
    BY <1>4, PulledTyped
  <2> QED BY <2>1, Constants DEF Synced, NotionTyped, TablesTyped
<1>5. CASE Sweep(r)
  <2>1. CASE Missing(r)
    <3>1. /\ mark'[Aim(r)].page = request[r].st.page /\ request[r].st.page \in NotionPage
          /\ \A t \in Target : t # Aim(r) => mark'[t] = mark[t]
      BY <1>5, <2>1, SweepTyped
    <3> QED BY <3>1, Constants
  <2>2. CASE ~Missing(r)
    BY <1>5, <2>2, SweepTyped
  <2> QED BY <2>1, <2>2
<1>6. ~Confirm(r)
  BY ConfirmTyped DEF IsLive
<1> QED BY <1>1, <1>2, <1>3, <1>4, <1>5, <1>6 DEF RequestStep, PushStep, PullStep

LEMMA OursStays ==
  ASSUME NEW s, NEW pages, NEW pages2, NEW m, NEW m2, Ours(s, pages, m),
         m.page # NoPage => m2.page # NoPage,
         s.page \in NotionPage \cup {NoPage},
         s.at \in {"reserve", "update", "record", "restore"} => s.page # NoPage,
         \A p \in NotionPage : pages[p].named => pages2[p].named
  PROVE  Ours(s, pages2, m2)
BY DEF Ours

LEMMA UserOwned == NotionTyped /\ Pages /\ Owned /\ NotionUser => Owned'
<1> SUFFICES ASSUME NotionTyped, Pages, Owned, NotionUser, IsLive' PROVE Owned'
  BY DEF Owned
<1>1. ASSUME IsLive, UNCHANGED <<mark, request>>, claim' # NoPage => claim' = claim /\ bound' = bound,
             \A p \in NotionPage : remote[p].named => remote'[p].named
      PROVE  Owned'
  <2>1. claim' # NoPage => mark'[bound'].page # NoPage \/ remote'[claim'].named
    BY <1>1 DEF Owned, NotionTyped, TablesTyped
  <2>2. \A r \in Request : Ours(request'[r], remote', mark'[Aim(r)'])
    <3> SUFFICES ASSUME NEW r \in Request PROVE Ours(request[r], remote', mark[Aim(r)])
      BY <1>1 DEF Aim
    <3>1. /\ request[r].page \in NotionPage \cup {NoPage}
          /\ request[r].at \in {"reserve", "update", "record", "restore"} => request[r].page # NoPage
      BY RequestFacts DEF RequestRow, RequestOK
    <3> QED BY <1>1, <3>1, OursStays DEF Owned
  <2> QED BY <2>1, <2>2 DEF Owned
<1>2. CASE EditLocal
  BY <1>1, <1>2 DEF EditLocal
<1>3. ASSUME NEW t \in Target, BindTo(t) PROVE Owned'
  BY <1>1, <1>3 DEF BindTo, IsLive
<1>4. CASE Unbind
  BY <1>1, <1>4 DEF Unbind, IsLive
<1>5. ~DeleteLocal /\ ~DeleteFromPhone /\ ~PurgeLocal
  BY DEF DeleteLocal, DeleteFromPhone, PurgeLocal, IsLive
<1>6. ASSUME NEW p \in NotionPage, EditPage(p) \/ ArchiveOrRestorePage(p) PROVE Owned'
  <2>1. UNCHANGED <<mark, request, claim, bound>> /\ IsLive
    BY <1>6 DEF EditPage, ArchiveOrRestorePage, rows, IsLive
  <2>2. \A q \in NotionPage : remote[q].named => remote'[q].named
    BY <1>6 DEF EditPage, ArchiveOrRestorePage, NotionTyped, TablesTyped, PageRow
  <2> QED BY <1>1, <2>1, <2>2
<1> QED BY <1>2, <1>3, <1>4, <1>5, <1>6 DEF NotionUser

LEMMA OwnedKept ==
  ASSUME NotionTyped, Pages, StaysDeleted, Owned, NEW r \in Request, IsLive',
         RequestStart(r) \/ RequestStep(r) \/ Breaks(r) \/ UpdateHalf(r),
         claim' # NoPage => mark'[bound'].page # NoPage \/ remote'[claim'].named,
         Ours(request'[r], remote', mark'[Aim(r)'])
  PROVE  Owned'
<1>1. ASSUME NEW q \in Request, q # r PROVE Ours(request'[q], remote', mark'[Aim(q)'])
  <2>1. request'[q] = request[q]
    BY <1>1, OthersWait
  <2>2. CASE ~IsLive
    <3>1. local.state = "absent"
      BY <2>2, OnlyImportsRevive DEF NotionNext
    <3>2. request[q].at \in {"idle", "query", "list", "pages", "import"}
      BY <3>1 DEF StaysDeleted, Free
    <3> QED BY <2>1, <3>2 DEF Ours
  <2>3. CASE IsLive
    <3>1. /\ request[q].page \in NotionPage \cup {NoPage}
          /\ request[q].at \in {"reserve", "update", "record", "restore"} =>
               request[q].page # NoPage /\ Aim(q) \in Target
      BY RequestFacts DEF RequestRow, RequestOK
    <3>2. CASE request[q].at \in {"reserve", "update", "record", "restore"}
      <4>1. mark[Aim(q)].page # NoPage => mark'[Aim(q)].page # NoPage
        BY <3>1, <3>2, MarksStay
      <4>2. \A p \in NotionPage : remote[p].named => remote'[p].named
        BY NamesStay
      <4>3. Ours(request[q], remote', mark'[Aim(q)])
        BY <2>3, <3>1, <4>1, <4>2, OursStays DEF Owned
      <4> QED BY <2>1, <4>3 DEF Aim
    <3>3. CASE request[q].at \notin {"reserve", "update", "record", "restore"}
      BY <2>1, <3>3 DEF Ours
    <3> QED BY <3>2, <3>3
  <2> QED BY <2>2, <2>3
<1> QED BY <1>1 DEF Owned

LEMMA RequestOwned ==
  ASSUME NotionTyped, Pages, StaysDeleted, Owned, NEW r \in Request,
         RequestStart(r) \/ RequestStep(r) \/ Breaks(r) \/ UpdateHalf(r)
  PROVE  Owned'
<1> SUFFICES ASSUME IsLive' PROVE Owned'
  BY DEF Owned
<1>1. /\ \A t \in Target : mark[t].page # NoPage => mark'[t].page # NoPage
      /\ \A p \in NotionPage : remote[p].named => remote'[p].named
  BY MarksStay, NamesStay
<1>2. claim # NoPage => bound \in Target /\ claim \in NotionPage
  BY DEF Pages, NotionTyped, TablesTyped
<1>3. ASSUME UNCHANGED <<bound, claim>>, IsLive
      PROVE  claim' # NoPage => mark'[bound'].page # NoPage \/ remote'[claim'].named
  BY <1>1, <1>2, <1>3 DEF Owned
<1>4. ASSUME UNCHANGED <<local, bound, claim>>, Ours(request'[r], remote', mark'[Aim(r)']) PROVE Owned'
  <2>1. IsLive
    BY <1>4 DEF IsLive
  <2> QED BY <1>3, <1>4, <2>1, OwnedKept
<1>5. ASSUME UNCHANGED <<local, bound, claim>>,
             request'[r].at \notin {"reserve", "update", "record", "restore"}
      PROVE  Owned'
  BY <1>4, <1>5 DEF Ours
<1>6. ASSUME request[r].at \in {"reserve", "update", "record", "restore"}, IsLive,
             Knows(request'[r], request[r]), request'[r].page = request[r].page
      PROVE  Ours(request'[r], remote', mark'[Aim(r)'])
  <2>1. Aim(r)' = Aim(r) /\ Aim(r) \in Target /\ request[r].page \in NotionPage
    BY <1>6, RequestFacts DEF Knows, Aim, RequestRow, RequestOK
  <2> QED BY <1>1, <1>6, <2>1 DEF Ours, Owned
<1>7. AtRest.at = "idle"
  BY DEF AtRest
<1>8. CASE Breaks(r) \/ UpdateHalf(r)
  <2>1. UNCHANGED <<local, bound, claim>> /\ request'[r] = AtRest
    BY <1>8, RestTyped DEF Breaks, UpdateHalf, NotionTyped, rows
  <2> QED BY <1>5, <1>7, <2>1
<1>9. ASSUME NEW t \in Target, NEW op \in {"push", "both"}, t = bound, IsLive,
             UNCHANGED <<local, bound, claim, mark, remote>>, request'[r] = Loaded(r, op, t)
      PROVE  Owned'
  <2>1. /\ request'[r].target = t
        /\ request'[r].page = IF mark[t].page # NoPage THEN mark[t].page ELSE claim
        /\ request'[r].at = IF request'[r].page = NoPage THEN "lookup" ELSE "reserve"
    BY <1>9, LoadedTyped
  <2>2. Ours(request'[r], remote', mark'[Aim(r)'])
    BY <1>9, <2>1 DEF Ours, Owned, Aim
  <2> QED BY <1>4, <1>9, <2>2
<1>10. CASE StartPush(r)
  <2>1. /\ UNCHANGED <<local, bound, claim, mark, remote>> /\ bound \in Target /\ IsLive
        /\ Step(r, Loaded(r, "push", bound))
    BY <1>10 DEF StartPush, rows, NotionTyped, TablesTyped
  <2>2. request'[r] = Loaded(r, "push", bound)
    BY <2>1, StepOnly DEF NotionTyped
  <2> QED BY <1>9, <2>1, <2>2
<1>11. ASSUME NEW op \in {"pull", "both"}, NEW t \in Target, StartPull(r, op, t) PROVE Owned'
  <2>1. UNCHANGED <<local, bound, claim>>
    BY <1>11 DEF StartPull, rows
  <2>2. request'[r].at = "query"
    BY <1>11, StartPullTyped
  <2> QED BY <1>5, <2>1, <2>2
<1>12. ASSUME NEW t \in Target, StartRestore(r, t) \/ StartConfirm(r, t) PROVE Owned'
  <2>1. UNCHANGED <<local, bound, claim, mark>>
    BY <1>12 DEF StartRestore, StartConfirm, rows
  <2>2. request'[r].target = t /\ request'[r].page = mark[t].page /\ mark[t].page \in NotionPage
    <3>1. request'[r].page = mark[t].page /\ request'[r].page \in NotionPage
      BY <1>12, StartGoneTyped
    <3> QED BY <1>12, <3>1, StartGoneTyped
  <2>3. Ours(request'[r], remote', mark'[Aim(r)'])
    BY <2>1, <2>2, Constants DEF Ours, Aim
  <2> QED BY <1>4, <2>1, <2>3
<1>13. CASE Lookup(r)
  <2>1. UNCHANGED <<local, bound, claim, remote>>
    BY <1>13 DEF Lookup, rows
  <2>2. request'[r].at = "create" \/ remote[request'[r].page].named
    BY <1>13, LookupTyped
  <2>3. Ours(request'[r], remote', mark'[Aim(r)'])
    BY <2>1, <2>2 DEF Ours
  <2> QED BY <1>4, <2>1, <2>3
<1>14. CASE Reserve(r)
  <2>1. UNCHANGED <<local, bound, mark, remote>> /\ request[r].at = "reserve" /\ IsLive
    BY <1>14 DEF Reserve, At, IsLive
  <2>2. CASE request'[r] = AtRest /\ claim' = claim
    BY <1>5, <1>7, <2>1, <2>2
  <2>3. CASE /\ bound = Aim(r) /\ claim' = request[r].page /\ claim' # NoPage
             /\ request'[r].page = request[r].page /\ Knows(request'[r], request[r])
    <3>1. Ours(request[r], remote, mark[Aim(r)])
      BY <2>1 DEF Owned
    <3>2. mark'[bound'].page # NoPage \/ remote'[claim'].named
      BY <2>1, <2>3, <3>1 DEF Ours
    <3>3. Ours(request'[r], remote', mark'[Aim(r)'])
      BY <1>6, <2>1, <2>3
    <3> QED BY <3>2, <3>3, OwnedKept, <1>14
  <2> QED BY <1>14, <2>2, <2>3, ReserveTyped
<1>15. CASE Update(r) \/ RestorePage(r)
  <2>1. UNCHANGED <<local, bound, claim>> /\ request[r].at \in {"update", "restore"}
    BY <1>15 DEF Update, RestorePage, At, rows
  <2>2. \/ request'[r] = AtRest
        \/ Knows(request'[r], request[r]) /\ request'[r].page = request[r].page
    BY <1>15, UpdateTyped, RestorePageTyped
  <2>3. IsLive
    BY <2>1 DEF IsLive
  <2>4. Ours(request'[r], remote', mark'[Aim(r)'])
    BY <1>6, <1>7, <2>1, <2>2, <2>3 DEF Ours
  <2> QED BY <1>4, <2>1, <2>4
<1>16. CASE CreatePage(r)
  <2>1. UNCHANGED <<local, bound, claim>>
    BY <1>16 DEF CreatePage, rows
  <2>2. request'[r] = AtRest \/ remote'[request'[r].page].named
    BY <1>16, CreatePageTyped
  <2>3. Ours(request'[r], remote', mark'[Aim(r)'])
    BY <1>7, <2>2 DEF Ours
  <2> QED BY <1>4, <2>1, <2>3
<1>17. CASE Record(r)
  <2>1. UNCHANGED <<local, bound, remote>> /\ request'[r] = AtRest
    BY <1>17, RecordTyped DEF Record
  <2>2. CASE UNCHANGED <<claim, mark>>
    BY <1>5, <1>7, <2>1, <2>2
  <2>3. CASE /\ bound = Aim(r) /\ Aim(r) \in Target
             /\ request[r].page \in NotionPage
             /\ mark' = [mark EXCEPT ![Aim(r)] = Synced(request[r].page, request[r].text)]
    <3>1. mark'[bound'].page # NoPage
      BY <2>1, <2>3, Constants DEF Synced, NotionTyped, TablesTyped
    <3>2. Ours(request'[r], remote', mark'[Aim(r)'])
      BY <1>7, <2>1 DEF Ours
    <3> QED BY <1>17, <3>1, <3>2, OwnedKept DEF RequestStep, PushStep
  <2> QED BY <1>17, <2>2, <2>3, RecordTyped
<1>18. CASE PullInto(r) \/ ImportPage(r)
  <2>1. request'[r].at = "pages" /\ request[r].page \in NotionPage /\ Aim(r) \in Target
    BY <1>18, PulledTyped
  <2>2. CASE UNCHANGED <<local, bound, claim, mark>>
    BY <1>5, <2>1, <2>2
  <2>3. CASE /\ bound' = Aim(r)
             /\ mark' = [mark EXCEPT ![Aim(r)] =
                           Synced(request[r].page, request[r].sees[request[r].page])]
    <3>1. mark'[bound'].page # NoPage
      BY <2>1, <2>3, Constants DEF Synced, NotionTyped, TablesTyped
    <3>2. Ours(request'[r], remote', mark'[Aim(r)'])
      BY <2>1 DEF Ours
    <3> QED BY <1>18, <3>1, <3>2, OwnedKept DEF RequestStep, PullStep
  <2> QED BY <1>18, <2>2, <2>3, PulledTyped
<1>19. CASE Query(r) \/ ListRows(r) \/ (\E p \in NotionPage : CheckPage(r, p)) \/ Sweep(r)
  <2>1. UNCHANGED <<local, bound, claim>>
    BY <1>19 DEF Query, ListRows, CheckPage, Sweep, rows
  <2>2. request'[r].at \notin {"reserve", "update", "record", "restore"}
    BY <1>7, <1>19, QueryTyped, ListRowsTyped, CheckPageTyped, SweepTyped
  <2> QED BY <1>5, <2>1, <2>2
<1>20. CASE PushAfterPull(r)
  <2>1. UNCHANGED <<local, bound, claim, mark, remote>>
    BY <1>20 DEF PushAfterPull, rows
  <2>2. CASE request'[r] = AtRest
    BY <1>5, <1>7, <2>1, <2>2
  <2>3. CASE bound = Aim(r) /\ IsLive /\ Aim(r) \in Target /\ request'[r] = Loaded(r, "both", Aim(r))
    BY <1>9, <2>1, <2>3
  <2> QED BY <1>20, <2>2, <2>3, PushAfterPullTyped
<1>21. ~Confirm(r)
  BY ConfirmTyped DEF IsLive
<1> QED BY <1>8, <1>10, <1>11, <1>12, <1>13, <1>14, <1>15, <1>16, <1>17, <1>18, <1>19, <1>20, <1>21
        DEF RequestStart, RequestStep, PushStep, PullStep

----------------------------------------------------------------------------
(* A bidirectional sync that nobody disturbs knows the page that it writes. *)

Saw(s, pages) ==
  \A p \in NotionPage :
    /\ IF pages[p].target = s.target /\ ~pages[p].archived THEN s.sees[p] = pages[p].text
                                                           ELSE s.sees[p] = Hidden
    /\ p \in s.named <=> s.sees[p] # Hidden /\ pages[p].named

(* A page that the pull has something to take over from.                    *)
News(s, p) ==
  /\ s.listed /\ (p \in s.named \/ s.st.page = p)
  /\ s.st.page = NoPage \/ s.sees[p] # s.st.seen \/ s.st.gone

Pulling(s, pages, m, live, may) ==
  /\ Saw(s, pages)
  /\ s.at = "into" => s.listed
  /\ s.handled => m.page # NoPage /\ m.seen = pages[m.page].text
  /\ ~s.handled =>
       /\ s.st = m /\ (s.listed <=> live)
       /\ live /\ may =>
            \A p \in NotionPage :
              s.sees[p] # Hidden /\ p \notin s.todo /\ ~(s.at = "into" /\ s.page = p) => ~News(s, p)

(* What the state knows of its page, before the push.                       *)
Good(m, t, pages) ==
  IF m.page # NoPage THEN pages[m.page].archived \/ pages[m.page].text = m.seen
  ELSE \A p \in NotionPage : pages[p].target = t /\ pages[p].named => pages[p].archived

Known(p, pages, m) ==
  \/ pages[p].archived
  \/ m.page = p /\ pages[p].text = m.seen

Followed(s, pages, m, live, may) ==
  /\ s.at = "push" => s.op = "both"
  /\ s.op = "both" =>
       /\ s.at # "restore"
       /\ s.at \in {"query", "list"} => ~s.handled
       /\ s.at = "list" => Saw(s, pages) /\ \A p \in NotionPage : s.sees[p] # Hidden => p \in s.todo
       /\ s.at \in {"pages", "into", "import"} => Pulling(s, pages, m, live, may)
       /\ s.at \in {"push", "lookup"} => Good(m, s.target, pages)
       /\ s.at = "lookup" => m.page = NoPage
       /\ s.at \in {"reserve", "update"} => Known(s.page, pages, m)

Alone ==
  (\A t \in Target : tomb[t] = NoPage) =>
     \A r \in alone : Followed(request[r], remote, mark[Aim(r)], IsLive, PullMayBind(r))

LEMMA InitAlone == NotionInit => Alone
BY DEF NotionInit, Alone

LEMMA UserAlone == NotionUser => Alone'
<1> SUFFICES ASSUME NotionUser PROVE alone' = {}
  BY DEF Alone
<1> QED BY DEF NotionUser, EditLocal, BindTo, Unbind, DeleteLocal, DeleteFromPhone, PurgeLocal,
               EditPage, ArchiveOrRestorePage, Disturbs

(* It suffices to follow the request that steps, undisturbed until then.    *)
LEMMA AloneKept ==
  ASSUME NotionTyped, Alone, NEW r \in Request,
         RequestStart(r) \/ RequestStep(r) \/ Breaks(r) \/ UpdateHalf(r),
         ASSUME UNCHANGED tomb, \A t \in Target : tomb[t] = NoPage,
                \/ Followed(request[r], remote, mark[Aim(r)], IsLive, PullMayBind(r))
                \/ \E t \in Target : StartPull(r, "both", t)
         PROVE  Followed(request'[r], remote', mark'[Aim(r)'], IsLive', PullMayBind(r)')
  PROVE  Alone'
<1> SUFFICES ASSUME \A t \in Target : tomb'[t] = NoPage, NEW q \in alone'
             PROVE  Followed(request'[q], remote', mark'[Aim(q)'], IsLive', PullMayBind(q)')
  BY DEF Alone
<1>1. q = r /\ (r \in alone \/ \E t \in Target : StartPull(r, "both", t))
  <2>1. Goes(r) \/ \E t \in Target : StartPull(r, "both", t)
    BY OthersWait
  <2>2. CASE Goes(r)
    BY <2>2 DEF Goes
  <2>3. CASE \E t \in Target : StartPull(r, "both", t)
    BY <2>3 DEF StartPull
  <2> QED BY <2>1, <2>2, <2>3
<1>2. CASE Confirm(r)
  <2>1. request'[r] = AtRest
    BY <1>2, RestTyped DEF Confirm, NotionTyped
  <2> QED BY <1>1, <2>1 DEF Followed, AtRest
<1>3. CASE ~Confirm(r)
  <2>1. UNCHANGED tomb
    <3>1. CASE RequestStart(r) \/ Breaks(r) \/ UpdateHalf(r)
      BY <3>1 DEF RequestStart, StartPush, StartPull, StartRestore, StartConfirm, Breaks, UpdateHalf, rows
    <3>2. CASE PushStep(r) \/ RestorePage(r)
      BY <3>2 DEF PushStep, Lookup, Reserve, Update, CreatePage, Record, RestorePage, rows
    <3>3. CASE PullStep(r)
      BY <3>3 DEF PullStep, Query, ListRows, CheckPage, PullInto, ImportPage, Sweep, PushAfterPull, rows
    <3> QED BY <1>3, <3>1, <3>2, <3>3 DEF RequestStep
  <2>2. Followed(request[r], remote, mark[Aim(r)], IsLive, PullMayBind(r))
        \/ \E t \in Target : StartPull(r, "both", t)
    BY <1>1, <2>1 DEF Alone
  <2>3. Followed(request'[r], remote', mark'[Aim(r)'], IsLive', PullMayBind(r)')
    BY <2>1, <2>2
  <2> QED BY <1>1, <2>3
<1> QED BY <1>2, <1>3

LEMMA NewsFound ==
  ASSUME NEW r, NEW p \in NotionPage
  PROVE  /\ News(request[r], p) <=> HasNote(r, p) /\ Changed(r, p)
         /\ (\A t \in Target : tomb[t] = NoPage) /\ Aim(r) \in Target /\ Blocked(r, p)
              => ~News(request[r], p)
BY Constants DEF News, HasNote, HasState, Changed, Blocked, Tombstoned

LEMMA CheckedFollowed ==
  ASSUME NotionTyped, NEW r \in Request, NEW p \in NotionPage, CheckPage(r, p),
         \A t \in Target : tomb[t] = NoPage, NEW m, NEW live, NEW may,
         Pulling(request[r], remote, m, live, may)
  PROVE  Pulling(request'[r], remote, m, live, may)
<1> DEFINE x == request[r]
           y == request'[r]
<1>1. /\ Knows(y, x) /\ y.handled = x.handled /\ y.todo = x.todo \ {p} /\ x.at = "pages"
      /\ Aim(r) \in Target
      /\ \/ y.at = "pages" /\ (Blocked(r, p) \/ (HasNote(r, p) /\ ~Changed(r, p)))
         \/ y.at = "import" /\ ~HasNote(r, p)
         \/ y.at = "into" /\ y.page = p /\ HasNote(r, p)
  BY CheckPageTyped, RequestFacts
<1>2. y.at # "into" => ~News(x, p)
  BY <1>1, NewsFound
<1>3. y.at = "into" => x.listed /\ y.page = p
  BY <1>1 DEF HasNote
<1> HIDE DEF x, y
<1>4. Pulling(x, remote, m, live, may)
  BY DEF x
<1>5. Saw(y, remote)
  BY <1>1, <1>4 DEF Pulling, Saw, Knows
<1>6. ASSUME ~y.handled, live, may, NEW q \in NotionPage, y.sees[q] # Hidden, q \notin y.todo,
             ~(y.at = "into" /\ y.page = q)
      PROVE  ~News(y, q)
  <2>1. CASE q = p
    BY <1>1, <1>2, <1>3, <1>6, <2>1 DEF News, Knows
  <2>2. CASE q # p
    <3>1. ~News(x, q)
      BY <1>1, <1>4, <1>6, <2>2 DEF Pulling, Knows
    <3> QED BY <1>1, <3>1 DEF News, Knows
  <2> QED BY <2>1, <2>2
<1>7. Pulling(y, remote, m, live, may)
  BY <1>1, <1>3, <1>4, <1>5, <1>6 DEF Pulling, Knows
<1> QED BY <1>7 DEF y

LEMMA PulledFollowed ==
  ASSUME NotionTyped, NEW r \in Request, PullInto(r) \/ ImportPage(r),
         Pulling(request[r], remote, mark[Aim(r)], IsLive, PullMayBind(r))
  PROVE  Pulling(request'[r], remote', mark'[Aim(r)'], IsLive', PullMayBind(r)')
<1> DEFINE x == request[r]
           y == request'[r]
<1>1. /\ Knows(y, x) /\ y.at = "pages" /\ y.todo = x.todo
      /\ x.page \in NotionPage /\ x.sees[x.page] \in TextSeen /\ Aim(r) \in Target
      /\ UNCHANGED <<remote, suppressed>>
  BY PulledTyped DEF PullInto, ImportPage
<1>2. Aim(r)' = Aim(r)
  BY <1>1 DEF Knows, Aim
<1>3. /\ Saw(y, remote)
      /\ y.sees = x.sees /\ y.named = x.named /\ y.st = x.st /\ y.listed = x.listed
  BY <1>1 DEF Pulling, Saw, Knows
<1>4. CASE /\ UNCHANGED <<local, bound, claim, mark>> /\ y.handled = x.handled
           /\ PullInto(r) => ~(IsLive /\ PullMayBind(r))
  <2>1. IsLive' = IsLive /\ PullMayBind(r)' = PullMayBind(r)
    BY <1>1, <1>2, <1>4 DEF IsLive, PullMayBind
  <2>2. x.at = "into" => PullInto(r)
    BY DEF PullInto, ImportPage, At
  <2>3. ASSUME ~x.handled, IsLive, PullMayBind(r), NEW q \in NotionPage, x.sees[q] # Hidden,
               q \notin x.todo
        PROVE  ~News(y, q)
    <3>1. x.at # "into"
      BY <1>4, <2>2, <2>3
    <3>2. ~News(x, q)
      BY <2>3, <3>1 DEF Pulling
    <3> QED BY <1>3, <3>2 DEF News
  <2>4. Pulling(y, remote, mark[Aim(r)], IsLive, PullMayBind(r))
    BY <1>1, <1>3, <1>4, <2>3 DEF Pulling
  <2> QED BY <1>1, <1>2, <1>4, <2>1, <2>4
<1>5. CASE /\ y.handled
           /\ mark' = [mark EXCEPT ![Aim(r)] = Synced(x.page, x.sees[x.page])]
  <2>1. mark'[Aim(r)].page = x.page /\ mark'[Aim(r)].seen = x.sees[x.page]
    BY <1>1, <1>5 DEF Synced, NotionTyped, TablesTyped
  <2>2. x.sees[x.page] = remote[x.page].text
    BY <1>1, Constants DEF Pulling, Saw
  <2>3. Pulling(y, remote, mark'[Aim(r)], IsLive', PullMayBind(r)')
    BY <1>1, <1>3, <1>5, <2>1, <2>2, Constants DEF Pulling
  <2> QED BY <1>1, <1>2, <2>3
<1> QED BY <1>4, <1>5, PulledTyped

(* After the pull, the state knows its page.                                *)
LEMMA SweptFollowed ==
  ASSUME NotionTyped, Pages, NEW r \in Request, Sweep(r), bound = Aim(r), IsLive,
         Pulling(request[r], remote, mark[Aim(r)], IsLive, PullMayBind(r))
  PROVE  Good(mark'[Aim(r)], Aim(r), remote)
<1> DEFINE x == request[r]
           m == mark[Aim(r)]
<1>1. x.todo = {} /\ x.at = "pages" /\ Aim(r) \in Target /\ x.target = Aim(r)
  BY SweepTyped DEF Aim
<1>2. m.page \in NotionPage \cup {NoPage} /\ (m.page # NoPage => remote[m.page].target = Aim(r))
  BY <1>1 DEF Pages, NotionTyped, TablesTyped, MarkRow
<1>3. Saw(x, remote)
  BY DEF Pulling
<1>4. CASE x.handled
  <2>1. mark' = mark
    BY <1>4, SweepTyped DEF Missing
  <2> QED BY <1>4, <2>1 DEF Pulling, Good
<1>5. CASE ~x.handled
  <2>1. x.st = m /\ x.listed /\ \A p \in NotionPage : x.sees[p] # Hidden => ~News(x, p)
    BY <1>1, <1>5 DEF Pulling, PullMayBind
  <2>2. CASE Missing(r)
    <3>1. mark'[Aim(r)].page = m.page /\ m.page \in NotionPage /\ x.sees[m.page] = Hidden
      BY <2>1, <2>2, SweepTyped DEF Missing
    <3>2. remote[m.page].text # Hidden
      BY <3>1, Constants DEF NotionTyped, TablesTyped, PageRow
    <3>3. remote[m.page].archived
      BY <1>1, <1>2, <1>3, <3>1, <3>2, Constants DEF Saw
    <3> QED BY <3>1, <3>3, Constants DEF Good
  <2>3. CASE ~Missing(r)
    <3>1. mark' = mark
      BY <2>3, SweepTyped
    <3>2. CASE m.page # NoPage
      <4>1. m.page \in NotionPage
        BY <1>2, <3>2
      <4>2. CASE x.sees[m.page] = Hidden
        <5>1. remote[m.page].text # Hidden
          BY <4>1, Constants DEF NotionTyped, TablesTyped, PageRow
        <5>2. remote[m.page].archived
          BY <1>1, <1>2, <1>3, <4>1, <4>2, <5>1, Constants DEF Saw
        <5>3. Good(m, Aim(r), remote)
          BY <3>2, <5>2 DEF Good
        <5> QED BY <3>1, <5>3
      <4>3. CASE x.sees[m.page] # Hidden
        <5>1. x.sees[m.page] = m.seen
          BY <2>1, <4>1, <4>3 DEF News
        <5>2. x.sees[m.page] = remote[m.page].text
          BY <1>3, <4>1, <4>3 DEF Saw
        <5>3. Good(m, Aim(r), remote)
          BY <3>2, <5>1, <5>2 DEF Good
        <5> QED BY <3>1, <5>3
      <4> QED BY <4>2, <4>3
    <3>3. CASE m.page = NoPage
      <4>1. ASSUME NEW p \in NotionPage, remote[p].target = Aim(r), remote[p].named,
                   ~remote[p].archived
            PROVE  FALSE
        <5>1. x.sees[p] = remote[p].text
          BY <1>1, <1>3, <4>1 DEF Saw
        <5>2. x.sees[p] # Hidden
          BY <5>1, Constants DEF NotionTyped, TablesTyped, PageRow
        <5>3. p \in x.named
          BY <1>3, <4>1, <5>2 DEF Saw
        <5> QED BY <2>1, <3>3, <5>2, <5>3 DEF News
      <4> QED BY <3>1, <3>3, <4>1 DEF Good
    <3> QED BY <3>2, <3>3
  <2> QED BY <2>2, <2>3
<1> QED BY <1>4, <1>5

(* The page that a push loads is that of the state, or one that is gone.    *)
LEMMA LoadedFollowed ==
  ASSUME NotionTyped, Pages, Owned, NEW t \in Target, bound = t, IsLive,
         Good(mark[t], t, remote), mark[t].page = NoPage => claim # NoPage
  PROVE  Known(IF mark[t].page # NoPage THEN mark[t].page ELSE claim, remote, mark[t])
<1>1. CASE mark[t].page # NoPage
  BY <1>1 DEF Good, Known
<1>2. CASE mark[t].page = NoPage
  <2>1. claim \in NotionPage /\ remote[claim].target = t /\ remote[claim].named
    BY <1>2 DEF NotionTyped, TablesTyped, Pages, Owned
  <2> QED BY <1>2, <2>1 DEF Good, Known
<1> QED BY <1>1, <1>2

LEMMA RequestAlone ==
  ASSUME NotionTyped, Pages, Owned, Alone, NEW r \in Request,
         RequestStart(r) \/ RequestStep(r) \/ Breaks(r) \/ UpdateHalf(r)
  PROVE  Alone'
<1> SUFFICES ASSUME UNCHANGED tomb, \A t \in Target : tomb[t] = NoPage,
                    \/ Followed(request[r], remote, mark[Aim(r)], IsLive, PullMayBind(r))
                    \/ \E t \in Target : StartPull(r, "both", t)
             PROVE  Followed(request'[r], remote', mark'[Aim(r)'], IsLive', PullMayBind(r)')
  BY AloneKept
<1> DEFINE x == request[r]
           y == request'[r]
<1>1. ASSUME \/ y.op # "both" /\ y.at # "push"
             \/ y.at = "query" /\ ~y.handled
             \/ y.at \in {"create", "record", "idle"}
      PROVE  Followed(y, remote', mark'[Aim(r)'], IsLive', PullMayBind(r)')
  BY <1>1 DEF Followed
<1>2. AtRest.op = "none" /\ AtRest.at = "idle"
  BY DEF AtRest
<1>3. ASSUME y = AtRest
      PROVE  Followed(y, remote', mark'[Aim(r)'], IsLive', PullMayBind(r)')
  BY <1>1, <1>2, <1>3
<1>4. CASE Breaks(r) \/ UpdateHalf(r) \/ Record(r) \/ Confirm(r)
  <2>1. y = AtRest
    BY <1>4, RestTyped DEF Breaks, UpdateHalf, Record, Confirm, NotionTyped
  <2> QED BY <1>3, <2>1
<1>5. CASE StartPush(r)
  <2>1. bound \in Target /\ Step(r, Loaded(r, "push", bound))
    BY <1>5 DEF StartPush, NotionTyped, TablesTyped
  <2>2. y = Loaded(r, "push", bound)
    BY <2>1, StepOnly DEF NotionTyped
  <2>3. y.op = "push" /\ y.at # "push"
    BY <2>1, <2>2, LoadedTyped
  <2> QED BY <1>1, <2>3
<1>6. ASSUME NEW op \in {"pull", "both"}, NEW t \in Target, StartPull(r, op, t)
      PROVE  Followed(y, remote', mark'[Aim(r)'], IsLive', PullMayBind(r)')
  <2>1. y.at = "query" /\ ~y.handled
    BY <1>6, StartPullTyped
  <2> QED BY <1>1, <2>1
<1>7. ASSUME NEW t \in Target, StartRestore(r, t) \/ StartConfirm(r, t)
      PROVE  Followed(y, remote', mark'[Aim(r)'], IsLive', PullMayBind(r)')
  <2>1. y.op # "both" /\ y.at # "push"
    BY <1>7, StartGoneTyped
  <2> QED BY <1>1, <2>1
<1>8. CASE RequestStep(r) /\ ~Record(r) /\ ~Confirm(r)
  <2>1. x.at # "idle" /\ Aim(r) \in Target
    <3>1. x.at # "idle"
      BY <1>8 DEF RequestStep, PushStep, PullStep, Lookup, Reserve, Update, CreatePage, Query, ListRows,
                  CheckPage, PullInto, ImportPage, Sweep, PushAfterPull, RestorePage, At
    <3> QED BY <3>1, RequestFacts
  <2>2. Followed(x, remote, mark[Aim(r)], IsLive, PullMayBind(r))
    BY <2>1 DEF StartPull, At
  <2>14. y.at = "push" => y.op = "both"
    <3>1. CASE PushStep(r) \/ RestorePage(r)
      BY <1>2, <1>8, <3>1, LookupTyped, ReserveTyped, UpdateTyped, CreatePageTyped, RestorePageTyped
         DEF PushStep
    <3>2. CASE Query(r) \/ ListRows(r) \/ (\E p \in NotionPage : CheckPage(r, p))
               \/ PullInto(r) \/ ImportPage(r)
      BY <3>2, QueryTyped, ListRowsTyped, CheckPageTyped, PulledTyped
    <3>3. CASE Sweep(r)
      BY <1>2, <3>3, SweepTyped
    <3>4. CASE PushAfterPull(r)
      BY <1>2, <2>1, <3>4, PushAfterPullTyped, LoadedTyped
    <3> QED BY <1>8, <3>1, <3>2, <3>3, <3>4 DEF RequestStep, PullStep
  <2> SUFFICES ASSUME y.op = "both"
               PROVE  Followed(y, remote', mark'[Aim(r)'], IsLive', PullMayBind(r)')
    BY <1>1, <2>14
  <2>3. ASSUME UNCHANGED <<local, bound, mark, suppressed, remote>>, y.target = x.target
        PROVE  /\ remote' = remote /\ mark'[Aim(r)'] = mark[Aim(r)] /\ IsLive' = IsLive
               /\ PullMayBind(r)' = PullMayBind(r)
    BY <2>3 DEF IsLive, PullMayBind, Aim
  <2>4. CASE Lookup(r)
    <3>1. Knows(y, x) /\ x.at = "lookup"
      BY <2>4, LookupTyped DEF Lookup, At
    <3>2. Good(mark[Aim(r)], Aim(r), remote) /\ mark[Aim(r)].page = NoPage
      BY <2>2, <3>1 DEF Followed, Knows, Aim
    <3>3. y.at = "create"
      BY <2>4, <3>2, LookupTyped DEF Good, Visible
    <3> QED BY <1>1, <3>3
  <2>5. CASE Reserve(r)
    <3>1. y = AtRest \/ (Knows(y, x) /\ y.at = "update" /\ y.page = x.page)
      BY <2>5, ReserveTyped
    <3>2. CASE Knows(y, x) /\ y.at = "update" /\ y.page = x.page
      <4>1. UNCHANGED <<local, bound, mark, suppressed, remote>> /\ x.at = "reserve"
        BY <2>5 DEF Reserve, At
      <4>2. Known(x.page, remote, mark[Aim(r)])
        BY <2>2, <3>2, <4>1 DEF Followed, Knows
      <4>3. Followed(y, remote, mark[Aim(r)], IsLive, PullMayBind(r))
        BY <3>2, <4>2 DEF Followed
      <4> QED BY <2>3, <3>2, <4>1, <4>3 DEF Knows
    <3> QED BY <1>3, <3>1, <3>2
  <2>6. CASE Update(r) \/ CreatePage(r)
    <3>1. y = AtRest \/ y.at = "record"
      BY <2>6, UpdateTyped, CreatePageTyped
    <3> QED BY <1>1, <1>3, <3>1
  <2>7. ~RestorePage(r)
    <3> SUFFICES ASSUME RestorePage(r) PROVE FALSE
      OBVIOUS
    <3>1. Knows(y, x) /\ x.at = "restore"
      BY RestorePageTyped DEF RestorePage, At
    <3> QED BY <2>2, <3>1 DEF Followed, Knows
  <2>8. CASE Query(r)
    <3>1. /\ UNCHANGED <<local, bound, mark, suppressed, remote>> /\ x.at = "query"
      BY <2>8 DEF Query, At, rows
    <3>2. /\ y.at = "list" /\ y.op = x.op /\ y.target = x.target /\ y.handled = x.handled
          /\ y.sees = [p \in NotionPage |-> IF Visible(p, Aim(r)) THEN remote[p].text ELSE Hidden]
          /\ y.named = {p \in NotionPage : Visible(p, Aim(r)) /\ remote[p].named}
          /\ y.todo = {p \in NotionPage : Visible(p, Aim(r))}
      BY <2>8, QueryTyped
    <3>3. \A p \in NotionPage : remote[p].text # Hidden
      BY Constants DEF NotionTyped, TablesTyped, PageRow
    <3>4. ASSUME NEW p \in NotionPage
          PROVE  /\ y.sees[p] = IF Visible(p, Aim(r)) THEN remote[p].text ELSE Hidden
                 /\ p \in y.named <=> Visible(p, Aim(r)) /\ remote[p].named
                 /\ p \in y.todo <=> Visible(p, Aim(r))
      BY <3>2
    <3>5. Saw(y, remote)
      BY <3>2, <3>3, <3>4 DEF Saw, Visible, Aim
    <3>6. \A p \in NotionPage : y.sees[p] # Hidden => p \in y.todo
      BY <3>4
    <3>7. ~y.handled
      BY <2>2, <3>1, <3>2 DEF Followed
    <3>8. Followed(y, remote, mark[Aim(r)], IsLive, PullMayBind(r))
      BY <3>2, <3>5, <3>6, <3>7 DEF Followed
    <3> QED BY <2>3, <3>1, <3>2, <3>8
  <2>9. CASE ListRows(r)
    <3>1. UNCHANGED <<local, bound, mark, suppressed, remote>> /\ x.at = "list"
      BY <2>9 DEF ListRows, At, rows
    <3>2. /\ y.at = "pages" /\ y.op = x.op /\ y.target = x.target /\ y.handled = x.handled
          /\ y.sees = x.sees /\ y.named = x.named /\ y.todo = x.todo
          /\ y.st = mark[Aim(r)] /\ y.listed = IsLive
      BY <2>9, ListRowsTyped
    <3>3. ~x.handled /\ Saw(x, remote) /\ \A p \in NotionPage : x.sees[p] # Hidden => p \in x.todo
      BY <2>2, <3>1, <3>2 DEF Followed
    <3>4. Pulling(y, remote, mark[Aim(r)], IsLive, PullMayBind(r))
      BY <3>2, <3>3 DEF Pulling, Saw
    <3>5. Followed(y, remote, mark[Aim(r)], IsLive, PullMayBind(r))
      BY <3>2, <3>4 DEF Followed
    <3> QED BY <2>3, <3>1, <3>2, <3>5
  <2>10. ASSUME NEW p \in NotionPage, CheckPage(r, p)
         PROVE  Followed(y, remote', mark'[Aim(r)'], IsLive', PullMayBind(r)')
    <3>1. UNCHANGED <<local, bound, mark, suppressed, remote>>
      BY <2>10 DEF CheckPage, rows
    <3>2. Knows(y, x) /\ x.at = "pages" /\ y.at \in {"pages", "import", "into"}
      BY <2>10, CheckPageTyped
    <3>3. Pulling(x, remote, mark[Aim(r)], IsLive, PullMayBind(r))
      BY <2>2, <3>2 DEF Followed, Knows
    <3>4. Pulling(y, remote, mark[Aim(r)], IsLive, PullMayBind(r))
      BY <2>10, <3>3, CheckedFollowed
    <3>5. Followed(y, remote, mark[Aim(r)], IsLive, PullMayBind(r))
      BY <3>2, <3>4 DEF Followed
    <3> QED BY <2>3, <3>1, <3>2, <3>5 DEF Knows
  <2>11. CASE PullInto(r) \/ ImportPage(r)
    <3>1. Knows(y, x) /\ y.at = "pages" /\ x.at \in {"into", "import"}
      BY <2>11, PulledTyped DEF PullInto, ImportPage, At
    <3>2. Pulling(x, remote, mark[Aim(r)], IsLive, PullMayBind(r))
      BY <2>2, <3>1 DEF Followed, Knows
    <3>3. Pulling(y, remote', mark'[Aim(r)'], IsLive', PullMayBind(r)')
      BY <2>11, <3>2, PulledFollowed
    <3> QED BY <3>1, <3>3 DEF Followed
  <2>12. CASE Sweep(r)
    <3>1. /\ x.op = "both" /\ y.at = "push" /\ y.target = Aim(r) /\ x.at = "pages" /\ UNCHANGED remote
          /\ Aim(r)' = Aim(r)
      BY <1>2, <2>12, SweepTyped DEF Aim, Sweep
    <3>2. bound = Aim(r) /\ IsLive
      <4>1. Rest(r) => y = AtRest
        BY RestTyped DEF NotionTyped
      <4> QED BY <1>2, <2>12, <4>1 DEF Sweep
    <3>3. Pulling(x, remote, mark[Aim(r)], IsLive, PullMayBind(r))
      BY <2>2, <3>1 DEF Followed
    <3>4. Good(mark'[Aim(r)], Aim(r), remote)
      BY <2>12, <3>2, <3>3, SweptFollowed
    <3> QED BY <3>1, <3>4 DEF Followed
  <2>13. CASE PushAfterPull(r)
    <3>1. UNCHANGED <<local, bound, mark, suppressed, remote>> /\ x.at = "push"
      BY <2>13 DEF PushAfterPull, At, rows
    <3>2. bound = Aim(r) /\ IsLive /\ y = Loaded(r, "both", Aim(r))
      BY <1>2, <2>13, PushAfterPullTyped
    <3>3. /\ y.target = Aim(r) /\ x.target = Aim(r)
          /\ y.page = IF mark[Aim(r)].page # NoPage THEN mark[Aim(r)].page ELSE claim
          /\ y.at = IF y.page = NoPage THEN "lookup" ELSE "reserve"
      BY <2>1, <3>2, LoadedTyped DEF Aim
    <3>4. x.op = "both"
      BY <2>2, <3>1 DEF Followed
    <3>5. Good(mark[Aim(r)], Aim(r), remote)
      BY <2>2, <3>1, <3>3, <3>4 DEF Followed
    <3>6. y.at = "reserve" => Known(y.page, remote, mark[Aim(r)])
      BY <2>1, <3>2, <3>3, <3>5, LoadedFollowed
    <3>7. y.at = "lookup" => mark[Aim(r)].page = NoPage
      BY <3>3
    <3>8. Followed(y, remote, mark[Aim(r)], IsLive, PullMayBind(r))
      BY <3>3, <3>5, <3>6, <3>7 DEF Followed
    <3> QED BY <2>3, <3>1, <3>3, <3>8
  <2> QED BY <1>8, <2>4, <2>5, <2>6, <2>7, <2>8, <2>9, <2>10, <2>11, <2>12, <2>13
          DEF RequestStep, PushStep, PullStep
<1> QED BY <1>4, <1>5, <1>6, <1>7, <1>8 DEF RequestStart, RequestStep, PushStep

----------------------------------------------------------------------------
(* The invariant and what follows from it *)

NotionInv == NotionTyped /\ Pages /\ Left /\ StaysDeleted /\ Owned /\ Alone

LEMMA UserTyped == NotionTyped /\ Pages /\ NotionUser => NotionTyped'
BY EditLocalTyped, BindToTyped, UnbindTyped, DeleteLocalTyped, DeleteFromPhoneTyped, PurgeLocalTyped,
   PageEditTyped
   DEF NotionUser

LEMMA RequestTyped ==
  ASSUME NotionTyped, Pages, NEW r \in Request,
         RequestStart(r) \/ RequestStep(r) \/ Breaks(r) \/ UpdateHalf(r)
  PROVE  NotionTyped'
<1>1. CASE RequestStart(r)
  <2>1. CASE StartPush(r)
    BY <2>1, StartPushTyped
  <2>2. ASSUME NEW op \in {"pull", "both"}, NEW t \in Target, StartPull(r, op, t) PROVE NotionTyped'
    BY <2>2, StartPullTyped
  <2>3. ASSUME NEW t \in Target, StartRestore(r, t) \/ StartConfirm(r, t) PROVE NotionTyped'
    BY <2>3, StartGoneTyped
  <2> QED BY <1>1, <2>1, <2>2, <2>3 DEF RequestStart
<1>2. CASE PushStep(r)
  BY <1>2, LookupTyped, ReserveTyped, UpdateTyped, CreatePageTyped, RecordTyped DEF PushStep
<1>3. CASE PullStep(r)
  BY <1>3, QueryTyped, ListRowsTyped, CheckPageTyped, PulledTyped, SweepTyped, PushAfterPullTyped
     DEF PullStep
<1>4. CASE RestorePage(r) \/ Confirm(r) \/ Breaks(r) \/ UpdateHalf(r)
  BY <1>4, RestorePageTyped, ConfirmTyped, BreaksTyped, UpdateHalfTyped
<1> QED BY <1>1, <1>2, <1>3, <1>4 DEF RequestStep

LEMMA NotionStutters == NotionInv /\ UNCHANGED notionVars => NotionInv'
<1> SUFFICES ASSUME NotionInv, UNCHANGED notionVars PROVE NotionInv'
  OBVIOUS
<1>1. /\ UNCHANGED <<local, bound, claim, mark, suppressed, tomb, remote, request>>
      /\ UNCHANGED <<latest, acts, left, deletedWith, alone>>
  BY DEF notionVars, rows, bounds
<1>2. NotionTyped'
  BY <1>1 DEF NotionInv, NotionTyped, TablesTyped, RequestsTyped, HistoryTyped
<1>3. Pages' /\ Left'
  BY <1>1 DEF NotionInv, Pages, Left
<1>4. StaysDeleted' /\ Owned'
  BY <1>1 DEF NotionInv, StaysDeleted, PageBuried, Tombs, Owned, IsLive, Aim
<1>5. Alone'
  BY <1>1 DEF NotionInv, Alone, IsLive, Aim, PullMayBind
<1> QED BY <1>2, <1>3, <1>4, <1>5 DEF NotionInv

LEMMA InvInductive ==
  /\ NotionInit => NotionInv
  /\ NotionInv /\ [NotionNext]_notionVars => NotionInv'
<1>1. NotionInit => NotionInv
  BY InitTyped, InitPages, InitLeft, InitDeleted, InitOwned, InitAlone DEF NotionInv
<1>2. ASSUME NotionInv, NotionUser PROVE NotionInv'
  BY <1>2, UserTyped, UserPages, UserLeft, UserDeleted, UserOwned, UserAlone DEF NotionInv
<1>3. ASSUME NotionInv, NEW r \in Request,
             RequestStart(r) \/ RequestStep(r) \/ Breaks(r) \/ UpdateHalf(r)
      PROVE  NotionInv'
  BY <1>3, RequestTyped, RequestPages, RequestLeft, RequestDeleted, RequestOwned, RequestAlone
     DEF NotionInv
<1> QED BY <1>1, <1>2, <1>3, NotionStutters DEF NotionNext

LEMMA InvHolds == NotionSpec => []NotionInv
BY InvInductive, PTL DEF NotionSpec

LEMMA NotionRowsTyped == NotionInv => NotionTypeOK
BY DEF NotionInv, NotionTyped, TablesTyped, HistoryTyped, NotionTypeOK, TextSeen, PageRow, MarkRow

(***************************************************************************)
(* The rows, pages and requests have their types.                          *)
(***************************************************************************)
THEOREM NotionTypes == NotionSpec => []NotionTypeOK
BY NotionRowsTyped, InvHolds, PTL

LEMMA LeftStaysLeft == NotionInv => LeftForGood
BY DEF NotionInv, Left, LeftForGood

(***************************************************************************)
(* A target that the user left, by DeleteNoteSyncBinding or, with a claim  *)
(* of its page, by a change of target, is not bound again by a request.    *)
(***************************************************************************)
THEOREM LeavingIsFinal == NotionSpec => []LeftForGood
BY LeftStaysLeft, InvHolds, PTL

(* What a pull brings back never carries the page that was deleted.          *)
LEMMA NotBroughtBack ==
  ASSUME NotionInv, NotionNext, ~IsLive, IsLive', deletedWith # NoPage
  PROVE  claim' # deletedWith /\ ~remote[claim'].named
<1>1. PICK r \in Request : ImportPage(r) /\ local.state = "absent" /\ claim' = request[r].page
  BY OnlyImportsRevive DEF NotionInv
<1>2. /\ request[r].at = "import" /\ request[r].page \in NotionPage
      /\ request[r].sees[request[r].page] # Hidden
  BY <1>1, RequestFacts, PulledTyped DEF ImportPage, At, RequestOK, NotionInv
<1>3. remote[request[r].page].target = request[r].target
  BY <1>2 DEF NotionInv, Pages, Aimed
<1>4. remote[deletedWith].target \in Target /\ tomb[remote[deletedWith].target] = deletedWith
  BY DEF NotionInv, StaysDeleted, PageBuried
<1>5. Free(request[r], tomb, remote)
  BY <1>1 DEF NotionInv, StaysDeleted
<1>6. request[r].page # deletedWith
  BY <1>2, <1>3, <1>4, <1>5 DEF Free
<1>7. ~remote[request[r].page].named
  BY <1>2, <1>4, <1>5 DEF Free
<1> QED BY <1>1, <1>6, <1>7

(***************************************************************************)
(* No pull brings back a note that was deleted in the browser, from the    *)
(* page it had claimed or from one that carries its id, as long as its     *)
(* tombstone is there: until the user binds or unbinds the deleted note.   *)
(***************************************************************************)
THEOREM DeletionIsFinal == NotionSpec => DeletedForGood
<1>1. NotionInv /\ [NotionNext]_notionVars =>
        [~IsLive /\ IsLive' /\ deletedWith # NoPage
           => claim' # deletedWith /\ ~remote[claim'].named]_notionVars
  BY NotBroughtBack
<1> QED BY <1>1, InvHolds, PTL DEF NotionSpec, DeletedForGood

(* What an undisturbed update finds on its page.                            *)
Keeps ==
  \A r \in Request :
    Update(r) /\ r \in alone /\ request[r].op = "both"
      => LET p == request[r].page IN
         \/ remote[p].archived
         \/ remote[p].text = mark[Aim(r)].seen /\ mark[Aim(r)].page = p
         \/ \E t \in Target : tomb[t] # NoPage

LEMMA UndisturbedKeeps == NotionInv => Keeps
<1> SUFFICES ASSUME NotionInv, NEW r \in Request, Update(r), r \in alone, request[r].op = "both",
                    \A t \in Target : tomb[t] = NoPage
             PROVE  \/ remote[request[r].page].archived
                    \/ /\ remote[request[r].page].text = mark[Aim(r)].seen
                       /\ mark[Aim(r)].page = request[r].page
  BY DEF Keeps
<1>1. Followed(request[r], remote, mark[Aim(r)], IsLive, PullMayBind(r)) /\ request[r].at = "update"
  BY DEF NotionInv, Alone, Update, At
<1>2. Known(request[r].page, remote, mark[Aim(r)])
  BY <1>1 DEF Followed
<1> QED BY <1>2 DEF Known

(***************************************************************************)
(* A bidirectional sync that nobody disturbs overwrites no text of Notion  *)
(* that it has not taken over, unless a tombstone blocks the page.         *)
(***************************************************************************)
THEOREM UndisturbedEditsAreKept == NotionSpec => EditsKept
<1>1. NotionInv /\ [NotionNext]_notionVars => [Keeps]_notionVars
  BY UndisturbedKeeps
<1> QED BY <1>1, InvHolds, PTL DEF NotionSpec, EditsKept, Keeps

=============================================================================
