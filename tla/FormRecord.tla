------------------------------ MODULE FormRecord ------------------------------
(***************************************************************************)
(* One action of the browser client: its form (view.form.js), its grid     *)
(* (view.grid.js) and the page of records they share (axelor.data.js).     *)
(* Requests are answered late, in any order, or fail; others delete        *)
(* records meanwhile.  A record is its id and whether it was typed into;   *)
(* what the server makes of versions is in RecordStore, here any save and  *)
(* any removal may fail.                                                   *)
(***************************************************************************)
EXTENDS Integers, Sequences, FiniteSets

CONSTANTS
  Ids,      \* the numbers of the records, by which they are listed
  Stored,   \* those that exist at first
  Slots,    \* requests that may be under way at the same time
  Limit,    \* page.limit
  Routes,   \* what menus and the address bar name: records, or 0
  Shared,   \* the records others delete
  MaxSaves, \* bound on the presses of Save not posted yet
  MaxFrom,  \* bound on the offset of a search
  MaxAhead, \* bound on what is under way, asked or waits when the user acts
  ShowConfirm,  \* show-confirm of the view: whether unsaved changes are asked about
  CheckVersion, \* what a click on the tab may lead to: "ask", "silent", or neither
  None

ASSUME FormAssumption ==
  /\ Ids \subseteq Nat \ {0} /\ IsFiniteSet(Ids) /\ Stored \subseteq Ids
  /\ Routes \subseteq Ids \cup {0} /\ Shared \subseteq Ids
  /\ Limit \in Nat \ {0} /\ MaxSaves \in Nat
  /\ MaxFrom \in Nat /\ MaxAhead \in Nat
  /\ ShowConfirm \in BOOLEAN /\ CheckVersion \subseteq {"ask", "silent"}
  /\ None \notin Ids \cup {0}

VARIABLES
  rows,    \* the records there are
  unused,  \* the numbers of records to come
  data,    \* _data: the ids of the records of the page
  page,    \* _page
  form,    \* record: its id (0 for none) and whether it was typed into
  shown,   \* the form is shown, not the grid
  opening, \* onShow waits for ajaxStop with a record (0 for none) to open
  news,    \* default values of new records that wait for the requests under way
  asked,   \* the open confirm dialogs
  waiting, \* presses of Save that wait for the requests under way
  wire,    \* the request or answer under way in each slot
  astray   \* form and page may be at different records, see FormShowsIndex

vars ==
  <<rows, unused, data, page, form, shown, opening, news, asked, waiting, wire, astray>>

Empty == [id |-> 0, typed |-> FALSE]

Init ==
  /\ rows = Stored /\ unused = Ids \ Stored
  /\ data = <<>>
  /\ page = [index |-> 0, from |-> 0, to |-> 0, size |-> 0, total |-> 0]
  /\ form = Empty
  /\ shown = FALSE
  /\ opening = None
  /\ news = 0
  /\ asked = {}
  /\ waiting = 0
  /\ wire = [s \in Slots |-> None]
  /\ astray = FALSE

(***************************************************************************)
(* Requests.  num is the offset of a search, list and total what the       *)
(* server found, then what the sender does with the answer; over says of a *)
(* read that it was sent over changes nobody was asked about.              *)
(***************************************************************************)
Request(kind, id, num, then) ==
  [kind |-> kind, id |-> id, num |-> num, then |-> then,
   list |-> None, total |-> 0, answered |-> FALSE, over |-> FALSE]

SearchFrom(offset, then) == Request("search", 0, offset, then)

Quiet == \A s \in Slots : wire[s] = None

Send(request) == \E s \in Slots : wire[s] = None /\ wire' = [wire EXCEPT ![s] = request]

Search(offset, then) == offset <= MaxFrom /\ Send(SearchFrom(offset, then))

Reading(id, then, typed) == [Request("read", id, 0, then) EXCEPT !.over = typed]

Ahead ==
  Cardinality({s \in Slots : wire[s] # None}) + Cardinality(asked) + waiting + news
    + IF opening = None THEN 0 ELSE 1

(* The user or an action does something while more may be under way. *)
Room == Ahead <= MaxAhead

Meanwhile == astray' = (astray \/ ~Quiet \/ waiting > 0 \/ opening # None)

(***************************************************************************)
(* What the user does at the form, at once or after a confirmation.        *)
(***************************************************************************)
At(index) == IF index \in 0..(Len(data) - 1) THEN data[index + 1] ELSE 0

(* What onNext and onPrev do with the record found, if any. *)
EditAt(index, typed) ==
  IF At(index) = 0 THEN UNCHANGED wire ELSE Send(Reading(At(index), "edit", typed))

(* Mutant of Back: the offset may get below zero. *)
BackBelow(offset) == offset - Limit

Back(offset) == IF offset > Limit THEN offset - Limit ELSE 0

(* Mutant of NextItem: the index is moved on when a page is fetched only. *)
NextItemStays(typed) ==
  IF page.index + 1 < page.size
  THEN EditAt(page.index + 1, typed) /\ UNCHANGED page
  ELSE Search(page.from + Limit, "first") /\ UNCHANGED page

(* nextItem and prevItem; typed is whether changes were not asked about. *)
NextItem(typed) ==
  IF page.index + 1 < page.size
  THEN /\ page' = [page EXCEPT !.index = @ + 1]
       /\ EditAt(page.index + 1, typed)
  ELSE Search(page.from + Limit, "first") /\ UNCHANGED page

PrevItem(typed) ==
  IF page.index - 1 > -1
  THEN /\ page' = [page EXCEPT !.index = @ - 1]
       /\ EditAt(page.index - 1, typed)
  ELSE Search(Back(page.from), "last") /\ UNCHANGED page

(* edit(null), and on:new, for which default values follow. *)
NewRecord == form' = Empty /\ news' = news + 1

Reload(then, typed) ==
  IF form.id # 0 THEN Send(Reading(form.id, then, typed)) /\ UNCHANGED <<form, news>>
  ELSE NewRecord /\ UNCHANGED wire

(* A question and what it is about; onDelete holds on to its record. *)
Question(what) == [what |-> what, id |-> IF what = "delete" THEN form.id ELSE 0]

Do(question, typed) ==
  \/ question.what = "next" /\ NextItem(typed) /\ UNCHANGED <<form, shown, news>>
  \/ question.what = "prev" /\ PrevItem(typed) /\ UNCHANGED <<form, shown, news>>
  \/ question.what = "reload" /\ Reload("edit", typed) /\ UNCHANGED <<page, shown>>
  \/ question.what = "new" /\ NewRecord /\ UNCHANGED <<wire, page, shown>>
  \/ /\ question.what = "grid"
     /\ form' = Empty /\ shown' = FALSE /\ UNCHANGED <<wire, page, news>>
  \/ /\ question.what = "delete"
     /\ Send(Request("remove", question.id, 0, "form"))
     /\ UNCHANGED <<form, page, shown, news>>

Operations == {"next", "prev", "reload", "new", "grid", "delete"}

(* canNext, canPrev and the id onDelete asks for. *)
Allowed(what) ==
  /\ what = "next" =>
       page.index < page.size - 1 \/ page.from + page.index < page.total - 1
  /\ what = "prev" => page.index > 0 \/ page.from > 0
  /\ what = "delete" => form.id # 0

(* confirmDirty, and what follows at once when it does not ask. *)
AskFirst(what) ==
  /\ Room
  /\ IF (form.typed /\ ShowConfirm) \/ what = "delete"
     THEN /\ asked' = asked \cup {Question(what)}
          /\ UNCHANGED <<form, wire, page, shown, news, astray>>
     ELSE Do(Question(what), form.typed) /\ Meanwhile /\ UNCHANGED asked
  /\ UNCHANGED <<rows, unused, data, opening, waiting>>

(* onNext, onPrev, onRefresh, onCancel, onNew, onBack and onDelete. *)
Press(what) == shown /\ asked = {} /\ Allowed(what) /\ AskFirst(what)

Confirm(question) ==
  /\ Ahead <= MaxAhead + 1 /\ asked' = asked \ {question}
  /\ Do(question, FALSE) /\ Meanwhile
  /\ UNCHANGED <<rows, unused, data, opening, waiting>>

Refuse(question) ==
  /\ asked' = asked \ {question}
  /\ UNCHANGED <<rows, unused, data, page, form, shown, opening, news, waiting, wire, astray>>

(* The user types, or an action sets values. *)
Type ==
  /\ shown /\ Room
  /\ form' = [form EXCEPT !.typed = TRUE]
  /\ UNCHANGED <<rows, unused, data, page, shown, opening, news, asked, waiting, wire, astray>>

(* The results new and reload of an action; nobody is asked about a reload. *)
ActionNew == AskFirst("new")

ActionReload ==
  /\ Room /\ Reload("unasked", form.typed) /\ Meanwhile
  /\ UNCHANGED <<rows, unused, data, page, shown, opening, asked, waiting>>

(* on:nav-click: is the record still the one that is stored? *)
NavClick ==
  /\ shown /\ asked = {} /\ form.id # 0 /\ Room
  /\ \E then \in CheckVersion : Send(Request("verify", form.id, 0, then))
  /\ Meanwhile
  /\ UNCHANGED <<rows, unused, data, page, form, shown, opening, news, asked, waiting>>

(* onNewHandler: default values replace the record, which may be another   *)
(* by now, unless an action of the view (onNew) is to fill it.             *)
Defaults ==
  /\ news > 0 /\ Quiet /\ opening = None
  /\ news' = news - 1
  /\ form' = Empty \/ UNCHANGED form
  /\ UNCHANGED <<rows, unused, data, page, shown, opening, asked, waiting, wire, astray>>

Copy ==
  /\ shown /\ asked = {} /\ ~form.typed /\ form.id # 0 /\ Room
  /\ Send(Request("copy", form.id, 0, "edit")) /\ Meanwhile
  /\ UNCHANGED <<rows, unused, data, page, form, shown, opening, news, asked, waiting>>

(* setRouteOptions: the address bar, or a menu for the open tab (id 0). *)
Route(id) ==
  /\ shown /\ id # form.id /\ Room
  /\ IF id = 0 THEN form' = Empty /\ UNCHANGED wire
     ELSE Send(Reading(id, "unasked", form.typed)) /\ UNCHANGED form
  /\ astray' = TRUE
  /\ UNCHANGED <<rows, unused, data, page, shown, opening, news, asked, waiting>>

(* An address of the list for the tab that shows the form. *)
RouteList ==
  /\ shown /\ Room
  /\ form' = Empty /\ shown' = FALSE
  /\ UNCHANGED wire \/ \E offset \in 0..MaxFrom : Search(offset, "filter")
  /\ astray' = TRUE
  /\ UNCHANGED <<rows, unused, data, page, opening, news, asked, waiting>>

(* onSave: waitForActions, then doSave with what the form has by then; at  *)
(* once (wait: false) for an action or a button of a nested grid.          *)
PressSave ==
  /\ shown /\ form.typed /\ Room /\ Meanwhile
  /\ \/ waiting < MaxSaves /\ waiting' = waiting + 1 /\ UNCHANGED wire
     \/ Send(Request("save", form.id, 0, "edit")) /\ UNCHANGED waiting
  /\ UNCHANGED <<rows, unused, data, page, form, shown, opening, news, asked>>

DoSave ==
  /\ waiting > 0 /\ Quiet
  /\ waiting' = waiting - 1
  /\ Send(Request("save", form.id, 0, "edit"))
  /\ UNCHANGED <<rows, unused, data, page, form, shown, opening, news, asked, astray>>

(***************************************************************************)
(* The grid.                                                               *)
(***************************************************************************)
(* onRefresh, filter, onNext and onPrev of the grid. *)
GridSearch ==
  /\ ~shown /\ Room
  /\ \/ \E then \in {"grid", "filter"} : Search(page.from, then)
     \/ page.to < page.total /\ Search(page.from + Limit, "grid")
     \/ page.from > 0 /\ Search(Back(page.from), "grid")
  /\ Meanwhile
  /\ UNCHANGED <<rows, unused, data, page, form, shown, opening, news, asked, waiting>>

(* onEdit of a row, or onNew (index -1); switchTo, and onShow of the form. *)
Open(index) ==
  /\ ~shown /\ asked = {} /\ index < Len(data) /\ Room
  /\ page' = [page EXCEPT !.index = index]
  /\ shown' = TRUE
  /\ opening' = At(index)
  /\ news' = IF index = -1 THEN news + 1 ELSE news
  /\ astray' = ~(Quiet /\ waiting = 0 /\ opening = None /\ form.id = 0)
  /\ UNCHANGED <<rows, unused, data, form, asked, waiting, wire>>

(* The callback of ajaxStop in onShow: a record that came in between wins. *)
Opened ==
  /\ opening # None /\ Quiet
  /\ LET id == IF form.id # 0 THEN form.id ELSE opening
     IN IF id # 0 THEN Send(Reading(id, "edit", FALSE)) /\ UNCHANGED form
        ELSE form' = Empty /\ UNCHANGED wire
  /\ opening' = None
  /\ UNCHANGED <<rows, unused, data, page, shown, news, asked, waiting, astray>>

GridRemove(index) ==
  /\ ~shown /\ asked = {} /\ index \in 0..(Len(data) - 1) /\ Room
  /\ Send(Request("remove", At(index), 0, "grid")) /\ Meanwhile
  /\ UNCHANGED <<rows, unused, data, page, form, shown, opening, news, asked, waiting>>

(***************************************************************************)
(* The server.                                                             *)
(***************************************************************************)
Answered(s, request) == wire' = [wire EXCEPT ![s] = [request EXCEPT !.answered = TRUE]]

ServeSave(s) ==
  /\ wire[s].kind = "save"
  /\ \/ wire[s].id \in rows /\ Answered(s, wire[s]) /\ UNCHANGED <<rows, unused>>
     \/ /\ wire[s].id = 0
        /\ \E id \in unused : /\ rows' = rows \cup {id} /\ unused' = unused \ {id}
                              /\ Answered(s, [wire[s] EXCEPT !.id = id])

ServeRemove(s) ==
  /\ wire[s].kind = "remove" /\ wire[s].id \in rows
  /\ rows' = rows \ {wire[s].id}
  /\ Answered(s, wire[s])
  /\ UNCHANGED unused

Pages == UNION {[1..n -> Ids] : n \in 0..Limit}

(* The records behind the first offset ones, as many as there is room for. *)
IsPage(list, offset) ==
  LET Before(id) == Cardinality({other \in rows : other < id})
  IN /\ \A n \in DOMAIN list : list[n] \in rows /\ Before(list[n]) = offset + n - 1
     /\ Len(list) = Limit \/ Cardinality(rows) <= offset + Len(list)

(* search: fetch, and in a statement of its own, count. *)
Fetch(s) ==
  /\ wire[s].kind = "search" /\ wire[s].list = None
  /\ \E list \in Pages :
       IsPage(list, wire[s].num) /\ wire' = [wire EXCEPT ![s].list = list]
  /\ UNCHANGED <<rows, unused>>

Count(s) ==
  /\ wire[s].kind = "search" /\ wire[s].list # None
  /\ Answered(s, [wire[s] EXCEPT !.total = Cardinality(rows)])
  /\ UNCHANGED <<rows, unused>>

Serve(s) ==
  /\ wire[s] # None /\ ~wire[s].answered
  /\ ServeSave(s) \/ ServeRemove(s) \/ Fetch(s) \/ Count(s)
  /\ UNCHANGED <<data, page, form, shown, opening, news, asked, waiting, astray>>

(* Any request may fail: nothing but an error message comes of it, but for *)
(* a version check.                                                        *)
Fail(s) ==
  /\ wire[s] # None /\ ~wire[s].answered /\ wire[s].kind # "verify"
  /\ wire' = [wire EXCEPT ![s] = None]
  /\ astray' = (astray \/ wire[s].kind = "read")
  /\ UNCHANGED <<rows, unused, data, page, form, shown, opening, news, asked, waiting>>

Others(id) ==
  /\ id \in rows /\ rows' = rows \ {id}
  /\ UNCHANGED <<unused, data, page, form, shown, opening, news, asked, waiting, wire, astray>>

(***************************************************************************)
(* The answers.  Reads and version checks are served when answered, a      *)
(* record deleted in between may or may not have been found.               *)
(***************************************************************************)
Put(s, request) == wire' = [wire EXCEPT ![s] = request]

ReceiveRead(s) ==
  /\ wire[s].kind = "read"
  /\ \/ form' = [id |-> wire[s].id, typed |-> FALSE]
     \/ wire[s].id \notin rows /\ form' = Empty
  /\ Put(s, None)
  /\ UNCHANGED <<data, page, shown, news, asked>>

(* The copy counts as changed. *)
ReceiveCopy(s) ==
  /\ wire[s].kind = "copy"
  /\ form' = [Empty EXCEPT !.typed = TRUE]
  /\ Put(s, None)
  /\ UNCHANGED <<data, page, shown, news, asked>>

InPage(id) == \E n \in DOMAIN data : data[n] = id

(* Mutant of ReceiveSave: the record is added whether it is there or not. *)
ReceiveSaveTwice(s) ==
  /\ wire[s].kind = "save" /\ wire[s].answered
  /\ data' = Append(data, wire[s].id)
  /\ page' = [page EXCEPT !.total = @ + 1, !.size = @ + 1, !.index = page.size]
  /\ Put(s, Reading(wire[s].id, "edit", FALSE))
  /\ UNCHANGED <<form, shown, news, asked>>

(* _accept of a record, then doEdit. *)
ReceiveSave(s) ==
  /\ wire[s].kind = "save" /\ wire[s].answered
  /\ IF InPage(wire[s].id) THEN UNCHANGED <<data, page>>
     ELSE /\ data' = Append(data, wire[s].id)
          /\ page' = [page EXCEPT !.total = @ + 1, !.size = @ + 1, !.index = page.size]
  /\ Put(s, Reading(wire[s].id, "edit", FALSE))
  /\ UNCHANGED <<form, shown, news, asked>>

Without(n) == [m \in 1..(Len(data) - 1) |-> IF m < n THEN data[m] ELSE data[m + 1]]

(* What removeAll does to the page. *)
Removed(id) ==
  IF InPage(id)
  THEN /\ \E n \in DOMAIN data : data[n] = id /\ data' = Without(n)
       /\ page' = [page EXCEPT !.total = @ - 1, !.size = @ - 1]
  ELSE UNCHANGED <<data, page>>

(* Mutant of ReceiveRemove: the form goes without a question. *)
ReceiveRemoveUnasked(s) ==
  /\ wire[s].kind = "remove" /\ wire[s].answered
  /\ Removed(wire[s].id)
  /\ IF wire[s].then = "form"
     THEN Put(s, None) /\ form' = Empty /\ shown' = FALSE /\ UNCHANGED asked
     ELSE /\ Put(s, IF data' = <<>> /\ page'.total > 0 THEN SearchFrom(page.from, "grid") ELSE None)
          /\ UNCHANGED <<form, shown, asked>>
  /\ UNCHANGED news

(* The end of removeAll, and what its callers do then. *)
ReceiveRemove(s) ==
  /\ wire[s].kind = "remove" /\ wire[s].answered
  /\ Removed(wire[s].id)
  /\ IF wire[s].then = "form"
     THEN /\ Put(s, None)
          /\ IF form.typed /\ ShowConfirm
             THEN asked' = asked \cup {Question("grid")} /\ UNCHANGED <<form, shown>>
             ELSE form' = Empty /\ shown' = FALSE /\ UNCHANGED asked
     ELSE /\ Put(s, IF data' = <<>> /\ page'.total > 0 THEN SearchFrom(page.from, "grid") ELSE None)
          /\ UNCHANGED <<form, shown, asked>>
  /\ UNCHANGED news

(* fixPage: the last page, and the offset of the search for it. *)
LastPage(total) ==
  LET cut == total - (total % Limit)
  IN IF cut = total THEN Back(cut) ELSE cut

(* _accept of a page, on which nextItem, prevItem and fixPage go on. *)
ReceiveSearch(s) ==
  /\ wire[s].kind = "search" /\ wire[s].answered
  /\ LET list == wire[s].list
         total == wire[s].total
         size == Len(list)
         then == wire[s].then
         fix == then = "filter" /\ wire[s].num >= total
         from == IF fix THEN LastPage(total) ELSE wire[s].num
         index == IF then = "first" THEN 0 ELSE IF then = "last" THEN size - 1 ELSE -1
     IN /\ data' = list
        /\ page' = [index |-> index, from |-> from, size |-> size, total |-> total,
                    to |-> IF ~fix THEN from + size
                           ELSE IF from + Limit < total THEN from + Limit ELSE total]
        /\ Put(s, IF fix THEN SearchFrom(from, "grid")
                  ELSE IF index \in 0..(size - 1) THEN Reading(list[index + 1], "edit", FALSE)
                  ELSE None)
  /\ UNCHANGED <<form, shown, news, asked>>

(* The callback of the version check, for the form as it is by now. *)
ReceiveVerify(s) ==
  /\ wire[s].kind = "verify"
  /\ \/ Put(s, None) /\ UNCHANGED <<form, news, asked>>
     \/ /\ wire[s].then = "ask"
        /\ Put(s, None) /\ asked' = asked \cup {Question("reload")} /\ UNCHANGED <<form, news>>
     \/ /\ wire[s].then = "silent" /\ UNCHANGED asked
        /\ IF form.id # 0
           THEN Put(s, Reading(form.id, "unasked", form.typed)) /\ UNCHANGED <<form, news>>
           ELSE Put(s, None) /\ NewRecord
  /\ UNCHANGED <<data, page, shown>>

Receive(s) ==
  /\ wire[s] # None
  /\ \/ ReceiveRead(s) \/ ReceiveCopy(s) \/ ReceiveSave(s)
     \/ ReceiveRemove(s) \/ ReceiveSearch(s) \/ ReceiveVerify(s)
  /\ astray' = (astray \/ (wire[s].then = "form" /\ form.typed))
  /\ UNCHANGED <<rows, unused, opening, waiting>>

Next ==
  \/ \E what \in Operations : Press(what)
  \/ \E question \in asked : Confirm(question) \/ Refuse(question)
  \/ Type \/ Copy \/ PressSave \/ DoSave
  \/ ActionNew \/ ActionReload \/ NavClick \/ Defaults
  \/ RouteList \/ \E id \in Routes : Route(id)
  \/ GridSearch \/ Opened
  \/ \E index \in -1..Limit : Open(index) \/ GridRemove(index)
  \/ \E s \in Slots : Serve(s) \/ Fail(s) \/ Receive(s)
  \/ \E id \in Shared : Others(id)

Spec == Init /\ [][Next]_vars

(***************************************************************************)
(* Properties                                                              *)
(***************************************************************************)
Requests ==
  [kind : {"search", "read", "copy", "save", "remove", "verify"}, id : Ids \cup {0}, num : Nat,
   then : {"first", "last", "grid", "filter", "edit", "form", "unasked", "ask", "silent"},
   list : Pages \cup {None}, total : Nat, answered : BOOLEAN, over : BOOLEAN]

(* None stands for null: no request and no list is that. *)
ASSUME NoneAssumption == None \notin Requests \cup Pages

Questions == [what : Operations, id : Ids \cup {0}]

(* The state has its types: ids are ids of records, offsets and sizes of   *)
(* pages never get below zero and the index never below -1.  The total     *)
(* may: a search may count fewer records than it fetched.                  *)
TypeOK ==
  /\ rows \subseteq Ids /\ unused \subseteq Ids
  /\ data \in Seq(Ids)
  /\ page \in [index : Nat \cup {-1}, from : Nat, to : Nat, size : Nat, total : Int]
  /\ form \in [id : Ids \cup {0}, typed : BOOLEAN]
  /\ shown \in BOOLEAN /\ astray \in BOOLEAN
  /\ opening \in Ids \cup {0, None} /\ news \in Nat
  /\ asked \subseteq Questions
  /\ waiting \in 0..MaxSaves
  /\ wire \in [Slots -> Requests \cup {None}]

(* Whatever the order in which searches, saves and removals are answered,  *)
(* page.size is the number of the records in _data, no record is there     *)
(* twice, and although records are fetched and counted apart, the records  *)
(* there never exceed the total by more than a page (_accept, removeAll).  *)
PageMatches ==
  /\ page.size = Len(data) /\ page.size <= page.total + Limit
  /\ \A m, n \in DOMAIN data : data[m] = data[n] => m = n

(* The form shows the record the pager counts (page.from + page.index + 1) *)
(* once all is answered, for a user who waits for each answer, as long as  *)
(* no read fails, nobody types into a record that is being deleted and no  *)
(* menu or address changes the record (nextItem, prevItem, _accept,        *)
(* onShow).  A row opened with nothing under way makes up for all of that. *)
FormShowsIndex ==
  /\ shown /\ Quiet /\ waiting = 0 /\ opening = None /\ ~astray
  /\ form.id # 0
  => At(page.index) \in {0, form.id}

(* Where confirmations are on, what was typed into a form goes only when   *)
(* the user confirms it, when the row opened from the grid is loaded, when *)
(* the default values of a new record are filled in, by a menu or an       *)
(* address for the same tab, by the reload an action asks for, by a silent *)
(* version check, or by the answer to a read or copy that goes back to a   *)
(* command given when nothing was unsaved, to a confirmation or to a save. *)
(* The answers to removals and searches leave it (confirmDirty).           *)
TypingIsKept ==
  [][ShowConfirm /\ form.typed /\ form' # form =>
       \/ asked \ asked' # {}
       \/ opening # None /\ opening' = None
       \/ news' < news
       \/ ActionReload \/ RouteList \/ \E id \in Routes : Route(id)
       \/ \E s \in Slots :
            /\ wire[s] # None /\ wire'[s] = None
            /\ \/ wire[s].then \in {"unasked", "silent"}
               \/ wire[s].kind \in {"read", "copy"} /\ ~wire[s].over]_vars
=============================================================================
