--------------------------- MODULE FormRecordProofs ---------------------------
(* Proofs about FormRecord, for any number of records and requests.        *)
EXTENDS FormRecord, FiniteSetTheorems, TLAPS

(* A save that is answered names the record saved, an answered search has  *)
(* a list, which holds no record twice.                                    *)
Sound(request) ==
  /\ request.kind = "save" /\ request.answered => request.id \in Ids
  /\ request.kind = "search" /\ request.answered => request.list # None
  /\ request.list # None =>
       \A i, j \in DOMAIN request.list : request.list[i] = request.list[j] => i = j

Named(w) == \A s \in Slots : w[s] # None => Sound(w[s])

(* A request as it is sent. *)
New(request) == request \in Requests /\ ~request.answered /\ request.list = None

Wires(w) == w \in [Slots -> Requests \cup {None}] /\ Named(w)

PageType == page \in [index : Nat \cup {-1}, from : Nat, to : Nat, size : Nat, total : Int]

FormType == form \in [id : Ids \cup {0}, typed : BOOLEAN]

IInv == TypeOK /\ PageMatches /\ Named(wire)

(***************************************************************************)
(* Requests and slots.                                                     *)
(***************************************************************************)
LEMMA RequestType ==
  ASSUME NEW kind \in {"search", "read", "copy", "save", "remove", "verify"},
         NEW id \in Ids \cup {0}, NEW num \in Nat,
         NEW then \in {"first", "last", "grid", "filter", "edit", "form", "unasked", "ask", "silent"},
         NEW over \in BOOLEAN
  PROVE  New(Request(kind, id, num, then)) /\ New([Request(kind, id, num, then) EXCEPT !.over = over])
BY DEF Request, Requests, New

LEMMA ReadingType ==
  ASSUME NEW id \in Ids \cup {0}, NEW then \in {"edit", "unasked"}, NEW typed \in BOOLEAN
  PROVE  New(Reading(id, then, typed))
<1>1. 0 \in Nat
  OBVIOUS
<1> QED BY <1>1, RequestType DEF Reading

LEMMA SearchType ==
  ASSUME NEW offset \in Nat, NEW then \in {"first", "last", "grid", "filter"}
  PROVE  New(SearchFrom(offset, then))
BY RequestType DEF SearchFrom

(* What is put into a slot is a request as it is sent, or nothing. *)
LEMMA Putting ==
  ASSUME Wires(wire), NEW s \in Slots, NEW request,
         request = None \/ New(request),
         wire' = [wire EXCEPT ![s] = request]
  PROVE  Wires(wire')
<1>1. wire' \in [Slots -> Requests \cup {None}]
  BY DEF Wires, New
<1>2. \A t \in Slots : wire'[t] = IF t = s THEN request ELSE wire[t]
  BY DEF Wires
<1>3. New(request) => Sound(request)
  BY DEF New, Sound
<1>4. Named(wire')
  BY <1>2, <1>3 DEF Wires, Named
<1> QED BY <1>1, <1>4 DEF Wires

LEMMA Sending ==
  ASSUME Wires(wire), NEW request, New(request), Send(request)
  PROVE  Wires(wire')
BY Putting DEF Send

(***************************************************************************)
(* The data source.                                                        *)
(***************************************************************************)
LEMMA BackType ==
  ASSUME NEW offset \in Nat
  PROVE  Back(offset) \in Nat
BY FormAssumption DEF Back

LEMMA AtType ==
  ASSUME data \in Seq(Ids), NEW index \in Int
  PROVE  At(index) \in Ids \cup {0}
BY DEF At

LEMMA LastPageType ==
  ASSUME NEW total \in Nat
  PROVE  LastPage(total) \in Nat
<1> DEFINE cut == total - (total % Limit)
<1>1. total % Limit \in 0..(Limit - 1) /\ total = Limit * (total \div Limit) + (total % Limit)
  BY FormAssumption
<1>2. total \div Limit \in Nat
  BY FormAssumption
<1>3. cut = Limit * (total \div Limit)
  BY <1>1, <1>2, FormAssumption
<1>4. cut \in Nat
  BY <1>2, <1>3, FormAssumption
<1> QED BY <1>4, BackType DEF LastPage

LEMMA Searching ==
  ASSUME Wires(wire), NEW offset \in Nat, NEW then \in {"first", "last", "grid", "filter"},
         Search(offset, then)
  PROVE  Wires(wire')
BY Sending, SearchType DEF Search

LEMMA Editing ==
  ASSUME Wires(wire), data \in Seq(Ids), NEW index \in Int, NEW typed \in BOOLEAN,
         EditAt(index, typed)
  PROVE  Wires(wire')
<1>1. CASE At(index) = 0
  BY <1>1 DEF EditAt, Wires, Named
<1>2. CASE At(index) # 0
  <2>1. At(index) \in Ids \cup {0}
    BY AtType
  <2>2. Send(Reading(At(index), "edit", typed))
    BY <1>2 DEF EditAt
  <2>3. New(Reading(At(index), "edit", typed))
    BY <2>1, ReadingType
  <2> QED BY <2>2, <2>3, Sending
<1> QED BY <1>1, <1>2

(* Next and previous move the index only. *)
LEMMA Moving ==
  ASSUME Wires(wire), data \in Seq(Ids), PageType, NEW typed \in BOOLEAN,
         NextItem(typed) \/ PrevItem(typed)
  PROVE  Wires(wire') /\ PageType' /\ page'.size = page.size /\ page'.total = page.total
<1>1. ASSUME NEW index \in Nat, page' = [page EXCEPT !.index = index]
      PROVE  PageType' /\ page'.size = page.size /\ page'.total = page.total
  BY <1>1 DEF PageType
<1>2. page.index \in Int /\ page.from + Limit \in Nat /\ Back(page.from) \in Nat
  <2>1. page.from \in Nat /\ page.index \in Int
    BY DEF PageType
  <2>2. Limit \in Nat
    BY FormAssumption
  <2>3. page.from + Limit \in Nat
    BY <2>1, <2>2
  <2>4. Back(page.from) \in Nat
    BY <2>1, BackType
  <2> QED BY <2>1, <2>3, <2>4
<1>3. CASE NextItem(typed)
  <2>1. CASE page.index + 1 < page.size
    <3>1. page.index + 1 \in Nat /\ page' = [page EXCEPT !.index = page.index + 1]
      BY <1>3, <2>1 DEF NextItem, PageType
    <3>2. EditAt(page.index + 1, typed)
      BY <1>3, <2>1 DEF NextItem
    <3> QED BY <3>1, <3>2, <1>1, Editing
  <2>2. CASE ~(page.index + 1 < page.size)
    BY <1>2, <1>3, <2>2, Searching DEF NextItem, PageType
  <2> QED BY <2>1, <2>2
<1>4. CASE PrevItem(typed)
  <2>1. CASE page.index - 1 > -1
    <3>1. page.index - 1 \in Nat /\ page' = [page EXCEPT !.index = page.index - 1]
      BY <1>4, <2>1 DEF PrevItem, PageType
    <3>2. EditAt(page.index - 1, typed)
      BY <1>4, <2>1 DEF PrevItem
    <3> QED BY <3>1, <3>2, <1>1, Editing
  <2>2. CASE ~(page.index - 1 > -1)
    BY <1>2, <1>4, <2>2, Searching DEF PrevItem, PageType
  <2> QED BY <2>1, <2>2
<1> QED BY <1>3, <1>4

LEMMA Reloading ==
  ASSUME Wires(wire), FormType, news \in Nat,
         NEW then \in {"edit", "unasked"}, NEW typed \in BOOLEAN, Reload(then, typed)
  PROVE  Wires(wire') /\ FormType' /\ news' \in Nat
<1>1. form.id \in Ids \cup {0} /\ Empty \in [id : Ids \cup {0}, typed : BOOLEAN]
  BY DEF FormType, Empty
<1>2. CASE form.id # 0
  <2>1. New(Reading(form.id, then, typed))
    BY <1>1, ReadingType
  <2>2. Send(Reading(form.id, then, typed)) /\ UNCHANGED <<form, news>>
    BY <1>2 DEF Reload
  <2>3. Wires(wire')
    BY <2>1, <2>2, Sending
  <2> QED BY <2>2, <2>3 DEF FormType
<1>3. CASE form.id = 0
  BY <1>1, <1>3 DEF Reload, NewRecord, FormType, Wires, Named
<1> QED BY <1>2, <1>3

(* What the user does at the form leaves records and counts alone. *)
LEMMA Doing ==
  ASSUME Wires(wire), data \in Seq(Ids), PageType, FormType, shown \in BOOLEAN, news \in Nat,
         NEW question \in Questions, NEW typed \in BOOLEAN, Do(question, typed)
  PROVE  /\ Wires(wire') /\ PageType' /\ FormType' /\ shown' \in BOOLEAN /\ news' \in Nat
         /\ page'.size = page.size /\ page'.total = page.total
<1>1. question.id \in Ids \cup {0} /\ form.id \in Ids \cup {0} /\ Empty \in [id : Ids \cup {0}, typed : BOOLEAN]
  BY DEF Questions, FormType, Empty
<1>2. CASE (NextItem(typed) \/ PrevItem(typed)) /\ UNCHANGED <<form, shown, news>>
  BY <1>2, Moving DEF FormType
<1>3. CASE Reload("edit", typed) /\ UNCHANGED <<page, shown>>
  BY <1>3, Reloading DEF PageType
<1>4. CASE form' = Empty /\ news' \in {news, news + 1} /\ UNCHANGED <<wire, page>> /\ shown' \in {shown, FALSE}
  <2>1. shown' \in BOOLEAN
    BY <1>4, Zenon
  <2>2. news' \in Nat
    BY <1>4
  <2> QED BY <1>1, <1>4, <2>1, <2>2 DEF PageType, FormType, Wires, Named
<1>5. CASE Send(Request("remove", question.id, 0, "form")) /\ UNCHANGED <<form, page, shown, news>>
  <2>1. Wires(wire')
    BY <1>1, <1>5, RequestType, Sending
  <2> QED BY <1>5, <2>1 DEF PageType, FormType
<1>6. CASE NewRecord /\ UNCHANGED <<wire, page, shown>>
  BY <1>4, <1>6 DEF NewRecord
<1> QED BY <1>2, <1>3, <1>4, <1>5, <1>6 DEF Do

LEMMA IsSequence ==
  ASSUME NEW k \in Nat, NEW f \in [1..k -> Ids]
  PROVE  f \in Seq(Ids) /\ Len(f) = k
OBVIOUS

(* A record is taken out of a page: those left are as they were. *)
LEMMA WithoutOne ==
  ASSUME data \in Seq(Ids), NEW n \in DOMAIN data,
         \A i, j \in DOMAIN data : data[i] = data[j] => i = j
  PROVE  /\ Without(n) \in Seq(Ids) /\ Len(Without(n)) = Len(data) - 1
         /\ \A i, j \in DOMAIN Without(n) : Without(n)[i] = Without(n)[j] => i = j
<1> DEFINE left == Without(n)
<1>1. Len(data) \in Nat /\ n \in 1..Len(data) /\ DOMAIN data = 1..Len(data) /\ Len(data) - 1 \in Nat
  OBVIOUS
<1>2. left \in [1..(Len(data) - 1) -> Ids]
  <2>1. ASSUME NEW m \in 1..(Len(data) - 1) PROVE m \in DOMAIN data /\ m + 1 \in DOMAIN data
    BY <1>1
  <2>2. \A m \in 1..(Len(data) - 1) : data[m] \in Ids /\ data[m + 1] \in Ids
    BY <2>1
  <2> QED BY <2>2 DEF Without
<1>3. left \in Seq(Ids) /\ Len(left) = Len(data) - 1
  BY <1>1, <1>2, IsSequence
<1>4. ASSUME NEW i \in 1..(Len(data) - 1), NEW j \in 1..(Len(data) - 1), left[i] = left[j]
      PROVE  i = j
  BY <1>1, <1>4 DEF Without
<1>5. DOMAIN left = 1..(Len(data) - 1)
  BY <1>2
<1> QED BY <1>3, <1>4, <1>5

(* A page found by a search holds no record twice. *)
LEMMA Found ==
  ASSUME NEW list \in Pages, NEW offset \in Nat, IsPage(list, offset)
  PROVE  \A i, j \in DOMAIN list : list[i] = list[j] => i = j
<1>1. PICK n \in 0..Limit : list \in [1..n -> Ids]
  BY DEF Pages
<1>2. n \in Nat /\ DOMAIN list = 1..n
  BY <1>1, FormAssumption
<1>3. ASSUME NEW i \in 1..n, NEW j \in 1..n, list[i] = list[j] PROVE i = j
  <2>1. Cardinality({other \in rows : other < list[i]}) = offset + i - 1
    BY <1>2 DEF IsPage
  <2>2. Cardinality({other \in rows : other < list[j]}) = offset + j - 1
    BY <1>2 DEF IsPage
  <2>3. offset + i - 1 = offset + j - 1
    BY <1>3, <2>1, <2>2
  <2> QED BY <1>2, <2>3
<1> QED BY <1>2, <1>3

LEMMA RowsCount ==
  ASSUME rows \subseteq Ids
  PROVE  Cardinality(rows) \in Nat
<1>1. IsFiniteSet(Ids) /\ rows \in SUBSET Ids
  BY FormAssumption
<1>2. IsFiniteSet(rows)
  BY <1>1, FS_Subset
<1> QED BY <1>2, FS_CardinalityType

LEMMA PageLength ==
  ASSUME NEW list \in Pages
  PROVE  list \in Seq(Ids) /\ Len(list) \in Nat /\ Len(list) <= Limit
<1>1. PICK n \in 0..Limit : list \in [1..n -> Ids]
  BY DEF Pages
<1>2. n \in Nat /\ n <= Limit
  BY <1>1, FormAssumption
<1>3. list \in Seq(Ids) /\ Len(list) = n
  BY <1>1, <1>2, IsSequence
<1> QED BY <1>2, <1>3

(***************************************************************************)
(* The invariant.                                                          *)
(***************************************************************************)
(* What IInv says, part by part. *)
LEMMA Parts ==
  IInv <=> /\ rows \subseteq Ids /\ unused \subseteq Ids /\ data \in Seq(Ids)
           /\ PageType /\ FormType /\ shown \in BOOLEAN /\ astray \in BOOLEAN
           /\ opening \in Ids \cup {0, None} /\ news \in Nat /\ asked \subseteq Questions
           /\ waiting \in 0..MaxSaves /\ Wires(wire) /\ PageMatches
BY DEF IInv, TypeOK, PageType, FormType, Wires

LEMMA PartsNext ==
  IInv' <=> /\ rows' \subseteq Ids /\ unused' \subseteq Ids /\ data' \in Seq(Ids)
            /\ PageType' /\ FormType' /\ shown' \in BOOLEAN /\ astray' \in BOOLEAN
            /\ opening' \in Ids \cup {0, None} /\ news' \in Nat /\ asked' \subseteq Questions
            /\ waiting' \in 0..MaxSaves /\ Wires(wire') /\ PageMatches'
BY DEF IInv, TypeOK, PageType, FormType, Wires

LEMMA InitInv == Init => IInv
<1> SUFFICES ASSUME Init PROVE IInv
  OBVIOUS
<1>1. data = <<>> /\ data \in Seq(Ids)
  BY DEF Init
<1>2. PageType /\ PageMatches
  BY <1>1, FormAssumption DEF Init, PageType, PageMatches
<1>3. FormType /\ shown \in BOOLEAN /\ astray \in BOOLEAN
  BY DEF Init, FormType, Empty
<1>4. wire \in [Slots -> Requests \cup {None}] /\ \A s \in Slots : wire[s] = None
  BY DEF Init
<1>5. Wires(wire)
  BY <1>4 DEF Wires, Named
<1>6. rows \subseteq Ids /\ unused \subseteq Ids /\ waiting \in 0..MaxSaves
  BY FormAssumption DEF Init
<1>7. opening \in Ids \cup {0, None} /\ news \in Nat /\ asked \subseteq Questions
  BY DEF Init
<1> QED BY <1>1, <1>2, <1>3, <1>5, <1>6, <1>7, Parts

LEMMA QuestionType ==
  ASSUME FormType, NEW what \in Operations
  PROVE  Question(what) \in Questions
BY DEF FormType, Question, Questions

LEMMA MeanwhileType ==
  ASSUME Meanwhile, astray \in BOOLEAN
  PROVE  astray' \in BOOLEAN
BY Zenon DEF Meanwhile

LEMMA SameCounts ==
  ASSUME PageMatches, UNCHANGED data, page'.size = page.size, page'.total = page.total
  PROVE  PageMatches'
BY DEF PageMatches

(* What may ask first. *)
LEMMA AskStep ==
  ASSUME IInv, NEW what \in Operations, AskFirst(what)
  PROVE  IInv'
<1> USE Parts, PartsNext
<1>1. Question(what) \in Questions /\ form.typed \in BOOLEAN
  BY QuestionType DEF FormType
<1> DEFINE asks == (form.typed /\ ShowConfirm) \/ what = "delete"
<1>2. CASE asks
  <2>1. asked' = asked \cup {Question(what)}
        /\ UNCHANGED <<form, wire, page, shown, news, astray, rows, unused, data, opening, waiting>>
    BY <1>2 DEF AskFirst
  <2>2. PageType' /\ FormType' /\ Wires(wire') /\ PageMatches'
    BY <2>1 DEF PageType, FormType, PageMatches
  <2> QED BY <1>1, <2>1, <2>2
<1>3. CASE ~asks
  <2>1. Do(Question(what), form.typed) /\ Meanwhile
        /\ UNCHANGED <<asked, rows, unused, data, opening, waiting>>
    BY <1>3 DEF AskFirst
  <2>2. /\ Wires(wire') /\ PageType' /\ FormType' /\ shown' \in BOOLEAN /\ news' \in Nat
        /\ page'.size = page.size /\ page'.total = page.total
    BY <1>1, <2>1, Doing
  <2>3. PageMatches' /\ astray' \in BOOLEAN
    BY <2>1, <2>2, SameCounts, MeanwhileType
  <2> QED BY <2>1, <2>2, <2>3
<1> QED BY <1>2, <1>3

(* The steps at the form that ask, or were asked about. *)
AtForm ==
  \/ \E what \in Operations : Press(what)
  \/ \E question \in asked : Confirm(question) \/ Refuse(question)
  \/ Type \/ Copy \/ PressSave \/ DoSave

(* Those that nobody is asked about. *)
Unbidden ==
  \/ ActionNew \/ ActionReload \/ NavClick \/ Defaults
  \/ RouteList \/ \E id \in Routes : Route(id)

(* The user at the form. *)
LEMMA FormStep ==
  ASSUME IInv, AtForm
  PROVE  IInv'
<1> USE Parts, PartsNext
<1>1. ASSUME NEW what \in Operations, Press(what) PROVE IInv'
  BY <1>1, AskStep DEF Press
<1>2. ASSUME NEW question \in asked, Confirm(question) PROVE IInv'
  <2>1. Do(question, FALSE) /\ Meanwhile /\ question \in Questions /\ asked' \subseteq Questions
        /\ UNCHANGED <<rows, unused, data, opening, waiting>>
    BY <1>2 DEF Confirm
  <2>2. /\ Wires(wire') /\ PageType' /\ FormType' /\ shown' \in BOOLEAN /\ news' \in Nat
        /\ page'.size = page.size /\ page'.total = page.total
    BY <2>1, Doing
  <2>3. PageMatches' /\ astray' \in BOOLEAN
    BY <2>1, <2>2, SameCounts, MeanwhileType
  <2> QED BY <2>1, <2>2, <2>3
<1>3. ASSUME NEW question \in asked, Refuse(question) PROVE IInv'
  BY <1>3 DEF Refuse, PageType, FormType, PageMatches
<1>4. CASE Type
  <2>1. FormType'
    BY <1>4 DEF Type, FormType
  <2> QED BY <1>4, <2>1 DEF Type, PageType, PageMatches
<1>5. CASE Copy
  <2>1. New(Request("copy", form.id, 0, "edit"))
    BY RequestType DEF FormType
  <2>2. Wires(wire') /\ astray' \in BOOLEAN
    BY <1>5, <2>1, Sending, MeanwhileType DEF Copy
  <2> QED BY <1>5, <2>2 DEF Copy, PageType, FormType, PageMatches
<1>6. New(Request("save", form.id, 0, "edit"))
  BY RequestType DEF FormType
<1>7. CASE PressSave
  <2>1. waiting' \in 0..MaxSaves
    BY <1>7, FormAssumption DEF PressSave
  <2>2. astray' \in BOOLEAN
    BY <1>7, MeanwhileType DEF PressSave
  <2>3. UNCHANGED wire \/ Send(Request("save", form.id, 0, "edit"))
    BY <1>7 DEF PressSave
  <2>4. Wires(wire')
    BY <1>6, <2>3, Sending DEF Wires, Named
  <2> QED BY <1>7, <2>1, <2>2, <2>4 DEF PressSave, PageType, FormType, PageMatches
<1>8. CASE DoSave
  <2>1. Wires(wire')
    BY <1>6, <1>8, Sending DEF DoSave
  <2>2. waiting' \in 0..MaxSaves
    BY <1>8, FormAssumption DEF DoSave
  <2> QED BY <1>8, <2>1, <2>2 DEF DoSave, PageType, FormType, PageMatches
<1> QED BY <1>1, <1>2, <1>3, <1>4, <1>5, <1>7, <1>8 DEF AtForm

LEMMA UnbiddenStep ==
  ASSUME IInv, Unbidden
  PROVE  IInv'
<1> USE Parts, PartsNext
<1>0. Empty \in [id : Ids \cup {0}, typed : BOOLEAN] /\ form.typed \in BOOLEAN
  BY DEF Empty, FormType
<1>1. CASE ActionNew
  BY <1>1, AskStep DEF ActionNew, Operations
<1>2. CASE ActionReload
  <2>1. Reload("unasked", form.typed) /\ Meanwhile
        /\ UNCHANGED <<rows, unused, data, page, shown, opening, asked, waiting>>
    BY <1>2 DEF ActionReload
  <2>2. Wires(wire') /\ FormType' /\ news' \in Nat /\ astray' \in BOOLEAN
    BY <1>0, <2>1, Reloading, MeanwhileType
  <2> QED BY <2>1, <2>2 DEF PageType, PageMatches
<1>3. CASE NavClick
  <2>1. PICK then \in {"ask", "silent"} : Send(Request("verify", form.id, 0, then))
    BY <1>3, FormAssumption DEF NavClick
  <2>2. New(Request("verify", form.id, 0, then))
    BY RequestType DEF FormType
  <2>3. Wires(wire') /\ astray' \in BOOLEAN
    BY <1>3, <2>1, <2>2, Sending, MeanwhileType DEF NavClick
  <2> QED BY <1>3, <2>3 DEF NavClick, PageType, FormType, PageMatches
<1>4. CASE Defaults
  <2>1. news' \in Nat
    BY <1>4 DEF Defaults
  <2>2. form' \in {Empty, form}
    BY <1>4 DEF Defaults
  <2> QED BY <1>0, <1>4, <2>1, <2>2 DEF Defaults, PageType, FormType, PageMatches
<1>5. CASE RouteList
  <2>1. UNCHANGED wire \/ \E offset \in Nat : Search(offset, "filter")
    <3>1. 0..MaxFrom \subseteq Nat
      BY FormAssumption
    <3> QED BY <1>5, <3>1 DEF RouteList
  <2>2. Wires(wire')
    BY <2>1, Searching DEF Wires, Named
  <2> QED BY <1>0, <1>5, <2>2 DEF RouteList, PageType, FormType, PageMatches
<1>6. ASSUME NEW id \in Routes, Route(id) PROVE IInv'
  <2>1. id \in Ids \cup {0}
    BY FormAssumption
  <2>2. Wires(wire') /\ FormType'
    <3>1. CASE id = 0
      <4>1. form' = Empty /\ UNCHANGED wire
        BY <1>6, <3>1 DEF Route
      <4> QED BY <1>0, <4>1 DEF FormType
    <3>2. CASE id # 0
      <4>1. Send(Reading(id, "unasked", form.typed)) /\ UNCHANGED form
        BY <1>6, <3>2 DEF Route
      <4>2. New(Reading(id, "unasked", form.typed))
        BY <1>0, <2>1, ReadingType
      <4> QED BY <4>1, <4>2, Sending DEF FormType
    <3> QED BY <3>1, <3>2
  <2> QED BY <1>6, <2>2 DEF Route, PageType, PageMatches
<1> QED BY <1>1, <1>2, <1>3, <1>4, <1>5, <1>6 DEF Unbidden

(* The user at the grid. *)
LEMMA GridStep ==
  ASSUME IInv,
         \/ GridSearch \/ Opened
         \/ \E index \in -1..Limit : Open(index) \/ GridRemove(index)
  PROVE  IInv'
<1> USE Parts, PartsNext
<1>1. CASE GridSearch
  <2>1. page.from \in Nat /\ Limit \in Nat
    BY FormAssumption DEF PageType
  <2>2. page.from + Limit \in Nat /\ Back(page.from) \in Nat
    <3>1. Back(page.from) \in Nat
      BY <2>1, BackType
    <3>2. page.from + Limit \in Nat
      BY <2>1
    <3> QED BY <3>1, <3>2
  <2>3. \E offset \in Nat : \E then \in {"first", "last", "grid", "filter"} : Search(offset, then)
    BY <1>1, <2>1, <2>2 DEF GridSearch
  <2>4. Wires(wire') /\ astray' \in BOOLEAN
    BY <1>1, <2>3, Searching, MeanwhileType DEF GridSearch
  <2> QED BY <1>1, <2>4 DEF GridSearch, PageType, FormType, PageMatches
<1>2. CASE Opened
  <2>1. form.id \in Ids \cup {0} /\ opening \in Ids \cup {0}
    BY <1>2 DEF Opened, FormType
  <2> DEFINE id == IF form.id # 0 THEN form.id ELSE opening
  <2>2. Wires(wire') /\ FormType'
    <3>1. CASE id = 0
      <4>1. form' = Empty /\ UNCHANGED wire
        BY <1>2, <3>1 DEF Opened
      <4>2. FormType'
        BY <4>1 DEF FormType, Empty
      <4> QED BY <4>1, <4>2
    <3>2. CASE id # 0
      <4>1. Send(Reading(id, "edit", FALSE)) /\ UNCHANGED form
        BY <1>2, <3>2 DEF Opened
      <4>2. id \in Ids \cup {0}
        BY <2>1
      <4>3. New(Reading(id, "edit", FALSE))
        BY <4>2, ReadingType
      <4> QED BY <4>1, <4>3, Sending DEF FormType
    <3> QED BY <3>1, <3>2
  <2> QED BY <1>2, <2>2 DEF Opened, PageType, PageMatches
<1>3. ASSUME NEW index \in -1..Limit, Open(index) PROVE IInv'
  <2>1. index \in Nat \cup {-1} /\ index \in Int
    BY FormAssumption
  <2>2. PageType' /\ page'.size = page.size /\ page'.total = page.total
    BY <1>3, <2>1 DEF Open, PageType
  <2>3. PageMatches'
    BY <1>3, <2>2, SameCounts DEF Open
  <2>4. opening' \in Ids \cup {0, None} /\ news' \in Nat
    BY <1>3, <2>1, AtType DEF Open
  <2>5. shown' \in BOOLEAN /\ astray' \in BOOLEAN
    BY <1>3, Zenon DEF Open
  <2> QED BY <1>3, <2>2, <2>3, <2>4, <2>5 DEF Open, FormType
<1>4. ASSUME NEW index \in -1..Limit, GridRemove(index) PROVE IInv'
  <2>1. At(index) \in Ids \cup {0}
    BY FormAssumption, AtType
  <2>2. New(Request("remove", At(index), 0, "grid"))
    BY <2>1, RequestType
  <2>3. Wires(wire') /\ astray' \in BOOLEAN
    BY <1>4, <2>2, Sending, MeanwhileType DEF GridRemove
  <2> QED BY <1>4, <2>3 DEF GridRemove, PageType, FormType, PageMatches
<1> QED BY <1>1, <1>2, <1>3, <1>4

(* The server, and what gets lost. *)
LEMMA ServerStep ==
  ASSUME IInv,
         \/ \E s \in Slots : Serve(s) \/ Fail(s)
         \/ \E id \in Shared : Others(id)
  PROVE  IInv'
<1> USE Parts, PartsNext
<1>1. ASSUME NEW s \in Slots, Serve(s) PROVE IInv'
  <2>1. wire \in [Slots -> Requests \cup {None}] /\ Named(wire) /\ wire[s] \in Requests
        /\ Sound(wire[s])
    BY <1>1 DEF Serve, Wires, Named
  <2>0. ASSUME NEW answer \in Requests, Sound(answer), wire' = [wire EXCEPT ![s] = answer]
        PROVE  Wires(wire')
    <3>1. wire' \in [Slots -> Requests \cup {None}]
      BY <2>0, <2>1
    <3>2. \A t \in Slots : wire'[t] = IF t = s THEN answer ELSE wire[t]
      BY <2>0, <2>1
    <3>3. Named(wire')
      BY <2>0, <2>1, <3>2 DEF Named
    <3> QED BY <3>1, <3>3 DEF Wires
  <2>2. ASSUME NEW request \in Requests, request.kind = "save" => request.id \in Ids,
               request.kind = "search" => request.list # None, request.list = wire[s].list,
               Answered(s, request)
        PROVE  Wires(wire')
    <3> DEFINE answer == [request EXCEPT !.answered = TRUE]
    <3>1. answer \in Requests /\ answer.kind = request.kind /\ answer.id = request.id
          /\ answer.list = request.list
      BY DEF Requests
    <3> HIDE DEF answer
    <3>2. wire' = [wire EXCEPT ![s] = answer]
      BY <2>2 DEF Answered, answer
    <3>3. Sound(answer)
      BY <2>1, <2>2, <3>1 DEF Sound
    <3> QED BY <2>0, <3>1, <3>2, <3>3
  <2>3. Wires(wire') /\ rows' \subseteq Ids /\ unused' \subseteq Ids
    <3>1. CASE wire[s].kind = "save" /\ wire[s].id \in rows /\ Answered(s, wire[s])
               /\ UNCHANGED <<rows, unused>>
      BY <2>1, <2>2, <3>1
    <3>2. ASSUME NEW id \in unused, wire[s].kind = "save", rows' = rows \cup {id}, unused' = unused \ {id},
                 Answered(s, [wire[s] EXCEPT !.id = id])
          PROVE  Wires(wire') /\ rows' \subseteq Ids /\ unused' \subseteq Ids
      <4>1. id \in Ids
        OBVIOUS
      <4> DEFINE named == [wire[s] EXCEPT !.id = id]
      <4>2. named \in Requests /\ named.id = id /\ named.kind = "save" /\ named.list = wire[s].list
        BY <2>1, <3>2, <4>1 DEF Requests
      <4> HIDE DEF named
      <4>3. Wires(wire')
        BY <2>2, <3>2, <4>1, <4>2 DEF named
      <4> QED BY <3>2, <4>1, <4>3
    <3>3. CASE ServeRemove(s)
      BY <2>1, <2>2, <3>3 DEF ServeRemove
    <3>4. CASE Fetch(s)
      <4>1. PICK list \in Pages :
               IsPage(list, wire[s].num) /\ wire' = [wire EXCEPT ![s].list = list]
        BY <3>4 DEF Fetch
      <4> DEFINE fetched == [wire[s] EXCEPT !.list = list]
      <4>2. /\ fetched \in Requests /\ fetched.kind = wire[s].kind /\ fetched.list = list
            /\ fetched.answered = wire[s].answered /\ wire[s].num \in Nat
        BY <2>1 DEF Requests
      <4>3. wire' = [wire EXCEPT ![s] = fetched] /\ ~wire[s].answered /\ wire[s].kind = "search"
        BY <1>1, <3>4, <4>1 DEF Serve, Fetch
      <4> HIDE DEF fetched
      <4>4. Sound(fetched)
        BY <4>1, <4>2, <4>3, Found DEF Sound
      <4> QED BY <2>0, <3>4, <4>2, <4>3, <4>4 DEF Fetch
    <3>5. CASE Count(s)
      <4> DEFINE counted == [wire[s] EXCEPT !.total = Cardinality(rows)]
      <4>1. Cardinality(rows) \in Nat
        BY RowsCount
      <4>2. counted \in Requests /\ counted.kind = "search" /\ counted.list = wire[s].list
            /\ counted.list # None
        BY <2>1, <3>5, <4>1 DEF Requests, Count
      <4>3. Answered(s, counted) /\ UNCHANGED <<rows, unused>>
        BY <3>5 DEF Count
      <4> HIDE DEF counted
      <4> QED BY <2>2, <4>2, <4>3
    <3> QED BY <1>1, <3>1, <3>2, <3>3, <3>4, <3>5 DEF Serve, ServeSave
  <2> QED BY <1>1, <2>3 DEF Serve, PageType, FormType, PageMatches
<1>2. ASSUME NEW s \in Slots, Fail(s) PROVE IInv'
  <2>1. Wires(wire')
    BY <1>2, Putting DEF Fail
  <2>2. astray' \in BOOLEAN
    BY <1>2, Zenon DEF Fail
  <2> QED BY <1>2, <2>1, <2>2 DEF Fail, PageType, FormType, PageMatches
<1>3. ASSUME NEW id \in Shared, Others(id) PROVE IInv'
  BY <1>3 DEF Others, PageType, FormType, PageMatches
<1> QED BY <1>1, <1>2, <1>3

(***************************************************************************)
(* The answers.                                                            *)
(***************************************************************************)
LEMMA Counting ==
  ASSUME PageType, NEW index \in Nat \cup {-1}, NEW size \in Nat, NEW total \in Int,
         page' = [page EXCEPT !.total = total, !.size = size, !.index = index]
  PROVE  PageType' /\ page'.size = size /\ page'.total = total
<1> DEFINE counted == [[page EXCEPT !.total = total] EXCEPT !.size = size]
<1>1. counted \in [index : Nat \cup {-1}, from : Nat, to : Nat, size : Nat, total : Int]
      /\ counted.size = size /\ counted.total = total
  <2>1. [page EXCEPT !.total = total] \in [index : Nat \cup {-1}, from : Nat, to : Nat, size : Nat, total : Int]
        /\ [page EXCEPT !.total = total].total = total
    BY DEF PageType
  <2> QED BY <2>1
<1>2. page' = [counted EXCEPT !.index = index]
  BY Zenon
<1> HIDE DEF counted
<1> QED BY <1>1, <1>2 DEF PageType

LEMMA SaveAnswered ==
  ASSUME IInv, NEW s \in Slots, wire[s] # None, ReceiveSave(s)
  PROVE  /\ data' \in Seq(Ids) /\ PageType' /\ PageMatches' /\ Wires(wire')
<1> USE Parts
<1>1. wire[s].id \in Ids
  BY DEF ReceiveSave, Wires, Named, Sound
<1>2. New(Reading(wire[s].id, "edit", FALSE))
  BY <1>1, ReadingType
<1>3. Wires(wire')
  BY <1>2, Putting DEF ReceiveSave, Put
<1>4. CASE InPage(wire[s].id)
  BY <1>3, <1>4 DEF ReceiveSave, PageType, PageMatches
<1>5. CASE ~InPage(wire[s].id)
  <2>1. /\ data' = Append(data, wire[s].id)
        /\ page' = [page EXCEPT !.total = @ + 1, !.size = @ + 1, !.index = page.size]
    BY <1>5 DEF ReceiveSave
  <2>2. PageType' /\ page'.size = page.size + 1 /\ page'.total = page.total + 1
    <3>1. page.size \in Nat \cup {-1} /\ page.size + 1 \in Nat /\ page.total + 1 \in Int
      BY DEF PageType
    <3>2. page' = [page EXCEPT !.total = page.total + 1, !.size = page.size + 1, !.index = page.size]
      BY <2>1, Zenon
    <3> QED BY <3>1, <3>2, Counting
  <2>3. data' \in Seq(Ids) /\ Len(data') = Len(data) + 1 /\ Len(data) \in Nat
    BY <1>1, <2>1
  <2>4. \A n \in 1..(Len(data) + 1) :
           data'[n] = IF n = Len(data) + 1 THEN wire[s].id ELSE data[n]
    BY <1>1, <2>1
  <2>5. \A n \in DOMAIN data : data[n] # wire[s].id
    BY <1>5 DEF InPage
  <2>6. DOMAIN data = 1..Len(data) /\ DOMAIN data' = 1..(Len(data) + 1)
    BY <2>3
  <2>7. \A m, n \in DOMAIN data' : data'[m] = data'[n] => m = n
    BY <2>3, <2>4, <2>5, <2>6 DEF PageMatches
  <2>8. page.size \in Nat /\ page.total \in Int /\ Limit \in Nat
    BY FormAssumption DEF PageType
  <2>9. page'.size = Len(data') /\ page'.size <= page'.total + Limit
    BY <2>2, <2>3, <2>8 DEF PageMatches
  <2> QED BY <1>3, <2>2, <2>3, <2>7, <2>9 DEF PageMatches
<1> QED BY <1>4, <1>5

LEMMA RemoveAnswered ==
  ASSUME IInv, NEW s \in Slots, wire[s] # None, ReceiveRemove(s)
  PROVE  /\ data' \in Seq(Ids) /\ PageType' /\ PageMatches' /\ Wires(wire')
         /\ FormType' /\ shown' \in BOOLEAN /\ asked' \subseteq Questions /\ UNCHANGED news
<1> USE Parts
<1>1. data' \in Seq(Ids) /\ PageType' /\ PageMatches'
  <2>1. CASE InPage(wire[s].id)
    <3>1. page' = [page EXCEPT !.total = @ - 1, !.size = @ - 1]
      BY <2>1 DEF ReceiveRemove, Removed
    <3>2. PICK n \in DOMAIN data : data' = Without(n)
      BY <2>1 DEF ReceiveRemove, Removed
    <3>3. \A i, j \in DOMAIN data : data[i] = data[j] => i = j
      BY DEF PageMatches
    <3>4. /\ data' \in Seq(Ids) /\ Len(data') = Len(data) - 1
          /\ \A i, j \in DOMAIN data' : data'[i] = data'[j] => i = j
      BY <3>2, <3>3, WithoutOne
    <3>5. page.size >= 1 /\ page.size \in Nat /\ page.total \in Int /\ Limit \in Nat
      BY <3>2, FormAssumption DEF PageMatches, PageType
    <3>6. PageType' /\ page'.size = page.size - 1 /\ page'.total = page.total - 1
      <4>1. page.index \in Nat \cup {-1} /\ page.size - 1 \in Nat /\ page.total - 1 \in Int
        BY <3>5 DEF PageType
      <4>2. page' = [page EXCEPT !.total = page.total - 1, !.size = page.size - 1, !.index = page.index]
        BY <3>1 DEF PageType
      <4> QED BY <4>1, <4>2, Counting
    <3> QED BY <3>4, <3>5, <3>6 DEF PageMatches
  <2>2. CASE ~InPage(wire[s].id)
    BY <2>2 DEF ReceiveRemove, Removed, PageType, PageMatches
  <2> QED BY <2>1, <2>2
<1>2. New(SearchFrom(page.from, "grid"))
  <2>1. page.from \in Nat
    BY DEF PageType
  <2> QED BY <2>1, SearchType
<1>3. Put(s, None) \/ Put(s, SearchFrom(page.from, "grid"))
  BY DEF ReceiveRemove
<1>4. Wires(wire')
  BY <1>2, <1>3, Putting DEF Put
<1>5. CASE wire[s].then = "form"
  <2> DEFINE typed == form.typed /\ ShowConfirm
             stays == asked' = asked \cup {Question("grid")} /\ UNCHANGED <<form, shown>>
             goes == form' = Empty /\ shown' = FALSE /\ UNCHANGED asked
  <2>0. IF typed THEN stays ELSE goes
    BY <1>5 DEF ReceiveRemove
  <2> HIDE DEF typed, stays, goes
  <2>1. Question("grid") \in Questions
    BY QuestionType DEF Operations
  <2>2. ASSUME stays PROVE FormType' /\ shown' \in BOOLEAN /\ asked' \subseteq Questions
    BY <2>1, <2>2 DEF stays, FormType
  <2>3. ASSUME goes PROVE FormType' /\ shown' \in BOOLEAN /\ asked' \subseteq Questions
    BY <2>3 DEF goes, FormType, Empty
  <2>4. stays \/ goes
    BY <2>0, Zenon
  <2> QED BY <1>1, <1>4, <2>2, <2>3, <2>4 DEF ReceiveRemove
<1>6. CASE wire[s].then # "form"
  BY <1>1, <1>4, <1>6 DEF ReceiveRemove, FormType
<1> QED BY <1>5, <1>6

LEMMA SearchAnswered ==
  ASSUME IInv, NEW s \in Slots, wire[s] # None, ReceiveSearch(s)
  PROVE  /\ data' \in Seq(Ids) /\ PageType' /\ PageMatches' /\ Wires(wire')
<1> USE Parts
<1> DEFINE list == wire[s].list
           total == wire[s].total
           then == wire[s].then
           fix == then = "filter" /\ wire[s].num >= total
           from == IF fix THEN LastPage(total) ELSE wire[s].num
           index == IF then = "first" THEN 0 ELSE IF then = "last" THEN Len(list) - 1 ELSE -1
           upto == IF ~fix THEN from + Len(list)
                   ELSE IF from + Limit < total THEN from + Limit ELSE total
<1>1. /\ data' = list
      /\ page' = [index |-> index, from |-> from, size |-> Len(list), total |-> total, to |-> upto]
      /\ Put(s, IF fix THEN SearchFrom(from, "grid")
                ELSE IF index \in 0..(Len(list) - 1) THEN Reading(list[index + 1], "edit", FALSE)
                ELSE None)
  BY DEF ReceiveSearch
<1>2. wire[s].num \in Nat /\ total \in Nat /\ list \in Pages
      /\ \A i, j \in DOMAIN list : list[i] = list[j] => i = j
  BY DEF Wires, Requests, Named, Sound, ReceiveSearch
<1>3. list \in Seq(Ids) /\ Len(list) \in Nat /\ Len(list) <= Limit
  BY <1>2, PageLength
<1>4. from \in Nat
  BY <1>2, LastPageType
<1>5. index \in Nat \cup {-1}
  BY <1>3
<1>8. Put(s, SearchFrom(from, "grid")) \/ Put(s, None)
      \/ (index \in 0..(Len(list) - 1) /\ Put(s, Reading(list[index + 1], "edit", FALSE)))
  BY <1>1
<1> HIDE DEF total, fix, from, index, list
<1>9. upto \in Nat
  BY <1>2, <1>3, <1>4, FormAssumption
<1> HIDE DEF upto
<1>10. PageType'
  BY <1>1, <1>2, <1>3, <1>4, <1>5, <1>9 DEF PageType
<1>11. PageMatches' /\ data' \in Seq(Ids)
  <2>1. page'.size = Len(list) /\ page'.total = total /\ data' = list
    BY <1>1
  <2>2. Len(list) <= total + Limit
    BY <1>2, <1>3, FormAssumption
  <2> QED BY <1>2, <1>3, <2>1, <2>2 DEF PageMatches
<1>12. Wires(wire')
  <2>1. New(SearchFrom(from, "grid"))
    BY <1>4, SearchType
  <2>2. CASE Put(s, SearchFrom(from, "grid"))
    BY <2>1, <2>2, Putting DEF Put
  <2>3. CASE Put(s, None)
    BY <2>3, Putting DEF Put
  <2>4. CASE index \in 0..(Len(list) - 1) /\ Put(s, Reading(list[index + 1], "edit", FALSE))
    <3>1. list[index + 1] \in Ids \cup {0}
      BY <1>3, <2>4
    <3>2. New(Reading(list[index + 1], "edit", FALSE))
      BY <3>1, ReadingType
    <3> QED BY <2>4, <3>2, Putting DEF Put
  <2> QED BY <1>8, <2>2, <2>3, <2>4
<1> QED BY <1>10, <1>11, <1>12

LEMMA VerifyAnswered ==
  ASSUME IInv, NEW s \in Slots, wire[s] # None, ReceiveVerify(s)
  PROVE  Wires(wire') /\ FormType' /\ news' \in Nat /\ asked' \subseteq Questions
<1> USE Parts
<1>1. CASE Put(s, None) /\ UNCHANGED <<form, news>> /\ asked' \in {asked, asked \cup {Question("reload")}}
  <2>1. Question("reload") \in Questions
    BY QuestionType DEF Operations
  <2>2. Wires(wire')
    BY <1>1, Putting DEF Put
  <2> QED BY <1>1, <2>1, <2>2 DEF FormType
<1>2. CASE Put(s, Reading(form.id, "unasked", form.typed)) /\ UNCHANGED <<form, news, asked>>
  <2>1. New(Reading(form.id, "unasked", form.typed))
    BY ReadingType DEF FormType
  <2>2. Wires(wire')
    BY <1>2, <2>1, Putting DEF Put
  <2> QED BY <1>2, <2>2 DEF FormType
<1>3. CASE Put(s, None) /\ NewRecord /\ UNCHANGED asked
  <2>1. Wires(wire')
    BY <1>3, Putting DEF Put
  <2>2. FormType' /\ news' \in Nat
    BY <1>3 DEF NewRecord, FormType, Empty
  <2> QED BY <1>3, <2>1, <2>2
<1> QED BY <1>1, <1>2, <1>3 DEF ReceiveVerify

LEMMA AnswerStep ==
  ASSUME IInv, NEW s \in Slots, Receive(s)
  PROVE  IInv'
<1> USE Parts, PartsNext
<1>1. wire[s] # None /\ UNCHANGED <<rows, unused, opening, waiting>>
  BY DEF Receive
<1>2. astray' \in BOOLEAN
  BY Zenon DEF Receive
<1>3. CASE ReceiveRead(s) \/ ReceiveCopy(s)
  <2>1. wire[s].id \in Ids \cup {0}
    BY <1>1 DEF Wires, Requests
  <2>2. FormType'
    <3>1. form' \in {[id |-> wire[s].id, typed |-> FALSE], Empty, [Empty EXCEPT !.typed = TRUE]}
      <4>1. \/ form' = [id |-> wire[s].id, typed |-> FALSE]
            \/ form' = Empty \/ form' = [Empty EXCEPT !.typed = TRUE]
        BY <1>3, Zenon DEF ReceiveRead, ReceiveCopy
      <4> QED BY <4>1, Zenon
    <3>2. {[id |-> wire[s].id, typed |-> FALSE], Empty, [Empty EXCEPT !.typed = TRUE]}
             \subseteq [id : Ids \cup {0}, typed : BOOLEAN]
      <4>1. /\ [id |-> wire[s].id, typed |-> FALSE] \in [id : Ids \cup {0}, typed : BOOLEAN]
            /\ Empty \in [id : Ids \cup {0}, typed : BOOLEAN]
        BY <2>1 DEF Empty
      <4>2. [Empty EXCEPT !.typed = TRUE] \in [id : Ids \cup {0}, typed : BOOLEAN]
        BY <4>1
      <4> QED BY <4>1, <4>2
    <3> QED BY <3>1, <3>2 DEF FormType
  <2>3. Wires(wire')
    BY <1>3, Putting DEF ReceiveRead, ReceiveCopy, Put
  <2> QED BY <1>1, <1>2, <1>3, <2>2, <2>3 DEF ReceiveRead, ReceiveCopy, PageType, PageMatches
<1>4. CASE ReceiveSave(s)
  <2>1. /\ data' \in Seq(Ids) /\ PageType' /\ PageMatches' /\ Wires(wire')
    BY <1>1, <1>4, SaveAnswered
  <2> QED BY <1>1, <1>2, <1>4, <2>1 DEF ReceiveSave, FormType
<1>5. CASE ReceiveRemove(s)
  BY <1>1, <1>2, <1>5, RemoveAnswered
<1>6. CASE ReceiveSearch(s)
  <2>1. /\ data' \in Seq(Ids) /\ PageType' /\ PageMatches' /\ Wires(wire')
    BY <1>1, <1>6, SearchAnswered
  <2> QED BY <1>1, <1>2, <1>6, <2>1 DEF ReceiveSearch, FormType
<1>7. CASE ReceiveVerify(s)
  <2>1. Wires(wire') /\ FormType' /\ news' \in Nat /\ asked' \subseteq Questions
    BY <1>1, <1>7, VerifyAnswered
  <2> QED BY <1>1, <1>2, <1>7, <2>1 DEF ReceiveVerify, PageType, PageMatches
<1> QED BY <1>3, <1>4, <1>5, <1>6, <1>7 DEF Receive

LEMMA StepInv == IInv /\ [Next]_vars => IInv'
<1> SUFFICES ASSUME IInv, [Next]_vars PROVE IInv'
  OBVIOUS
<1>1. CASE Next
  BY <1>1, FormStep, UnbiddenStep, GridStep, ServerStep, AnswerStep DEF Next, AtForm, Unbidden
<1>2. CASE UNCHANGED vars
  BY <1>2, Parts, PartsNext DEF vars, PageType, FormType, PageMatches, Wires, Named
<1> QED BY <1>1, <1>2

LEMMA Invariance == Spec => []IInv
BY InitInv, StepInv, PTL DEF Spec

(***************************************************************************)
(* Every step but the server's leaves the slots alone or puts into one of  *)
(* them nothing, or a request that is not served yet and was not sent over *)
(* unsaved changes, unless nobody was to be asked.                         *)
(***************************************************************************)
Harmless(request) ==
  \/ request = None
  \/ /\ ~request.answered /\ request.list = None
     /\ ShowConfirm /\ request.over => request.then = "unasked"

Changed ==
  \/ UNCHANGED wire
  \/ \E s \in Slots : \E request : Harmless(request) /\ wire' = [wire EXCEPT ![s] = request]

LEMMA SentHarmless ==
  ASSUME NEW kind, NEW id, NEW num, NEW then
  PROVE  Harmless(Request(kind, id, num, then)) /\ Harmless(SearchFrom(num, then))
BY DEF Harmless, Request, SearchFrom

LEMMA ReadHarmless ==
  ASSUME NEW id, NEW then, NEW typed \in BOOLEAN, ShowConfirm /\ typed => then = "unasked"
  PROVE  Harmless(Reading(id, then, typed))
BY DEF Harmless, Reading, Request

LEMMA SendingChanges ==
  ASSUME NEW request, Harmless(request), Send(request)
  PROVE  Changed
BY DEF Send, Changed

LEMMA PuttingChanges ==
  ASSUME NEW s \in Slots, NEW request, Harmless(request), wire' = [wire EXCEPT ![s] = request]
  PROVE  Changed
BY DEF Changed

LEMMA SearchChanges ==
  ASSUME NEW offset, NEW then, Search(offset, then)
  PROVE  Changed
BY SentHarmless, SendingChanges DEF Search

LEMMA ReloadChanges ==
  ASSUME NEW then, NEW typed \in BOOLEAN, ShowConfirm /\ typed => then = "unasked",
         Reload(then, typed)
  PROVE  Changed
<1>1. CASE form.id # 0
  BY <1>1, ReadHarmless, SendingChanges DEF Reload
<1>2. CASE form.id = 0
  BY <1>2 DEF Reload, Changed
<1> QED BY <1>1, <1>2

(* Nothing harmful is sent when there are no changes, or for a confirmed   *)
(* question.                                                               *)
LEMMA DoingChanges ==
  ASSUME NEW question, NEW typed \in BOOLEAN, ~(ShowConfirm /\ typed), Do(question, typed)
  PROVE  Changed
<1>1. ASSUME NEW id, Send(Reading(id, "edit", typed)) PROVE Changed
  BY <1>1, ReadHarmless, SendingChanges
<1>2. CASE Send(Request("remove", question.id, 0, "form"))
  BY <1>2, SentHarmless, SendingChanges
<1>3. CASE UNCHANGED wire
  BY <1>3 DEF Changed
<1>4. CASE NextItem(typed)
  BY <1>1, <1>3, <1>4, SearchChanges DEF NextItem, EditAt
<1>5. CASE PrevItem(typed)
  BY <1>1, <1>3, <1>5, SearchChanges DEF PrevItem, EditAt
<1>6. CASE Reload("edit", typed)
  BY <1>6, ReloadChanges
<1> QED BY <1>2, <1>3, <1>4, <1>5, <1>6 DEF Do

LEMMA AskChanges ==
  ASSUME FormType, NEW what, AskFirst(what)
  PROVE  Changed
<1> DEFINE asks == (form.typed /\ ShowConfirm) \/ what = "delete"
<1>1. form.typed \in BOOLEAN
  BY DEF FormType
<1>2. CASE asks
  BY <1>2 DEF AskFirst, Changed
<1>3. CASE ~asks
  <2>1. Do(Question(what), form.typed)
    BY <1>3 DEF AskFirst
  <2> QED BY <1>1, <1>3, <2>1, DoingChanges
<1> QED BY <1>2, <1>3

LEMMA AnswerChanges ==
  ASSUME FormType, NEW s \in Slots, Receive(s)
  PROVE  Changed
<1>1. \/ Put(s, None)
      \/ \E id : Put(s, Reading(id, "edit", FALSE))
      \/ Put(s, Reading(form.id, "unasked", form.typed))
      \/ \E offset, then : Put(s, SearchFrom(offset, then))
  BY DEF Receive, ReceiveRead, ReceiveCopy, ReceiveSave, ReceiveRemove, ReceiveSearch, ReceiveVerify
<1>2. Harmless(None) /\ \A offset, then : Harmless(SearchFrom(offset, then))
  BY SentHarmless DEF Harmless
<1>3. Harmless(Reading(form.id, "unasked", form.typed)) /\ \A id : Harmless(Reading(id, "edit", FALSE))
  BY ReadHarmless DEF FormType
<1> QED BY <1>1, <1>2, <1>3, PuttingChanges DEF Put

LEMMA WireStep ==
  ASSUME IInv, [Next]_vars
  PROVE  Changed \/ \E s \in Slots : Serve(s)
<1>0. FormType /\ form.typed \in BOOLEAN
  BY DEF IInv, TypeOK, FormType
<1>1. CASE UNCHANGED wire
  BY <1>1 DEF Changed
<1>2. CASE ActionNew \/ \E what \in Operations : Press(what)
  BY <1>0, <1>2, AskChanges DEF Press, ActionNew
<1>3. ASSUME NEW question, Confirm(question) PROVE Changed
  BY <1>3, DoingChanges DEF Confirm
<1>4. CASE Copy \/ DoSave \/ PressSave \/ NavClick \/ \E index \in -1..Limit : GridRemove(index)
  <2>1. UNCHANGED wire \/ \E kind, id, then : Send(Request(kind, id, 0, then))
    BY <1>4 DEF Copy, DoSave, PressSave, NavClick, GridRemove
  <2> QED BY <1>1, <2>1, SentHarmless, SendingChanges
<1>5. CASE ActionReload
  BY <1>0, <1>5, ReloadChanges DEF ActionReload
<1>6. ASSUME NEW id \in Routes, Route(id) PROVE Changed
  <2>1. Harmless(Reading(id, "unasked", form.typed))
    BY <1>0, ReadHarmless
  <2>2. CASE id = 0
    <3>1. form' = Empty /\ UNCHANGED wire
      BY <1>6, <2>2 DEF Route
    <3> QED BY <3>1 DEF Changed
  <2>3. CASE id # 0
    <3>1. Send(Reading(id, "unasked", form.typed))
      BY <1>6, <2>3 DEF Route
    <3> QED BY <2>1, <3>1, SendingChanges
  <2> QED BY <2>2, <2>3
<1>7. CASE GridSearch \/ RouteList
  <2>1. UNCHANGED wire \/ \E offset, then : Search(offset, then)
    BY <1>7 DEF GridSearch, RouteList
  <2> QED BY <1>1, <2>1, SearchChanges
<1>8. CASE Opened
  <2>1. \/ \E id : Send(Reading(id, "edit", FALSE))
        \/ UNCHANGED wire
    BY <1>8 DEF Opened
  <2> QED BY <1>1, <2>1, ReadHarmless, SendingChanges
<1>9. ASSUME NEW s \in Slots, Fail(s) PROVE Changed
  BY <1>9, PuttingChanges DEF Fail, Harmless
<1>10. CASE \/ Type \/ Defaults \/ UNCHANGED vars
            \/ \E question \in asked : Refuse(question)
            \/ \E index \in -1..Limit : Open(index)
            \/ \E id \in Shared : Others(id)
  BY <1>1, <1>10 DEF Refuse, Type, Defaults, Open, Others, vars
<1> QED BY <1>0, <1>2, <1>3, <1>4, <1>5, <1>6, <1>7, <1>8, <1>9, <1>10, AnswerChanges DEF Next

(* The server answers what there is, a record it is to create with a       *)
(* number that was unused; a search finds records there are, and counts    *)
(* them later.                                                             *)
Served(s, answer) ==
  /\ wire' = [wire EXCEPT ![s] = answer]
  /\ wire[s] \in Requests /\ wire[s] # None /\ ~wire[s].answered
  /\ answer.kind = wire[s].kind /\ answer.then = wire[s].then /\ answer.over = wire[s].over
  /\ answer.kind \in {"save", "remove", "search"}
  /\ answer.kind = "save" =>
       /\ answer.answered /\ answer.list = wire[s].list
       /\ \/ answer.id = wire[s].id /\ answer.id \in rows /\ UNCHANGED <<rows, unused>>
          \/ /\ wire[s].id = 0 /\ answer.id \in unused
             /\ rows' = rows \cup {answer.id} /\ unused' = unused \ {answer.id}
  /\ answer.kind = "remove" => answer.list = wire[s].list /\ rows' \subseteq rows /\ UNCHANGED unused
  /\ answer.kind = "search" =>
       /\ UNCHANGED <<rows, unused>>
       /\ \/ answer.list = wire[s].list
          \/ \A n \in DOMAIN answer.list : answer.list[n] \in rows

LEMMA Serving ==
  ASSUME IInv, NEW s \in Slots, Serve(s)
  PROVE  \E answer \in Requests : Served(s, answer)
<1>1. wire[s] \in Requests /\ wire[s] # None /\ ~wire[s].answered /\ unused \subseteq Ids
      /\ IsFiniteSet(rows)
  <2>1. rows \subseteq Ids /\ IsFiniteSet(Ids)
    BY FormAssumption DEF IInv, TypeOK
  <2>2. IsFiniteSet(rows)
    BY <2>1, FS_Subset
  <2> QED BY <2>2 DEF Serve, IInv, TypeOK
<1>2. ASSUME NEW request \in Requests
      PROVE  \E answer \in Requests :
               /\ answer = [request EXCEPT !.answered = TRUE]
               /\ answer.kind = request.kind /\ answer.id = request.id
               /\ answer.then = request.then /\ answer.over = request.over /\ answer.answered
               /\ answer.list = request.list
  <2> DEFINE answer == [request EXCEPT !.answered = TRUE]
  <2>1. /\ answer \in Requests /\ answer.kind = request.kind /\ answer.id = request.id
        /\ answer.then = request.then /\ answer.over = request.over /\ answer.answered
        /\ answer.list = request.list
    BY DEF Requests
  <2> QED BY <2>1, Zenon
<1>3. CASE wire[s].kind = "save" /\ wire[s].id \in rows /\ Answered(s, wire[s]) /\ UNCHANGED <<rows, unused>>
  <2>1. wire' = [wire EXCEPT ![s] = [wire[s] EXCEPT !.answered = TRUE]]
    BY <1>3 DEF Answered
  <2>2. PICK answer \in Requests :
          /\ answer = [wire[s] EXCEPT !.answered = TRUE]
          /\ answer.kind = wire[s].kind /\ answer.id = wire[s].id
          /\ answer.then = wire[s].then /\ answer.over = wire[s].over /\ answer.answered
          /\ answer.list = wire[s].list
    BY <1>1, <1>2
  <2>3. Served(s, answer)
    BY <1>1, <1>3, <2>1, <2>2 DEF Served
  <2> QED BY <2>3
<1>4. ASSUME NEW id \in unused, wire[s].kind = "save", wire[s].id = 0,
             rows' = rows \cup {id}, unused' = unused \ {id},
             Answered(s, [wire[s] EXCEPT !.id = id])
      PROVE  \E answer \in Requests : Served(s, answer)
  <2> DEFINE named == [wire[s] EXCEPT !.id = id]
  <2>1. /\ named \in Requests /\ named.kind = wire[s].kind /\ named.id = id
        /\ named.then = wire[s].then /\ named.over = wire[s].over /\ named.list = wire[s].list
    BY <1>1 DEF Requests
  <2>2. wire' = [wire EXCEPT ![s] = [named EXCEPT !.answered = TRUE]]
    BY <1>4 DEF Answered
  <2> HIDE DEF named
  <2>3. PICK answer \in Requests :
          /\ answer = [named EXCEPT !.answered = TRUE]
          /\ answer.kind = named.kind /\ answer.id = named.id
          /\ answer.then = named.then /\ answer.over = named.over /\ answer.answered
          /\ answer.list = named.list
    BY <1>2, <2>1
  <2>4. Served(s, answer)
    BY <1>1, <1>4, <2>1, <2>2, <2>3 DEF Served
  <2> QED BY <2>4
<1>5. CASE ServeRemove(s)
  <2>1. wire' = [wire EXCEPT ![s] = [wire[s] EXCEPT !.answered = TRUE]]
    BY <1>5 DEF Answered, ServeRemove
  <2>2. rows' \subseteq rows /\ UNCHANGED unused /\ wire[s].kind = "remove"
    BY <1>5 DEF ServeRemove
  <2>3. PICK answer \in Requests :
          /\ answer = [wire[s] EXCEPT !.answered = TRUE]
          /\ answer.kind = wire[s].kind /\ answer.id = wire[s].id
          /\ answer.then = wire[s].then /\ answer.over = wire[s].over /\ answer.answered
          /\ answer.list = wire[s].list
    BY <1>1, <1>2
  <2>4. Served(s, answer)
    BY <1>1, <2>1, <2>2, <2>3 DEF Served
  <2> QED BY <2>4
<1>6. CASE Fetch(s)
  <2>1. PICK list \in Pages : IsPage(list, wire[s].num) /\ wire' = [wire EXCEPT ![s].list = list]
    BY <1>6 DEF Fetch
  <2> DEFINE fetched == [wire[s] EXCEPT !.list = list]
  <2>2. /\ fetched \in Requests /\ fetched.kind = wire[s].kind /\ fetched.then = wire[s].then
        /\ fetched.over = wire[s].over /\ fetched.list = list
    BY <1>1 DEF Requests
  <2>3. wire' = [wire EXCEPT ![s] = fetched] /\ wire[s].kind = "search" /\ UNCHANGED <<rows, unused>>
    BY <1>6, <2>1 DEF Fetch
  <2> HIDE DEF fetched
  <2>4. \A n \in DOMAIN list : list[n] \in rows
    BY <2>1 DEF IsPage
  <2> QED BY <1>1, <2>2, <2>3, <2>4 DEF Served
<1>7. CASE Count(s)
  <2> DEFINE counted == [wire[s] EXCEPT !.total = Cardinality(rows)]
  <2>1. Cardinality(rows) \in Nat
    BY <1>1, FS_CardinalityType
  <2>2. /\ counted \in Requests /\ counted.kind = wire[s].kind /\ counted.then = wire[s].then
        /\ counted.over = wire[s].over /\ counted.list = wire[s].list
    BY <1>1, <2>1 DEF Requests
  <2>3. wire' = [wire EXCEPT ![s] = [counted EXCEPT !.answered = TRUE]]
        /\ wire[s].kind = "search" /\ UNCHANGED <<rows, unused>>
    BY <1>7 DEF Count, Answered
  <2> HIDE DEF counted
  <2>4. PICK answer \in Requests :
          /\ answer = [counted EXCEPT !.answered = TRUE]
          /\ answer.kind = counted.kind /\ answer.id = counted.id
          /\ answer.then = counted.then /\ answer.over = counted.over /\ answer.answered
          /\ answer.list = counted.list
    BY <1>2, <2>2
  <2>5. Served(s, answer)
    BY <1>1, <2>2, <2>3, <2>4 DEF Served
  <2> QED BY <2>5
<1> QED BY <1>3, <1>4, <1>5, <1>6, <1>7 DEF Serve, ServeSave

(***************************************************************************)
(* Where confirmations are on, what is under way was sent over unsaved     *)
(* changes only if the user was asked, or if nobody was to be.             *)
(***************************************************************************)
Asked(w) ==
  ShowConfirm => \A s \in Slots : w[s] # None /\ w[s].over => w[s].then = "unasked"

NoneUnasked == Asked(wire)

LEMMA AskedInv == IInv /\ Asked(wire) /\ [Next]_vars => Asked(wire')
<1> SUFFICES ASSUME IInv, Asked(wire), [Next]_vars PROVE Asked(wire')
  OBVIOUS
<1>1. wire \in [Slots -> Requests \cup {None}]
  BY DEF IInv, TypeOK
<1>2. ASSUME NEW s \in Slots, NEW request, wire' = [wire EXCEPT ![s] = request],
             request = None \/ (ShowConfirm /\ request.over => request.then = "unasked")
      PROVE  Asked(wire')
  <2>1. \A t \in Slots : wire'[t] = IF t = s THEN request ELSE wire[t]
    BY <1>1, <1>2
  <2> QED BY <1>2, <2>1 DEF Asked
<1>3. CASE Changed
  BY <1>2, <1>3 DEF Changed, Harmless, Asked
<1>4. ASSUME NEW s \in Slots, Serve(s) PROVE Asked(wire')
  <2>1. PICK answer \in Requests : Served(s, answer)
    BY <1>4, Serving
  <2>2. /\ wire' = [wire EXCEPT ![s] = answer] /\ wire[s] # None
        /\ answer.then = wire[s].then /\ answer.over = wire[s].over
    BY <2>1 DEF Served
  <2> QED BY <1>2, <2>2 DEF Asked
<1> QED BY <1>3, <1>4, WireStep

(***************************************************************************)
(* A record that is not there yet has a number that is on no page, in no   *)
(* answer and in nothing that was fetched.                                 *)
(***************************************************************************)
(* None of the records a request has come to know is among those. *)
Knows(request, those) ==
  /\ request.kind = "save" /\ request.answered => request.id \notin those
  /\ request.list # None => \A n \in DOMAIN request.list : request.list[n] \notin those

Numbered ==
  /\ rows \cap unused = {}
  /\ \A n \in DOMAIN data : data[n] \notin unused
  /\ \A s \in Slots : wire[s] # None => Knows(wire[s], unused)

LEMMA DataStep ==
  ASSUME IInv, Numbered, Next, NEW n \in DOMAIN data'
  PROVE  data'[n] \notin unused
<1> USE DEF Numbered
<1>1. CASE UNCHANGED data
  BY <1>1
<1>2. ASSUME NEW s \in Slots, wire[s] # None, ReceiveSave(s) PROVE data'[n] \notin unused
  <2>1. CASE data' = Append(data, wire[s].id)
    <3>1. data \in Seq(Ids) /\ wire[s].id \in Ids /\ wire[s].id \notin unused
      BY <1>2 DEF ReceiveSave, IInv, TypeOK, Named, Sound, Knows
    <3>2. \A m \in 1..Len(data') : data'[m] = wire[s].id \/ (m \in 1..Len(data) /\ data'[m] = data[m])
      BY <2>1, <3>1
    <3>3. n \in 1..Len(data')
      BY <2>1, <3>1
    <3> QED BY <3>1, <3>2, <3>3
  <2> QED BY <1>1, <1>2, <2>1 DEF ReceiveSave
<1>3. ASSUME NEW s \in Slots, ReceiveRemove(s) PROVE data'[n] \notin unused
  <2>1. ASSUME NEW m \in DOMAIN data, data' = Without(m) PROVE data'[n] \notin unused
    <3>1. Len(data) \in Nat /\ DOMAIN data = 1..Len(data) /\ n \in 1..(Len(data) - 1)
      BY <2>1 DEF IInv, TypeOK, Without
    <3>2. data'[n] = data[n] \/ data'[n] = data[n + 1]
      BY <2>1, <3>1 DEF Without
    <3>3. n \in 1..Len(data) /\ n + 1 \in 1..Len(data)
      BY <3>1
    <3> QED BY <3>1, <3>2, <3>3
  <2> QED BY <1>1, <1>3, <2>1 DEF ReceiveRemove, Removed
<1>4. ASSUME NEW s \in Slots, wire[s] # None, ReceiveSearch(s) PROVE data'[n] \notin unused
  <2>1. data' = wire[s].list /\ wire[s].list # None
    BY <1>4 DEF ReceiveSearch, IInv, Named, Sound
  <2> QED BY <1>4, <2>1 DEF Knows
<1>5. ASSUME NEW s \in Slots, Receive(s) PROVE data'[n] \notin unused
  BY <1>1, <1>2, <1>3, <1>4, <1>5 DEF Receive, ReceiveRead, ReceiveCopy, ReceiveVerify
<1>6. CASE AtForm \/ Unbidden
  BY <1>1, <1>6 DEF AtForm, Unbidden, AskFirst, Press, Confirm, Refuse, Type, Copy, PressSave, DoSave,
                    ActionNew, ActionReload, NavClick, Defaults, RouteList, Route
<1>7. CASE \/ GridSearch \/ Opened \/ \E index \in -1..Limit : Open(index) \/ GridRemove(index)
           \/ \E s \in Slots : Serve(s) \/ Fail(s)
           \/ \E id \in Shared : Others(id)
  BY <1>1, <1>7 DEF GridSearch, Opened, Open, GridRemove, Serve, Fail, Others
<1> QED BY <1>5, <1>6, <1>7 DEF Next, AtForm, Unbidden

LEMMA NumberedStep == IInv /\ Numbered /\ [Next]_vars => Numbered'
<1> SUFFICES ASSUME IInv, Numbered, [Next]_vars PROVE Numbered'
  OBVIOUS
<1>0. wire \in [Slots -> Requests \cup {None}]
  BY DEF IInv, TypeOK
<1>1. \A n \in DOMAIN data' : data'[n] \notin unused
  <2>1. CASE Next
    BY <2>1, DataStep
  <2>2. CASE UNCHANGED vars
    BY <2>2 DEF vars, Numbered
  <2> QED BY <2>1, <2>2
<1>2. ASSUME NEW s \in Slots, NEW request, wire' = [wire EXCEPT ![s] = request],
             request = None \/ Knows(request, unused'),
             unused' \subseteq unused
      PROVE  \A t \in Slots : wire'[t] # None => Knows(wire'[t], unused')
  <2>1. \A t \in Slots : wire'[t] = IF t = s THEN request ELSE wire[t]
    BY <1>0, <1>2
  <2>2. \A t \in Slots : wire[t] # None => Knows(wire[t], unused')
    BY <1>2 DEF Numbered, Knows
  <2> QED BY <1>2, <2>1, <2>2
<1>3. ASSUME NEW s \in Slots, Serve(s) PROVE Numbered'
  <2>1. PICK answer \in Requests : Served(s, answer)
    BY <1>3, Serving
  <2>2. rows' \cap unused' = {} /\ unused' \subseteq unused
    BY <2>1 DEF Numbered, Served
  <2>3. Knows(wire[s], unused)
    BY <2>1 DEF Numbered, Served
  <2>4. Knows(answer, unused')
    <3>1. CASE answer.kind = "save"
      BY <2>1, <2>2, <2>3, <3>1 DEF Served, Numbered, Knows
    <3>2. CASE answer.kind = "remove"
      BY <2>1, <2>2, <2>3, <3>2 DEF Served, Knows
    <3>3. CASE answer.kind = "search"
      BY <2>1, <2>2, <2>3, <3>3 DEF Served, Numbered, Knows
    <3> QED BY <2>1, <3>1, <3>2, <3>3 DEF Served
  <2>5. \A t \in Slots : wire'[t] # None => Knows(wire'[t], unused')
    BY <1>2, <2>1, <2>2, <2>4 DEF Served
  <2> QED BY <1>1, <2>2, <2>5 DEF Numbered
<1>4. CASE ~\E s \in Slots : Serve(s)
  <2>1. UNCHANGED unused /\ rows' \subseteq rows
    <3>1. CASE AtForm \/ Unbidden
      BY <3>1 DEF AtForm, Unbidden, AskFirst, Press, Confirm, Refuse, Type, Copy, PressSave, DoSave,
                  ActionNew, ActionReload, NavClick, Defaults, RouteList, Route
    <3>2. CASE \/ GridSearch \/ Opened \/ \E index \in -1..Limit : Open(index) \/ GridRemove(index)
               \/ \E s \in Slots : Fail(s) \/ Receive(s)
               \/ \E id \in Shared : Others(id)
               \/ UNCHANGED vars
      BY <3>2 DEF GridSearch, Opened, Open, GridRemove, Fail, Receive, Others, vars
    <3> QED BY <1>4, <3>1, <3>2 DEF Next, AtForm, Unbidden
  <2>2. Changed
    BY <1>4, WireStep
  <2>3. \A t \in Slots : wire'[t] # None => Knows(wire'[t], unused')
    <3>1. CASE UNCHANGED wire
      BY <2>1, <3>1 DEF Numbered
    <3>2. ASSUME NEW s \in Slots, NEW request, Harmless(request), wire' = [wire EXCEPT ![s] = request]
          PROVE  \A t \in Slots : wire'[t] # None => Knows(wire'[t], unused')
      <4>1. request = None \/ Knows(request, unused')
        BY <3>2 DEF Harmless, Knows
      <4> QED BY <1>2, <2>1, <3>2, <4>1
    <3> QED BY <2>2, <3>1, <3>2 DEF Changed
  <2> QED BY <1>1, <2>1, <2>3 DEF Numbered
<1> QED BY <1>3, <1>4

(***************************************************************************)
(* What is under way, for a user who waits for each answer, leads the form *)
(* and the page to the same record.                                        *)
(***************************************************************************)
Silent(w) == \A s \in Slots : w[s] = None

Agrees(id, list, index) ==
  id # 0 /\ index \in 0..(Len(list) - 1) => list[index + 1] = id

Listed(id, list) == \E n \in DOMAIN list : list[n] = id

(* id is that of the form, list and index are those of the page. *)
Leads(request, id, list, index) ==
  /\ request.kind = "read" => Agrees(request.id, list, index)
  /\ request.kind # "read" => Agrees(id, list, index)
  /\ request.kind = "save" =>
       request.id = id \/ (request.answered /\ id = 0 /\ ~Listed(request.id, list))
  /\ request.kind = "remove" => request.then = "form"
  /\ request.kind = "search" => request.then \in {"first", "last"}

OnCourse ==
  shown /\ ~astray =>
    /\ \A s, t \in Slots : wire[s] # None /\ wire[t] # None => s = t
    /\ waiting > 0 => Silent(wire) /\ waiting = 1 /\ opening = None
    /\ opening # None => Silent(wire) /\ form.id = 0 /\ Agrees(opening, data, page.index)
    /\ Silent(wire) /\ opening = None => Agrees(form.id, data, page.index)
    /\ \A s \in Slots : wire[s] # None => Leads(wire[s], form.id, data, page.index)

(* One request is under way and nothing waits. *)
LEMMA OneUnderWay ==
  ASSUME wire \in [Slots -> Requests \cup {None}], NEW s \in Slots,
         \A t \in Slots : t # s => wire[t] = None,
         NEW request \in Requests, wire' = [wire EXCEPT ![s] = request],
         Leads(request, form'.id, data', page'.index),
         waiting' = 0, opening' = None
  PROVE  OnCourse'
<1>1. \A t \in Slots : wire'[t] = IF t = s THEN request ELSE wire[t]
  OBVIOUS
<1>2. request # None
  BY NoneAssumption
<1>3. ~Silent(wire')
  BY <1>1, <1>2 DEF Silent
<1>4. \A t, u \in Slots : wire'[t] # None /\ wire'[u] # None => t = u
  BY <1>1
<1>5. \A t \in Slots : wire'[t] # None => Leads(wire'[t], form'.id, data', page'.index)
  <2>1. SUFFICES ASSUME NEW t \in Slots, wire'[t] # None
                 PROVE  Leads(wire'[t], form'.id, data', page'.index)
    OBVIOUS
  <2>2. wire'[t] = request
    BY <1>1, <2>1
  <2> QED BY <2>2
<1> QED BY <1>3, <1>4, <1>5 DEF OnCourse

LEMMA SentAlone ==
  ASSUME wire \in [Slots -> Requests \cup {None}], Silent(wire),
         NEW request \in Requests, Send(request),
         Leads(request, form'.id, data', page'.index),
         waiting' = 0, opening' = None
  PROVE  OnCourse'
BY OneUnderWay DEF Send, Silent

LEMMA AllDone ==
  ASSUME Silent(wire'), waiting' = 0, opening' = None, Agrees(form'.id, data', page'.index)
  PROVE  OnCourse'
BY DEF OnCourse, Silent

LEMMA AtIs ==
  ASSUME data \in Seq(Ids), NEW index \in Int
  PROVE  Agrees(At(index), data, index) /\ (At(index) = 0 => \A id : Agrees(id, data, index))
<1>1. CASE index \in 0..(Len(data) - 1)
  <2>1. At(index) = data[index + 1] /\ index + 1 \in 1..Len(data)
    BY <1>1 DEF At
  <2>2. data[index + 1] \in Ids
    BY <2>1
  <2>3. At(index) # 0
    BY <2>1, <2>2, FormAssumption
  <2> QED BY <2>1, <2>3 DEF Agrees
<1>2. CASE index \notin 0..(Len(data) - 1)
  BY <1>2 DEF Agrees
<1> QED BY <1>1, <1>2

LEMMA ReloadedAlone ==
  ASSUME IInv, Silent(wire), Agrees(form.id, data, page.index),
         NEW then \in {"edit", "unasked"}, NEW typed \in BOOLEAN, Reload(then, typed),
         UNCHANGED <<data, page>>, waiting' = 0, opening' = None
  PROVE  OnCourse'
<1>1. wire \in [Slots -> Requests \cup {None}] /\ form.id \in Ids \cup {0}
  BY DEF IInv, TypeOK
<1>2. CASE form.id # 0
  <2>1. Send(Reading(form.id, then, typed)) /\ UNCHANGED form
    BY <1>2 DEF Reload
  <2>2. Reading(form.id, then, typed) \in Requests
    BY <1>1, ReadingType DEF New
  <2>3. Leads(Reading(form.id, then, typed), form.id, data, page.index)
    BY DEF Leads, Reading, Request
  <2> QED BY <1>1, <2>1, <2>2, <2>3, SentAlone
<1>3. CASE form.id = 0
  <2>1. form' = Empty /\ UNCHANGED wire
    BY <1>3 DEF Reload, NewRecord
  <2>2. Agrees(form'.id, data', page'.index)
    BY <2>1 DEF Empty, Agrees
  <2> QED BY <2>1, <2>2, AllDone DEF Silent
<1> QED BY <1>2, <1>3

(* The user does something while nothing is under way. *)
LEMMA DoneAlone ==
  ASSUME IInv, Silent(wire), Agrees(form.id, data, page.index),
         NEW question \in Questions, NEW typed \in BOOLEAN, Do(question, typed),
         UNCHANGED data, waiting' = 0, opening' = None
  PROVE  OnCourse'
<1>0. /\ wire \in [Slots -> Requests \cup {None}] /\ data \in Seq(Ids) /\ PageType /\ FormType
      /\ page.index \in Int /\ form.id \in Ids \cup {0} /\ question.id \in Ids \cup {0}
  BY DEF IInv, TypeOK, PageType, FormType, Questions
<1>1. ASSUME NEW offset \in Nat, NEW then \in {"first", "last"}, Search(offset, then),
             UNCHANGED <<form, page>>
      PROVE  OnCourse'
  <2>1. SearchFrom(offset, then) \in Requests
    BY SearchType DEF New
  <2>2. Leads(SearchFrom(offset, then), form.id, data, page.index)
    BY DEF Leads, SearchFrom, Request
  <2> QED BY <1>0, <1>1, <2>1, <2>2, SentAlone DEF Search
<1>2. ASSUME NEW id \in Ids \cup {0}, Send(Reading(id, "edit", typed)),
             Agrees(id, data, page'.index)
      PROVE  OnCourse'
  <2>1. Reading(id, "edit", typed) \in Requests
    BY ReadingType DEF New
  <2>2. Leads(Reading(id, "edit", typed), form'.id, data, page'.index)
    BY <1>2 DEF Leads, Reading, Request
  <2> QED BY <1>0, <1>2, <2>1, <2>2, SentAlone
<1>3. ASSUME UNCHANGED wire, Agrees(form'.id, data, page'.index) PROVE OnCourse'
  BY <1>3, AllDone DEF Silent
<1>4. ASSUME NEW index \in Nat, page' = [page EXCEPT !.index = index], EditAt(index, typed)
      PROVE  OnCourse'
  <2>1. page'.index = index /\ At(index) \in Ids \cup {0}
    BY <1>0, <1>4, AtType DEF PageType
  <2>2. Agrees(At(index), data, index) /\ (At(index) = 0 => \A id : Agrees(id, data, index))
    BY <1>0, AtIs
  <2>3. CASE At(index) = 0
    BY <1>3, <1>4, <2>1, <2>2, <2>3 DEF EditAt
  <2>4. CASE At(index) # 0
    <3>1. Send(Reading(At(index), "edit", typed))
      BY <1>4, <2>4 DEF EditAt
    <3> DEFINE id == At(index)
    <3>2. id \in Ids \cup {0} /\ Send(Reading(id, "edit", typed)) /\ Agrees(id, data, page'.index)
      BY <2>1, <2>2, <3>1
    <3> HIDE DEF id
    <3> QED BY <1>2, <3>2
  <2> QED BY <2>3, <2>4
<1>5. page.from + Limit \in Nat /\ Back(page.from) \in Nat
  <2>1. page.from \in Nat /\ Limit \in Nat
    BY <1>0, FormAssumption DEF PageType
  <2> QED BY <2>1, BackType
<1>6. CASE NextItem(typed) /\ UNCHANGED <<form, shown, news>>
  <2>1. CASE page.index + 1 < page.size
    <3>1. page.index + 1 \in Nat /\ page' = [page EXCEPT !.index = page.index + 1]
          /\ EditAt(page.index + 1, typed)
      BY <1>0, <1>6, <2>1 DEF NextItem, PageType
    <3> QED BY <1>4, <3>1
  <2>2. CASE ~(page.index + 1 < page.size)
    BY <1>1, <1>5, <1>6, <2>2 DEF NextItem
  <2> QED BY <2>1, <2>2
<1>7. CASE PrevItem(typed) /\ UNCHANGED <<form, shown, news>>
  <2>1. CASE page.index - 1 > -1
    <3>1. page.index - 1 \in Nat /\ page' = [page EXCEPT !.index = page.index - 1]
          /\ EditAt(page.index - 1, typed)
      BY <1>0, <1>7, <2>1 DEF PrevItem, PageType
    <3> QED BY <1>4, <3>1
  <2>2. CASE ~(page.index - 1 > -1)
    BY <1>1, <1>5, <1>7, <2>2 DEF PrevItem
  <2> QED BY <2>1, <2>2
<1>8. CASE form' = Empty /\ UNCHANGED <<wire, page>>
  <2>1. Agrees(form'.id, data, page'.index)
    BY <1>8 DEF Empty, Agrees
  <2> QED BY <1>3, <1>8, <2>1
<1>9. CASE Reload("edit", typed) /\ UNCHANGED <<page, shown>>
  BY <1>9, ReloadedAlone
<1>10. CASE Send(Request("remove", question.id, 0, "form")) /\ UNCHANGED <<form, page, shown, news>>
  <2>1. Request("remove", question.id, 0, "form") \in Requests
    BY <1>0, RequestType DEF New
  <2>2. Leads(Request("remove", question.id, 0, "form"), form.id, data, page.index)
    BY DEF Leads, Request
  <2> QED BY <1>0, <1>10, <2>1, <2>2, SentAlone
<1>11. CASE NewRecord /\ UNCHANGED <<wire, page, shown>>
  BY <1>8, <1>11 DEF NewRecord
<1> QED BY <1>6, <1>7, <1>8, <1>9, <1>10, <1>11 DEF Do

(* Nothing is under way when the user acts and goes on waiting. *)
LEMMA Patient ==
  ASSUME IInv, OnCourse, shown, Meanwhile, ~astray'
  PROVE  /\ Silent(wire) /\ waiting = 0 /\ opening = None
         /\ Agrees(form.id, data, page.index)
<1>1. Quiet /\ ~(waiting > 0) /\ opening = None /\ ~astray
  BY Zenon DEF Meanwhile
<1>2. waiting \in 0..MaxSaves
  BY DEF IInv, TypeOK
<1>3. waiting = 0
  BY <1>1, <1>2, FormAssumption
<1> QED BY <1>1, <1>3 DEF Quiet, Silent, OnCourse

LEMMA DoShown ==
  ASSUME NEW question, NEW typed, Do(question, typed), shown' = TRUE
  PROVE  shown' = shown
<1>1. shown' = shown \/ shown' = FALSE
  BY DEF Do
<1> QED BY <1>1, Zenon

LEMMA AskCourse ==
  ASSUME IInv, OnCourse, shown', ~astray', NEW what \in Operations, AskFirst(what)
  PROVE  OnCourse'
<1> DEFINE asks == (form.typed /\ ShowConfirm) \/ what = "delete"
<1>0. FormType /\ form.typed \in BOOLEAN /\ shown \in BOOLEAN /\ shown' \in BOOLEAN
  <2>1. FormType /\ form.typed \in BOOLEAN /\ shown \in BOOLEAN
    BY DEF IInv, TypeOK, FormType
  <2>2. shown' \in BOOLEAN
    BY AskStep DEF IInv, TypeOK
  <2> QED BY <2>1, <2>2
<1>1. CASE asks
  <2>1. UNCHANGED <<shown, astray, wire, waiting, opening, data, page, form>>
    BY <1>1 DEF AskFirst
  <2> QED BY <2>1 DEF OnCourse
<1>2. CASE ~asks
  <2>1. Do(Question(what), form.typed) /\ Meanwhile /\ UNCHANGED <<data, opening, waiting>>
    BY <1>2 DEF AskFirst
  <2>2. shown
    BY <1>0, <2>1, DoShown
  <2>3. Question(what) \in Questions
    BY <1>0, QuestionType
  <2> QED BY <1>0, <2>1, <2>2, <2>3, Patient, DoneAlone
<1> QED BY <1>1, <1>2

(* The user sends a request about the record in the form. *)
LEMMA SentPatiently ==
  ASSUME IInv, OnCourse, shown', ~astray', Meanwhile, NEW kind \in {"copy", "save", "verify"},
         NEW then \in {"edit", "ask", "silent"}, Send(Request(kind, form.id, 0, then)),
         UNCHANGED <<data, page, form, shown, opening, waiting>>
  PROVE  OnCourse'
<1>1. wire \in [Slots -> Requests \cup {None}] /\ form.id \in Ids \cup {0}
  BY DEF IInv, TypeOK
<1>2. Silent(wire) /\ waiting = 0 /\ opening = None /\ Agrees(form.id, data, page.index)
  BY Patient
<1>3. Request(kind, form.id, 0, then) \in Requests
  BY <1>1, RequestType DEF New
<1>4. Leads(Request(kind, form.id, 0, then), form.id, data, page.index)
  BY <1>2 DEF Leads, Request
<1> QED BY <1>1, <1>2, <1>3, <1>4, SentAlone

LEMMA CourseOfUser ==
  ASSUME IInv, OnCourse, shown', ~astray', AtForm \/ Unbidden
  PROVE  OnCourse'
<1>0. wire \in [Slots -> Requests \cup {None}] /\ form.id \in Ids \cup {0} /\ form.typed \in BOOLEAN
      /\ asked \subseteq Questions /\ waiting \in 0..MaxSaves /\ FormType /\ shown \in BOOLEAN
  BY DEF IInv, TypeOK, FormType
<1>1. ASSUME UNCHANGED <<shown, astray, wire, waiting, opening, data, page>>, form'.id = form.id
      PROVE  OnCourse'
  BY <1>1 DEF OnCourse
<1>2. CASE ActionNew \/ \E what \in Operations : Press(what)
  BY <1>2, AskCourse DEF Press, ActionNew, Operations
<1>3. ASSUME NEW question \in asked, Confirm(question) PROVE OnCourse'
  <2>1. Do(question, FALSE) /\ Meanwhile /\ question \in Questions /\ UNCHANGED <<data, opening, waiting>>
    BY <1>0, <1>3 DEF Confirm
  <2>2. shown
    <3>1. shown' \in {shown, FALSE}
      BY <2>1 DEF Do
    <3> QED BY <3>1, Zenon
  <2> QED BY <2>1, <2>2, Patient, DoneAlone
<1>4. ASSUME NEW question \in asked, Refuse(question) PROVE OnCourse'
  BY <1>1, <1>4 DEF Refuse
<1>5. CASE Type
  <2>1. form'.id = form.id
    BY <1>0, <1>5 DEF Type, FormType
  <2> QED BY <1>1, <1>5, <2>1 DEF Type
<1>6. CASE Copy \/ NavClick
  <2>1. PICK kind \in {"copy", "verify"}, then \in {"edit", "ask", "silent"} :
          Send(Request(kind, form.id, 0, then))
    BY <1>6, FormAssumption DEF Copy, NavClick
  <2>2. Meanwhile /\ UNCHANGED <<data, page, form, shown, opening, waiting>>
    BY <1>6 DEF Copy, NavClick
  <2> QED BY <2>1, <2>2, SentPatiently
<1>7. CASE PressSave
  <2>1. shown /\ Meanwhile /\ UNCHANGED <<data, page, form, shown, opening>>
    BY <1>7 DEF PressSave
  <2>2. CASE waiting' = waiting + 1 /\ UNCHANGED wire
    <3>1. Silent(wire) /\ waiting = 0 /\ opening = None /\ Agrees(form.id, data, page.index)
      BY <2>1, Patient
    <3> QED BY <2>1, <2>2, <3>1 DEF OnCourse, Silent
  <2>3. CASE Send(Request("save", form.id, 0, "edit")) /\ UNCHANGED waiting
    BY <2>1, <2>3, SentPatiently
  <2> QED BY <1>7, <2>2, <2>3 DEF PressSave
<1>8. CASE DoSave
  <2>1. /\ waiting > 0 /\ waiting' = waiting - 1 /\ Quiet
        /\ Send(Request("save", form.id, 0, "edit"))
        /\ UNCHANGED <<data, page, form, shown, opening, astray>>
    BY <1>8 DEF DoSave
  <2>2. Silent(wire) /\ waiting = 1 /\ opening = None /\ Agrees(form.id, data, page.index)
    BY <2>1 DEF OnCourse
  <2>3. Request("save", form.id, 0, "edit") \in Requests
    BY <1>0, RequestType DEF New
  <2>4. Leads(Request("save", form.id, 0, "edit"), form.id, data, page.index)
    BY <2>2 DEF Leads, Request
  <2>5. waiting' = 0
    BY <2>1, <2>2
  <2> QED BY <1>0, <2>1, <2>2, <2>3, <2>4, <2>5, SentAlone
<1>9. ~RouteList /\ \A id \in Routes : ~Route(id)
  BY DEF RouteList, Route
<1>10. CASE ActionReload
  <2>1. Reload("unasked", form.typed) /\ Meanwhile /\ UNCHANGED <<data, page, shown, opening, waiting>>
    BY <1>10 DEF ActionReload
  <2>2. Silent(wire) /\ waiting = 0 /\ opening = None /\ Agrees(form.id, data, page.index)
    BY <2>1, Patient
  <2> QED BY <1>0, <2>1, <2>2, ReloadedAlone
<1>11. CASE Defaults
  <2>1. /\ Quiet /\ opening = None /\ UNCHANGED <<data, page, shown, opening, waiting, wire, astray>>
        /\ form' = Empty \/ UNCHANGED form
    BY <1>11 DEF Defaults
  <2>2. Silent(wire) /\ (waiting > 0 => waiting = 1) /\ Agrees(form.id, data, page.index)
    BY <2>1 DEF OnCourse, Quiet, Silent
  <2>3. Agrees(form'.id, data', page'.index)
    <3>1. CASE form' = Empty
      BY <3>1 DEF Empty, Agrees
    <3>2. CASE UNCHANGED form
      BY <2>1, <2>2, <3>2
    <3> QED BY <2>1, <3>1, <3>2
  <2> QED BY <2>1, <2>2, <2>3 DEF OnCourse, Silent
<1> QED BY <1>2, <1>3, <1>4, <1>5, <1>6, <1>7, <1>8, <1>9, <1>10, <1>11 DEF AtForm, Unbidden

(* A row opened with nothing under way starts a new course. *)
LEMMA CourseOfGrid ==
  ASSUME IInv, OnCourse, shown', ~astray',
         \/ GridSearch \/ Opened
         \/ \E index \in -1..Limit : Open(index) \/ GridRemove(index)
  PROVE  OnCourse'
<1>0. wire \in [Slots -> Requests \cup {None}] /\ data \in Seq(Ids) /\ waiting \in 0..MaxSaves
      /\ opening \in Ids \cup {0, None}
  BY DEF IInv, TypeOK
<1>1. ~GridSearch /\ \A index \in -1..Limit : ~GridRemove(index)
  BY DEF GridSearch, GridRemove
<1>2. CASE Opened
  <2>1. /\ shown /\ ~astray /\ opening # None /\ opening' = None
        /\ UNCHANGED <<data, page, waiting>>
    BY <1>2 DEF Opened
  <2>2. Silent(wire) /\ form.id = 0 /\ Agrees(opening, data, page.index) /\ ~(waiting > 0)
    BY <2>1 DEF OnCourse
  <2>3. waiting' = 0
    BY <1>0, <2>1, <2>2, FormAssumption
  <2>4. CASE opening = 0
    <3>1. form' = Empty /\ UNCHANGED wire
      BY <1>2, <2>2, <2>4 DEF Opened
    <3>2. Agrees(form'.id, data', page'.index)
      BY <3>1 DEF Empty, Agrees
    <3> QED BY <2>1, <2>2, <2>3, <3>1, <3>2, AllDone
  <2>5. CASE opening # 0
    <3>1. Send(Reading(opening, "edit", FALSE)) /\ UNCHANGED form
      BY <1>2, <2>2, <2>5 DEF Opened
    <3>2. Reading(opening, "edit", FALSE) \in Requests
      BY <1>0, <2>1, ReadingType DEF New
    <3>3. Leads(Reading(opening, "edit", FALSE), form.id, data, page.index)
      BY <2>2 DEF Leads, Reading, Request
    <3> QED BY <1>0, <2>1, <2>2, <2>3, <3>1, <3>2, <3>3, SentAlone
  <2> QED BY <2>4, <2>5
<1>3. ASSUME NEW index \in -1..Limit, Open(index) PROVE OnCourse'
  <2>1. Quiet /\ waiting = 0 /\ opening = None /\ form.id = 0
    BY <1>3, Zenon DEF Open
  <2>2. page'.index = index /\ opening' = At(index) /\ UNCHANGED <<data, form, waiting, wire>>
    BY <1>3 DEF Open, IInv, TypeOK
  <2>3. index \in Int
    BY FormAssumption
  <2>4. Agrees(At(index), data, index) /\ At(index) \in Ids \cup {0}
    BY <1>0, <2>3, AtIs, AtType
  <2>5. At(index) # None
    BY <2>4, FormAssumption
  <2> QED BY <2>1, <2>2, <2>4, <2>5 DEF OnCourse, Quiet, Silent
<1> QED BY <1>1, <1>2, <1>3

LEMMA CourseOfServer ==
  ASSUME IInv, Numbered, OnCourse, shown', ~astray',
         \/ \E s \in Slots : Serve(s) \/ Fail(s)
         \/ \E id \in Shared : Others(id)
  PROVE  OnCourse'
<1>0. wire \in [Slots -> Requests \cup {None}] /\ data \in Seq(Ids) /\ waiting \in 0..MaxSaves
  BY DEF IInv, TypeOK
<1>1. ASSUME NEW s \in Slots, wire[s] # None, shown, ~astray
      PROVE  /\ \A t \in Slots : t # s => wire[t] = None
             /\ waiting = 0 /\ opening = None
             /\ Leads(wire[s], form.id, data, page.index)
  <2>1. ~Silent(wire)
    BY <1>1 DEF Silent
  <2>2. ~(waiting > 0)
    BY <1>1, <2>1 DEF OnCourse
  <2>3. waiting = 0
    BY <1>0, <2>2, FormAssumption
  <2> QED BY <1>1, <2>1, <2>3 DEF OnCourse
<1>2. ASSUME NEW s \in Slots, Serve(s) PROVE OnCourse'
  <2>1. /\ wire[s] # None /\ shown /\ ~astray
        /\ UNCHANGED <<data, page, form, opening, waiting>>
    BY <1>2 DEF Serve
  <2>2. PICK answer \in Requests : Served(s, answer)
    BY <1>2, Serving
  <2>3. Leads(wire[s], form.id, data, page.index)
    BY <1>1, <2>1
  <2>4. \A id \in unused : ~Listed(id, data)
    BY DEF Numbered, Listed
  <2>5. Leads(answer, form.id, data, page.index)
    <3>1. CASE answer.kind = "save"
      BY <2>2, <2>3, <2>4, <3>1 DEF Leads, Served
    <3>2. CASE answer.kind \in {"remove", "search"}
      BY <2>2, <2>3, <3>2 DEF Leads, Served
    <3> QED BY <2>2, <3>1, <3>2 DEF Served
  <2>6. wire' = [wire EXCEPT ![s] = answer]
    BY <2>2 DEF Served
  <2> QED BY <1>0, <1>1, <2>1, <2>5, <2>6, OneUnderWay
<1>3. ASSUME NEW s \in Slots, Fail(s) PROVE OnCourse'
  <2>1. wire[s] # None /\ wire' = [wire EXCEPT ![s] = None]
        /\ UNCHANGED <<data, page, form, shown, opening, waiting>>
    BY <1>3 DEF Fail
  <2>2. shown /\ ~astray /\ wire[s].kind # "read"
    BY <1>3, Zenon DEF Fail
  <2>3. /\ \A t \in Slots : t # s => wire[t] = None
        /\ waiting = 0 /\ opening = None
        /\ Leads(wire[s], form.id, data, page.index)
    BY <1>1, <2>1, <2>2
  <2>4. Silent(wire')
    BY <1>0, <2>1, <2>3 DEF Silent
  <2>5. Agrees(form.id, data, page.index)
    BY <2>2, <2>3 DEF Leads
  <2> QED BY <2>1, <2>3, <2>4, <2>5, AllDone
<1>4. ASSUME NEW id \in Shared, Others(id) PROVE OnCourse'
  BY <1>4 DEF Others, OnCourse
<1> QED BY <1>2, <1>3, <1>4

LEMMA CourseOfAnswer ==
  ASSUME IInv, OnCourse, NEW s \in Slots, Receive(s), shown', ~astray'
  PROVE  OnCourse'
<1>0. /\ wire \in [Slots -> Requests \cup {None}] /\ data \in Seq(Ids) /\ waiting \in 0..MaxSaves
      /\ Len(data) \in Nat /\ wire[s] # None /\ wire[s] \in Requests /\ UNCHANGED <<opening, waiting>>
  BY DEF IInv, TypeOK, Receive
<1>1. ~astray /\ (wire[s].then = "form" => ~form.typed)
  BY Zenon DEF Receive
<1>2. shown
  <2>1. UNCHANGED shown \/ shown' = FALSE
    BY DEF Receive, ReceiveRead, ReceiveCopy, ReceiveSave, ReceiveRemove, ReceiveSearch, ReceiveVerify
  <2> QED BY <2>1, Zenon
<1>3. /\ \A t \in Slots : t # s => wire[t] = None
      /\ waiting = 0 /\ opening = None
      /\ Leads(wire[s], form.id, data, page.index)
  <2>1. ~Silent(wire)
    BY <1>0 DEF Silent
  <2>2. ~(waiting > 0)
    BY <1>1, <1>2, <2>1 DEF OnCourse
  <2>3. waiting = 0
    BY <1>0, <2>2, FormAssumption
  <2> QED BY <1>0, <1>1, <1>2, <2>1, <2>3 DEF OnCourse
<1>4. ASSUME Put(s, None), Agrees(form'.id, data', page'.index) PROVE OnCourse'
  <2>1. Silent(wire')
    BY <1>0, <1>3, <1>4 DEF Put, Silent
  <2> QED BY <1>0, <1>3, <1>4, <2>1, AllDone
<1>5. ASSUME NEW id \in Ids \cup {0}, NEW then \in {"edit", "unasked"}, NEW typed \in BOOLEAN,
             Put(s, Reading(id, then, typed)), Agrees(id, data', page'.index)
      PROVE  OnCourse'
  <2>1. Reading(id, then, typed) \in Requests
    BY ReadingType DEF New
  <2>2. Leads(Reading(id, then, typed), form'.id, data', page'.index)
    BY <1>5 DEF Leads, Reading, Request
  <2>3. wire' = [wire EXCEPT ![s] = Reading(id, then, typed)]
    BY <1>5 DEF Put
  <2> QED BY <1>0, <1>3, <2>1, <2>2, <2>3, OneUnderWay
<1>6. CASE ReceiveRead(s)
  <2>1. Agrees(wire[s].id, data, page.index) /\ UNCHANGED <<data, page>> /\ Put(s, None)
    BY <1>3, <1>6 DEF ReceiveRead, Leads
  <2>2. form'.id \in {wire[s].id, 0}
    BY <1>6 DEF ReceiveRead, Empty
  <2>3. Agrees(form'.id, data', page'.index)
    BY <2>1, <2>2 DEF Agrees
  <2> QED BY <1>4, <2>1, <2>3
<1>7. CASE ReceiveCopy(s)
  <2>1. form'.id = 0 /\ Put(s, None)
    BY <1>7 DEF ReceiveCopy, Empty
  <2>2. Agrees(form'.id, data', page'.index)
    BY <2>1 DEF Agrees
  <2> QED BY <1>4, <2>1, <2>2
<1>8. CASE ReceiveSave(s)
  <2>1. /\ wire[s].id \in Ids /\ wire[s].kind = "save"
        /\ Put(s, Reading(wire[s].id, "edit", FALSE))
    BY <1>0, <1>8 DEF ReceiveSave, IInv, Named, Sound
  <2>2. Agrees(wire[s].id, data', page'.index)
    <3>1. CASE InPage(wire[s].id)
      <4>1. UNCHANGED <<data, page>> /\ Listed(wire[s].id, data)
        BY <1>8, <3>1 DEF ReceiveSave, InPage, Listed
      <4>2. wire[s].id = form.id /\ Agrees(form.id, data, page.index)
        BY <1>3, <2>1, <4>1 DEF Leads
      <4> QED BY <4>1, <4>2
    <3>2. CASE ~InPage(wire[s].id)
      <4>1. /\ data' = Append(data, wire[s].id)
            /\ page' = [page EXCEPT !.total = @ + 1, !.size = @ + 1, !.index = page.size]
        BY <1>8, <3>2 DEF ReceiveSave
      <4>2. page'.index = Len(data)
        BY <4>1 DEF IInv, TypeOK, PageMatches
      <4>3. data'[Len(data) + 1] = wire[s].id
        BY <1>0, <2>1, <4>1
      <4> QED BY <4>2, <4>3 DEF Agrees
    <3> QED BY <3>1, <3>2
  <2> QED BY <1>5, <2>1, <2>2
<1>9. CASE ReceiveRemove(s)
  <2>1. wire[s].then = "form"
    BY <1>3, <1>9 DEF ReceiveRemove, Leads
  <2>2. IF form.typed /\ ShowConfirm
        THEN asked' = asked \cup {Question("grid")} /\ UNCHANGED <<form, shown>>
        ELSE form' = Empty /\ shown' = FALSE /\ UNCHANGED asked
    BY <1>9, <2>1 DEF ReceiveRemove
  <2>3. ~shown'
    BY <1>1, <2>1, <2>2, Zenon
  <2> QED BY <2>3
<1>10. CASE ReceiveSearch(s)
  <2> DEFINE then == wire[s].then
             list == wire[s].list
             total == wire[s].total
             index == IF then = "first" THEN 0 ELSE IF then = "last" THEN Len(list) - 1 ELSE -1
             fix == then = "filter" /\ wire[s].num >= total
             from == IF fix THEN LastPage(total) ELSE wire[s].num
             upto == IF ~fix THEN from + Len(list)
                     ELSE IF from + Limit < total THEN from + Limit ELSE total
             read == IF index \in 0..(Len(list) - 1)
                     THEN Reading(list[index + 1], "edit", FALSE) ELSE None
  <2>1. then \in {"first", "last"} /\ then # "filter"
    BY <1>3, <1>10 DEF ReceiveSearch, Leads
  <2>2. data' = list /\ page'.index = index /\ Put(s, read)
    <3>1. /\ data' = list
          /\ page' = [index |-> index, from |-> from, size |-> Len(list), total |-> total,
                      to |-> upto]
          /\ Put(s, IF fix THEN SearchFrom(from, "grid") ELSE read)
      BY <1>10 DEF ReceiveSearch
    <3>2. ~fix
      BY <2>1
    <3> HIDE DEF fix, index, from, total, upto, read, list
    <3> QED BY <3>1, <3>2
  <2>3. list \in Seq(Ids) /\ Len(list) \in Nat
    <3>1. list \in Pages
      BY <1>0, <1>10 DEF ReceiveSearch, IInv, Named, Sound, Requests
    <3> QED BY <3>1, PageLength
  <2> HIDE DEF list
  <2>4. index \in Int
    BY <2>3
  <2>5. CASE index \in 0..(Len(list) - 1)
    <3> DEFINE id == list[index + 1]
    <3>1. index + 1 \in 1..Len(list)
      BY <2>3, <2>4, <2>5
    <3>2. id \in Ids /\ Agrees(id, list, index)
      BY <2>3, <3>1 DEF Agrees
    <3>3. Put(s, Reading(id, "edit", FALSE))
      BY <2>2, <2>5
    <3> HIDE DEF id, index
    <3> QED BY <1>5, <2>2, <3>2, <3>3
  <2>6. CASE index \notin 0..(Len(list) - 1)
    <3>1. Agrees(form'.id, data', page'.index)
      BY <2>2, <2>6 DEF Agrees
    <3>2. Put(s, None)
      BY <2>2, <2>6
    <3> QED BY <1>4, <3>1, <3>2
  <2> QED BY <2>5, <2>6
<1>11. CASE ReceiveVerify(s)
  <2>1. Agrees(form.id, data, page.index) /\ UNCHANGED <<data, page>>
    BY <1>3, <1>11 DEF ReceiveVerify, Leads
  <2>2. form.id \in Ids \cup {0} /\ form.typed \in BOOLEAN
    BY DEF IInv, TypeOK
  <2>3. \/ Put(s, None) /\ UNCHANGED form
        \/ Put(s, Reading(form.id, "unasked", form.typed))
        \/ Put(s, None) /\ form' = Empty
    BY <1>11 DEF ReceiveVerify, NewRecord
  <2>4. form' = Empty => Agrees(form'.id, data', page'.index)
    BY DEF Empty, Agrees
  <2> QED BY <1>4, <1>5, <2>1, <2>2, <2>3, <2>4
<1> QED BY <1>6, <1>7, <1>8, <1>9, <1>10, <1>11 DEF Receive

LEMMA CourseStep == IInv /\ Numbered /\ OnCourse /\ [Next]_vars => OnCourse'
<1> SUFFICES ASSUME IInv, Numbered, OnCourse, [Next]_vars, shown', ~astray' PROVE OnCourse'
  BY DEF OnCourse
<1>1. CASE Next
  BY <1>1, CourseOfUser, CourseOfGrid, CourseOfServer, CourseOfAnswer DEF Next, AtForm, Unbidden
<1>2. CASE UNCHANGED vars
  BY <1>2 DEF vars, OnCourse
<1> QED BY <1>1, <1>2

(***************************************************************************)
(* Theorems                                                                *)
(***************************************************************************)
(* Ids, offsets, sizes and indices keep their types, whatever is answered  *)
(* when, also when records are deleted between the fetch and the count of  *)
(* a search: TypeOK of every state (axelor.data.js, Resource.search).      *)
THEOREM TypeCorrect == Spec => []TypeOK
<1>1. IInv => TypeOK
  BY DEF IInv
<1> QED BY <1>1, Invariance, PTL

(* Page and records stay in step under any interleaving of searches, saves *)
(* and removals, with fetch and count apart (_accept, removeAll).          *)
THEOREM PageInStep == Spec => []PageMatches
<1>1. IInv => PageMatches
  BY DEF IInv
<1> QED BY <1>1, Invariance, PTL

(* The ways TypingIsKept lists for a record with unsaved changes to go. *)
Goes ==
  \/ asked \ asked' # {}
  \/ opening # None /\ opening' = None
  \/ news' < news
  \/ ActionReload \/ RouteList \/ \E id \in Routes : Route(id)
  \/ \E s \in Slots :
       /\ wire[s] # None /\ wire'[s] = None
       /\ \/ wire[s].then \in {"unasked", "silent"}
          \/ wire[s].kind \in {"read", "copy"} /\ ~wire[s].over

LEMMA ReplacedBy ==
  ASSUME IInv, Asked(wire), Next, ShowConfirm /\ form.typed /\ form' # form
  PROVE  Goes
<1>1. wire \in [Slots -> Requests \cup {None}] /\ FormType /\ news \in Nat
  BY DEF IInv, TypeOK, FormType
<1>2. ~ActionNew /\ \A what \in Operations : ~Press(what)
  <2>1. ASSUME NEW what, AskFirst(what) PROVE UNCHANGED form
    BY <2>1 DEF AskFirst
  <2> QED BY <2>1 DEF Press, ActionNew
<1>3. ASSUME NEW question \in asked, Confirm(question) PROVE Goes
  <2>1. question \in asked \ asked'
    BY <1>3 DEF Confirm
  <2> QED BY <2>1 DEF Goes
<1>4. CASE Type
  <2>1. form' = [form EXCEPT !.typed = TRUE] /\ form.typed = TRUE
    BY <1>1, <1>4 DEF Type, FormType
  <2>2. form' = form
    BY <1>1, <2>1 DEF FormType
  <2> QED BY <2>2
<1>5. CASE Opened
  BY <1>5 DEF Opened, Goes
<1>6. CASE Defaults
  <2>1. news' < news
    BY <1>1, <1>6 DEF Defaults
  <2> QED BY <2>1 DEF Goes
<1>7. CASE ActionReload \/ RouteList \/ \E id \in Routes : Route(id)
  BY <1>7 DEF Goes
<1>8. ASSUME NEW s \in Slots, Receive(s) PROVE Goes
  <2>1. ASSUME Put(s, None) PROVE wire[s] # None /\ wire'[s] = None
    BY <1>1, <1>8, <2>1 DEF Receive, Put
  <2>2. CASE ReceiveRead(s) \/ ReceiveCopy(s)
    <3>1. Put(s, None) /\ wire[s].kind \in {"read", "copy"}
      BY <2>2 DEF ReceiveRead, ReceiveCopy
    <3>2. wire[s].then = "unasked" \/ ~wire[s].over
      BY <2>1, <3>1 DEF Asked
    <3> QED BY <2>1, <3>1, <3>2 DEF Goes
  <2>3. CASE ReceiveVerify(s)
    <3>1. Put(s, None) /\ wire[s].then = "silent"
      BY <2>3 DEF ReceiveVerify
    <3> QED BY <2>1, <3>1 DEF Goes
  <2>4. ~ReceiveSave(s) /\ ~ReceiveSearch(s)
    BY DEF ReceiveSave, ReceiveSearch
  <2>5. ~ReceiveRemove(s)
    <3>1. SUFFICES ASSUME ReceiveRemove(s) PROVE UNCHANGED form
      OBVIOUS
    <3>2. CASE wire[s].then # "form"
      BY <3>1, <3>2 DEF ReceiveRemove
    <3>3. CASE wire[s].then = "form"
      <4>1. IF form.typed /\ ShowConfirm
            THEN asked' = asked \cup {Question("grid")} /\ UNCHANGED <<form, shown>>
            ELSE form' = Empty /\ shown' = FALSE /\ UNCHANGED asked
        BY <3>1, <3>3 DEF ReceiveRemove
      <4> QED BY <4>1, Zenon
    <3> QED BY <3>2, <3>3
  <2> QED BY <1>8, <2>2, <2>3, <2>4, <2>5 DEF Receive
<1>9. CASE \/ Copy \/ PressSave \/ DoSave \/ NavClick \/ GridSearch
           \/ \E question \in asked : Refuse(question)
           \/ \E index \in -1..Limit : Open(index) \/ GridRemove(index)
           \/ \E s \in Slots : Serve(s) \/ Fail(s)
           \/ \E id \in Shared : Others(id)
  BY <1>9 DEF Refuse, Copy, PressSave, DoSave, NavClick, GridSearch, Open, GridRemove, Serve, Fail, Others
<1> QED BY <1>2, <1>3, <1>4, <1>5, <1>6, <1>7, <1>8, <1>9 DEF Next

(* Where confirmations are on, what was typed goes only in the ways that   *)
(* TypingIsKept lists, whatever the number of requests, dialogs and        *)
(* default values under way (confirmDirty, doReload, checkVersion).        *)
THEOREM TypedStays == Spec => TypingIsKept
<1>1. Init => NoneUnasked
  BY DEF Init, NoneUnasked, Asked
<1>2. IInv /\ NoneUnasked /\ [Next]_vars => NoneUnasked'
  BY AskedInv DEF NoneUnasked
<1>3. IInv /\ NoneUnasked /\ [Next]_vars => [ShowConfirm /\ form.typed /\ form' # form => Goes]_vars
  BY ReplacedBy DEF NoneUnasked
<1> QED BY <1>1, <1>2, <1>3, Invariance, PTL DEF Spec, TypingIsKept, Goes

(* A user who waits for each answer gets to see the record the pager       *)
(* counts, through any sequence of next, previous, new, copy, save, delete *)
(* and reload, on pages of any size (nextItem, prevItem, _accept, onShow): *)
(* FormShowsIndex.                                                         *)
THEOREM PagerIsRight == Spec => []FormShowsIndex
<1>1. Init => Numbered /\ OnCourse
  <2>1. ASSUME Init PROVE Numbered
    BY <2>1 DEF Init, Numbered
  <2>2. ASSUME Init PROVE OnCourse
    BY <2>2 DEF Init, OnCourse
  <2> QED BY <2>1, <2>2
<1>2. IInv /\ OnCourse => FormShowsIndex
  <2>1. SUFFICES ASSUME IInv, OnCourse, shown, Quiet, waiting = 0, opening = None, ~astray, form.id # 0
                 PROVE  At(page.index) \in {0, form.id}
    BY DEF FormShowsIndex
  <2>2. Agrees(form.id, data, page.index)
    BY <2>1 DEF OnCourse, Quiet, Silent
  <2> QED BY <2>1, <2>2 DEF Agrees, At
<1> QED BY <1>1, <1>2, NumberedStep, CourseStep, Invariance, PTL DEF Spec
=============================================================================
