---------------------------- MODULE ActionProtocol ----------------------------
(***************************************************************************)
(* The actions of a form.  The browser (ActionHandler in form.actions.js)  *)
(* sends the names listed at a button or an event, the server              *)
(* (ActionHandler.execute, ActionGroup, ActionValidate) runs as many of    *)
(* them as it can and answers with their results.  Where the rest has to   *)
(* wait for the browser, for a save or for the user, the last result says  *)
(* what is pending: the browser asks for that when it is ready.            *)
(*                                                                         *)
(* An action is known by its kind.  Items whose condition is false, and    *)
(* names that are not found, are left out of the groups: the server passes *)
(* over them.  One list of actions is followed; the browser starts the     *)
(* next one when it has ended.                                             *)
(***************************************************************************)
EXTENDS Naturals, SequencesExt

CONSTANTS
  Attributes,  \* what is listed at the button: sequences of names
  Outers,      \* the items the group "outer" may have
  Inners,      \* the items the group "inner" may have
  Checks       \* the validators the action-validate "check" may have

Groups == {"outer", "inner"}
Pseudo == {"save", "validate", "new", "close"}

\* action-method and the like, by what the answer holds
Methods == {"values", "reload", "info", "alert", "error", "errors"}

\* "require" is an action-condition that fails
Validators == {"Info", "Notify", "Alert", "Error"}

Stoppers == {"error", "Error", "errors", "require"}

Names == Groups \cup {"check", "require"} \cup Methods \cup Pseudo

(* Groups are two deep. *)
ASSUME ListsAssumption ==
  /\ Attributes \subseteq Seq(Names)
  /\ Outers \subseteq Seq(Names \ {"outer"}) /\ Inners \subseteq Seq(Names \ Groups)
  /\ Checks \subseteq Seq(Validators)

(* Lists that work: a group around another does not see its failures, and  *)
(* a message that waits is shown without the alert or error beside it.     *)
Orderly ==
  /\ \A names \in Outers \cup Inners : ToSet(names) \cap {"errors", "require"} = {}
  /\ \A all \in Checks :
       /\ "Notify" \notin ToSet(all)
       /\ \A i, j \in DOMAIN all : i < j /\ all[i] = "Info" => all[j] = "Info"

VARIABLES
  steps,       \* what the list stands for: the kinds of its steps, in order
  items,       \* per group its items, and the validators of the check
  todo,        \* the references to ask for next
  results,     \* the results still to be handled
  ran,         \* the methods the server ran
  shown,       \* the steps that took effect in the browser
  status       \* "request", "handle", "done" or "rejected"

vars == <<steps, items, todo, results, ran, shown, status>>

(* name[at], counted from one. *)
Ref(name, at) == [name |-> name, at |-> at]

Refs(names) == [i \in DOMAIN names |-> Ref(names[i], 1)]

From(seq, i) == SubSeq(seq, i, Len(seq))

(* The elements that are in kinds. *)
Only(seq, kinds) ==
  FlattenSeq([i \in DOMAIN seq |-> IF seq[i] \in kinds THEN <<seq[i]>> ELSE <<>>])

(* The steps references stand for.  For the groups they name, "below" has  *)
(* the steps from each item on.                                            *)
Expand(refs, below) ==
  FlattenSeq([i \in DOMAIN refs |->
    LET ref == refs[i]
    IN IF ref.name \in Groups THEN below[ref.name][ref.at]
       ELSE IF ref.name = "check" THEN From(items["check"], ref.at) ELSE <<ref.name>>])

Places(name) == 1..(Len(items[name]) + 1)

GroupSteps ==
  LET Within(name, below) == [at \in Places(name) |-> Expand(From(items[name], at), below)]
      inner == [g \in {"inner"} |-> Within(g, <<>>)]
  IN [g \in Groups |-> IF g = "inner" THEN inner[g] ELSE Within(g, inner)]

Meaning(refs) == Expand(refs, GroupSteps)

(* An action after "close" is a mistake the browser reports if it sees it. *)
Init ==
  /\ items \in {[g \in {"outer", "inner", "check"} |->
                   CASE g = "outer" -> Refs(o) [] g = "inner" -> Refs(n) [] OTHER -> c] :
                  o \in Outers, n \in Inners, c \in Checks}
  /\ todo \in {Refs(names) : names \in Attributes}
  /\ steps = Meaning(todo)
  /\ \A i \in 1..(Len(steps) - 1) : steps[i] # "close"
  /\ results = <<>> /\ ran = <<>> /\ shown = <<>>
  /\ status = "request"

(***************************************************************************)
(* The server.                                                             *)
(***************************************************************************)
Result(kinds, pending) == [kinds |-> kinds, pending |-> pending]

(* Mutant of Pending: the last item is not told from the others. *)
PendingPast(owner, refs, i, previous) ==
  previous \o (IF owner = "" THEN From(refs, i + 1) ELSE <<Ref(owner, i + 1)>>)

(* getPending: the group that stands for the request itself has no name.   *)
Pending(owner, refs, i, previous) ==
  previous \o (IF i = Len(refs) THEN <<>>
               ELSE IF owner = "" THEN From(refs, i + 1) ELSE <<Ref(owner, i + 1)>>)

(* ActionValidate.evaluate: messages are collected up to the first error   *)
(* or alert; only an alert can be resumed after.                           *)
Check(at) ==
  LET all == items["check"]
      ends == {i \in at..Len(all) : all[i] \in {"Alert", "Error"}}
      end == CHOOSE i \in ends : \A j \in ends : i <= j
  IN CASE ends = {} -> Result(From(all, at), <<>>)
       [] OTHER -> Result(SubSeq(all, at, end),
                          IF all[end] = "Alert" /\ end < Len(all) THEN <<Ref("check", end + 1)>> ELSE <<>>)

(* The keys of a result that a group waits at when a method or a group in  *)
(* it has returned them.                                                   *)
Waits(result) ==
  ToSet(result.kinds) \cap
    (Pseudo \cup {"reload", "info", "alert", "error", "Info", "Alert", "Error"}) # {}

(* A group with a single method returns its Response as it is. *)
IsResponse(group) ==
  LET Only1(g, names) == Len(items[g]) = 1 /\ items[g][1].name \in names
  IN Only1(group, Methods) \/ (Only1(group, {"inner"}) /\ Only1("inner", Methods))

(* Mutant of Stops: only what waits for the user stops a group. *)
StopsToWait(refs, i, out) == out # <<>> /\ Waits(Last(out))

(* Whether the items after item i are left for later, or for good.  Errors *)
(* from within a group are seen only if they are in a Response.            *)
Stops(refs, i, out) ==
  LET name == refs[i].name
  IN /\ out # <<>>
     /\ \/ Waits(Last(out)) \/ name \in {"check", "require", "errors"}
        \/ name \in Groups /\ IsResponse(name) /\ Last(out).kinds = <<"errors">>

(* The results of item i, with what is pending after them.  The operators  *)
(* give them as sets of one element, which bind them to their value.       *)
Item(owner, refs, i, below) ==
  LET name == refs[i].name
      Then(result) == Result(result.kinds, Pending(owner, refs, i, result.pending))
  IN CASE name = "check" ->
            {IF result.kinds = <<>> THEN <<>> ELSE <<Then(result)>> : result \in {Check(refs[i].at)}}
       [] name \in Groups ->
            {IF out # <<>> /\ Waits(Last(out)) THEN Append(Front(out), Then(Last(out))) ELSE out :
               out \in below[name][refs[i].at]}
       [] name \in {"values", "errors", "require"} -> {<<Result(<<name>>, <<>>)>>}
       [] OTHER -> {<<Then(Result(<<name>>, <<>>))>>}

(* ActionGroup.evaluate, from each item on. *)
Evaluate(owner, refs, below) ==
  LET from[i \in 1..(Len(refs) + 1)] ==
        IF i > Len(refs) THEN {<<>>}
        ELSE UNION {IF Stops(refs, i, out) THEN {out} ELSE {out \o rest : rest \in from[i + 1]} :
                      out \in Item(owner, refs, i, below)}
  IN from

GroupResults ==
  LET inner == [g \in {"inner"} |-> Evaluate(g, items[g], <<>>)]
  IN [g \in Groups |-> IF g = "inner" THEN inner[g] ELSE Evaluate(g, items[g], inner)]

(* ActionHandler.execute; every method that ran has left a result. *)
Execute == Evaluate("", todo, GroupResults)[1]

MethodsOf(out) == FlattenSeq([i \in DOMAIN out |-> Only(out[i].kinds, Methods)])

(***************************************************************************)
(* The browser.                                                            *)
(***************************************************************************)
End(how) == status' = how /\ todo' = <<>> /\ results' = <<>>

(* "close" and "new" have to come last. *)
Misplaced == \E i \in 1..(Len(todo) - 1) : todo[i].name \in {"close", "new"}

(* Mutant of Refuse: the mistake is reported and nobody told to go on.     *)
RefuseSilently == status = "request" /\ Misplaced /\ UNCHANGED vars

Refuse ==
  /\ status = "request" /\ Misplaced
  /\ End("rejected")
  /\ UNCHANGED <<steps, items, ran, shown>>

Local == Len(todo) = 1 /\ todo[1].name \in Pseudo

(* A single save, validate, new or close does not need the server. *)
DoLocal ==
  /\ status = "request" /\ Local
  /\ \/ End("done") /\ shown' = Append(shown, todo[1].name)
     \/ todo[1].name # "close" /\ End("rejected") /\ UNCHANGED shown
  /\ UNCHANGED <<steps, items, ran>>

Send ==
  /\ status = "request" /\ ~Misplaced /\ ~Local
  /\ \E out \in Execute : results' = out /\ ran' = ran \o MethodsOf(out)
  /\ todo' = <<>> /\ status' = "handle"
  /\ UNCHANGED <<steps, items, shown>>

(* The request, or its answer, is lost. *)
Lose ==
  /\ status = "request" /\ ~Misplaced /\ ~Local
  /\ End("rejected")
  /\ ran' = ran \/ \E out \in Execute : ran' = ran \o MethodsOf(out)
  /\ UNCHANGED <<steps, items, shown>>

(* Mutant of Continue: a promise is resolved without what is pending. *)
ContinueForgets(pending) == results' = Tail(results) /\ UNCHANGED <<todo, status>>

(* chain: with something pending the other results are left. *)
Continue(pending) ==
  IF pending = <<>>
  THEN /\ results' = Tail(results)
       /\ UNCHANGED <<todo, status>>
  ELSE /\ todo' = pending /\ results' = <<>> /\ status' = "request"

Show(kinds) == shown' = shown \o kinds

Has(kinds) == \E k \in ToSet(Head(results).kinds) : k \in kinds

Handling == status = "handle" /\ results # <<>>

(* A box that something waits for: the rest of the result is not looked at. *)
Waiting == Has({"info", "Info"}) /\ Head(results).pending # <<>>

HandleBox ==
  /\ Handling /\ Waiting
  /\ Show(Only(Head(results).kinds, {"info", "Info"}))
  /\ Continue(Head(results).pending)
  /\ UNCHANGED <<steps, items, ran>>

(* An error or an invalid field. *)
HandleStop ==
  /\ Handling /\ ~Waiting /\ Has(Stoppers)
  /\ Show(Head(results).kinds)
  /\ End("rejected")
  /\ UNCHANGED <<steps, items, ran>>

(* The user confirms or not. *)
HandleAlert ==
  /\ Handling /\ ~Waiting /\ ~Has(Stoppers) /\ Has({"alert", "Alert"})
  /\ Show(Head(results).kinds)
  /\ Continue(Head(results).pending) \/ End("rejected")
  /\ UNCHANGED <<steps, items, ran>>

(* Saving, reloading and so on work or fail. *)
HandleWork ==
  /\ Handling /\ Has({"reload", "save", "validate", "new"})
  /\ \/ Show(Head(results).kinds) /\ Continue(Head(results).pending)
     \/ End("rejected") /\ UNCHANGED shown
  /\ UNCHANGED <<steps, items, ran>>

(* Values are set, messages shown, the view closed: nobody asks for what   *)
(* is pending.                                                             *)
HandleRest ==
  /\ Handling /\ ~Waiting
  /\ ~Has(Stoppers \cup {"alert", "Alert", "reload", "save", "validate", "new"})
  /\ Show(Head(results).kinds)
  /\ Continue(<<>>)
  /\ UNCHANGED <<steps, items, ran>>

Finish ==
  /\ status = "handle" /\ results = <<>>
  /\ End("done")
  /\ UNCHANGED <<steps, items, ran, shown>>

Next == \/ Refuse \/ DoLocal \/ Send \/ Lose
        \/ HandleBox \/ HandleStop \/ HandleAlert \/ HandleWork \/ HandleRest \/ Finish

Spec == Init /\ [][Next]_vars

(* Requests end, and the user answers. *)
FairSpec == Spec /\ WF_vars(Next)

(***************************************************************************)
(* Properties.                                                             *)
(***************************************************************************)
TypeOK ==
  /\ ToSet(shown) \cup ToSet(ran) \subseteq Pseudo \cup Methods \cup Validators \cup {"require"}
  /\ status \in {"request", "handle", "done", "rejected"}
  /\ \A ref \in ToSet(todo) \cup UNION {ToSet(r.pending) : r \in ToSet(results)} :
       ref.name \in DOMAIN items => ref.at \in {1} \cup DOMAIN items[ref.name]

(* However the actions are nested and wherever they pause, their effects   *)
(* reach the user in the order they are written in, each once and none     *)
(* left out, and nothing follows an error.                                 *)
Sequence == INSTANCE ActionSequence WITH
  status <- IF status \in {"done", "rejected"} THEN status ELSE "running"

StepsInOrder == Sequence!Spec

(* The server runs the methods in order as well, and none before the       *)
(* browser is through with every step ahead of it that has to be waited    *)
(* for: no method sees a record that should have been saved or an answer   *)
(* the user has not given.                                                 *)
Awaited == Pseudo \cup Stoppers \cup {"reload", "info", "Info", "alert", "Alert"}

NothingAhead ==
  \E k \in 0..Len(steps) :
    /\ ran = Only(SubSeq(steps, 1, k), Methods)
    /\ \A j \in 1..(k - 1) : steps[j] \in Awaited => j <= Len(shown)

(* Resuming gets further each time: the actions come to an end.            *)
Settles == <>(status \in {"done", "rejected"})
=============================================================================
