------------------------------ MODULE ActionQueue ------------------------------
(***************************************************************************)
(* The events of one form at the same time: action handlers started by     *)
(* buttons and fields (form.actions.js), and saves started by the user     *)
(* (onSave in view.form.js).  They are kept apart by two waits of          *)
(* axelor.ng.js: ajaxStop, until no HTTP request is pending, and           *)
(* waitForActions, until the promises of $actionPromises are settled.      *)
(*                                                                         *)
(* Timers fire in any order.  What a handler does with the answers of the  *)
(* server is the subject of ActionProtocol; here it sends a request, may   *)
(* wait for the user, may save the form, and ends.                         *)
(***************************************************************************)
EXTENDS Naturals, FiniteSets

CONSTANTS
  Handlers,    \* calls of ActionHandler.handle
  Saves        \* calls of onSave by the user

(* The handler of an onSave action is known by the save that calls it. *)
ASSUME HandlersAreNoSaves == Handlers \cap Saves = {}
Actors == Handlers \cup Saves

VARIABLES
  handler,     \* where each handler is
  pending,     \* the promises each handler waits for
  promises,    \* $actionPromises
  saves,       \* per save: where it is, what it waits for, and the handlers
               \* that had been started when it was pressed
  reads,       \* records being read again after a save
  saveAction   \* whether the form has an onSave action

vars == <<handler, pending, promises, saves, reads, saveAction>>

(* A handler is "clicked" (a button, before on:before-save has passed),    *)
(* "waiting" for ajaxStop, "queued" behind its pending promises, then      *)
(* running, with a request in flight except in "dialog" and "flush".       *)
Running == {"request", "dialog", "verify", "flush", "save"}
Settled == {"resolved", "rejected"}
HandlerStates == {"idle", "clicked", "waiting", "queued"} \cup Running \cup Settled

(* A save waits in "wait1" and "all1" before doOnSave, and either in       *)
(* "wait2" and "all2" or for the handler of its onSave action before       *)
(* doSave.                                                                 *)
SaveStates ==
  {"idle", "wait1", "all1", "before", "action", "wait2", "all2", "posted"} \cup Settled

Save == [at : SaveStates, all : SUBSET Actors, seen : SUBSET Actors]

Started(h) == handler[h] \notin {"idle", "clicked"}
Open(h) == Started(h) /\ handler[h] \notin Settled

Init ==
  /\ handler = [h \in Actors |-> "idle"]
  /\ pending = [h \in Actors |-> {}]
  /\ promises = {}
  /\ saves = [s \in Saves |-> [at |-> "idle", all |-> {}, seen |-> {}]]
  /\ reads = 0
  /\ saveAction \in BOOLEAN

(* ajaxStop: no request of the form is pending. *)
AjaxStop ==
  /\ reads = 0
  /\ \A h \in Actors : handler[h] \notin {"request", "verify", "save"}
  /\ \A s \in Saves : saves[s].at # "posted"

(* $q.all: calls back when all are resolved, or one is rejected. *)
Rejected(all) == \E h \in all : handler[h] = "rejected"
All(all) == (\A h \in all : handler[h] = "resolved") \/ Rejected(all)

(***************************************************************************)
(* Handlers.                                                               *)
(***************************************************************************)
Goto(h, state) == handler' = [handler EXCEPT ![h] = state]

(* Mutant of Handle: only what is running is waited for. *)
HandleRunning(h) ==
  /\ Goto(h, "waiting")
  /\ pending' = [pending EXCEPT ![h] = {k \in promises : handler[k] \in Running}]
  /\ promises' = promises \cup {h}

(* Mutant of Handle: the promise is pushed before the list is copied. *)
HandlePushed(h) ==
  /\ Goto(h, "waiting")
  /\ pending' = [pending EXCEPT ![h] = promises \cup {h}]
  /\ promises' = promises \cup {h}

(* handle: whatever is in $actionPromises goes first. *)
Handle(h) ==
  /\ Goto(h, "waiting")
  /\ pending' = [pending EXCEPT ![h] = promises]
  /\ promises' = promises \cup {h}

(* onChange, onLoad, onNew, onSelect. *)
Trigger(h) ==
  /\ handler[h] = "idle"
  /\ Handle(h)
  /\ UNCHANGED <<saves, reads, saveAction>>

Click(h) ==
  /\ handler[h] = "idle"
  /\ Goto(h, "clicked")
  /\ UNCHANGED <<pending, promises, saves, reads, saveAction>>

(* on:before-save has passed, or was refused. *)
Clicked(h) ==
  /\ handler[h] = "clicked"
  /\ \/ AjaxStop /\ Handle(h)
     \/ Goto(h, "idle") /\ UNCHANGED <<pending, promises>>
  /\ UNCHANGED <<saves, reads, saveAction>>

Wait(h) ==
  /\ handler[h] = "waiting" /\ AjaxStop
  /\ Goto(h, "queued")
  /\ UNCHANGED <<pending, promises, saves, reads, saveAction>>

Start(h) ==
  /\ handler[h] = "queued" /\ All(pending[h])
  /\ Goto(h, "request")
  /\ UNCHANGED <<pending, promises, saves, reads, saveAction>>

(* The request is answered, the user answers a box: the handler ends, or   *)
(* has a save to do.                                                       *)
Answer(h) ==
  /\ \/ handler[h] = "request" /\ (\E next \in {"dialog", "verify"} \cup Settled : Goto(h, next))
     \/ handler[h] = "dialog" /\ (\E next \in {"verify"} \cup Settled : Goto(h, next))
  /\ UNCHANGED <<pending, promises, saves, reads, saveAction>>

(* _handleSave: the version is verified first, then on:before-save; onSave *)
(* is called with wait false.                                              *)
Verified(h) ==
  /\ handler[h] = "verify"
  /\ \E next \in {"flush", "rejected"} : Goto(h, next)
  /\ UNCHANGED <<pending, promises, saves, reads, saveAction>>

Flushed(h) ==
  /\ handler[h] = "flush" /\ AjaxStop
  /\ \E next \in {"save", "resolved", "rejected"} : Goto(h, next)
  /\ UNCHANGED <<pending, promises, saves, reads, saveAction>>

Saved(h) ==
  /\ handler[h] = "save"
  /\ \/ Goto(h, "resolved") /\ reads' = reads + 1
     \/ Goto(h, "rejected") /\ reads' = reads
  /\ UNCHANGED <<pending, promises, saves, saveAction>>

(* done, ten milliseconds after the handler has settled. *)
Done(h) ==
  /\ handler[h] \in Settled /\ h \in promises
  /\ promises' = promises \ {h}
  /\ UNCHANGED <<handler, pending, saves, reads, saveAction>>

(***************************************************************************)
(* Saves.                                                                  *)
(***************************************************************************)
GoSave(s, state) == saves' = [saves EXCEPT ![s].at = state]

(* on:before-save may refuse at once. *)
Press(s) ==
  /\ saves[s].at = "idle"
  /\ \/ saves' = [saves EXCEPT ![s] = [@ EXCEPT !.at = "wait1", !.seen = {h \in Actors : Started(h)}]]
     \/ GoSave(s, "rejected")
  /\ UNCHANGED <<handler, pending, promises, reads, saveAction>>

Waits(s, state) == saves' = [saves EXCEPT ![s] = [@ EXCEPT !.at = state, !.all = promises]]

(* waitForActions without a list: what is in $actionPromises when ajaxStop *)
(* has called back.                                                        *)
Gather(s) ==
  /\ AjaxStop
  /\ \/ saves[s].at = "wait1" /\ Waits(s, "all1")
     \/ saves[s].at = "wait2" /\ Waits(s, "all2")
  /\ UNCHANGED <<handler, pending, promises, reads, saveAction>>

(* New actions have been executed: wait for them. *)
Again(s) ==
  /\ \A h \in saves[s].all : handler[h] = "resolved"
  /\ promises # {}
  /\ \/ saves[s].at = "all1" /\ GoSave(s, "wait1")
     \/ saves[s].at = "all2" /\ GoSave(s, "wait2")
  /\ UNCHANGED <<handler, pending, promises, reads, saveAction>>

(* Mutants of CallBack: new actions are not waited for; a rejected handler *)
(* does not call back.                                                     *)
CallBackAtOnce(s) == All(saves[s].all)
CallBackResolved(s) == promises = {} /\ All(saves[s].all) /\ ~Rejected(saves[s].all)

CallBack(s) == Rejected(saves[s].all) \/ (promises = {} /\ All(saves[s].all))

(* doOnSave: an invalid form is refused. *)
DoOnSave(s) ==
  /\ saves[s].at = "all1" /\ CallBack(s)
  /\ \/ GoSave(s, "rejected")
     \/ GoSave(s, IF saveAction THEN "before" ELSE "wait2")
  /\ UNCHANGED <<handler, pending, promises, reads, saveAction>>

(* The handler of onSave, after on:before-save or refused by it. *)
SaveAction(s) ==
  /\ saves[s].at = "before"
  /\ \/ AjaxStop /\ Handle(s)
     \/ Goto(s, "rejected") /\ UNCHANGED <<pending, promises>>
  /\ GoSave(s, "action")
  /\ UNCHANGED <<reads, saveAction>>

DoSave(s) ==
  /\ \/ saves[s].at = "all2" /\ CallBack(s)
     \/ saves[s].at = "action" /\ handler[s] = "resolved"
  /\ GoSave(s, "posted")
  /\ UNCHANGED <<handler, pending, promises, reads, saveAction>>

SaveAnswer(s) ==
  /\ saves[s].at = "posted"
  /\ \/ GoSave(s, "resolved") /\ reads' = reads + 1
     \/ GoSave(s, "rejected") /\ reads' = reads
  /\ UNCHANGED <<handler, pending, promises, saveAction>>

Read ==
  /\ reads > 0
  /\ reads' = reads - 1
  /\ UNCHANGED <<handler, pending, promises, saves, saveAction>>

Event == (\E h \in Handlers : Trigger(h) \/ Click(h)) \/ (\E s \in Saves : Press(s))

HandlerStep(h) ==
  \/ Clicked(h) \/ Wait(h) \/ Start(h) \/ Answer(h) \/ Verified(h) \/ Flushed(h) \/ Saved(h) \/ Done(h)

SaveStep(s) ==
  \/ Gather(s) \/ Again(s) \/ DoOnSave(s) \/ SaveAction(s)
  \/ DoSave(s) \/ SaveAnswer(s)

Next ==
  \/ Event
  \/ \E h \in Actors : HandlerStep(h)
  \/ \E s \in Saves : SaveStep(s)
  \/ Read

Spec == Init /\ [][Next]_vars

(* Timers fire, the server answers, boxes are answered; nobody has to      *)
(* press anything.                                                         *)
FairSpec ==
  /\ Spec
  /\ \A h \in Actors : WF_vars(HandlerStep(h))
  /\ \A s \in Saves : WF_vars(SaveStep(s))
  /\ WF_vars(Read)

TypeOK ==
  /\ handler \in [Actors -> HandlerStates]
  /\ pending \in [Actors -> SUBSET Actors]
  /\ promises \subseteq Actors
  /\ saves \in [Saves -> Save]
  /\ reads \in Nat
  /\ saveAction \in BOOLEAN

(* Two handlers never run at the same time, even though one may have been  *)
(* started within another, unless a handler that one of them waited for    *)
(* was rejected: $q.all does not wait for the rest then.                   *)
OneByOne ==
  \A h, k \in Actors :
    h # k /\ handler[h] \in Running /\ handler[k] \in Running
      => Rejected(pending[h] \cup pending[k])

(* The user's save is sent when no handler is at work, so that it holds    *)
(* what they put into the record: not those that were there when the save  *)
(* was pressed and, unless there is an onSave action, not those started    *)
(* since.  A rejected handler lifts this too.                              *)
SaveComesLast ==
  [][\A s \in Saves :
       saves[s].at # "posted" /\ saves'[s].at = "posted" =>
         \/ Rejected(saves[s].all)
         \/ \A h \in Actors : Open(h) => saveAction /\ h \notin saves[s].seen]_vars

(* Every handler ends, and its promise is cleared from $actionPromises:    *)
(* none waits for itself, for one behind it, or for a promise that nobody  *)
(* settles.                                                                *)
HandlersEnd == \A h \in Actors : Open(h) ~> (handler[h] \in Settled /\ promises = {})

(* Whoever waits for onSave learns the outcome, unless the onSave action   *)
(* was rejected: saveAction().then(doSave) says nothing then.              *)
SavesEnd ==
  \A s \in Saves : saves[s].at = "wait1" ~> (saves[s].at \in Settled \/ handler[s] = "rejected")
=============================================================================
