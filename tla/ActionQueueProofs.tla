--------------------------- MODULE ActionQueueProofs ---------------------------
(* Proofs about ActionQueue, for any number of handlers and saves. *)
EXTENDS ActionQueue, TLAPS

(* What is open is in $actionPromises, and of two open handlers one waits  *)
(* for the other.                                                          *)
Listed == \A h \in Actors : Open(h) => h \in promises
Ordered == \A h, k \in Actors : h # k /\ Open(h) /\ Open(k) => h \in pending[k] \/ k \in pending[h]

(* A handler runs once its pending promises have called back. *)
CalledBack == \A h \in Actors : handler[h] \in Running => All(pending[h])

(* The handler of an onSave action is started by its save. *)
OnceActed ==
  \A s \in Saves :
    /\ handler[s] # "idle" => saves[s].at \in {"action", "posted"} \cup Settled
    /\ saves[s].at \in {"before", "action"} => saveAction

(* Of the handlers seen by a save none is open once doOnSave is called. *)
SeenEnded ==
  \A s \in Saves : \A h \in saves[s].seen :
    /\ Started(h)
    /\ saves[s].at \in {"before", "action"} => ~Open(h) \/ Rejected(saves[s].all)

Inv == Listed /\ Ordered /\ CalledBack /\ OnceActed /\ SeenEnded

IInv == TypeOK /\ Inv

(* Fields of a save are set to values meant for them. *)
LEMMA SaveFields ==
  ASSUME NEW t \in Save, NEW state \in SaveStates, NEW set \in SUBSET Actors
  PROVE  [t EXCEPT !.at = state, !.all = set] \in Save /\ [t EXCEPT !.at = state, !.seen = set] \in Save
BY DEF Save

(* The variables keep the values meant for them. *)
LEMMA InitType == Init => TypeOK
BY DEF Init, TypeOK, HandlerStates, Save, SaveStates, Actors

LEMMA NextType == TypeOK /\ [Next]_vars => TypeOK'
<1> SUFFICES ASSUME TypeOK, [Next]_vars PROVE TypeOK'
  OBVIOUS
<1>h. ASSUME NEW h \in Actors, HandlerStep(h) PROVE TypeOK'
  <2>1. CASE Clicked(h)
    BY <2>1 DEF Clicked, Handle, Goto, TypeOK, HandlerStates
  <2>2. CASE Wait(h) \/ Start(h) \/ Answer(h) \/ Verified(h) \/ Flushed(h)
    BY <2>2 DEF Wait, Start, Answer, Verified, Flushed, Goto, TypeOK, HandlerStates, Running, Settled
  <2>3. CASE Saved(h) \/ Done(h)
    BY <2>3 DEF Saved, Done, Goto, TypeOK, HandlerStates, Running, Settled
  <2> QED BY <1>h, <2>1, <2>2, <2>3 DEF HandlerStep
<1>s. ASSUME NEW s \in Saves, SaveStep(s) PROVE TypeOK'
  <2>1. CASE Gather(s)
    <3>1. \E state \in {"all1", "all2"} : Waits(s, state)
      BY <2>1 DEF Gather
    <3>2. PICK t \in Save : saves' = [saves EXCEPT ![s] = t]
      BY <3>1, SaveFields DEF Waits, TypeOK, SaveStates
    <3> QED BY <2>1, <3>2 DEF Gather, TypeOK
  <2>2. CASE Again(s) \/ DoOnSave(s) \/ DoSave(s) \/ SaveAnswer(s)
    BY <2>2 DEF Again, DoOnSave, DoSave, SaveAnswer, GoSave, Save, SaveStates, TypeOK, Settled
  <2>3. CASE SaveAction(s)
    <3>1. saves' \in [Saves -> Save]
      BY <2>3 DEF SaveAction, GoSave, TypeOK, Save, SaveStates
    <3>2. /\ handler' \in [Actors -> HandlerStates]
          /\ pending' \in [Actors -> SUBSET Actors] /\ promises' \subseteq Actors
      BY <2>3 DEF SaveAction, Handle, Goto, TypeOK, HandlerStates, Settled, Actors
    <3> QED BY <2>3, <3>1, <3>2 DEF SaveAction, TypeOK
  <2> QED BY <1>s, <2>1, <2>2, <2>3 DEF SaveStep
<1>e. CASE Event
  <2>1. CASE \E h \in Handlers : Trigger(h) \/ Click(h)
    BY <2>1 DEF Trigger, Click, Handle, Goto, Actors, TypeOK, HandlerStates
  <2>2. CASE \E s \in Saves : Press(s)
    <3>1. PICK s \in Saves : Press(s)
      BY <2>2
    <3>2. CASE GoSave(s, "rejected")
      BY <3>1, <3>2 DEF Press, GoSave, TypeOK, Save, SaveStates, Settled
    <3>3. CASE ~GoSave(s, "rejected")
      <4>1. PICK t \in Save : saves' = [saves EXCEPT ![s] = t]
        BY <3>1, <3>3, SaveFields DEF Press, TypeOK, SaveStates
      <4> QED BY <3>1, <4>1 DEF Press, TypeOK
    <3> QED BY <3>2, <3>3
  <2> QED BY <1>e, <2>1, <2>2 DEF Event
<1>r. CASE Read
  BY <1>r DEF Read, TypeOK
<1>u. CASE UNCHANGED vars
  BY <1>u DEF vars, TypeOK
<1> QED BY <1>h, <1>s, <1>e, <1>r, <1>u DEF Next

LEMMA InitInv == Init => Inv
BY DEF Init, Inv, Listed, Ordered, CalledBack, OnceActed, SeenEnded, Open, Started, Running, Settled, Actors

(* Handle: a handler that was not started joins the list. *)
LEMMA HandleInv ==
  ASSUME TypeOK, Listed, Ordered, CalledBack,
         NEW h \in Actors, ~Started(h), Handle(h)
  PROVE  Listed' /\ Ordered' /\ CalledBack'
<1> USE DEF TypeOK, Handle, Goto, Open, Started, Running, Settled
<1>1. Listed'
  BY DEF Listed
<1>2. Ordered'
  BY DEF Ordered, Listed
<1>3. CalledBack'
  BY DEF CalledBack, All, Rejected
<1> QED BY <1>1, <1>2, <1>3

(* A started handler goes on, and is not opened again. *)
LEMMA MoveInv ==
  ASSUME TypeOK, Listed, Ordered, CalledBack, NEW h \in Actors, NEW state \in {"queued"} \cup Running \cup Settled,
         Open(h), Goto(h, state), UNCHANGED <<pending, promises>>,
         state \in Running => All(pending[h])
  PROVE  Listed' /\ Ordered' /\ CalledBack'
<1> USE DEF TypeOK, Goto, Open, Started, Running, Settled
<1>1. Listed'
  BY DEF Listed
<1>2. Ordered'
  BY DEF Ordered
<1>3. CalledBack'
  BY DEF CalledBack, All, Rejected
<1> QED BY <1>1, <1>2, <1>3

(* No step but Handle, and the moves of open handlers, touches them. *)
LEMMA SameHandlers ==
  ASSUME TypeOK, Listed, Ordered, CalledBack, UNCHANGED <<handler, pending, promises>>
  PROVE  Listed' /\ Ordered' /\ CalledBack'
BY DEF Listed, Ordered, CalledBack, Open, Started, All, Rejected

LEMMA NextHandlers ==
  ASSUME TypeOK, Inv, [Next]_vars
  PROVE  Listed' /\ Ordered' /\ CalledBack'
<1> USE DEF Inv
<1>h. ASSUME NEW h \in Actors, HandlerStep(h) PROVE Listed' /\ Ordered' /\ CalledBack'
  <2>1. CASE Clicked(h)
    <3>1. CASE Handle(h)
      BY <2>1, <3>1, HandleInv DEF Clicked, Started
    <3>2. CASE Goto(h, "idle") /\ UNCHANGED <<pending, promises>>
      BY <2>1, <3>2 DEF Clicked, Goto, TypeOK, Listed, Ordered, CalledBack, Open, Started, Running, Settled, All, Rejected
    <3> QED BY <2>1, <3>1, <3>2 DEF Clicked
  <2>2. CASE Wait(h)
    BY <2>2, MoveInv DEF Wait, Open, Started, Running, Settled
  <2>3. CASE Start(h)
    BY <2>3, MoveInv DEF Start, Open, Started, Running, Settled
  <2>4. CASE Answer(h) \/ Verified(h) \/ Flushed(h) \/ Saved(h)
    <3>1. Open(h) /\ All(pending[h])
      BY <2>4 DEF Answer, Verified, Flushed, Saved, Open, Started, Running, Settled, CalledBack
    <3>2. \E state \in Running \cup Settled : Goto(h, state)
      BY <2>4 DEF Answer, Verified, Flushed, Saved, Running, Settled
    <3>3. UNCHANGED <<pending, promises>>
      BY <2>4 DEF Answer, Verified, Flushed, Saved
    <3> QED BY <3>1, <3>2, <3>3, MoveInv
  <2>5. CASE Done(h)
    BY <2>5 DEF Done, Listed, Ordered, CalledBack, Open, Started, All, Rejected
  <2> QED BY <1>h, <2>1, <2>2, <2>3, <2>4, <2>5 DEF HandlerStep
<1>s. ASSUME NEW s \in Saves, SaveStep(s) PROVE Listed' /\ Ordered' /\ CalledBack'
  <2>1. CASE SaveAction(s)
    <3>1. handler[s] = "idle"
      BY <2>1 DEF SaveAction, OnceActed, Settled
    <3>2. CASE Handle(s)
      BY <3>1, <3>2, HandleInv DEF Started, Actors
    <3>3. CASE Goto(s, "rejected") /\ UNCHANGED <<pending, promises>>
      BY <3>1, <3>3 DEF Goto, TypeOK, Listed, Ordered, CalledBack, Open, Started, Running, Settled,
                        All, Rejected, Actors
    <3> QED BY <2>1, <3>2, <3>3 DEF SaveAction
  <2>2. CASE ~SaveAction(s)
    BY <1>s, <2>2, SameHandlers DEF SaveStep, Gather, Again, DoOnSave, DoSave, SaveAnswer
  <2> QED BY <2>1, <2>2
<1>e. CASE Event
  <2>1. ASSUME NEW h \in Handlers, Trigger(h) PROVE Listed' /\ Ordered' /\ CalledBack'
    BY <2>1, HandleInv DEF Trigger, Started, Actors
  <2>2. ASSUME NEW h \in Handlers, Click(h) PROVE Listed' /\ Ordered' /\ CalledBack'
    BY <2>2 DEF Click, Goto, TypeOK, Listed, Ordered, CalledBack, Open, Started, Running, Settled, All, Rejected, Actors
  <2>3. ASSUME NEW s \in Saves, Press(s) PROVE Listed' /\ Ordered' /\ CalledBack'
    BY <2>3, SameHandlers DEF Press
  <2> QED BY <1>e, <2>1, <2>2, <2>3 DEF Event
<1>r. CASE Read \/ UNCHANGED vars
  BY <1>r, SameHandlers DEF Read, vars
<1> QED BY <1>h, <1>s, <1>e, <1>r DEF Next

(* What a step leaves of the handlers: started ones stay so, settled ones  *)
(* stay as they are.                                                       *)
Keeps == \A h \in Actors : (Started(h) => Started(h)') /\ (handler[h] \in Settled => handler'[h] = handler[h])

(* A step that keeps the handlers and the saves keeps what saves know.     *)
LEMMA SameSaves ==
  ASSUME TypeOK, SeenEnded, Keeps, UNCHANGED saves
  PROVE  SeenEnded'
BY DEF TypeOK, Save, SeenEnded, Keeps, Open, Started, Rejected, Settled

LEMMA HandlerKeeps ==
  ASSUME TypeOK, NEW h \in Actors, HandlerStep(h)
  PROVE  Keeps /\ UNCHANGED <<saves, saveAction>> /\ (\A s \in Saves : handler[s] = "idle" => handler'[s] = "idle")
<1> USE DEF TypeOK, Keeps, Started, Settled, Goto, Actors
<1>1. CASE Clicked(h)
  BY <1>1 DEF Clicked, Handle
<1>2. CASE Wait(h) \/ Start(h) \/ Answer(h)
  BY <1>2 DEF Wait, Start, Answer
<1>3. CASE Verified(h) \/ Flushed(h) \/ Saved(h) \/ Done(h)
  BY <1>3 DEF Verified, Flushed, Saved, Done
<1> QED BY <1>1, <1>2, <1>3 DEF HandlerStep

LEMMA NextSaves ==
  ASSUME TypeOK, Inv, [Next]_vars
  PROVE  OnceActed' /\ SeenEnded'
<1> USE DEF Inv
<1>h. ASSUME NEW h \in Actors, HandlerStep(h) PROVE OnceActed' /\ SeenEnded'
  BY <1>h, HandlerKeeps, SameSaves DEF OnceActed
<1>s. ASSUME NEW s \in Saves, SaveStep(s) PROVE OnceActed' /\ SeenEnded'
  <2> USE DEF TypeOK, Save, Settled
  <2>1. CASE Gather(s)
    <3>1. /\ \A t \in Saves : saves'[t].seen = saves[t].seen /\ (t # s => saves'[t] = saves[t])
          /\ saves[s].at \in {"wait1", "wait2"} /\ saves'[s].at \in {"all1", "all2"}
      <4>1. \E state \in {"all1", "all2"} : saves' = [saves EXCEPT ![s] = [saves[s] EXCEPT !.at = state, !.all = promises]]
        BY <2>1 DEF Gather, Waits
      <4>2. saves[s].at \in {"wait1", "wait2"}
        BY <2>1 DEF Gather
      <4> QED BY <4>1, <4>2
    <3> QED BY <2>1, <3>1 DEF Gather, OnceActed, SeenEnded, Open, Started, Rejected
  <2>2. CASE Again(s)
    BY <2>2 DEF Again, GoSave, OnceActed, SeenEnded, Open, Started, Rejected
  <2>3. CASE DoOnSave(s)
    <3>1. \A h \in saves[s].seen : ~Open(h) \/ Rejected(saves[s].all)
      BY <2>3 DEF DoOnSave, CallBack, Listed
    <3> QED BY <2>3, <3>1 DEF DoOnSave, GoSave, OnceActed, SeenEnded, Open, Started, Rejected
  <2>4. CASE SaveAction(s)
    <3>1. handler[s] = "idle" /\ Keeps
      BY <2>4 DEF SaveAction, Handle, Goto, OnceActed, Keeps, Started, Actors
    <3>2. OnceActed'
      BY <2>4, <3>1 DEF SaveAction, Handle, Goto, GoSave, OnceActed, Actors
    <3>3. SeenEnded'
      BY <2>4, <3>1 DEF SaveAction, GoSave, SeenEnded, Keeps, Open, Started, Rejected
    <3> QED BY <3>2, <3>3
  <2>5. CASE DoSave(s) \/ SaveAnswer(s)
    <3>1. \A t \in Saves : saves'[t].seen = saves[t].seen /\ (t # s => saves'[t] = saves[t])
      BY <2>5 DEF DoSave, SaveAnswer, GoSave
    <3>2. saves'[s].at \in {"posted"} \cup Settled
      BY <2>5 DEF DoSave, SaveAnswer, GoSave
    <3> QED BY <2>5, <3>1, <3>2 DEF DoSave, SaveAnswer, OnceActed, SeenEnded, Open, Started, Rejected
  <2> QED BY <1>s, <2>1, <2>2, <2>3, <2>4, <2>5 DEF SaveStep
<1>e. CASE Event
  <2>1. ASSUME NEW h \in Handlers, Trigger(h) \/ Click(h) PROVE OnceActed' /\ SeenEnded'
    <3>1. Keeps /\ UNCHANGED <<saves, saveAction>>
      BY <2>1 DEF Trigger, Click, Handle, Goto, Keeps, Started, Settled, TypeOK
    <3>2. \A s \in Saves : handler'[s] = handler[s]
      BY <2>1, HandlersAreNoSaves DEF Trigger, Click, Handle, Goto, TypeOK, Actors
    <3> QED BY <3>1, <3>2, SameSaves DEF OnceActed
  <2>2. ASSUME NEW s \in Saves, Press(s) PROVE OnceActed' /\ SeenEnded'
    <3> DEFINE set == {h \in Actors : Started(h)}
    <3>1. CASE GoSave(s, "rejected")
      BY <2>2, <3>1 DEF Press, GoSave, TypeOK, Save, OnceActed, SeenEnded, Open, Started, Rejected, Settled
    <3>2. CASE saves' = [saves EXCEPT ![s] = [@ EXCEPT !.at = "wait1", !.seen = set]]
      <4>1. \A h \in set : Started(h)
        OBVIOUS
      <4> HIDE DEF set
      <4>2. /\ \A t \in Saves : t # s => saves'[t] = saves[t]
            /\ saves'[s].at = "wait1" /\ saves'[s].seen = set
        BY <3>2 DEF TypeOK, Save
      <4>3. UNCHANGED <<handler, saveAction>>
        BY <2>2 DEF Press
      <4>4. OnceActed'
        BY <2>2, <4>2, <4>3 DEF Press, OnceActed, Settled
      <4>5. SeenEnded'
        BY <4>1, <4>2, <4>3 DEF SeenEnded, Open, Started, Rejected
      <4> QED BY <4>4, <4>5
    <3> QED BY <2>2, <3>1, <3>2 DEF Press
  <2> QED BY <1>e, <2>1, <2>2 DEF Event
<1>r. CASE Read \/ UNCHANGED vars
  BY <1>r, SameSaves DEF Read, vars, OnceActed, Keeps, Started
<1> QED BY <1>h, <1>s, <1>e, <1>r DEF Next

(* The strengthening of the properties below holds in every state. *)
LEMMA Inductive == Spec => []IInv
<1>1. Init => IInv
  BY InitType, InitInv DEF IInv
<1>2. IInv /\ [Next]_vars => IInv'
  BY NextType, NextHandlers, NextSaves DEF IInv, Inv
<1> QED BY <1>1, <1>2, PTL DEF Spec

(* Handlers, saves and lists are what they are meant to be. *)
THEOREM TypeCorrect == Spec => []TypeOK
BY Inductive, PTL DEF IInv

(* However many handlers there are, they run one by one, until one of      *)
(* them is rejected.                                                       *)
THEOREM HandlersOneByOne == Spec => []OneByOne
<1>1. IInv => OneByOne
  <2> SUFFICES ASSUME IInv, NEW h \in Actors, NEW k \in Actors, h # k,
                      handler[h] \in Running, handler[k] \in Running
               PROVE  Rejected(pending[h] \cup pending[k])
    BY DEF OneByOne
  <2>1. h \in pending[k] \/ k \in pending[h]
    BY DEF IInv, Inv, Ordered, Open, Started, Running, Settled
  <2>2. All(pending[h]) /\ All(pending[k])
    BY DEF IInv, Inv, CalledBack
  <2> QED BY <2>1, <2>2 DEF All, Rejected, Running
<1> QED BY <1>1, Inductive, PTL

(* However many handlers and saves there are, a save of the user is sent   *)
(* behind the handlers.                                                    *)
THEOREM SavesComeLast == Spec => SaveComesLast
<1>1. ASSUME IInv, [Next]_vars, NEW s \in Saves, saves[s].at # "posted", saves'[s].at = "posted"
      PROVE  \/ Rejected(saves[s].all)
             \/ \A h \in Actors : Open(h) => saveAction /\ h \notin saves[s].seen
  <2>1. DoSave(s)
    <3>1. ASSUME NEW h \in Actors, HandlerStep(h) PROVE FALSE
      BY <1>1, <3>1, HandlerKeeps DEF IInv
    <3>2. ASSUME NEW t \in Saves, SaveStep(t), t # s \/ ~DoSave(s) PROVE FALSE
      <4>1. saves \in [Saves -> Save] /\ saves[t] \in Save
        BY <1>1 DEF IInv, TypeOK
      <4>2. \A state : GoSave(t, state) => state = "posted" /\ t = s
        BY <1>1, <4>1 DEF Save, GoSave
      <4>3. \A state : Waits(t, state) => state = "posted" /\ t = s
        BY <1>1, <4>1 DEF Save, Waits
      <4>4. ~Gather(t)
        BY <4>3 DEF Gather
      <4>5. ~Again(t) /\ ~DoOnSave(t)
        BY <4>2 DEF Again, DoOnSave
      <4>6. ~SaveAction(t) /\ ~SaveAnswer(t)
        BY <4>2 DEF SaveAction, SaveAnswer
      <4>7. ~DoSave(t)
        BY <3>2, <4>2 DEF DoSave
      <4> QED BY <3>2, <4>4, <4>5, <4>6, <4>7 DEF SaveStep
    <3>3. ASSUME Event PROVE FALSE
      <4>1. UNCHANGED saves \/ \E t \in Saves : Press(t)
        BY <3>3 DEF Event, Trigger, Click
      <4>2. ASSUME NEW t \in Saves, Press(t) PROVE FALSE
        BY <1>1, <4>2 DEF IInv, TypeOK, Save, Press, GoSave
      <4> QED BY <1>1, <4>1, <4>2
    <3> QED BY <1>1, <3>1, <3>2, <3>3 DEF Next, Read, vars
  <2>2. CASE saves[s].at = "all2" /\ CallBack(s)
    BY <1>1, <2>2 DEF CallBack, IInv, Inv, Listed
  <2>3. CASE saves[s].at = "action"
    BY <1>1, <2>3 DEF IInv, Inv, OnceActed, SeenEnded
  <2> QED BY <2>1, <2>2, <2>3 DEF DoSave
<1>2. IInv /\ [Next]_vars =>
        [\A s \in Saves :
           saves[s].at # "posted" /\ saves'[s].at = "posted" =>
             \/ Rejected(saves[s].all)
             \/ \A h \in Actors : Open(h) => saveAction /\ h \notin saves[s].seen]_vars
  BY <1>1
<1> QED BY <1>2, Inductive, PTL DEF Spec, SaveComesLast
=============================================================================
