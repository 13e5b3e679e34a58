------------------------------- MODULE NavTabs -------------------------------
(***************************************************************************)
(* The tab bar of the browser client: NavService in axelor.nav.js, with    *)
(* confirmDirty of view.form.js and the confirm dialog of dialogs.js.      *)
(* Tabs are opened by answers of the server, may be closed by the mouse,   *)
(* by a hot key or by an action's answer at any time, also while the user  *)
(* is asked whether the changes of a tab may be lost.                      *)
(***************************************************************************)
EXTENDS Naturals, Sequences, SequencesExt

CONSTANTS
  Views,      \* the tab objects there may be, one for each answer
  ActionOf,   \* the action each was opened for
  Forms,      \* those whose scope has confirmDirty
  Home,       \* those that are put first and cannot be closed
  None,       \* no tab
  MaxDialogs  \* bound on the questions open or just answered

ASSUME ViewsAssumption ==
  /\ Forms \subseteq Views /\ Home \subseteq Views /\ None \notin Views
  /\ DOMAIN ActionOf = Views

VARIABLES
  nav,      \* tabs (bar), tab.selected of every object (marked), selected
  status,   \* where each tab object is
  dirty,    \* the tabs with changes
  dialogs,  \* the confirm dialogs, topmost last
  later,    \* the confirmed ones whose callback waits in applyLater
  strayed   \* __closeTab was called for a tab that was gone

vars == <<nav, status, dirty, dialogs, later, strayed>>

InBar(n) == ToSet(n.bar)

Init ==
  /\ nav = [bar |-> <<>>, marked |-> {}, selected |-> None]
  /\ status = [v \in Views |-> "new"]
  /\ dirty = {}
  /\ dialogs = <<>>
  /\ later = <<>>
  /\ strayed = FALSE

(***************************************************************************)
(* The functions of NavService on the tabs n.                              *)
(***************************************************************************)
IndexIn(bar, t) == CHOOSE i \in DOMAIN bar : bar[i] = t

FindTab(n, action) == {u \in InBar(n) : ActionOf[u] = action}

(* Mutant of OpenTab: the tab is added whether there is one or not. *)
OpenTabAlways(n, t) ==
  [bar |-> IF t \in InBar(n) THEN n.bar ELSE Append(n.bar, t),
   marked |-> (n.marked \ InBar(n)) \cup {t}, selected |-> t]

OpenTab(n, t) ==
  LET same == FindTab(n, ActionOf[t])
      bar == IF same # {} THEN n.bar ELSE IF t \in Home THEN <<t>> \o n.bar ELSE Append(n.bar, t)
      found == IF same # {} THEN CHOOSE u \in same : TRUE ELSE t
  IN [bar |-> bar, marked |-> (n.marked \ ToSet(bar)) \cup {found}, selected |-> found]

(* Mutant of CloseOne: the neighbour is not opened. *)
CloseOneOnly(n, t) ==
  LET bar == SelectSeq(n.bar, LAMBDA u : u # t)
  IN [n EXCEPT !.bar = bar, !.selected = IF bar = <<>> THEN None ELSE @]

(* __closeTab: a tab that is gone has index -1, by which splice removes    *)
(* the last tab.                                                           *)
CloseOne(n, t) ==
  LET at == IF t \in InBar(n) THEN IndexIn(n.bar, t) ELSE 0
      bar == IF n.bar = <<>> THEN <<>> ELSE RemoveAt(n.bar, IF at = 0 THEN Len(n.bar) ELSE at)
      next == IF at = Len(n.bar) THEN at - 1 ELSE at
      rest == [bar |-> bar, marked |-> n.marked,
               selected |-> IF bar = <<>> THEN None ELSE n.selected]
  IN IF t \notin n.marked THEN rest
     ELSE IF next \in DOMAIN bar THEN OpenTab(rest, bar[next])
     ELSE [rest EXCEPT !.marked = @ \ ToSet(bar)]

TakeOut(n, t) ==
  LET bar == IF t \in InBar(n) THEN RemoveAt(n.bar, IndexIn(n.bar, t)) ELSE n.bar
  IN [n EXCEPT !.bar = bar, !.selected = IF bar = <<>> THEN None ELSE @]

(* select in closeTabs. *)
Select(n, t) ==
  IF t \notin Forms \/ t \in n.marked THEN n
  ELSE OpenTab([n EXCEPT !.marked = @ \cup {t}], t)

(* The end of closeTabs: something is selected. *)
Reselect(n) ==
  LET s == IF n.selected \in InBar(n) THEN n.selected ELSE None
  IN IF s # None THEN OpenTab(n, s)
     ELSE IF n.bar # <<>> /\ Head(n.bar) \notin n.marked THEN OpenTab(n, Head(n.bar))
     ELSE [n EXCEPT !.selected = None]

(* Mutant of Visit: changes are not asked for. *)
VisitUnasked(acc, t) == [acc EXCEPT !.n = TakeOut(Select(acc.n, t), t)]

(* One round of closeTabs; once the user is asked the rest has to wait. *)
Visit(acc, t) ==
  IF acc.ask # None THEN [acc EXCEPT !.rest = Append(@, t)]
  ELSE IF t \in dirty THEN [acc EXCEPT !.n = Select(@, t), !.ask = t]
  ELSE [acc EXCEPT !.n = TakeOut(Select(@, t), t)]

(* The rounds of closeTabs, by the number of tabs they have come to. *)
Rounds(n, selection) ==
  LET round[i \in 0..Len(selection)] ==
        IF i = 0 THEN [n |-> n, ask |-> None, rest |-> <<>>] ELSE Visit(round[i - 1], selection[i])
  IN round

CloseTabs(n, selection) ==
  LET done == Rounds(n, selection)[Len(selection)]
  IN IF done.ask = None THEN [done EXCEPT !.n = Reselect(@)] ELSE done

(***************************************************************************)
(* What opens tabs.                                                        *)
(***************************************************************************)
OpenTabByName(v) ==
  /\ status[v] = "new"
  /\ LET found == FindTab(nav, ActionOf[v])
     IN IF found # {}
        THEN (\E t \in found : nav' = OpenTab(nav, t)) /\ UNCHANGED status
        ELSE status' = [status EXCEPT ![v] = "asked"] /\ UNCHANGED nav
  /\ UNCHANGED <<dirty, dialogs, later, strayed>>

Answer(v) ==
  /\ status[v] = "asked"
  /\ \/ nav' = OpenTab(nav, v)
     \/ UNCHANGED nav \* no such action
  /\ status' = [status EXCEPT ![v] = IF v \in InBar(nav') THEN "open" ELSE "dropped"]
  /\ UNCHANGED <<dirty, dialogs, later, strayed>>

NavClick(t) ==
  /\ t \in InBar(nav) /\ dialogs = <<>>
  /\ nav' = OpenTab(nav, t)
  /\ UNCHANGED <<status, dirty, dialogs, later, strayed>>

(***************************************************************************)
(* The form in a tab.                                                      *)
(***************************************************************************)
Edit(t) ==
  /\ t = nav.selected /\ t \in InBar(nav) \cap Forms
  /\ dialogs = <<>>
  /\ dirty' = dirty \cup {t}
  /\ UNCHANGED <<nav, status, dialogs, later, strayed>>

Saved(t) ==
  /\ t \in dirty
  /\ dirty' = dirty \ {t}
  /\ UNCHANGED <<nav, status, dialogs, later, strayed>>

(***************************************************************************)
(* What closes them: the cross, Ctrl+Q and the "close" of an action.       *)
(***************************************************************************)
Question(t, rest, all) == [tab |-> t, rest |-> rest, all |-> all]

DoClose(t) ==
  /\ nav' = CloseOne(nav, t)
  /\ strayed' = (strayed \/ t \notin InBar(nav))

CloseTab(t) ==
  /\ status[t] = "open" /\ t \notin Home
  /\ IF t \in dirty
     THEN /\ Len(dialogs) + Len(later) < MaxDialogs
          /\ dialogs' = Append(dialogs, Question(t, <<>>, FALSE))
          /\ UNCHANGED <<nav, strayed>>
     ELSE DoClose(t) /\ UNCHANGED dialogs
  /\ UNCHANGED <<status, dirty, later>>

(* Mutant of DoCloseTabs: it asks once more when nothing is left. *)
DoCloseTabsAsks(n, selection, open) ==
  LET done == CloseTabs(n, selection)
  IN nav' = done.n /\ dialogs' = Append(open, Question(done.ask, done.rest, TRUE))

(* closeTabs with the dialogs that stay open. *)
DoCloseTabs(n, selection, open) ==
  LET done == CloseTabs(n, selection)
  IN /\ nav' = done.n
     /\ dialogs' = IF done.ask = None THEN open
                   ELSE Append(open, Question(done.ask, done.rest, TRUE))

(* The tabs of a bar up to each of its places, without some of them. *)
Others(bar, spared) ==
  LET rest[i \in 0..Len(bar)] ==
        IF i = 0 THEN <<>>
        ELSE IF bar[i] \in spared THEN rest[i - 1] ELSE Append(rest[i - 1], bar[i])
  IN rest

(* closeTabOthers, and closeTabAll when there is no current tab. *)
CloseTabOthers(current) ==
  /\ dialogs = <<>> /\ Len(later) < MaxDialogs
  /\ current \in InBar(nav) \cup {None}
  /\ LET rest == Others(nav.bar, Home \cup {current})[Len(nav.bar)]
         n == IF current = None \/ current \in nav.marked THEN nav ELSE OpenTab(nav, current)
     IN DoCloseTabs(n, rest, dialogs)
  /\ UNCHANGED <<status, dirty, later, strayed>>

Confirm ==
  /\ dialogs # <<>>
  /\ later' = Append(later, Last(dialogs))
  /\ dialogs' = Front(dialogs)
  /\ UNCHANGED <<nav, status, dirty, strayed>>

(* Mutant of Refuse: the tabs behind the refused one are forgotten. *)
RefuseAll ==
  /\ dialogs # <<>>
  /\ dialogs' = Front(dialogs)
  /\ UNCHANGED <<nav, status, dirty, later, strayed>>

(* The other tabs of closeTabs are not spared. *)
Refuse ==
  /\ dialogs # <<>>
  /\ LET d == Last(dialogs)
     IN IF d.all THEN DoCloseTabs(nav, d.rest, Front(dialogs))
        ELSE dialogs' = Front(dialogs) /\ UNCHANGED nav
  /\ UNCHANGED <<status, dirty, later, strayed>>

ApplyLater ==
  /\ later # <<>>
  /\ LET d == Head(later)
     IN IF d.all THEN DoCloseTabs(TakeOut(nav, d.tab), d.rest, dialogs) /\ UNCHANGED strayed
        ELSE DoClose(d.tab) /\ UNCHANGED dialogs
  /\ later' = Tail(later)
  /\ UNCHANGED <<status, dirty>>

Next ==
  \/ \E v \in Views : \/ OpenTabByName(v) \/ Answer(v) \/ NavClick(v)
                      \/ Edit(v) \/ Saved(v) \/ CloseTab(v)
  \/ \E current \in Views \cup {None} : CloseTabOthers(current)
  \/ Confirm \/ Refuse \/ ApplyLater

Spec == Init /\ [][Next]_vars

(* The browser runs what is due; the user comes back to every question,    *)
(* also when others were put on top of it.                                 *)
FairSpec ==
  /\ Spec
  /\ WF_vars(ApplyLater)
  /\ \A n \in 1..MaxDialogs : SF_vars(Len(dialogs) = n /\ (Confirm \/ Refuse))

(***************************************************************************)
(* Properties                                                              *)
(***************************************************************************)
Questions == [tab : Views, rest : Seq(Views), all : BOOLEAN]

TypeOK ==
  /\ nav \in [bar : Seq(Views), marked : SUBSET Views, selected : Views \cup {None}]
  /\ status \in [Views -> {"new", "asked", "open", "dropped"}]
  /\ dirty \subseteq Forms
  /\ dialogs \in Seq(Questions)
  /\ later \in Seq(Questions)
  /\ strayed \in BOOLEAN

(* An action is open in one tab, however many answers are under way when   *)
(* it is opened, and whatever is closed before they arrive.                *)
OneTabPerAction ==
  \A i, j \in DOMAIN nav.bar : ActionOf[nav.bar[i]] = ActionOf[nav.bar[j]] => i = j

(* When nobody is being asked, the tab shown is in the bar, and it alone   *)
(* is marked, unless a tab was closed that was gone before.                *)
ShownIsInBar ==
  dialogs = <<>> /\ later = <<>> /\ ~strayed =>
    IF nav.bar = <<>> THEN nav.selected = None
    ELSE nav.selected \in InBar(nav) /\ nav.marked \cap InBar(nav) = {nav.selected}

(* A tab with changes leaves the bar only when the user has confirmed for  *)
(* this very tab, or __closeTab was called for a tab that was gone.        *)
LostOnlyIfConfirmed ==
  [][\A t \in dirty :
       t \in InBar(nav) /\ t \notin InBar(nav)' =>
         strayed' \/ (later # <<>> /\ t = Head(later).tab)]_vars

(* Each tab of closeTabs is closed or asked for at last, whatever the user *)
(* says about those before it.                                             *)
CloseTabsEnds ==
  \A t \in Views :
    (\E d \in ToSet(dialogs) : d.all /\ t \in ToSet(d.rest)) ~>
      (t \notin InBar(nav) \/ \E d \in ToSet(dialogs) \cup ToSet(later) : d.tab = t)
=============================================================================
