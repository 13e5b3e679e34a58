---------------------------- MODULE NavTabsProofs ----------------------------
(* What NavTabs guarantees for any set of tabs and any number of questions. *)
EXTENDS NavTabs, SequenceTheorems, WellFoundedInduction, TLAPS

(***************************************************************************)
(* Induction over the places of a loop.                                    *)
(***************************************************************************)

(* A set of numbers that is not empty has a least element. *)
LEMMA LeastNumber == ASSUME NEW T, T \subseteq Nat, T # {} PROVE \E n \in T : \A m \in T : n <= m
  <1>. DEFINE R == OpToRel(<, Nat)
  <1>1. IsWellFoundedOn(R, Nat)
    BY NatLessThanWellFounded
  <1>. HIDE DEF R
  <1>2. PICK n \in T : \A m \in T : <<m, n>> \notin R
    BY <1>1, WFMin, Zenon
  <1>3. \A m \in T : m < n => <<m, n>> \in R
    BY DEF R, OpToRel
  <1>4. \A m \in T : ~(m < n)
    BY <1>2, <1>3, Zenon
  <1>. QED BY <1>4

(* What holds before a loop, and after each round if before it, holds      *)
(* after every round.                                                      *)
LEMMA EveryRound ==
  ASSUME NEW k \in Nat, NEW T, 0 \in T, \A i \in 1..k : i - 1 \in T => i \in T
  PROVE  0..k \subseteq T
  <1>. DEFINE missed == (0..k) \ T
  <1>. SUFFICES ASSUME missed # {} PROVE FALSE
    OBVIOUS
  <1>1. missed \subseteq Nat
    OBVIOUS
  <1>. HIDE DEF missed
  <1>2. PICK n \in missed : \A m \in missed : n <= m
    BY <1>1, LeastNumber, Zenon
  <1>3. n \in 1..k /\ n - 1 \in 0..k /\ ~(n <= n - 1) /\ n \notin T
    BY DEF missed
  <1>. QED BY <1>2, <1>3 DEF missed

(* What a loop of k rounds goes through from start. *)
IsCourse(f, S, k, start, step) ==
  /\ f \in [0..k -> S]
  /\ f[0] = start /\ \A i \in 1..k : f[i] = step[<<i, f[i - 1]>>]

(* A loop over states in S has a course. *)
LEMMA CourseExists ==
  ASSUME NEW S, NEW k \in Nat, NEW start \in S, NEW step \in [(1..k) \X S -> S]
  PROVE  \E f : IsCourse(f, S, k, start, step)
  <1>. DEFINE Course(n, f) == f[0] = start /\ \A i \in 1..n : f[i] = step[<<i, f[i - 1]>>]
              T == {n \in 0..k : \E f \in [0..n -> S] : Course(n, f)}
  <1>1. 0 \in T
    <2>. DEFINE f == [i \in 0..0 |-> start]
    <2>1. f \in [0..0 -> S] /\ Course(0, f)
      OBVIOUS
    <2>. HIDE DEF f, Course
    <2>. QED BY <2>1
  <1>2. ASSUME NEW n \in 1..k, n - 1 \in T PROVE n \in T
    <2>1. PICK f \in [0..(n - 1) -> S] : Course(n - 1, f)
      BY <1>2
    <2>. DEFINE g == [i \in 0..n |-> IF i = n THEN step[<<n, f[n - 1]>>] ELSE f[i]]
    <2>2. f[n - 1] \in S /\ step[<<n, f[n - 1]>>] \in S
      OBVIOUS
    <2>3. g \in [0..n -> S]
      BY <2>2
    <2>4. \A i \in 0..(n - 1) : g[i] = f[i]
      OBVIOUS
    <2>5. g[n] = step[<<n, f[n - 1]>>] /\ n - 1 \in 0..(n - 1)
      OBVIOUS
    <2>. HIDE DEF g
    <2>6. ASSUME NEW i \in 1..n PROVE g[i] = step[<<i, g[i - 1]>>]
      <3>1. CASE i = n
        BY <2>4, <2>5, <3>1
      <3>2. CASE i # n
        <4>1. i \in 1..(n - 1) /\ i \in 0..(n - 1) /\ i - 1 \in 0..(n - 1)
          BY <3>2
        <4>2. g[i] = f[i] /\ g[i - 1] = f[i - 1]
          BY <2>4, <4>1
        <4>. QED BY <2>1, <4>1, <4>2
      <3>. QED BY <3>1, <3>2
    <2>7. Course(n, g)
      BY <2>1, <2>4, <2>6
    <2>. HIDE DEF Course
    <2>. QED BY <2>3, <2>7
  <1>3. k \in T
    <2>. HIDE DEF T
    <2>1. 0..k \subseteq T
      BY <1>1, <1>2, EveryRound
    <2>. QED BY <2>1
  <1>. HIDE DEF Course
  <1>4. PICK f \in [0..k -> S] : Course(k, f)
    BY <1>3
  <1>. QED BY <1>4 DEF Course, IsCourse

Navs == [bar : Seq(Views), marked : SUBSET Views, selected : Views \cup {None}]

(* No action has two tabs in a bar. *)
Single(bar) == \A i, j \in DOMAIN bar : ActionOf[bar[i]] = ActionOf[bar[j]] => i = j

(* At most the selected tab is marked. *)
MarksSelected(n) == n.marked \cap InBar(n) \subseteq {n.selected}

(* The selected tab is in the bar, if any is, and it alone is marked. *)
Shown(n) ==
  IF n.bar = <<>> THEN n.selected = None
  ELSE n.selected \in InBar(n) /\ n.marked \cap InBar(n) = {n.selected}

(***************************************************************************)
(* The functions of NavService, one by one.                                *)
(***************************************************************************)

LEMMA InBarIndex ==
  ASSUME NEW n \in Navs PROVE InBar(n) = {n.bar[i] : i \in 1..Len(n.bar)} /\ InBar(n) \subseteq Views
  BY DEF InBar, ToSet, Navs

LEMMA IndexInBar ==
  ASSUME NEW n \in Navs, NEW t \in InBar(n)
  PROVE  IndexIn(n.bar, t) \in 1..Len(n.bar) /\ n.bar[IndexIn(n.bar, t)] = t
  <1>1. \E i \in DOMAIN n.bar : n.bar[i] = t
    BY DEF InBar, ToSet
  <1>2. IndexIn(n.bar, t) \in DOMAIN n.bar /\ n.bar[IndexIn(n.bar, t)] = t
    BY <1>1 DEF IndexIn
  <1>. QED BY <1>2 DEF Navs

LEMMA RemoveAtPlaces ==
  ASSUME NEW s \in Seq(Views), NEW i \in 1..Len(s)
  PROVE  /\ RemoveAt(s, i) \in Seq(Views)
         /\ Len(RemoveAt(s, i)) = Len(s) - 1
         /\ \A j \in 1..(Len(s) - 1) : RemoveAt(s, i)[j] = IF j < i THEN s[j] ELSE s[j + 1]
  <1>. DEFINE front == SubSeq(s, 1, i - 1)
              back == SubSeq(s, i + 1, Len(s))
  <1>1. front \in Seq(Views) /\ Len(front) = i - 1 /\ \A j \in 1..(i - 1) : front[j] = s[j]
    OBVIOUS
  <1>2. back \in Seq(Views) /\ Len(back) = Len(s) - i /\ \A j \in 1..(Len(s) - i) : back[j] = s[i + j]
    OBVIOUS
  <1>3. RemoveAt(s, i) = front \o back
    BY DEF RemoveAt
  <1>. HIDE DEF front, back
  <1>4. /\ front \o back \in Seq(Views)
        /\ Len(front \o back) = Len(s) - 1
        /\ \A j \in 1..(Len(s) - 1) :
             (front \o back)[j] = IF j <= i - 1 THEN front[j] ELSE back[j - (i - 1)]
    BY <1>1, <1>2, ConcatProperties
  <1>5. ASSUME NEW j \in 1..(Len(s) - 1) PROVE (front \o back)[j] = IF j < i THEN s[j] ELSE s[j + 1]
    <2>1. CASE j < i
      BY <1>1, <1>4, <2>1
    <2>2. CASE ~(j < i)
      <3>1. j - (i - 1) \in 1..(Len(s) - i) /\ i + (j - (i - 1)) = j + 1 /\ ~(j <= i - 1)
        BY <2>2
      <3>. QED BY <1>2, <1>4, <2>2, <3>1
    <2>. QED BY <2>1, <2>2
  <1>. QED BY <1>3, <1>4, <1>5

(* splice leaves every tab at another place. *)
LEMMA SpliceKeeps ==
  ASSUME NEW n \in Navs, NEW i \in 1..Len(n.bar),
         NEW bar, bar = RemoveAt(n.bar, i),
         NEW u \in Navs, u.bar = bar
  PROVE  /\ InBar(u) \subseteq InBar(n)
         /\ \A t \in InBar(n) : t # n.bar[i] => t \in InBar(u)
         /\ Single(n.bar) => Single(u.bar) /\ n.bar[i] \notin InBar(u)
  <1>0. n.bar \in Seq(Views)
    BY DEF Navs
  <1>1. /\ bar \in Seq(Views) /\ n.bar \in Seq(Views)
        /\ Len(bar) = Len(n.bar) - 1
        /\ \A j \in 1..Len(bar) : bar[j] = n.bar[IF j < i THEN j ELSE j + 1]
    <2>. DEFINE s == n.bar
    <2>1. s \in Seq(Views) /\ i \in 1..Len(s) /\ bar = RemoveAt(s, i)
      BY <1>0
    <2>. HIDE DEF s
    <2>2. /\ bar \in Seq(Views) /\ Len(bar) = Len(s) - 1
          /\ \A j \in 1..(Len(s) - 1) : bar[j] = IF j < i THEN s[j] ELSE s[j + 1]
      BY <2>1, RemoveAtPlaces
    <2>3. \A j \in 1..(Len(s) - 1) : bar[j] = s[IF j < i THEN j ELSE j + 1]
      BY <2>2
    <2>. QED BY <1>0, <2>2, <2>3 DEF s
  <1>2. InBar(u) = {bar[j] : j \in 1..Len(bar)} /\ InBar(n) = {n.bar[j] : j \in 1..Len(n.bar)}
    BY InBarIndex
  <1>3. InBar(u) \subseteq InBar(n)
    <2>1. Len(n.bar) \in Nat
      BY <1>1
    <2>2. \A j \in 1..Len(bar) : (IF j < i THEN j ELSE j + 1) \in 1..Len(n.bar)
      BY <1>1, <2>1
    <2>3. \A j \in 1..Len(bar) : bar[j] \in InBar(n)
      BY <1>1, <1>2, <2>2
    <2>. QED BY <1>2, <2>3
  <1>4. ASSUME NEW t \in InBar(n), t # n.bar[i] PROVE t \in InBar(u)
    <2>1. PICK j \in 1..Len(n.bar) : t = n.bar[j]
      BY <1>2
    <2>2. CASE j < i
      <3>1. j \in 1..Len(bar) /\ bar[j] = n.bar[j]
        BY <1>1, <2>1, <2>2
      <3>. QED BY <1>2, <2>1, <3>1
    <2>3. CASE j > i
      <3>1. j - 1 \in 1..Len(bar) /\ ~(j - 1 < i) /\ (j - 1) + 1 = j
        BY <1>1, <2>3
      <3>. QED BY <1>1, <1>2, <2>1, <3>1
    <2>. QED BY <1>4, <2>1, <2>2, <2>3
  <1>5. ASSUME Single(n.bar) PROVE Single(u.bar) /\ n.bar[i] \notin InBar(u)
    <2>1. \A j, k \in 1..Len(n.bar) : ActionOf[n.bar[j]] = ActionOf[n.bar[k]] => j = k
      BY <1>1, <1>5 DEF Single
    <2>. DEFINE place(j) == IF j < i THEN j ELSE j + 1
    <2>2. \A j \in 1..Len(bar) : place(j) \in 1..Len(n.bar) /\ place(j) # i /\ bar[j] = n.bar[place(j)]
      BY <1>1
    <2>3. \A j, k \in 1..Len(bar) : place(j) = place(k) => j = k
      OBVIOUS
    <2>. HIDE DEF place
    <2>4. ASSUME NEW j \in 1..Len(bar), NEW k \in 1..Len(bar), ActionOf[bar[j]] = ActionOf[bar[k]]
          PROVE  j = k
      <3>1. ActionOf[n.bar[place(j)]] = ActionOf[n.bar[place(k)]]
        BY <2>2, <2>4
      <3>2. place(j) = place(k)
        BY <2>1, <2>2, <3>1, Zenon
      <3>. QED BY <2>3, <3>2, Zenon
    <2>7. \A j \in 1..Len(bar) : bar[j] # n.bar[i]
      BY <2>1, <2>2, Zenon
    <2>5. DOMAIN u.bar = 1..Len(bar)
      BY <1>1
    <2>6. Single(u.bar)
      BY <2>4, <2>5 DEF Single
    <2>. QED BY <1>2, <2>7, <2>6
  <1>. QED BY <1>3, <1>4, <1>5

(* A tab put first or last is in the bar with the others. *)
LEMMA PutIn ==
  ASSUME NEW s \in Seq(Views), NEW t \in Views, NEW bar, bar = <<t>> \o s \/ bar = Append(s, t)
  PROVE  /\ bar \in Seq(Views)
         /\ ToSet(bar) = ToSet(s) \cup {t}
         /\ Single(s) /\ (\A u \in ToSet(s) : ActionOf[u] # ActionOf[t]) => Single(bar)
  <1>1. Len(s) \in Nat /\ <<t>> \in Seq(Views) /\ Len(<<t>>) = 1 /\ <<t>>[1] = t
    OBVIOUS
  <1>2. /\ bar \in Seq(Views) /\ Len(bar) = Len(s) + 1
        /\ \E k \in 0..1, l \in 1..(Len(s) + 1) :
             /\ bar[l] = t
             /\ \A i \in 1..Len(s) : i + k # l /\ bar[i + k] = s[i]
             /\ \A i \in 1..(Len(s) + 1) : i = l \/ i - k \in 1..Len(s)
    <2>1. CASE bar = <<t>> \o s
      <3>1. bar \in Seq(Views) /\ Len(bar) = 1 + Len(s)
        BY <1>1, <2>1, ConcatProperties
      <3>2. \A i \in 1..(1 + Len(s)) : bar[i] = IF i <= 1 THEN <<t>>[i] ELSE s[i - 1]
        BY <1>1, <2>1, ConcatProperties
      <3>3. bar[1] = t /\ \A i \in 1..Len(s) : bar[i + 1] = s[i]
        <4>1. bar[1] = t
          <5>1. 1 \in 1..(1 + Len(s)) /\ 1 <= 1
            BY <1>1
          <5>2. bar[1] = <<t>>[1]
            BY <3>2, <5>1
          <5>. QED BY <1>1, <5>2
        <4>2. ASSUME NEW i \in 1..Len(s) PROVE bar[i + 1] = s[i]
          <5>1. i + 1 \in 1..(1 + Len(s)) /\ ~(i + 1 <= 1) /\ (i + 1) - 1 = i
            BY <1>1
          <5>. QED BY <3>2, <5>1
        <4>. QED BY <4>1, <4>2
      <3>. QED BY <1>1, <3>1, <3>3
    <2>2. CASE bar = Append(s, t)
      <3>1. bar \in Seq(Views) /\ Len(bar) = Len(s) + 1
        BY <2>2, AppendProperties
      <3>2. bar[Len(s) + 1] = t /\ \A i \in 1..Len(s) : bar[i] = s[i]
        BY <2>2, AppendProperties
      <3>3. \A i \in 1..Len(s) : i + 0 # Len(s) + 1 /\ bar[i + 0] = s[i]
        BY <1>1, <3>2
      <3>4. \A i \in 1..(Len(s) + 1) : i = Len(s) + 1 \/ i - 0 \in 1..Len(s)
        BY <1>1
      <3>. QED BY <1>1, <3>1, <3>2, <3>3, <3>4
    <2>. QED BY <2>1, <2>2
  <1>3. PICK k \in 0..1, l \in 1..(Len(s) + 1) :
             /\ bar[l] = t
             /\ \A i \in 1..Len(s) : i + k # l /\ bar[i + k] = s[i]
             /\ \A i \in 1..(Len(s) + 1) : i = l \/ i - k \in 1..Len(s)
    BY <1>2
  <1>4. \A i \in 1..Len(s) : i + k \in 1..(Len(s) + 1)
    BY <1>1
  <1>5. \A i \in 1..(Len(s) + 1) : i # l => i - k \in 1..Len(s) /\ bar[i] = s[i - k]
    <2>1. \A i \in 1..(Len(s) + 1) : (i - k) + k = i
      BY <1>1
    <2>. QED BY <1>3, <2>1
  <1>6. {bar[i] : i \in 1..Len(bar)} = {s[i] : i \in 1..Len(s)} \cup {t}
    <2>1. {bar[i] : i \in 1..Len(bar)} \subseteq {s[i] : i \in 1..Len(s)} \cup {t}
      BY <1>2, <1>3, <1>5
    <2>2. t \in {bar[i] : i \in 1..Len(bar)}
      BY <1>2, <1>3
    <2>3. {s[i] : i \in 1..Len(s)} \subseteq {bar[i] : i \in 1..Len(bar)}
      BY <1>2, <1>3, <1>4
    <2>. QED BY <2>1, <2>2, <2>3
  <1>7. ASSUME \A i, j \in 1..Len(s) : ActionOf[s[i]] = ActionOf[s[j]] => i = j,
               \A i \in 1..Len(s) : ActionOf[s[i]] # ActionOf[t],
               NEW i \in 1..Len(bar), NEW j \in 1..Len(bar), ActionOf[bar[i]] = ActionOf[bar[j]]
        PROVE  i = j
    <2>1. i \in 1..(Len(s) + 1) /\ j \in 1..(Len(s) + 1)
      BY <1>2
    <2>2. ~(i = l /\ j # l) /\ ~(i # l /\ j = l)
      <3>1. ASSUME NEW x \in 1..(Len(s) + 1), x # l PROVE ActionOf[bar[x]] # ActionOf[bar[l]]
        <4>1. x - k \in 1..Len(s) /\ bar[x] = s[x - k] /\ bar[l] = t
          BY <1>3, <1>5, <3>1
        <4>2. ActionOf[s[x - k]] # ActionOf[t]
          BY <1>7, <4>1, Zenon
        <4>. QED BY <4>1, <4>2
      <3>. QED BY <1>7, <2>1, <3>1
    <2>3. ASSUME i # l PROVE i - k = j - k
      <3>0. j # l
        BY <2>2, <2>3
      <3>1. /\ i - k \in 1..Len(s) /\ bar[i] = s[i - k]
            /\ j - k \in 1..Len(s) /\ bar[j] = s[j - k]
        BY <1>5, <2>1, <2>3, <3>0, Zenon
      <3>2. ActionOf[s[i - k]] = ActionOf[s[j - k]]
        BY <1>7, <3>1
      <3>. QED BY <1>7, <3>1, <3>2, Zenon
    <2>. QED BY <2>1, <2>2, <2>3
  <1>8. ASSUME Single(s), \A u \in ToSet(s) : ActionOf[u] # ActionOf[t] PROVE Single(bar)
    <2>1. DOMAIN s = 1..Len(s) /\ DOMAIN bar = 1..Len(bar)
      BY <1>2
    <2>2. \A i \in 1..Len(s) : ActionOf[s[i]] # ActionOf[t]
      <3>1. \A i \in 1..Len(s) : s[i] \in ToSet(s)
        BY <2>1, Zenon DEF ToSet
      <3>. QED BY <1>8, <3>1, Zenon
    <2>3. \A i, j \in 1..Len(s) : ActionOf[s[i]] = ActionOf[s[j]] => i = j
      BY <1>8, <2>1, Zenon DEF Single
    <2>4. \A i, j \in 1..Len(bar) : ActionOf[bar[i]] = ActionOf[bar[j]] => i = j
      BY <1>7, <2>2, <2>3, Zenon
    <2>. QED BY <2>1, <2>4, Zenon DEF Single
  <1>9. ToSet(bar) = ToSet(s) \cup {t}
    <2>1. DOMAIN s = 1..Len(s) /\ DOMAIN bar = 1..Len(bar)
      BY <1>2
    <2>2. ToSet(s) = {s[i] : i \in 1..Len(s)} /\ ToSet(bar) = {bar[i] : i \in 1..Len(bar)}
      BY <2>1, Zenon DEF ToSet
    <2>. QED BY <1>6, <2>2, Zenon
  <1>. QED BY <1>2, <1>8, <1>9

(* openTab finds a tab of the action or puts the new one in. *)
LEMMA OpenTabFinds ==
  ASSUME NEW n \in Navs, NEW t \in Views
  PROVE  \E bar \in Seq(Views), found \in Views :
           /\ OpenTab(n, t) =
                [bar |-> bar, marked |-> (n.marked \ ToSet(bar)) \cup {found}, selected |-> found]
           /\ \/ bar = n.bar /\ found \in InBar(n)
              \/ /\ \A u \in InBar(n) : ActionOf[u] # ActionOf[t]
                 /\ found = t
                 /\ bar = <<t>> \o n.bar \/ bar = Append(n.bar, t)
  <1>. DEFINE same == FindTab(n, ActionOf[t])
  <1>1. same \subseteq InBar(n) /\ InBar(n) \subseteq Views /\ n.bar \in Seq(Views)
    BY InBarIndex DEF FindTab, Navs
  <1>2. CASE same # {}
    <2>. DEFINE found == CHOOSE u \in same : TRUE
    <2>1. found \in same
      BY <1>2
    <2>2. OpenTab(n, t) =
            [bar |-> n.bar, marked |-> (n.marked \ ToSet(n.bar)) \cup {found}, selected |-> found]
      BY <1>2, Zenon DEF OpenTab
    <2>. HIDE DEF found, same
    <2>. QED BY <1>1, <2>1, <2>2
  <1>3. CASE same = {}
    <2>. DEFINE bar == IF t \in Home THEN <<t>> \o n.bar ELSE Append(n.bar, t)
    <2>1. OpenTab(n, t) = [bar |-> bar, marked |-> (n.marked \ ToSet(bar)) \cup {t}, selected |-> t]
      BY <1>3, Zenon DEF OpenTab
    <2>2. bar \in Seq(Views) /\ (bar = <<t>> \o n.bar \/ bar = Append(n.bar, t))
      BY <1>1
    <2>3. \A u \in InBar(n) : ActionOf[u] # ActionOf[t]
      BY <1>3 DEF FindTab
    <2>. HIDE DEF bar
    <2>. QED BY <2>1, <2>2, <2>3
  <1>. QED BY <1>2, <1>3

(* openTab loses no tab, adds none to an action that has one, and shows    *)
(* the tab of the action.                                                  *)
LEMMA OpenTabShows ==
  ASSUME NEW n \in Navs, NEW t \in Views
  PROVE  /\ OpenTab(n, t) \in Navs
         /\ InBar(n) \subseteq InBar(OpenTab(n, t))
         /\ Single(n.bar) => Single(OpenTab(n, t).bar)
         /\ Shown(OpenTab(n, t))
         /\ MarksSelected(OpenTab(n, t))
  <1>1. PICK bar \in Seq(Views), found \in Views :
          /\ OpenTab(n, t) =
               [bar |-> bar, marked |-> (n.marked \ ToSet(bar)) \cup {found}, selected |-> found]
          /\ \/ bar = n.bar /\ found \in InBar(n)
             \/ /\ \A u \in InBar(n) : ActionOf[u] # ActionOf[t]
                /\ found = t
                /\ bar = <<t>> \o n.bar \/ bar = Append(n.bar, t)
    BY OpenTabFinds
  <1>. DEFINE r == OpenTab(n, t)
  <1>2. r \in Navs
    BY <1>1 DEF Navs
  <1>3. /\ r.bar = bar /\ r.selected = found /\ r.marked = (n.marked \ ToSet(bar)) \cup {found}
        /\ InBar(r) = ToSet(bar)
    BY <1>1 DEF InBar
  <1>. HIDE DEF r
  <1>4. InBar(r) = {bar[i] : i \in 1..Len(bar)} /\ InBar(n) = {n.bar[i] : i \in 1..Len(n.bar)}
    BY <1>2, <1>3, InBarIndex
  <1>5. n.bar \in Seq(Views)
    BY DEF Navs
  <1>6. ASSUME bar = n.bar, found \in InBar(n)
        PROVE  InBar(n) \subseteq InBar(r) /\ found \in InBar(r) /\ (Single(n.bar) => Single(r.bar))
    BY <1>3, <1>4, <1>6 DEF Single
  <1>7. ASSUME \A u \in InBar(n) : ActionOf[u] # ActionOf[t], found = t,
               bar = <<t>> \o n.bar \/ bar = Append(n.bar, t)
        PROVE  InBar(n) \subseteq InBar(r) /\ found \in InBar(r) /\ (Single(n.bar) => Single(r.bar))
    <2>1. /\ ToSet(bar) = ToSet(n.bar) \cup {t}
          /\ Single(n.bar) /\ (\A u \in ToSet(n.bar) : ActionOf[u] # ActionOf[t]) => Single(bar)
      BY <1>5, <1>7, PutIn
    <2>. QED BY <1>3, <1>7, <2>1 DEF InBar
  <1>8. InBar(n) \subseteq InBar(r) /\ found \in InBar(r) /\ (Single(n.bar) => Single(r.bar))
    BY <1>1, <1>6, <1>7, Zenon
  <1>9. r.bar # <<>>
    BY <1>3, <1>4, <1>8
  <1>10. Shown(r) /\ MarksSelected(r)
    BY <1>3, <1>8, <1>9 DEF Shown, MarksSelected
  <1>. QED BY <1>2, <1>8, <1>10 DEF r

(* The tab that is taken out may be the selected one, which is left to     *)
(* the end of closeTabs.                                                   *)
LEMMA TakeOutKeeps ==
  ASSUME NEW n \in Navs, NEW t
  PROVE  /\ TakeOut(n, t) \in Navs
         /\ \A u \in InBar(n) : u # t => u \in InBar(TakeOut(n, t))
         /\ Single(n.bar) => Single(TakeOut(n, t).bar)
         /\ MarksSelected(n) => MarksSelected(TakeOut(n, t))
  <1>. DEFINE r == TakeOut(n, t)
              bar == IF t \in InBar(n) THEN RemoveAt(n.bar, IndexIn(n.bar, t)) ELSE n.bar
  <1>1. bar \in Seq(Views)
    BY IndexInBar, RemoveAtPlaces DEF Navs
  <1>2. r = [n EXCEPT !.bar = bar, !.selected = IF bar = <<>> THEN None ELSE @]
    BY DEF TakeOut
  <1>. HIDE DEF bar
  <1>3. r \in Navs /\ r.bar = bar /\ r.marked = n.marked
        /\ r.selected = IF bar = <<>> THEN None ELSE n.selected
    BY <1>1, <1>2 DEF Navs
  <1>. HIDE DEF r
  <1>4. /\ InBar(r) \subseteq InBar(n)
        /\ \A u \in InBar(n) : u # t => u \in InBar(r)
        /\ Single(n.bar) => Single(r.bar)
    <2>1. CASE t \in InBar(n)
      <3>1. bar = RemoveAt(n.bar, IndexIn(n.bar, t))
        BY <2>1 DEF bar
      <3>. QED BY <1>3, <2>1, <3>1, IndexInBar, SpliceKeeps
    <2>2. CASE t \notin InBar(n)
      BY <1>3, <2>2 DEF bar, InBar
    <2>. QED BY <2>1, <2>2
  <1>5. ASSUME MarksSelected(n) PROVE MarksSelected(r)
    <2>1. bar = <<>> => InBar(r) = {}
      BY <1>3 DEF InBar, ToSet
    <2>. QED BY <1>3, <1>4, <1>5, <2>1 DEF MarksSelected
  <1>. QED BY <1>3, <1>4, <1>5 DEF r

(* __closeTab of a tab in the bar; a tab that is gone costs the last one.  *)
LEMMA CloseOneKeeps ==
  ASSUME NEW n \in Navs, NEW t \in Views
  PROVE  /\ CloseOne(n, t) \in Navs
         /\ t \in InBar(n) => \A u \in InBar(n) : u # t => u \in InBar(CloseOne(n, t))
         /\ Single(n.bar) => Single(CloseOne(n, t).bar)
         /\ MarksSelected(n) => MarksSelected(CloseOne(n, t))
         /\ Single(n.bar) /\ t \in InBar(n) /\ Shown(n) => Shown(CloseOne(n, t))
  <1>. DEFINE at == IF t \in InBar(n) THEN IndexIn(n.bar, t) ELSE 0
              bar == IF n.bar = <<>> THEN <<>>
                     ELSE RemoveAt(n.bar, IF at = 0 THEN Len(n.bar) ELSE at)
              next == IF at = Len(n.bar) THEN at - 1 ELSE at
              rest == [bar |-> bar, marked |-> n.marked,
                       selected |-> IF bar = <<>> THEN None ELSE n.selected]
              r == CloseOne(n, t)
  <1>1. r = IF t \notin n.marked THEN rest
            ELSE IF next \in DOMAIN bar THEN OpenTab(rest, bar[next])
            ELSE [rest EXCEPT !.marked = @ \ ToSet(bar)]
    BY DEF CloseOne
  <1>2. n.bar \in Seq(Views) /\ n.marked \subseteq Views /\ n.selected \in Views \cup {None}
    BY DEF Navs
  <1>3. t \in InBar(n) => at \in 1..Len(n.bar) /\ n.bar[at] = t /\ n.bar # <<>>
    BY <1>2, IndexInBar
  <1>4. t \notin InBar(n) => at = 0
    OBVIOUS
  <1>5. n.bar # <<>> => /\ (IF at = 0 THEN Len(n.bar) ELSE at) \in 1..Len(n.bar)
                        /\ bar = RemoveAt(n.bar, IF at = 0 THEN Len(n.bar) ELSE at)
    BY <1>2, <1>3
  <1>6. bar \in Seq(Views)
    BY <1>2, <1>5, RemoveAtPlaces
  <1>. HIDE DEF at, bar
  <1>7. rest \in Navs /\ rest.bar = bar /\ rest.marked = n.marked
        /\ rest.selected = IF bar = <<>> THEN None ELSE n.selected
    BY <1>2, <1>6 DEF Navs
  <1>. HIDE DEF rest
  <1>8. /\ InBar(rest) \subseteq InBar(n)
        /\ t \in InBar(n) => \A u \in InBar(n) : u # t => u \in InBar(rest)
        /\ Single(n.bar) => Single(rest.bar)
        /\ Single(n.bar) /\ t \in InBar(n) => t \notin InBar(rest)
    <2>1. CASE n.bar = <<>>
      <3>1. InBar(n) = {} /\ bar = <<>>
        BY <2>1 DEF InBar, ToSet, bar
      <3>. QED BY <1>7, <2>1, <3>1 DEF InBar
    <2>2. CASE n.bar # <<>>
      <3>1. PICK i \in 1..Len(n.bar) : bar = RemoveAt(n.bar, i) /\ (t \in InBar(n) => n.bar[i] = t)
        BY <1>3, <1>5, <2>2
      <3>. QED BY <1>7, <3>1, SpliceKeeps
    <2>. QED BY <2>1, <2>2
  <1>9. CASE t \notin n.marked
    <2>1. r = rest
      BY <1>1, <1>9
    <2>2. bar = <<>> => InBar(rest) = {}
      BY <1>7 DEF InBar, ToSet
    <2>3. MarksSelected(n) => MarksSelected(rest)
      BY <1>7, <1>8, <2>2 DEF MarksSelected
    <2>4. t \in InBar(n) /\ Shown(n) => Shown(rest)
      BY <1>3, <1>7, <1>8, <1>9, <2>2 DEF Shown
    <2>. QED BY <1>7, <1>8, <2>1, <2>3, <2>4
  <1>10. CASE t \in n.marked /\ next \in DOMAIN bar
    <2>1. r = OpenTab(rest, bar[next]) /\ bar[next] \in Views
      BY <1>1, <1>6, <1>10
    <2>. QED BY <1>7, <1>8, <2>1, OpenTabShows
  <1>11. CASE t \in n.marked /\ next \notin DOMAIN bar
    <2>1. r = [rest EXCEPT !.marked = @ \ ToSet(bar)]
      BY <1>1, <1>11
    <2>2. r \in Navs /\ r.bar = bar /\ r.marked = n.marked \ ToSet(bar) /\ r.selected = rest.selected
      BY <1>7, <2>1 DEF Navs
    <2>3. InBar(r) = InBar(rest) /\ InBar(r) = ToSet(bar)
      BY <1>7, <2>2 DEF InBar
    <2>4. MarksSelected(r)
      BY <2>2, <2>3 DEF MarksSelected
    <2>5. ASSUME t \in InBar(n) PROVE Shown(r)
      <3>1. Len(bar) = Len(n.bar) - 1 /\ DOMAIN bar = 1..Len(bar)
        BY <1>2, <1>3, <1>5, <1>6, <2>5, RemoveAtPlaces
      <3>2. Len(bar) = 0
        <4>1. at \in 1..Len(n.bar) /\ Len(n.bar) \in Nat
          BY <1>2, <1>3, <2>5
        <4>2. next \notin 1..(Len(n.bar) - 1)
          BY <1>11, <3>1
        <4>3. at = Len(n.bar)
          BY <4>1, <4>2
        <4>4. ~(Len(n.bar) - 1 \in 1..(Len(n.bar) - 1))
          BY <4>2, <4>3
        <4>5. \A k \in Nat : k # 0 /\ ~(k - 1 \in 1..(k - 1)) => k = 1
          OBVIOUS
        <4>6. Len(n.bar) # 0
          BY <4>1
        <4>7. Len(n.bar) = 1
          BY <4>1, <4>4, <4>5, <4>6, Zenon
        <4>. QED BY <3>1, <4>7
      <3>3. bar = <<>>
        BY <1>6, <3>2
      <3>. QED BY <1>7, <2>2, <3>3 DEF Shown
    <2>. QED BY <1>7, <1>8, <2>2, <2>3, <2>4, <2>5
  <1>. QED BY <1>9, <1>10, <1>11

(* select in closeTabs; a form that is marked is in the bar, or was, and   *)
(* then it shows nothing new.                                              *)
LEMMA SelectKeeps ==
  ASSUME NEW n \in Navs, NEW t \in Views
  PROVE  /\ Select(n, t) \in Navs
         /\ InBar(n) \subseteq InBar(Select(n, t))
         /\ Single(n.bar) => Single(Select(n, t).bar)
         /\ MarksSelected(n) => MarksSelected(Select(n, t))
  <1>. DEFINE m == [n EXCEPT !.marked = @ \cup {t}]
  <1>1. m \in Navs /\ m.bar = n.bar /\ InBar(m) = InBar(n)
    BY DEF Navs, InBar
  <1>. HIDE DEF m
  <1>2. Select(n, t) = n \/ Select(n, t) = OpenTab(m, t)
    BY DEF Select, m
  <1>. QED BY <1>1, <1>2, OpenTabShows

(* At its end closeTabs has a tab of the bar selected, if there is one.    *)
LEMMA ReselectShows ==
  ASSUME NEW n \in Navs
  PROVE  /\ Reselect(n) \in Navs
         /\ InBar(n) \subseteq InBar(Reselect(n))
         /\ Single(n.bar) => Single(Reselect(n).bar)
         /\ MarksSelected(n) => MarksSelected(Reselect(n)) /\ Shown(Reselect(n))
  <1>1. n.bar \in Seq(Views) /\ InBar(n) = ToSet(n.bar) /\ InBar(n) \subseteq Views /\ None \notin InBar(n)
    BY InBarIndex, ViewsAssumption DEF Navs, InBar
  <1>2. CASE n.selected \in InBar(n)
    <2>1. Reselect(n) = OpenTab(n, n.selected)
      BY <1>1, <1>2 DEF Reselect
    <2>. QED BY <1>1, <1>2, <2>1, OpenTabShows
  <1>3. CASE n.selected \notin InBar(n) /\ n.bar # <<>> /\ Head(n.bar) \notin n.marked
    <2>1. Reselect(n) = OpenTab(n, Head(n.bar))
      BY <1>1, <1>3 DEF Reselect
    <2>2. Head(n.bar) \in Views
      BY <1>1, <1>3
    <2>. QED BY <2>1, <2>2, OpenTabShows
  <1>4. CASE n.selected \notin InBar(n) /\ (n.bar = <<>> \/ Head(n.bar) \in n.marked)
    <2>1. Reselect(n) = [n EXCEPT !.selected = None]
      BY <1>4 DEF Reselect
    <2>2. /\ Reselect(n) \in Navs /\ Reselect(n).bar = n.bar /\ Reselect(n).marked = n.marked
          /\ Reselect(n).selected = None /\ InBar(Reselect(n)) = InBar(n)
      BY <2>1 DEF Navs, InBar
    <2>3. n.bar # <<>> => Head(n.bar) \in InBar(n)
      BY <1>1, HeadTailProperties DEF ToSet
    <2>4. MarksSelected(n) => n.bar = <<>> /\ n.marked \cap InBar(n) = {}
      BY <1>1, <1>4, <2>3 DEF MarksSelected
    <2>. QED BY <2>2, <2>4 DEF MarksSelected, Shown
  <1>. QED BY <1>2, <1>3, <1>4

(***************************************************************************)
(* The rounds of closeTabs.                                                *)
(***************************************************************************)

(* What a round hands on to the next one. *)
Accs == [n : Navs, ask : Views \cup {None}, rest : Seq(Views)]

(* What the rounds since n keep. *)
Kept(n, acc) ==
  /\ Single(n.bar) => Single(acc.n.bar)
  /\ MarksSelected(n) => MarksSelected(acc.n)
  /\ dirty \cap InBar(n) \subseteq InBar(acc.n)

LEMMA VisitKeeps ==
  ASSUME NEW n \in Navs, NEW acc \in Accs, NEW t \in Views
  PROVE  Visit(acc, t) \in Accs /\ (Kept(n, acc) => Kept(n, Visit(acc, t)))
  <1>1. acc.n \in Navs /\ acc.ask \in Views \cup {None} /\ acc.rest \in Seq(Views)
    BY DEF Accs
  <1>. DEFINE s == Select(acc.n, t)
              g == TakeOut(s, t)
              r == Visit(acc, t)
  <1>2. /\ s \in Navs
        /\ InBar(acc.n) \subseteq InBar(s)
        /\ Single(acc.n.bar) => Single(s.bar)
        /\ MarksSelected(acc.n) => MarksSelected(s)
    BY <1>1, SelectKeeps
  <1>3. /\ g \in Navs
        /\ \A u \in InBar(s) : u # t => u \in InBar(g)
        /\ Single(s.bar) => Single(g.bar)
        /\ MarksSelected(s) => MarksSelected(g)
    BY <1>2, TakeOutKeeps
  <1>4. r = IF acc.ask # None THEN [acc EXCEPT !.rest = Append(@, t)]
            ELSE IF t \in dirty THEN [acc EXCEPT !.n = s, !.ask = t]
            ELSE [acc EXCEPT !.n = g]
    BY DEF Visit
  <1>. HIDE DEF s, g, r
  <1>5. CASE acc.ask # None
    <2>1. Append(acc.rest, t) \in Seq(Views)
      BY <1>1
    <2>2. r = [acc EXCEPT !.rest = Append(@, t)]
      BY <1>4, <1>5
    <2>3. r \in Accs /\ r.n = acc.n
      BY <1>1, <2>1, <2>2 DEF Accs
    <2>. QED BY <2>3 DEF Kept, r
  <1>6. CASE acc.ask = None /\ t \in dirty
    <2>1. r \in Accs /\ r.n = s
      BY <1>1, <1>2, <1>4, <1>6 DEF Accs
    <2>. QED BY <1>2, <2>1 DEF Kept, r
  <1>7. CASE acc.ask = None /\ t \notin dirty
    <2>1. r \in Accs /\ r.n = g
      BY <1>1, <1>3, <1>4, <1>7 DEF Accs
    <2>. QED BY <1>2, <1>3, <1>7, <2>1 DEF Kept, r
  <1>. QED BY <1>5, <1>6, <1>7

(* closeTabs comes to its tabs one after the other. *)
LEMMA RoundsRun ==
  ASSUME NEW n \in Navs, NEW selection \in Seq(Views)
  PROVE  /\ DOMAIN Rounds(n, selection) = 0..Len(selection)
         /\ Rounds(n, selection)[0] = [n |-> n, ask |-> None, rest |-> <<>>]
         /\ \A i \in 1..Len(selection) :
              Rounds(n, selection)[i] = Visit(Rounds(n, selection)[i - 1], selection[i])
  <1>. DEFINE k == Len(selection)
              start == [n |-> n, ask |-> None, rest |-> <<>>]
              step == [p \in (1..k) \X Accs |-> Visit(p[2], selection[p[1]])]
              Run(f) == [i \in 0..k |-> IF i = 0 THEN start ELSE Visit(f[i - 1], selection[i])]
  <1>1. k \in Nat /\ \A i \in 1..k : selection[i] \in Views
    OBVIOUS
  <1>2. start \in Accs
    BY DEF Accs
  <1>3. step \in [(1..k) \X Accs -> Accs]
    BY <1>1, VisitKeeps
  <1>4. \A i \in 1..k, acc \in Accs : step[<<i, acc>>] = Visit(acc, selection[i])
    OBVIOUS
  <1>. HIDE DEF start, step
  <1>5. PICK f : IsCourse(f, Accs, k, start, step)
    <2>. HIDE DEF k
    <2>. QED BY <1>1, <1>2, <1>3, CourseExists, Zenon
  <1>6. f = Run(f)
    <2>1. f \in [0..k -> Accs] /\ f[0] = start /\ \A i \in 1..k : f[i] = step[<<i, f[i - 1]>>]
      BY <1>5 DEF IsCourse
    <2>2. ASSUME NEW i \in 1..k PROVE f[i] = Visit(f[i - 1], selection[i])
      <3>1. f[i - 1] \in Accs
        BY <1>1, <2>1
      <3>. QED BY <1>4, <2>1, <3>1
    <2>. QED BY <1>1, <2>1, <2>2
  <1>. HIDE DEF Run
  <1>7. Rounds(n, selection) = CHOOSE g : g = Run(g)
    BY DEF Rounds, Run, start
  <1>8. Rounds(n, selection) = Run(Rounds(n, selection))
    BY <1>6, <1>7
  <1>. QED BY <1>8 DEF Run, start

(* In the end nothing with changes is gone, whatever the tabs are.         *)
LEMMA RoundsKeep ==
  ASSUME NEW n \in Navs, NEW selection \in Seq(Views)
  PROVE  /\ Rounds(n, selection)[Len(selection)] \in Accs
         /\ Kept(n, Rounds(n, selection)[Len(selection)])
  <1>. DEFINE k == Len(selection)
              r == Rounds(n, selection)
              T == {i \in 0..k : r[i] \in Accs /\ Kept(n, r[i])}
  <1>1. k \in Nat /\ \A i \in 1..k : selection[i] \in Views
    OBVIOUS
  <1>2. r[0] = [n |-> n, ask |-> None, rest |-> <<>>] /\ \A i \in 1..k : r[i] = Visit(r[i - 1], selection[i])
    BY RoundsRun
  <1>3. 0 \in T
    <2>1. r[0] \in Accs /\ r[0].n = n
      BY <1>2 DEF Accs
    <2>. QED BY <1>1, <2>1 DEF Kept
  <1>4. \A i \in 1..k : i - 1 \in T => i \in T
    BY <1>1, <1>2, VisitKeeps
  <1>5. k \in T
    <2>. HIDE DEF T
    <2>1. 0..k \subseteq T
      BY <1>1, <1>3, <1>4, EveryRound
    <2>. QED BY <1>1, <2>1
  <1>. QED BY <1>5

(* closeTabs shows a tab of the bar unless it asks about one.              *)
LEMMA CloseTabsKeeps ==
  ASSUME NEW n \in Navs, NEW selection \in Seq(Views)
  PROVE  LET done == CloseTabs(n, selection)
         IN /\ done \in Accs
            /\ Kept(n, done)
            /\ MarksSelected(n) /\ done.ask = None => Shown(done.n)
  <1>. DEFINE last == Rounds(n, selection)[Len(selection)]
              done == CloseTabs(n, selection)
  <1>1. last \in Accs /\ Kept(n, last)
    BY RoundsKeep
  <1>2. done = IF last.ask = None THEN [last EXCEPT !.n = Reselect(@)] ELSE last
    BY DEF CloseTabs
  <1>. HIDE DEF last, done
  <1>3. CASE last.ask = None
    <2>1. last.n \in Navs
      BY <1>1 DEF Accs
    <2>2. done \in Accs /\ done.n = Reselect(last.n)
      BY <1>1, <1>2, <1>3, <2>1, ReselectShows DEF Accs
    <2>3. Kept(n, done)
      BY <1>1, <2>1, <2>2, ReselectShows DEF Kept
    <2>4. MarksSelected(n) => Shown(done.n)
      BY <1>1, <2>1, <2>2, ReselectShows DEF Kept
    <2>. QED BY <2>2, <2>3, <2>4 DEF done
  <1>4. CASE last.ask # None
    BY <1>1, <1>2, <1>4 DEF done
  <1>. QED BY <1>3, <1>4

(* The tabs of a bar without some of them are tabs. *)
LEMMA OthersAreTabs ==
  ASSUME NEW bar \in Seq(Views), NEW spared PROVE Others(bar, spared)[Len(bar)] \in Seq(Views)
  <1>. DEFINE k == Len(bar)
              Round(rest, i) == IF bar[i] \in spared THEN rest ELSE Append(rest, bar[i])
              step == [p \in (1..k) \X Seq(Views) |-> Round(p[2], p[1])]
              Run(f) == [i \in 0..k |-> IF i = 0 THEN <<>> ELSE Round(f[i - 1], i)]
              r == Others(bar, spared)
              T == {i \in 0..k : r[i] \in Seq(Views)}
  <1>1. k \in Nat /\ <<>> \in Seq(Views) /\ \A i \in 1..k, rest \in Seq(Views) : Round(rest, i) \in Seq(Views)
    OBVIOUS
  <1>2. r = CHOOSE g : g = Run(g)
    BY DEF Others
  <1>. HIDE DEF Round, r
  <1>3. step \in [(1..k) \X Seq(Views) -> Seq(Views)]
    BY <1>1
  <1>4. \A i \in 1..k, rest \in Seq(Views) : step[<<i, rest>>] = Round(rest, i)
    OBVIOUS
  <1>. HIDE DEF step
  <1>5. PICK f : IsCourse(f, Seq(Views), k, <<>>, step)
    <2>. HIDE DEF k
    <2>. QED BY <1>1, <1>3, CourseExists, Zenon
  <1>6. f = Run(f)
    <2>1. f \in [0..k -> Seq(Views)] /\ f[0] = <<>> /\ \A i \in 1..k : f[i] = step[<<i, f[i - 1]>>]
      BY <1>5 DEF IsCourse
    <2>2. ASSUME NEW i \in 1..k PROVE f[i] = Round(f[i - 1], i)
      <3>1. f[i - 1] \in Seq(Views)
        BY <1>1, <2>1
      <3>. QED BY <1>4, <2>1, <3>1
    <2>. QED BY <1>1, <2>1, <2>2
  <1>. HIDE DEF Run
  <1>7. r = Run(r)
    BY <1>2, <1>6
  <1>8. r[0] = <<>> /\ \A i \in 1..k : r[i] = Round(r[i - 1], i)
    BY <1>1, <1>7 DEF Run
  <1>9. 0 \in T /\ \A i \in 1..k : i - 1 \in T => i \in T
    <2>1. 0 \in T
      <3>1. r[0] \in Seq(Views)
        BY <1>1, <1>8, Zenon
      <3>. QED BY <1>1, <3>1
    <2>2. ASSUME NEW i \in 1..k, i - 1 \in T PROVE i \in T
      <3>1. r[i - 1] \in Seq(Views) /\ i \in 0..k
        BY <2>2
      <3>2. r[i] \in Seq(Views)
        BY <1>1, <1>8, <3>1
      <3>. QED BY <3>1, <3>2
    <2>. QED BY <2>1, <2>2
  <1>10. k \in T
    <2>. HIDE DEF T
    <2>1. 0..k \subseteq T
      BY <1>1, <1>9, EveryRound
    <2>. QED BY <1>1, <2>1
  <1>. QED BY <1>10 DEF r

(***************************************************************************)
(* The invariant.                                                          *)
(***************************************************************************)

(* Somebody is asked in the middle of closeTabs, or has just answered.     *)
Closing == \E d \in ToSet(dialogs) \cup ToSet(later) : d.all

(* closeTabs leaves a bar without a selected tab while it asks; its end    *)
(* repairs that, whatever was answered.                                    *)
IInv ==
  /\ TypeOK
  /\ Single(nav.bar)
  /\ MarksSelected(nav)
  /\ ~strayed /\ ~Closing => Shown(nav)

(* The elements of a list of questions, by either end of it. *)
LEMMA Ends ==
  ASSUME NEW S, NEW s \in Seq(S), s # <<>>
  PROVE  /\ Front(s) \in Seq(S) /\ Last(s) \in S /\ ToSet(s) = ToSet(Front(s)) \cup {Last(s)}
         /\ Tail(s) \in Seq(S) /\ Head(s) \in S /\ ToSet(s) = {Head(s)} \cup ToSet(Tail(s))
  <1>1. Len(s) \in Nat \ {0} /\ DOMAIN s = 1..Len(s)
    OBVIOUS
  <1>2. /\ Front(s) \in Seq(S) /\ DOMAIN Front(s) = 1..(Len(s) - 1)
        /\ \A i \in 1..(Len(s) - 1) : Front(s)[i] = s[i]
    BY <1>1 DEF Front
  <1>3. /\ Tail(s) \in Seq(S) /\ DOMAIN Tail(s) = 1..(Len(s) - 1)
        /\ \A i \in 1..(Len(s) - 1) : Tail(s)[i] = s[i + 1]
    BY <1>1
  <1>4. Last(s) = s[Len(s)] /\ Head(s) = s[1] /\ Last(s) \in S /\ Head(s) \in S
    BY <1>1 DEF Last
  <1>5. ToSet(s) = ToSet(Front(s)) \cup {Last(s)}
    <2>1. \A i \in 1..Len(s) : i = Len(s) \/ i \in 1..(Len(s) - 1)
      <3>1. \A k \in Nat \ {0} : \A i \in 1..k : i = k \/ i \in 1..(k - 1)
        OBVIOUS
      <3>. QED BY <1>1, <3>1, Zenon
    <2>2. Len(s) \in 1..Len(s) /\ \A i \in 1..(Len(s) - 1) : i \in 1..Len(s)
      BY <1>1
    <2>. DEFINE front == Front(s)
                last == Last(s)
    <2>3. /\ DOMAIN front = 1..(Len(s) - 1) /\ last = s[Len(s)]
          /\ \A i \in 1..(Len(s) - 1) : front[i] = s[i]
      BY <1>2, <1>4
    <2>. HIDE DEF front, last
    <2>4. ASSUME NEW i \in 1..Len(s) PROVE s[i] \in ToSet(front) \cup {last}
      <3>1. CASE i = Len(s)
        BY <2>3, <3>1
      <3>2. CASE i \in 1..(Len(s) - 1)
        BY <2>3, <3>2 DEF ToSet
      <3>. QED BY <2>1, <3>1, <3>2
    <2>5. ToSet(front) \subseteq ToSet(s)
      BY <1>1, <2>2, <2>3 DEF ToSet
    <2>6. last \in ToSet(s)
      BY <1>1, <2>2, <2>3 DEF ToSet
    <2>7. ToSet(s) \subseteq ToSet(front) \cup {last}
      BY <1>1, <2>4 DEF ToSet
    <2>. QED BY <2>5, <2>6, <2>7 DEF front, last
  <1>6. ToSet(s) = {Head(s)} \cup ToSet(Tail(s))
    <2>1. \A i \in 1..Len(s) : i = 1 \/ (i - 1 \in 1..(Len(s) - 1) /\ s[i] = Tail(s)[i - 1])
      BY <1>1, <1>3
    <2>2. 1 \in 1..Len(s) /\ \A i \in 1..(Len(s) - 1) : i + 1 \in 1..Len(s)
      BY <1>1
    <2>3. ASSUME NEW i \in 1..Len(s) PROVE s[i] = Head(s) \/ s[i] \in ToSet(Tail(s))
      BY <1>3, <1>4, <2>1 DEF ToSet
    <2>4. {Head(s)} \cup ToSet(Tail(s)) \subseteq ToSet(s)
      BY <1>1, <1>3, <1>4, <2>2 DEF ToSet
    <2>5. ToSet(s) \subseteq {Head(s)} \cup ToSet(Tail(s))
      BY <1>1, <2>3 DEF ToSet
    <2>. QED BY <2>4, <2>5
  <1>. QED BY <1>2, <1>3, <1>4, <1>5, <1>6

LEMMA Asked ==
  ASSUME NEW S, NEW s \in Seq(S), NEW d \in S
  PROVE  Append(s, d) \in Seq(S) /\ ToSet(Append(s, d)) = ToSet(s) \cup {d}
  <1>. DEFINE r == Append(s, d)
  <1>1. /\ r \in Seq(S) /\ DOMAIN s = 1..Len(s) /\ DOMAIN r = 1..(Len(s) + 1) /\ Len(s) \in Nat
        /\ r[Len(s) + 1] = d /\ \A i \in 1..Len(s) : r[i] = s[i]
    OBVIOUS
  <1>. HIDE DEF r
  <1>2. \A i \in 1..(Len(s) + 1) : i = Len(s) + 1 \/ i \in 1..Len(s)
    BY <1>1
  <1>3. Len(s) + 1 \in 1..(Len(s) + 1) /\ \A i \in 1..Len(s) : i \in 1..(Len(s) + 1)
    BY <1>1
  <1>4. ToSet(r) = ToSet(s) \cup {d}
    BY <1>1, <1>2, <1>3 DEF ToSet
  <1>. QED BY <1>1, <1>4 DEF r

(* A question of closeTabs, once answered, is followed by its end or by    *)
(* another one.                                                            *)
LEMMA DoCloseTabsInv ==
  ASSUME NEW n \in Navs, NEW selection \in Seq(Views), NEW open \in Seq(Questions),
         DoCloseTabs(n, selection, open)
  PROVE  /\ nav' \in Navs /\ dialogs' \in Seq(Questions)
         /\ Single(n.bar) => Single(nav'.bar)
         /\ MarksSelected(n) => MarksSelected(nav')
         /\ MarksSelected(n) => Shown(nav') \/ \E d \in ToSet(dialogs') : d.all
         /\ dirty \cap InBar(n) \subseteq InBar(nav')
  <1>. DEFINE done == CloseTabs(n, selection)
              asked == Question(done.ask, done.rest, TRUE)
  <1>1. /\ done \in Accs
        /\ Kept(n, done)
        /\ MarksSelected(n) /\ done.ask = None => Shown(done.n)
    BY CloseTabsKeeps
  <1>2. nav' = done.n /\ dialogs' = IF done.ask = None THEN open ELSE Append(open, asked)
    BY DEF DoCloseTabs
  <1>3. nav' \in Navs /\ (done.ask # None => asked \in Questions /\ asked.all)
    BY <1>1, <1>2 DEF Accs, Question, Questions
  <1>. HIDE DEF done, asked
  <1>4. done.ask # None =>
          dialogs' \in Seq(Questions) /\ asked \in ToSet(dialogs')
    BY <1>2, <1>3, Asked
  <1>. QED BY <1>1, <1>2, <1>3, <1>4 DEF Kept

LEMMA InitInv == Init => IInv
  <1>. SUFFICES ASSUME Init PROVE IInv
    OBVIOUS
  <1>1. nav \in Navs /\ nav.bar = <<>> /\ InBar(nav) = {} /\ nav.selected = None
    BY DEF Init, Navs, InBar, ToSet
  <1>2. strayed \in BOOLEAN
    BY Zenon DEF Init
  <1>3. TypeOK
    BY <1>1, <1>2 DEF Init, TypeOK, Navs
  <1>. QED BY <1>1, <1>3 DEF IInv, Single, MarksSelected, Shown

(* What is left of the invariant for steps that ask nobody. *)
LEMMA NavInv ==
  ASSUME IInv, UNCHANGED <<dialogs, later, strayed>>, strayed' \in BOOLEAN,
         nav' = nav \/ \E t \in Views : nav' = OpenTab(nav, t),
         status' \in [Views -> {"new", "asked", "open", "dropped"}], dirty' \subseteq Forms
  PROVE  IInv'
  <1>1. nav \in Navs
    BY DEF IInv, TypeOK, Navs
  <1>2. nav' \in Navs /\ Single(nav'.bar) /\ MarksSelected(nav') /\ (Shown(nav) => Shown(nav'))
    BY <1>1, OpenTabShows DEF IInv
  <1>3. TypeOK'
    BY <1>2 DEF IInv, TypeOK, Navs
  <1>4. (nav' = nav \/ Shown(nav')) /\ Closing' = Closing
    BY <1>1, OpenTabShows DEF Closing
  <1>. QED BY <1>2, <1>3, <1>4 DEF IInv

LEMMA BarInv ==
  ASSUME IInv, NEW t \in Views, OpenTabByName(t) \/ Answer(t) \/ NavClick(t) \/ Edit(t) \/ Saved(t)
  PROVE  IInv'
  <1>. USE ViewsAssumption DEF IInv, TypeOK
  <1>0. strayed' \in BOOLEAN /\ UNCHANGED <<dialogs, later, strayed>>
    BY Zenon DEF OpenTabByName, Answer, NavClick, Edit, Saved
  <1>1. nav' = nav \/ \E u \in Views : nav' = OpenTab(nav, u)
    <2>1. InBar(nav) \subseteq Views
      BY InBarIndex DEF Navs
    <2>. QED BY <2>1 DEF OpenTabByName, Answer, NavClick, Edit, Saved, FindTab
  <1>2. status' \in [Views -> {"new", "asked", "open", "dropped"}]
    BY DEF OpenTabByName, Answer, NavClick, Edit, Saved
  <1>3. dirty' \subseteq Forms
    BY DEF OpenTabByName, Answer, NavClick, Edit, Saved
  <1>. QED BY <1>0, <1>1, <1>2, <1>3, NavInv

(* closeTab of one tab, at once or when the user has agreed. *)
LEMMA DoCloseInv ==
  ASSUME IInv, NEW t \in Views, DoClose(t)
  PROVE  /\ nav' \in Navs /\ strayed' \in BOOLEAN
         /\ Single(nav'.bar) /\ MarksSelected(nav')
         /\ ~strayed' /\ Shown(nav) => Shown(nav')
         /\ \A u \in InBar(nav) : u # t => strayed' \/ u \in InBar(nav')
  <1>1. nav \in Navs
    BY DEF IInv, TypeOK, Navs
  <1>2. strayed' \in BOOLEAN
    BY Zenon DEF DoClose
  <1>3. nav' = CloseOne(nav, t) /\ (t \notin InBar(nav) => strayed')
    BY DEF DoClose
  <1>. QED BY <1>1, <1>2, <1>3, CloseOneKeeps DEF IInv

LEMMA CloseTabInv == ASSUME IInv, NEW t \in Views, CloseTab(t) PROVE IInv'
  <1>1. status' = status /\ dirty' = dirty /\ later' = later
    BY DEF CloseTab
  <1>2. CASE t \in dirty
    <2>. DEFINE d == Question(t, <<>>, FALSE)
    <2>1. nav' = nav /\ strayed' = strayed /\ dialogs' = Append(dialogs, d) /\ dialogs \in Seq(Questions)
      BY <1>2 DEF CloseTab, IInv, TypeOK
    <2>2. d \in Questions /\ ~d.all
      BY DEF Question, Questions
    <2>. HIDE DEF d
    <2>3. dialogs' \in Seq(Questions) /\ ToSet(dialogs') = ToSet(dialogs) \cup {d}
      BY <2>1, <2>2, Asked
    <2>4. TypeOK' /\ Closing' = Closing
      BY <1>1, <2>1, <2>2, <2>3 DEF IInv, TypeOK, Closing
    <2>. QED BY <2>1, <2>4 DEF IInv
  <1>3. CASE t \notin dirty
    <2>1. DoClose(t) /\ dialogs' = dialogs
      BY <1>3 DEF CloseTab
    <2>2. TypeOK' /\ Closing' = Closing
      BY <1>1, <2>1, DoCloseInv DEF IInv, TypeOK, Navs, Closing
    <2>3. ~strayed' => ~strayed
      BY <2>1 DEF DoClose
    <2>. QED BY <2>1, <2>2, <2>3, DoCloseInv DEF IInv
  <1>. QED BY <1>2, <1>3

LEMMA CloseTabOthersInv ==
  ASSUME IInv, NEW current \in Views \cup {None}, CloseTabOthers(current)
  PROVE  IInv' /\ dirty \cap InBar(nav) \subseteq InBar(nav')
  <1>. DEFINE rest == Others(nav.bar, Home \cup {current})[Len(nav.bar)]
              n == IF current = None \/ current \in nav.marked THEN nav ELSE OpenTab(nav, current)
  <1>1. nav \in Navs /\ rest \in Seq(Views)
    BY OthersAreTabs DEF IInv, TypeOK, Navs
  <1>2. n \in Navs /\ Single(n.bar) /\ MarksSelected(n) /\ InBar(nav) \subseteq InBar(n)
    BY <1>1, OpenTabShows DEF IInv
  <1>3. DoCloseTabs(n, rest, dialogs) /\ UNCHANGED <<status, dirty, later, strayed>>
    BY DEF CloseTabOthers
  <1>. HIDE DEF rest, n
  <1>4. /\ nav' \in Navs /\ dialogs' \in Seq(Questions) /\ Single(nav'.bar) /\ MarksSelected(nav')
        /\ Shown(nav') \/ \E d \in ToSet(dialogs') : d.all
        /\ dirty \cap InBar(n) \subseteq InBar(nav')
    BY <1>1, <1>2, <1>3, DoCloseTabsInv DEF IInv, TypeOK
  <1>5. strayed' \in BOOLEAN
    BY <1>3, Zenon DEF IInv, TypeOK
  <1>6. TypeOK'
    BY <1>3, <1>4, <1>5 DEF IInv, TypeOK, Navs
  <1>7. ~Closing' => Shown(nav')
    BY <1>4 DEF Closing
  <1>. QED BY <1>2, <1>4, <1>6, <1>7 DEF IInv

(* The answers of the user. *)
LEMMA ConfirmInv == IInv /\ Confirm => IInv' /\ nav' = nav
  <1>. SUFFICES ASSUME IInv, Confirm PROVE IInv' /\ nav' = nav
    OBVIOUS
  <1>1. dialogs # <<>> /\ dialogs \in Seq(Questions) /\ later \in Seq(Questions)
        /\ UNCHANGED <<nav, status, dirty, strayed>>
    BY DEF Confirm, IInv, TypeOK
  <1>2. /\ Last(dialogs) \in Questions /\ dialogs' \in Seq(Questions)
        /\ ToSet(dialogs) = ToSet(dialogs') \cup {Last(dialogs)}
    BY <1>1, Ends DEF Confirm
  <1>3. later' \in Seq(Questions) /\ ToSet(later') = ToSet(later) \cup {Last(dialogs)}
    BY <1>1, <1>2, Asked DEF Confirm
  <1>4. strayed' \in BOOLEAN
    BY <1>1, Zenon DEF IInv, TypeOK
  <1>5. TypeOK'
    BY <1>1, <1>2, <1>3, <1>4 DEF IInv, TypeOK
  <1>6. Closing' = Closing
    BY <1>2, <1>3 DEF Closing
  <1>. QED BY <1>1, <1>5, <1>6 DEF IInv

LEMMA RefuseInv == IInv /\ Refuse => IInv' /\ dirty \cap InBar(nav) \subseteq InBar(nav')
  <1>. SUFFICES ASSUME IInv, Refuse PROVE IInv' /\ dirty \cap InBar(nav) \subseteq InBar(nav')
    OBVIOUS
  <1>. DEFINE d == Last(dialogs)
  <1>1. dialogs # <<>> /\ dialogs \in Seq(Questions) /\ nav \in Navs
        /\ UNCHANGED <<status, dirty, later, strayed>>
    BY DEF Refuse, IInv, TypeOK, Navs
  <1>2. d \in Questions /\ Front(dialogs) \in Seq(Questions) /\ ToSet(dialogs) = ToSet(Front(dialogs)) \cup {d}
    BY <1>1, Ends
  <1>3. strayed' \in BOOLEAN
    BY <1>1, Zenon DEF IInv, TypeOK
  <1>. HIDE DEF d
  <1>4. CASE d.all
    <2>1. DoCloseTabs(nav, d.rest, Front(dialogs)) /\ d.rest \in Seq(Views)
      BY <1>2, <1>4 DEF Refuse, Questions, d
    <2>2. /\ nav' \in Navs /\ dialogs' \in Seq(Questions) /\ Single(nav'.bar) /\ MarksSelected(nav')
          /\ Shown(nav') \/ \E q \in ToSet(dialogs') : q.all
          /\ dirty \cap InBar(nav) \subseteq InBar(nav')
      BY <1>1, <1>2, <2>1, DoCloseTabsInv DEF IInv
    <2>3. TypeOK'
      BY <1>1, <1>3, <2>2 DEF IInv, TypeOK, Navs
    <2>4. ~Closing' => Shown(nav')
      BY <2>2 DEF Closing
    <2>. QED BY <2>2, <2>3, <2>4 DEF IInv
  <1>5. CASE ~d.all
    <2>1. dialogs' = Front(dialogs) /\ nav' = nav
      BY <1>5 DEF Refuse, d
    <2>2. TypeOK'
      BY <1>1, <1>2, <1>3, <2>1 DEF IInv, TypeOK
    <2>3. Closing' = Closing
      BY <1>1, <1>2, <1>5, <2>1 DEF Closing
    <2>. QED BY <1>1, <2>1, <2>2, <2>3 DEF IInv
  <1>. QED BY <1>4, <1>5

(* What was confirmed takes the tab of the question, and no other one with *)
(* changes unless that tab is gone.                                        *)
LEMMA ApplyLaterInv ==
  IInv /\ ApplyLater =>
    /\ IInv'
    /\ \A u \in dirty \cap InBar(nav) : u # Head(later).tab => strayed' \/ u \in InBar(nav')
  <1>. SUFFICES ASSUME IInv, ApplyLater
                PROVE  /\ IInv'
                       /\ \A u \in dirty \cap InBar(nav) :
                            u # Head(later).tab => strayed' \/ u \in InBar(nav')
    OBVIOUS
  <1>. DEFINE d == Head(later)
  <1>1. later # <<>> /\ later \in Seq(Questions) /\ nav \in Navs /\ dialogs \in Seq(Questions)
        /\ later' = Tail(later) /\ UNCHANGED <<status, dirty>>
    BY DEF ApplyLater, IInv, TypeOK, Navs
  <1>2. d \in Questions /\ later' \in Seq(Questions) /\ ToSet(later) = {d} \cup ToSet(later')
    BY <1>1, Ends
  <1>3. d.tab \in Views /\ d.rest \in Seq(Views)
    BY <1>2 DEF Questions
  <1>. HIDE DEF d
  <1>4. CASE d.all
    <2>. DEFINE n == TakeOut(nav, d.tab)
    <2>1. DoCloseTabs(n, d.rest, dialogs) /\ strayed' = strayed
      BY <1>4 DEF ApplyLater, d
    <2>2. /\ n \in Navs /\ Single(n.bar) /\ MarksSelected(n)
          /\ \A u \in InBar(nav) : u # d.tab => u \in InBar(n)
      BY <1>1, TakeOutKeeps DEF IInv
    <2>. HIDE DEF n
    <2>3. /\ nav' \in Navs /\ dialogs' \in Seq(Questions) /\ Single(nav'.bar) /\ MarksSelected(nav')
          /\ Shown(nav') \/ \E q \in ToSet(dialogs') : q.all
          /\ dirty \cap InBar(n) \subseteq InBar(nav')
      BY <1>1, <1>3, <2>1, <2>2, DoCloseTabsInv
    <2>4. strayed' \in BOOLEAN
      BY <2>1, Zenon DEF IInv, TypeOK
    <2>5. TypeOK'
      BY <1>1, <1>2, <2>3, <2>4 DEF IInv, TypeOK, Navs
    <2>6. ~Closing' => Shown(nav')
      BY <2>3 DEF Closing
    <2>. QED BY <2>2, <2>3, <2>5, <2>6 DEF IInv, d
  <1>5. CASE ~d.all
    <2>1. DoClose(d.tab) /\ dialogs' = dialogs
      BY <1>5 DEF ApplyLater, d
    <2>2. /\ nav' \in Navs /\ strayed' \in BOOLEAN /\ Single(nav'.bar) /\ MarksSelected(nav')
          /\ ~strayed' /\ Shown(nav) => Shown(nav')
          /\ \A u \in InBar(nav) : u # d.tab => strayed' \/ u \in InBar(nav')
      BY <1>3, <2>1, DoCloseInv
    <2>3. TypeOK'
      BY <1>1, <1>2, <2>1, <2>2 DEF IInv, TypeOK, Navs
    <2>4. Closing' = Closing
      BY <1>1, <1>2, <1>5, <2>1 DEF Closing
    <2>5. ~strayed' => ~strayed
      BY <2>1 DEF DoClose
    <2>. QED BY <2>2, <2>3, <2>4, <2>5 DEF IInv, d
  <1>. QED BY <1>4, <1>5

LEMMA StutterInv == IInv /\ UNCHANGED vars => IInv'
  <1>. SUFFICES ASSUME IInv, UNCHANGED vars PROVE IInv'
    OBVIOUS
  <1>1. strayed' \in BOOLEAN
    BY Zenon DEF vars, IInv, TypeOK
  <1>2. TypeOK' /\ Closing' = Closing
    BY <1>1 DEF vars, IInv, TypeOK, Closing
  <1>. QED BY <1>2 DEF vars, IInv

THEOREM Invariance == Spec => []IInv
  <1>1. IInv /\ [Next]_vars => IInv'
    BY BarInv, CloseTabInv, CloseTabOthersInv, ConfirmInv, RefuseInv, ApplyLaterInv, StutterInv DEF Next
  <1>. QED BY InitInv, <1>1, PTL DEF Spec

THEOREM TypeCorrect == Spec => []TypeOK
  <1>1. IInv => TypeOK
    BY DEF IInv
  <1>. QED BY <1>1, Invariance, PTL

(* However many answers are under way when tabs are opened and closed, an  *)
(* action has one tab (findTab, openTab).                                  *)
THEOREM ActionsHaveOneTab == Spec => []OneTabPerAction
  <1>1. IInv => OneTabPerAction
    BY DEF IInv, Single, OneTabPerAction
  <1>. QED BY <1>1, Invariance, PTL

(* The selected tab is the one marked in the bar whenever nobody is asked: *)
(* closeTabs ends in a selection, and __closeTab takes the neighbour.      *)
THEOREM BarShowsSelected == Spec => []ShownIsInBar
  <1>1. IInv => ShownIsInBar
    <2>1. dialogs = <<>> /\ later = <<>> => ~Closing
      BY DEF Closing, ToSet
    <2>. QED BY <2>1 DEF IInv, Shown, ShownIsInBar
  <1>. QED BY <1>1, Invariance, PTL

(* Only the tab the user has confirmed for takes its changes along         *)
(* (confirmDirty, closeTab, closeTabs).                                    *)
THEOREM ChangesNeedConsent == Spec => LostOnlyIfConfirmed
  <1>1. IInv /\ [Next]_vars =>
          [\A t \in dirty :
             t \in InBar(nav) /\ t \notin InBar(nav)' =>
               strayed' \/ (later # <<>> /\ t = Head(later).tab)]_vars
    <2>. SUFFICES ASSUME IInv, Next, NEW t \in dirty, t \in InBar(nav), t \notin InBar(nav'), ~strayed'
                  PROVE  later # <<>> /\ t = Head(later).tab
      BY DEF vars
    <2>1. nav \in Navs
      BY DEF IInv, TypeOK, Navs
    <2>2. nav' # nav /\ ~\E u \in Views : nav' = OpenTab(nav, u)
      BY <2>1, OpenTabShows
    <2>3. InBar(nav) \subseteq Views
      BY <2>1, InBarIndex
    <2>4. \A v \in Views : ~(OpenTabByName(v) \/ Answer(v) \/ NavClick(v) \/ Edit(v) \/ Saved(v))
      BY <2>2, <2>3 DEF OpenTabByName, Answer, NavClick, Edit, Saved, FindTab
    <2>5. ASSUME NEW v \in Views, CloseTab(v) PROVE FALSE
      <3>1. v \notin dirty /\ DoClose(v)
        BY <2>2, <2>5 DEF CloseTab
      <3>2. \A u \in InBar(nav) : u # v => strayed' \/ u \in InBar(nav')
        BY <3>1, DoCloseInv
      <3>. QED BY <3>1, <3>2
    <2>6. ~(\E current \in Views \cup {None} : CloseTabOthers(current)) /\ ~Confirm /\ ~Refuse
      BY CloseTabOthersInv, ConfirmInv, RefuseInv
    <2>7. ApplyLater
      BY <2>4, <2>5, <2>6 DEF Next
    <2>. QED BY <2>7, ApplyLaterInv DEF ApplyLater
  <1>. QED BY <1>1, Invariance, PTL DEF Spec, LostOnlyIfConfirmed
=============================================================================
