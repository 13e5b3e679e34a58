---------------------------- MODULE ResolverProofs ----------------------------
(* Proofs about Resolver, for graphs of any size.                          *)
EXTENDS Resolver, WellFoundedInduction, TLAPS

(***************************************************************************)
(* Induction over the places of a loop.                                    *)
(***************************************************************************)

(* A set of numbers that is not empty has a least element. *)
LEMMA LeastNumber == ASSUME NEW T, T \subseteq Nat, T # {} PROVE \E n \in T : \A m \in T : n <= m
  <1>. DEFINE R == OpToRel(<, Nat)
  <1>1. IsWellFoundedOn(R, Nat)
    BY NatLessThanWellFounded
  <1>. HIDE DEF R
  <1>2. PICK n \in T : \A m \in T : <<m, n>> \notin R
    BY <1>1, WFMin, Zenon
  <1>3. \A m \in T : m < n => <<m, n>> \in R
    BY DEF R, OpToRel
  <1>4. \A m \in T : ~(m < n)
    BY <1>2, <1>3, Zenon
  <1>. QED BY <1>4

(* What holds before a loop, and after each round if before it, holds      *)
(* after every round.                                                      *)
LEMMA EveryRound ==
  ASSUME NEW k \in Nat, NEW T, 0 \in T, \A i \in 1..k : i - 1 \in T => i \in T
  PROVE  0..k \subseteq T
  <1>. DEFINE missed == (0..k) \ T
  <1>. SUFFICES ASSUME missed # {} PROVE FALSE
    OBVIOUS
  <1>1. missed \subseteq Nat
    OBVIOUS
  <1>. HIDE DEF missed
  <1>2. PICK n \in missed : \A m \in missed : n <= m
    BY <1>1, LeastNumber, Zenon
  <1>3. n \in 1..k /\ n - 1 \in 0..k /\ ~(n <= n - 1) /\ n \notin T
    BY DEF missed
  <1>. QED BY <1>2, <1>3 DEF missed

(* What a loop of k rounds goes through from start. *)
IsCourse(f, S, k, start, step) ==
  /\ f \in [0..k -> S]
  /\ f[0] = start /\ \A i \in 1..k : f[i] = step[<<i, f[i - 1]>>]

(* A loop over states in S has a course. *)
LEMMA CourseExists ==
  ASSUME NEW S, NEW k \in Nat, NEW start \in S, NEW step \in [(1..k) \X S -> S]
  PROVE  \E f : IsCourse(f, S, k, start, step)
  <1>. DEFINE Course(n, f) == f[0] = start /\ \A i \in 1..n : f[i] = step[<<i, f[i - 1]>>]
              T == {n \in 0..k : \E f \in [0..n -> S] : Course(n, f)}
  <1>1. 0 \in T
    <2>. DEFINE f == [i \in 0..0 |-> start]
    <2>1. f \in [0..0 -> S] /\ Course(0, f)
      OBVIOUS
    <2>. HIDE DEF f, Course
    <2>. QED BY <2>1
  <1>2. ASSUME NEW n \in 1..k, n - 1 \in T PROVE n \in T
    <2>1. PICK f \in [0..(n - 1) -> S] : Course(n - 1, f)
      BY <1>2
    <2>. DEFINE g == [i \in 0..n |-> IF i = n THEN step[<<n, f[n - 1]>>] ELSE f[i]]
    <2>2. f[n - 1] \in S /\ step[<<n, f[n - 1]>>] \in S
      OBVIOUS
    <2>3. g \in [0..n -> S]
      BY <2>2
    <2>4. \A i \in 0..(n - 1) : g[i] = f[i]
      OBVIOUS
    <2>5. g[n] = step[<<n, f[n - 1]>>] /\ n - 1 \in 0..(n - 1)
      OBVIOUS
    <2>. HIDE DEF g
    <2>6. ASSUME NEW i \in 1..n PROVE g[i] = step[<<i, g[i - 1]>>]
      <3>1. CASE i = n
        BY <2>4, <2>5, <3>1
      <3>2. CASE i # n
        <4>1. i \in 1..(n - 1) /\ i \in 0..(n - 1) /\ i - 1 \in 0..(n - 1)
          BY <3>2
        <4>2. g[i] = f[i] /\ g[i - 1] = f[i - 1]
          BY <2>4, <4>1
        <4>. QED BY <2>1, <4>1, <4>2
      <3>. QED BY <3>1, <3>2
    <2>7. Course(n, g)
      BY <2>1, <2>4, <2>6
    <2>. HIDE DEF Course
    <2>. QED BY <2>3, <2>7
  <1>3. k \in T
    <2>. HIDE DEF T
    <2>1. 0..k \subseteq T
      BY <1>1, <1>2, EveryRound
    <2>. QED BY <2>1
  <1>. HIDE DEF Course
  <1>4. PICK f \in [0..k -> S] : Course(k, f)
    BY <1>3
  <1>. QED BY <1>4 DEF Course, IsCourse

(***************************************************************************)
(* Graphs, apart from the state.                                           *)
(***************************************************************************)
IsGraph(m) == \A n \in DOMAIN m : m[n] \in Seq(DOMAIN m) /\ IsInjective(m[n])

Edge(m, a, b) == a \in DOMAIN m /\ b \in ToSet(m[a])

ClosedFrom(m, name, S) == \A a \in S \cup {name} : \A b : Edge(m, a, b) => b \in S

NeededBy(m, name) ==
  {n \in DOMAIN m : \A S \in SUBSET DOMAIN m : ClosedFrom(m, name, S) => n \in S}

(* Every element of the list comes once, behind all it depends on. *)
Sorted(m, seq) ==
  /\ IsInjective(seq)
  /\ \A i \in DOMAIN seq : \A b : Edge(m, seq[i], b) => \E j \in DOMAIN seq : j < i /\ seq[j] = b

LEMMA ContainsIs ==
  ASSUME NEW S, NEW s \in Seq(S), NEW e
  PROVE  Contains(s, e) <=> e \in ToSet(s)
BY DEF Contains, ToSet

LEMMA EdgesAre ==
  ASSUME IsGraph(modules), NEW a, NEW b
  PROVE  <<a, b>> \in Edges <=> Edge(modules, a, b)
<1>1. ASSUME a \in Known PROVE Contains(modules[a], b) <=> b \in ToSet(modules[a])
  BY <1>1, ContainsIs DEF IsGraph, Known
<1>2. ASSUME a \in Known, b \in ToSet(modules[a]) PROVE b \in Known
  BY <1>2 DEF IsGraph, Known, ToSet
<1> QED BY <1>1, <1>2 DEF Edges, Edge, Known

LEMMA NeededIs ==
  ASSUME IsGraph(modules), NEW name
  PROVE  Needed(name) = NeededBy(modules, name)
<1>1. ASSUME NEW S
      PROVE  (\A e \in Edges : e[1] \in S \cup {name} => e[2] \in S) <=> ClosedFrom(modules, name, S)
  <2>1. ASSUME \A e \in Edges : e[1] \in S \cup {name} => e[2] \in S,
               NEW a \in S \cup {name}, NEW b, Edge(modules, a, b)
        PROVE  b \in S
    <3>1. <<a, b>> \in Edges
      BY <2>1, EdgesAre
    <3> QED BY <2>1, <3>1
  <2>2. ASSUME ClosedFrom(modules, name, S), NEW e \in Edges, e[1] \in S \cup {name}
        PROVE  e[2] \in S
    <3>1. e = <<e[1], e[2]>>
      BY DEF Edges
    <3>2. Edge(modules, e[1], e[2])
      BY <3>1, EdgesAre
    <3> QED BY <2>2, <3>2 DEF ClosedFrom
  <2> QED BY <2>1, <2>2 DEF ClosedFrom
<1> QED BY <1>1 DEF Needed, NeededBy, Known

LEMMA NeededFirst ==
  ASSUME NEW m, NEW a, NEW b, Edge(m, a, b), b \in DOMAIN m
  PROVE  b \in NeededBy(m, a)
BY DEF NeededBy, ClosedFrom

LEMMA NeededNext ==
  ASSUME NEW m, NEW a, NEW b \in NeededBy(m, a), NEW c \in DOMAIN m, Edge(m, b, c)
  PROVE  c \in NeededBy(m, a)
BY DEF NeededBy, ClosedFrom

LEMMA NeededWithin ==
  ASSUME NEW m, NEW a, NEW S \in SUBSET DOMAIN m, ClosedFrom(m, a, S)
  PROVE  NeededBy(m, a) \subseteq S
BY DEF NeededBy

(* What an element of such a list needs comes before it. *)
LEMMA SortedBefore ==
  ASSUME NEW m, NEW seq \in Seq(DOMAIN m), Sorted(m, seq), NEW i \in DOMAIN seq
  PROVE  NeededBy(m, seq[i]) \subseteq {seq[j] : j \in 1..(i - 1)}
<1> DEFINE S == {seq[j] : j \in 1..(i - 1)}
<1>1. DOMAIN seq = 1..Len(seq) /\ Len(seq) \in Nat /\ i \in 1..Len(seq)
  OBVIOUS
<1>2. S \in SUBSET DOMAIN m
  BY <1>1
<1>3. ASSUME NEW a \in S \cup {seq[i]}, NEW b, Edge(m, a, b) PROVE b \in S
  <2>1. PICK k \in 1..i : a = seq[k]
    BY <1>1
  <2>2. k \in DOMAIN seq
    BY <1>1
  <2>3. PICK j \in DOMAIN seq : j < k /\ seq[j] = b
    BY <1>3, <2>1, <2>2 DEF Sorted
  <2>4. j \in 1..(i - 1)
    BY <1>1, <2>3
  <2> QED BY <2>3, <2>4
<1>4. ClosedFrom(m, seq[i], S)
  BY <1>3 DEF ClosedFrom
<1> HIDE DEF S
<1>5. NeededBy(m, seq[i]) \subseteq S
  BY <1>2, <1>4, NeededWithin
<1> QED BY <1>5 DEF S

LEMMA SortedIsAcyclic ==
  ASSUME NEW m, NEW seq \in Seq(DOMAIN m), Sorted(m, seq), NEW n \in ToSet(seq)
  PROVE  n \notin NeededBy(m, n)
<1>1. PICK i \in DOMAIN seq : n = seq[i]
  BY DEF ToSet
<1>2. \A j \in 1..(i - 1) : j \in DOMAIN seq /\ j # i
  OBVIOUS
<1>3. \A j \in 1..(i - 1) : seq[j] # seq[i]
  BY <1>2 DEF Sorted, IsInjective
<1> QED BY <1>1, <1>3, SortedBefore

LEMMA SortedIsInOrder ==
  ASSUME IsGraph(modules), NEW seq \in Seq(Known), Sorted(modules, seq)
  PROVE  InOrder(seq)
<1>1. ASSUME NEW i \in DOMAIN seq, NEW j \in DOMAIN seq, <<seq[i], seq[j]>> \in Edges
      PROVE  j < i
  <2>1. Edge(modules, seq[i], seq[j])
    BY <1>1, EdgesAre
  <2>2. PICK k \in DOMAIN seq : k < i /\ seq[k] = seq[j]
    BY <2>1 DEF Sorted
  <2>3. k = j
    BY <2>2 DEF Sorted, IsInjective
  <2> QED BY <2>2, <2>3
<1> QED BY <1>1 DEF InOrder, Sorted

(* The last of a list of all modules is the one that needs all others. *)
LEMMA MainIsLast ==
  ASSUME NEW m, NEW seq \in Seq(DOMAIN m), Sorted(m, seq), ToSet(seq) = DOMAIN m,
         NEW n \in DOMAIN m, DOMAIN m \ {n} \subseteq NeededBy(m, n)
  PROVE  n = Last(seq)
<1>1. DOMAIN seq = 1..Len(seq) /\ Len(seq) \in Nat
  OBVIOUS
<1>2. PICK i \in DOMAIN seq : n = seq[i]
  BY DEF ToSet
<1>3. Len(seq) \in DOMAIN seq /\ Last(seq) = seq[Len(seq)]
  BY <1>1, <1>2 DEF Last
<1>4. SUFFICES ASSUME i # Len(seq) PROVE FALSE
  BY <1>2, <1>3
<1>5. seq[Len(seq)] # n /\ seq[Len(seq)] \in DOMAIN m
  BY <1>2, <1>3, <1>4 DEF Sorted, IsInjective
<1>6. PICK j \in 1..(i - 1) : seq[j] = seq[Len(seq)]
  BY <1>2, <1>5, SortedBefore
<1>7. j \in DOMAIN seq /\ j # Len(seq)
  BY <1>1, <1>2, <1>6
<1> QED BY <1>3, <1>6, <1>7 DEF Sorted, IsInjective

(* A list of what closes it stays sorted when an element is appended whose *)
(* dependencies it holds.                                                  *)
LEMMA SortedAppend ==
  ASSUME NEW m, NEW seq \in Seq(DOMAIN m), Sorted(m, seq), NEW n \in DOMAIN m, n \notin ToSet(seq),
         \A b : Edge(m, n, b) => b \in ToSet(seq)
  PROVE  Sorted(m, Append(seq, n)) /\ ToSet(Append(seq, n)) = ToSet(seq) \cup {n}
<1> DEFINE longer == Append(seq, n)
<1>1. DOMAIN seq = 1..Len(seq) /\ Len(seq) \in Nat /\ DOMAIN longer = 1..(Len(seq) + 1)
  OBVIOUS
<1>2. \A i \in 1..(Len(seq) + 1) : longer[i] = IF i = Len(seq) + 1 THEN n ELSE seq[i]
  OBVIOUS
<1> HIDE DEF longer
<1>3. \A i \in DOMAIN seq : longer[i] = seq[i] /\ seq[i] # n
  BY <1>1, <1>2 DEF ToSet
<1>4. IsInjective(longer)
  BY <1>1, <1>2, <1>3 DEF Sorted, IsInjective
<1>5. ASSUME NEW i \in DOMAIN longer, NEW b, Edge(m, longer[i], b)
      PROVE  \E j \in DOMAIN longer : j < i /\ longer[j] = b
  <2>1. CASE i = Len(seq) + 1
    <3>1. PICK j \in DOMAIN seq : seq[j] = b
      BY <1>1, <1>2, <1>5, <2>1 DEF ToSet
    <3> QED BY <1>1, <1>3, <2>1, <3>1
  <2>2. CASE i # Len(seq) + 1
    <3>1. i \in DOMAIN seq
      BY <1>1, <2>2
    <3>2. PICK j \in DOMAIN seq : j < i /\ seq[j] = b
      BY <1>3, <1>5, <3>1 DEF Sorted
    <3> QED BY <1>1, <1>3, <3>2
  <2> QED BY <2>1, <2>2
<1>6. ToSet(longer) = ToSet(seq) \cup {n}
  <2>1. longer[Len(seq) + 1] = n /\ Len(seq) + 1 \in DOMAIN longer
    BY <1>1, <1>2
  <2>2. \A i \in DOMAIN longer : i = Len(seq) + 1 \/ i \in DOMAIN seq
    BY <1>1
  <2>3. \A i \in DOMAIN seq : i \in DOMAIN longer
    BY <1>1
  <2> QED BY <1>3, <2>1, <2>2, <2>3 DEF ToSet
<1> QED BY <1>4, <1>5, <1>6 DEF Sorted, longer
(***************************************************************************)
(* The invariant.                                                          *)
(***************************************************************************)
(* Nobody runs: nothing is left of what ran before. *)
Rests ==
  phase = "idle" =>
    /\ calls = <<>> /\ resolved = <<>> /\ keys = {} /\ resolutions = {}
    /\ merging = <<>> /\ listed = <<>>

(* The calls under way: what is unresolved, and what each has dealt with.  *)
Stack ==
  /\ unresolved = {calls[i].name : i \in DOMAIN calls}
  /\ \A i, j \in DOMAIN calls : calls[i].name = calls[j].name => i = j
  /\ \A i \in DOMAIN calls : calls[i].name \notin ToSet(resolved)
  /\ \A i \in DOMAIN calls : \A k \in 1..(calls[i].next - 1) :
       /\ k \in DOMAIN modules[calls[i].name]
       /\ \/ modules[calls[i].name][k] \in ToSet(resolved)
          \/ i < Len(calls) /\ modules[calls[i].name][k] = calls[i + 1].name

(* What they have to do with each other and with the module asked for.     *)
Reach ==
  /\ \A i, j \in DOMAIN calls : i < j => calls[j].name \in NeededBy(modules, calls[i].name)
  /\ \A i \in DOMAIN calls : calls[i].name \in NeededBy(modules, root) \cup {root}
  /\ ToSet(resolved) \subseteq NeededBy(modules, root) \cup {root}
  /\ IF calls = <<>> THEN root \in ToSet(resolved) ELSE calls[1].name = root

Search ==
  Searching =>
    \/ root \in Known /\ Stack /\ Reach /\ Sorted(modules, resolved)
    \/ root \notin Known /\ phase = "resolve" /\ calls = <<>> /\ unresolved = {root}

(* An exception is thrown for a cycle, or a name that is not known.        *)
Thrown ==
  phase = "threw" =>
    root \notin Known \/ \E n \in NeededBy(modules, root) \cup {root} : n \in NeededBy(modules, n)

(* What all has, and what is to come.                                      *)
Collected ==
  phase \in {"all", "each"} =>
    /\ \A r \in resolutions : Sorted(modules, r)
    /\ Sorted(modules, listed)
    /\ \A i \in DOMAIN merging : \A b : Edge(modules, merging[i], b) =>
         b \in ToSet(listed) \/ \E j \in DOMAIN merging : j < i /\ merging[j] = b
    /\ \A n \in Known : \/ n \in keys
                        \/ phase = "each" /\ n = root
                        \/ n \in ToSet(listed) \cup ToSet(merging)
                        \/ \E r \in resolutions : n \in ToSet(r)

AllListed == phase = "listed" => Sorted(modules, listed) /\ ToSet(listed) = Known

IInv == TypeOK /\ Rests /\ Search /\ Thrown /\ Collected /\ AllListed

CallType == [name : Known, next : Nat \ {0}]

LEMMA Typed ==
  ASSUME TypeOK
  PROVE  /\ IsGraph(modules) /\ Known = DOMAIN modules
         /\ calls \in Seq(CallType) /\ resolved \in Seq(Known)
         /\ DOMAIN calls = 1..Len(calls) /\ Len(calls) \in Nat
         /\ \A i \in DOMAIN calls : calls[i].name \in Known /\ calls[i].next \in Nat \ {0}
<1>1. calls \in Seq(CallType)
  BY DEF TypeOK, CallType
<1>2. \A i \in DOMAIN calls : calls[i] \in CallType
  BY <1>1
<1>3. \A i \in DOMAIN calls : calls[i].name \in Known /\ calls[i].next \in Nat \ {0}
  BY <1>2 DEF CallType
<1> QED BY <1>1, <1>3 DEF TypeOK, IsGraph, Known

LEMMA TopIs ==
  ASSUME NEW S, NEW s \in Seq(S), s # <<>>
  PROVE  Len(s) \in DOMAIN s /\ Last(s) = s[Len(s)] /\ Last(s) \in S /\ Len(s) \in Nat \ {0}
BY DEF Last

LEMMA Advancing ==
  ASSUME calls \in Seq(CallType), calls # <<>>
  PROVE  /\ Advanced \in Seq(CallType) /\ Len(Advanced) = Len(calls)
         /\ DOMAIN Advanced = DOMAIN calls
         /\ \A i \in DOMAIN calls :
              /\ Advanced[i].name = calls[i].name
              /\ Advanced[i].next = IF i = Len(calls) THEN calls[i].next + 1 ELSE calls[i].next
<1>1. Len(calls) \in DOMAIN calls /\ \A i \in DOMAIN calls : calls[i] \in CallType
  OBVIOUS
<1> DEFINE top == calls[Len(calls)]
           moved == [top EXCEPT !.next = @ + 1]
<1>2. moved \in CallType /\ moved.name = top.name /\ moved.next = top.next + 1
  BY <1>1 DEF CallType
<1>3. Advanced = [calls EXCEPT ![Len(calls)] = moved]
  BY DEF Advanced
<1> HIDE DEF moved
<1>4. /\ Advanced \in Seq(CallType) /\ Len(Advanced) = Len(calls) /\ DOMAIN Advanced = DOMAIN calls
      /\ \A i \in DOMAIN calls : Advanced[i] = IF i = Len(calls) THEN moved ELSE calls[i]
  BY <1>1, <1>2, <1>3
<1> QED BY <1>2, <1>4

(* What the innermost call of the search looks at. *)
LEMMA LoopingAt ==
  ASSUME IInv, Looping
  PROVE  /\ root \in Known /\ Stack /\ Reach /\ Sorted(modules, resolved)
         /\ Len(calls) \in DOMAIN calls /\ Top = calls[Len(calls)] /\ Top \in CallType
         /\ Top.next \in DOMAIN modules[Top.name] /\ Dep = modules[Top.name][Top.next]
         /\ Dep \in Known /\ Edge(modules, Top.name, Dep)
<1>1. calls \in Seq(CallType) /\ IsGraph(modules)
  BY Typed DEF IInv
<1>2. Len(calls) \in DOMAIN calls /\ Top = calls[Len(calls)] /\ Top \in CallType
  BY <1>1, TopIs DEF Looping, Top
<1>3. root \in Known /\ Stack /\ Reach /\ Sorted(modules, resolved)
  BY DEF IInv, Search, Looping
<1>4. Top.name \in Known /\ Top.next \in Nat \ {0} /\ modules[Top.name] \in Seq(Known)
  BY <1>1, <1>2 DEF CallType, IsGraph, Known
<1>5. Top.next \in DOMAIN modules[Top.name]
  BY <1>4 DEF Looping
<1>6. Dep \in Known /\ Dep = modules[Top.name][Top.next]
  BY <1>4, <1>5 DEF Dep
<1>7. Edge(modules, Top.name, Dep)
  BY <1>4, <1>5, <1>6 DEF Edge, ToSet, Known
<1> QED BY <1>2, <1>3, <1>5, <1>6, <1>7

(* A step of the search leaves the rest as it is. *)
LEMMA SearchOnly ==
  ASSUME IInv, Searching, UNCHANGED <<modules, phase, root, keys, resolutions, merging, listed>>,
         calls' \in Seq(CallType), resolved' \in Seq(Known), unresolved' \subseteq Known, Search'
  PROVE  IInv'
<1>1. TypeOK'
  BY DEF IInv, TypeOK, Known, CallType
<1>2. Rests' /\ Thrown' /\ AllListed'
  BY DEF Searching, Rests, Thrown, AllListed
<1>3. Collected'
  BY DEF IInv, Collected, Known
<1> QED BY <1>1, <1>2, <1>3 DEF IInv

LEMMA SkipInv ==
  ASSUME IInv, Skip
  PROVE  IInv'
<1>1. /\ root \in Known /\ Stack /\ Reach /\ Sorted(modules, resolved)
      /\ Len(calls) \in DOMAIN calls /\ Top = calls[Len(calls)]
      /\ Top.next \in DOMAIN modules[Top.name] /\ Dep = modules[Top.name][Top.next]
  BY LoopingAt DEF Skip
<1>2. /\ calls \in Seq(CallType) /\ resolved \in Seq(Known) /\ Known = DOMAIN modules
      /\ \A i \in DOMAIN calls : calls[i].name \in Known /\ calls[i].next \in Nat \ {0}
  BY Typed DEF IInv
<1>3. /\ calls' \in Seq(CallType) /\ Len(calls') = Len(calls) /\ DOMAIN calls' = DOMAIN calls
      /\ \A i \in DOMAIN calls :
           /\ calls'[i].name = calls[i].name
           /\ calls'[i].next = IF i = Len(calls) THEN calls[i].next + 1 ELSE calls[i].next
  BY <1>1, <1>2, Advancing DEF Skip, Looping
<1>4. Dep \in ToSet(resolved)
  BY <1>2, ContainsIs DEF Skip
<1>5. Searching /\ UNCHANGED <<modules, phase, root, resolved, unresolved, keys, resolutions, merging, listed>>
  BY DEF Skip, Looping
<1>6. Stack'
  <2>1. ASSUME NEW i \in DOMAIN calls, NEW k \in 1..(calls'[i].next - 1)
        PROVE  /\ k \in DOMAIN modules[calls[i].name]
               /\ \/ modules[calls[i].name][k] \in ToSet(resolved)
                  \/ i < Len(calls) /\ modules[calls[i].name][k] = calls[i + 1].name
    <3>0. calls[i].next \in Nat /\ k \in Nat
      BY <1>2, <1>3
    <3>1. CASE k \in 1..(calls[i].next - 1)
      BY <1>1, <3>1 DEF Stack
    <3>2. CASE k \notin 1..(calls[i].next - 1)
      <4>1. i = Len(calls) /\ k = calls[i].next
        BY <1>3, <2>1, <3>0, <3>2
      <4> QED BY <1>1, <1>4, <4>1
    <3> QED BY <3>1, <3>2
  <2>2. unresolved' = {calls'[i].name : i \in DOMAIN calls'}
    BY <1>1, <1>3, <1>5 DEF Stack
  <2>3. \A i, j \in DOMAIN calls' : calls'[i].name = calls'[j].name => i = j
    BY <1>1, <1>3 DEF Stack
  <2>4. \A i \in DOMAIN calls' : calls'[i].name \notin ToSet(resolved')
    BY <1>1, <1>3, <1>5 DEF Stack
  <2>5. \A i \in DOMAIN calls' : i < Len(calls') => i + 1 \in DOMAIN calls
    BY <1>2, <1>3
  <2>6. \A i \in DOMAIN calls' : \A k \in 1..(calls'[i].next - 1) :
          /\ k \in DOMAIN modules'[calls'[i].name]
          /\ \/ modules'[calls'[i].name][k] \in ToSet(resolved')
             \/ i < Len(calls') /\ modules'[calls'[i].name][k] = calls'[i + 1].name
    BY <1>3, <1>5, <2>1, <2>5
  <2> QED BY <2>2, <2>3, <2>4, <2>6 DEF Stack
<1>7. Reach'
  <2>1. calls # <<>> /\ calls' # <<>> /\ 1 \in DOMAIN calls
    BY <1>1, <1>3
  <2>2. calls'[1].name = root
    BY <1>1, <1>3, <2>1 DEF Reach
  <2> QED BY <1>1, <1>3, <1>5, <2>1, <2>2 DEF Reach
<1>8. Search'
  BY <1>1, <1>5, <1>6, <1>7 DEF Search, Known
<1>9. unresolved \subseteq Known
  <2>1. unresolved = {calls[i].name : i \in DOMAIN calls}
    BY <1>1 DEF Stack
  <2> QED BY <1>2, <2>1
<1> QED BY <1>2, <1>3, <1>5, <1>8, <1>9, SearchOnly

LEMMA CallsOfDescend ==
  ASSUME IInv, Descend
  PROVE  LET n == Len(calls)
         IN /\ calls' \in Seq(CallType) /\ Len(calls') = n + 1 /\ DOMAIN calls' = 1..(n + 1)
            /\ calls'[n + 1].name = Dep /\ calls'[n + 1].next = 1
            /\ \A i \in 1..n : /\ calls'[i].name = calls[i].name
                              /\ calls'[i].next = IF i = n THEN calls[i].next + 1 ELSE calls[i].next
<1> DEFINE n == Len(calls)
<1>1. /\ calls \in Seq(CallType) /\ Known = DOMAIN modules
      /\ DOMAIN calls = 1..n /\ n \in Nat
  BY Typed DEF IInv
<1>2. /\ Advanced \in Seq(CallType) /\ Len(Advanced) = n /\ DOMAIN Advanced = DOMAIN calls
      /\ \A i \in DOMAIN calls :
           /\ Advanced[i].name = calls[i].name
           /\ Advanced[i].next = IF i = n THEN calls[i].next + 1 ELSE calls[i].next
  BY <1>1, Advancing DEF Descend, Looping
<1>3. Dep \in Known
  BY LoopingAt DEF Descend
<1>4. calls' = Append(Advanced, Call(Dep))
  BY <1>3 DEF Descend, Enter
<1>5. Call(Dep) \in CallType /\ Call(Dep).name = Dep /\ Call(Dep).next = 1
  BY <1>3 DEF Call, CallType
<1>6. /\ calls' \in Seq(CallType) /\ Len(calls') = n + 1 /\ DOMAIN calls' = 1..(n + 1)
      /\ calls'[n + 1].name = Dep /\ calls'[n + 1].next = 1
  BY <1>1, <1>2, <1>4, <1>5
<1>7. \A i \in 1..n : calls'[i] = Advanced[i]
  BY <1>1, <1>2, <1>4, <1>5
<1> QED BY <1>1, <1>2, <1>6, <1>7

LEMMA DescendInv ==
  ASSUME IInv, Descend
  PROVE  IInv'
<1> DEFINE n == Len(calls)
<1>1. /\ root \in Known /\ Stack /\ Reach /\ Sorted(modules, resolved)
      /\ n \in DOMAIN calls /\ Top = calls[n]
      /\ Top.next \in DOMAIN modules[Top.name] /\ Dep = modules[Top.name][Top.next]
      /\ Dep \in Known /\ Edge(modules, Top.name, Dep)
  BY LoopingAt DEF Descend
<1>2. /\ calls \in Seq(CallType) /\ resolved \in Seq(Known) /\ Known = DOMAIN modules
      /\ DOMAIN calls = 1..n /\ n \in Nat
      /\ \A i \in DOMAIN calls : calls[i].name \in Known /\ calls[i].next \in Nat \ {0}
  BY Typed DEF IInv
<1>3. Dep \notin ToSet(resolved) /\ Dep \notin unresolved
  BY <1>2, ContainsIs DEF Descend
<1>4. /\ Searching /\ UNCHANGED <<modules, phase, root, resolved, keys, resolutions, merging, listed>>
      /\ unresolved' = unresolved \cup {Dep}
  BY <1>1 DEF Descend, Looping, Enter
<1>5. /\ calls' \in Seq(CallType) /\ Len(calls') = n + 1 /\ DOMAIN calls' = 1..(n + 1)
      /\ calls'[n + 1].name = Dep /\ calls'[n + 1].next = 1
      /\ \A i \in 1..n : /\ calls'[i].name = calls[i].name
                        /\ calls'[i].next = IF i = n THEN calls[i].next + 1 ELSE calls[i].next
  BY CallsOfDescend
<1>6. \A i \in 1..n : calls[i].name # Dep
  BY <1>1, <1>2, <1>3 DEF Stack
<1>7. \A i \in 1..(n + 1) : i \in 1..n \/ i = n + 1
  BY <1>2
<1> HIDE DEF n
<1>8. Stack'
  <2>1. unresolved' = {calls'[i].name : i \in DOMAIN calls'}
    <3>1. unresolved = {calls[i].name : i \in 1..n}
      BY <1>1, <1>2 DEF Stack
    <3>2. n + 1 \in 1..(n + 1) /\ \A i \in 1..n : i \in 1..(n + 1)
      BY <1>2
    <3> QED BY <1>4, <1>5, <1>7, <3>1, <3>2
  <2>2. \A i, j \in DOMAIN calls' : calls'[i].name = calls'[j].name => i = j
    <3>1. \A i, j \in 1..n : calls[i].name = calls[j].name => i = j
      BY <1>1, <1>2 DEF Stack
    <3>2. SUFFICES ASSUME NEW i \in 1..(n + 1), NEW j \in 1..(n + 1), calls'[i].name = calls'[j].name
                   PROVE  i = j
      BY <1>5
    <3>3. CASE i \in 1..n /\ j \in 1..n
      BY <1>5, <3>1, <3>2, <3>3, Zenon
    <3>4. CASE i = n + 1 /\ j \in 1..n
      BY <1>5, <1>6, <3>2, <3>4, Zenon
    <3>5. CASE i \in 1..n /\ j = n + 1
      BY <1>5, <1>6, <3>2, <3>5, Zenon
    <3> QED BY <1>7, <3>3, <3>4, <3>5
  <2>3. \A i \in DOMAIN calls' : calls'[i].name \notin ToSet(resolved')
    BY <1>1, <1>2, <1>3, <1>4, <1>5, <1>7 DEF Stack
  <2>4. ASSUME NEW i \in 1..(n + 1), NEW k \in 1..(calls'[i].next - 1)
        PROVE  /\ k \in DOMAIN modules[calls'[i].name]
               /\ \/ modules[calls'[i].name][k] \in ToSet(resolved)
                  \/ i < n + 1 /\ modules[calls'[i].name][k] = calls'[i + 1].name
    <3>1. i \in 1..n
      BY <1>5, <1>7, <2>4
    <3>2. calls[i].next \in Nat /\ k \in Nat /\ calls'[i].name = calls[i].name /\ i < n + 1
      <4>1. calls[i].next \in Nat
        BY <1>2, <3>1
      <4>2. k \in Nat
        OBVIOUS
      <4>3. calls'[i].name = calls[i].name
        BY <1>5, <3>1, Zenon
      <4>4. i < n + 1
        BY <1>2, <3>1
      <4> QED BY <4>1, <4>2, <4>3, <4>4
    <3>3. CASE k \in 1..(calls[i].next - 1)
      <4>1. /\ k \in DOMAIN modules[calls[i].name]
            /\ \/ modules[calls[i].name][k] \in ToSet(resolved)
               \/ i < Len(calls) /\ modules[calls[i].name][k] = calls[i + 1].name
        BY <1>1, <1>2, <3>1, <3>3 DEF Stack
      <4>2. i < Len(calls) => i + 1 \in 1..n
        BY <1>2, <3>1 DEF n
      <4> QED BY <1>5, <3>2, <4>1, <4>2
    <3>4. CASE k \notin 1..(calls[i].next - 1)
      <4>0. calls'[i].next = IF i = n THEN calls[i].next + 1 ELSE calls[i].next
        BY <1>5, <3>1, Zenon
      <4>1. i = n /\ k = calls[i].next
        BY <2>4, <3>2, <3>4, <4>0
      <4> QED BY <1>1, <1>5, <3>2, <4>1
    <3> QED BY <3>3, <3>4
  <2> QED BY <1>4, <1>5, <2>1, <2>2, <2>3, <2>4 DEF Stack
<1>9. Reach'
  <2>1. calls[n].name \in NeededBy(modules, root) \cup {root}
    BY <1>1 DEF Reach
  <2>2. Dep \in NeededBy(modules, root) \cup {root}
    BY <1>1, <1>2, <2>1, NeededFirst, NeededNext
  <2>3. ASSUME NEW i \in 1..n PROVE Dep \in NeededBy(modules, calls[i].name)
    <3>1. CASE i = n
      BY <1>1, <1>2, <3>1, NeededFirst
    <3>2. CASE i # n
      <4>1. calls[n].name \in NeededBy(modules, calls[i].name)
        BY <1>1, <1>2, <3>2 DEF Reach
      <4> QED BY <1>1, <1>2, <4>1, NeededNext
    <3> QED BY <3>1, <3>2
  <2>4. \A i, j \in DOMAIN calls' : i < j => calls'[j].name \in NeededBy(modules, calls'[i].name)
    <3>1. SUFFICES ASSUME NEW i \in 1..(n + 1), NEW j \in 1..(n + 1), i < j
                   PROVE  calls'[j].name \in NeededBy(modules, calls'[i].name)
      BY <1>5
    <3>2. i \in 1..n
      BY <1>2, <3>1
    <3>3. CASE j = n + 1
      BY <1>5, <2>3, <3>2, <3>3
    <3>4. CASE j \in 1..n
      BY <1>1, <1>2, <1>5, <3>1, <3>2, <3>4 DEF Reach
    <3> QED BY <1>7, <3>3, <3>4
  <2>5. \A i \in DOMAIN calls' : calls'[i].name \in NeededBy(modules, root) \cup {root}
    BY <1>1, <1>2, <1>5, <1>7, <2>2 DEF Reach
  <2>6. calls' # <<>> /\ calls # <<>> /\ 1 \in 1..n
    BY <1>1, <1>2, <1>5
  <2>7. calls'[1].name = root
    BY <1>1, <1>4, <1>5, <2>6 DEF Reach
  <2> QED BY <1>1, <1>4, <2>4, <2>5, <2>6, <2>7 DEF Reach
<1>10. Search'
  BY <1>1, <1>4, <1>8, <1>9 DEF Search, Known
<1>11. unresolved' \subseteq Known
  BY <1>1, <1>2, <1>4 DEF Stack
<1> QED BY <1>2, <1>4, <1>5, <1>10, <1>11, SearchOnly

(* Nothing of the search is left when it ends with an exception. *)
LEMMA ThrowInv ==
  ASSUME IInv, Searching, phase' = "threw",
         UNCHANGED <<modules, root, calls, resolved, unresolved, keys, resolutions, merging, listed>>,
         root \notin Known \/ \E n \in NeededBy(modules, root) \cup {root} : n \in NeededBy(modules, n)
  PROVE  IInv'
<1>1. TypeOK'
  BY DEF IInv, TypeOK, Known
<1>2. Rests' /\ Search' /\ Collected' /\ AllListed'
  BY DEF Rests, Search, Searching, Collected, AllListed
<1>3. Thrown'
  BY DEF Thrown, Known
<1> QED BY <1>1, <1>2, <1>3 DEF IInv

(* A module whose search is under way is needed by the innermost: a cycle. *)
LEMMA CircularInv ==
  ASSUME IInv, Circular
  PROVE  IInv'
<1> DEFINE n == Len(calls)
<1>1. /\ Stack /\ Reach /\ n \in DOMAIN calls /\ Top = calls[n]
      /\ Dep \in Known /\ Edge(modules, Top.name, Dep)
  BY LoopingAt DEF Circular
<1>2. /\ Known = DOMAIN modules /\ DOMAIN calls = 1..n /\ n \in Nat
      /\ \A i \in DOMAIN calls : calls[i].name \in Known
  BY Typed DEF IInv
<1>3. PICK i \in DOMAIN calls : Dep = calls[i].name
  BY <1>1 DEF Circular, Stack
<1>4. Dep \in NeededBy(modules, Dep)
  <2>1. CASE i = n
    BY <1>1, <1>2, <1>3, <2>1, NeededFirst
  <2>2. CASE i # n
    <3>1. calls[n].name \in NeededBy(modules, Dep)
      BY <1>1, <1>2, <1>3, <2>2 DEF Reach
    <3> QED BY <1>1, <1>2, <3>1, NeededNext
  <2> QED BY <2>1, <2>2
<1>5. Dep \in NeededBy(modules, root) \cup {root}
  BY <1>1, <1>3 DEF Reach
<1> QED BY <1>4, <1>5, ThrowInv DEF Circular, Looping

LEMMA CallsOfLeave ==
  ASSUME IInv, Leave
  PROVE  LET n == Len(calls)
         IN /\ calls' \in Seq(CallType) /\ Len(calls') = n - 1 /\ DOMAIN calls' = 1..(n - 1)
            /\ \A i \in 1..(n - 1) : calls'[i] = calls[i]
<1> DEFINE n == Len(calls)
<1>1. calls \in Seq(CallType) /\ DOMAIN calls = 1..n /\ n \in Nat
  BY Typed DEF IInv
<1>2. n \in DOMAIN calls /\ n \in Nat \ {0}
  BY <1>1, TopIs DEF Leave
<1>3. calls' \in Seq(CallType) /\ Len(calls') = n - 1 /\ DOMAIN calls' = 1..(n - 1)
  BY <1>1, <1>2 DEF Leave, Front
<1>4. \A i \in 1..(n - 1) : calls'[i] = calls[i]
  BY <1>1, <1>2 DEF Leave, Front
<1> QED BY <1>3, <1>4

LEMMA LeaveInv ==
  ASSUME IInv, Leave
  PROVE  IInv'
<1> DEFINE n == Len(calls)
<1>1. /\ calls \in Seq(CallType) /\ resolved \in Seq(Known) /\ Known = DOMAIN modules
      /\ DOMAIN calls = 1..n /\ n \in Nat /\ IsGraph(modules)
      /\ \A i \in DOMAIN calls : calls[i].name \in Known /\ calls[i].next \in Nat \ {0}
  BY Typed DEF IInv
<1>2. n \in DOMAIN calls /\ Top = calls[n] /\ n \in Nat \ {0}
  BY <1>1, TopIs DEF Leave, Top
<1>3. root \in Known /\ Stack /\ Reach /\ Sorted(modules, resolved)
  BY DEF IInv, Search, Leave
<1>4. Top.name \in Known /\ modules[Top.name] \in Seq(Known) /\ Top.next \in Nat \ {0}
  BY <1>1, <1>2 DEF IsGraph, Known
<1>5. Len(modules[Top.name]) < Top.next
  BY <1>4 DEF Leave, Looping
<1>6. ASSUME NEW b, Edge(modules, Top.name, b) PROVE b \in ToSet(resolved)
  <2>1. PICK k \in DOMAIN modules[Top.name] : b = modules[Top.name][k]
    BY <1>6 DEF Edge, ToSet
  <2>2. k \in 1..(Top.next - 1)
    BY <1>4, <1>5, <2>1
  <2> QED BY <1>1, <1>2, <1>3, <2>1, <2>2 DEF Stack
<1>7. Top.name \notin ToSet(resolved)
  BY <1>2, <1>3 DEF Stack
<1>8. /\ Searching /\ UNCHANGED <<modules, phase, root, keys, resolutions, merging, listed>>
      /\ resolved' = Append(resolved, Top.name) /\ unresolved' = unresolved \ {Top.name}
  BY DEF Leave
<1>9. Sorted(modules, resolved') /\ ToSet(resolved') = ToSet(resolved) \cup {Top.name}
  BY <1>1, <1>3, <1>4, <1>6, <1>7, <1>8, SortedAppend
<1>10. resolved' \in Seq(Known)
  BY <1>1, <1>4, <1>8
<1>11. calls' \in Seq(CallType) /\ Len(calls') = n - 1 /\ DOMAIN calls' = 1..(n - 1)
  BY CallsOfLeave
<1>12. \A i \in 1..(n - 1) : calls'[i] = calls[i]
  BY CallsOfLeave
<1> HIDE DEF n
<1>13. \A i \in 1..(n - 1) : i \in 1..n /\ i # n
  BY <1>1
<1>14. Stack'
  <2>1. \A i \in DOMAIN calls : calls[i].name = Top.name => i = n
    BY <1>2, <1>3 DEF Stack
  <2>2. unresolved' = {calls'[i].name : i \in DOMAIN calls'}
    <3>1. unresolved = {calls[i].name : i \in 1..n}
      BY <1>1, <1>3 DEF Stack
    <3>2. \A i \in 1..n : i # n => i \in 1..(n - 1)
      BY <1>1
    <3>3. \A i \in 1..(n - 1) : calls[i].name # Top.name
      BY <1>1, <1>13, <2>1
    <3>4. {calls'[i].name : i \in 1..(n - 1)} = {calls[i].name : i \in 1..(n - 1)}
      BY <1>12
    <3>5. unresolved \ {Top.name} = {calls[i].name : i \in 1..(n - 1)}
      <4>1. unresolved \ {Top.name} \subseteq {calls[i].name : i \in 1..(n - 1)}
        BY <1>2, <3>1, <3>2
      <4>2. {calls[i].name : i \in 1..(n - 1)} \subseteq unresolved \ {Top.name}
        BY <1>13, <3>1, <3>3
      <4> QED BY <4>1, <4>2
    <3> QED BY <1>8, <1>11, <3>4, <3>5
  <2>3. \A i, j \in DOMAIN calls' : calls'[i].name = calls'[j].name => i = j
    BY <1>1, <1>3, <1>11, <1>12, <1>13 DEF Stack
  <2>4. \A i \in DOMAIN calls' : calls'[i].name \notin ToSet(resolved')
    BY <1>1, <1>3, <1>9, <1>11, <1>12, <1>13, <2>1 DEF Stack
  <2>5. ASSUME NEW i \in 1..(n - 1), NEW k \in 1..(calls'[i].next - 1)
        PROVE  /\ k \in DOMAIN modules[calls'[i].name]
               /\ \/ modules[calls'[i].name][k] \in ToSet(resolved')
                  \/ i < n - 1 /\ modules[calls'[i].name][k] = calls'[i + 1].name
    <3>1. calls'[i] = calls[i] /\ i \in DOMAIN calls /\ k \in 1..(calls[i].next - 1)
      BY <1>1, <1>12, <1>13
    <3>2. /\ k \in DOMAIN modules[calls[i].name]
          /\ \/ modules[calls[i].name][k] \in ToSet(resolved)
             \/ modules[calls[i].name][k] = calls[i + 1].name
      BY <1>3, <3>1 DEF Stack
    <3>3. i + 1 = n \/ (i < n - 1 /\ i + 1 \in 1..(n - 1))
      BY <1>1
    <3> QED BY <1>2, <1>9, <1>12, <3>1, <3>2, <3>3
  <2> QED BY <1>8, <1>11, <2>2, <2>3, <2>4, <2>5 DEF Stack
<1>15. Reach'
  <2>1. \A i, j \in DOMAIN calls' : i < j => calls'[j].name \in NeededBy(modules, calls'[i].name)
    BY <1>1, <1>3, <1>11, <1>12, <1>13 DEF Reach
  <2>2. \A i \in DOMAIN calls' : calls'[i].name \in NeededBy(modules, root) \cup {root}
    BY <1>1, <1>3, <1>11, <1>12, <1>13 DEF Reach
  <2>3. ToSet(resolved') \subseteq NeededBy(modules, root) \cup {root}
    BY <1>2, <1>3, <1>9 DEF Reach
  <2>4. calls[1].name = root /\ 1 \in DOMAIN calls
    BY <1>1, <1>2, <1>3 DEF Reach
  <2>5. CASE n = 1
    <3>1. calls' = <<>>
      BY <1>11, <2>5
    <3> QED BY <1>2, <1>8, <1>9, <2>1, <2>2, <2>3, <2>4, <2>5, <3>1 DEF Reach
  <2>6. CASE n # 1
    <3>1. 1 \in 1..(n - 1) /\ calls' # <<>>
      BY <1>1, <1>2, <1>11, <2>6
    <3> QED BY <1>8, <1>12, <2>1, <2>2, <2>3, <2>4, <3>1 DEF Reach
  <2> QED BY <2>5, <2>6
<1>16. Search'
  BY <1>3, <1>8, <1>9, <1>14, <1>15 DEF Search, Known
<1>17. unresolved' \subseteq Known
  BY <1>1, <1>3, <1>8 DEF Stack
<1> QED BY <1>8, <1>10, <1>11, <1>16, <1>17, SearchOnly

(* A search that begins. *)
LEMMA BeginSearch ==
  ASSUME IInv, NEW name \in Names, Begin(name), UNCHANGED modules,
         phase' = "resolve" \/ (phase' = "each" /\ name \in Known)
  PROVE  /\ calls' \in Seq(CallType) /\ resolved' = <<>> /\ unresolved' \subseteq Names
         /\ root' = name /\ Search'
<1>1. /\ resolved' = <<>> /\ root' = name /\ unresolved' = {name}
      /\ calls' = IF name \in Known THEN Append(<<>>, Call(name)) ELSE <<>>
  BY DEF Begin, Enter
<1>2. unresolved' \subseteq Names /\ Known' = Known /\ Known = DOMAIN modules
  BY <1>1 DEF Known
<1>3. CASE name \in Known
  <2>1. Call(name) \in CallType /\ Call(name).name = name /\ Call(name).next = 1
    BY <1>3 DEF Call, CallType
  <2>2. /\ calls' \in Seq(CallType) /\ DOMAIN calls' = {1} /\ calls' # <<>>
        /\ calls'[1].name = name /\ calls'[1].next = 1
    BY <1>1, <1>3, <2>1
  <2>3. ToSet(resolved') = {}
    BY <1>1 DEF ToSet
  <2>4. Stack'
    <3>1. unresolved' = {calls'[i].name : i \in DOMAIN calls'}
      BY <1>1, <2>2
    <3>2. \A i \in DOMAIN calls' : 1..(calls'[i].next - 1) = {}
      BY <2>2
    <3> QED BY <2>2, <2>3, <3>1, <3>2 DEF Stack
  <2>5. Reach'
    BY <1>1, <2>2, <2>3 DEF Reach
  <2>6. Sorted(modules', resolved')
    BY <1>1 DEF Sorted, IsInjective
  <2> QED BY <1>1, <1>2, <1>3, <2>2, <2>4, <2>5, <2>6 DEF Search
<1>4. CASE name \notin Known
  <2>1. calls' = <<>> /\ phase' = "resolve"
    BY <1>1, <1>4
  <2> QED BY <1>1, <1>2, <1>4, <2>1 DEF Search
<1> QED BY <1>3, <1>4

LEMMA ResolveInv ==
  ASSUME IInv, NEW name \in Names, Resolve(name)
  PROVE  IInv'
<1>1. phase' = "resolve" /\ Begin(name) /\ UNCHANGED <<modules, keys, resolutions, merging, listed>>
  BY DEF Resolve
<1>2. calls' \in Seq(CallType) /\ resolved' = <<>> /\ unresolved' \subseteq Names /\ root' = name /\ Search'
  BY <1>1, BeginSearch
<1>3. TypeOK'
  BY <1>1, <1>2 DEF IInv, TypeOK, Known, CallType
<1>4. Rests' /\ Thrown' /\ Collected' /\ AllListed'
  BY <1>1 DEF Rests, Thrown, Collected, AllListed
<1> QED BY <1>2, <1>3, <1>4 DEF IInv

LEMMA AllInv ==
  ASSUME IInv, All
  PROVE  IInv'
<1>1. /\ phase = "idle" /\ phase' = "all" /\ keys' = Known
      /\ UNCHANGED <<modules, root, calls, resolved, unresolved, resolutions, merging, listed>>
  BY DEF All
<1>2. resolutions = {} /\ merging = <<>> /\ listed = <<>>
  BY <1>1 DEF IInv, Rests
<1>3. TypeOK'
  BY <1>1 DEF IInv, TypeOK, Known
<1>4. Rests' /\ Search' /\ Thrown' /\ AllListed'
  BY <1>1 DEF Rests, Search, Searching, Thrown, AllListed
<1>5. Collected'
  <2>1. Sorted(modules', listed') /\ DOMAIN merging' = {} /\ resolutions' = {}
    BY <1>1, <1>2 DEF Sorted, IsInjective
  <2> QED BY <1>1, <2>1 DEF Collected, Known
<1> QED BY <1>3, <1>4, <1>5 DEF IInv

LEMMA ResolveKeyInv ==
  ASSUME IInv, NEW key \in keys, ResolveKey(key)
  PROVE  IInv'
<1>1. /\ phase = "all" /\ phase' = "each" /\ keys' = keys \ {key} /\ Begin(key)
      /\ UNCHANGED <<modules, resolutions, merging, listed>>
  BY DEF ResolveKey
<1>2. key \in Names /\ key \in Known
  BY DEF IInv, TypeOK
<1>3. calls' \in Seq(CallType) /\ resolved' = <<>> /\ unresolved' \subseteq Names /\ root' = key /\ Search'
  BY <1>1, <1>2, BeginSearch
<1>4. TypeOK'
  BY <1>1, <1>2, <1>3 DEF IInv, TypeOK, Known, CallType
<1>5. Rests' /\ Thrown' /\ AllListed'
  BY <1>1 DEF Rests, Thrown, AllListed
<1>6. Collected'
  BY <1>1, <1>3 DEF IInv, Collected, Known
<1> QED BY <1>3, <1>4, <1>5, <1>6 DEF IInv

LEMMA ReturnInv ==
  ASSUME IInv, Return
  PROVE  IInv'
<1>1. /\ Searching /\ calls = <<>>
      /\ UNCHANGED <<modules, root, calls, resolved, unresolved, keys, merging, listed>>
  BY DEF Return
<1>2. \/ root \in Known /\ unresolved = {} /\ root \in ToSet(resolved) /\ Sorted(modules, resolved)
      \/ root \notin Known /\ unresolved # {}
  BY <1>1 DEF IInv, Search, Stack, Reach
<1>3. CASE unresolved # {}
  <2>1. root \notin Known /\ phase' = "threw" /\ UNCHANGED resolutions
    BY <1>2, <1>3 DEF Return
  <2> QED BY <1>1, <2>1, ThrowInv
<1>4. CASE unresolved = {} /\ phase = "resolve"
  <2>1. phase' = "returned" /\ UNCHANGED resolutions
    BY <1>4 DEF Return
  <2>2. TypeOK'
    BY <1>1, <2>1 DEF IInv, TypeOK, Known
  <2>3. Rests' /\ Search' /\ Thrown' /\ Collected' /\ AllListed'
    BY <2>1 DEF Rests, Search, Searching, Thrown, Collected, AllListed
  <2> QED BY <2>2, <2>3 DEF IInv
<1>5. CASE unresolved = {} /\ phase = "each"
  <2>1. phase' = "all" /\ resolutions' = resolutions \cup {resolved}
    BY <1>5 DEF Return
  <2>2. TypeOK'
    BY <1>1, <2>1 DEF IInv, TypeOK, Known
  <2>3. Rests' /\ Search' /\ Thrown' /\ AllListed'
    BY <2>1 DEF Rests, Search, Searching, Thrown, AllListed
  <2>4. Collected'
    BY <1>1, <1>2, <1>5, <2>1 DEF IInv, Collected, Known
  <2> QED BY <2>2, <2>3, <2>4 DEF IInv
<1> QED BY <1>1, <1>3, <1>4, <1>5 DEF Searching

LEMMA MergeInv ==
  ASSUME IInv, NEW resolution \in resolutions, Merge(resolution)
  PROVE  IInv'
<1>1. /\ phase = "all" /\ merging = <<>> /\ keys = {}
      /\ merging' = resolution /\ resolutions' = resolutions \ {resolution}
      /\ UNCHANGED <<modules, phase, root, calls, resolved, unresolved, keys, listed>>
  BY DEF Merge
<1>2. TypeOK'
  BY <1>1 DEF IInv, TypeOK, Known
<1>3. Rests' /\ Search' /\ Thrown' /\ AllListed'
  BY <1>1 DEF Rests, Search, Searching, Thrown, AllListed
<1>4. Collected'
  <2>1. /\ \A r \in resolutions : Sorted(modules, r)
        /\ Sorted(modules, listed)
        /\ \A n \in Known : n \in ToSet(listed) \cup ToSet(merging) \/ \E r \in resolutions : n \in ToSet(r)
    BY <1>1 DEF IInv, Collected
  <2>2. ToSet(merging) = {}
    BY <1>1 DEF ToSet
  <2>3. \A n \in Known : \/ n \in ToSet(listed) \cup ToSet(resolution)
                         \/ \E r \in resolutions \ {resolution} : n \in ToSet(r)
    BY <2>1, <2>2
  <2>4. \A i \in DOMAIN resolution : \A b : Edge(modules, resolution[i], b) =>
          \E j \in DOMAIN resolution : j < i /\ resolution[j] = b
    BY <2>1 DEF Sorted
  <2> QED BY <1>1, <2>1, <2>3, <2>4 DEF Collected, Known
<1> QED BY <1>2, <1>3, <1>4 DEF IInv

LEMMA TailIs ==
  ASSUME NEW S, NEW s \in Seq(S), s # <<>>
  PROVE  /\ Tail(s) \in Seq(S) /\ Head(s) = s[1] /\ Head(s) \in S
         /\ DOMAIN s = 1..Len(s) /\ 1 \in DOMAIN s /\ Len(s) \in Nat
         /\ DOMAIN Tail(s) = 1..(Len(s) - 1)
         /\ \A i \in 1..(Len(s) - 1) : Tail(s)[i] = s[i + 1] /\ i + 1 \in DOMAIN s
         /\ ToSet(s) = {Head(s)} \cup ToSet(Tail(s))
<1>1. /\ Tail(s) \in Seq(S) /\ Head(s) = s[1] /\ Head(s) \in S
      /\ DOMAIN s = 1..Len(s) /\ 1 \in DOMAIN s /\ Len(s) \in Nat
      /\ DOMAIN Tail(s) = 1..(Len(s) - 1)
      /\ \A i \in 1..(Len(s) - 1) : Tail(s)[i] = s[i + 1] /\ i + 1 \in DOMAIN s
  OBVIOUS
<1>2. \A i \in DOMAIN s : i = 1 \/ (i - 1 \in 1..(Len(s) - 1) /\ (i - 1) + 1 = i)
  BY <1>1
<1>3. \A i \in DOMAIN s : s[i] \in {Head(s)} \cup ToSet(Tail(s))
  BY <1>1, <1>2 DEF ToSet
<1>4. \A i \in DOMAIN Tail(s) : Tail(s)[i] \in ToSet(s)
  BY <1>1 DEF ToSet
<1> QED BY <1>1, <1>3, <1>4 DEF ToSet

LEMMA MergeOneInv ==
  ASSUME IInv, MergeOne
  PROVE  IInv'
<1> DEFINE h == Head(merging)
<1>1. /\ phase = "all" /\ merging # <<>> /\ merging' = Tail(merging)
      /\ listed' = IF Contains(listed, h) THEN listed ELSE Append(listed, h)
      /\ UNCHANGED <<modules, phase, root, calls, resolved, unresolved, keys, resolutions>>
  BY DEF MergeOne
<1>2. merging \in Seq(Known) /\ listed \in Seq(Known) /\ Known = DOMAIN modules
  BY DEF IInv, TypeOK, Known
<1>3. /\ Tail(merging) \in Seq(Known) /\ h = merging[1] /\ h \in Known
      /\ DOMAIN merging = 1..Len(merging) /\ 1 \in DOMAIN merging /\ Len(merging) \in Nat
      /\ DOMAIN Tail(merging) = 1..(Len(merging) - 1)
      /\ \A i \in 1..(Len(merging) - 1) : Tail(merging)[i] = merging[i + 1] /\ i + 1 \in DOMAIN merging
      /\ ToSet(merging) = {h} \cup ToSet(Tail(merging))
  BY <1>1, <1>2, TailIs
<1>4. /\ \A r \in resolutions : Sorted(modules, r)
      /\ Sorted(modules, listed)
      /\ \A i \in DOMAIN merging : \A b : Edge(modules, merging[i], b) =>
           b \in ToSet(listed) \/ \E j \in DOMAIN merging : j < i /\ merging[j] = b
      /\ \A n \in Known : n \in keys \/ n \in ToSet(listed) \cup ToSet(merging) \/ \E r \in resolutions : n \in ToSet(r)
  BY <1>1 DEF IInv, Collected
<1> HIDE DEF h
<1>5. \A b : Edge(modules, h, b) => b \in ToSet(listed)
  BY <1>3, <1>4
<1>6. Contains(listed, h) <=> h \in ToSet(listed)
  BY <1>2, ContainsIs
<1>7. Sorted(modules, listed') /\ ToSet(listed') = ToSet(listed) \cup {h} /\ listed' \in Seq(Known)
  <2>1. CASE h \in ToSet(listed)
    BY <1>1, <1>2, <1>4, <1>6, <2>1
  <2>2. CASE h \notin ToSet(listed)
    <3>1. listed' = Append(listed, h)
      BY <1>1, <1>6, <2>2
    <3>2. Sorted(modules, Append(listed, h)) /\ ToSet(Append(listed, h)) = ToSet(listed) \cup {h}
      BY <1>2, <1>3, <1>4, <1>5, <2>2, SortedAppend
    <3> QED BY <1>2, <1>3, <3>1, <3>2
  <2> QED BY <2>1, <2>2
<1>8. ASSUME NEW i \in DOMAIN Tail(merging), NEW b, Edge(modules, Tail(merging)[i], b)
      PROVE  b \in ToSet(listed') \/ \E j \in DOMAIN Tail(merging) : j < i /\ Tail(merging)[j] = b
  <2>1. Edge(modules, merging[i + 1], b) /\ i + 1 \in DOMAIN merging /\ i \in Nat
    BY <1>3, <1>8
  <2>2. CASE b \in ToSet(listed)
    BY <1>7, <2>2
  <2>3. CASE \E j \in DOMAIN merging : j < i + 1 /\ merging[j] = b
    <3>1. PICK j \in DOMAIN merging : j < i + 1 /\ merging[j] = b
      BY <2>3
    <3>2. CASE j = 1
      BY <1>3, <1>7, <3>1, <3>2
    <3>3. CASE j # 1
      <4>1. j - 1 \in 1..(Len(merging) - 1) /\ j - 1 < i /\ (j - 1) + 1 = j
        BY <1>3, <2>1, <3>1, <3>3
      <4> QED BY <1>3, <3>1, <4>1
    <3> QED BY <3>2, <3>3
  <2> QED BY <1>4, <2>1, <2>2, <2>3
<1>9. TypeOK'
  BY <1>1, <1>3, <1>7 DEF IInv, TypeOK, Known
<1>10. Rests' /\ Search' /\ Thrown' /\ AllListed'
  BY <1>1 DEF Rests, Search, Searching, Thrown, AllListed
<1>11. Collected'
  <2>1. \A n \in Known : n \in keys \/ n \in ToSet(listed') \cup ToSet(merging') \/ \E r \in resolutions : n \in ToSet(r)
    BY <1>1, <1>3, <1>4, <1>7
  <2>2. \A i \in DOMAIN merging' : \A b : Edge(modules, merging'[i], b) =>
           b \in ToSet(listed') \/ \E j \in DOMAIN merging' : j < i /\ merging'[j] = b
    BY <1>1, <1>8
  <2> QED BY <1>1, <1>4, <1>7, <2>1, <2>2 DEF Collected, Known
<1> QED BY <1>9, <1>10, <1>11 DEF IInv

LEMMA ListedInv ==
  ASSUME IInv, Listed
  PROVE  IInv'
<1>1. /\ phase = "all" /\ keys = {} /\ resolutions = {} /\ merging = <<>> /\ phase' = "listed"
      /\ UNCHANGED <<modules, root, calls, resolved, unresolved, keys, resolutions, merging, listed>>
  BY DEF Listed
<1>2. ToSet(merging) = {}
  BY <1>1 DEF ToSet
<1>3. Sorted(modules, listed) /\ Known \subseteq ToSet(listed)
  BY <1>1, <1>2 DEF IInv, Collected
<1>4. ToSet(listed) \subseteq Known
  BY DEF IInv, TypeOK, ToSet
<1>5. AllListed'
  BY <1>1, <1>3, <1>4 DEF AllListed, Known
<1>6. TypeOK'
  BY <1>1 DEF IInv, TypeOK, Known
<1>7. Rests' /\ Search' /\ Thrown' /\ Collected'
  BY <1>1 DEF Rests, Search, Searching, Thrown, Collected
<1> QED BY <1>5, <1>6, <1>7 DEF IInv

LEMMA DoneInv ==
  ASSUME IInv, Done
  PROVE  IInv'
<1>1. TypeOK'
  BY DEF IInv, TypeOK, Known, Done
<1>2. Rests' /\ Search' /\ Thrown' /\ Collected' /\ AllListed'
  BY DEF Done, Rests, Search, Searching, Thrown, Collected, AllListed
<1> QED BY <1>1, <1>2 DEF IInv

(***************************************************************************)
(* add: what the loop of dependsOn makes of the dependencies.              *)
(***************************************************************************)
Distinct(K) == {s \in Seq(K) : IsInjective(s)}

LEMMA DependingIs ==
  ASSUME NEW K, NEW deps \in Seq(K), NEW name, Old(name) \in Distinct(K)
  PROVE  Depending(name, deps)[Len(deps)] \in Distinct(K)
<1> DEFINE k == Len(deps)
           S == Distinct(K)
           Round(s, i) == IF Contains(s, deps[i]) THEN s ELSE Append(s, deps[i])
           step == [p \in (1..k) \X S |-> Round(p[2], p[1])]
           Run(f) == [i \in 0..k |-> IF i = 0 THEN Old(name) ELSE Round(f[i - 1], i)]
           r == Depending(name, deps)
           T == {i \in 0..k : r[i] \in S}
<1>1. ASSUME NEW i \in 1..k, NEW s \in S PROVE Round(s, i) \in S
  <2>1. s \in Seq(K) /\ IsInjective(s) /\ deps[i] \in K
    BY <1>1 DEF Distinct
  <2>2. CASE Contains(s, deps[i])
    BY <1>1, <2>2
  <2>3. CASE ~Contains(s, deps[i])
    <3>1. \A j \in DOMAIN s : s[j] # deps[i]
      BY <2>1, <2>3, ContainsIs DEF ToSet
    <3> DEFINE longer == Append(s, deps[i])
    <3>2. /\ longer \in Seq(K) /\ DOMAIN longer = 1..(Len(s) + 1) /\ DOMAIN s = 1..Len(s) /\ Len(s) \in Nat
          /\ \A j \in 1..(Len(s) + 1) : longer[j] = IF j = Len(s) + 1 THEN deps[i] ELSE s[j]
      BY <2>1
    <3> HIDE DEF longer
    <3>3. IsInjective(longer)
      BY <2>1, <3>1, <3>2 DEF IsInjective
    <3>4. longer \in S
      BY <3>2, <3>3 DEF Distinct
    <3> QED BY <2>3, <3>4 DEF longer
  <2> QED BY <2>2, <2>3
<1>2. k \in Nat
  OBVIOUS
<1>3. r = CHOOSE g : g = Run(g)
  BY DEF Depending
<1> HIDE DEF Round, r, S
<1>4. step \in [(1..k) \X S -> S]
  BY <1>1
<1>5. \A i \in 1..k, s \in S : step[<<i, s>>] = Round(s, i)
  OBVIOUS
<1>6. Old(name) \in S
  BY DEF S
<1> HIDE DEF step
<1>7. PICK f : IsCourse(f, S, k, Old(name), step)
  <2> HIDE DEF k
  <2> QED BY <1>2, <1>4, <1>6, CourseExists, Zenon
<1>8. f = Run(f)
  <2>1. f \in [0..k -> S] /\ f[0] = Old(name) /\ \A i \in 1..k : f[i] = step[<<i, f[i - 1]>>]
    BY <1>7 DEF IsCourse
  <2>2. ASSUME NEW i \in 1..k PROVE f[i] = Round(f[i - 1], i)
    <3>1. f[i - 1] \in S
      BY <1>2, <2>1
    <3> QED BY <1>5, <2>1, <3>1
  <2> QED BY <1>2, <2>1, <2>2
<1> HIDE DEF Run
<1>9. r = Run(r)
  BY <1>3, <1>8
<1>10. r[0] = Old(name) /\ \A i \in 1..k : r[i] = Round(r[i - 1], i)
  BY <1>2, <1>9 DEF Run
<1>11. 0 \in T
  <2>1. r[0] \in S
    BY <1>6, <1>10, Zenon
  <2> QED BY <1>2, <2>1
<1>12. ASSUME NEW i \in 1..k, i - 1 \in T PROVE i \in T
  <2>1. r[i - 1] \in S /\ i \in 0..k
    BY <1>12
  <2>2. r[i] \in S
    BY <1>1, <1>10, <2>1
  <2> QED BY <2>1, <2>2
<1>13. k \in T
  <2> HIDE DEF T
  <2>1. 0..k \subseteq T
    BY <1>2, <1>11, <1>12, EveryRound
  <2> QED BY <1>2, <2>1
<1> QED BY <1>13 DEF r, S

LEMMA AddInv ==
  ASSUME IInv, NEW n \in Room, NEW name \in Names, NEW deps \in [1..n -> Names], Add(name, deps)
  PROVE  IInv'
<1> DEFINE K == Known \cup {name} \cup ToSet(deps)
<1>1. phase = "idle" /\ UNCHANGED <<phase, root, calls, resolved, unresolved, keys, resolutions, merging, listed>>
  BY DEF Add
<1>2. /\ calls = <<>> /\ resolved = <<>> /\ keys = {} /\ resolutions = {}
      /\ merging = <<>> /\ listed = <<>>
  BY <1>1 DEF IInv, Rests
<1>3. deps \in Seq(K)
  <2>1. n \in Nat
    BY DEF Room
  <2>2. \A i \in DOMAIN deps : deps[i] \in ToSet(deps)
    BY DEF ToSet
  <2>3. deps \in [1..n -> K]
    BY <2>2
  <2> QED BY <2>1, <2>3
<1>4. K \subseteq Names
  BY DEF IInv, TypeOK, ToSet
<1>5. ASSUME NEW a PROVE Old(a) \in Distinct(K)
  <2>1. CASE a \in Known
    <3>1. modules[a] \in Seq(Known) /\ IsInjective(modules[a])
      BY <2>1 DEF IInv, TypeOK
    <3>2. modules[a] \in Seq(K)
      <4> HIDE DEF Known
      <4> QED BY <3>1
    <3> QED BY <2>1, <3>1, <3>2 DEF Old, Distinct
  <2>2. CASE a \notin Known
    BY <2>2 DEF Old, Distinct, IsInjective
  <2> QED BY <2>1, <2>2
<1>6. Depending(name, deps)[Len(deps)] \in Distinct(K)
  <2> HIDE DEF K
  <2> QED BY <1>3, <1>5, DependingIs
<1>7. modules' = [a \in K |-> IF a = name THEN Depending(name, deps)[Len(deps)] ELSE Old(a)]
  BY DEF Add
<1> HIDE DEF K
<1>8. Known' = K
  BY <1>7 DEF Known
<1>9. \A a \in K : modules'[a] \in Distinct(K)
  BY <1>5, <1>6, <1>7
<1>10. TypeOK'
  <2>1. \A a \in Known' : modules'[a] \in Seq(Known') /\ IsInjective(modules'[a])
    BY <1>8, <1>9 DEF Distinct
  <2>2. /\ calls' \in Seq([name : Known', next : Nat \ {0}]) /\ resolved' \in Seq(Known')
        /\ keys' \subseteq Known' /\ resolutions' \subseteq Seq(Known')
        /\ merging' \in Seq(Known') /\ listed' \in Seq(Known')
    BY <1>1, <1>2
  <2>3. Known' \subseteq Names
    BY <1>4, <1>8
  <2>4. phase' = phase /\ root' = root /\ unresolved' = unresolved
    BY <1>1
  <2> QED BY <1>1, <2>1, <2>2, <2>3, <2>4 DEF IInv, TypeOK
<1>11. Rests' /\ Search' /\ Thrown' /\ Collected' /\ AllListed'
  BY <1>1, <1>2 DEF Rests, Search, Searching, Thrown, Collected, AllListed
<1> QED BY <1>10, <1>11 DEF IInv

LEMMA InitInv == Init => IInv
<1> SUFFICES ASSUME Init PROVE IInv
  OBVIOUS
<1>1. Known = {} /\ modules = <<>>
  BY DEF Init, Known
<1>2. TypeOK
  BY <1>1 DEF Init, TypeOK
<1>3. Rests /\ Search /\ Thrown /\ Collected /\ AllListed
  BY DEF Init, Rests, Search, Searching, Thrown, Collected, AllListed
<1> QED BY <1>2, <1>3 DEF IInv

LEMMA StepInv == IInv /\ [Next]_vars => IInv'
<1> SUFFICES ASSUME IInv, [Next]_vars PROVE IInv'
  OBVIOUS
<1>1. CASE \E n \in Room, name \in Names : \E deps \in [1..n -> Names] : Add(name, deps)
  BY <1>1, AddInv
<1>2. CASE \E name \in Names : Resolve(name)
  BY <1>2, ResolveInv
<1>3. CASE Skip
  BY <1>3, SkipInv
<1>4. CASE Circular
  BY <1>4, CircularInv
<1>5. CASE Descend
  BY <1>5, DescendInv
<1>6. CASE Leave
  BY <1>6, LeaveInv
<1>7. CASE Return
  BY <1>7, ReturnInv
<1>8. CASE All
  BY <1>8, AllInv
<1>9. CASE \E key \in keys : ResolveKey(key)
  BY <1>9, ResolveKeyInv
<1>10. CASE \E resolution \in resolutions : Merge(resolution)
  BY <1>10, MergeInv
<1>11. CASE MergeOne
  BY <1>11, MergeOneInv
<1>12. CASE Listed
  BY <1>12, ListedInv
<1>13. CASE Done
  BY <1>13, DoneInv
<1>14. CASE UNCHANGED vars
  <2>1. TypeOK'
    BY <1>14 DEF IInv, vars, TypeOK, Known
  <2>2. Rests' /\ Thrown' /\ AllListed'
    BY <1>14 DEF IInv, vars, Rests, Thrown, AllListed, Known
  <2>3. Stack' = Stack /\ Reach' = Reach
    BY <1>14 DEF vars, Stack, Reach
  <2>4. Search'
    BY <1>14, <2>3 DEF IInv, vars, Search, Searching, Known
  <2>5. Collected'
    BY <1>14 DEF IInv, vars, Collected, Known
  <2> QED BY <2>1, <2>2, <2>4, <2>5 DEF IInv
<1> QED BY <1>1, <1>2, <1>3, <1>4, <1>5, <1>6, <1>7, <1>8, <1>9, <1>10, <1>11, <1>12,
          <1>13, <1>14 DEF Next

LEMMA Invariance == Spec => []IInv
<1>1. Init => IInv
  BY InitInv
<1>2. IInv /\ [Next]_vars => IInv'
  BY StepInv
<1> QED BY <1>1, <1>2, PTL DEF Spec

(* Whatever add, resolve and all do in whatever order, the graph is one of *)
(* lists of known modules, none twice, and so is what they work on.        *)
THEOREM TypeCorrect == Spec => []TypeOK
<1>1. IInv => TypeOK
  BY DEF IInv
<1> QED BY <1>1, Invariance, PTL

(* A search that comes to its end with nothing unresolved lists exactly    *)
(* what the module needs, in order: the list is closed under dependencies  *)
(* and holds the module. An exception has its cycle, or its unknown name.  *)
THEOREM ResolvesRight == Spec => []ResolutionIsRight
<1>1. IInv => ResolutionIsRight
  <2> SUFFICES ASSUME IInv PROVE ResolutionIsRight
    OBVIOUS
  <2>1. IsGraph(modules) /\ Known = DOMAIN modules /\ resolved \in Seq(Known)
    BY Typed DEF IInv
  <2>2. ASSUME Searching, calls = <<>>, unresolved = {}
        PROVE  /\ root \in Known /\ Acyclic(Needed(root) \cup {root})
               /\ InOrder(resolved) /\ ToSet(resolved) = Needed(root) \cup {root}
    <3>1. root \in Known /\ Reach /\ Sorted(modules, resolved)
      BY <2>2 DEF IInv, Search
    <3>2. root \in ToSet(resolved) /\ ToSet(resolved) \subseteq NeededBy(modules, root) \cup {root}
      BY <2>2, <3>1 DEF Reach
    <3>3. ToSet(resolved) \in SUBSET DOMAIN modules
      BY <2>1 DEF ToSet
    <3>4. ClosedFrom(modules, root, ToSet(resolved))
      BY <3>1, <3>2 DEF ClosedFrom, Sorted, ToSet
    <3>5. NeededBy(modules, root) \subseteq ToSet(resolved)
      BY <3>3, <3>4, NeededWithin
    <3>6. ToSet(resolved) = Needed(root) \cup {root}
      BY <2>1, <3>2, <3>5, NeededIs
    <3>7. \A n \in ToSet(resolved) : n \notin Needed(n)
      BY <2>1, <3>1, SortedIsAcyclic, NeededIs
    <3>8. InOrder(resolved)
      BY <2>1, <3>1, SortedIsInOrder
    <3> QED BY <3>1, <3>6, <3>7, <3>8 DEF Acyclic
  <2>3. ASSUME phase = "threw" PROVE root \notin Known \/ ~Acyclic(Needed(root) \cup {root})
    <3>1. \A n : Needed(n) = NeededBy(modules, n)
      BY <2>1, NeededIs
    <3> QED BY <2>3, <3>1 DEF IInv, Thrown, Acyclic
  <2> QED BY <2>2, <2>3 DEF ResolutionIsRight
<1> QED BY <1>1, Invariance, PTL

(* What all lists has every module once, behind those it depends on, in    *)
(* whatever order the modules were resolved and those lists were merged.   *)
THEOREM ListsInOrder == Spec => []AllIsInOrder
<1>1. IInv => AllIsInOrder
  <2> SUFFICES ASSUME IInv, phase = "listed"
               PROVE  /\ Acyclic(Known) /\ InOrder(listed) /\ ToSet(listed) = Known
                      /\ \A n \in Known : Known \ {n} \subseteq Needed(n) => n = Last(listed)
    BY DEF AllIsInOrder
  <2>1. IsGraph(modules) /\ Known = DOMAIN modules /\ listed \in Seq(Known)
    BY Typed DEF IInv, TypeOK
  <2>2. Sorted(modules, listed) /\ ToSet(listed) = Known
    BY DEF IInv, AllListed
  <2>3. \A n : Needed(n) = NeededBy(modules, n)
    BY <2>1, NeededIs
  <2>4. \A n \in Known : n \notin Needed(n)
    BY <2>1, <2>2, <2>3, SortedIsAcyclic
  <2>5. InOrder(listed)
    BY <2>1, <2>2, SortedIsInOrder
  <2>6. \A n \in Known : Known \ {n} \subseteq Needed(n) => n = Last(listed)
    BY <2>1, <2>2, <2>3, MainIsLast
  <2> QED BY <2>2, <2>4, <2>5, <2>6 DEF Acyclic
<1> QED BY <1>1, Invariance, PTL

(***************************************************************************)
(* The search gets on.                                                     *)
(***************************************************************************)
PassedBy(m, done, cs) ==
  (UNION {{n} \X (1..(Len(m[n]) + 1)) : n \in ToSet(done)})
    \cup (UNION {{call.name} \X (1..(call.next - 1)) : call \in ToSet(cs)})

At(m, done, cs, n, k) ==
  \/ n \in ToSet(done) /\ k \in 1..(Len(m[n]) + 1)
  \/ \E i \in DOMAIN cs : n = cs[i].name /\ k \in 1..(cs[i].next - 1)

LEMMA PassedIs ==
  ASSUME NEW m, NEW done, NEW cs
  PROVE  /\ \A n, k : <<n, k>> \in PassedBy(m, done, cs) <=> At(m, done, cs, n, k)
         /\ \A p \in PassedBy(m, done, cs) : p = <<p[1], p[2]>>
<1> DEFINE D == UNION {{n} \X (1..(Len(m[n]) + 1)) : n \in ToSet(done)}
           C == UNION {{call.name} \X (1..(call.next - 1)) : call \in ToSet(cs)}
<1>1. \A n, k : <<n, k>> \in D <=> n \in ToSet(done) /\ k \in 1..(Len(m[n]) + 1)
  OBVIOUS
<1>2. \A n, k : <<n, k>> \in C <=> \E i \in DOMAIN cs : n = cs[i].name /\ k \in 1..(cs[i].next - 1)
  BY DEF ToSet
<1>3. \A p \in D \cup C : p = <<p[1], p[2]>>
  OBVIOUS
<1>4. PassedBy(m, done, cs) = D \cup C
  BY DEF PassedBy
<1> HIDE DEF D, C
<1> QED BY <1>1, <1>2, <1>3, <1>4 DEF At

(* What was passed stays so, and a dependency of the innermost call joins. *)
LEMMA Joins ==
  ASSUME NEW n, NEW k, At(modules', resolved', calls', n, k), ~At(modules, resolved, calls, n, k),
         \A a, b : At(modules, resolved, calls, a, b) => At(modules', resolved', calls', a, b)
  PROVE  Passed \subseteq Passed' /\ Passed # Passed'
<1>1. Passed = PassedBy(modules, resolved, calls) /\ Passed' = PassedBy(modules', resolved', calls')
  BY DEF Passed, PassedBy
<1>2. Passed \subseteq Passed'
  BY <1>1, PassedIs
<1>3. <<n, k>> \in Passed' /\ <<n, k>> \notin Passed
  BY <1>1, PassedIs
<1> QED BY <1>2, <1>3

(* Skip and Descend, which differ in whether a call is added. *)
LEMMA AdvanceJoins ==
  ASSUME IInv, Looping, UNCHANGED <<modules, resolved>>,
         DOMAIN calls \subseteq DOMAIN calls',
         \A i \in DOMAIN calls :
           /\ calls'[i].name = calls[i].name
           /\ calls'[i].next = IF i = Len(calls) THEN calls[i].next + 1 ELSE calls[i].next
  PROVE  Passed \subseteq Passed' /\ Passed # Passed'
<1> DEFINE n == Len(calls)
<1>1. Stack /\ n \in DOMAIN calls /\ Top = calls[n]
  BY LoopingAt
<1>2. \A i \in DOMAIN calls : calls[i].next \in Nat \ {0}
  BY Typed DEF IInv
<1>3. At(modules', resolved', calls', Top.name, Top.next)
  BY <1>1, <1>2 DEF At
<1>4. ~At(modules, resolved, calls, Top.name, Top.next)
  BY <1>1, <1>2 DEF At, Stack
<1>5. ASSUME NEW a, NEW b, At(modules, resolved, calls, a, b)
      PROVE  At(modules', resolved', calls', a, b)
  <2>1. CASE a \in ToSet(resolved) /\ b \in 1..(Len(modules[a]) + 1)
    BY <2>1 DEF At
  <2>2. CASE \E i \in DOMAIN calls : a = calls[i].name /\ b \in 1..(calls[i].next - 1)
    <3>1. PICK i \in DOMAIN calls : a = calls[i].name /\ b \in 1..(calls[i].next - 1)
      BY <2>2
    <3>2. calls[i].next <= calls'[i].next /\ calls'[i].next \in Nat
      BY <1>2
    <3>3. b \in 1..(calls'[i].next - 1)
      BY <1>2, <3>1, <3>2
    <3> QED BY <3>1, <3>3 DEF At
  <2> QED BY <1>5, <2>1, <2>2 DEF At
<1> HIDE DEF n
<1> QED BY <1>3, <1>4, <1>5, Joins

LEMMA LeaveJoins ==
  ASSUME IInv, Leave
  PROVE  Passed \subseteq Passed' /\ Passed # Passed'
<1> DEFINE n == Len(calls)
           last == Len(modules[Top.name]) + 1
<1>1. /\ calls \in Seq(CallType) /\ resolved \in Seq(Known) /\ Known = DOMAIN modules
      /\ DOMAIN calls = 1..n /\ n \in Nat /\ IsGraph(modules)
      /\ \A i \in DOMAIN calls : calls[i].name \in Known /\ calls[i].next \in Nat \ {0}
  BY Typed DEF IInv
<1>2. n \in DOMAIN calls /\ Top = calls[n] /\ n \in Nat \ {0}
  BY <1>1, TopIs DEF Leave, Top
<1>3. Stack
  BY DEF IInv, Search, Leave
<1>4. Top.name \in Known /\ modules[Top.name] \in Seq(Known) /\ Top.next \in Nat \ {0}
  BY <1>1, <1>2 DEF IsGraph, Known
<1>5. last \in Nat \ {0} /\ \A k \in 1..(Top.next - 1) : k < last
  <2>1. \A k \in 1..(Top.next - 1) : k \in DOMAIN modules[Top.name]
    BY <1>2, <1>3 DEF Stack
  <2> QED BY <1>4, <2>1
<1>6. UNCHANGED modules /\ resolved' = Append(resolved, Top.name)
  BY DEF Leave
<1>7. ToSet(resolved') = ToSet(resolved) \cup {Top.name}
  <2>1. /\ DOMAIN resolved = 1..Len(resolved) /\ Len(resolved) \in Nat
        /\ DOMAIN resolved' = 1..(Len(resolved) + 1) /\ resolved'[Len(resolved) + 1] = Top.name
        /\ \A i \in 1..Len(resolved) : resolved'[i] = resolved[i]
    BY <1>1, <1>4, <1>6
  <2>2. \A i \in 1..(Len(resolved) + 1) : i \in 1..Len(resolved) \/ i = Len(resolved) + 1
    BY <2>1
  <2>3. \A i \in 1..Len(resolved) : i \in 1..(Len(resolved) + 1)
    BY <2>1
  <2>4. Len(resolved) + 1 \in 1..(Len(resolved) + 1)
    BY <2>1
  <2> QED BY <2>1, <2>2, <2>3, <2>4 DEF ToSet
<1>8. /\ DOMAIN calls' = 1..(n - 1)
      /\ \A i \in 1..(n - 1) : calls'[i] = calls[i]
  BY CallsOfLeave
<1> HIDE DEF n
<1>9. At(modules', resolved', calls', Top.name, last)
  BY <1>5, <1>6, <1>7 DEF At
<1> HIDE DEF last
<1>10. ~At(modules, resolved, calls, Top.name, last)
  <2>1. Top.name \notin ToSet(resolved) /\ \A i \in DOMAIN calls : calls[i].name = Top.name => i = n
    BY <1>2, <1>3 DEF Stack
  <2>2. last \notin 1..(Top.next - 1)
    BY <1>5
  <2> QED BY <1>2, <2>1, <2>2 DEF At
<1>11. ASSUME NEW a, NEW b, At(modules, resolved, calls, a, b)
       PROVE  At(modules', resolved', calls', a, b)
  <2>1. CASE a \in ToSet(resolved) /\ b \in 1..(Len(modules[a]) + 1)
    BY <1>6, <1>7, <2>1 DEF At
  <2>2. CASE \E i \in DOMAIN calls : a = calls[i].name /\ b \in 1..(calls[i].next - 1)
    <3>1. PICK i \in DOMAIN calls : a = calls[i].name /\ b \in 1..(calls[i].next - 1)
      BY <2>2
    <3>2. CASE i = n
      <4>1. a = Top.name /\ b \in 1..(Top.next - 1)
        BY <1>2, <3>1, <3>2
      <4>2. b \in 1..(Len(modules[a]) + 1)
        BY <1>5, <4>1 DEF last
      <4> QED BY <1>6, <1>7, <4>1, <4>2 DEF At
    <3>3. CASE i # n
      <4>1. i \in 1..(n - 1)
        BY <1>1, <3>3
      <4> QED BY <1>8, <3>1, <4>1 DEF At
    <3> QED BY <3>2, <3>3
  <2> QED BY <1>11, <2>1, <2>2 DEF At
<1> QED BY <1>9, <1>10, <1>11, Joins

(* Every step of a search passes a dependency or leaves a module that it   *)
(* had not passed or left before; a graph has only so many of them.        *)
THEOREM LooksOnceOnly == Spec => LooksOnce
<1>1. ASSUME IInv, [Next]_vars
      PROVE  [Searching /\ phase' = phase => Passed \subseteq Passed' /\ Passed # Passed']_vars
  <2> SUFFICES ASSUME Next, Searching, phase' = phase
               PROVE  Passed \subseteq Passed' /\ Passed # Passed'
    BY <1>1
  <2>1. CASE Skip
    <3>1. /\ DOMAIN calls' = DOMAIN calls
          /\ \A i \in DOMAIN calls :
               /\ calls'[i].name = calls[i].name
               /\ calls'[i].next = IF i = Len(calls) THEN calls[i].next + 1 ELSE calls[i].next
      BY <1>1, <2>1, Typed, Advancing DEF IInv, Skip, Looping
    <3>2. Looping /\ UNCHANGED <<modules, resolved>>
      BY <2>1 DEF Skip
    <3> QED BY <1>1, <3>1, <3>2, AdvanceJoins
  <2>2. CASE Descend
    <3>1. DOMAIN calls' = 1..(Len(calls) + 1) /\ DOMAIN calls = 1..Len(calls) /\ Len(calls) \in Nat
      <4>1. DOMAIN calls = 1..Len(calls) /\ Len(calls) \in Nat
        BY <1>1, Typed DEF IInv
      <4>2. DOMAIN calls' = 1..(Len(calls) + 1)
        BY <1>1, <2>2, CallsOfDescend
      <4> QED BY <4>1, <4>2
    <3>2. \A i \in DOMAIN calls :
            /\ calls'[i].name = calls[i].name
            /\ calls'[i].next = IF i = Len(calls) THEN calls[i].next + 1 ELSE calls[i].next
      BY <1>1, <2>2, <3>1, CallsOfDescend
    <3>3. Looping /\ UNCHANGED <<modules, resolved>>
      BY <2>2 DEF Descend
    <3>4. DOMAIN calls \subseteq DOMAIN calls'
      BY <3>1
    <3> QED BY <1>1, <3>2, <3>3, <3>4, AdvanceJoins
  <2>3. CASE Leave
    BY <1>1, <2>3, LeaveJoins
  <2>4. phase \in {"resolve", "each"}
    BY DEF Searching
  <2>5. /\ \A n \in Room, name \in Names : \A deps \in [1..n -> Names] : ~Add(name, deps)
        /\ \A name \in Names : ~Resolve(name)
        /\ \A key \in keys : ~ResolveKey(key)
        /\ \A resolution \in resolutions : ~Merge(resolution)
    BY <2>4 DEF Add, Resolve, ResolveKey, Merge
  <2>6. ~Circular /\ ~Return /\ ~All /\ ~MergeOne /\ ~Listed /\ ~Done
    BY <2>4 DEF Circular, Return, All, MergeOne, Listed, Done
  <2> QED BY <2>1, <2>2, <2>3, <2>5, <2>6 DEF Next
<1> QED BY <1>1, Invariance, PTL DEF Spec, LooksOnce
=============================================================================
