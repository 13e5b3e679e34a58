------------------------- MODULE ActionProtocolProofs -------------------------
(* What ActionProtocol guarantees for any lists of actions, groups two deep. *)
EXTENDS ActionProtocol, SequenceTheorems, WellFoundedInduction, TLAPS

(***************************************************************************)
(* Induction over the places of a loop.                                    *)
(***************************************************************************)

(* A set of numbers that is not empty has a least element. *)
LEMMA LeastNumber == ASSUME NEW T, T \subseteq Nat, T # {} PROVE \E n \in T : \A m \in T : n <= m
  <1>. DEFINE R == OpToRel(<, Nat)
  <1>1. IsWellFoundedOn(R, Nat)
    BY NatLessThanWellFounded
  <1>. HIDE DEF R
  <1>2. PICK n \in T : \A m \in T : <<m, n>> \notin R
    BY <1>1, WFMin, Zenon
  <1>3. \A m \in T : m < n => <<m, n>> \in R
    BY DEF R, OpToRel
  <1>4. \A m \in T : ~(m < n)
    BY <1>2, <1>3, Zenon
  <1>. QED BY <1>4

(* What holds before a loop, and after each round if before it, holds      *)
(* after every round.                                                      *)
LEMMA EveryRound ==
  ASSUME NEW k \in Nat, NEW T, 0 \in T, \A i \in 1..k : i - 1 \in T => i \in T
  PROVE  0..k \subseteq T
  <1>. DEFINE missed == (0..k) \ T
  <1>. SUFFICES ASSUME missed # {} PROVE FALSE
    OBVIOUS
  <1>1. missed \subseteq Nat
    OBVIOUS
  <1>. HIDE DEF missed
  <1>2. PICK n \in missed : \A m \in missed : n <= m
    BY <1>1, LeastNumber, Zenon
  <1>3. n \in 1..k /\ n - 1 \in 0..k /\ ~(n <= n - 1) /\ n \notin T
    BY DEF missed
  <1>. QED BY <1>2, <1>3 DEF missed

(* What a loop of k rounds goes through from start. *)
IsCourse(f, S, k, start, step) ==
  /\ f \in [0..k -> S]
  /\ f[0] = start /\ \A i \in 1..k : f[i] = step[<<i, f[i - 1]>>]

(* A loop over states in S has a course. *)
LEMMA CourseExists ==
  ASSUME NEW S, NEW k \in Nat, NEW start \in S, NEW step \in [(1..k) \X S -> S]
  PROVE  \E f : IsCourse(f, S, k, start, step)
  <1>. DEFINE Course(n, f) == f[0] = start /\ \A i \in 1..n : f[i] = step[<<i, f[i - 1]>>]
              T == {n \in 0..k : \E f \in [0..n -> S] : Course(n, f)}
  <1>1. 0 \in T
    <2>. DEFINE f == [i \in 0..0 |-> start]
    <2>1. f \in [0..0 -> S] /\ Course(0, f)
      OBVIOUS
    <2>. HIDE DEF f, Course
    <2>. QED BY <2>1
  <1>2. ASSUME NEW n \in 1..k, n - 1 \in T PROVE n \in T
    <2>1. PICK f \in [0..(n - 1) -> S] : Course(n - 1, f)
      BY <1>2
    <2>. DEFINE g == [i \in 0..n |-> IF i = n THEN step[<<n, f[n - 1]>>] ELSE f[i]]
    <2>2. f[n - 1] \in S /\ step[<<n, f[n - 1]>>] \in S
      OBVIOUS
    <2>3. g \in [0..n -> S]
      BY <2>2
    <2>4. \A i \in 0..(n - 1) : g[i] = f[i]
      OBVIOUS
    <2>5. g[n] = step[<<n, f[n - 1]>>] /\ n - 1 \in 0..(n - 1)
      OBVIOUS
    <2>. HIDE DEF g
    <2>6. ASSUME NEW i \in 1..n PROVE g[i] = step[<<i, g[i - 1]>>]
      <3>1. CASE i = n
        BY <2>4, <2>5, <3>1
      <3>2. CASE i # n
        <4>1. i \in 1..(n - 1) /\ i \in 0..(n - 1) /\ i - 1 \in 0..(n - 1)
          BY <3>2
        <4>2. g[i] = f[i] /\ g[i - 1] = f[i - 1]
          BY <2>4, <4>1
        <4>. QED BY <2>1, <4>1, <4>2
      <3>. QED BY <3>1, <3>2
    <2>7. Course(n, g)
      BY <2>1, <2>4, <2>6
    <2>. HIDE DEF Course
    <2>. QED BY <2>3, <2>7
  <1>3. k \in T
    <2>. HIDE DEF T
    <2>1. 0..k \subseteq T
      BY <1>1, <1>2, EveryRound
    <2>. QED BY <2>1
  <1>. HIDE DEF Course
  <1>4. PICK f \in [0..k -> S] : Course(k, f)
    BY <1>3
  <1>. QED BY <1>4 DEF Course, IsCourse

(***************************************************************************)
(* Concatenation.                                                          *)
(***************************************************************************)

Kinds == Pseudo \cup Methods \cup Validators \cup {"require"}

Lists == Seq(Kinds)

LEMMA ListsJoin ==
  /\ <<>> \in Lists
  /\ \A a \in Lists : a \o <<>> = a /\ <<>> \o a = a
  /\ \A a, b \in Lists : a \o b \in Lists
  /\ \A a, b, c \in Lists : (a \o b) \o c = a \o (b \o c)
  <1>1. <<>> \in Lists /\ \A a, b \in Lists : a \o b \in Lists
    BY DEF Lists
  <1>2. \A a \in Lists : a \o <<>> = a /\ <<>> \o a = a
    BY ConcatEmptySeq DEF Lists
  <1>3. ASSUME NEW a \in Lists, NEW b \in Lists, NEW c \in Lists
        PROVE  (a \o b) \o c = a \o (b \o c)
    BY ConcatAssociative DEF Lists
  <1>. QED BY <1>1, <1>2, <1>3

(* The lemmas are cited for the lists these name. *)
JoinAlike(a, b, c) == (a \o b) \o c = a \o (b \o c)

JoinAlikeInside(a, b, c, d) == (a \o (b \o c)) \o d = a \o (b \o (c \o d))

LEMMA JoinThree ==
  ASSUME NEW a \in Lists, NEW b \in Lists, NEW c \in Lists
  PROVE  JoinAlike(a, b, c)
  <1>1. a \in Seq(Kinds) /\ b \in Seq(Kinds) /\ c \in Seq(Kinds)
    BY DEF Lists
  <1>. QED BY <1>1, ConcatAssociative DEF JoinAlike

LEMMA JoinFour ==
  ASSUME NEW a \in Lists, NEW b \in Lists, NEW c \in Lists, NEW d \in Lists
  PROVE  JoinAlikeInside(a, b, c, d)
  <1>. DEFINE m == b \o c
  <1>1. JoinAlike(b, c, d)
    BY JoinThree, Zenon
  <1>2. m \in Lists
    BY ListsJoin
  <1>. HIDE DEF m
  <1>3. JoinAlike(a, m, d)
    BY <1>2, JoinThree, Zenon
  <1>. QED BY <1>1, <1>3, Zenon DEF m, JoinAlike, JoinAlikeInside

(* FlattenSeq adds one sequence after another. *)
Flattens(f, seqs, k) ==
  /\ f \in [0..k -> Lists]
  /\ f[0] = <<>> /\ \A i \in 1..k : f[i] = f[i - 1] \o seqs[i]
  /\ FlattenSeq(seqs) = f[k]

LEMMA FlattenRounds ==
  ASSUME NEW seqs \in Seq(Lists), NEW k, k = Len(seqs)
  PROVE  \E f : Flattens(f, seqs, k)
  <1>. DEFINE step == [p \in (1..k) \X Lists |-> p[2] \o seqs[p[1]]]
              Run(g) == [i \in 1..k |-> IF i = 1 THEN seqs[i] ELSE g[i - 1] \o seqs[i]]
              r == CHOOSE g : g = Run(g)
  <1>1. k \in Nat /\ <<>> \in Lists /\ \A i \in 1..k : seqs[i] \in Lists
    <2>1. <<>> \in Lists
      BY ListsJoin
    <2>. QED BY <2>1
  <1>2. \A i \in 1..k, s \in Lists : s \o seqs[i] \in Lists
    BY <1>1, ListsJoin
  <1>3. step \in [(1..k) \X Lists -> Lists]
    BY <1>2
  <1>4. \A i \in 1..k, s \in Lists : step[<<i, s>>] = s \o seqs[i]
    OBVIOUS
  <1>5. FlattenSeq(seqs) = IF k = 0 THEN <<>> ELSE r[k]
    BY DEF FlattenSeq
  <1>. HIDE DEF step
  <1>6. PICK f : IsCourse(f, Lists, k, <<>>, step)
    BY <1>1, <1>3, CourseExists, Zenon
  <1>7. f \in [0..k -> Lists] /\ f[0] = <<>> /\ \A i \in 1..k : f[i] = f[i - 1] \o seqs[i]
    <2>1. f \in [0..k -> Lists] /\ f[0] = <<>> /\ \A i \in 1..k : f[i] = step[<<i, f[i - 1]>>]
      BY <1>6 DEF IsCourse
    <2>2. ASSUME NEW i \in 1..k PROVE f[i] = f[i - 1] \o seqs[i]
      <3>1. k \in Nat /\ i - 1 \in 0..k
        BY <1>1
      <3>2. f[i - 1] \in Lists
        BY <2>1, <3>1, Zenon
      <3>. QED BY <1>4, <2>1, <3>2, Zenon
    <2>. QED BY <2>1, <2>2
  <1>8. 1 \in 1..k => f[1] = seqs[1]
    <2>. SUFFICES ASSUME 1 \in 1..k PROVE f[1] = seqs[1]
      OBVIOUS
    <2>1. f[1] = f[1 - 1] \o seqs[1] /\ seqs[1] \in Lists
      BY <1>1, <1>7, Zenon
    <2>2. 1 - 1 = 0
      OBVIOUS
    <2>3. f[1] = <<>> \o seqs[1]
      BY <1>7, <2>1, <2>2, Zenon
    <2>. QED BY <2>1, <2>3, ListsJoin
  <1>9. FlattenSeq(seqs) = f[k]
    <2>. DEFINE h == [i \in 1..k |-> f[i]]
                T == {i \in 0..k : i = 0 \/ r[i] = f[i]}
    <2>1. h = Run(h)
      <3>1. ASSUME NEW i \in 1..k PROVE h[i] = IF i = 1 THEN seqs[i] ELSE h[i - 1] \o seqs[i]
        <4>1. CASE i = 1
          BY <1>8, <4>1
        <4>2. CASE i # 1
          <5>1. i - 1 \in 1..k
            BY <1>1, <4>2
          <5>. QED BY <1>7, <4>2, <5>1
        <4>. QED BY <4>1, <4>2
      <3>. HIDE DEF h
      <3>2. h = [i \in 1..k |-> h[i]]
        BY DEF h
      <3>. QED BY <3>1, <3>2
    <2>. HIDE DEF h, Run
    <2>2. r = Run(r)
      BY <2>1
    <2>. HIDE DEF r
    <2>3. 0 \in T
      BY <1>1
    <2>4. ASSUME NEW i \in 1..k, i - 1 \in T PROVE i \in T
      <3>1. r[i] = IF i = 1 THEN seqs[i] ELSE r[i - 1] \o seqs[i]
        BY <2>2 DEF Run
      <3>4. i \in 0..k
        BY <1>1
      <3>2. CASE i = 1
        BY <1>8, <3>1, <3>2, <3>4
      <3>3. CASE i # 1
        <4>1. i - 1 # 0 /\ r[i - 1] = f[i - 1]
          BY <2>4, <3>3
        <4>2. f[i] = f[i - 1] \o seqs[i]
          BY <1>7, Zenon
        <4>. QED BY <3>1, <3>3, <3>4, <4>1, <4>2
      <3>. QED BY <3>2, <3>3
    <2>. HIDE DEF T
    <2>5. 0..k \subseteq T
      BY <1>1, <2>3, <2>4, EveryRound
    <2>6. k = 0 \/ r[k] = f[k]
      BY <1>1, <2>5 DEF T
    <2>. QED BY <1>5, <1>7, <2>6 DEF r
  <1>. QED BY <1>7, <1>9 DEF Flattens

LEMMA FlattenType == ASSUME NEW seqs \in Seq(Lists) PROVE FlattenSeq(seqs) \in Lists
  <1>. DEFINE k == Len(seqs)
  <1>1. k \in Nat /\ k \in 0..k
    OBVIOUS
  <1>2. PICK f : Flattens(f, seqs, k)
    BY FlattenRounds, Zenon
  <1>. HIDE DEF k
  <1>. QED BY <1>1, <1>2, Zenon DEF Flattens

LEMMA FlattenEmpty == FlattenSeq(<<>>) = <<>>
  BY DEF FlattenSeq

(* Pieces of two lists, one list after the other. *)
LEMMA FlattenConcat ==
  ASSUME NEW a \in Seq(Lists), NEW b \in Seq(Lists)
  PROVE  FlattenSeq(a \o b) = FlattenSeq(a) \o FlattenSeq(b)
  <1>. DEFINE m == Len(a)
              n == Len(b)
              c == a \o b
  <1>1. /\ m \in Nat /\ n \in Nat /\ m + n \in Nat /\ m = Len(a) /\ n = Len(b)
        /\ c \in Seq(Lists) /\ m + n = Len(c)
        /\ \A i \in 1..m : c[i] = a[i]
        /\ \A i \in 1..n : c[m + i] = b[i]
    OBVIOUS
  <1>2. \A i \in 1..n : b[i] \in Lists
    OBVIOUS
  <1>. HIDE DEF m, n, c
  <1>3. PICK f : Flattens(f, a, m)
    BY <1>1, FlattenRounds, Zenon
  <1>4. PICK g : Flattens(g, b, n)
    BY <1>1, FlattenRounds, Zenon
  <1>5. PICK h : Flattens(h, c, m + n)
    BY <1>1, FlattenRounds, Zenon
  <1>6. h[m] = f[m]
    <2>. DEFINE T == {i \in 0..m : h[i] = f[i]}
    <2>1. 0 \in T
      BY <1>1, <1>3, <1>5 DEF Flattens
    <2>2. ASSUME NEW i \in 1..m, i - 1 \in T PROVE i \in T
      <3>1. i \in 0..m /\ i \in 1..(m + n)
        BY <1>1
      <3>2. h[i] = h[i - 1] \o c[i] /\ f[i] = f[i - 1] \o a[i]
        BY <1>3, <1>5, <3>1, Zenon DEF Flattens
      <3>3. c[i] = a[i] /\ h[i - 1] = f[i - 1]
        BY <1>1, <2>2
      <3>. QED BY <3>1, <3>2, <3>3
    <2>. HIDE DEF T
    <2>3. 0..m \subseteq T
      BY <1>1, <2>1, <2>2, EveryRound, Zenon
    <2>4. m \in 0..m
      BY <1>1
    <2>. QED BY <2>3, <2>4 DEF T
  <1>7. h[m + n] = f[m] \o g[n]
    <2>. DEFINE T == {i \in 0..n : h[m + i] = f[m] \o g[i]}
    <2>0. m \in 0..m /\ n \in 0..n /\ 0 \in 0..n /\ m + 0 = m
      BY <1>1
    <2>1. f[m] \in Lists /\ \A i \in 0..n : g[i] \in Lists
      BY <1>3, <1>4, <2>0, Zenon DEF Flattens
    <2>2. 0 \in T
      <3>1. f[m] \o <<>> = f[m] /\ g[0] = <<>>
        BY <1>4, <2>1, ListsJoin, Zenon DEF Flattens
      <3>. QED BY <1>6, <2>0, <3>1
    <2>3. ASSUME NEW i \in 1..n, i - 1 \in T PROVE i \in T
      <3>1. i \in 0..n /\ i - 1 \in 0..n /\ m + i \in 1..(m + n) /\ (m + i) - 1 = m + (i - 1)
        BY <1>1
      <3>2. h[m + i] = h[(m + i) - 1] \o c[m + i]
        BY <1>5, <3>1, Zenon DEF Flattens
      <3>3. c[m + i] = b[i] /\ b[i] \in Lists
        BY <1>1, <1>2, Zenon
      <3>4. h[m + (i - 1)] = f[m] \o g[i - 1]
        BY <2>3
      <3>5. h[m + i] = (f[m] \o g[i - 1]) \o b[i]
        BY <3>1, <3>2, <3>3, <3>4, Zenon
      <3>6. g[i - 1] \in Lists
        BY <2>1, <3>1, Zenon
      <3>7. h[m + i] = f[m] \o (g[i - 1] \o b[i])
        BY <2>1, <3>3, <3>5, <3>6, ListsJoin, Zenon
      <3>8. g[i] = g[i - 1] \o b[i]
        BY <1>4, Zenon DEF Flattens
      <3>. QED BY <3>1, <3>7, <3>8, Zenon
    <2>. HIDE DEF T
    <2>4. 0..n \subseteq T
      BY <1>1, <2>2, <2>3, EveryRound, Zenon
    <2>. QED BY <2>0, <2>4 DEF T
  <1>. QED BY <1>3, <1>4, <1>5, <1>7, Zenon DEF Flattens, c

LEMMA FlattenOne == ASSUME NEW x \in Lists PROVE FlattenSeq(<<x>>) = x
  <1>. DEFINE s == <<x>>
  <1>1. s \in Seq(Lists) /\ 1 = Len(s) /\ s[1] = x /\ 1 \in Nat /\ 1 - 1 = 0 /\ 1 \in 1..1
    OBVIOUS
  <1>. HIDE DEF s
  <1>2. PICK f : Flattens(f, s, 1)
    BY <1>1, FlattenRounds, Zenon
  <1>3. f[1] = <<>> \o x
    <2>1. f[1] = f[1 - 1] \o s[1] /\ f[0] = <<>>
      BY <1>1, <1>2, Zenon DEF Flattens
    <2>. QED BY <1>1, <2>1, Zenon
  <1>4. FlattenSeq(s) = f[1]
    BY <1>2 DEF Flattens
  <1>. QED BY <1>3, <1>4, ListsJoin DEF s

(***************************************************************************)
(* Sequences of one kind, and the elements of some kinds.                  *)
(***************************************************************************)

Repeat(x, n) == [i \in 1..n |-> x]

LEMMA RepeatType ==
  ASSUME NEW S, NEW x \in S, NEW n \in Nat
  PROVE  Repeat(x, n) \in Seq(S) /\ Len(Repeat(x, n)) = n /\ \A i \in 1..n : Repeat(x, n)[i] = x
  BY DEF Repeat

LEMMA RepeatConcat ==
  ASSUME NEW x, NEW m \in Nat, NEW n \in Nat
  PROVE  Repeat(x, m) \o Repeat(x, n) = Repeat(x, m + n)
  <1>1. Repeat(x, m) \in Seq({x}) /\ Repeat(x, n) \in Seq({x}) /\ Repeat(x, m + n) \in Seq({x})
    BY DEF Repeat
  <1>. QED BY <1>1 DEF Repeat

LEMMA RepeatMore ==
  ASSUME NEW x, NEW n \in Nat
  PROVE  /\ Repeat(x, n + 1) = Repeat(x, n) \o <<x>> /\ Repeat(x, n + 1) = <<x>> \o Repeat(x, n)
         /\ Repeat(x, 0) = <<>> /\ Repeat(x, 1) = <<x>>
  <1>1. Repeat(x, 1) = <<x>> /\ Repeat(x, 0) = <<>> /\ 1 + n = n + 1 /\ 1 \in Nat
    BY DEF Repeat
  <1>2. Repeat(x, n) \o Repeat(x, 1) = Repeat(x, n + 1) /\ Repeat(x, 1) \o Repeat(x, n) = Repeat(x, 1 + n)
    BY <1>1, RepeatConcat, Zenon
  <1>. QED BY <1>1, <1>2, Zenon

LEMMA RepeatNone == ASSUME NEW x PROVE Repeat(x, 0) = <<>> /\ Repeat(x, 1) = <<x>>
  BY DEF Repeat

AreJoined(p, q, r, m, n) ==
  /\ p \in Seq(Lists) /\ q \in Seq(Lists) /\ r \in Seq(Lists)
  /\ m \in Nat /\ n \in Nat /\ m = Len(p) /\ n = Len(q) /\ Len(r) = m + n
  /\ \A i \in 1..m : r[i] = p[i]
  /\ \A i \in (m + 1)..(m + n) : r[i] = q[i - m]

LEMMA ConcatIs == ASSUME NEW p, NEW q, NEW r, NEW m, NEW n, AreJoined(p, q, r, m, n) PROVE r = p \o q
  <1>1. p \o q \in Seq(Lists) /\ Len(p \o q) = m + n
    BY ConcatProperties DEF AreJoined
  <1>2. ASSUME NEW i \in 1..(m + n) PROVE r[i] = (p \o q)[i]
    <2>1. (p \o q)[i] = IF i <= m THEN p[i] ELSE q[i - m]
      BY ConcatProperties DEF AreJoined
    <2>. QED BY <2>1 DEF AreJoined
  <1>. DEFINE t == p \o q
  <1>3. t \in Seq(Lists) /\ Len(t) = Len(r) /\ \A i \in 1..Len(r) : r[i] = t[i]
    BY <1>1, <1>2 DEF AreJoined
  <1>. HIDE DEF t
  <1>4. r = t
    BY <1>3 DEF AreJoined
  <1>. QED BY <1>4 DEF t

(* The beginnings of a sequence. *)
LEMMA Beginnings ==
  ASSUME NEW S, NEW s \in Seq(S)
  PROVE  /\ SubSeq(s, 1, 0) = <<>> /\ SubSeq(s, 1, Len(s)) = s
         /\ \A i \in 1..Len(s) : /\ SubSeq(s, 1, i) = SubSeq(s, 1, i - 1) \o <<s[i]>>
                                 /\ SubSeq(s, 1, i - 1) \in Seq(S) /\ s[i] \in S
  <1>1. SubSeq(s, 1, 0) = <<>> /\ SubSeq(s, 1, Len(s)) = s
    BY SubSeqEmpty, SubSeqFull
  <1>2. ASSUME NEW i \in 1..Len(s)
        PROVE  /\ SubSeq(s, 1, i) = SubSeq(s, 1, i - 1) \o <<s[i]>>
               /\ SubSeq(s, 1, i - 1) \in Seq(S) /\ s[i] \in S
    <2>1. 1 \in 1..Len(s) /\ i \in 1..Len(s) /\ i \in Int /\ i - 1 \in Int /\ s[i] \in S
      OBVIOUS
    <2>2. SubSeq(s, 1, i - 1) \in Seq(S)
      OBVIOUS
    <2>. QED BY <2>1, <2>2, SubSeqRecursiveSecond
  <1>. QED BY <1>1, <1>2

(* The sequences F has for the elements, one after another. *)
Images(seq, F) == [i \in DOMAIN seq |-> F[seq[i]]]

Gather(seq, F) == FlattenSeq(Images(seq, F))

LEMMA ImagesAre ==
  ASSUME NEW R, NEW F \in [R -> Lists], NEW seq \in Seq(R)
  PROVE  /\ Images(seq, F) \in Seq(Lists) /\ Len(Images(seq, F)) = Len(seq)
         /\ \A i \in 1..Len(seq) : Images(seq, F)[i] = F[seq[i]]
  <1>1. Len(seq) \in Nat /\ DOMAIN seq = 1..Len(seq) /\ \A i \in 1..Len(seq) : seq[i] \in R
    OBVIOUS
  <1>. QED BY <1>1 DEF Images

LEMMA GatherConcat ==
  ASSUME NEW R, NEW F \in [R -> Lists], NEW a \in Seq(R), NEW b \in Seq(R)
  PROVE  Gather(a \o b, F) = Gather(a, F) \o Gather(b, F) /\ Gather(a, F) \in Lists
  <1>. DEFINE c == a \o b
              m == Len(a)
              n == Len(b)
              p == Images(a, F)
              q == Images(b, F)
              r == Images(c, F)
  <1>1. /\ m \in Nat /\ n \in Nat /\ Len(c) = m + n /\ c \in Seq(R)
        /\ \A i \in 1..m : c[i] = a[i]
        /\ \A i \in (m + 1)..(m + n) : c[i] = b[i - m]
    OBVIOUS
  <1>2. p \in Seq(Lists) /\ Len(p) = m /\ \A i \in 1..m : p[i] = F[a[i]]
    BY ImagesAre
  <1>3. q \in Seq(Lists) /\ Len(q) = n /\ \A i \in 1..n : q[i] = F[b[i]]
    BY ImagesAre
  <1>4. r \in Seq(Lists) /\ Len(r) = Len(c) /\ \A i \in 1..Len(c) : r[i] = F[c[i]]
    <2>1. c \in Seq(R)
      BY <1>1
    <2>. HIDE DEF c
    <2>. QED BY <2>1, ImagesAre
  <1>. HIDE DEF c, m, n, p, q, r
  <1>5. ASSUME NEW i \in 1..m PROVE r[i] = p[i]
    <2>1. i \in 1..Len(c)
      BY <1>1
    <2>2. p[i] = F[a[i]] /\ r[i] = F[c[i]] /\ c[i] = a[i]
      BY <1>1, <1>2, <1>4, <2>1, Zenon
    <2>. QED BY <2>2
  <1>6. ASSUME NEW i \in (m + 1)..(m + n) PROVE r[i] = q[i - m]
    <2>1. i \in 1..Len(c) /\ i - m \in 1..n
      BY <1>1
    <2>2. q[i - m] = F[b[i - m]] /\ r[i] = F[c[i]] /\ c[i] = b[i - m]
      BY <1>1, <1>3, <1>4, <2>1, Zenon
    <2>. QED BY <2>2
  <1>7. r = p \o q
    <2>1. Len(r) = m + n /\ m = Len(p) /\ n = Len(q) /\ m \in Nat /\ n \in Nat
      BY <1>1, <1>2, <1>3, <1>4, Zenon
    <2>2. p \in Seq(Lists) /\ q \in Seq(Lists) /\ r \in Seq(Lists)
      BY <1>2, <1>3, <1>4
    <2>3. AreJoined(p, q, r, m, n)
      BY <1>5, <1>6, <2>1, <2>2 DEF AreJoined
    <2>. QED BY <2>3, ConcatIs, Zenon
  <1>8. FlattenSeq(p \o q) = FlattenSeq(p) \o FlattenSeq(q) /\ FlattenSeq(p) \in Lists
    BY <1>2, <1>3, FlattenConcat, FlattenType
  <1>. QED BY <1>7, <1>8 DEF Gather, p, q, r, c

LEMMA GatherOne ==
  ASSUME NEW R, NEW F \in [R -> Lists], NEW x \in R
  PROVE  Gather(<<x>>, F) = F[x] /\ Gather(<<>>, F) = <<>>
  <1>1. Images(<<x>>, F) = <<F[x]>> /\ Images(<<>>, F) = <<>>
    BY DEF Images
  <1>. QED BY <1>1, FlattenOne, FlattenEmpty DEF Gather

(* A sequence is its elements one by one. *)
LEMMA GatherSame ==
  ASSUME NEW R, NEW F \in [R -> Lists], NEW seq \in Seq(R), NEW list \in Lists,
         Len(list) = Len(seq), \A i \in 1..Len(seq) : F[seq[i]] = <<list[i]>>
  PROVE  Gather(seq, F) = list
  <1>. DEFINE n == Len(seq)
              p == Images(seq, F)
              T == {i \in 0..n : FlattenSeq(SubSeq(p, 1, i)) = SubSeq(list, 1, i)}
  <1>1. n \in Nat /\ p \in Seq(Lists) /\ Len(p) = n /\ \A i \in 1..n : p[i] = <<list[i]>>
    BY ImagesAre
  <1>2. Len(list) = n /\ list \in Seq(Kinds)
    BY DEF Lists
  <1>. HIDE DEF n, p
  <1>3. 0 \in T
    <2>1. SubSeq(p, 1, 0) = <<>> /\ SubSeq(list, 1, 0) = <<>> /\ 0 \in 0..n
      BY <1>1, <1>2, Beginnings
    <2>. QED BY <2>1, FlattenEmpty
  <1>4. ASSUME NEW i \in 1..n, i - 1 \in T PROVE i \in T
    <2>1. SubSeq(p, 1, i) = SubSeq(p, 1, i - 1) \o <<p[i]>>
      BY <1>1, Beginnings
    <2>2. SubSeq(list, 1, i) = SubSeq(list, 1, i - 1) \o <<list[i]>>
      BY <1>2, Beginnings
    <2>3. SubSeq(p, 1, i - 1) \in Seq(Lists) /\ p[i] \in Lists /\ <<p[i]>> \in Seq(Lists)
      BY <1>1, Beginnings
    <2>4. FlattenSeq(SubSeq(p, 1, i)) = FlattenSeq(SubSeq(p, 1, i - 1)) \o p[i]
      BY <2>1, <2>3, FlattenConcat, FlattenOne
    <2>5. FlattenSeq(SubSeq(p, 1, i - 1)) = SubSeq(list, 1, i - 1) /\ p[i] = <<list[i]>> /\ i \in 0..n
      BY <1>1, <1>4
    <2>6. FlattenSeq(SubSeq(p, 1, i)) = SubSeq(list, 1, i)
      BY <2>2, <2>4, <2>5, Zenon
    <2>. QED BY <2>5, <2>6
  <1>5. 0..n \subseteq T
    <2>. HIDE DEF T
    <2>. QED BY <1>1, <1>3, <1>4, EveryRound
  <1>6. SubSeq(p, 1, n) = p /\ SubSeq(list, 1, n) = list
    BY <1>1, <1>2, Beginnings
  <1>7. n \in 0..n
    BY <1>1
  <1>. QED BY <1>5, <1>6, <1>7 DEF Gather, p

LEMMA GatherNone ==
  ASSUME NEW R, NEW F \in [R -> Lists], NEW seq \in Seq(R), \A i \in 1..Len(seq) : F[seq[i]] = <<>>
  PROVE  Gather(seq, F) = <<>>
  <1>. DEFINE n == Len(seq)
              p == Images(seq, F)
              T == {i \in 0..n : FlattenSeq(SubSeq(p, 1, i)) = <<>>}
  <1>1. n \in Nat /\ p \in Seq(Lists) /\ Len(p) = n /\ \A i \in 1..n : p[i] = <<>>
    BY ImagesAre
  <1>. HIDE DEF n, p
  <1>2. 0 \in T
    <2>1. SubSeq(p, 1, 0) = <<>> /\ 0 \in 0..n
      BY <1>1, Beginnings
    <2>. QED BY <2>1, FlattenEmpty
  <1>3. ASSUME NEW i \in 1..n, i - 1 \in T PROVE i \in T
    <2>1. SubSeq(p, 1, i) = SubSeq(p, 1, i - 1) \o <<p[i]>>
      BY <1>1, Beginnings
    <2>2. SubSeq(p, 1, i - 1) \in Seq(Lists) /\ p[i] \in Lists /\ <<p[i]>> \in Seq(Lists)
      BY <1>1, Beginnings
    <2>3. FlattenSeq(SubSeq(p, 1, i)) = FlattenSeq(SubSeq(p, 1, i - 1)) \o p[i]
      BY <2>1, <2>2, FlattenConcat, FlattenOne
    <2>4. FlattenSeq(SubSeq(p, 1, i - 1)) = <<>> /\ p[i] = <<>> /\ i \in 0..n
      BY <1>1, <1>3
    <2>5. FlattenSeq(SubSeq(p, 1, i)) = <<>>
      BY <2>3, <2>4, ListsJoin, Zenon
    <2>. QED BY <2>4, <2>5
  <1>4. 0..n \subseteq T
    <2>. HIDE DEF T
    <2>. QED BY <1>1, <1>2, <1>3, EveryRound
  <1>5. SubSeq(p, 1, n) = p /\ n \in 0..n
    BY <1>1, Beginnings
  <1>. QED BY <1>4, <1>5 DEF Gather, p

(* Only picks elements. *)
Pick(kinds) == [x \in Kinds |-> IF x \in kinds THEN <<x>> ELSE <<>>]

LEMMA OnlyIs ==
  ASSUME NEW seq \in Lists, NEW kinds
  PROVE  Only(seq, kinds) = Gather(seq, Pick(kinds)) /\ Pick(kinds) \in [Kinds -> Lists]
  <1>1. DOMAIN seq = 1..Len(seq) /\ \A i \in 1..Len(seq) : seq[i] \in Kinds
    BY DEF Lists
  <1>2. Pick(kinds) \in [Kinds -> Lists]
    BY DEF Pick, Lists
  <1>3. Images(seq, Pick(kinds)) = [i \in DOMAIN seq |-> IF seq[i] \in kinds THEN <<seq[i]>> ELSE <<>>]
    BY <1>1 DEF Images, Pick
  <1>. QED BY <1>2, <1>3 DEF Only, Gather

LEMMA OnlyConcat ==
  ASSUME NEW a \in Lists, NEW b \in Lists, NEW kinds
  PROVE  Only(a \o b, kinds) = Only(a, kinds) \o Only(b, kinds) /\ Only(a, kinds) \in Lists
  <1>1. a \o b \in Lists /\ a \in Seq(Kinds) /\ b \in Seq(Kinds)
    BY ListsJoin DEF Lists
  <1>2. Pick(kinds) \in [Kinds -> Lists]
    BY OnlyIs
  <1>3. Gather(a \o b, Pick(kinds)) = Gather(a, Pick(kinds)) \o Gather(b, Pick(kinds)) /\ Gather(a, Pick(kinds)) \in Lists
    BY <1>1, <1>2, GatherConcat, Zenon
  <1>. QED BY <1>1, <1>3, OnlyIs, Zenon

OnlyApart(a, b, kinds) == Only(a \o b, kinds) = Only(a, kinds) \o Only(b, kinds)

LEMMA OnlyJoins ==
  ASSUME NEW a \in Lists, NEW b \in Lists, NEW kinds
  PROVE  OnlyApart(a, b, kinds)
  BY OnlyConcat DEF OnlyApart

LEMMA OnlyAll ==
  ASSUME NEW seq \in Lists, NEW kinds, \A i \in 1..Len(seq) : seq[i] \in kinds
  PROVE  Only(seq, kinds) = seq
  <1>1. seq \in Seq(Kinds) /\ \A i \in 1..Len(seq) : seq[i] \in Kinds
    BY DEF Lists
  <1>2. \A i \in 1..Len(seq) : Pick(kinds)[seq[i]] = <<seq[i]>>
    BY <1>1 DEF Pick
  <1>. QED BY <1>1, <1>2, OnlyIs, GatherSame

LEMMA OnlyNone ==
  ASSUME NEW seq \in Lists, NEW kinds, \A i \in 1..Len(seq) : seq[i] \notin kinds
  PROVE  Only(seq, kinds) = <<>>
  <1>1. seq \in Seq(Kinds) /\ \A i \in 1..Len(seq) : seq[i] \in Kinds
    BY DEF Lists
  <1>2. \A i \in 1..Len(seq) : Pick(kinds)[seq[i]] = <<>>
    BY <1>1 DEF Pick
  <1>. QED BY <1>1, <1>2, OnlyIs, GatherNone

(***************************************************************************)
(* What references stand for.                                              *)
(***************************************************************************)

(* References to places that exist. *)
RefsTo(names) ==
  {ref \in [name : names, at : Nat] :
     ref.name \in Groups \cup {"check"} => ref.at \in {1} \cup DOMAIN items[ref.name]}

ItemsOK ==
  /\ DOMAIN items = Groups \cup {"check"}
  /\ items["inner"] \in Seq(RefsTo(Names \ Groups))
  /\ items["outer"] \in Seq(RefsTo(Names \ {"outer"}))
  /\ items["check"] \in Seq(Validators)

Answers == [kinds : Lists, pending : Seq(RefsTo(Names))]

LEMMA FromIs ==
  ASSUME NEW S, NEW seq \in Seq(S), NEW i \in 1..(Len(seq) + 1)
  PROVE  /\ From(seq, i) \in Seq(S) /\ From(seq, 1) = seq
         /\ i = Len(seq) + 1 => From(seq, i) = <<>>
         /\ i # Len(seq) + 1 => /\ From(seq, i) = <<seq[i]>> \o From(seq, i + 1) /\ seq[i] \in S
                                /\ From(seq, i + 1) \in Seq(S)
  <1>1. From(seq, i) \in Seq(S) /\ From(seq, 1) = seq
    BY SubSeqFull DEF From
  <1>2. i = Len(seq) + 1 => From(seq, i) = <<>>
    BY SubSeqEmpty DEF From
  <1>3. ASSUME i # Len(seq) + 1
        PROVE  From(seq, i) = <<seq[i]>> \o From(seq, i + 1) /\ seq[i] \in S /\ From(seq, i + 1) \in Seq(S)
    <2>1. i \in 1..Len(seq) /\ Len(seq) \in i..Len(seq) /\ seq[i] \in S
      BY <1>3
    <2>2. From(seq, i + 1) \in Seq(S)
      BY DEF From
    <2>. QED BY <2>1, <2>2, SubSeqRecursiveFirst DEF From
  <1>. QED BY <1>1, <1>2, <1>3

LEMMA RefsFrom ==
  ASSUME NEW refs \in Seq(RefsTo(Names)), NEW i \in 1..(Len(refs) + 1)
  PROVE  /\ From(refs, i) \in Seq(RefsTo(Names)) /\ From(refs, 1) = refs
         /\ i = Len(refs) + 1 => From(refs, i) = <<>>
         /\ i # Len(refs) + 1 => /\ From(refs, i) = <<refs[i]>> \o From(refs, i + 1) /\ refs[i] \in RefsTo(Names)
                                /\ From(refs, i + 1) \in Seq(RefsTo(Names))
  BY FromIs, Zenon

LEMMA PlacesAre ==
  ASSUME ItemsOK, NEW names, names \subseteq Names, NEW ref \in RefsTo(names), ref.name \in Groups \cup {"check"}
  PROVE  ref.at \in 1..(Len(items[ref.name]) + 1)
  <1>1. ref.at \in {1} \cup DOMAIN items[ref.name]
    BY DEF RefsTo
  <1>2. Len(items[ref.name]) \in Nat /\ DOMAIN items[ref.name] = 1..Len(items[ref.name])
    <2>1. ref.name = "inner" \/ ref.name = "outer" \/ ref.name = "check"
      BY DEF Groups
    <2>. QED BY <2>1 DEF ItemsOK
  <1>. QED BY <1>1, <1>2

(* The steps one reference stands for. *)
Stands(ref) ==
  IF ref.name \in Groups THEN GroupSteps[ref.name][ref.at]
  ELSE IF ref.name = "check" THEN From(items["check"], ref.at) ELSE <<ref.name>>

Standing(names) == [ref \in RefsTo(names) |-> Stands(ref)]

LEMMA ExpandIs ==
  ASSUME ItemsOK, NEW names, names \subseteq Names, NEW below,
         \A g \in Groups \cap names :
           below[g] = GroupSteps[g] /\ \A at \in Places(g) : GroupSteps[g][at] \in Lists,
         NEW refs \in Seq(RefsTo(names))
  PROVE  /\ Standing(names) \in [RefsTo(names) -> Lists]
         /\ Expand(refs, below) = Gather(refs, Standing(names)) /\ Expand(refs, below) \in Lists
  <1>1. ASSUME NEW ref \in RefsTo(names) PROVE Stands(ref) \in Lists
    <2>1. ref.name \in names
      BY DEF RefsTo
    <2>2. CASE ref.name \in Groups
      <3>1. ref.at \in Places(ref.name)
        BY <2>2, PlacesAre DEF Places
      <3>. QED BY <2>1, <2>2, <3>1 DEF Stands
    <2>3. CASE ref.name = "check"
      <3>1. ref.at \in 1..(Len(items["check"]) + 1)
        BY <2>3, PlacesAre
      <3>2. items["check"] \in Seq(Validators)
        BY DEF ItemsOK
      <3>3. From(items["check"], ref.at) \in Seq(Validators)
        BY <3>1, <3>2, FromIs
      <3>. QED BY <2>3, <3>3 DEF Stands, Lists, Kinds, Groups
    <2>4. CASE ref.name \notin Groups \cup {"check"}
      <3>1. ref.name \in Kinds
        BY <2>1, <2>4 DEF Names, Kinds
      <3>2. Stands(ref) = <<ref.name>>
        BY <2>4 DEF Stands
      <3>. QED BY <3>1, <3>2 DEF Lists
    <2>. QED BY <2>2, <2>3, <2>4
  <1>2. Standing(names) \in [RefsTo(names) -> Lists]
    BY <1>1 DEF Standing
  <1>3. Expand(refs, below) = Gather(refs, Standing(names))
    <2>1. ASSUME NEW i \in DOMAIN refs
          PROVE  Standing(names)[refs[i]] =
                   IF refs[i].name \in Groups THEN below[refs[i].name][refs[i].at]
                   ELSE IF refs[i].name = "check" THEN From(items["check"], refs[i].at) ELSE <<refs[i].name>>
      <3>1. refs[i] \in RefsTo(names)
        OBVIOUS
      <3>2. Standing(names)[refs[i]] = Stands(refs[i]) /\ refs[i].name \in names
        BY <3>1 DEF Standing, RefsTo
      <3>3. refs[i].name \in Groups => below[refs[i].name] = GroupSteps[refs[i].name]
        BY <3>2
      <3>. QED BY <3>2, <3>3, Zenon DEF Stands
    <2>. QED BY <2>1, Zenon DEF Expand, Gather, Images
  <1>4. Gather(refs, Standing(names)) \in Lists
    <2>1. Gather(refs \o <<>>, Standing(names)) = Gather(refs, Standing(names)) \o Gather(<<>>, Standing(names))
             /\ Gather(refs, Standing(names)) \in Lists
      <3>1. <<>> \in Seq(RefsTo(names))
        OBVIOUS
      <3>. QED BY <1>2, <3>1, GatherConcat, Zenon
    <2>. QED BY <2>1
  <1>. QED BY <1>2, <1>3, <1>4

(* A group stands for what the items from the place on stand for.          *)
LEMMA GroupStepsAre ==
  ASSUME ItemsOK, NEW g \in Groups, NEW at \in Places(g)
  PROVE  GroupSteps[g][at] = Meaning(From(items[g], at)) /\ GroupSteps[g][at] \in Lists
  <1>. DEFINE leaves == Names \ Groups
              nodes == Names \ {"outer"}
              inner == [h \in {"inner"} |-> [p \in Places(h) |-> Expand(From(items[h], p), <<>>)]]
  <1>1. /\ leaves \subseteq Names /\ nodes \subseteq Names
        /\ Groups \cap leaves = {} /\ Groups \cap nodes = {"inner"} /\ "inner" \in Groups /\ "outer" \in Groups
    BY DEF Groups, Names
  <1>2. GroupSteps = [h \in Groups |-> IF h = "inner" THEN inner[h]
                                       ELSE [p \in Places(h) |-> Expand(From(items[h], p), inner)]]
    BY DEF GroupSteps
  <1>3. /\ \A p \in Places("inner") : GroupSteps["inner"][p] = Expand(From(items["inner"], p), <<>>)
        /\ inner["inner"] = GroupSteps["inner"]
        /\ \A p \in Places("outer") : GroupSteps["outer"][p] = Expand(From(items["outer"], p), inner)
    BY <1>1, <1>2
  <1>. HIDE DEF leaves, nodes, inner
  <1>4. ASSUME NEW p \in Places("inner")
        PROVE  GroupSteps["inner"][p] = Meaning(From(items["inner"], p)) /\ GroupSteps["inner"][p] \in Lists
    <2>. DEFINE refs == From(items["inner"], p)
    <2>1. refs \in Seq(RefsTo(leaves))
      BY FromIs DEF ItemsOK, Places, leaves
    <2>. HIDE DEF refs
    <2>2. Expand(refs, <<>>) = Gather(refs, Standing(leaves)) /\ Expand(refs, <<>>) \in Lists
      BY <1>1, <2>1, ExpandIs
    <2>3. Expand(refs, GroupSteps) = Gather(refs, Standing(leaves))
      BY <1>1, <2>1, ExpandIs
    <2>. QED BY <1>3, <2>2, <2>3 DEF Meaning, refs
  <1>5. ASSUME NEW p \in Places("outer")
        PROVE  GroupSteps["outer"][p] = Meaning(From(items["outer"], p)) /\ GroupSteps["outer"][p] \in Lists
    <2>. DEFINE refs == From(items["outer"], p)
    <2>1. refs \in Seq(RefsTo(nodes))
      BY FromIs DEF ItemsOK, Places, nodes
    <2>. HIDE DEF refs
    <2>2. \A h \in Groups \cap nodes :
            inner[h] = GroupSteps[h] /\ \A q \in Places(h) : GroupSteps[h][q] \in Lists
      BY <1>1, <1>3, <1>4
    <2>3. Expand(refs, inner) = Gather(refs, Standing(nodes)) /\ Expand(refs, inner) \in Lists
      BY <1>1, <2>1, <2>2, ExpandIs
    <2>4. Expand(refs, GroupSteps) = Gather(refs, Standing(nodes))
      BY <1>1, <2>1, <2>2, ExpandIs
    <2>. QED BY <1>3, <2>3, <2>4 DEF Meaning, refs
  <1>. QED BY <1>4, <1>5 DEF Groups

LEMMA MeaningIs ==
  ASSUME ItemsOK
  PROVE  /\ Standing(Names) \in [RefsTo(Names) -> Lists]
         /\ \A refs \in Seq(RefsTo(Names)) : Meaning(refs) = Gather(refs, Standing(Names))
  <1>1. \A g \in Groups \cap Names :
          GroupSteps[g] = GroupSteps[g] /\ \A at \in Places(g) : GroupSteps[g][at] \in Lists
    BY GroupStepsAre
  <1>2. Standing(Names) \in [RefsTo(Names) -> Lists]
    <2>1. <<>> \in Seq(RefsTo(Names))
      OBVIOUS
    <2>. QED BY <1>1, <2>1, ExpandIs
  <1>3. ASSUME NEW refs \in Seq(RefsTo(Names)) PROVE Meaning(refs) = Gather(refs, Standing(Names))
    BY <1>1, ExpandIs DEF Meaning
  <1>. QED BY <1>2, <1>3

LEMMA MeaningConcat ==
  ASSUME ItemsOK, NEW a \in Seq(RefsTo(Names)), NEW b \in Seq(RefsTo(Names))
  PROVE  Meaning(a \o b) = Meaning(a) \o Meaning(b) /\ Meaning(a) \in Lists
  <1>1. a \o b \in Seq(RefsTo(Names))
    OBVIOUS
  <1>2. Gather(a \o b, Standing(Names)) = Gather(a, Standing(Names)) \o Gather(b, Standing(Names))
           /\ Gather(a, Standing(Names)) \in Lists
    BY MeaningIs, GatherConcat, Zenon
  <1>. QED BY <1>1, <1>2, MeaningIs, Zenon

LEMMA MeaningOne ==
  ASSUME ItemsOK
  PROVE  /\ Meaning(<<>>) = <<>>
         /\ \A ref \in RefsTo(Names) : Meaning(<<ref>>) = Stands(ref) /\ Stands(ref) \in Lists
  <1>1. <<>> \in Seq(RefsTo(Names)) /\ \A ref \in RefsTo(Names) : <<ref>> \in Seq(RefsTo(Names))
    OBVIOUS
  <1>2. ASSUME NEW ref \in RefsTo(Names) PROVE Meaning(<<ref>>) = Stands(ref) /\ Stands(ref) \in Lists
    <2>1. Gather(<<ref>>, Standing(Names)) = Standing(Names)[ref]
      BY MeaningIs, GatherOne, Zenon
    <2>2. Standing(Names)[ref] = Stands(ref) /\ Standing(Names)[ref] \in Lists
      BY MeaningIs DEF Standing
    <2>. QED BY <1>1, <2>1, <2>2, MeaningIs, Zenon
  <1>3. Meaning(<<>>) = <<>>
    <2>1. Images(<<>>, Standing(Names)) = <<>>
      BY DEF Images
    <2>2. Gather(<<>>, Standing(Names)) = <<>>
      BY <2>1, FlattenEmpty DEF Gather
    <2>. QED BY <1>1, <2>2, MeaningIs, Zenon
  <1>. QED BY <1>2, <1>3

(* The references a pause inside of something leaves.                      *)
LEMMA MeaningOfRest ==
  ASSUME ItemsOK, NEW name \in Groups \cup {"check"}, NEW at \in 1..Len(items[name])
  PROVE  /\ Ref(name, at) \in RefsTo(Names) /\ <<Ref(name, at)>> \in Seq(RefsTo(Names))
         /\ name \in Groups => Meaning(<<Ref(name, at)>>) = Meaning(From(items[name], at))
         /\ name = "check" => Meaning(<<Ref(name, at)>>) = From(items["check"], at)
  <1>. DEFINE r == Ref(name, at)
  <1>0. name \in Names /\ "check" \notin Groups
    BY DEF Names, Groups
  <1>1. r.name = name /\ r.at = at /\ at \in Nat /\ r \in [name : Names, at : Nat]
    BY <1>0 DEF Ref
  <1>2. DOMAIN items[name] = 1..Len(items[name]) /\ Len(items[name]) \in Nat
    <2>1. name = "inner" \/ name = "outer" \/ name = "check"
      BY DEF Groups
    <2>. QED BY <2>1 DEF ItemsOK
  <1>3. at \in {1} \cup DOMAIN items[name] /\ at \in Places(name)
    BY <1>2 DEF Places
  <1>. HIDE DEF r
  <1>4. r \in RefsTo(Names)
    BY <1>1, <1>3 DEF RefsTo
  <1>5. Meaning(<<r>>) = Stands(r) /\ <<r>> \in Seq(RefsTo(Names))
    BY <1>4, MeaningOne
  <1>6. name \in Groups => Stands(r) = Meaning(From(items[name], at))
    BY <1>1, <1>3, GroupStepsAre DEF Stands
  <1>7. name = "check" => Stands(r) = From(items["check"], at)
    BY <1>0, <1>1 DEF Stands
  <1>. QED BY <1>4, <1>5, <1>6, <1>7 DEF r

(***************************************************************************)
(* The results of the server.                                              *)
(***************************************************************************)

(* The methods of results, as of one function.                             *)
Made == [a \in Answers |-> Only(a.kinds, Methods)]

LEMMA MethodsConcat ==
  ASSUME NEW a \in Seq(Answers), NEW b \in Seq(Answers)
  PROVE  MethodsOf(a \o b) = MethodsOf(a) \o MethodsOf(b) /\ MethodsOf(a) \in Lists
  <1>1. Made \in [Answers -> Lists]
    <2>1. ASSUME NEW x \in Answers PROVE Only(x.kinds, Methods) \in Lists
      <3>1. x.kinds \in Lists
        BY DEF Answers
      <3>. QED BY <3>1, OnlyConcat
    <2>. QED BY <2>1 DEF Made
  <1>2. ASSUME NEW out \in Seq(Answers) PROVE MethodsOf(out) = Gather(out, Made)
    <2>1. \A i \in DOMAIN out : Made[out[i]] = Only(out[i].kinds, Methods)
      BY DEF Made
    <2>. QED BY <2>1, Zenon DEF MethodsOf, Gather, Images
  <1>3. a \o b \in Seq(Answers)
    OBVIOUS
  <1>4. Gather(a \o b, Made) = Gather(a, Made) \o Gather(b, Made) /\ Gather(a, Made) \in Lists
    BY <1>1, GatherConcat, Zenon
  <1>. QED BY <1>2, <1>3, <1>4, Zenon

LEMMA MethodsOne ==
  ASSUME NEW a \in Answers
  PROVE  MethodsOf(<<a>>) = Only(a.kinds, Methods) /\ MethodsOf(<<>>) = <<>>
  <1>. DEFINE s == <<a>>
  <1>1. DOMAIN s = {1} /\ s[1] = a
    OBVIOUS
  <1>2. Only(a.kinds, Methods) \in Lists
    <2>1. a.kinds \in Lists
      BY DEF Answers
    <2>. QED BY <2>1, OnlyConcat
  <1>. HIDE DEF s
  <1>3. [i \in DOMAIN s |-> Only(s[i].kinds, Methods)] = <<Only(a.kinds, Methods)>>
    BY <1>1
  <1>4. MethodsOf(s) = Only(a.kinds, Methods)
    BY <1>2, <1>3, FlattenOne, Zenon DEF MethodsOf
  <1>5. [i \in DOMAIN <<>> |-> Only(<<>>[i].kinds, Methods)] = <<>>
    OBVIOUS
  <1>. QED BY <1>4, <1>5, FlattenEmpty DEF MethodsOf, s

(* A list that is evaluated: that of a request, or the items of a group.   *)
Owns(owner, refs, names) ==
  /\ names \subseteq Names /\ refs \in Seq(RefsTo(names))
  /\ owner = "" \/ (owner \in Groups /\ refs = items[owner])

LEMMA RefsToMore ==
  ASSUME NEW names, names \subseteq Names
  PROVE  RefsTo(names) \subseteq RefsTo(Names) /\ Seq(RefsTo(names)) \subseteq Seq(RefsTo(Names))
  <1>1. RefsTo(names) \subseteq RefsTo(Names)
    BY DEF RefsTo
  <1>. QED BY <1>1

(* What is pending after an item stands for all that comes after it.       *)
LEMMA PendingIs ==
  ASSUME ItemsOK, NEW owner, NEW refs, NEW names, Owns(owner, refs, names),
         NEW i \in 1..Len(refs), NEW previous \in Seq(RefsTo(Names))
  PROVE  /\ Pending(owner, refs, i, previous) \in Seq(RefsTo(Names))
         /\ Meaning(Pending(owner, refs, i, previous)) = Meaning(previous) \o Meaning(From(refs, i + 1))
  <1>. DEFINE n == Len(refs)
              after == From(refs, i + 1)
  <1>1. refs \in Seq(RefsTo(Names)) /\ n \in Nat
    <2>1. names \subseteq Names /\ refs \in Seq(RefsTo(names))
      BY DEF Owns
    <2>2. Seq(RefsTo(names)) \subseteq Seq(RefsTo(Names))
      BY <2>1, RefsToMore, Zenon
    <2>. QED BY <2>1, <2>2
  <1>2. i + 1 \in 1..(n + 1) /\ (i # n => i + 1 # n + 1 /\ i + 1 \in 1..n) /\ (i = n => i + 1 = n + 1)
    BY <1>1
  <1>3. after \in Seq(RefsTo(Names)) /\ (i = n => after = <<>>)
    <2>. DEFINE j == i + 1
    <2>1. j \in 1..(n + 1) /\ (i = n => j = n + 1)
      BY <1>2
    <2>. HIDE DEF j
    <2>2. From(refs, j) \in Seq(RefsTo(Names)) /\ (j = n + 1 => From(refs, j) = <<>>)
      BY <1>1, <2>1, FromIs, Zenon
    <2>. QED BY <2>1, <2>2 DEF j
  <1>4. CASE i = n
    <2>1. Pending(owner, refs, i, previous) = previous
      BY <1>4, ConcatEmptySeq DEF Pending
    <2>2. Meaning(previous) \in Lists /\ Meaning(<<>>) = <<>>
      BY MeaningConcat, MeaningOne
    <2>3. Meaning(previous) = Meaning(previous) \o <<>>
      BY <2>2, ListsJoin
    <2>. QED BY <1>3, <1>4, <2>1, <2>2, <2>3
  <1>5. ASSUME i # n, NEW rest \in Seq(RefsTo(Names)), Meaning(rest) = Meaning(after),
               Pending(owner, refs, i, previous) = previous \o rest
        PROVE  /\ Pending(owner, refs, i, previous) \in Seq(RefsTo(Names))
               /\ Meaning(Pending(owner, refs, i, previous)) = Meaning(previous) \o Meaning(after)
    <2>1. previous \o rest \in Seq(RefsTo(Names))
      OBVIOUS
    <2>2. Meaning(previous \o rest) = Meaning(previous) \o Meaning(rest)
      BY MeaningConcat
    <2>. QED BY <1>5, <2>1, <2>2
  <1>6. CASE i # n /\ owner = ""
    <2>1. Pending(owner, refs, i, previous) = previous \o after
      BY <1>6 DEF Pending
    <2>. HIDE DEF after
    <2>. QED BY <1>3, <1>5, <1>6, <2>1, Zenon DEF after
  <1>7. CASE i # n /\ owner # ""
    <2>1. owner \in Groups /\ refs = items[owner]
      BY <1>7 DEF Owns
    <2>2. Pending(owner, refs, i, previous) = previous \o <<Ref(owner, i + 1)>>
      BY <1>7 DEF Pending
    <2>3. owner \in Groups \cup {"check"} /\ i + 1 \in 1..Len(items[owner])
      BY <1>2, <1>7, <2>1
    <2>4. <<Ref(owner, i + 1)>> \in Seq(RefsTo(Names)) /\ Meaning(<<Ref(owner, i + 1)>>) = Meaning(after)
      BY <2>1, <2>3, MeaningOfRest
    <2>. HIDE DEF after
    <2>. QED BY <1>5, <1>7, <2>2, <2>4, Zenon DEF after
  <1>. QED BY <1>4, <1>6, <1>7

(* The results of a check from some place, and what they leave.            *)
LEMMA CheckType ==
  ASSUME ItemsOK, NEW at \in 1..(Len(items["check"]) + 1)
  PROVE  Check(at) \in Answers
  <1>. DEFINE all == items["check"]
              ends == {i \in at..Len(all) : all[i] \in {"Alert", "Error"}}
              end == CHOOSE i \in ends : \A j \in ends : i <= j
  <1>1. all \in Seq(Validators) /\ Validators \subseteq Kinds
    BY DEF ItemsOK, Kinds
  <1>2. Seq(Validators) \subseteq Lists
    BY <1>1 DEF Lists
  <1>3. ASSUME NEW kinds \in Lists, NEW pending \in Seq(RefsTo(Names)) PROVE Result(kinds, pending) \in Answers
    BY DEF Result, Answers
  <1>4. <<>> \in Seq(RefsTo(Names))
    OBVIOUS
  <1>5. CASE ends = {}
    <2>1. Check(at) = Result(From(all, at), <<>>)
      BY <1>5 DEF Check
    <2>2. From(all, at) \in Lists
      BY <1>1, <1>2, FromIs
    <2>. QED BY <1>3, <1>4, <2>1, <2>2
  <1>6. CASE ends # {}
    <2>1. Check(at) = Result(SubSeq(all, at, end),
                             IF all[end] = "Alert" /\ end < Len(all) THEN <<Ref("check", end + 1)>> ELSE <<>>)
      BY <1>6, Zenon DEF Check
    <2>2. end \in ends
      <3>1. ends \subseteq Nat
        OBVIOUS
      <3>. HIDE DEF ends
      <3>2. \E i \in ends : \A j \in ends : i <= j
        BY <1>6, <3>1, LeastNumber
      <3>. QED BY <3>2, Zenon
    <2>3. end \in at..Len(all)
      BY <2>2
    <2>. HIDE DEF end, ends
    <2>4. SubSeq(all, at, end) \in Lists
      <3>1. SubSeq(all, at, end) \in Seq(Validators)
        BY <1>1, <2>3
      <3>. QED BY <1>2, <3>1
    <2>5. end < Len(all) => <<Ref("check", end + 1)>> \in Seq(RefsTo(Names))
      <3>. DEFINE j == end + 1
      <3>1. Len(all) \in Nat /\ (end < Len(all) => j \in 1..Len(all))
        BY <1>1, <2>3
      <3>2. "check" \in Groups \cup {"check"}
        OBVIOUS
      <3>. HIDE DEF j
      <3>3. j \in 1..Len(all) => <<Ref("check", j)>> \in Seq(RefsTo(Names))
        BY <3>2, MeaningOfRest, Zenon
      <3>. QED BY <3>1, <3>3, Zenon DEF j
    <2>. HIDE DEF all
    <2>. QED BY <1>3, <1>4, <2>1, <2>4, <2>5
  <1>. QED BY <1>5, <1>6

(* The ends of a sequence. *)
LEMMA Ends ==
  ASSUME NEW S, NEW s \in Seq(S), s # <<>>
  PROVE  /\ Front(s) \in Seq(S) /\ Last(s) \in S /\ s = Front(s) \o <<Last(s)>>
         /\ \A x \in S : Append(Front(s), x) = Front(s) \o <<x>> /\ Append(Front(s), x) \in Seq(S)
  <1>. DEFINE n == Len(s)
              front == Front(s)
  <1>1. n \in Nat /\ n # 0 /\ s[n] \in S
    OBVIOUS
  <1>2. front = SubSeq(s, 1, n - 1) /\ Last(s) = s[n] /\ n \in 1..n
    BY <1>1 DEF Front, Last
  <1>3. front \in Seq(S) /\ s = front \o <<s[n]>>
    BY <1>2, Beginnings
  <1>. HIDE DEF front, n
  <1>4. \A x \in S : Append(front, x) = front \o <<x>> /\ Append(front, x) \in Seq(S)
    BY <1>3
  <1>. QED BY <1>1, <1>2, <1>3, <1>4 DEF front

LEMMA EndsOf ==
  ASSUME NEW S, NEW s \in Seq(S), NEW x \in S
  PROVE  s \o <<x>> # <<>> /\ Front(s \o <<x>>) = s /\ Last(s \o <<x>>) = x
  <1>. DEFINE t == s \o <<x>>
  <1>1. t \in Seq(S) /\ Len(t) = Len(s) + 1 /\ t[Len(t)] = x /\ Len(s) \in Nat /\ \A i \in 1..Len(s) : t[i] = s[i]
    OBVIOUS
  <1>. HIDE DEF t
  <1>2. t # <<>> /\ Last(t) = x
    BY <1>1 DEF Last
  <1>3. Front(t) = s
    <2>. DEFINE u == Front(t)
    <2>1. u = SubSeq(t, 1, Len(s))
      BY <1>1 DEF Front
    <2>2. u \in Seq(S) /\ Len(u) = Len(s) /\ \A i \in 1..Len(s) : u[i] = s[i]
      BY <1>1, <2>1
    <2>. HIDE DEF u
    <2>3. u = s
      BY <2>2
    <2>. QED BY <2>3 DEF u
  <1>. QED BY <1>2, <1>3 DEF t

(* The results of the groups a list may name. *)
Prepared(names, below) ==
  \A g \in Groups \cap names : \A at \in Places(g) : below[g][at] \in SUBSET Seq(Answers)

(* A result of an item with what is pending after it. *)
Onward(owner, refs, i, result) == Result(result.kinds, Pending(owner, refs, i, result.pending))

(* What the results of an item are, by the kind of the item. *)
IsItem(owner, refs, i, below, out) ==
  LET name == refs[i].name
  IN \/ /\ name = "check"
        /\ LET result == Check(refs[i].at)
           IN \/ result.kinds = <<>> /\ out = <<>>
              \/ result.kinds # <<>> /\ out = <<Onward(owner, refs, i, result)>>
     \/ /\ name \in Groups
        /\ \E inner \in below[name][refs[i].at] :
             \/ out = inner /\ ~(inner # <<>> /\ Waits(Last(inner)))
             \/ /\ inner # <<>> /\ Waits(Last(inner))
                /\ out = Append(Front(inner), Onward(owner, refs, i, Last(inner)))
     \/ name \in {"values", "errors", "require"} /\ out = <<Result(<<name>>, <<>>)>>
     \/ /\ name \notin Groups \cup {"check", "values", "errors", "require"}
        /\ out = <<Onward(owner, refs, i, Result(<<name>>, <<>>))>>

LEMMA ItemIs ==
  ASSUME NEW owner, NEW refs, NEW i, NEW below, NEW out \in Item(owner, refs, i, below)
  PROVE  IsItem(owner, refs, i, below, out)
  <1>. DEFINE name == refs[i].name
              Then(result) == Result(result.kinds, Pending(owner, refs, i, result.pending))
              A == {IF result.kinds = <<>> THEN <<>> ELSE <<Then(result)>> : result \in {Check(refs[i].at)}}
              B == {IF inner # <<>> /\ Waits(Last(inner)) THEN Append(Front(inner), Then(Last(inner))) ELSE inner :
                      inner \in below[name][refs[i].at]}
              C == {<<Result(<<name>>, <<>>)>>}
              D == {<<Then(Result(<<name>>, <<>>))>>}
              All == CASE name = "check" -> A
                       [] name \in Groups -> B
                       [] name \in {"values", "errors", "require"} -> C
                       [] OTHER -> D
  <1>1. out \in All
    BY DEF Item
  <1>2. \A result : Then(result) = Onward(owner, refs, i, result)
    BY DEF Onward
  <1>. HIDE DEF Then
  <1>3. out \in A => \/ Check(refs[i].at).kinds = <<>> /\ out = <<>>
                     \/ Check(refs[i].at).kinds # <<>> /\ out = <<Onward(owner, refs, i, Check(refs[i].at))>>
    BY <1>2
  <1>4. out \in B => \E inner \in below[name][refs[i].at] :
                      \/ out = inner /\ ~(inner # <<>> /\ Waits(Last(inner)))
                      \/ /\ inner # <<>> /\ Waits(Last(inner))
                         /\ out = Append(Front(inner), Onward(owner, refs, i, Last(inner)))
    BY <1>2
  <1>5. (out \in C => out = <<Result(<<name>>, <<>>)>>) /\ (out \in D => out = <<Onward(owner, refs, i, Result(<<name>>, <<>>))>>)
    BY <1>2
  <1>. HIDE DEF A, B, C, D
  <1>6. \/ name = "check" /\ out \in A
        \/ name \in Groups /\ out \in B
        \/ name \in {"values", "errors", "require"} /\ out \in C
        \/ name \notin Groups \cup {"check", "values", "errors", "require"} /\ out \in D
    BY <1>1 DEF Groups
  <1>. QED BY <1>3, <1>4, <1>5, <1>6, Zenon DEF IsItem

LEMMA ItemType ==
  ASSUME ItemsOK, NEW owner, NEW refs, NEW names, Owns(owner, refs, names),
         NEW below, Prepared(names, below), NEW i \in 1..Len(refs)
  PROVE  Item(owner, refs, i, below) \in SUBSET Seq(Answers)
  <1>. DEFINE name == refs[i].name
              at == refs[i].at
  <1>1. refs[i] \in RefsTo(names) /\ name \in names /\ names \subseteq Names
    <2>1. names \subseteq Names /\ refs \in Seq(RefsTo(names))
      BY DEF Owns
    <2>2. refs[i] \in RefsTo(names)
      BY <2>1
    <2>. QED BY <2>1, <2>2 DEF RefsTo
  <1>2. ASSUME NEW a \in Answers PROVE Onward(owner, refs, i, a) \in Answers
    <2>1. a.kinds \in Lists /\ a.pending \in Seq(RefsTo(Names))
      BY DEF Answers
    <2>2. Pending(owner, refs, i, a.pending) \in Seq(RefsTo(Names))
      BY <2>1, PendingIs
    <2>. QED BY <2>1, <2>2 DEF Onward, Result, Answers
  <1>3. ASSUME name \notin Groups \cup {"check"}
        PROVE  Result(<<name>>, <<>>) \in Answers
    <2>1. name \in Kinds
      BY <1>1, <1>3 DEF Names, Kinds
    <2>. HIDE DEF name
    <2>2. <<name>> \in Lists /\ <<>> \in Seq(RefsTo(Names))
      BY <2>1 DEF Lists
    <2>. QED BY <2>2 DEF Result, Answers
  <1>4. name = "check" => Check(at) \in Answers
    <2>. SUFFICES ASSUME name = "check" PROVE Check(at) \in Answers
      OBVIOUS
    <2>1. at \in 1..(Len(items["check"]) + 1)
      BY <1>1, PlacesAre
    <2>. QED BY <2>1, CheckType
  <1>5. name \in Groups => below[name][at] \in SUBSET Seq(Answers)
    <2>. SUFFICES ASSUME name \in Groups PROVE below[name][at] \in SUBSET Seq(Answers)
      OBVIOUS
    <2>1. at \in Places(name)
      BY <1>1, PlacesAre DEF Places
    <2>. QED BY <1>1, <2>1 DEF Prepared
  <1>6. ASSUME NEW out \in Seq(Answers), out # <<>>
        PROVE  Append(Front(out), Onward(owner, refs, i, Last(out))) \in Seq(Answers)
    <2>1. Last(out) \in Answers
      BY <1>6, Ends
    <2>2. Onward(owner, refs, i, Last(out)) \in Answers
      BY <1>2, <2>1
    <2>. QED BY <1>6, <2>2, Ends
  <1>7. <<>> \in Seq(Answers) /\ \A a \in Answers : <<a>> \in Seq(Answers)
    OBVIOUS
  <1>8. ASSUME NEW out \in Item(owner, refs, i, below) PROVE out \in Seq(Answers)
    <2>1. IsItem(owner, refs, i, below, out)
      BY ItemIs
    <2>2. "check" \notin Groups /\ {"values", "errors", "require"} \cap (Groups \cup {"check"}) = {}
      BY DEF Groups
    <2>3. CASE name = "check"
      <3>1. out = <<>> \/ out = <<Onward(owner, refs, i, Check(at))>>
        BY <2>1, <2>2, <2>3 DEF IsItem
      <3>. QED BY <1>2, <1>4, <1>7, <2>3, <3>1, Zenon
    <2>4. CASE name \in Groups
      <3>1. PICK inner \in below[name][at] :
              \/ out = inner
              \/ inner # <<>> /\ out = Append(Front(inner), Onward(owner, refs, i, Last(inner)))
        BY <2>1, <2>2, <2>4 DEF IsItem
      <3>2. inner \in Seq(Answers)
        BY <1>5, <2>4
      <3>. QED BY <1>6, <3>1, <3>2, Zenon
    <2>5. CASE name \notin Groups \cup {"check"}
      <3>. DEFINE answer == Result(<<name>>, <<>>)
      <3>1. out = <<answer>> \/ out = <<Onward(owner, refs, i, answer)>>
        BY <2>1, <2>5 DEF IsItem
      <3>2. answer \in Answers
        BY <1>3, <2>5
      <3>. HIDE DEF answer
      <3>. QED BY <1>2, <1>7, <3>1, <3>2, Zenon
    <2>. QED BY <2>3, <2>4, <2>5
  <1>. QED BY <1>8

(* A loop that goes from the end of a list to its start. *)
IsReturn(f, S, n, last, step) ==
  /\ f \in [1..(n + 1) -> S]
  /\ f[n + 1] = last /\ \A i \in 1..n : f[i] = step[<<i, f[i + 1]>>]

LEMMA Backwards ==
  ASSUME NEW S, NEW n \in Nat, NEW last \in S, NEW step \in [(1..n) \X S -> S]
  PROVE  \E f : IsReturn(f, S, n, last, step)
  <1>. DEFINE turned == [p \in (1..n) \X S |-> step[<<n + 1 - p[1], p[2]>>]]
  <1>1. turned \in [(1..n) \X S -> S]
    <2>1. ASSUME NEW p \in (1..n) \X S PROVE step[<<n + 1 - p[1], p[2]>>] \in S
      <3>1. n + 1 - p[1] \in 1..n /\ p[2] \in S
        OBVIOUS
      <3>. QED BY <3>1
    <2>. QED BY <2>1
  <1>2. \A i \in 1..n, x \in S : turned[<<i, x>>] = step[<<n + 1 - i, x>>]
    OBVIOUS
  <1>. HIDE DEF turned
  <1>3. PICK g : IsCourse(g, S, n, last, turned)
    BY <1>1, CourseExists, Zenon
  <1>4. g \in [0..n -> S] /\ g[0] = last /\ \A i \in 1..n : g[i] = turned[<<i, g[i - 1]>>]
    BY <1>3 DEF IsCourse
  <1>. DEFINE f == [i \in 1..(n + 1) |-> g[n + 1 - i]]
  <1>5. f \in [1..(n + 1) -> S] /\ f[n + 1] = last
    BY <1>4
  <1>6. ASSUME NEW i \in 1..n PROVE f[i] = step[<<i, f[i + 1]>>]
    <2>. DEFINE j == n + 1 - i
    <2>1. j \in 1..n /\ j - 1 \in 0..n /\ n + 1 - j = i /\ i \in 1..(n + 1) /\ i + 1 \in 1..(n + 1) /\ n + 1 - (i + 1) = j - 1
      OBVIOUS
    <2>2. f[i] = g[j] /\ f[i + 1] = g[j - 1]
      BY <2>1
    <2>. HIDE DEF f, j
    <2>3. g[j - 1] \in S /\ g[j] = turned[<<j, g[j - 1]>>]
      BY <1>4, <2>1
    <2>4. turned[<<j, g[j - 1]>>] = step[<<n + 1 - j, g[j - 1]>>]
      BY <1>2, <2>1, <2>3
    <2>. QED BY <2>1, <2>2, <2>3, <2>4
  <1>. HIDE DEF f
  <1>7. IsReturn(f, S, n, last, step)
    BY <1>5, <1>6 DEF IsReturn
  <1>. QED BY <1>7

(* The results of a list from one item on, by those from the next one on.  *)
Before(owner, refs, below, i, x) ==
  UNION {IF Stops(refs, i, out) THEN {out} ELSE {out \o rest : rest \in x} : out \in Item(owner, refs, i, below)}

IsEvaluation(from, n, owner, refs, below) ==
  /\ from \in [1..(n + 1) -> SUBSET Seq(Answers)] /\ from[n + 1] = {<<>>}
  /\ \A i \in 1..n : from[i] = Before(owner, refs, below, i, from[i + 1])

LEMMA EvaluateIs ==
  ASSUME ItemsOK, NEW owner, NEW refs, NEW names, Owns(owner, refs, names),
         NEW below, Prepared(names, below),
         NEW from, from = Evaluate(owner, refs, below), NEW n, n = Len(refs)
  PROVE  IsEvaluation(from, n, owner, refs, below)
  <1>. DEFINE S == SUBSET Seq(Answers)
              E(i, x) == Before(owner, refs, below, i, x)
              step == [p \in (1..n) \X S |-> E(p[1], p[2])]
              Run(g) == [i \in 1..(n + 1) |-> IF i > n THEN {<<>>} ELSE E(i, g[i + 1])]
              r == CHOOSE g : g = Run(g)
  <1>1. n \in Nat /\ {<<>>} \in S /\ n + 1 \in 1..(n + 1) /\ n + 1 > n
    <2>1. n \in Nat
      <3>1. refs \in Seq(RefsTo(names))
        BY DEF Owns
      <3>. QED BY <3>1
    <2>2. {<<>>} \in S
      OBVIOUS
    <2>. QED BY <2>1, <2>2
  <1>2. ASSUME NEW i \in 1..n, NEW x \in S PROVE E(i, x) \in S
    <2>1. Item(owner, refs, i, below) \in SUBSET Seq(Answers)
      BY ItemType, Zenon
    <2>2. \A out \in Seq(Answers), rest \in Seq(Answers) : out \o rest \in Seq(Answers)
      OBVIOUS
    <2>3. ASSUME NEW out \in Item(owner, refs, i, below)
          PROVE  (IF Stops(refs, i, out) THEN {out} ELSE {out \o rest : rest \in x}) \in S
      <3>1. out \in Seq(Answers) /\ \A rest \in x : out \o rest \in Seq(Answers)
        BY <2>1, <2>2
      <3>. QED BY <3>1
    <2>. DEFINE F(out) == IF Stops(refs, i, out) THEN {out} ELSE {out \o rest : rest \in x}
    <2>4. E(i, x) = UNION {F(out) : out \in Item(owner, refs, i, below)}
      BY Zenon DEF Before
    <2>5. \A out \in Item(owner, refs, i, below) : F(out) \in S
      BY <2>3
    <2>. HIDE DEF F
    <2>. QED BY <2>4, <2>5
  <1>. HIDE DEF E
  <1>3. step \in [(1..n) \X S -> S]
    <2>. HIDE DEF S
    <2>. QED BY <1>2
  <1>4. \A i \in 1..n, x \in S : step[<<i, x>>] = E(i, x)
    <2>. HIDE DEF S
    <2>. QED OBVIOUS
  <1>5. from = r
    BY Zenon DEF Evaluate, E, Before
  <1>. HIDE DEF step, S
  <1>6. PICK f : /\ f \in [1..(n + 1) -> S]
                 /\ f[n + 1] = {<<>>} /\ \A i \in 1..n : f[i] = step[<<i, f[i + 1]>>]
    <2>1. PICK f : IsReturn(f, S, n, {<<>>}, step)
      BY <1>1, <1>3, Backwards, Zenon
    <2>. QED BY <2>1, Zenon DEF IsReturn
  <1>7. \A i \in 1..n : f[i] = E(i, f[i + 1])
    <2>1. ASSUME NEW i \in 1..n PROVE f[i] = E(i, f[i + 1])
      <3>1. i + 1 \in 1..(n + 1)
        BY <1>1
      <3>2. f[i + 1] \in S
        BY <1>6, <3>1
      <3>. QED BY <1>4, <1>6, <3>2
    <2>. QED BY <2>1
  <1>8. \A i \in 1..(n + 1) : IF i > n THEN i = n + 1 ELSE i \in 1..n
    BY <1>1
  <1>9. ASSUME NEW g, g = Run(g)
        PROVE  DOMAIN g = 1..(n + 1) /\ g[n + 1] = {<<>>} /\ \A i \in 1..n : g[i] = E(i, g[i + 1])
    <2>1. DOMAIN g = 1..(n + 1) /\ \A i \in 1..(n + 1) : g[i] = IF i > n THEN {<<>>} ELSE E(i, g[i + 1])
      BY <1>9
    <2>2. \A i \in 1..n : i \in 1..(n + 1) /\ ~(i > n)
      BY <1>1
    <2>. QED BY <1>1, <2>1, <2>2
  <1>10. f = Run(f)
    <2>1. ASSUME NEW i \in 1..(n + 1) PROVE f[i] = IF i > n THEN {<<>>} ELSE E(i, f[i + 1])
      BY <1>6, <1>7, <1>8
    <2>2. f = [i \in 1..(n + 1) |-> f[i]]
      BY <1>6
    <2>. QED BY <2>1, <2>2, Zenon
  <1>11. r = Run(r)
    <2>. HIDE DEF Run
    <2>. QED BY <1>10
  <1>12. DOMAIN r = 1..(n + 1) /\ r[n + 1] = {<<>>} /\ \A i \in 1..n : r[i] = E(i, r[i + 1])
    <2>. HIDE DEF r, Run
    <2>. QED BY <1>9, <1>11
  <1>13. r \in [1..(n + 1) -> S]
    <2>. DEFINE T == {k \in 0..n : r[n + 1 - k] \in S}
    <2>. HIDE DEF r
    <2>1. 0 \in T
      <3>1. 0 \in 0..n /\ n + 1 - 0 = n + 1
        BY <1>1
      <3>2. r[n + 1 - 0] \in S
        BY <1>1, <1>12, <3>1
      <3>. QED BY <3>1, <3>2
    <2>2. ASSUME NEW k \in 1..n, k - 1 \in T PROVE k \in T
      <3>. DEFINE i == n + 1 - k
      <3>1. i \in 1..n /\ i + 1 = n + 1 - (k - 1) /\ k \in 0..n
        BY <1>1
      <3>. HIDE DEF i
      <3>2. r[i + 1] \in S
        BY <2>2, <3>1
      <3>3. r[i] \in S
        BY <1>2, <1>12, <3>1, <3>2, Zenon
      <3>. QED BY <3>1, <3>3 DEF i
    <2>. HIDE DEF T
    <2>3. 0..n \subseteq T
      BY <1>1, <2>1, <2>2, EveryRound, Zenon
    <2>4. ASSUME NEW i \in 1..(n + 1) PROVE r[i] \in S
      <3>1. n + 1 - i \in 0..n /\ n + 1 - (n + 1 - i) = i
        BY <1>1
      <3>. QED BY <2>3, <3>1 DEF T
    <2>5. r = [i \in 1..(n + 1) |-> r[i]]
      BY <1>11 DEF Run
    <2>. QED BY <2>4, <2>5
  <1>. QED BY <1>5, <1>12, <1>13 DEF E, S, IsEvaluation

(* A group answers from any place on, and its results are typed.           *)
LEMMA GroupResultsType ==
  ASSUME ItemsOK
  PROVE  /\ \A g \in Groups : \A at \in Places(g) : GroupResults[g][at] \in SUBSET Seq(Answers)
         /\ \E below : /\ GroupResults["outer"] = Evaluate("outer", items["outer"], below)
                       /\ below["inner"] = GroupResults["inner"]
         /\ GroupResults["inner"] = Evaluate("inner", items["inner"], <<>>)
         /\ Owns("inner", items["inner"], Names \ Groups)
         /\ Owns("outer", items["outer"], Names \ {"outer"})
  <1>. DEFINE leaves == Names \ Groups
              nodes == Names \ {"outer"}
              inner == [h \in {"inner"} |-> Evaluate(h, items[h], <<>>)]
  <1>1. /\ Groups \cap leaves = {} /\ Groups \cap nodes = {"inner"}
        /\ "inner" \in Groups /\ "outer" \in Groups /\ "inner" # "outer"
    BY DEF Groups, Names
  <1>2. Owns("inner", items["inner"], leaves) /\ Owns("outer", items["outer"], nodes)
    BY <1>1 DEF ItemsOK, Owns
  <1>3. GroupResults = [h \in Groups |-> IF h = "inner" THEN inner[h] ELSE Evaluate(h, items[h], inner)]
    BY DEF GroupResults
  <1>4. /\ GroupResults["inner"] = inner["inner"] /\ GroupResults["outer"] = Evaluate("outer", items["outer"], inner)
        /\ inner["inner"] = Evaluate("inner", items["inner"], <<>>)
    BY <1>1, <1>3
  <1>. HIDE DEF leaves, nodes, inner
  <1>5. ASSUME NEW at \in Places("inner") PROVE GroupResults["inner"][at] \in SUBSET Seq(Answers)
    <2>. DEFINE n == Len(items["inner"])
                from == Evaluate("inner", items["inner"], <<>>)
    <2>1. at \in 1..(n + 1)
      BY DEF Places
    <2>2. Prepared(leaves, <<>>)
      BY <1>1 DEF Prepared
    <2>. HIDE DEF n, from
    <2>3. from \in [1..(n + 1) -> SUBSET Seq(Answers)]
      BY <1>2, <2>2, EvaluateIs, Zenon DEF n, from, IsEvaluation
    <2>. QED BY <1>4, <2>1, <2>3 DEF from
  <1>6. ASSUME NEW at \in Places("outer") PROVE GroupResults["outer"][at] \in SUBSET Seq(Answers)
    <2>. DEFINE n == Len(items["outer"])
                from == Evaluate("outer", items["outer"], inner)
    <2>1. at \in 1..(n + 1)
      BY DEF Places
    <2>2. Prepared(nodes, inner)
      BY <1>1, <1>4, <1>5 DEF Prepared
    <2>. HIDE DEF n, from
    <2>3. from \in [1..(n + 1) -> SUBSET Seq(Answers)]
      BY <1>2, <2>2, EvaluateIs, Zenon DEF n, from, IsEvaluation
    <2>. QED BY <1>4, <2>1, <2>3 DEF from
  <1>. QED BY <1>2, <1>4, <1>5, <1>6 DEF Groups, leaves, nodes

LEMMA ExecuteType ==
  ASSUME ItemsOK, todo \in Seq(RefsTo(Names))
  PROVE  /\ Owns("", todo, Names) /\ Prepared(Names, GroupResults)
         /\ \A out \in Execute : out \in Seq(Answers)
  <1>. DEFINE n == Len(todo)
              from == Evaluate("", todo, GroupResults)
  <1>1. Owns("", todo, Names) /\ Prepared(Names, GroupResults)
    BY GroupResultsType DEF Owns, Prepared
  <1>2. n \in Nat /\ 1 \in 1..(n + 1)
    OBVIOUS
  <1>. HIDE DEF n, from
  <1>3. from \in [1..(n + 1) -> SUBSET Seq(Answers)]
    BY <1>1, EvaluateIs, Zenon DEF n, from, IsEvaluation
  <1>4. Execute = from[1]
    BY DEF Execute, from
  <1>. QED BY <1>1, <1>2, <1>3, <1>4

(***************************************************************************)
(* Type correctness.                                                       *)
(***************************************************************************)
Statuses == {"request", "handle", "done", "rejected"}

TypeInv ==
  /\ ItemsOK /\ steps \in Lists
  /\ todo \in Seq(RefsTo(Names)) /\ results \in Seq(Answers)
  /\ shown \in Lists /\ ran \in Lists
  /\ status \in Statuses

LEMMA TypesStay ==
  ASSUME TypeInv, UNCHANGED <<steps, items>>, todo' \in Seq(RefsTo(Names)), results' \in Seq(Answers),
         shown' \in Lists, ran' \in Lists, status' \in Statuses
  PROVE  TypeInv'
  <1>1. items' = items /\ steps' = steps
    OBVIOUS
  <1>2. RefsTo(Names)' = RefsTo(Names)
    BY <1>1 DEF RefsTo
  <1>3. Answers' = Answers
    BY <1>2 DEF Answers
  <1>4. \A names : RefsTo(names)' = RefsTo(names)
    BY <1>1 DEF RefsTo
  <1>5. ItemsOK'
    <2>1. ItemsOK
      BY DEF TypeInv
    <2>2. RefsTo(Names \ Groups)' = RefsTo(Names \ Groups) /\ RefsTo(Names \ {"outer"})' = RefsTo(Names \ {"outer"})
      BY <1>4
    <2>. QED BY <1>1, <2>1, <2>2 DEF ItemsOK
  <1>. QED BY <1>1, <1>2, <1>3, <1>5 DEF TypeInv

LEMMA TypeInit == Init => TypeInv
  <1>. SUFFICES ASSUME Init PROVE TypeInv
    OBVIOUS
  <1>1. PICK o \in Outers, n \in Inners, c \in Checks :
          items = [g \in {"outer", "inner", "check"} |->
                     CASE g = "outer" -> Refs(o) [] g = "inner" -> Refs(n) [] OTHER -> c]
    BY DEF Init
  <1>2. items["outer"] = Refs(o) /\ items["inner"] = Refs(n) /\ items["check"] = c /\ DOMAIN items = Groups \cup {"check"}
    BY <1>1 DEF Groups
  <1>3. /\ o \in Seq(Names \ {"outer"}) /\ n \in Seq(Names \ Groups) /\ c \in Seq(Validators)
        /\ Attributes \subseteq Seq(Names)
    BY ListsAssumption
  <1>4. ASSUME NEW names, NEW list \in Seq(names) PROVE Refs(list) \in Seq(RefsTo(names))
    <2>1. ASSUME NEW name \in names PROVE Ref(name, 1) \in RefsTo(names)
      BY DEF Ref, RefsTo
    <2>2. \A i \in DOMAIN list : list[i] \in names
      OBVIOUS
    <2>. QED BY <2>1, <2>2 DEF Refs
  <1>5. ItemsOK
    BY <1>2, <1>3, <1>4 DEF ItemsOK
  <1>6. todo \in Seq(RefsTo(Names))
    BY <1>3, <1>4 DEF Init
  <1>7. Meaning(todo) \in Lists
    BY <1>5, <1>6, MeaningConcat
  <1>8. <<>> \in Lists /\ <<>> \in Seq(Answers)
    BY ListsJoin
  <1>. QED BY <1>5, <1>6, <1>7, <1>8 DEF Init, TypeInv, Statuses

(* The results still to be handled, one by one. *)
LEMMA HeadType ==
  ASSUME TypeInv, Handling
  PROVE  /\ Head(results) \in Answers /\ Tail(results) \in Seq(Answers)
         /\ results = <<Head(results)>> \o Tail(results)
         /\ Head(results).kinds \in Lists /\ Head(results).pending \in Seq(RefsTo(Names))
  <1>1. results \in Seq(Answers) /\ results # <<>>
    BY DEF TypeInv, Handling
  <1>2. Head(results) \in Answers /\ Tail(results) \in Seq(Answers) /\ results = <<Head(results)>> \o Tail(results)
    BY <1>1
  <1>. QED BY <1>2 DEF Answers

LEMMA ContinueType ==
  ASSUME TypeInv, Handling, NEW pending \in Seq(RefsTo(Names)), Continue(pending)
  PROVE  todo' \in Seq(RefsTo(Names)) /\ results' \in Seq(Answers) /\ status' \in Statuses
  <1>1. todo \in Seq(RefsTo(Names)) /\ status \in Statuses /\ Tail(results) \in Seq(Answers) /\ <<>> \in Seq(Answers)
    BY HeadType DEF TypeInv
  <1>. QED BY <1>1 DEF Continue, Statuses

LEMMA EndType ==
  ASSUME NEW how \in {"done", "rejected"}, End(how)
  PROVE  todo' \in Seq(RefsTo(Names)) /\ results' \in Seq(Answers) /\ status' \in Statuses
  <1>1. <<>> \in Seq(RefsTo(Names)) /\ <<>> \in Seq(Answers)
    OBVIOUS
  <1>. QED BY <1>1 DEF End, Statuses

LEMMA TypeNext == TypeInv /\ [Next]_vars => TypeInv'
  <1>. SUFFICES ASSUME TypeInv, [Next]_vars PROVE TypeInv'
    OBVIOUS
  <1>. DEFINE Typed == /\ todo' \in Seq(RefsTo(Names)) /\ results' \in Seq(Answers) /\ status' \in Statuses
              head == Head(results)
  <1>1. shown \in Lists /\ ran \in Lists /\ todo \in Seq(RefsTo(Names)) /\ ItemsOK
    BY DEF TypeInv
  <1>2. ASSUME NEW out \in Execute PROVE out \in Seq(Answers) /\ ran \o MethodsOf(out) \in Lists
    <2>1. out \in Seq(Answers)
      BY <1>1, ExecuteType
    <2>2. MethodsOf(out) \in Lists
      BY <2>1, MethodsConcat
    <2>. QED BY <1>1, <2>1, <2>2, ListsJoin
  <1>3. ASSUME Typed, UNCHANGED <<steps, items>>, shown' \in Lists, ran' \in Lists PROVE TypeInv'
    BY <1>3, TypesStay
  <1>4. (End("done") => Typed) /\ (End("rejected") => Typed)
    BY EndType
  <1>5. ASSUME Handling
        PROVE  /\ head.kinds \in Lists /\ (Show(head.kinds) => shown' \in Lists)
               /\ Continue(head.pending) => Typed
               /\ Continue(<<>>) => Typed
    <2>1. head.kinds \in Lists /\ head.pending \in Seq(RefsTo(Names)) /\ <<>> \in Seq(RefsTo(Names))
      BY <1>5, HeadType
    <2>2. Show(head.kinds) => shown' \in Lists
      BY <1>1, <2>1, ListsJoin DEF Show
    <2>3. (Continue(head.pending) => Typed) /\ (Continue(<<>>) => Typed)
      BY <1>5, <2>1, ContinueType
    <2>. QED BY <2>1, <2>2, <2>3
  <1>. HIDE DEF Typed, head
  <1>6. CASE Refuse
    BY <1>1, <1>3, <1>4, <1>6 DEF Refuse
  <1>7. CASE DoLocal
    <2>1. Append(shown, todo[1].name) \in Lists
      <3>1. todo[1].name \in Kinds
        BY <1>7 DEF DoLocal, Local, Kinds
      <3>. QED BY <1>1, <3>1 DEF Lists
    <2>2. Typed /\ shown' \in Lists /\ UNCHANGED <<steps, items, ran>>
      BY <1>1, <1>4, <1>7, <2>1 DEF DoLocal
    <2>. QED BY <1>1, <1>3, <2>2
  <1>8. CASE Send
    <2>1. PICK out \in Execute : results' = out /\ ran' = ran \o MethodsOf(out)
      BY <1>8 DEF Send
    <2>2. todo' = <<>> /\ status' = "handle" /\ UNCHANGED <<steps, items, shown>>
      BY <1>8 DEF Send
    <2>3. Typed
      BY <1>2, <2>1, <2>2 DEF Typed, Statuses
    <2>. QED BY <1>1, <1>2, <1>3, <2>1, <2>2, <2>3
  <1>9. CASE Lose
    <2>1. ran' \in Lists
      BY <1>1, <1>2, <1>9 DEF Lose
    <2>2. End("rejected") /\ UNCHANGED <<steps, items, shown>>
      BY <1>9 DEF Lose
    <2>. QED BY <1>1, <1>3, <1>4, <2>1, <2>2
  <1>10. CASE HandleBox
    <2>1. Handling /\ Show(Only(head.kinds, {"info", "Info"})) /\ Continue(head.pending) /\ UNCHANGED <<steps, items, ran>>
      BY <1>10 DEF HandleBox, head
    <2>2. shown' \in Lists
      <3>1. Only(head.kinds, {"info", "Info"}) \in Lists
        BY <1>5, <2>1, OnlyConcat
      <3>. QED BY <1>1, <2>1, <3>1, ListsJoin DEF Show
    <2>. QED BY <1>1, <1>3, <1>5, <2>1, <2>2
  <1>11. CASE HandleStop
    <2>1. Handling /\ Show(head.kinds) /\ End("rejected") /\ UNCHANGED <<steps, items, ran>>
      BY <1>11 DEF HandleStop, head
    <2>. QED BY <1>1, <1>3, <1>4, <1>5, <2>1
  <1>12. CASE HandleAlert
    <2>1. /\ Handling /\ Show(head.kinds) /\ UNCHANGED <<steps, items, ran>>
          /\ Continue(head.pending) \/ End("rejected")
      BY <1>12 DEF HandleAlert, head
    <2>. QED BY <1>1, <1>3, <1>4, <1>5, <2>1
  <1>13. CASE HandleWork
    <2>1. /\ Handling /\ UNCHANGED <<steps, items, ran>>
          /\ (Show(head.kinds) /\ Continue(head.pending)) \/ (End("rejected") /\ UNCHANGED shown)
      BY <1>13 DEF HandleWork, head
    <2>. QED BY <1>1, <1>3, <1>4, <1>5, <2>1
  <1>14. CASE HandleRest
    <2>1. Handling /\ Show(head.kinds) /\ Continue(<<>>) /\ UNCHANGED <<steps, items, ran>>
      BY <1>14 DEF HandleRest, head
    <2>. QED BY <1>1, <1>3, <1>5, <2>1
  <1>15. CASE Finish
    BY <1>1, <1>3, <1>4, <1>15 DEF Finish
  <1>16. CASE UNCHANGED vars
    <2>1. todo' = todo /\ results' = results /\ status' = status /\ UNCHANGED <<steps, items, shown, ran>>
      BY <1>16 DEF vars
    <2>2. Typed
      BY <2>1 DEF Typed, TypeInv
    <2>. QED BY <1>1, <1>3, <2>1, <2>2
  <1>. QED BY <1>6, <1>7, <1>8, <1>9, <1>10, <1>11, <1>12, <1>13, <1>14, <1>15, <1>16 DEF Next

(* Every place pending is one that exists, whatever the nesting.           *)
THEOREM TypeCorrect == Spec => []TypeOK
  <1>1. TypeInv => TypeOK
    <2>. SUFFICES ASSUME TypeInv PROVE TypeOK
      OBVIOUS
    <2>1. ToSet(shown) \subseteq Kinds /\ ToSet(ran) \subseteq Kinds
      BY DEF TypeInv, Lists, ToSet
    <2>2. ASSUME NEW refs \in Seq(RefsTo(Names)), NEW ref \in ToSet(refs)
          PROVE  ref.name \in DOMAIN items => ref.at \in {1} \cup DOMAIN items[ref.name]
      <3>1. ref \in RefsTo(Names) /\ DOMAIN items = Groups \cup {"check"}
        BY DEF ToSet, TypeInv, ItemsOK
      <3>. QED BY <3>1 DEF RefsTo
    <2>3. \A r \in ToSet(results) : r.pending \in Seq(RefsTo(Names))
      <3>1. results \in Seq(Answers)
        BY DEF TypeInv
      <3>2. \A r \in ToSet(results) : r \in Answers
        BY <3>1 DEF ToSet
      <3>. QED BY <3>2 DEF Answers
    <2>4. todo \in Seq(RefsTo(Names))
      BY DEF TypeInv
    <2>5. ASSUME NEW ref \in ToSet(todo) \cup UNION {ToSet(r.pending) : r \in ToSet(results)}
          PROVE  ref.name \in DOMAIN items => ref.at \in {1} \cup DOMAIN items[ref.name]
      <3>1. CASE ref \in ToSet(todo)
        BY <2>2, <2>4, <3>1
      <3>2. CASE ref \notin ToSet(todo)
        <4>1. PICK r \in ToSet(results) : ref \in ToSet(r.pending)
          BY <3>2
        <4>. QED BY <2>2, <2>3, <4>1
      <3>. QED BY <3>1, <3>2
    <2>6. status \in {"request", "handle", "done", "rejected"}
      BY DEF TypeInv, Statuses
    <2>7. ToSet(shown) \cup ToSet(ran) \subseteq Pseudo \cup Methods \cup Validators \cup {"require"}
      BY <2>1 DEF Kinds
    <2>. QED BY <2>5, <2>6, <2>7 DEF TypeOK
  <1>. QED BY <1>1, TypeInit, TypeNext, PTL DEF Spec

(***************************************************************************)
(* What the results of the server stand for, if the lists are orderly.     *)
(***************************************************************************)
OrderlyItems ==
  /\ \A g \in Groups : \A i \in DOMAIN items[g] : items[g][i].name \notin {"errors", "require"}
  /\ \A i \in DOMAIN items["check"] : items["check"][i] # "Notify"
  /\ \A i, j \in DOMAIN items["check"] : i < j /\ items["check"][i] = "Info" => items["check"][j] = "Info"

(* What a group waits at.                                                  *)
WaitKinds == Pseudo \cup {"reload", "info", "alert", "error", "Info", "Alert", "Error"}

Plain == Result(<<"values">>, <<>>)

(* One kind, several times only for messages.                              *)
AllOf(list, x) == \E m \in Nat : m > 0 /\ list = Repeat(x, m) /\ (x # "Info" => m = 1)

(* A result of kind x the rest has to wait for, or that ends it.           *)
Pause(last, rest, x) ==
  /\ last \in Answers /\ rest \in Lists /\ AllOf(last.kinds, x)
  /\ x \in Stoppers \/ rest = Meaning(last.pending)

(* The steps "expected" are values, and so are the results.                *)
Passed(out, expected) ==
  \E k \in Nat : out = Repeat(Plain, k) /\ expected = Repeat("values", k)

(* The results are values up to a pause, and what the pause leaves is the  *)
(* rest of what is expected.                                               *)
Paused(out, expected, kinds) ==
  \E k \in Nat, last \in Answers, rest \in Lists, x \in kinds :
    /\ out = Repeat(Plain, k) \o <<last>>
    /\ expected = Repeat("values", k) \o (last.kinds \o rest)
    /\ Pause(last, rest, x)

Good(out, expected, kinds) == Passed(out, expected) \/ Paused(out, expected, kinds)

LEMMA PlainType ==
  ASSUME NEW k \in Nat
  PROVE  /\ Plain \in Answers /\ Plain.kinds = <<"values">>
         /\ Repeat(Plain, k) \in Seq(Answers) /\ Repeat("values", k) \in Lists
  <1>1. "values" \in Kinds
    BY DEF Kinds, Methods
  <1>2. Plain.kinds = <<"values">> /\ <<"values">> \in Lists /\ <<>> \in Seq(RefsTo(Names))
    BY <1>1 DEF Plain, Result, Lists
  <1>3. Plain \in Answers
    BY <1>2 DEF Plain, Result, Answers
  <1>. QED BY <1>1, <1>2, <1>3, RepeatType DEF Lists

LEMMA GoodMore ==
  ASSUME NEW k \in Nat, NEW out \in Seq(Answers), NEW expected, NEW kinds, Good(out, expected, kinds)
  PROVE  Good(Repeat(Plain, k) \o out, Repeat("values", k) \o expected, kinds)
  <1>1. CASE Passed(out, expected)
    <2>1. PICK j \in Nat : out = Repeat(Plain, j) /\ expected = Repeat("values", j)
      BY <1>1 DEF Passed
    <2>2. /\ Repeat(Plain, k) \o out = Repeat(Plain, k + j)
          /\ Repeat("values", k) \o expected = Repeat("values", k + j)
      BY <2>1, RepeatConcat, Zenon
    <2>3. k + j \in Nat
      OBVIOUS
    <2>4. Passed(Repeat(Plain, k) \o out, Repeat("values", k) \o expected)
      BY <2>2, <2>3, Zenon DEF Passed
    <2>. QED BY <2>4 DEF Good
  <1>2. CASE Paused(out, expected, kinds)
    <2>1. PICK j \in Nat, last \in Answers, rest \in Lists, x \in kinds :
            /\ out = Repeat(Plain, j) \o <<last>>
            /\ expected = Repeat("values", j) \o (last.kinds \o rest)
            /\ Pause(last, rest, x)
      BY <1>2 DEF Paused
    <2>2. k + j \in Nat
      OBVIOUS
    <2>3. Repeat(Plain, k) \o out = Repeat(Plain, k + j) \o <<last>>
      <3>1. Repeat(Plain, k) \in Seq(Answers) /\ Repeat(Plain, j) \in Seq(Answers) /\ <<last>> \in Seq(Answers)
        BY PlainType
      <3>2. Repeat(Plain, k) \o (Repeat(Plain, j) \o <<last>>) = (Repeat(Plain, k) \o Repeat(Plain, j)) \o <<last>>
        BY <3>1, ConcatAssociative
      <3>3. Repeat(Plain, k) \o Repeat(Plain, j) = Repeat(Plain, k + j)
        BY RepeatConcat
      <3>. QED BY <2>1, <3>2, <3>3, Zenon
    <2>4. Repeat("values", k) \o expected = Repeat("values", k + j) \o (last.kinds \o rest)
      <3>1. Repeat("values", k) \in Lists /\ Repeat("values", j) \in Lists /\ last.kinds \o rest \in Lists
        <4>1. last.kinds \in Lists
          BY DEF Answers
        <4>. QED BY <4>1, PlainType, ListsJoin
      <3>2. Repeat("values", k) \o (Repeat("values", j) \o (last.kinds \o rest))
              = (Repeat("values", k) \o Repeat("values", j)) \o (last.kinds \o rest)
        BY <3>1, ListsJoin, Zenon
      <3>3. Repeat("values", k) \o Repeat("values", j) = Repeat("values", k + j)
        BY RepeatConcat
      <3>. QED BY <2>1, <3>2, <3>3, Zenon
    <2>5. Paused(Repeat(Plain, k) \o out, Repeat("values", k) \o expected, kinds)
      BY <2>1, <2>2, <2>3, <2>4, Zenon DEF Paused
    <2>. QED BY <2>5 DEF Good
  <1>. QED BY <1>1, <1>2 DEF Good

(* A pause within a group is one of what is around it.                     *)
LEMMA OnwardPause ==
  ASSUME ItemsOK, NEW owner, NEW refs, NEW names, Owns(owner, refs, names), NEW i \in 1..Len(refs),
         NEW last, NEW rest, NEW x, Pause(last, rest, x)
  PROVE  /\ Pause(Onward(owner, refs, i, last), rest \o Meaning(From(refs, i + 1)), x)
         /\ Onward(owner, refs, i, last).kinds = last.kinds
  <1>. DEFINE on == Onward(owner, refs, i, last)
              next == Meaning(From(refs, i + 1))
  <1>1. last.kinds \in Lists /\ last.pending \in Seq(RefsTo(Names)) /\ rest \in Lists
    BY DEF Pause, Answers
  <1>2. /\ Pending(owner, refs, i, last.pending) \in Seq(RefsTo(Names))
        /\ Meaning(Pending(owner, refs, i, last.pending)) = Meaning(last.pending) \o next
    BY <1>1, PendingIs
  <1>3. on \in Answers /\ on.kinds = last.kinds /\ on.pending = Pending(owner, refs, i, last.pending)
    BY <1>1, <1>2 DEF Onward, Result, Answers
  <1>4. next \in Lists
    <2>1. From(refs, i + 1) \in Seq(RefsTo(Names))
      <3>1. refs \in Seq(RefsTo(names)) /\ names \subseteq Names
        BY DEF Owns
      <3>2. From(refs, i + 1) \in Seq(RefsTo(names))
        BY <3>1 DEF From
      <3>. QED BY <3>1, <3>2, RefsToMore
    <2>. QED BY <2>1, MeaningConcat
  <1>5. rest \o next \in Lists
    BY <1>1, <1>4, ListsJoin
  <1>. HIDE DEF on, next
  <1>6. Pause(on, rest \o next, x)
    BY <1>2, <1>3, <1>5 DEF Pause
  <1>. QED BY <1>3, <1>6 DEF on, next

LEMMA AllOfOne == ASSUME NEW x PROVE AllOf(<<x>>, x)
  <1>1. <<x>> = Repeat(x, 1) /\ 1 \in Nat /\ 1 > 0
    BY DEF Repeat
  <1>. QED BY <1>1 DEF AllOf

LEMMA WaitsIs ==
  ASSUME NEW result, NEW x, AllOf(result.kinds, x)
  PROVE  Waits(result) <=> x \in WaitKinds
  <1>1. PICK m \in Nat : m > 0 /\ result.kinds = Repeat(x, m)
    BY DEF AllOf
  <1>2. ToSet(result.kinds) = {x}
    <2>1. DOMAIN Repeat(x, m) = 1..m /\ 1 \in 1..m /\ \A i \in 1..m : Repeat(x, m)[i] = x
      BY <1>1 DEF Repeat
    <2>. QED BY <1>1, <2>1 DEF ToSet
  <1>. QED BY <1>2 DEF Waits, WaitKinds

LEMMA SubSeqOne ==
  ASSUME NEW S, NEW s \in Seq(S), NEW i \in 1..Len(s)
  PROVE  SubSeq(s, i, i) = <<s[i]>>
  <1>1. SubSeq(s, i, i) = [j \in 1..1 |-> s[i + j - 1]] /\ i + 1 - 1 = i
    OBVIOUS
  <1>. QED BY <1>1

(* From any place a check shows its messages together, or one alert or     *)
(* error.                                                                  *)
LEMMA CheckMeans ==
  ASSUME ItemsOK, OrderlyItems, NEW at \in 1..(Len(items["check"]) + 1)
  PROVE  \/ Check(at).kinds = <<>> /\ From(items["check"], at) = <<>>
         \/ \E x \in {"Info", "Alert", "Error"}, rest \in Lists :
              /\ Check(at).kinds # <<>> /\ From(items["check"], at) = Check(at).kinds \o rest
              /\ Pause(Check(at), rest, x)
  <1>. DEFINE all == items["check"]
              n == Len(all)
              ends == {i \in at..n : all[i] \in {"Alert", "Error"}}
              end == CHOOSE i \in ends : \A j \in ends : i <= j
              here == From(all, at)
  <1>1. /\ all \in Seq(Validators) /\ n \in Nat /\ DOMAIN all = 1..n /\ Validators \subseteq Kinds
        /\ \A i \in 1..n : all[i] \in {"Info", "Alert", "Error"}
        /\ \A i, j \in 1..n : i < j /\ all[i] = "Info" => all[j] = "Info"
        /\ at \in 1..(n + 1)
    <2>1. all \in Seq(Validators) /\ n \in Nat /\ DOMAIN all = 1..n /\ \A i \in 1..n : all[i] \in Validators
      BY DEF ItemsOK
    <2>2. Validators \subseteq Kinds
      BY DEF Kinds
    <2>. QED BY <2>1, <2>2 DEF OrderlyItems, Validators
  <1>2. /\ here \in Lists /\ Check(at) \in Answers
        /\ (at = n + 1 => here = <<>>)
        /\ (at # n + 1 => here = <<all[at]>> \o From(all, at + 1) /\ From(all, at + 1) \in Lists)
    <2>1. /\ here \in Seq(Validators) /\ (at = n + 1 => here = <<>>)
          /\ at # n + 1 => here = <<all[at]>> \o From(all, at + 1) /\ From(all, at + 1) \in Seq(Validators)
      <3>. HIDE DEF n, all
      <3>1. all \in Seq(Validators) /\ at \in 1..(Len(all) + 1) /\ n = Len(all)
        BY <1>1 DEF n
      <3>2. /\ From(all, at) \in Seq(Validators) /\ From(all, 1) = all
            /\ at = Len(all) + 1 => From(all, at) = <<>>
            /\ at # Len(all) + 1 => /\ From(all, at) = <<all[at]>> \o From(all, at + 1) /\ all[at] \in Validators
                                   /\ From(all, at + 1) \in Seq(Validators)
        BY <3>1, FromIs, Zenon
      <3>. QED BY <3>1, <3>2
    <2>2. Seq(Validators) \subseteq Lists
      BY <1>1 DEF Lists
    <2>. QED BY <2>1, <2>2, CheckType
  <1>3. ends = {} => Check(at).kinds = here /\ Check(at).pending = <<>>
    BY DEF Check, Result
  <1>4. <<>> \in Lists /\ Meaning(<<>>) = <<>> /\ here \o <<>> = here
    BY <1>2, ListsJoin, MeaningOne
  <1>5. CASE at = n + 1
    <2>1. ends = {}
      BY <1>1, <1>5
    <2>. QED BY <1>2, <1>3, <1>5, <2>1
  <1>6. CASE at # n + 1 /\ all[at] = "Info"
    <2>1. at \in 1..n /\ \A j \in at..n : all[j] = "Info"
      BY <1>1, <1>6
    <2>2. ends = {}
      BY <2>1
    <2>3. here = Repeat("Info", n + 1 - at) /\ n + 1 - at \in Nat /\ n + 1 - at > 0
      <3>1. here = [i \in 1..(n + 1 - at) |-> all[at + i - 1]]
        BY <1>1, <2>1 DEF From
      <3>2. \A i \in 1..(n + 1 - at) : all[at + i - 1] = "Info"
        BY <1>1, <2>1
      <3>. QED BY <1>1, <2>1, <3>1, <3>2 DEF Repeat
    <2>4. AllOf(here, "Info") /\ here # <<>>
      <3>1. AllOf(here, "Info")
        BY <2>3 DEF AllOf
      <3>. QED BY <1>2, <1>6, <3>1
    <2>. HIDE DEF here, ends
    <2>5. Pause(Check(at), <<>>, "Info")
      BY <1>2, <1>3, <1>4, <2>2, <2>4 DEF Pause
    <2>6. Check(at).kinds # <<>> /\ here = Check(at).kinds \o <<>>
      BY <1>3, <1>4, <2>2, <2>4
    <2>. QED BY <1>4, <2>5, <2>6 DEF here
  <1>7. CASE at # n + 1 /\ all[at] # "Info"
    <2>. DEFINE rest == From(all, at + 1)
                x == all[at]
    <2>1. at \in 1..n /\ at \in Nat /\ x \in {"Alert", "Error"}
      BY <1>1, <1>7
    <2>2. at \in ends /\ \A j \in ends : j \in Nat /\ at <= j
      BY <1>1, <2>1
    <2>3. end = at
      <3>. HIDE DEF ends
      <3>1. end \in ends /\ \A j \in ends : end <= j
        BY <2>2, Zenon
      <3>. HIDE DEF end
      <3>. QED BY <2>1, <2>2, <3>1
    <2>4. Check(at) = Result(SubSeq(all, at, end),
                             IF all[end] = "Alert" /\ end < n THEN <<Ref("check", end + 1)>> ELSE <<>>)
      <3>. HIDE DEF end
      <3>1. ends # {}
        BY <2>2
      <3>. QED BY <3>1, Zenon DEF Check, end
    <2>5. SubSeq(all, at, at) = <<x>>
      BY <1>1, <2>1, SubSeqOne
    <2>6. /\ Check(at).kinds = <<x>>
          /\ Check(at).pending = IF x = "Alert" /\ at < n THEN <<Ref("check", at + 1)>> ELSE <<>>
      <3>. HIDE DEF end
      <3>1. Check(at) = Result(<<x>>, IF x = "Alert" /\ at < n THEN <<Ref("check", at + 1)>> ELSE <<>>)
        BY <2>3, <2>4, <2>5, Zenon
      <3>. QED BY <3>1 DEF Result
    <2>7. AllOf(<<x>>, x)
      BY AllOfOne
    <2>8. x = "Error" \/ rest = Meaning(Check(at).pending)
      <3>1. CASE at = n
        <4>1. rest = <<>>
          BY <1>1, <3>1, SubSeqEmpty DEF From
        <4>. QED BY <1>4, <2>6, <3>1, <4>1
      <3>2. CASE at # n
        <4>1. at + 1 \in 1..n /\ at < n /\ "check" \in Groups \cup {"check"}
          BY <1>1, <2>1, <3>2
        <4>2. Meaning(<<Ref("check", at + 1)>>) = rest
          BY <4>1, MeaningOfRest
        <4>. QED BY <2>1, <2>6, <4>1, <4>2
      <3>. QED BY <3>1, <3>2
    <2>. HIDE DEF rest, x
    <2>9. Pause(Check(at), rest, x)
      BY <1>2, <1>7, <2>6, <2>7, <2>8 DEF Pause, Stoppers, rest
    <2>10. Check(at).kinds # <<>> /\ here = Check(at).kinds \o rest /\ rest \in Lists
      BY <1>2, <1>7, <2>6 DEF rest, x
    <2>. QED BY <2>1, <2>9, <2>10
  <1>. QED BY <1>5, <1>6, <1>7

(* The results of the groups a list may name stand for their items. *)
Sound(names, below) ==
  /\ Prepared(names, below)
  /\ \A g \in Groups \cap names : \A at \in Places(g) : \A out \in below[g][at] :
       Good(out, GroupSteps[g][at], WaitKinds)

(* What a list may pause at: a group does not hold a step that fails it.   *)
Allowed(names, kinds) == WaitKinds \subseteq kinds /\ names \cap {"errors", "require"} \subseteq kinds

(* The results of a step are values, or they pause. *)
StepResults(owner, refs, i, out, kinds) ==
  \/ ~Stops(refs, i, out) /\ Passed(out, Stands(refs[i]))
  \/ Stops(refs, i, out) /\ Good(out, Stands(refs[i]) \o Meaning(From(refs, i + 1)), kinds)

(* A single result that pauses. *)
LEMMA OnePause ==
  ASSUME NEW last \in Answers, NEW rest \in Lists, NEW kinds, NEW x \in kinds, Pause(last, rest, x)
  PROVE  Good(<<last>>, last.kinds \o rest, kinds)
  <1>1. Repeat(Plain, 0) \o <<last>> = <<last>>
    <2>1. Repeat(Plain, 0) = <<>> /\ <<last>> \in Seq(Answers)
      BY RepeatNone
    <2>. QED BY <2>1, ConcatEmptySeq
  <1>2. Repeat("values", 0) \o (last.kinds \o rest) = last.kinds \o rest
    <2>1. Repeat("values", 0) = <<>> /\ last.kinds \in Lists
      BY RepeatNone DEF Answers
    <2>. QED BY <2>1, ListsJoin
  <1>3. 0 \in Nat
    OBVIOUS
  <1>4. Paused(<<last>>, last.kinds \o rest, kinds)
    BY <1>1, <1>2, <1>3, Zenon DEF Paused
  <1>. QED BY <1>4 DEF Good

(* Where an item of a list is, and what is after it. *)
LEMMA ItemPlace ==
  ASSUME ItemsOK, NEW owner, NEW refs, NEW names, Owns(owner, refs, names), NEW i \in 1..Len(refs)
  PROVE  /\ refs[i] \in RefsTo(names) /\ refs[i] \in RefsTo(Names) /\ refs[i].name \in names /\ names \subseteq Names
         /\ Meaning(From(refs, i + 1)) \in Lists /\ Stands(refs[i]) \in Lists
         /\ Meaning(From(refs, i)) = Stands(refs[i]) \o Meaning(From(refs, i + 1))
         /\ Len(refs) \in Nat /\ Meaning(From(refs, Len(refs) + 1)) = <<>>
  <1>. DEFINE n == Len(refs)
              rest == From(refs, i + 1)
  <1>1. names \subseteq Names /\ refs \in Seq(RefsTo(names)) /\ refs \in Seq(RefsTo(Names))
    <2>1. names \subseteq Names /\ refs \in Seq(RefsTo(names))
      BY DEF Owns
    <2>. QED BY <2>1, RefsToMore
  <1>2. refs[i] \in RefsTo(names) /\ refs[i] \in RefsTo(Names) /\ n \in Nat /\ i \in 1..(n + 1) /\ i # n + 1
    BY <1>1
  <1>3. refs[i].name \in names
    BY <1>2 DEF RefsTo
  <1>4. From(refs, i) = <<refs[i]>> \o rest /\ rest \in Seq(RefsTo(Names))
    BY <1>1, <1>2, RefsFrom
  <1>5. Meaning(From(refs, n + 1)) = <<>>
    <2>1. n + 1 \in 1..(n + 1)
      BY <1>2
    <2>2. From(refs, n + 1) = <<>>
      BY <1>1, <2>1, RefsFrom
    <2>. QED BY <2>2, MeaningOne
  <1>. HIDE DEF n, rest
  <1>6. <<refs[i]>> \in Seq(RefsTo(Names)) /\ Meaning(<<refs[i]>>) = Stands(refs[i]) /\ Stands(refs[i]) \in Lists
    BY <1>2, MeaningOne
  <1>7. Meaning(<<refs[i]>> \o rest) = Meaning(<<refs[i]>>) \o Meaning(rest) /\ Meaning(rest) \in Lists
    BY <1>4, <1>6, MeaningConcat
  <1>. QED BY <1>1, <1>2, <1>3, <1>4, <1>5, <1>6, <1>7 DEF n, rest

LEMMA CheckStep ==
  ASSUME ItemsOK, OrderlyItems, NEW owner, NEW refs, NEW names, Owns(owner, refs, names),
         NEW i \in 1..Len(refs), NEW kinds, Allowed(names, kinds), refs[i].name = "check",
         NEW out, \/ Check(refs[i].at).kinds = <<>> /\ out = <<>>
                  \/ /\ Check(refs[i].at).kinds # <<>>
                     /\ out = <<Onward(owner, refs, i, Check(refs[i].at))>>
  PROVE  StepResults(owner, refs, i, out, kinds)
  <1>. DEFINE at == refs[i].at
              here == Stands(refs[i])
              next == Meaning(From(refs, i + 1))
              on == Onward(owner, refs, i, Check(at))
  <1>1. at \in 1..(Len(items["check"]) + 1) /\ here = From(items["check"], at)
    <2>1. refs[i] \in RefsTo(names) /\ names \subseteq Names
      BY ItemPlace
    <2>2. at \in 1..(Len(items["check"]) + 1)
      BY <2>1, PlacesAre
    <2>. QED BY <2>2 DEF Stands, Groups
  <1>2. next \in Lists
    BY ItemPlace
  <1>3. CASE Check(at).kinds = <<>>
    <2>1. out = <<>> /\ ~Stops(refs, i, out)
      BY <1>3 DEF Stops
    <2>2. here = <<>>
      BY <1>1, <1>3, CheckMeans
    <2>3. Repeat(Plain, 0) = <<>> /\ Repeat("values", 0) = <<>> /\ 0 \in Nat
      BY RepeatNone
    <2>4. Passed(out, here)
      BY <2>1, <2>2, <2>3, Zenon DEF Passed
    <2>. QED BY <2>1, <2>4 DEF StepResults
  <1>4. CASE Check(at).kinds # <<>>
    <2>1. PICK x \in {"Info", "Alert", "Error"}, rest \in Lists :
            here = Check(at).kinds \o rest /\ Pause(Check(at), rest, x)
      BY <1>1, <1>4, CheckMeans, Zenon
    <2>2. Pause(on, rest \o next, x) /\ on.kinds = Check(at).kinds
      BY <2>1, OnwardPause
    <2>3. out = <<on>> /\ Stops(refs, i, out)
      <3>1. out = <<on>> /\ out # <<>>
        BY <1>4
      <3>. QED BY <3>1 DEF Stops
    <2>4. rest \o next \in Lists /\ on \in Answers /\ Check(at).kinds \in Lists
      BY <2>1, <2>2 DEF Pause, Answers
    <2>5. x \in kinds
      BY <2>1 DEF Allowed, WaitKinds
    <2>6. Good(<<on>>, on.kinds \o (rest \o next), kinds)
      BY <2>2, <2>4, <2>5, OnePause
    <2>. HIDE DEF at, here, next, on
    <2>7. on.kinds \o (rest \o next) = here \o next
      <3>1. JoinAlike(Check(at).kinds, rest, next)
        BY <1>2, <2>4, JoinThree, Zenon
      <3>. QED BY <2>1, <2>2, <3>1, Zenon DEF JoinAlike
    <2>. QED BY <2>3, <2>6, <2>7 DEF StepResults, here, next
  <1>. QED BY <1>3, <1>4

LEMMA GroupStep ==
  ASSUME ItemsOK, NEW owner, NEW refs, NEW names, Owns(owner, refs, names), NEW below, Sound(names, below),
         NEW i \in 1..Len(refs), NEW kinds, Allowed(names, kinds), refs[i].name \in Groups,
         NEW inner \in below[refs[i].name][refs[i].at],
         NEW out, \/ out = inner /\ ~(inner # <<>> /\ Waits(Last(inner)))
                  \/ /\ inner # <<>> /\ Waits(Last(inner))
                     /\ out = Append(Front(inner), Onward(owner, refs, i, Last(inner)))
  PROVE  StepResults(owner, refs, i, out, kinds)
  <1>. DEFINE name == refs[i].name
              at == refs[i].at
              here == Stands(refs[i])
              next == Meaning(From(refs, i + 1))
  <1>1. name \in names /\ at \in Places(name) /\ here = GroupSteps[name][at] /\ here \in Lists /\ next \in Lists
    <2>1. refs[i] \in RefsTo(names) /\ name \in names /\ names \subseteq Names /\ here \in Lists /\ next \in Lists
      BY ItemPlace
    <2>2. at \in Places(name)
      BY <2>1, PlacesAre DEF Places
    <2>. QED BY <2>1, <2>2 DEF Stands
  <1>2. inner \in Seq(Answers) /\ Good(inner, here, WaitKinds)
    BY <1>1 DEF Sound, Prepared
  <1>3. CASE Passed(inner, here)
    <2>1. PICK k \in Nat : inner = Repeat(Plain, k)
      BY <1>3 DEF Passed
    <2>2. inner # <<>> => Last(inner) = Plain
      <3>1. Len(Repeat(Plain, k)) = k /\ \A j \in 1..k : Repeat(Plain, k)[j] = Plain
        BY DEF Repeat
      <3>2. k = 0 => Repeat(Plain, k) = <<>>
        BY RepeatNone
      <3>. QED BY <2>1, <3>1, <3>2 DEF Last
    <2>3. ~Waits(Plain) /\ Plain.kinds # <<"errors">>
      <3>1. Plain.kinds = <<"values">> /\ "values" \notin WaitKinds
        BY PlainType DEF WaitKinds, Pseudo
      <3>2. AllOf(Plain.kinds, "values")
        BY <3>1, AllOfOne
      <3>. QED BY <3>1, <3>2, WaitsIs
    <2>4. out = inner
      BY <2>2, <2>3
    <2>5. ~Stops(refs, i, out)
      BY <2>2, <2>3, <2>4 DEF Stops, Groups
    <2>. QED BY <1>3, <2>4, <2>5 DEF StepResults
  <1>4. CASE Paused(inner, here, WaitKinds)
    <2>1. PICK k \in Nat, last \in Answers, rest \in Lists, x \in WaitKinds :
            /\ inner = Repeat(Plain, k) \o <<last>>
            /\ here = Repeat("values", k) \o (last.kinds \o rest)
            /\ Pause(last, rest, x)
      BY <1>4 DEF Paused
    <2>. DEFINE on == Onward(owner, refs, i, last)
    <2>2. inner # <<>> /\ Front(inner) = Repeat(Plain, k) /\ Last(inner) = last
      <3>1. Repeat(Plain, k) \in Seq(Answers)
        BY PlainType
      <3>. QED BY <2>1, <3>1, EndsOf
    <2>3. Pause(on, rest \o next, x) /\ on.kinds = last.kinds
      BY <2>1, OnwardPause
    <2>4. rest \o next \in Lists /\ on \in Answers /\ last.kinds \in Lists
      BY <2>1, <2>3 DEF Pause, Answers
    <2>5. Waits(last) /\ Waits(on)
      <3>1. AllOf(last.kinds, x) /\ AllOf(on.kinds, x)
        BY <2>1, <2>3 DEF Pause
      <3>. QED BY <3>1, WaitsIs
    <2>. HIDE DEF on, here, next
    <2>6. out = Repeat(Plain, k) \o <<on>> /\ Last(out) = on /\ out # <<>>
      <3>1. Repeat(Plain, k) \in Seq(Answers)
        BY PlainType
      <3>2. out = Append(Repeat(Plain, k), on)
        BY <2>2, <2>5 DEF on
      <3>3. out = Repeat(Plain, k) \o <<on>>
        BY <2>4, <3>1, <3>2
      <3>. QED BY <2>4, <3>1, <3>3, EndsOf
    <2>7. Stops(refs, i, out)
      BY <2>5, <2>6 DEF Stops
    <2>8. here \o next = Repeat("values", k) \o (on.kinds \o (rest \o next))
      <3>1. Repeat("values", k) \in Lists
        BY PlainType
      <3>2. last.kinds \in Lists /\ rest \in Lists /\ next \in Lists
        BY <1>1, <2>4
      <3>3. JoinAlikeInside(Repeat("values", k), last.kinds, rest, next)
        BY <3>1, <3>2, JoinFour, Zenon
      <3>. QED BY <2>1, <2>3, <3>3, Zenon DEF JoinAlikeInside
    <2>9. x \in kinds
      BY DEF Allowed
    <2>10. Paused(out, here \o next, kinds)
      BY <2>3, <2>4, <2>6, <2>8, <2>9, Zenon DEF Paused
    <2>. QED BY <2>7, <2>10 DEF StepResults, Good, here, next
  <1>. QED BY <1>2, <1>3, <1>4 DEF Good

LEMMA SimpleStep ==
  ASSUME ItemsOK, NEW owner, NEW refs, NEW names, Owns(owner, refs, names),
         NEW i \in 1..Len(refs), NEW kinds, Allowed(names, kinds), refs[i].name \notin Groups \cup {"check"},
         NEW out, \/ /\ refs[i].name \in {"values", "errors", "require"}
                     /\ out = <<Result(<<refs[i].name>>, <<>>)>>
                  \/ /\ refs[i].name \notin {"values", "errors", "require"}
                     /\ out = <<Onward(owner, refs, i, Result(<<refs[i].name>>, <<>>))>>
  PROVE  StepResults(owner, refs, i, out, kinds)
  <1>. DEFINE name == refs[i].name
              next == Meaning(From(refs, i + 1))
              answer == Result(<<name>>, <<>>)
              on == Onward(owner, refs, i, answer)
  <1>1. name \in Kinds /\ name \in names /\ next \in Lists /\ name \in Names
    <2>1. name \in names /\ names \subseteq Names /\ next \in Lists
      BY ItemPlace
    <2>. QED BY <2>1 DEF Names, Kinds
  <1>2. Stands(refs[i]) = <<name>>
    BY DEF Stands
  <1>. HIDE DEF name, next
  <1>3. <<name>> \in Lists /\ answer \in Answers /\ answer.kinds = <<name>> /\ answer.pending = <<>>
    <2>1. <<name>> \in Lists /\ <<>> \in Seq(RefsTo(Names))
      BY <1>1 DEF Lists
    <2>. QED BY <2>1 DEF Result, Answers
  <1>4. AllOf(<<name>>, name) /\ <<>> \in Lists /\ Meaning(<<>>) = <<>> /\ <<>> \o next = next
    BY <1>1, AllOfOne, ListsJoin, MeaningOne
  <1>. HIDE DEF answer
  <1>5. CASE name = "values"
    <2>1. out = <<Plain>>
      BY <1>5 DEF name, answer, Plain
    <2>2. ~Waits(Plain)
      <3>1. Plain.kinds = <<"values">> /\ "values" \notin WaitKinds
        BY PlainType DEF WaitKinds, Pseudo
      <3>. QED BY <1>4, <1>5, <3>1, WaitsIs
    <2>3. Last(out) = Plain
      BY <2>1 DEF Last
    <2>4. ~Stops(refs, i, out)
      BY <1>5, <2>2, <2>3 DEF Stops, Groups, name
    <2>5. Passed(out, <<name>>)
      <3>1. Repeat(Plain, 1) = <<Plain>> /\ Repeat("values", 1) = <<"values">> /\ 1 \in Nat
        BY RepeatNone
      <3>. QED BY <1>5, <2>1, <3>1, Zenon DEF Passed
    <2>. QED BY <1>2, <2>4, <2>5 DEF StepResults
  <1>6. CASE name \in {"errors", "require"}
    <2>1. out = <<answer>>
      BY <1>6 DEF name, answer
    <2>2. Stops(refs, i, out)
      BY <1>6, <2>1 DEF Stops, name
    <2>3. Pause(answer, next, name)
      BY <1>1, <1>3, <1>4, <1>6 DEF Pause, Stoppers
    <2>4. name \in kinds
      BY <1>1, <1>6 DEF Allowed
    <2>5. Good(<<answer>>, answer.kinds \o next, kinds)
      BY <1>1, <1>3, <2>3, <2>4, OnePause
    <2>. QED BY <1>2, <1>3, <2>1, <2>2, <2>5 DEF StepResults, next
  <1>7. CASE name \notin {"values", "errors", "require"}
    <2>1. out = <<on>>
      BY <1>7 DEF name, answer
    <2>2. Pause(answer, <<>>, name)
      BY <1>3, <1>4 DEF Pause
    <2>3. Pause(on, <<>> \o next, name) /\ on.kinds = answer.kinds
      BY <2>2, OnwardPause DEF next
    <2>. HIDE DEF on
    <2>4. Pause(on, next, name) /\ on.kinds = <<name>> /\ on \in Answers
      BY <1>3, <1>4, <2>3 DEF Pause
    <2>5. name \in WaitKinds
      <3>1. name \notin Groups \cup {"check"}
        BY DEF name
      <3>. QED BY <1>1, <1>7, <3>1 DEF Names, Methods, WaitKinds
    <2>6. Waits(on) /\ Last(out) = on /\ out # <<>>
      <3>1. AllOf(on.kinds, name)
        BY <1>4, <2>4
      <3>2. Waits(on)
        BY <2>5, <3>1, WaitsIs
      <3>. QED BY <2>1, <3>2 DEF Last
    <2>7. Stops(refs, i, out)
      BY <2>6 DEF Stops
    <2>8. name \in kinds
      BY <2>5 DEF Allowed
    <2>9. Good(<<on>>, on.kinds \o next, kinds)
      BY <1>1, <2>4, <2>8, OnePause
    <2>. QED BY <1>2, <2>1, <2>4, <2>7, <2>9 DEF StepResults, next
  <1>. QED BY <1>5, <1>6, <1>7

LEMMA ItemMeans ==
  ASSUME ItemsOK, OrderlyItems, NEW owner, NEW refs, NEW names, Owns(owner, refs, names),
         NEW below, Sound(names, below), NEW i \in 1..Len(refs), NEW kinds, Allowed(names, kinds),
         NEW out \in Item(owner, refs, i, below)
  PROVE  StepResults(owner, refs, i, out, kinds)
  <1>. DEFINE name == refs[i].name
              at == refs[i].at
  <1>1. IsItem(owner, refs, i, below, out)
    BY ItemIs
  <1>2. "check" \notin Groups /\ {"values", "errors", "require"} \cap (Groups \cup {"check"}) = {}
    BY DEF Groups
  <1>3. CASE name = "check"
    <2>1. \/ Check(at).kinds = <<>> /\ out = <<>>
          \/ Check(at).kinds # <<>> /\ out = <<Onward(owner, refs, i, Check(at))>>
      BY <1>1, <1>2, <1>3 DEF IsItem
    <2>. QED BY <1>3, <2>1, CheckStep
  <1>4. CASE name \in Groups
    <2>1. PICK inner \in below[name][at] :
            \/ out = inner /\ ~(inner # <<>> /\ Waits(Last(inner)))
            \/ /\ inner # <<>> /\ Waits(Last(inner))
               /\ out = Append(Front(inner), Onward(owner, refs, i, Last(inner)))
      BY <1>1, <1>2, <1>4 DEF IsItem
    <2>. QED BY <1>4, <2>1, GroupStep
  <1>5. CASE name \notin Groups \cup {"check"}
    <2>1. \/ name \in {"values", "errors", "require"} /\ out = <<Result(<<name>>, <<>>)>>
          \/ /\ name \notin {"values", "errors", "require"}
             /\ out = <<Onward(owner, refs, i, Result(<<name>>, <<>>))>>
      BY <1>1, <1>5 DEF IsItem
    <2>. QED BY <1>5, <2>1, SimpleStep
  <1>. QED BY <1>3, <1>4, <1>5

(* The results from one item on are sound if those from the next one on    *)
(* are.                                                                    *)
LEMMA BeforeMeans ==
  ASSUME ItemsOK, OrderlyItems, NEW owner, NEW refs, NEW names, Owns(owner, refs, names),
         NEW below, Sound(names, below), NEW i \in 1..Len(refs), NEW kinds, Allowed(names, kinds),
         NEW later \in SUBSET Seq(Answers), \A rest \in later : Good(rest, Meaning(From(refs, i + 1)), kinds),
         NEW out \in Before(owner, refs, below, i, later)
  PROVE  Good(out, Meaning(From(refs, i)), kinds)
  <1>. DEFINE here == Stands(refs[i])
              next == Meaning(From(refs, i + 1))
  <1>1. Meaning(From(refs, i)) = here \o next
    BY ItemPlace
  <1>2. PICK item \in Item(owner, refs, i, below) :
          out \in IF Stops(refs, i, item) THEN {item} ELSE {item \o rest : rest \in later}
    BY DEF Before
  <1>3. \/ ~Stops(refs, i, item) /\ Passed(item, here)
        \/ Stops(refs, i, item) /\ Good(item, here \o next, kinds)
    BY ItemMeans DEF StepResults
  <1>. HIDE DEF here, next
  <1>4. CASE Stops(refs, i, item)
    BY <1>1, <1>2, <1>3, <1>4
  <1>5. CASE ~Stops(refs, i, item)
    <2>1. PICK rest \in later : out = item \o rest
      BY <1>2, <1>5
    <2>2. PICK k \in Nat : item = Repeat(Plain, k) /\ here = Repeat("values", k)
      BY <1>3, <1>5 DEF Passed
    <2>3. rest \in Seq(Answers) /\ Good(rest, next, kinds)
      BY DEF next
    <2>4. Good(Repeat(Plain, k) \o rest, Repeat("values", k) \o next, kinds)
      BY <2>3, GoodMore
    <2>. QED BY <1>1, <2>1, <2>2, <2>4
  <1>. QED BY <1>4, <1>5

LEMMA ListMeans ==
  ASSUME ItemsOK, OrderlyItems, NEW owner, NEW refs, NEW names, Owns(owner, refs, names),
         NEW below, Sound(names, below), NEW kinds, Allowed(names, kinds),
         NEW i \in 1..(Len(refs) + 1), NEW out \in Evaluate(owner, refs, below)[i]
  PROVE  Good(out, Meaning(From(refs, i)), kinds)
  <1>. DEFINE from == Evaluate(owner, refs, below)
              n == Len(refs)
              Fits(j) == \A o \in from[j] : Good(o, Meaning(From(refs, j)), kinds)
              T == {k \in 0..n : Fits(n + 1 - k)}
  <1>1. n \in Nat /\ refs \in Seq(RefsTo(Names)) /\ n + 1 \in 1..(n + 1)
    <2>1. refs \in Seq(RefsTo(names)) /\ names \subseteq Names
      BY DEF Owns
    <2>. QED BY <2>1, RefsToMore
  <1>2. /\ from \in [1..(n + 1) -> SUBSET Seq(Answers)] /\ from[n + 1] = {<<>>}
        /\ \A j \in 1..n : from[j] = Before(owner, refs, below, j, from[j + 1])
    <2>. HIDE DEF from, n
    <2>1. Prepared(names, below)
      BY DEF Sound
    <2>2. from = Evaluate(owner, refs, below) /\ n = Len(refs)
      BY DEF from, n
    <2>3. IsEvaluation(from, n, owner, refs, below)
      BY <2>1, <2>2, EvaluateIs, Zenon
    <2>. QED BY <2>3 DEF IsEvaluation
  <1>. HIDE DEF from
  <1>3. Fits(n + 1)
    <2>1. From(refs, n + 1) = <<>> /\ Meaning(<<>>) = <<>>
      <3>1. From(refs, n + 1) = <<>>
        BY <1>1, RefsFrom
      <3>. QED BY <3>1, MeaningOne
    <2>2. Repeat(Plain, 0) = <<>> /\ Repeat("values", 0) = <<>> /\ 0 \in Nat
      BY RepeatNone
    <2>3. Good(<<>>, <<>>, kinds)
      BY <2>2, Zenon DEF Good, Passed
    <2>. QED BY <1>2, <2>1, <2>3
  <1>4. ASSUME NEW j \in 1..n, Fits(j + 1) PROVE Fits(j)
    <2>. DEFINE later == from[j + 1]
    <2>1. later \in SUBSET Seq(Answers)
      <3>1. j + 1 \in 1..(n + 1)
        BY <1>1
      <3>. QED BY <1>2, <3>1
    <2>2. from[j] = Before(owner, refs, below, j, later)
      BY <1>2
    <2>3. \A rest \in later : Good(rest, Meaning(From(refs, j + 1)), kinds)
      BY <1>4
    <2>. HIDE DEF later
    <2>4. ASSUME NEW o \in Before(owner, refs, below, j, later) PROVE Good(o, Meaning(From(refs, j)), kinds)
      BY <2>1, <2>3, BeforeMeans
    <2>. QED BY <2>2, <2>4
  <1>. HIDE DEF Fits
  <1>5. 0..n \subseteq T
    <2>1. 0 \in T
      <3>1. 0 \in 0..n /\ n + 1 - 0 = n + 1
        BY <1>1
      <3>. QED BY <1>3, <3>1
    <2>2. ASSUME NEW k \in 1..n, k - 1 \in T PROVE k \in T
      <3>. DEFINE j == n + 1 - k
      <3>1. j \in 1..n /\ n + 1 - (k - 1) = j + 1 /\ k \in 0..n
        BY <1>1
      <3>. HIDE DEF j
      <3>2. Fits(j + 1)
        BY <2>2, <3>1
      <3>3. Fits(j)
        BY <1>4, <3>1, <3>2
      <3>. QED BY <3>1, <3>3 DEF j
    <2>. HIDE DEF T
    <2>. QED BY <1>1, <2>1, <2>2, EveryRound, Zenon
  <1>6. Fits(i)
    <2>1. n + 1 - i \in 0..n /\ n + 1 - (n + 1 - i) = i
      BY <1>1
    <2>. QED BY <1>5, <2>1
  <1>. QED BY <1>6 DEF Fits, from

LEMMA SeqWithin ==
  ASSUME NEW A, NEW B, NEW s \in Seq(A), \A i \in DOMAIN s : s[i] \in B
  PROVE  s \in Seq(B)
  <1>1. Len(s) \in Nat /\ s = [i \in 1..Len(s) |-> s[i]] /\ \A i \in 1..Len(s) : s[i] \in B
    OBVIOUS
  <1>. QED BY <1>1

LEMMA RefsWithout ==
  ASSUME NEW names, NEW failing, NEW s \in Seq(RefsTo(names)), \A i \in DOMAIN s : s[i].name \notin failing
  PROVE  s \in Seq(RefsTo(names \ failing))
  <1>1. \A i \in DOMAIN s : s[i] \in RefsTo(names)
    OBVIOUS
  <1>2. \A ref \in RefsTo(names) : ref.name \notin failing => ref \in RefsTo(names \ failing)
    BY DEF RefsTo
  <1>3. \A i \in DOMAIN s : s[i] \in RefsTo(names \ failing)
    BY <1>1, <1>2
  <1>. QED BY <1>3, SeqWithin, Zenon

(* The results of a group stand for the steps of the group. *)
LEMMA GroupsMean ==
  ASSUME ItemsOK, OrderlyItems
  PROVE  Sound(Names, GroupResults)
  <1>. DEFINE failing == {"errors", "require"}
              leaves == (Names \ Groups) \ failing
              nodes == (Names \ {"outer"}) \ failing
  <1>1. /\ Groups \cap leaves = {} /\ Groups \cap nodes = {"inner"}
        /\ Groups = {"inner", "outer"} /\ Groups \subseteq Names
        /\ Allowed(leaves, WaitKinds) /\ Allowed(nodes, WaitKinds)
    BY DEF Groups, Names, Allowed
  <1>2. Owns("inner", items["inner"], leaves) /\ Owns("outer", items["outer"], nodes)
    <2>1. items["inner"] \in Seq(RefsTo(Names \ Groups)) /\ items["outer"] \in Seq(RefsTo(Names \ {"outer"}))
      BY DEF ItemsOK
    <2>2. /\ \A i \in DOMAIN items["inner"] : items["inner"][i].name \notin failing
          /\ \A i \in DOMAIN items["outer"] : items["outer"][i].name \notin failing
      BY <1>1 DEF OrderlyItems
    <2>. HIDE DEF failing
    <2>3. items["inner"] \in Seq(RefsTo(leaves)) /\ items["outer"] \in Seq(RefsTo(nodes))
      BY <2>1, <2>2, RefsWithout, Zenon
    <2>. HIDE DEF leaves, nodes
    <2>. QED BY <1>1, <2>3 DEF Owns, leaves, nodes
  <1>. HIDE DEF leaves, nodes, failing
  <1>3. /\ \A g \in Groups : \A at \in Places(g) : GroupResults[g][at] \in SUBSET Seq(Answers)
        /\ GroupResults["inner"] = Evaluate("inner", items["inner"], <<>>)
    BY GroupResultsType
  <1>4. PICK below : GroupResults["outer"] = Evaluate("outer", items["outer"], below) /\ below["inner"] = GroupResults["inner"]
    BY GroupResultsType
  <1>5. ASSUME NEW at \in Places("inner"), NEW out \in GroupResults["inner"][at]
        PROVE  Good(out, GroupSteps["inner"][at], WaitKinds)
    <2>1. Sound(leaves, <<>>)
      BY <1>1 DEF Sound, Prepared
    <2>2. at \in 1..(Len(items["inner"]) + 1) /\ out \in Evaluate("inner", items["inner"], <<>>)[at]
      BY <1>3 DEF Places
    <2>3. Good(out, Meaning(From(items["inner"], at)), WaitKinds)
      BY <1>1, <1>2, <2>1, <2>2, ListMeans, Zenon
    <2>. QED BY <1>1, <2>3, GroupStepsAre
  <1>6. ASSUME NEW at \in Places("outer"), NEW out \in GroupResults["outer"][at]
        PROVE  Good(out, GroupSteps["outer"][at], WaitKinds)
    <2>1. Sound(nodes, below)
      BY <1>1, <1>3, <1>4, <1>5 DEF Sound, Prepared
    <2>2. at \in 1..(Len(items["outer"]) + 1) /\ out \in Evaluate("outer", items["outer"], below)[at]
      BY <1>4 DEF Places
    <2>3. Good(out, Meaning(From(items["outer"], at)), WaitKinds)
      BY <1>1, <1>2, <2>1, <2>2, ListMeans, Zenon
    <2>. QED BY <1>1, <2>3, GroupStepsAre
  <1>. QED BY <1>1, <1>3, <1>5, <1>6 DEF Sound, Prepared

(* The answer to a request stands for what was asked for. *)
LEMMA ExecuteMeans ==
  ASSUME ItemsOK, OrderlyItems, todo \in Seq(RefsTo(Names)), NEW out \in Execute
  PROVE  Good(out, Meaning(todo), Awaited)
  <1>1. Owns("", todo, Names)
    BY ExecuteType
  <1>2. Sound(Names, GroupResults)
    BY GroupsMean
  <1>3. Allowed(Names, Awaited)
    BY DEF Allowed, WaitKinds, Awaited, Stoppers
  <1>4. 1 \in 1..(Len(todo) + 1) /\ From(todo, 1) = todo
    <2>1. 1 \in 1..(Len(todo) + 1)
      OBVIOUS
    <2>. QED BY <2>1, RefsFrom
  <1>5. out \in Evaluate("", todo, GroupResults)[1]
    BY DEF Execute
  <1>6. Good(out, Meaning(From(todo, 1)), Awaited)
    BY <1>1, <1>2, <1>3, <1>4, <1>5, ListMeans, Zenon
  <1>. QED BY <1>4, <1>6

(***************************************************************************)
(* The order of the steps.                                                 *)
(***************************************************************************)

(* The places of one list after another. *)
IsJoin(c, a, b) ==
  /\ c \in Lists /\ SubSeq(c, 1, Len(a)) = a /\ Len(c) = Len(a) + Len(b) /\ Len(a) \in Nat /\ Len(b) \in Nat
  /\ \A i \in 1..Len(a) : c[i] = a[i]
  /\ \A i \in 1..Len(b) : c[Len(a) + i] = b[i]

LEMMA StartOf ==
  ASSUME NEW a \in Lists, NEW b \in Lists, NEW c, c = a \o b
  PROVE  IsJoin(c, a, b)
  <1>. DEFINE m == Len(a)
  <1>1. /\ c \in Seq(Kinds) /\ Len(c) = m + Len(b) /\ m \in Nat /\ Len(b) \in Nat /\ a \in Seq(Kinds)
        /\ \A i \in 1..m : c[i] = a[i]
        /\ \A i \in 1..Len(b) : c[m + i] = b[i]
    BY DEF Lists
  <1>2. SubSeq(c, 1, m) = a
    <2>. DEFINE d == SubSeq(c, 1, m)
    <2>1. d \in Seq(Kinds) /\ Len(d) = m /\ \A i \in 1..m : d[i] = a[i]
      BY <1>1
    <2>. HIDE DEF d
    <2>2. d = a
      BY <1>1, <2>1
    <2>. QED BY <2>2 DEF d
  <1>. QED BY <1>1, <1>2 DEF IsJoin, Lists

(* The methods of values are values. *)
LEMMA ValuesMade ==
  ASSUME NEW n \in Nat
  PROVE  /\ MethodsOf(Repeat(Plain, n)) = Repeat("values", n) /\ Only(Repeat("values", n), Methods) = Repeat("values", n)
         /\ Repeat("values", n) \in Lists
  <1>. DEFINE T == {i \in 0..n : MethodsOf(Repeat(Plain, i)) = Repeat("values", i)}
  <1>1. \A i \in Nat : Repeat("values", i) \in Lists /\ Repeat(Plain, i) \in Seq(Answers) /\ Plain \in Answers
    BY PlainType
  <1>2. Only(<<"values">>, Methods) = <<"values">> /\ \A i \in Nat : Only(Repeat("values", i), Methods) = Repeat("values", i)
    <2>1. ASSUME NEW i \in Nat PROVE Only(Repeat("values", i), Methods) = Repeat("values", i)
      <3>1. \A j \in 1..Len(Repeat("values", i)) : Repeat("values", i)[j] \in Methods
        BY DEF Repeat, Methods
      <3>. QED BY <1>1, <3>1, OnlyAll
    <2>2. Only(Repeat("values", 1), Methods) = Repeat("values", 1)
      BY <2>1
    <2>. QED BY <2>1, <2>2, RepeatNone
  <1>3. 0 \in T
    <2>1. MethodsOf(<<>>) = <<>> /\ 0 \in 0..n
      <3>1. Plain \in Answers
        BY PlainType
      <3>2. MethodsOf(<<>>) = <<>>
        BY <3>1, MethodsOne
      <3>. QED BY <3>2
    <2>. QED BY <2>1, RepeatNone
  <1>4. ASSUME NEW i \in 1..n, i - 1 \in T PROVE i \in T
    <2>. DEFINE j == i - 1
    <2>1. j \in Nat /\ i = j + 1 /\ i \in 0..n /\ MethodsOf(Repeat(Plain, j)) = Repeat("values", j)
      BY <1>4
    <2>. HIDE DEF j
    <2>2. Repeat(Plain, i) = Repeat(Plain, j) \o <<Plain>> /\ Repeat("values", i) = Repeat("values", j) \o <<"values">>
      BY <2>1, RepeatMore
    <2>3. MethodsOf(<<Plain>>) = <<"values">>
      BY <1>1, <1>2, MethodsOne, PlainType
    <2>4. Repeat(Plain, j) \in Seq(Answers) /\ <<Plain>> \in Seq(Answers)
      BY <1>1, <2>1
    <2>5. MethodsOf(Repeat(Plain, j) \o <<Plain>>) = MethodsOf(Repeat(Plain, j)) \o MethodsOf(<<Plain>>)
      BY <2>4, MethodsConcat, Zenon
    <2>6. MethodsOf(Repeat(Plain, i)) = Repeat("values", i)
      BY <2>1, <2>2, <2>3, <2>5, Zenon
    <2>. QED BY <2>1, <2>6
  <1>. HIDE DEF T
  <1>5. 0..n \subseteq T
    BY <1>3, <1>4, EveryRound, Zenon
  <1>. QED BY <1>1, <1>2, <1>5 DEF T

(* What the server has run, "made" of the steps after those shown.         *)
MadeAhead(made) ==
  \E k \in 0..Len(steps) :
    /\ made = Only(SubSeq(steps, 1, k), Methods)
    /\ \A j \in 1..(k - 1) : steps[j] \in Awaited => j <= Len(shown)

(* Values, and one step more, may be run ahead. *)
LEMMA TipAhead ==
  ASSUME shown \in Lists, NEW n \in Nat, NEW tip \in Lists, Len(tip) <= 1, NEW after \in Lists,
         steps = (shown \o (Repeat("values", n) \o tip)) \o after
  PROVE  MadeAhead(Only(shown, Methods) \o Only(Repeat("values", n) \o tip, Methods))
  <1>. DEFINE ahead == Repeat("values", n) \o tip
              upto == shown \o ahead
              k == Len(upto)
              m == Len(shown)
  <1>1. Repeat("values", n) \in Lists /\ Len(Repeat("values", n)) = n /\ \A i \in 1..n : Repeat("values", n)[i] = "values"
    BY PlainType DEF Repeat
  <1>2. ahead \in Lists /\ Len(ahead) = n + Len(tip) /\ Len(tip) \in Nat /\ \A i \in 1..n : ahead[i] = "values"
    <2>1. IsJoin(ahead, Repeat("values", n), tip)
      BY <1>1, StartOf, Zenon
    <2>. HIDE DEF ahead
    <2>. QED BY <1>1, <2>1 DEF IsJoin
  <1>. HIDE DEF ahead
  <1>3. /\ upto \in Lists /\ k = m + Len(ahead) /\ m \in Nat
        /\ \A i \in 1..Len(ahead) : upto[m + i] = ahead[i]
    <2>1. IsJoin(upto, shown, ahead)
      BY <1>2, StartOf, Zenon
    <2>. HIDE DEF upto
    <2>. QED BY <2>1 DEF IsJoin
  <1>4. Only(upto, Methods) = Only(shown, Methods) \o Only(ahead, Methods)
    <2>1. OnlyApart(shown, ahead, Methods)
      BY <1>2, OnlyJoins, Zenon
    <2>. QED BY <2>1 DEF OnlyApart
  <1>5. steps = upto \o after
    BY DEF ahead
  <1>. HIDE DEF upto, k, m
  <1>6. /\ SubSeq(steps, 1, k) = upto /\ Len(steps) = k + Len(after) /\ k \in Nat /\ Len(after) \in Nat
        /\ \A i \in 1..k : steps[i] = upto[i]
    <2>1. IsJoin(steps, upto, after)
      BY <1>3, <1>5, StartOf, Zenon
    <2>. QED BY <2>1 DEF IsJoin, k
  <1>7. ASSUME NEW j \in 1..(k - 1), ~(j <= m) PROVE steps[j] \notin Awaited
    <2>. DEFINE i == j - m
    <2>1. i \in 1..n /\ i \in 1..Len(ahead) /\ m + i = j /\ j \in 1..k
      BY <1>2, <1>3, <1>7
    <2>. HIDE DEF i
    <2>2. steps[j] = "values"
      BY <1>2, <1>3, <1>6, <2>1
    <2>. QED BY <2>2 DEF Awaited, Pseudo, Stoppers
  <1>8. k \in 0..Len(steps)
    BY <1>6
  <1>9. Only(shown, Methods) \o Only(ahead, Methods) = Only(SubSeq(steps, 1, k), Methods)
    BY <1>4, <1>6
  <1>. QED BY <1>7, <1>8, <1>9 DEF MadeAhead, ahead, m

(* The server runs no method ahead of what has to be waited for. *)
LEMMA GoodAhead ==
  ASSUME shown \in Lists, NEW out \in Seq(Answers), NEW expected \in Lists, Good(out, expected, Awaited),
         steps = shown \o expected
  PROVE  MadeAhead(Only(shown, Methods) \o MethodsOf(out))
  <1>1. ASSUME NEW n \in Nat, NEW tip \in Lists, Len(tip) <= 1, NEW after \in Lists,
               expected = (Repeat("values", n) \o tip) \o after,
               MethodsOf(out) = Only(Repeat("values", n) \o tip, Methods)
        PROVE  MadeAhead(Only(shown, Methods) \o MethodsOf(out))
    <2>. DEFINE ahead == Repeat("values", n) \o tip
    <2>1. ahead \in Lists
      BY PlainType, ListsJoin
    <2>. HIDE DEF ahead
    <2>2. JoinAlike(shown, ahead, after)
      BY <2>1, JoinThree, Zenon
    <2>3. steps = (shown \o ahead) \o after
      BY <1>1, <2>2, Zenon DEF JoinAlike, ahead
    <2>. QED BY <1>1, <2>3, TipAhead DEF ahead
  <1>2. CASE Passed(out, expected)
    <2>1. PICK n \in Nat : out = Repeat(Plain, n) /\ expected = Repeat("values", n)
      BY <1>2 DEF Passed
    <2>2. MethodsOf(out) = Repeat("values", n) /\ Only(Repeat("values", n), Methods) = Repeat("values", n)
      BY <2>1, ValuesMade
    <2>3. Repeat("values", n) \o <<>> = Repeat("values", n) /\ <<>> \in Lists /\ Len(<<>>) <= 1
      BY PlainType, ListsJoin
    <2>4. expected = (Repeat("values", n) \o <<>>) \o <<>> /\ MethodsOf(out) = Only(Repeat("values", n) \o <<>>, Methods)
      BY <2>1, <2>2, <2>3
    <2>. QED BY <1>1, <2>3, <2>4
  <1>3. CASE Paused(out, expected, Awaited)
    <2>1. PICK n \in Nat, last \in Answers, rest \in Lists, x \in Awaited :
            /\ out = Repeat(Plain, n) \o <<last>>
            /\ expected = Repeat("values", n) \o (last.kinds \o rest)
            /\ Pause(last, rest, x)
      BY <1>3 DEF Paused
    <2>. DEFINE values == Repeat("values", n)
                kinds == last.kinds
    <2>2. values \in Lists /\ kinds \in Lists /\ <<>> \in Lists
      BY PlainType DEF Answers, Lists
    <2>3. MethodsOf(out) = values \o Only(kinds, Methods) /\ Only(values, Methods) = values
      <3>1. Repeat(Plain, n) \in Seq(Answers) /\ <<last>> \in Seq(Answers)
        BY PlainType
      <3>2. MethodsOf(out) = MethodsOf(Repeat(Plain, n)) \o MethodsOf(<<last>>)
        BY <2>1, <3>1, MethodsConcat
      <3>3. MethodsOf(<<last>>) = Only(kinds, Methods)
        BY MethodsOne
      <3>. QED BY <3>2, <3>3, ValuesMade
    <2>4. AllOf(kinds, x)
      BY <2>1 DEF Pause
    <2>. HIDE DEF values, kinds
    <2>5. CASE x \in Methods
      <3>1. kinds = <<x>>
        <4>1. x # "Info"
          BY <2>5 DEF Methods
        <4>. QED BY <2>4, <4>1, RepeatNone DEF AllOf
      <3>2. Len(kinds) <= 1 /\ Only(kinds, Methods) = kinds
        <4>1. \A j \in 1..Len(kinds) : kinds[j] \in Methods
          BY <2>5, <3>1
        <4>. QED BY <2>2, <3>1, <4>1, OnlyAll
      <3>3. Only(values \o kinds, Methods) = MethodsOf(out)
        <4>1. OnlyApart(values, kinds, Methods)
          BY <2>2, OnlyJoins, Zenon
        <4>. QED BY <2>3, <3>2, <4>1, Zenon DEF OnlyApart
      <3>4. JoinAlike(values, kinds, rest)
        BY <2>2, JoinThree, Zenon
      <3>5. expected = (values \o kinds) \o rest
        BY <2>1, <3>4, Zenon DEF JoinAlike, values, kinds
      <3>. QED BY <1>1, <2>2, <3>2, <3>3, <3>5, Zenon DEF values
    <2>6. CASE x \notin Methods
      <3>1. Only(kinds, Methods) = <<>>
        <4>1. \A j \in 1..Len(kinds) : kinds[j] = x
          BY <2>4 DEF AllOf, Repeat
        <4>. QED BY <2>2, <2>6, <4>1, OnlyNone
      <3>2. values \o <<>> = values /\ Len(<<>>) <= 1 /\ kinds \o rest \in Lists
        BY <2>2, ListsJoin
      <3>3. MethodsOf(out) = Only(values \o <<>>, Methods)
        BY <2>3, <3>1, <3>2, Zenon
      <3>4. expected = (values \o <<>>) \o (kinds \o rest)
        BY <2>1, <3>2, Zenon DEF values, kinds
      <3>. QED BY <1>1, <2>2, <3>2, <3>3, <3>4, Zenon DEF values
    <2>. QED BY <2>5, <2>6
  <1>. QED BY <1>2, <1>3 DEF Good

(* A request stands for the steps that are left; the methods that ran are  *)
(* those of the steps shown.                                               *)
Requesting(refs, out, seen, made) ==
  out = <<>> /\ steps = seen \o Meaning(refs) /\ made = Only(seen, Methods)

(* So do results; their methods have run.                                  *)
Answered(out, seen, made) ==
  \E expected \in Lists :
    /\ steps = seen \o expected /\ Good(out, expected, Awaited)
    /\ made = Only(seen, Methods) \o MethodsOf(out)

Ordered ==
  /\ TypeInv /\ OrderlyItems
  /\ \A i \in 1..(Len(steps) - 1) : steps[i] # "close"
  /\ NothingAhead
  /\ status = "request" => Requesting(todo, results, shown, ran)
  /\ status = "handle" => Answered(results, shown, ran)

LEMMA AllOfSet == ASSUME NEW list, NEW x, AllOf(list, x) PROVE ToSet(list) = {x}
  <1>1. PICK m \in Nat : m > 0 /\ list = Repeat(x, m)
    BY DEF AllOf
  <1>2. DOMAIN Repeat(x, m) = 1..m /\ 1 \in 1..m /\ \A i \in 1..m : Repeat(x, m)[i] = x
    BY <1>1 DEF Repeat
  <1>. QED BY <1>1, <1>2 DEF ToSet

(* The result to be handled is of one kind, x, and "rest" is left after it. *)
Handled(x, rest) ==
  LET head == Head(results)
      seen == shown \o head.kinds
  IN /\ x \in Awaited \cup {"values"} /\ rest \in Lists /\ AllOf(head.kinds, x)
     /\ steps = seen \o rest
     /\ x = "values" => Answered(Tail(results), seen, ran)
     /\ x # "values" => /\ Tail(results) = <<>> /\ ran = Only(seen, Methods)
                        /\ x \in Stoppers \/ rest = Meaning(head.pending)

LEMMA ValueFirst ==
  ASSUME shown \in Lists, NEW out \in Seq(Answers), NEW later \in Lists, Good(out, later, Awaited),
         results = <<Plain>> \o out, steps = shown \o (<<"values">> \o later),
         ran = Only(shown, Methods) \o MethodsOf(results)
  PROVE  Handled("values", later)
  <1>. DEFINE one == <<"values">>
              made == MethodsOf(out)
              before == Only(shown, Methods)
  <1>1. /\ Plain \in Answers /\ Plain.kinds = one /\ one \in Lists /\ <<Plain>> \in Seq(Answers)
        /\ made \in Lists /\ before \in Lists
    <2>1. Plain \in Answers /\ Plain.kinds = one
      BY PlainType
    <2>2. one \in Lists
      BY <2>1 DEF Answers
    <2>. QED BY <2>1, <2>2, MethodsConcat, OnlyConcat
  <1>2. Head(results) = Plain /\ Tail(results) = out
    <2>1. \A p : Head(<<p>> \o out) = p /\ Tail(<<p>> \o out) = out
      OBVIOUS
    <2>. QED BY <2>1
  <1>3. MethodsOf(results) = one \o made
    <2>1. MethodsOf(<<Plain>> \o out) = MethodsOf(<<Plain>>) \o made
      BY <1>1, MethodsConcat, Zenon
    <2>2. MethodsOf(<<Plain>>) = Only(one, Methods)
      BY <1>1, MethodsOne
    <2>3. Only(one, Methods) = one
      <3>1. \A i \in 1..Len(one) : one[i] \in Methods
        BY DEF Methods
      <3>. QED BY <1>1, <3>1, OnlyAll
    <2>. QED BY <2>1, <2>2, <2>3, Zenon
  <1>4. Only(shown \o one, Methods) = before \o one
    <2>1. OnlyApart(shown, one, Methods)
      BY <1>1, OnlyJoins, Zenon
    <2>2. Only(one, Methods) = one
      <3>1. \A i \in 1..Len(one) : one[i] \in Methods
        BY DEF Methods
      <3>. QED BY <1>1, <3>1, OnlyAll
    <2>. QED BY <2>1, <2>2, Zenon DEF OnlyApart
  <1>. HIDE DEF made, before
  <1>5. ran = Only(shown \o one, Methods) \o made
    <2>1. JoinAlike(before, one, made)
      BY <1>1, JoinThree, Zenon
    <2>2. ran = before \o (one \o made)
      BY <1>3 DEF before
    <2>. QED BY <1>4, <2>1, <2>2, Zenon DEF JoinAlike
  <1>6. steps = (shown \o one) \o later
    <2>1. JoinAlike(shown, one, later)
      BY <1>1, JoinThree, Zenon
    <2>. QED BY <2>1, Zenon DEF JoinAlike
  <1>7. Answered(out, shown \o one, ran)
    BY <1>5, <1>6 DEF Answered, made
  <1>8. AllOf(one, "values")
    BY AllOfOne
  <1>. HIDE DEF one
  <1>. QED BY <1>1, <1>2, <1>6, <1>7, <1>8 DEF Handled

(* What is handled next. *)
LEMMA HandledIs ==
  ASSUME Ordered, Handling
  PROVE  \E x, rest : Handled(x, rest)
  <1>1. shown \in Lists /\ results \in Seq(Answers) /\ results # <<>> /\ status = "handle"
    BY DEF Ordered, TypeInv, Handling
  <1>2. PICK expected \in Lists :
          /\ steps = shown \o expected /\ Good(results, expected, Awaited)
          /\ ran = Only(shown, Methods) \o MethodsOf(results)
    BY <1>1 DEF Ordered, Answered
  <1>3. ASSUME NEW n \in Nat, n # 0
        PROVE  /\ n - 1 \in Nat /\ Repeat(Plain, n) = <<Plain>> \o Repeat(Plain, n - 1)
               /\ Repeat("values", n) = <<"values">> \o Repeat("values", n - 1)
    <2>. DEFINE j == n - 1
    <2>1. j \in Nat /\ n = j + 1
      BY <1>3
    <2>. HIDE DEF j
    <2>2. Repeat(Plain, n) = <<Plain>> \o Repeat(Plain, j) /\ Repeat("values", n) = <<"values">> \o Repeat("values", j)
      BY <2>1, RepeatMore
    <2>. QED BY <2>1, <2>2 DEF j
  <1>4. CASE Passed(results, expected)
    <2>1. PICK n \in Nat : results = Repeat(Plain, n) /\ expected = Repeat("values", n)
      BY <1>4 DEF Passed
    <2>2. n # 0
      BY <1>1, <2>1, RepeatNone
    <2>3. n - 1 \in Nat
      BY <2>2
    <2>. DEFINE out == Repeat(Plain, n - 1)
                later == Repeat("values", n - 1)
    <2>4. results = <<Plain>> \o out /\ expected = <<"values">> \o later
      BY <1>3, <2>1, <2>2, Zenon
    <2>5. out \in Seq(Answers) /\ later \in Lists
      BY <2>3, PlainType, Zenon
    <2>6. Good(out, later, Awaited)
      BY <2>3 DEF Good, Passed
    <2>. HIDE DEF out, later
    <2>7. Handled("values", later)
      BY <1>1, <1>2, <2>4, <2>5, <2>6, ValueFirst, Zenon
    <2>. QED BY <2>7
  <1>5. CASE Paused(results, expected, Awaited)
    <2>1. PICK n \in Nat, last \in Answers, rest \in Lists, x \in Awaited :
            /\ results = Repeat(Plain, n) \o <<last>>
            /\ expected = Repeat("values", n) \o (last.kinds \o rest)
            /\ Pause(last, rest, x)
      BY <1>5 DEF Paused
    <2>. DEFINE tail == last.kinds \o rest
    <2>2. tail \in Lists /\ last.kinds \in Lists /\ <<last>> \in Seq(Answers)
      BY ListsJoin DEF Answers
    <2>3. CASE n # 0
      <3>1. n - 1 \in Nat
        BY <2>3
      <3>. DEFINE values == Repeat(Plain, n - 1)
                  kinds == Repeat("values", n - 1)
                  out == values \o <<last>>
                  later == kinds \o tail
      <3>2. values \in Seq(Answers) /\ kinds \in Lists /\ Plain \in Answers /\ <<"values">> \in Lists
        <4>1. values \in Seq(Answers) /\ kinds \in Lists /\ Plain \in Answers /\ Plain.kinds = <<"values">>
          BY <3>1, PlainType, Zenon
        <4>. QED BY <4>1 DEF Answers
      <3>3. Good(out, later, Awaited)
        BY <2>1, <3>1 DEF Good, Paused
      <3>4. results = (<<Plain>> \o values) \o <<last>> /\ expected = (<<"values">> \o kinds) \o tail
        BY <1>3, <2>1, <2>3, Zenon
      <3>. HIDE DEF values, kinds, tail
      <3>5. out \in Seq(Answers) /\ later \in Lists
        BY <2>2, <3>2, ListsJoin
      <3>6. results = <<Plain>> \o out
        <4>1. <<Plain>> \in Seq(Answers)
          BY <3>2
        <4>2. (<<Plain>> \o values) \o <<last>> = <<Plain>> \o (values \o <<last>>)
          BY <2>2, <3>2, <4>1, ConcatAssociative
        <4>. QED BY <3>4, <4>2
      <3>7. expected = <<"values">> \o later
        <4>1. JoinAlike(<<"values">>, kinds, tail)
          BY <2>2, <3>2, JoinThree, Zenon
        <4>. QED BY <3>4, <4>1, Zenon DEF JoinAlike
      <3>. HIDE DEF out, later
      <3>8. Handled("values", later)
        BY <1>1, <1>2, <3>3, <3>5, <3>6, <3>7, ValueFirst, Zenon
      <3>. QED BY <3>8
    <2>4. CASE n = 0
      <3>1. results = <<last>> /\ expected = tail
        <4>1. Repeat(Plain, n) = <<>> /\ Repeat("values", n) = <<>>
          BY <2>4, RepeatNone
        <4>2. <<>> \o <<last>> = <<last>> /\ <<>> \o tail = tail
          BY <2>2, ListsJoin
        <4>. QED BY <2>1, <4>1, <4>2, Zenon
      <3>2. Head(results) = last /\ Tail(results) = <<>>
        BY <3>1
      <3>3. steps = (shown \o last.kinds) \o rest
        <4>1. JoinAlike(shown, last.kinds, rest)
          BY <1>1, <2>2, JoinThree, Zenon
        <4>. QED BY <1>2, <3>1, <4>1, Zenon DEF JoinAlike
      <3>4. ran = Only(shown \o last.kinds, Methods)
        <4>1. OnlyApart(shown, last.kinds, Methods)
          BY <1>1, <2>2, OnlyJoins, Zenon
        <4>2. MethodsOf(results) = Only(last.kinds, Methods)
          BY <3>1, MethodsOne
        <4>. QED BY <1>2, <4>1, <4>2, Zenon DEF OnlyApart
      <3>5. x # "values"
        BY DEF Awaited, Pseudo, Stoppers
      <3>6. AllOf(last.kinds, x) /\ (x \in Stoppers \/ rest = Meaning(last.pending))
        BY <2>1 DEF Pause
      <3>7. Handled(x, rest)
        BY <3>2, <3>3, <3>4, <3>5, <3>6, Zenon DEF Handled
      <3>. QED BY <3>7
    <2>. QED BY <2>3, <2>4
  <1>. QED BY <1>2, <1>4, <1>5 DEF Good

LEMMA HasIs ==
  ASSUME NEW x, AllOf(Head(results).kinds, x), NEW kinds
  PROVE  Has(kinds) <=> x \in kinds
  <1>1. ToSet(Head(results).kinds) = {x}
    BY AllOfSet
  <1>. QED BY <1>1 DEF Has

(* What an order says of the next state. *)
LEMMA AheadStays ==
  ASSUME NothingAhead, UNCHANGED <<steps, ran>>, Len(shown) \in Nat, Len(shown') \in Nat, Len(shown) <= Len(shown')
  PROVE  NothingAhead'
  <1>1. PICK k \in 0..Len(steps) :
          /\ ran = Only(SubSeq(steps, 1, k), Methods)
          /\ \A j \in 1..(k - 1) : steps[j] \in Awaited => j <= Len(shown)
    BY DEF NothingAhead
  <1>2. \A j \in 1..(k - 1) : steps[j] \in Awaited => j <= Len(shown')
    BY <1>1
  <1>3. steps' = steps /\ ran' = ran /\ (Only(SubSeq(steps, 1, k), Methods))' = Only(SubSeq(steps, 1, k), Methods)
    BY DEF Only
  <1>. QED BY <1>1, <1>2, <1>3 DEF NothingAhead

LEMMA AheadMoves ==
  ASSUME UNCHANGED <<steps, shown>>, MadeAhead(ran')
  PROVE  NothingAhead'
  BY DEF MadeAhead, NothingAhead, Only

LEMMA MeaningSame ==
  ASSUME UNCHANGED items
  PROVE  (\A refs : Meaning(refs)' = Meaning(refs)) /\ Answers' = Answers
  <1>1. \A refs : Meaning(refs)' = Meaning(refs)
    BY DEF Meaning, Expand, GroupSteps, Places, From
  <1>2. Answers' = Answers
    BY DEF Answers, RefsTo
  <1>. QED BY <1>1, <1>2

LEMMA GoodSame ==
  ASSUME UNCHANGED items
  PROVE  \A out, expected, kinds : Good(out, expected, kinds)' <=> Good(out, expected, kinds)
  <1>1. \A last, rest, x : Pause(last, rest, x)' <=> Pause(last, rest, x)
    <2>1. ASSUME NEW last, NEW rest, NEW x PROVE Pause(last, rest, x)' <=> Pause(last, rest, x)
      <3>1. Meaning(last.pending)' = Meaning(last.pending) /\ Answers' = Answers
        BY MeaningSame
      <3>. QED BY <3>1 DEF Pause
    <2>. QED BY <2>1
  <1>2. \A out, expected : Passed(out, expected)' <=> Passed(out, expected)
    BY DEF Passed
  <1>3. \A out, expected, kinds : Paused(out, expected, kinds)' <=> Paused(out, expected, kinds)
    <2>1. Answers' = Answers
      BY MeaningSame
    <2>2. ASSUME NEW out, NEW expected, NEW kinds
          PROVE  Paused(out, expected, kinds)' <=> Paused(out, expected, kinds)
      BY <1>1, <2>1, Zenon DEF Paused
    <2>. QED BY <2>2, Zenon
  <1>. QED BY <1>2, <1>3, Zenon DEF Good

LEMMA OrderedStays ==
  ASSUME Ordered, TypeInv', UNCHANGED <<steps, items>>, NothingAhead',
         status' = "request" => Requesting(todo', results', shown', ran'),
         status' = "handle" => Answered(results', shown', ran')
  PROVE  Ordered'
  <1>1. items' = items /\ steps' = steps
    OBVIOUS
  <1>2. OrderlyItems' /\ (\A i \in 1..(Len(steps) - 1) : steps[i] # "close")'
    BY <1>1 DEF OrderlyItems, Ordered
  <1>3. Requesting(todo, results, shown, ran)' <=> Requesting(todo', results', shown', ran')
    BY <1>1, MeaningSame DEF Requesting
  <1>4. Answered(results, shown, ran)' <=> Answered(results', shown', ran')
    BY <1>1, GoodSame DEF Answered
  <1>. QED BY <1>2, <1>3, <1>4 DEF Ordered

(* The steps that are shown are the first ones. *)
LEMMA ShownFirst ==
  ASSUME Ordered, status \in {"request", "handle"}
  PROVE  shown \in Lists /\ \E after \in Lists : steps = shown \o after
  <1>1. CASE status = "request"
    <2>1. Meaning(todo) \in Lists
      BY MeaningConcat DEF Ordered, TypeInv
    <2>. QED BY <1>1, <2>1 DEF Ordered, Requesting, TypeInv
  <1>2. CASE status = "handle"
    BY <1>2 DEF Ordered, Answered, TypeInv
  <1>. QED BY <1>1, <1>2

Phase == IF status \in {"done", "rejected"} THEN status ELSE "running"

(* Steps that take effect. *)
LEMMA ShowStep ==
  ASSUME shown \in Lists, status \in {"request", "handle"}, UNCHANGED steps, NEW more \in Lists, NEW rest \in Lists,
         NEW x, AllOf(more, x), steps = (shown \o more) \o rest, shown' = shown \o more,
         status' \in Statuses, status' = "done" => rest = <<>>, x \in Stoppers => status' = "rejected"
  PROVE  Sequence!Next
  <1>. DEFINE seen == shown \o more
              k == Len(seen)
              m == Len(shown)
  <1>1. /\ seen \in Lists /\ k = m + Len(more) /\ m \in Nat /\ Len(more) \in Nat
        /\ \A i \in 1..Len(more) : seen[m + i] = more[i]
    <2>1. IsJoin(seen, shown, more)
      BY StartOf, Zenon
    <2>. HIDE DEF seen
    <2>. QED BY <2>1 DEF IsJoin
  <1>2. Len(more) > 0 /\ (\A i \in 1..Len(more) : more[i] = x) /\ (Len(more) > 1 => x = "Info")
    BY DEF AllOf, Repeat
  <1>3. steps = seen \o rest /\ shown' = seen
    OBVIOUS
  <1>. HIDE DEF seen, k, m
  <1>4. /\ SubSeq(steps, 1, k) = seen /\ Len(steps) = k + Len(rest) /\ k \in Nat /\ Len(rest) \in Nat
        /\ \A i \in 1..k : steps[i] = seen[i]
    <2>1. IsJoin(steps, seen, rest)
      BY <1>1, <1>3, StartOf, Zenon
    <2>. QED BY <2>1 DEF IsJoin, k
  <1>5. \A j \in (m + 1)..k : steps[j] = x
    <2>. SUFFICES ASSUME NEW j \in (m + 1)..k PROVE steps[j] = x
      OBVIOUS
    <2>. DEFINE i == j - m
    <2>1. i \in 1..Len(more) /\ m + i = j /\ j \in 1..k
      BY <1>1
    <2>. HIDE DEF i
    <2>. QED BY <1>1, <1>2, <1>4, <2>1
  <1>6. k \in m..Len(steps) /\ k > m /\ steps[k] = x
    BY <1>1, <1>2, <1>4, <1>5
  <1>7. \A j \in (m + 1)..(k - 1) : steps[j] \notin Stoppers
    <2>. SUFFICES ASSUME NEW j \in (m + 1)..(k - 1) PROVE steps[j] \notin Stoppers
      OBVIOUS
    <2>1. Len(more) > 1 /\ j \in (m + 1)..k
      BY <1>1
    <2>2. steps[j] = "Info"
      BY <1>2, <1>5, <2>1
    <2>. QED BY <2>2 DEF Stoppers
  <1>8. Phase = "running" /\ Phase' \in {"running", "rejected"} \cup (IF k = Len(steps) THEN {"done"} ELSE {})
    <2>1. status' = "done" => k = Len(steps)
      <3>1. rest = <<>> => Len(rest) = 0
        OBVIOUS
      <3>. QED BY <1>4, <3>1
    <2>2. Phase' \in {"running", "rejected", "done"} /\ (Phase' = "done" => status' = "done")
      BY DEF Phase
    <2>3. Phase = "running"
      BY DEF Phase
    <2>. QED BY <2>1, <2>2, <2>3
  <1>9. k > m /\ steps[k] \in Stoppers => Phase' = "rejected"
    BY <1>6 DEF Phase
  <1>10. shown' = SubSeq(steps, 1, k) /\ UNCHANGED steps
    BY <1>3, <1>4
  <1>. QED BY <1>6, <1>7, <1>8, <1>9, <1>10, Zenon DEF Sequence!Next, Phase, m

(* No step takes effect, and nothing more will. *)
LEMMA EndStep ==
  ASSUME Ordered, status \in {"request", "handle"}, UNCHANGED <<steps, shown>>,
         status' \in {"done", "rejected"}, status' = "done" => steps = shown
  PROVE  Sequence!Next
  <1>. DEFINE m == Len(shown)
  <1>1. PICK after \in Lists : steps = shown \o after
    BY ShownFirst
  <1>2. shown \in Lists
    BY ShownFirst
  <1>3. SubSeq(steps, 1, m) = shown /\ Len(steps) = m + Len(after) /\ m \in Nat /\ Len(after) \in Nat
    <2>1. IsJoin(steps, shown, after)
      BY <1>1, <1>2, StartOf, Zenon
    <2>. QED BY <2>1 DEF IsJoin
  <1>. HIDE DEF m
  <1>4. m \in m..Len(steps) /\ ~(m > m) /\ \A j \in (m + 1)..(m - 1) : steps[j] \notin Stoppers
    BY <1>3
  <1>5. Phase = "running" /\ Phase' \in {"running", "rejected"} \cup (IF m = Len(steps) THEN {"done"} ELSE {})
    BY DEF Phase, m
  <1>6. shown' = SubSeq(steps, 1, m) /\ UNCHANGED steps
    BY <1>3
  <1>. QED BY <1>4, <1>5, <1>6, Zenon DEF Sequence!Next, Phase, m

(* A result has taken effect, and the browser goes on. *)
LEMMA GoOn ==
  ASSUME Ordered, Handling, TypeInv', UNCHANGED <<steps, items, ran>>,
         NEW x, NEW rest, Handled(x, rest), x \notin Stoppers, shown' = shown \o Head(results).kinds,
         \/ x # "values" /\ Continue(Head(results).pending)
         \/ (x = "values" \/ rest = <<>>) /\ Continue(<<>>)
  PROVE  Ordered' /\ Sequence!Next
  <1>. DEFINE head == Head(results)
              seen == shown \o head.kinds
  <1>1. /\ rest \in Lists /\ AllOf(head.kinds, x) /\ steps = seen \o rest
        /\ x = "values" => Answered(Tail(results), seen, ran)
        /\ x # "values" => Tail(results) = <<>> /\ ran = Only(seen, Methods) /\ rest = Meaning(head.pending)
    BY DEF Handled
  <1>2. shown \in Lists /\ status = "handle" /\ head.kinds \in Lists /\ Meaning(<<>>) = <<>>
    BY HeadType, MeaningOne DEF Ordered, Handling, TypeInv
  <1>3. seen \in Lists
    BY <1>2, ListsJoin
  <1>4. status' \in {"request", "handle"}
    BY <1>2 DEF Continue
  <1>5. Sequence!Next
    <2>1. status' \in Statuses /\ (status' = "done" => rest = <<>>) /\ (x \in Stoppers => status' = "rejected")
      BY <1>4 DEF Statuses
    <2>. QED BY <1>1, <1>2, <2>1, ShowStep
  <1>6. NothingAhead'
    <2>1. Len(shown') = Len(shown) + Len(head.kinds) /\ Len(shown) \in Nat /\ Len(head.kinds) \in Nat
      BY <1>2 DEF Lists
    <2>2. Len(shown) <= Len(shown') /\ Len(shown') \in Nat
      BY <2>1
    <2>3. NothingAhead
      BY DEF Ordered
    <2>. QED BY <2>1, <2>2, <2>3, AheadStays
  <1>. DEFINE tail == Tail(results)
  <1>. HIDE DEF head, seen, tail
  <1>7. ASSUME x # "values", rest = <<>> PROVE Answered(<<>>, seen, ran)
    <2>1. <<>> \in Lists /\ steps = seen \o <<>>
      BY <1>1, <1>7, ListsJoin
    <2>2. Good(<<>>, <<>>, Awaited)
      <3>1. <<>> = Repeat(Plain, 0) /\ <<>> = Repeat("values", 0) /\ 0 \in Nat
        BY RepeatNone
      <3>. QED BY <3>1 DEF Good, Passed
    <2>3. ran = Only(seen, Methods) \o MethodsOf(<<>>)
      <3>1. Plain \in Answers
        BY PlainType
      <3>2. MethodsOf(<<>>) = <<>> /\ Only(seen, Methods) \in Lists /\ ran = Only(seen, Methods)
        BY <1>1, <1>3, <1>7, <3>1, MethodsOne, OnlyConcat
      <3>. QED BY <3>2, ListsJoin
    <2>. QED BY <2>1, <2>2, <2>3 DEF Answered
  <1>8. ASSUME Continue(<<>>), x = "values" \/ rest = <<>> PROVE Answered(results', seen, ran) /\ status' = "handle"
    <2>1. results' = tail /\ status' = "handle"
      BY <1>2, <1>8 DEF Continue, tail
    <2>2. Answered(tail, seen, ran)
      <3>1. CASE x = "values"
        BY <1>1, <3>1 DEF tail
      <3>2. CASE x # "values"
        <4>1. tail = <<>> /\ rest = <<>>
          BY <1>1, <1>8, <3>2 DEF tail
        <4>. QED BY <1>7, <3>2, <4>1
      <3>. QED BY <3>1, <3>2
    <2>. QED BY <2>1, <2>2
  <1>9. shown' = seen /\ ran' = ran
    BY DEF seen, head
  <1>10. (status' = "request" => Requesting(todo', results', seen, ran)) /\ (status' = "handle" => Answered(results', seen, ran))
    <2>1. CASE (x = "values" \/ rest = <<>>) /\ Continue(<<>>)
      BY <1>8, <2>1
    <2>2. CASE x # "values" /\ Continue(head.pending)
      <3>1. CASE head.pending = <<>>
        <4>1. rest = <<>> /\ Continue(<<>>)
          BY <1>1, <1>2, <2>2, <3>1
        <4>. QED BY <1>8, <4>1
      <3>2. CASE head.pending # <<>>
        <4>1. todo' = head.pending /\ results' = <<>> /\ status' = "request"
          BY <2>2, <3>2 DEF Continue
        <4>2. steps = seen \o Meaning(todo') /\ ran = Only(seen, Methods)
          BY <1>1, <2>2, <4>1
        <4>. QED BY <4>1, <4>2 DEF Requesting
      <3>. QED BY <3>1, <3>2
    <2>. QED BY <2>1, <2>2 DEF head
  <1>11. Ordered'
    BY <1>6, <1>9, <1>10, OrderedStays
  <1>. QED BY <1>5, <1>11

(* A result has taken effect, and it is the last. *)
LEMMA StopAt ==
  ASSUME Ordered, Handling, TypeInv', UNCHANGED <<steps, items, ran>>, End("rejected"),
         NEW x, NEW rest, Handled(x, rest), shown' = shown \o Head(results).kinds
  PROVE  Ordered' /\ Sequence!Next
  <1>. DEFINE kinds == Head(results).kinds
  <1>1. rest \in Lists /\ AllOf(kinds, x) /\ steps = (shown \o kinds) \o rest
    BY DEF Handled
  <1>2. shown \in Lists /\ status = "handle" /\ kinds \in Lists /\ NothingAhead
    BY HeadType DEF Ordered, Handling, TypeInv
  <1>3. status' = "rejected" /\ status' \in Statuses
    BY DEF End, Statuses
  <1>4. NothingAhead'
    <2>1. Len(shown') = Len(shown) + Len(kinds) /\ Len(shown) \in Nat /\ Len(kinds) \in Nat
      BY <1>2 DEF Lists
    <2>2. Len(shown) <= Len(shown') /\ Len(shown') \in Nat
      BY <2>1
    <2>. QED BY <1>2, <2>1, <2>2, AheadStays
  <1>. HIDE DEF kinds
  <1>5. Sequence!Next
    <2>1. shown' = shown \o kinds
      BY DEF kinds
    <2>. QED BY <1>1, <1>2, <1>3, <2>1, ShowStep
  <1>6. Ordered'
    BY <1>3, <1>4, OrderedStays
  <1>. QED BY <1>5, <1>6

(* Nothing takes effect any more. *)
LEMMA GiveUp ==
  ASSUME Ordered, status \in {"request", "handle"}, TypeInv', UNCHANGED <<steps, items, shown>>,
         NEW how \in {"done", "rejected"}, End(how), how = "done" => steps = shown, NothingAhead'
  PROVE  Ordered' /\ Sequence!Next
  <1>1. status' = how
    BY DEF End
  <1>2. Sequence!Next
    BY <1>1, EndStep
  <1>3. Ordered'
    BY <1>1, OrderedStays
  <1>. QED BY <1>2, <1>3

(***************************************************************************)
(* The actions, one by one.                                                *)
(***************************************************************************)
LEMMA AheadSame == ASSUME NothingAhead, UNCHANGED <<steps, ran, shown>> PROVE NothingAhead'
  BY DEF NothingAhead, Only

LEMMA RefuseOrder == ASSUME Ordered, TypeInv', Refuse PROVE Ordered' /\ Sequence!Next
  <1>1. /\ status = "request" /\ End("rejected") /\ UNCHANGED <<steps, items, shown>>
        /\ NothingAhead /\ UNCHANGED <<steps, ran, shown>>
    BY DEF Refuse, Ordered
  <1>2. NothingAhead'
    BY <1>1, AheadSame
  <1>. QED BY <1>1, <1>2, GiveUp

(* A single save, validate, new or close is the step that is left. *)
LEMMA DoLocalOrder == ASSUME Ordered, TypeInv', DoLocal PROVE Ordered' /\ Sequence!Next
  <1>. DEFINE name == todo[1].name
              one == <<name>>
  <1>1. status = "request" /\ Len(todo) = 1 /\ name \in Pseudo /\ UNCHANGED <<steps, items, ran>>
    BY DEF DoLocal, Local
  <1>2. shown \in Lists /\ todo \in Seq(RefsTo(Names)) /\ steps = shown \o Meaning(todo) /\ ItemsOK /\ NothingAhead
    BY <1>1 DEF Ordered, TypeInv, Requesting
  <1>3. Meaning(todo) = one /\ one \in Lists
    <2>. DEFINE ref == todo[1]
    <2>1. ref \in RefsTo(Names) /\ todo = <<ref>>
      <3>1. \A S : \A list \in Seq(S) : Len(list) = 1 => list[1] \in S /\ list = <<list[1]>>
        OBVIOUS
      <3>. QED BY <1>1, <1>2, <3>1, Zenon
    <2>2. ref.name \notin Groups /\ ref.name # "check"
      BY <1>1 DEF Pseudo, Groups
    <2>. HIDE DEF ref
    <2>3. Stands(ref) = <<ref.name>>
      BY <2>2 DEF Stands
    <2>4. Meaning(todo) = Stands(ref) /\ Stands(ref) \in Lists
      BY <1>2, <2>1, MeaningOne
    <2>. QED BY <2>3, <2>4 DEF ref
  <1>4. CASE End("done") /\ shown' = Append(shown, name)
    <2>1. shown' = shown \o one /\ Len(shown) \in Nat /\ Len(shown') \in Nat /\ Len(shown) <= Len(shown')
      <3>1. \A list \in Seq(Kinds) : \A e :
              Append(list, e) = list \o <<e>> /\ Len(Append(list, e)) = Len(list) + 1 /\ Len(list) \in Nat
        OBVIOUS
      <3>2. shown' = shown \o one /\ Len(shown') = Len(shown) + 1 /\ Len(shown) \in Nat
        BY <1>2, <1>4, <3>1, Zenon DEF Lists
      <3>. QED BY <3>2
    <2>2. steps = (shown \o one) \o <<>> /\ <<>> \in Lists
      BY <1>2, <1>3, ListsJoin
    <2>3. AllOf(one, name) /\ name \notin Stoppers
      <3>1. name \notin Stoppers
        BY <1>1 DEF Pseudo, Stoppers
      <3>. QED BY <3>1, AllOfOne
    <2>4. status' = "done" /\ status' \in Statuses
      BY <1>4 DEF End, Statuses
    <2>5. NothingAhead'
      BY <1>1, <1>2, <2>1, AheadStays
    <2>. HIDE DEF one, name
    <2>6. Sequence!Next
      BY <1>1, <1>2, <1>3, <2>1, <2>2, <2>3, <2>4, ShowStep
    <2>7. Ordered'
      BY <1>1, <2>4, <2>5, OrderedStays
    <2>. QED BY <2>6, <2>7
  <1>5. CASE End("rejected") /\ UNCHANGED shown
    <2>1. NothingAhead'
      BY <1>1, <1>2, <1>5, AheadSame
    <2>. QED BY <1>1, <1>5, <2>1, GiveUp
  <1>. QED BY <1>4, <1>5 DEF DoLocal

(* The answer to a request stands for what was asked for. *)
LEMMA Answer ==
  ASSUME Ordered, status = "request", NEW out \in Execute
  PROVE  Answered(out, shown, ran \o MethodsOf(out)) /\ MadeAhead(ran \o MethodsOf(out))
  <1>1. /\ shown \in Lists /\ todo \in Seq(RefsTo(Names)) /\ ItemsOK /\ OrderlyItems
        /\ steps = shown \o Meaning(todo) /\ ran = Only(shown, Methods)
    BY DEF Ordered, TypeInv, Requesting
  <1>. DEFINE expected == Meaning(todo)
  <1>2. expected \in Lists /\ out \in Seq(Answers)
    BY <1>1, MeaningConcat, ExecuteType
  <1>3. Good(out, expected, Awaited)
    BY <1>1, ExecuteMeans
  <1>. HIDE DEF expected
  <1>4. steps = shown \o expected
    BY <1>1 DEF expected
  <1>5. MadeAhead(Only(shown, Methods) \o MethodsOf(out))
    BY <1>1, <1>2, <1>3, <1>4, GoodAhead
  <1>. QED BY <1>1, <1>2, <1>3, <1>4, <1>5 DEF Answered

LEMMA SendOrder == ASSUME Ordered, TypeInv', Send PROVE Ordered' /\ UNCHANGED <<steps, shown, Phase>>
  <1>1. status = "request" /\ status' = "handle" /\ UNCHANGED <<steps, items, shown>>
    BY DEF Send
  <1>2. PICK out \in Execute : results' = out /\ ran' = ran \o MethodsOf(out)
    BY DEF Send
  <1>3. Answered(results', shown', ran') /\ MadeAhead(ran')
    BY <1>1, <1>2, Answer
  <1>4. NothingAhead'
    BY <1>1, <1>3, AheadMoves
  <1>5. Ordered'
    BY <1>1, <1>3, <1>4, OrderedStays
  <1>. QED BY <1>1, <1>5 DEF Phase

LEMMA LoseOrder == ASSUME Ordered, TypeInv', Lose PROVE Ordered' /\ Sequence!Next
  <1>1. /\ status = "request" /\ End("rejected") /\ UNCHANGED <<steps, items, shown>> /\ NothingAhead
        /\ ran' = ran \/ \E out \in Execute : ran' = ran \o MethodsOf(out)
    BY DEF Lose, Ordered
  <1>2. NothingAhead'
    <2>1. CASE ran' = ran
      BY <1>1, <2>1, AheadSame
    <2>2. CASE \E out \in Execute : ran' = ran \o MethodsOf(out)
      <3>1. MadeAhead(ran')
        BY <1>1, <2>2, Answer
      <3>. QED BY <1>1, <3>1, AheadMoves
    <2>. QED BY <1>1, <2>1, <2>2
  <1>. QED BY <1>1, <1>2, GiveUp

(* A box shows all of the result, which is of one kind. *)
LEMMA HandleBoxOrder == ASSUME Ordered, TypeInv', HandleBox PROVE Ordered' /\ Sequence!Next
  <1>. DEFINE head == Head(results)
              boxes == {"info", "Info"}
  <1>1. /\ Handling /\ Has(boxes) /\ UNCHANGED <<steps, items, ran>> /\ Continue(head.pending)
        /\ shown' = shown \o Only(head.kinds, boxes)
    BY DEF HandleBox, Waiting, Show
  <1>2. PICK x, rest : Handled(x, rest)
    BY <1>1, HandledIs
  <1>3. AllOf(head.kinds, x) /\ head.kinds \in Lists
    BY <1>1, <1>2, HeadType DEF Handled, Ordered
  <1>4. x \in boxes
    BY <1>1, <1>3, HasIs
  <1>5. Only(head.kinds, boxes) = head.kinds
    <2>1. \A i \in 1..Len(head.kinds) : head.kinds[i] \in boxes
      BY <1>3, <1>4 DEF AllOf, Repeat
    <2>. QED BY <1>3, <2>1, OnlyAll
  <1>6. x # "values" /\ x \notin Stoppers
    BY <1>4 DEF Stoppers
  <1>. QED BY <1>1, <1>2, <1>5, <1>6, GoOn

LEMMA HandleStopOrder == ASSUME Ordered, TypeInv', HandleStop PROVE Ordered' /\ Sequence!Next
  <1>1. Handling /\ UNCHANGED <<steps, items, ran>> /\ End("rejected") /\ shown' = shown \o Head(results).kinds
    BY DEF HandleStop, Show
  <1>2. PICK x, rest : Handled(x, rest)
    BY <1>1, HandledIs
  <1>. QED BY <1>1, <1>2, StopAt

LEMMA HandleAlertOrder == ASSUME Ordered, TypeInv', HandleAlert PROVE Ordered' /\ Sequence!Next
  <1>1. /\ Handling /\ UNCHANGED <<steps, items, ran>> /\ shown' = shown \o Head(results).kinds
        /\ ~Has(Stoppers) /\ Has({"alert", "Alert"}) /\ (Continue(Head(results).pending) \/ End("rejected"))
    BY DEF HandleAlert, Show
  <1>2. PICK x, rest : Handled(x, rest)
    BY <1>1, HandledIs
  <1>3. x \notin Stoppers /\ x # "values"
    <2>1. AllOf(Head(results).kinds, x)
      BY <1>2 DEF Handled
    <2>2. x \notin Stoppers /\ x \in {"alert", "Alert"}
      BY <1>1, <2>1, HasIs
    <2>. QED BY <2>2
  <1>4. CASE Continue(Head(results).pending)
    BY <1>1, <1>2, <1>3, <1>4, GoOn
  <1>5. CASE End("rejected")
    BY <1>1, <1>2, <1>5, StopAt
  <1>. QED BY <1>1, <1>4, <1>5

LEMMA HandleWorkOrder == ASSUME Ordered, TypeInv', HandleWork PROVE Ordered' /\ Sequence!Next
  <1>. DEFINE work == {"reload", "save", "validate", "new"}
  <1>1. Handling /\ Has(work) /\ UNCHANGED <<steps, items, ran>> /\ status = "handle" /\ NothingAhead
    BY DEF HandleWork, Handling, Ordered
  <1>2. PICK x, rest : Handled(x, rest)
    BY <1>1, HandledIs
  <1>3. x \notin Stoppers /\ x # "values"
    <2>1. AllOf(Head(results).kinds, x)
      BY <1>2 DEF Handled
    <2>2. x \in work
      BY <1>1, <2>1, HasIs
    <2>. QED BY <2>2 DEF Stoppers
  <1>4. CASE Show(Head(results).kinds) /\ Continue(Head(results).pending)
    <2>1. shown' = shown \o Head(results).kinds
      BY <1>4 DEF Show
    <2>. QED BY <1>1, <1>2, <1>3, <1>4, <2>1, GoOn
  <1>5. CASE End("rejected") /\ UNCHANGED shown
    <2>1. NothingAhead'
      BY <1>1, <1>5, AheadSame
    <2>. QED BY <1>1, <1>5, <2>1, GiveUp
  <1>. QED BY <1>4, <1>5 DEF HandleWork

(* Nobody asks for what is pending: nothing is, or nothing is left. *)
LEMMA HandleRestOrder == ASSUME Ordered, TypeInv', HandleRest PROVE Ordered' /\ Sequence!Next
  <1>. DEFINE head == Head(results)
              seen == shown \o head.kinds
              others == Stoppers \cup {"alert", "Alert", "reload", "save", "validate", "new"}
  <1>1. /\ Handling /\ ~Has(others) /\ UNCHANGED <<steps, items, ran>> /\ shown' = seen
        /\ Continue(<<>>) /\ (~Has({"info", "Info"}) \/ head.pending = <<>>)
    BY DEF HandleRest, Show, Waiting
  <1>2. PICK x, rest : Handled(x, rest)
    BY <1>1, HandledIs
  <1>3. AllOf(head.kinds, x) /\ x \in Awaited \cup {"values"} /\ rest \in Lists /\ steps = seen \o rest
    BY <1>2 DEF Handled
  <1>4. x \notin others /\ (x \in {"info", "Info"} => head.pending = <<>>)
    BY <1>1, <1>3, HasIs
  <1>5. x \in {"values", "close", "info", "Info"} /\ x \notin Stoppers
    BY <1>3, <1>4 DEF Awaited, Pseudo
  <1>6. x \in {"info", "Info"} => rest = <<>>
    <2>1. ItemsOK
      BY DEF Ordered, TypeInv
    <2>2. Meaning(<<>>) = <<>>
      BY <2>1, MeaningOne
    <2>3. x \in {"info", "Info"} => rest = Meaning(head.pending)
      BY <1>2, <1>5 DEF Handled
    <2>. QED BY <1>4, <2>2, <2>3
  <1>7. x = "close" => rest = <<>>
    <2>. SUFFICES ASSUME x = "close", rest # <<>> PROVE FALSE
      OBVIOUS
    <2>1. head.kinds = <<"close">>
      BY <1>3, RepeatNone DEF AllOf
    <2>2. shown \in Lists /\ head.kinds \in Lists
      BY <1>1, HeadType DEF Ordered, TypeInv
    <2>3. seen \in Lists
      BY <2>2, ListsJoin
    <2>. DEFINE m == Len(shown)
    <2>4. Len(seen) = m + 1 /\ m \in Nat /\ seen[m + 1] = "close"
      <3>1. IsJoin(seen, shown, head.kinds)
        BY <2>2, StartOf, Zenon
      <3>. HIDE DEF seen, head
      <3>2. Len(head.kinds) = 1 /\ head.kinds[1] = "close"
        BY <2>1
      <3>. QED BY <3>1, <3>2 DEF IsJoin
    <2>. HIDE DEF seen, m
    <2>5. /\ Len(steps) = m + 1 + Len(rest) /\ Len(rest) \in Nat
          /\ steps[m + 1] = "close"
      <3>1. IsJoin(steps, seen, rest)
        BY <1>3, <2>3, StartOf, Zenon
      <3>2. m + 1 \in 1..Len(seen)
        BY <2>4
      <3>. QED BY <2>4, <3>1, <3>2 DEF IsJoin
    <2>6. Len(rest) # 0
      BY <1>3 DEF Lists
    <2>7. m + 1 \in 1..(Len(steps) - 1)
      BY <2>4, <2>5, <2>6
    <2>. QED BY <2>5, <2>7 DEF Ordered
  <1>8. x = "values" \/ rest = <<>>
    BY <1>5, <1>6, <1>7
  <1>. QED BY <1>1, <1>2, <1>5, <1>8, GoOn

LEMMA FinishOrder == ASSUME Ordered, TypeInv', Finish PROVE Ordered' /\ Sequence!Next
  <1>1. /\ status = "handle" /\ results = <<>> /\ End("done") /\ UNCHANGED <<steps, items, ran, shown>>
        /\ NothingAhead /\ shown \in Lists
    BY DEF Finish, Ordered, TypeInv
  <1>2. PICK expected \in Lists : steps = shown \o expected /\ Good(results, expected, Awaited)
    BY <1>1 DEF Ordered, Answered
  <1>3. expected = <<>>
    <2>1. CASE Passed(results, expected)
      <3>1. PICK k \in Nat : <<>> = Repeat(Plain, k) /\ expected = Repeat("values", k)
        BY <1>1, <2>1 DEF Passed
      <3>2. k = 0
        <4>1. Len(Repeat(Plain, k)) = k
          BY PlainType, RepeatType
        <4>2. Len(<<>>) = 0
          OBVIOUS
        <4>. QED BY <3>1, <4>1, <4>2, Zenon
      <3>. QED BY <3>1, <3>2, RepeatNone
    <2>2. CASE Paused(results, expected, Awaited)
      <3>1. PICK k \in Nat, last \in Answers : <<>> = Repeat(Plain, k) \o <<last>>
        BY <1>1, <2>2 DEF Paused
      <3>2. Repeat(Plain, k) \in Seq(Answers)
        BY PlainType
      <3>3. Len(Repeat(Plain, k) \o <<last>>) # 0
        BY <3>2
      <3>. QED BY <3>1, <3>3
    <2>. QED BY <1>2, <2>1, <2>2 DEF Good
  <1>4. steps = shown
    BY <1>1, <1>2, <1>3, ListsJoin
  <1>5. NothingAhead'
    BY <1>1, AheadSame
  <1>. QED BY <1>1, <1>4, <1>5, GiveUp

LEMMA InitOrder == ASSUME Orderly, Init PROVE Ordered /\ shown = <<>> /\ Phase = "running"
  <1>1. TypeInv
    BY TypeInit
  <1>2. PICK o \in Outers, n \in Inners, c \in Checks :
          items = [g \in {"outer", "inner", "check"} |->
                     CASE g = "outer" -> Refs(o) [] g = "inner" -> Refs(n) [] OTHER -> c]
    BY DEF Init
  <1>3. items["outer"] = Refs(o) /\ items["inner"] = Refs(n) /\ items["check"] = c
    BY <1>2
  <1>4. ASSUME NEW list \in Outers \cup Inners, NEW i \in DOMAIN Refs(list) PROVE Refs(list)[i].name \notin {"errors", "require"}
    <2>1. i \in DOMAIN list /\ Refs(list)[i].name = list[i]
      BY DEF Refs, Ref
    <2>2. list[i] \in ToSet(list)
      BY <2>1 DEF ToSet
    <2>3. ToSet(list) \cap {"errors", "require"} = {}
      BY DEF Orderly
    <2>. QED BY <2>1, <2>2, <2>3
  <1>5. \A i \in DOMAIN c : c[i] # "Notify"
    BY DEF Orderly, ToSet
  <1>6. OrderlyItems
    <2>1. \A g \in Groups : \A i \in DOMAIN items[g] : items[g][i].name \notin {"errors", "require"}
      BY <1>3, <1>4 DEF Groups
    <2>. QED BY <1>3, <1>5, <2>1 DEF OrderlyItems, Orderly
  <1>7. /\ steps = Meaning(todo) /\ shown = <<>> /\ ran = <<>> /\ results = <<>> /\ status = "request"
        /\ \A i \in 1..(Len(steps) - 1) : steps[i] # "close"
    BY DEF Init
  <1>8. <<>> \in Lists /\ Only(<<>>, Methods) = <<>> /\ steps \in Lists
    <2>1. <<>> \in Lists
      BY ListsJoin
    <2>2. Only(<<>>, Methods) = <<>>
      BY <2>1, OnlyNone
    <2>. QED BY <1>1, <2>1, <2>2 DEF TypeInv
  <1>9. Requesting(todo, results, shown, ran)
    <2>1. steps = <<>> \o Meaning(todo)
      BY <1>7, <1>8, ListsJoin
    <2>. QED BY <1>7, <1>8, <2>1 DEF Requesting
  <1>10. NothingAhead
    <2>1. 0 \in 0..Len(steps) /\ SubSeq(steps, 1, 0) = <<>>
      BY <1>8 DEF Lists
    <2>2. \A j \in 1..(0 - 1) : steps[j] \in Awaited => j <= Len(shown)
      OBVIOUS
    <2>. QED BY <1>7, <1>8, <2>1, <2>2 DEF NothingAhead
  <1>. QED BY <1>1, <1>6, <1>7, <1>9, <1>10 DEF Ordered, Phase

LEMMA NextOrder == Ordered /\ [Next]_vars => Ordered' /\ (Sequence!Next \/ UNCHANGED <<steps, shown, Phase>>)
  <1>. SUFFICES ASSUME Ordered, [Next]_vars PROVE Ordered' /\ (Sequence!Next \/ UNCHANGED <<steps, shown, Phase>>)
    OBVIOUS
  <1>1. TypeInv'
    BY TypeNext DEF Ordered
  <1>2. CASE Refuse
    BY <1>1, <1>2, RefuseOrder
  <1>3. CASE DoLocal
    BY <1>1, <1>3, DoLocalOrder
  <1>4. CASE Send
    BY <1>1, <1>4, SendOrder
  <1>5. CASE Lose
    BY <1>1, <1>5, LoseOrder
  <1>6. CASE HandleBox
    BY <1>1, <1>6, HandleBoxOrder
  <1>7. CASE HandleStop
    BY <1>1, <1>7, HandleStopOrder
  <1>8. CASE HandleAlert
    BY <1>1, <1>8, HandleAlertOrder
  <1>9. CASE HandleWork
    BY <1>1, <1>9, HandleWorkOrder
  <1>10. CASE HandleRest
    BY <1>1, <1>10, HandleRestOrder
  <1>11. CASE Finish
    BY <1>1, <1>11, FinishOrder
  <1>12. CASE UNCHANGED vars
    <2>1. /\ UNCHANGED <<steps, items, ran, shown>> /\ todo' = todo /\ results' = results
          /\ shown' = shown /\ ran' = ran /\ status' = status /\ NothingAhead
      BY <1>12 DEF vars, Ordered
    <2>2. NothingAhead'
      BY <2>1, AheadSame
    <2>3. (status' = "request" => Requesting(todo', results', shown', ran')) /\ (status' = "handle" => Answered(results', shown', ran'))
      BY <2>1 DEF Ordered
    <2>4. Ordered'
      BY <1>1, <2>1, <2>2, <2>3, OrderedStays
    <2>. QED BY <2>1, <2>4 DEF Phase
  <1>. QED BY <1>2, <1>3, <1>4, <1>5, <1>6, <1>7, <1>8, <1>9, <1>10, <1>11, <1>12 DEF Next

(* For lists that work: the server runs the methods in the order they are  *)
(* written in, and none before the browser is through with all the steps   *)
(* ahead of it that have to be waited for, however the groups are nested   *)
(* and wherever ActionHandler.execute leaves something pending.            *)
THEOREM MethodsInOrder == ASSUME Orderly PROVE Spec => []NothingAhead
  <1>1. Init => Ordered
    BY InitOrder
  <1>2. Ordered /\ [Next]_vars => Ordered'
    BY NextOrder
  <1>3. Ordered => NothingAhead
    BY DEF Ordered
  <1>. QED BY <1>1, <1>2, <1>3, PTL DEF Spec

(* For lists that work: what ActionHandler in the browser and the server   *)
(* make of the actions at a button is one sequence, the steps one after    *)
(* another, each once and none left out, until all are done, one of them   *)
(* stops the rest, or something fails.                                     *)
THEOREM ActionsImplementSequence == ASSUME Orderly PROVE Spec => StepsInOrder
  <1>1. Init => Ordered /\ Sequence!Init
    <2>1. Init => Ordered /\ shown = <<>> /\ Phase = "running"
      BY InitOrder
    <2>. QED BY <2>1 DEF Sequence!Init, Phase
  <1>2. Ordered /\ [Next]_vars => Ordered' /\ [Sequence!Next]_<<steps, shown, IF status \in {"done", "rejected"} THEN status ELSE "running">>
    <2>. SUFFICES ASSUME Ordered /\ [Next]_vars
                  PROVE  Ordered' /\ [Sequence!Next]_<<steps, shown, IF status \in {"done", "rejected"} THEN status ELSE "running">>
      OBVIOUS
    <2>1. Ordered' /\ (Sequence!Next \/ UNCHANGED <<steps, shown, Phase>>)
      BY NextOrder
    <2>2. CASE Sequence!Next
      BY <2>1, <2>2
    <2>3. CASE UNCHANGED <<steps, shown, Phase>>
      BY <2>1, <2>3 DEF Phase
    <2>. QED BY <2>1, <2>2, <2>3
  <1>. QED BY <1>1, <1>2, PTL DEF Spec, StepsInOrder, Sequence!Spec
=============================================================================
