--------------------------- MODULE FileStateProofs ---------------------------
(***************************************************************************)
(* What the session knows of a file, for all contents, pages, numbers of   *)
(* calls and interleavings of other processes; and, on the way, what the   *)
(* operators of SourceRanges compute, for all ranges.                      *)
(***************************************************************************)
EXTENDS FileState, FiniteSetTheorems, WellFoundedInduction, TLAPS

-----------------------------------------------------------------------------
(* Folds over the numbers from 1 to n.                                     *)

\* Every set of numbers has a least one.
LEMMA Least ==
  ASSUME NEW S \in SUBSET Nat, S # {}
  PROVE  \E i \in S : \A j \in S : i <= j
<1> DEFINE R == OpToRel(<, Nat)
<1>1. IsWellFoundedOn(R, Nat)
  BY NatLessThanWellFounded
<1>2. \A p \in Nat \X Nat : p[1] < p[2] => p \in R
  BY DEF OpToRel
<1> HIDE DEF R
<1>3. PICK i \in S : \A j \in S : ~(<<j, i>> \in R)
  BY <1>1, WFMin
<1>4. \A j \in S : ~(j < i)
  BY <1>2, <1>3
<1> QED BY <1>3, <1>4

\* Every set of numbers up to n has a greatest one, and Max chooses it.
LEMMA MaxOf ==
  ASSUME NEW n \in Nat, NEW t \in SUBSET (1..n), t # {}
  PROVE  Max(t) \in t /\ \A y \in t : y <= Max(t)
<1>1. \E m \in t : \A y \in t : y <= m
  <2> DEFINE D == {n - y : y \in t}
  <2>1. \A y \in t : y \in Nat /\ y <= n
    OBVIOUS
  <2>2. D \in SUBSET Nat
    BY <2>1
  <2>3. D # {}
    OBVIOUS
  <2>4. PICK d \in D : \A e \in D : d <= e
    <3> HIDE DEF D
    <3> QED BY <2>2, <2>3, Least
  <2>5. PICK m \in t : d = n - m
    OBVIOUS
  <2>6. ASSUME NEW y \in t
        PROVE  y <= m
    <3>1. d <= n - y
      BY <2>4
    <3> QED BY <2>1, <2>5, <3>1
  <2> QED BY <2>6
<1> QED BY <1>1 DEF Max

\* Where the bound is in the set, it is the greatest.
LEMMA MaxIsLast ==
  ASSUME NEW k \in Nat, NEW t \in SUBSET (1..k), k \in t
  PROVE  Max(t) = k
<1>1. t # {}
  OBVIOUS
<1>2. Max(t) \in t /\ k <= Max(t)
  BY <1>1, MaxOf
<1>3. Max(t) \in 1..k
  BY <1>2
<1> QED BY <1>2, <1>3

\* The first k numbers, without the last.
LEMMA Intervals ==
  ASSUME NEW n \in Nat, NEW k \in 1..n
  PROVE  /\ k \in Nat /\ k - 1 \in 0..n /\ k \in 0..n
         /\ 1..k \in SUBSET (1..n) /\ 1..k # {}
         /\ (1..k) \ {k} = 1..(k - 1) /\ Max(1..k) = k
<1>1. k \in Nat /\ 1..k \in SUBSET (1..k) /\ k \in 1..k
  OBVIOUS
<1>2. Max(1..k) = k
  BY <1>1, MaxIsLast
<1> QED BY <1>1, <1>2

\* The fold over every set of the numbers from 1 to n, of which F[k] takes in k.
FoldsOver(h, n, base, F) ==
  \A t \in SUBSET (1..n) : h[t] = IF t = {} THEN base ELSE F[Max(t)][h[t \ {Max(t)}]]

\* It has a value for each.
LEMMA Folding ==
  ASSUME NEW n \in Nat, NEW V, NEW base \in V, NEW F \in [1..n -> [V -> V]]
  PROVE  \E h \in [SUBSET (1..n) -> V] : FoldsOver(h, n, base, F)
<1> DEFINE Step(h, t) == IF t = {} THEN base ELSE F[Max(t)][h[t \ {Max(t)}]]
           Solves(h, k) == /\ h \in [SUBSET (1..k) -> V]
                           /\ \A t \in SUBSET (1..k) : h[t] = Step(h, t)
<1>1. \E h : Solves(h, 0)
  <2>1. \A t \in SUBSET (1..0) : t = {}
    OBVIOUS
  <2>2. Solves([t \in SUBSET (1..0) |-> base], 0)
    BY <2>1
  <2> QED BY <2>2
<1>2. ASSUME NEW k \in 1..n, NEW h, Solves(h, k - 1)
      PROVE  \E i : Solves(i, k)
  <2> DEFINE i == [t \in SUBSET (1..k) |-> IF k \in t THEN F[k][h[t \ {k}]] ELSE h[t]]
  <2>1. \A t \in SUBSET (1..k) : k \notin t => t \in SUBSET (1..(k - 1))
    OBVIOUS
  <2>2. i \in [SUBSET (1..k) -> V]
    <3> SUFFICES ASSUME NEW t \in SUBSET (1..k)
                 PROVE  (IF k \in t THEN F[k][h[t \ {k}]] ELSE h[t]) \in V
      OBVIOUS
    <3>1. CASE k \in t
      <4>1. t \ {k} \in SUBSET (1..(k - 1))
        BY <2>1
      <4>2. h[t \ {k}] \in V
        BY <1>2, <4>1
      <4> QED BY <3>1, <4>2
    <3>2. CASE k \notin t
      <4>1. h[t] \in V
        BY <1>2, <2>1, <3>2
      <4> QED BY <3>2, <4>1
    <3> QED BY <3>1, <3>2
  <2>3. ASSUME NEW t \in SUBSET (1..k)
        PROVE  i[t] = Step(i, t)
    <3>1. CASE k \in t
      <4>1. Max(t) = k
        <5>1. k \in Nat
          OBVIOUS
        <5> QED BY <3>1, <5>1, MaxIsLast
      <4>2. t \ {k} \in SUBSET (1..k) /\ k \notin t \ {k}
        OBVIOUS
      <4>3. i[t \ {k}] = h[t \ {k}]
        BY <4>2
      <4> QED BY <3>1, <4>1, <4>3
    <3>2. CASE k \notin t
      <4>1. t \in SUBSET (1..(k - 1))
        BY <2>1, <3>2
      <4>2. CASE t = {}
        BY <1>2, <3>2, <4>1, <4>2
      <4>3. CASE t # {}
        <5>1. Max(t) \in t /\ Max(t) # k
          <6>1. k \in Nat
            OBVIOUS
          <6> QED BY <3>2, <4>3, <6>1, MaxOf
        <5>2. t \ {Max(t)} \in SUBSET (1..k) /\ k \notin t \ {Max(t)}
          BY <3>2
        <5>3. i[t \ {Max(t)}] = h[t \ {Max(t)}] /\ i[t] = h[t]
          BY <3>2, <5>2
        <5>4. h[t] = Step(h, t)
          <6> HIDE DEF Step
          <6> QED BY <1>2, <4>1
        <5> QED BY <4>3, <5>3, <5>4
      <4> QED BY <4>2, <4>3
    <3> QED BY <3>1, <3>2
  <2>4. Solves(i, k)
    <3> HIDE DEF i, Step
    <3> QED BY <2>2, <2>3
  <2> HIDE DEF i, Solves
  <2> QED BY <2>4
<1>3. \A k \in 0..n : \E h : Solves(h, k)
  <2> DEFINE Bad == {k \in 0..n : ~\E h : Solves(h, k)}
  <2>1. SUFFICES ASSUME Bad # {} PROVE FALSE
    OBVIOUS
  <2>2. PICK k \in Bad : \A l \in Bad : k <= l
    <3>1. Bad \in SUBSET Nat
      OBVIOUS
    <3> QED BY <2>1, <3>1, Least
  <2> HIDE DEF Solves
  <2>3. k \in 1..n /\ k - 1 \in 0..n /\ k - 1 \notin Bad
    BY <1>1, <2>2
  <2>4. PICK h : Solves(h, k - 1)
    BY <2>3
  <2> QED BY <1>2, <2>2, <2>3, <2>4
<1>4. \E h : Solves(h, n)
  <2> HIDE DEF Solves
  <2> QED BY <1>3
<1> QED BY <1>4 DEF FoldsOver

\* Two functions agree on the empty set, and then on every larger one.
AgreeFurther(f, h, n) ==
  f[{}] = h[{}] /\ \A t \in SUBSET (1..n) : t # {} /\ f[t \ {Max(t)}] = h[t \ {Max(t)}] => f[t] = h[t]

Agree(f, h, n) == \A t \in SUBSET (1..n) : f[t] = h[t]

\* There is only one such function.
LEMMA FoldingIsUnique ==
  ASSUME NEW n \in Nat, NEW f, NEW h, AgreeFurther(f, h, n)
  PROVE  Agree(f, h, n)
<1> DEFINE Bad == {k \in 0..n : \E t \in SUBSET (1..k) : f[t] # h[t]}
<1>1. SUFFICES ASSUME Bad # {} PROVE FALSE
  <2>1. n \in 0..n
    OBVIOUS
  <2> QED BY <2>1 DEF Agree
<1>2. PICK k \in Bad : \A l \in Bad : k <= l
  <2>1. Bad \in SUBSET Nat
    OBVIOUS
  <2> QED BY <1>1, <2>1, Least
<1>3. PICK t \in SUBSET (1..k) : f[t] # h[t]
  BY <1>2
<1>4. k \in Nat /\ k <= n /\ 1..k \in SUBSET (1..n) /\ t # {}
  <2>1. t # {}
    BY Zenon, <1>3 DEF AgreeFurther
  <2> QED BY <1>2, <2>1
<1>5. Max(t) \in t /\ \A y \in t : y <= Max(t)
  BY <1>4, MaxOf
<1>6. k # 0 /\ k - 1 \in 0..n /\ k - 1 \notin Bad
  <2>1. ASSUME k = 0 PROVE FALSE
    <3>1. 1..k = {}
      BY <2>1
    <3> HIDE DEF Bad
    <3> QED BY <1>4, <3>1
  <2>2. k - 1 \in 0..n /\ ~(k <= k - 1)
    BY <1>4, <2>1
  <2> HIDE DEF Bad
  <2> QED BY <1>2, <2>1, <2>2
<1>7. t \ {Max(t)} \in SUBSET (1..(k - 1))
  <2>1. ASSUME NEW y \in t, y # Max(t)
        PROVE  y \in 1..(k - 1)
    <3>1. y \in 1..k /\ Max(t) \in 1..k /\ y <= Max(t)
      BY <1>5, <2>1
    <3> QED BY <1>4, <2>1, <3>1
  <2> QED BY <2>1
<1>8. f[t \ {Max(t)}] = h[t \ {Max(t)}]
  BY <1>6, <1>7
<1>9. t \in SUBSET (1..n)
  BY <1>4
<1> QED BY <1>3, <1>4, <1>8, <1>9 DEF AgreeFurther

StepsBy(g, n, base, F) == g[0] = base /\ \A k \in 1..n : g[k] = F[k][g[k - 1]]

\* What the fold over the first numbers gives.
LEMMA FoldedSteps ==
  ASSUME NEW n \in Nat, NEW V, NEW base \in V, NEW F \in [1..n -> [V -> V]],
         NEW f \in [SUBSET (1..n) -> V], FoldsOver(f, n, base, F)
  PROVE  \E g \in [0..n -> V] : g[n] = f[1..n] /\ StepsBy(g, n, base, F)
<1> DEFINE g == [k \in 0..n |-> f[1..k]]
<1>1. g \in [0..n -> V]
  <2>1. ASSUME NEW k \in 0..n PROVE 1..k \in SUBSET (1..n)
    OBVIOUS
  <2> QED BY <2>1
<1>2. g[0] = base /\ g[n] = f[1..n]
  <2>1. 1..0 = {} /\ {} \in SUBSET (1..n)
    OBVIOUS
  <2>2. g[0] = f[1..0] /\ g[n] = f[1..n]
    OBVIOUS
  <2> HIDE DEF g
  <2> QED BY <2>1, <2>2 DEF FoldsOver
<1>3. ASSUME NEW k \in 1..n
      PROVE  g[k] = F[k][g[k - 1]]
  <2>1. g[k] = f[1..k] /\ g[k - 1] = f[1..(k - 1)]
    BY Intervals
  <2> HIDE DEF g
  <2>2. f[1..k] = F[Max(1..k)][f[(1..k) \ {Max(1..k)}]]
    BY Intervals DEF FoldsOver
  <2> QED BY <2>1, <2>2, Intervals
<1> HIDE DEF g
<1> QED BY <1>1, <1>2, <1>3 DEF StepsBy

-----------------------------------------------------------------------------
(* The operators of SourceRanges.                                          *)

Ranges == Nat \X Nat

\* Absorbing a range leaves a sequence of ranges.
LEMMA AbsorbTyped ==
  ASSUME NEW m \in Seq(Ranges), NEW r \in Ranges
  PROVE  Absorb(m, r) \in Seq(Ranges)
<1>1. CASE m = <<>> \/ r[1] > Last(m)[2]
  BY <1>1 DEF Absorb
<1>2. CASE ~(m = <<>> \/ r[1] > Last(m)[2])
  <2> DEFINE n == Len(m)
  <2>1. n \in Nat /\ n \in 1..n /\ m \in [1..n -> Ranges]
    BY <1>2
  <2>2. m[n][1] \in Nat /\ m[n][2] \in Nat /\ r[2] \in Nat
    BY <2>1 DEF Ranges
  <2>3. Max({m[n][2], r[2]}) \in Nat
    <3>1. \E x \in {m[n][2], r[2]} : \A y \in {m[n][2], r[2]} : x >= y
      BY <2>2
    <3> QED BY <2>2, <3>1 DEF Max
  <2>4. Absorb(m, r) = [m EXCEPT ![n] = <<m[n][1], Max({m[n][2], r[2]})>>]
    BY <1>2 DEF Absorb, Last
  <2> HIDE DEF n
  <2>5. Absorb(m, r) \in [1..n -> Ranges]
    BY <2>1, <2>2, <2>3, <2>4 DEF Ranges
  <2> QED BY <2>1, <2>5
<1> QED BY <1>1, <1>2

\* Merging absorbs one range after another.
LEMMA AbsorbFold ==
  ASSUME NEW n \in Nat, NEW s \in [1..n -> Ranges]
  PROVE  \E g \in [0..n -> Seq(Ranges)] :
           /\ g[0] = <<>> /\ g[n] = FoldLeft(Absorb, <<>>, s)
           /\ \A k \in 1..n : g[k] = Absorb(g[k - 1], s[k])
<1> DEFINE V == Seq(Ranges)
           F == [k \in 1..n |-> [v \in V |-> Absorb(v, s[k])]]
           Folds(h) == h = [t \in SUBSET (1..n) |->
                              IF t = {} THEN <<>> ELSE Absorb(h[t \ {Max(t)}], s[Max(t)])]
           f == CHOOSE h : Folds(h)
<1>1. FoldLeft(Absorb, <<>>, s) = f[1..n]
  BY DEF FoldLeft, MapThenFoldSet
<1>2. <<>> \in V /\ F \in [1..n -> [V -> V]]
  BY AbsorbTyped
<1>3. \A k \in 1..n, v \in V : F[k][v] = Absorb(v, s[k])
  OBVIOUS
<1> HIDE DEF F, V
<1>4. ASSUME NEW t \in SUBSET (1..n), t # {}
      PROVE  Max(t) \in 1..n /\ t \ {Max(t)} \in SUBSET (1..n)
  BY <1>4, MaxOf
<1>5. PICK h \in [SUBSET (1..n) -> V] : FoldsOver(h, n, <<>>, F)
  BY <1>2, Folding
<1>6. Folds(h)
  <2>1. ASSUME NEW t \in SUBSET (1..n)
        PROVE  h[t] = IF t = {} THEN <<>> ELSE Absorb(h[t \ {Max(t)}], s[Max(t)])
    BY <1>3, <1>4, <1>5 DEF FoldsOver
  <2> QED BY <1>5, <2>1
<1>7. Folds(f)
  <2> HIDE DEF Folds
  <2> QED BY <1>6
<1>8. ASSUME NEW e, Folds(e)
      PROVE  \A t \in SUBSET (1..n) : e[t] = h[t]
  <2>1. \A t \in SUBSET (1..n) : t # {} =>
          /\ e[t] = Absorb(e[t \ {Max(t)}], s[Max(t)])
          /\ h[t] = Absorb(h[t \ {Max(t)}], s[Max(t)])
    BY <1>6, <1>8
  <2>2. e[{}] = h[{}]
    <3>1. {} \in SUBSET (1..n)
      OBVIOUS
    <3> QED BY <1>6, <1>8, <3>1
  <2>3. AgreeFurther(e, h, n)
    BY Zenon, <2>1, <2>2 DEF AgreeFurther
  <2>4. Agree(e, h, n)
    BY <2>3, FoldingIsUnique
  <2> QED BY <2>4 DEF Agree
<1>9. f[1..n] = h[1..n]
  <2> HIDE DEF f, Folds
  <2> QED BY <1>7, <1>8
<1> HIDE DEF f
<1>10. PICK g \in [0..n -> V] : g[n] = h[1..n] /\ StepsBy(g, n, <<>>, F)
  BY <1>2, <1>5, FoldedSteps
<1>11. \A k \in 1..n : g[k] = Absorb(g[k - 1], s[k])
  <2>1. \A k \in 1..n : g[k - 1] \in V
    BY <1>10, Intervals
  <2> QED BY <1>3, <1>10, <2>1 DEF StepsBy
<1>12. g[0] = <<>>
  BY <1>10 DEF StepsBy
<1> QED BY <1>1, <1>9, <1>10, <1>11, <1>12 DEF V

\* In order, none empty, none touching the next.
Separated(m) ==
  /\ m \in Seq(Nat \X Nat)
  /\ \A i \in 1..Len(m) : m[i][1] < m[i][2]
  /\ \A i, j \in 1..Len(m) : i < j => m[i][2] < m[j][1]

\* The lines of the first k ranges.
CoverTo(m, k) == UNION {LinesOf(m[i]) : i \in 1..k}

\* The next range, and the ranges that two sequences share.
LEMMA CoverNext ==
  ASSUME NEW m, NEW k \in Nat, k > 0
  PROVE  CoverTo(m, k) = CoverTo(m, k - 1) \cup LinesOf(m[k])
<1>1. 1..k = (1..(k - 1)) \cup {k}
  OBVIOUS
<1> QED BY <1>1 DEF CoverTo

LEMMA CoverSame ==
  ASSUME NEW k \in Nat, NEW a, NEW b, \A i \in 1..k : a[i] = b[i]
  PROVE  CoverTo(a, k) = CoverTo(b, k)
BY Zenon DEF CoverTo

\* Putting a range behind or into the merged ones, none of which begins later,
\* loses no line and adds no other.
LEMMA AbsorbKeeps ==
  ASSUME NEW m, Separated(m), NEW r \in Nat \X Nat, r[1] < r[2],
         m # <<>> => m[Len(m)][1] <= r[1]
  PROVE  LET a == Absorb(m, r)
         IN /\ Separated(a) /\ a # <<>> /\ a[Len(a)][1] <= r[1]
            /\ CoverTo(a, Len(a)) = CoverTo(m, Len(m)) \cup LinesOf(r)
<1> DEFINE n == Len(m)
<1>1. n \in Nat /\ m \in [1..n -> Nat \X Nat] /\ (m # <<>> => n > 0) /\ Len(m) = n
  BY DEF Separated
<1> HIDE DEF n
<1>2. CASE m = <<>> \/ r[1] > m[n][2]
  <2>1. Absorb(m, r) = Append(m, r)
    BY <1>1, <1>2 DEF Absorb, Last
  <2> DEFINE a == Append(m, r)
  <2>2. a \in Seq(Nat \X Nat) /\ Len(a) = n + 1 /\ a[n + 1] = r /\ \A i \in 1..n : a[i] = m[i]
    BY <1>1 DEF Separated
  <2>3. \A i \in 1..n : m[i][2] < r[1]
    <3> SUFFICES ASSUME NEW i \in 1..n PROVE m[i][2] < r[1]
      OBVIOUS
    <3>1. r[1] > m[n][2] /\ n \in 1..n
      BY <1>1, <1>2
    <3>2. i < n => m[i][2] < m[n][1] /\ m[n][1] < m[n][2]
      BY <1>1, <3>1 DEF Separated
    <3>3. m[i] \in Nat \X Nat /\ m[n] \in Nat \X Nat
      BY <1>1, <3>1
    <3> QED BY <1>1, <3>1, <3>2, <3>3
  <2> HIDE DEF a
  <2>4. Separated(a)
    <3>1. ASSUME NEW i \in 1..(n + 1)
          PROVE  a[i][1] < a[i][2]
      <4>1. CASE i = n + 1
        BY <2>2, <4>1
      <4>2. CASE i \in 1..n
        BY <1>1, <2>2, <4>2 DEF Separated
      <4> QED BY <1>1, <4>1, <4>2
    <3>2. ASSUME NEW i \in 1..(n + 1), NEW j \in 1..(n + 1), i < j
          PROVE  a[i][2] < a[j][1]
      <4>1. i \in 1..n
        BY <1>1, <3>2
      <4>2. CASE j = n + 1
        BY <2>2, <2>3, <4>1, <4>2
      <4>3. CASE j \in 1..n
        BY <1>1, <2>2, <3>2, <4>1, <4>3 DEF Separated
      <4> QED BY <1>1, <4>2, <4>3
    <3> QED BY <2>2, <3>1, <3>2 DEF Separated
  <2>5. CoverTo(a, n + 1) = CoverTo(m, n) \cup LinesOf(r)
    <3>1. CoverTo(a, n + 1) = CoverTo(a, n) \cup LinesOf(r)
      <4>1. n + 1 \in Nat /\ n + 1 > 0 /\ (n + 1) - 1 = n
        BY <1>1
      <4> QED BY <1>1, <2>2, <4>1, CoverNext
    <3>2. CoverTo(a, n) = CoverTo(m, n)
      BY <1>1, <2>2, CoverSame
    <3> QED BY <3>1, <3>2
  <2>6. a # <<>> /\ a[Len(a)][1] <= r[1]
    BY <1>1, <2>2
  <2> QED BY <1>1, <2>1, <2>2, <2>4, <2>5, <2>6 DEF a
<1>3. CASE m # <<>> /\ ~(r[1] > m[n][2])
  <2> DEFINE top == Max({m[n][2], r[2]})
             a == [m EXCEPT ![n] = <<m[n][1], top>>]
  <2>1. Absorb(m, r) = a
    BY <1>1, <1>3 DEF Absorb, Last
  <2>2. n \in 1..n /\ m[n] \in Nat \X Nat
    BY <1>1, <1>3
  <2>3. top \in {m[n][2], r[2]} /\ m[n][2] <= top /\ r[2] <= top
    <3>1. \E x \in {m[n][2], r[2]} : \A y \in {m[n][2], r[2]} : x >= y
      BY <2>2
    <3> QED BY <3>1 DEF Max
  <2> HIDE DEF top
  <2>4. a \in [1..n -> Nat \X Nat] /\ a[n] = <<m[n][1], top>> /\ \A i \in 1..(n - 1) : a[i] = m[i]
    BY <1>1, <2>2, <2>3
  <2>5. a \in Seq(Nat \X Nat) /\ Len(a) = n
    BY <1>1, <2>4
  <2> HIDE DEF a
  <2>6. Separated(a)
    <3>1. ASSUME NEW i \in 1..n
          PROVE  a[i][1] < a[i][2] /\ a[i][1] = m[i][1]
      <4>1. m[i][1] < m[i][2] /\ m[i] \in Nat \X Nat
        BY <1>1 DEF Separated
      <4>2. CASE i = n
        BY <2>2, <2>3, <2>4, <4>1, <4>2
      <4>3. CASE i # n
        <5>1. i \in 1..(n - 1)
          BY <1>1, <4>3
        <5> QED BY <2>4, <4>1, <5>1
      <4> QED BY <4>2, <4>3
    <3>2. ASSUME NEW i \in 1..n, NEW j \in 1..n, i < j
          PROVE  a[i][2] < a[j][1]
      <4>1. i \in 1..(n - 1)
        BY <1>1, <3>2
      <4>2. m[i][2] < m[j][1]
        BY <1>1, <3>2 DEF Separated
      <4> QED BY <2>4, <3>1, <4>1, <4>2
    <3> QED BY <2>5, <3>1, <3>2 DEF Separated
  <2>7. CoverTo(a, n) = CoverTo(m, n) \cup LinesOf(r)
    <3>1. n \in Nat /\ n > 0 /\ n - 1 \in Nat
      BY <1>1, <2>2
    <3>2. CoverTo(a, n) = CoverTo(a, n - 1) \cup LinesOf(a[n])
      BY <3>1, CoverNext
    <3>3. CoverTo(m, n) = CoverTo(m, n - 1) \cup LinesOf(m[n])
      BY <3>1, CoverNext
    <3>4. CoverTo(a, n - 1) = CoverTo(m, n - 1)
      BY <2>4, <3>1, CoverSame
    <3>5. LinesOf(a[n]) = LinesOf(m[n]) \cup LinesOf(r)
      <4>1. m[n][1] < m[n][2] /\ m[n][1] <= r[1] /\ r[1] <= m[n][2]
        BY <1>1, <1>3, <2>2 DEF Separated
      <4>2. LinesOf(a[n]) = m[n][1]..(top - 1)
        BY <2>4 DEF LinesOf
      <4>3. m[n][1] \in Nat /\ m[n][2] \in Nat /\ r[1] \in Nat /\ r[2] \in Nat /\ top \in Nat
        BY <2>2, <2>3
      <4>4. LinesOf(m[n]) = m[n][1]..(m[n][2] - 1) /\ LinesOf(r) = r[1]..(r[2] - 1)
        BY DEF LinesOf
      <4>5. CASE top = m[n][2]
        BY <2>3, <4>1, <4>2, <4>3, <4>4, <4>5
      <4>6. CASE top = r[2]
        BY <2>3, <4>1, <4>2, <4>3, <4>4, <4>6
      <4> QED BY <2>3, <4>5, <4>6
    <3> QED BY <3>2, <3>3, <3>4, <3>5
  <2>8. a # <<>> /\ a[Len(a)][1] <= r[1]
    BY <1>1, <1>3, <2>2, <2>4, <2>5
  <2> QED BY <1>1, <2>1, <2>5, <2>6, <2>7, <2>8
<1> QED BY <1>2, <1>3

\* Of some ranges there is one that comes before all others.
LEMMA Earliest ==
  ASSUME NEW S \in SUBSET Ranges, S # {}
  PROVE  \E m \in S : \A r \in S \ {m} : Earlier(m, r)
<1> DEFINE A == {r[1] : r \in S}
<1>1. A \in SUBSET Nat /\ A # {}
  BY DEF Ranges
<1>2. PICK a \in A : \A x \in A : a <= x
  BY <1>1, Least
<1> DEFINE B == {r[2] : r \in {q \in S : q[1] = a}}
<1>3. B \in SUBSET Nat /\ B # {}
  BY DEF Ranges
<1>4. PICK b \in B : \A x \in B : b <= x
  BY <1>3, Least
<1>5. PICK m \in S : m[1] = a /\ m[2] = b
  BY <1>4
<1>6. ASSUME NEW r \in S \ {m}
      PROVE  Earlier(m, r)
  <2>1. r \in Ranges /\ m \in Ranges /\ r # m
    OBVIOUS
  <2>2. r[1] # m[1] \/ r[2] # m[2]
    BY <2>1 DEF Ranges
  <2>3. a <= r[1]
    BY <1>2
  <2>4. r[1] = a => b <= r[2]
    BY <1>4
  <2> QED BY <1>5, <2>1, <2>2, <2>3, <2>4 DEF Earlier, Ranges
<1> QED BY <1>6

\* One after another in the order of the code's sort.
InOrder(s) == \A i, j \in DOMAIN s : i < j => Earlier(s[i], s[j])

\* Every finite set of ranges can be put in order.
LEMMA OrderExists ==
  ASSUME NEW S \in SUBSET Ranges, IsFiniteSet(S)
  PROVE  \E s \in [1..Cardinality(S) -> S] : InOrder(s)
<1> DEFINE Ordered(T) == \E s \in [1..Cardinality(T) -> T] : InOrder(s)
           Bad == {n \in Nat : \E T \in SUBSET Ranges :
                     IsFiniteSet(T) /\ Cardinality(T) = n /\ ~Ordered(T)}
<1>1. SUFFICES ASSUME Bad # {} PROVE FALSE
  <2>1. Cardinality(S) \in Nat
    BY FS_CardinalityType
  <2> QED BY <2>1
<1>2. PICK n \in Bad : \A m \in Bad : n <= m
  BY <1>1, Least
<1>3. PICK T \in SUBSET Ranges : IsFiniteSet(T) /\ Cardinality(T) = n /\ ~Ordered(T)
  BY <1>2
<1>4. T # {}
  <2>1. ASSUME T = {} PROVE FALSE
    <3>1. n = 0
      BY <1>3, <2>1, FS_EmptySet
    <3>2. [i \in 1..0 |-> 0] \in [1..Cardinality(T) -> T] /\ InOrder([i \in 1..0 |-> 0])
      BY <1>3, <3>1 DEF InOrder
    <3> QED BY <1>3, <3>2
  <2> QED BY <2>1
<1>5. PICK m \in T : \A r \in T \ {m} : Earlier(m, r)
  BY <1>4, Earliest
<1> DEFINE U == T \ {m}
<1>6. n \in Nat /\ n > 0 /\ IsFiniteSet(U) /\ Cardinality(U) = n - 1
  <2>1. n # 0
    BY <1>3, <1>4, FS_EmptySet
  <2>2. IsFiniteSet(U) /\ Cardinality(U) = n - 1
    BY <1>3, FS_RemoveElement
  <2> QED BY <1>2, <2>1, <2>2
<1>7. Ordered(U)
  <2>1. n - 1 \in Nat /\ n - 1 \notin Bad
    BY <1>2, <1>6
  <2>2. U \in SUBSET Ranges
    OBVIOUS
  <2> QED BY <1>6, <2>1, <2>2
<1>8. PICK u \in [1..(n - 1) -> U] : InOrder(u)
  BY <1>6, <1>7
<1> DEFINE s == [i \in 1..n |-> IF i = 1 THEN m ELSE u[i - 1]]
<1>9. \A i \in 1..n : i # 1 => i - 1 \in 1..(n - 1)
  BY <1>6
<1>10. s \in [1..Cardinality(T) -> T]
  BY <1>3, <1>8, <1>9
<1>11. InOrder(s)
  <2> SUFFICES ASSUME NEW i \in 1..n, NEW j \in 1..n, i < j PROVE Earlier(s[i], s[j])
    BY DEF InOrder
  <2>1. j # 1 /\ j - 1 \in 1..(n - 1) /\ s[j] = u[j - 1] /\ u[j - 1] \in U
    BY <1>6, <1>8, <1>9
  <2>2. CASE i = 1
    BY <1>5, <2>1, <2>2
  <2>3. CASE i # 1
    BY <1>6, <1>8, <1>9, <2>1, <2>3 DEF InOrder
  <2> QED BY <2>2, <2>3
<1> QED BY <1>3, <1>10, <1>11

\* Sorting loses no range, and repeats none.
LEMMA SortedRanges ==
  ASSUME NEW S \in SUBSET Ranges, IsFiniteSet(S)
  PROVE  /\ Cardinality(S) \in Nat
         /\ Sorted(S) \in [1..Cardinality(S) -> S] /\ InOrder(Sorted(S))
         /\ \A r \in S : \E i \in 1..Cardinality(S) : Sorted(S)[i] = r
<1> DEFINE n == Cardinality(S)
           s == Sorted(S)
<1>1. n \in Nat
  BY FS_CardinalityType
<1>2. s \in [1..n -> S] /\ InOrder(s)
  BY OrderExists DEF Sorted, InOrder
<1>3. ASSUME NEW i \in 1..n, NEW j \in 1..n, s[i] = s[j]
      PROVE  i = j
  <2>1. s[i] \in Ranges /\ ~Earlier(s[i], s[j]) /\ ~Earlier(s[j], s[i])
    <3>1. s[i] \in Ranges
      BY <1>2
    <3> QED BY <1>3, <3>1 DEF Earlier, Ranges
  <2>2. ~(i < j) /\ ~(j < i)
    BY <1>2, <2>1 DEF InOrder
  <2> QED BY <1>1, <2>2
<1>4. s \in Injection(1..n, S)
  BY <1>2, <1>3 DEF Injection, IsInjective
<1>5. IsFiniteSet(1..n) /\ Cardinality(1..n) = n
  BY <1>1, FS_Interval
<1>6. s \in Surjection(1..n, S)
  BY <1>4, <1>5, FS_Injection
<1> QED BY <1>1, <1>2, <1>6 DEF Surjection

\* Merging neither loses nor adds a line, and the merged ranges never touch.
THEOREM MergeIsExact ==
  ASSUME NEW S \in SUBSET Ranges, IsFiniteSet(S)
  PROVE  LET m == MergeRanges(S)
         IN Separated(m) /\ CoverTo(m, Len(m)) = UNION {LinesOf(r) : r \in S}
<1> DEFINE T == {r \in S : r[2] > r[1]}
           n == Cardinality(T)
           s == Sorted(T)
<1>1. T \in SUBSET Ranges /\ IsFiniteSet(T)
  BY FS_Subset
<1> HIDE DEF T
<1>2. /\ n \in Nat /\ s \in [1..n -> T] /\ InOrder(s)
      /\ \A r \in T : \E i \in 1..n : s[i] = r
  BY <1>1, SortedRanges
<1> HIDE DEF n, s
<1>3. s \in [1..n -> Ranges]
  BY <1>1, <1>2
<1>4. PICK g \in [0..n -> Seq(Ranges)] :
        /\ g[0] = <<>> /\ g[n] = FoldLeft(Absorb, <<>>, s)
        /\ \A k \in 1..n : g[k] = Absorb(g[k - 1], s[k])
  BY <1>2, <1>3, AbsorbFold
<1> DEFINE Right(k) == /\ Separated(g[k]) /\ CoverTo(g[k], Len(g[k])) = CoverTo(s, k)
                       /\ k # 0 => g[k] # <<>> /\ g[k][Len(g[k])][1] <= s[k][1]
<1>5. Right(0)
  <2>1. g[0] = <<>> /\ Len(<<>>) = 0 /\ 1..0 = {}
    BY <1>4
  <2> QED BY <2>1 DEF Separated, CoverTo
<1>6. ASSUME NEW k \in 1..n, Right(k - 1)
      PROVE  Right(k)
  <2> DEFINE m == g[k - 1]
             r == s[k]
  <2>1. k \in Nat /\ k > 0 /\ k - 1 \in 0..n /\ r \in Nat \X Nat /\ g[k] = Absorb(m, r)
    <3>1. k \in Nat /\ k > 0 /\ k - 1 \in 0..n
      BY <1>2
    <3>2. r \in Nat \X Nat
      BY <1>3 DEF Ranges
    <3>3. g[k] = Absorb(m, r)
      BY <1>4
    <3> QED BY <3>1, <3>2, <3>3
  <2>2. r[1] < r[2]
    <3>1. r \in T
      BY <1>2
    <3> QED BY <1>1, <2>1, <3>1 DEF T
  <2>3. m # <<>> => m[Len(m)][1] <= r[1]
    <3>1. CASE k - 1 = 0
      BY <1>4, <3>1
    <3>2. CASE k - 1 # 0
      <4>1. k - 1 \in 1..n /\ k - 1 < k
        BY <2>1, <3>2
      <4>2. Earlier(s[k - 1], s[k])
        BY <1>2, <4>1 DEF InOrder
      <4>3. s[k - 1] \in Ranges /\ m \in Seq(Ranges) /\ s[k - 1][1] <= r[1]
        BY <1>3, <1>4, <2>1, <4>1, <4>2 DEF Earlier, Ranges
      <4>4. m[Len(m)][1] <= s[k - 1][1] /\ m # <<>>
        BY <1>6, <3>2
      <4>5. m[Len(m)] \in Ranges
        BY <4>3, <4>4
      <4> QED BY <2>1, <4>3, <4>4, <4>5 DEF Ranges
    <3> QED BY <3>1, <3>2
  <2>4. Separated(m) /\ CoverTo(m, Len(m)) = CoverTo(s, k - 1)
    BY <1>6
  <2> HIDE DEF m, r
  <2>5. /\ Separated(Absorb(m, r)) /\ Absorb(m, r) # <<>>
        /\ Absorb(m, r)[Len(Absorb(m, r))][1] <= r[1]
        /\ CoverTo(Absorb(m, r), Len(Absorb(m, r))) = CoverTo(m, Len(m)) \cup LinesOf(r)
    BY <2>1, <2>2, <2>3, <2>4, AbsorbKeeps
  <2>6. CoverTo(s, k) = CoverTo(s, k - 1) \cup LinesOf(r)
    BY <2>1, CoverNext DEF r
  <2> QED BY <2>1, <2>4, <2>5, <2>6 DEF r
<1>7. Right(n)
  <2> DEFINE Bad == {k \in 0..n : ~Right(k)}
  <2>1. SUFFICES ASSUME Bad # {} PROVE FALSE
    <3>1. n \in 0..n
      BY <1>2
    <3> HIDE DEF Right
    <3> QED BY <3>1
  <2>2. PICK k \in Bad : \A l \in Bad : k <= l
    <3>1. Bad \in SUBSET Nat
      OBVIOUS
    <3> QED BY <2>1, <3>1, Least
  <2> HIDE DEF Right
  <2>3. k \in 1..n /\ k - 1 \in 0..n /\ k - 1 \notin Bad
    BY <1>2, <1>5, <2>2
  <2> QED BY <1>6, <2>2, <2>3
<1>8. MergeRanges(S) = g[n]
  BY <1>4 DEF MergeRanges, T, s
<1>9. CoverTo(s, n) = UNION {LinesOf(r) : r \in S}
  <2>1. ASSUME NEW r \in S, r \notin T
        PROVE  LinesOf(r) = {}
    <3>1. r \in Nat \X Nat /\ ~(r[2] > r[1])
      BY <2>1 DEF T, Ranges
    <3> QED BY <3>1 DEF LinesOf
  <2>2. T \subseteq S
    BY DEF T
  <2>3. ASSUME NEW l \in CoverTo(s, n)
        PROVE  l \in UNION {LinesOf(r) : r \in S}
    <3>1. PICK i \in 1..n : l \in LinesOf(s[i])
      BY <2>3 DEF CoverTo
    <3>2. s[i] \in S
      BY <1>2, <2>2
    <3> QED BY <3>1, <3>2
  <2>4. ASSUME NEW r \in S, NEW l \in LinesOf(r)
        PROVE  l \in CoverTo(s, n)
    <3>1. r \in T
      BY <2>1, <2>4
    <3>2. PICK i \in 1..n : s[i] = r
      BY <1>2, <3>1
    <3> QED BY <2>4, <3>2 DEF CoverTo
  <2> QED BY <2>3, <2>4
<1> QED BY <1>7, <1>8, <1>9

\* The lines a range has between two others.
LEMMA Clipped ==
  ASSUME NEW r \in Ranges, NEW start \in Nat, NEW end \in Nat
  PROVE  LET c == LinesOf(r) \cap LinesOf(<<start, end>>)
         IN /\ IsFiniteSet(c)
            /\ Cardinality(c) = Max({0, Min({end, r[2]}) - Max({start, r[1]})})
            /\ Max({0, Min({end, r[2]}) - Max({start, r[1]})}) \in Nat
<1> DEFINE low == Max({start, r[1]})
           high == Min({end, r[2]})
<1>1. r[1] \in Nat /\ r[2] \in Nat
  BY DEF Ranges
<1>2. low = IF start >= r[1] THEN start ELSE r[1]
  <2>1. \E x \in {start, r[1]} : \A y \in {start, r[1]} : x >= y
    BY <1>1
  <2>2. low \in {start, r[1]} /\ low >= start /\ low >= r[1]
    BY <2>1 DEF Max
  <2> HIDE DEF low
  <2> QED BY <1>1, <2>2
<1>3. high = IF end <= r[2] THEN end ELSE r[2]
  <2>1. \E x \in {end, r[2]} : \A y \in {end, r[2]} : x <= y
    BY <1>1
  <2>2. high \in {end, r[2]} /\ high <= end /\ high <= r[2]
    BY <2>1 DEF Min
  <2> HIDE DEF high
  <2> QED BY <1>1, <2>2
<1> HIDE DEF low, high
<1>4. Max({0, high - low}) = IF high >= low THEN high - low ELSE 0
  <2>1. high - low \in Int
    BY <1>1, <1>2, <1>3
  <2>2. \E x \in {0, high - low} : \A y \in {0, high - low} : x >= y
    BY <2>1
  <2>3. /\ Max({0, high - low}) \in {0, high - low}
        /\ Max({0, high - low}) >= 0 /\ Max({0, high - low}) >= high - low
    BY <2>2 DEF Max
  <2> QED BY <1>1, <1>2, <1>3, <2>1, <2>3
<1>5. LinesOf(r) \cap LinesOf(<<start, end>>) = low..(high - 1)
  <2>1. LinesOf(<<start, end>>) = start..(end - 1) /\ LinesOf(r) = r[1]..(r[2] - 1)
    BY DEF LinesOf
  <2> QED BY <1>1, <1>2, <1>3, <2>1
<1>6. low \in Nat /\ high \in Nat
  BY <1>1, <1>2, <1>3
<1>7. /\ IsFiniteSet(low..(high - 1))
      /\ Cardinality(low..(high - 1)) = IF low > high - 1 THEN 0 ELSE (high - 1) - low + 1
  BY <1>6, FS_Interval
<1>8. Cardinality(low..(high - 1)) = Max({0, high - low}) /\ Max({0, high - low}) \in Nat
  BY <1>4, <1>6, <1>7
<1> QED BY <1>5, <1>7, <1>8 DEF low, high

\* The lines of a range that are asked for.
Part(r, start, end) == Max({0, Min({end, r[2]}) - Max({start, r[1]})})

\* The overlap is counted one range after another.
LEMMA PartFold ==
  ASSUME NEW n \in Nat, NEW s \in [1..n -> Ranges],
         NEW start \in Nat, NEW end \in Nat, start < end
  PROVE  \E g \in [0..n -> Nat] :
           /\ g[0] = 0 /\ g[n] = OverlapLength(s, start, end)
           /\ \A k \in 1..n : g[k] = g[k - 1] + Part(s[k], start, end)
<1> DEFINE F == [k \in 1..n |-> [v \in Nat |-> v + Part(s[k], start, end)]]
           Folds(h) == h = [t \in SUBSET (1..n) |->
                              IF t = {} THEN 0 ELSE h[t \ {Max(t)}] + Part(s[Max(t)], start, end)]
           f == CHOOSE h : Folds(h)
<1>1. OverlapLength(s, start, end) = f[1..n]
  <2>1. ~(end <= start)
    OBVIOUS
  <2> QED BY <2>1 DEF OverlapLength, FoldLeft, MapThenFoldSet, Part
<1>2. 0 \in Nat /\ F \in [1..n -> [Nat -> Nat]]
  <2>1. \A k \in 1..n : Part(s[k], start, end) \in Nat
    BY Clipped DEF Part
  <2> QED BY <2>1
<1>3. \A k \in 1..n, v \in Nat : F[k][v] = v + Part(s[k], start, end)
  OBVIOUS
<1> HIDE DEF F
<1>4. ASSUME NEW t \in SUBSET (1..n), t # {}
      PROVE  Max(t) \in 1..n /\ t \ {Max(t)} \in SUBSET (1..n)
  BY <1>4, MaxOf
<1>5. PICK h \in [SUBSET (1..n) -> Nat] : FoldsOver(h, n, 0, F)
  BY <1>2, Folding
<1>6. Folds(h)
  <2>1. ASSUME NEW t \in SUBSET (1..n)
        PROVE  h[t] = IF t = {} THEN 0 ELSE h[t \ {Max(t)}] + Part(s[Max(t)], start, end)
    BY <1>3, <1>4, <1>5 DEF FoldsOver
  <2> QED BY <1>5, <2>1
<1>7. Folds(f)
  <2> HIDE DEF Folds
  <2> QED BY <1>6
<1> HIDE DEF f
<1>8. ASSUME NEW e, Folds(e)
      PROVE  \A t \in SUBSET (1..n) : e[t] = h[t]
  <2>1. \A t \in SUBSET (1..n) : t # {} =>
          /\ e[t] = e[t \ {Max(t)}] + Part(s[Max(t)], start, end)
          /\ h[t] = h[t \ {Max(t)}] + Part(s[Max(t)], start, end)
    BY <1>6, <1>8
  <2>2. e[{}] = h[{}]
    <3>1. {} \in SUBSET (1..n)
      OBVIOUS
    <3> QED BY <1>6, <1>8, <3>1
  <2>3. AgreeFurther(e, h, n)
    BY Zenon, <2>1, <2>2 DEF AgreeFurther
  <2>4. Agree(e, h, n)
    BY <2>3, FoldingIsUnique
  <2> QED BY <2>4 DEF Agree
<1>9. f[1..n] = h[1..n]
  <2> HIDE DEF Folds
  <2> QED BY <1>7, <1>8
<1>10. PICK g \in [0..n -> Nat] : g[n] = h[1..n] /\ StepsBy(g, n, 0, F)
  BY <1>2, <1>5, FoldedSteps
<1>11. \A k \in 1..n : g[k] = g[k - 1] + Part(s[k], start, end)
  <2>1. \A k \in 1..n : g[k - 1] \in Nat
    BY <1>10, Intervals
  <2> QED BY <1>3, <1>10, <2>1 DEF StepsBy
<1>12. g[0] = 0
  BY <1>10 DEF StepsBy
<1> QED BY <1>1, <1>9, <1>10, <1>11, <1>12

\* What the parts of separated ranges add up to is the number of lines.
THEOREM OverlapCounts ==
  ASSUME NEW m, Separated(m), NEW start \in Nat, NEW end \in Nat
  PROVE  OverlapLength(m, start, end)
           = Cardinality(CoverTo(m, Len(m)) \cap LinesOf(<<start, end>>))
<1> DEFINE n == Len(m)
           A == LinesOf(<<start, end>>)
<1>1. n \in Nat /\ m \in [1..n -> Ranges]
  BY DEF Separated, Ranges
<1> HIDE DEF n, A
<1>2. CASE end <= start
  <2>1. A = {} /\ OverlapLength(m, start, end) = 0
    <3>1. A = {}
      BY <1>2 DEF A, LinesOf
    <3>2. OverlapLength(m, start, end) = 0
      BY <1>2 DEF OverlapLength, FoldLeft, MapThenFoldSet
    <3> QED BY <3>1, <3>2
  <2> QED BY <2>1, FS_EmptySet DEF A
<1>3. CASE start < end
  <2>1. PICK g \in [0..n -> Nat] :
          /\ g[0] = 0 /\ g[n] = OverlapLength(m, start, end)
          /\ \A k \in 1..n : g[k] = g[k - 1] + Part(m[k], start, end)
    BY <1>1, <1>3, PartFold
  <2> DEFINE Part1(k) == CoverTo(m, k) \cap A
             Right(k) == IsFiniteSet(Part1(k)) /\ Cardinality(Part1(k)) = g[k]
  <2>2. Right(0)
    <3>1. Part1(0) = {}
      BY DEF CoverTo
    <3> QED BY <2>1, <3>1, FS_EmptySet
  <2>3. ASSUME NEW k \in 1..n, Right(k - 1)
        PROVE  Right(k)
    <3>1. k \in Nat /\ k > 0 /\ m[k] \in Ranges /\ k - 1 \in 0..n
      BY <1>1
    <3> DEFINE c == LinesOf(m[k]) \cap A
    <3>2. IsFiniteSet(c) /\ Cardinality(c) = Part(m[k], start, end) /\ Part(m[k], start, end) \in Nat
      BY <3>1, Clipped DEF Part, A
    <3>3. Part1(k) = Part1(k - 1) \cup c
      BY <3>1, CoverNext
    <3>4. Part1(k - 1) \cap c = {}
      <4>1. ASSUME NEW l \in CoverTo(m, k - 1)
            PROVE  l \notin LinesOf(m[k])
        <5>1. PICK i \in 1..(k - 1) : l \in LinesOf(m[i])
          BY <4>1 DEF CoverTo
        <5>2. i \in 1..n /\ i < k /\ k \in 1..n
          BY <1>1, <3>1
        <5>3. m[i][2] < m[k][1] /\ m[i] \in Ranges
          BY <1>1, <5>2 DEF Separated, n
        <5> QED BY <3>1, <5>1, <5>3 DEF LinesOf, Ranges
      <4> QED BY <4>1
    <3> HIDE DEF c, Part1
    <3>5. IsFiniteSet(Part1(k)) /\ Cardinality(Part1(k))
            = Cardinality(Part1(k - 1)) + Cardinality(c) - Cardinality({})
      BY <2>3, <3>2, <3>3, <3>4, FS_Union
    <3>6. Cardinality({}) = 0 /\ g[k] = g[k - 1] + Part(m[k], start, end) /\ g[k - 1] \in Nat
      BY <2>1, <3>1, FS_EmptySet
    <3> QED BY <2>3, <3>2, <3>5, <3>6
  <2>4. Right(n)
    <3> DEFINE Bad == {k \in 0..n : ~Right(k)}
    <3>1. n \in 0..n
      BY <1>1
    <3> HIDE DEF Right
    <3>2. SUFFICES ASSUME Bad # {} PROVE FALSE
      BY <3>1
    <3>3. PICK k \in Bad : \A l \in Bad : k <= l
      <4>1. Bad \in SUBSET Nat
        OBVIOUS
      <4> QED BY <3>2, <4>1, Least
    <3>4. k \in 1..n /\ k - 1 \in 0..n /\ k - 1 \notin Bad
      BY <1>1, <2>2, <3>3
    <3> QED BY <2>3, <3>3, <3>4
  <2> QED BY <2>1, <2>4 DEF A, n
<1> QED BY <1>2, <1>3

\* A file of so many lines is covered when the first range reaches its end.
THEOREM CoversAllIsExact ==
  ASSUME NEW m, Separated(m), NEW total \in Nat,
         CoverTo(m, Len(m)) \subseteq 0..(total - 1)
  PROVE  CoversAll(m, total) <=> CoverTo(m, Len(m)) = 0..(total - 1)
<1> DEFINE n == Len(m)
           C == CoverTo(m, n)
<1>1. n \in Nat /\ m \in [1..n -> Ranges] /\ (m # <<>> => n > 0)
  BY DEF Separated, Ranges
<1>2. \A i \in 1..n : LinesOf(m[i]) \subseteq C
  BY DEF CoverTo
<1> HIDE DEF n
<1>3. CASE total = 0
  <2>1. 0..(total - 1) = {}
    BY <1>3
  <2> QED BY <1>3, <2>1 DEF CoversAll, n
<1>4. CASE total # 0 /\ m = <<>>
  <2>1. n = 0
    BY <1>4 DEF n
  <2>2. C = {}
    BY <2>1 DEF CoverTo
  <2>3. 0 \in 0..(total - 1)
    BY <1>4
  <2> QED BY <1>4, <2>2, <2>3 DEF CoversAll, n
<1>5. CASE total # 0 /\ m # <<>>
  <2>1. 1 \in 1..n /\ m[1] \in Ranges /\ m[1][1] < m[1][2]
    BY <1>1, <1>5 DEF Separated, n
  <2>2. m[1][1] \in Nat /\ m[1][2] \in Nat
    BY <2>1 DEF Ranges
  <2>3. LinesOf(m[1]) = m[1][1]..(m[1][2] - 1)
    BY DEF LinesOf
  <2>4. ASSUME CoversAll(m, total)
        PROVE  C = 0..(total - 1)
    <3>1. m[1][1] = 0 /\ m[1][2] >= total
      BY <1>5, <2>4 DEF CoversAll
    <3>2. 0..(total - 1) \subseteq LinesOf(m[1])
      BY <2>2, <2>3, <3>1
    <3> QED BY <1>2, <2>1, <3>2 DEF n
  <2>5. ASSUME C = 0..(total - 1)
        PROVE  CoversAll(m, total)
    <3>1. ASSUME NEW l \in C, l \notin LinesOf(m[1])
          PROVE  l > m[1][2]
      <4>1. PICK i \in 1..n : l \in LinesOf(m[i])
        BY <3>1 DEF CoverTo
      <4>2. i # 1 /\ 1 < i
        BY <1>1, <3>1, <4>1
      <4>3. m[1][2] < m[i][1] /\ m[i] \in Ranges
        BY <1>1, <2>1, <4>2 DEF Separated, n
      <4> QED BY <2>2, <4>1, <4>3 DEF LinesOf, Ranges
    <3>2. 0 \in C
      BY <1>5, <2>5
    <3>3. m[1][1] = 0
      <4>1. 0 \in LinesOf(m[1])
        BY <2>2, <3>1, <3>2
      <4> QED BY <2>2, <2>3, <4>1
    <3>4. ASSUME m[1][2] < total PROVE FALSE
      <4>1. m[1][2] \in C
        BY <2>2, <2>5, <3>4
      <4>2. m[1][2] \notin LinesOf(m[1])
        BY <2>2, <2>3
      <4> QED BY <2>2, <3>1, <4>1, <4>2
    <3> QED BY <1>5, <2>2, <3>3, <3>4 DEF CoversAll
  <2> QED BY <2>4, <2>5 DEF n
<1> QED BY <1>3, <1>4, <1>5

-----------------------------------------------------------------------------
(* The invariant, without what is derived from the ranges.                 *)

\* What a call in progress holds: a read, its content and its page; a write, the
\* content it is to put or has found.
CallTyped ==
  /\ call = NoCall \/ call.tool \in {"read", "replace", "edit", "create", "delete"}
  /\ call.tool = "read" =>
       /\ call.pc = "bytes" /\ call.raw \in world.contents
       /\ call.from \in Nat /\ call.to \in Nat /\ call.from <= call.to
       /\ call.to <= LineCount[call.raw] \/ call.to = call.from
  /\ call.tool \in {"replace", "edit", "create", "delete"} =>
       call = Writing(call.tool, call.pc, call.raw)
  /\ call.tool = "replace" => call.raw \in world.contents
  /\ call.tool \in {"edit", "create"} /\ call.pc = "bytes" => call.raw \in world.contents

Slices == [sha : Contents, content : Contents, from : Nat, to : Nat]

StateParts == {"sha", "total", "covered", "observed", "projected"}

Typed ==
  /\ TypeOK /\ CallTyped
  /\ snapshot # None => snapshot \in Snapshots
  /\ segments # None => DOMAIN segments = StateParts
  /\ results \in Seq(Slices)

\* While a call is in progress the disk holds nothing that no call has seen, and
\* what none has seen is younger than the snapshot.
Fresh ==
  ~world.coarse =>
    /\ ~Idle => ~unseen
    /\ snapshot # None /\ disk # Absent /\ unseen => snapshot.mtime < disk.mtime

\* Where nobody writes during a call, the contents the tools compare are ones a
\* call has read or written, and the disk stays what the call found.
Known ==
  ~world.races =>
    /\ snapshot # None => snapshot.sha \in handled
    /\ call.tool = "read" =>
         disk # Absent /\ disk.content = call.raw /\ call.raw \in handled
    /\ call.tool \in {"replace", "delete"} /\ call.pc = "checked" =>
         disk # Absent /\ snapshot # None /\ UnchangedSinceSnapshot
    /\ call.tool = "replace" /\ call.pc = "checked" => ~snapshot.partial
    /\ call.tool \in {"replace", "edit", "create"} /\ call.pc = "written" =>
         disk.content \in handled
    /\ call.tool \in {"replace", "edit", "create"} /\ call.pc = "bytes" =>
         disk # Absent /\ disk.content = call.raw /\ call.raw \in handled

\* Where moreover the times of writes differ, a snapshot that agrees with the disk
\* in its time agrees with it in everything, and after a read it does.
Agrees ==
  ~world.races /\ ~world.coarse =>
    /\ snapshot # None /\ disk # Absent /\ snapshot.mtime = disk.mtime => UnchangedSinceSnapshot
    /\ settled /\ call.tool # "read" /\ snapshot # None =>
         disk # Absent /\ UnchangedSinceSnapshot
    /\ call.tool \in {"replace", "edit", "create"} /\ call.pc \in {"written", "bytes"} => ~settled

DiskInv == Typed /\ Fresh /\ Known /\ Agrees

\* A hash that is recorded is that of the bytes or of the snapshot.
LEMMA HashOfContents ==
  ASSUME Typed, call.raw \in world.contents
  PROVE  ReusedHash \in world.contents
BY DEF Typed, TypeOK, ReusedHash

LEMMA SnapshotTyped ==
  ASSUME Typed, disk # Absent, NEW sha \in world.contents, NEW partial \in BOOLEAN
  PROVE  /\ SnapshotOf(sha, partial) \in Snapshots /\ SnapshotOf(sha, partial) # None
         /\ SnapshotOf(sha, partial).mtime = disk.mtime
         /\ SnapshotOf(sha, partial).sha = sha
         /\ SnapshotOf(sha, partial).size = Size[disk.content]
         /\ SnapshotOf(sha, partial).partial = partial
<1>1. disk.mtime \in Nat /\ Size[disk.content] \in Nat /\ sha \in Contents
  BY ContentsAssumption, WorldsAssumption DEF Typed, TypeOK
<1>2. SnapshotOf(sha, partial) \in Snapshots
  BY <1>1 DEF Snapshots, SnapshotOf
<1> QED BY <1>2, NoneAssumption DEF SnapshotOf

\* What a write leaves on the disk.
LEMMA PutTyped ==
  ASSUME Typed, NEW content \in world.contents, Put(content)
  PROVE  /\ disk'.content = content /\ disk'.mtime = now' /\ now' \in 0..world.maxTime
         /\ now \in Nat /\ now <= now' /\ (~world.coarse => now < now')
         /\ ~settled'
<1>1. now \in Nat /\ world.maxTime \in Nat
  BY WorldsAssumption DEF Typed, TypeOK
<1>2. PICK t \in {now, now + 1} :
        Stamp(t) /\ now' = t /\ disk' = [content |-> content, mtime |-> t]
  BY DEF Put
<1>3. now < world.maxTime /\ ~settled'
  BY DEF Put
<1> QED BY <1>1, <1>2, <1>3 DEF Stamp

\* No tool is called None, and no call in progress is no call.
LEMMA Calling ==
  /\ NoCall.tool = None
  /\ None \notin {"read", "replace", "edit", "create", "delete"}
  /\ \A tool, pc, new : /\ Writing(tool, pc, new).tool = tool
                        /\ Writing(tool, pc, new).pc = pc
                        /\ Writing(tool, pc, new).raw = new
BY NoneAssumption DEF NoCall, Writing

-----------------------------------------------------------------------------
(* The types.                                                              *)

\* The steps that leave the snapshot, the segments and the results alone.
LEMMA TypedWhileSessionStays ==
  ASSUME Typed, UNCHANGED <<world, session>>,
         now' \in 0..world.maxTime, now <= now',
         disk' # Absent => disk'.content \in world.contents /\ disk'.mtime \in 0..now',
         CallTyped', paged' => paged
  PROVE  Typed'
<1>1. now \in Nat
  BY WorldsAssumption DEF Typed, TypeOK
<1>2. call'.tool \in {None, "read", "replace", "edit", "create", "delete"}
  BY Calling DEF CallTyped
<1>3. TypeOK'
  BY <1>1, <1>2 DEF Typed, TypeOK, session, conversation
<1> QED BY <1>3 DEF Typed, session, conversation

\* The steps of other processes, and those of a write before it is recorded.
LEMMA TypedByOthersAndWrites ==
  ASSUME Typed, UNCHANGED world,
         \/ OthersWrite \/ OthersDelete \/ ReadFile \/ CheckReplace \/ Replace
         \/ CheckEdit \/ LoadEdit \/ StoreEdit \/ Create \/ Torn \/ LoadWritten
         \/ CheckDelete \/ Abandon
  PROVE  Typed'
<1> USE Calling
<1>1. /\ now \in 0..world.maxTime /\ now \in Nat
      /\ disk # Absent => disk.content \in world.contents /\ disk.mtime \in 0..now
      /\ CallTyped
  BY WorldsAssumption DEF Typed, TypeOK
<1>2. ASSUME NEW content \in world.contents, Put(content)
      PROVE  /\ disk'.content \in world.contents /\ disk'.mtime \in 0..now'
             /\ now' \in 0..world.maxTime /\ now <= now'
  BY <1>1, <1>2, PutTyped
<1>3. UNCHANGED session /\ (paged' => paged)
  BY DEF OthersWrite, OthersDelete, ReadFile, CheckReplace, Replace, CheckEdit, LoadEdit,
         StoreEdit, Create, Torn, LoadWritten, CheckDelete, Abandon, ghosts
<1>4. CASE OthersWrite
  <2>1. CallTyped'
    BY <1>1, <1>4 DEF OthersWrite, CallTyped
  <2> QED BY <1>2, <1>3, <1>4, <2>1, TypedWhileSessionStays DEF OthersWrite
<1>5. CASE OthersDelete
  <2>1. CallTyped'
    BY <1>1, <1>5 DEF OthersDelete, CallTyped
  <2> QED BY <1>1, <1>3, <1>5, <2>1, TypedWhileSessionStays DEF OthersDelete, RemoveFile
<1>6. CASE ReadFile
  <2>1. CallTyped'
    <3>1. PICK page \in world.pages :
            LET total == LineCount[disk.content]
            IN call' = [tool |-> "read", pc |-> "bytes", raw |-> disk.content, from |-> page[1],
                        to |-> IF page[1] + page[2] < total THEN page[1] + page[2]
                               ELSE IF page[1] < total THEN total ELSE page[1]]
      BY <1>6 DEF ReadFile
    <3>2. page[1] \in Nat /\ page[2] \in Nat
      BY WorldsAssumption DEF Typed, TypeOK
    <3>3. disk.content \in world.contents /\ LineCount[disk.content] \in Nat
      BY <1>1, <1>6, ContentsAssumption, WorldsAssumption DEF ReadFile, Typed, TypeOK
    <3> QED BY <3>1, <3>2, <3>3 DEF CallTyped
  <2> QED BY <1>1, <1>3, <1>6, <2>1, TypedWhileSessionStays DEF ReadFile
<1>7. CASE CheckReplace \/ CheckEdit \/ LoadEdit \/ LoadWritten \/ CheckDelete
  <2>1. UNCHANGED <<disk, now>>
    BY <1>7 DEF CheckReplace, CheckEdit, LoadEdit, LoadWritten, CheckDelete
  <2>2. CallTyped'
    <3>1. CASE CheckReplace
      BY <3>1 DEF CheckReplace, CallTyped
    <3>2. CASE CheckEdit
      BY <3>2 DEF CheckEdit, CallTyped
    <3>3. CASE LoadEdit
      BY <3>3 DEF LoadEdit, CallTyped
    <3>4. CASE LoadWritten
      BY <1>1, <3>4 DEF LoadWritten, CallTyped
    <3>5. CASE CheckDelete
      BY <3>5 DEF CheckDelete, CallTyped
    <3> QED BY <1>7, <3>1, <3>2, <3>3, <3>4, <3>5
  <2> QED BY <1>1, <1>3, <2>1, <2>2, TypedWhileSessionStays
<1>8. CASE Replace
  <2>1. call.raw \in world.contents /\ Put(call.raw)
    BY <1>1, <1>8 DEF Replace, At, CallTyped, PutByTool
  <2>2. CallTyped'
    <3>1. call = Writing("replace", "checked", call.raw)
      BY <1>1, <1>8 DEF Replace, At, CallTyped
    <3>2. call' = Writing("replace", "written", call.raw)
      BY <1>8, <3>1 DEF Replace, Writing
    <3> QED BY <2>1, <3>2 DEF CallTyped
  <2> QED BY <1>2, <1>3, <2>1, <2>2, TypedWhileSessionStays
<1>9. CASE StoreEdit
  <2>1. PICK new \in world.contents : Put(new) /\ call' = Writing("edit", "written", new)
    BY <1>9 DEF StoreEdit, PutByTool
  <2>2. CallTyped'
    BY <2>1 DEF CallTyped
  <2> QED BY <1>2, <1>3, <2>1, <2>2, TypedWhileSessionStays
<1>10. CASE Create
  <2>1. PICK new \in world.contents : Put(new) /\ call' = Writing("create", "written", new)
    BY <1>10 DEF Create, PutByTool
  <2>2. CallTyped'
    BY <2>1 DEF CallTyped
  <2> QED BY <1>2, <1>3, <2>1, <2>2, TypedWhileSessionStays
<1>11. CASE Torn
  <2>1. PICK new \in world.contents : Put(new)
    BY <1>11 DEF Torn
  <2>2. CallTyped'
    BY <1>11 DEF Torn, CallTyped
  <2> QED BY <1>2, <1>3, <2>1, <2>2, TypedWhileSessionStays
<1>12. CASE Abandon
  <2>1. CallTyped'
    BY <1>12 DEF Abandon, CallTyped
  <2> QED BY <1>1, <1>3, <1>12, <2>1, TypedWhileSessionStays DEF Abandon
<1> QED BY <1>4, <1>5, <1>6, <1>7, <1>8, <1>9, <1>10, <1>11, <1>12

\* The state that a hash selects belongs to that hash and to results there are.
LEMMA SourceReadStateTyped ==
  ASSUME Typed, NEW sha
  PROVE  LET state == SourceReadState(sha)
         IN /\ DOMAIN state = StateParts /\ state.sha = sha
            /\ state.projected \cup state.observed \subseteq DOMAIN results
BY DEF Typed, TypeOK, SourceReadState, NewReadState, StateParts

\* A page that is returned, and what is recorded of it.
PageRead(to) ==
  LET state == SourceReadState(ReusedHash)
      id == Len(results) + 1
  IN [state EXCEPT
       !.covered = MergeRanges(ToSet(@) \cup {<<call.from, IF Cut THEN call.from ELSE to>>}),
       !.observed = @ \cup {id}]

Slice(to) == [sha |-> ReusedHash, content |-> call.raw, from |-> call.from, to |-> to]

\* The steps of a read that end it.
LEMMA PageIsReturned ==
  ASSUME ReturnPage
  PROVE  \E to \in call.from..call.to :
           /\ At("read", "bytes") /\ disk # Absent
           /\ ~Redundant(SourceReadState(ReusedHash)) /\ Page(to)
           /\ segments' = PageRead(to)
           /\ snapshot' = SnapshotOf(ReusedHash, ~FullyScanned(PageRead(to)))
           /\ results' = Append(results, Slice(to))
           /\ held' = held \cup {Len(results) + 1}
           /\ paged' = TRUE /\ call' = NoCall
           /\ UNCHANGED <<disk, now, resident, stubs, unseen, handled, settled>>
<1>1. PICK to \in call.from..call.to :
           /\ ~Redundant(SourceReadState(ReusedHash)) /\ Page(to)
           /\ segments' = PageRead(to)
           /\ snapshot' = SnapshotOf(ReusedHash, ~FullyScanned(PageRead(to)))
           /\ results' = Append(results, Slice(to))
           /\ held' = held \cup {Len(results) + 1}
  BY Zenon DEF ReturnPage, PageRead, Slice
<1>2. /\ At("read", "bytes") /\ disk # Absent /\ paged' = TRUE /\ call' = NoCall
      /\ UNCHANGED <<disk, now, resident, stubs, unseen, handled, settled>>
  BY Zenon DEF ReturnPage
<1> QED BY <1>1, <1>2, Zenon

\* The state of a source has these parts, whatever its covered ranges are.
LEMMA PageReadParts ==
  ASSUME Typed, NEW to
  PROVE  /\ DOMAIN PageRead(to) = StateParts
         /\ PageRead(to).sha = SourceReadState(ReusedHash).sha
         /\ PageRead(to).total = SourceReadState(ReusedHash).total
         /\ PageRead(to).observed =
              SourceReadState(ReusedHash).observed \cup {Len(results) + 1}
         /\ PageRead(to).projected = SourceReadState(ReusedHash).projected
<1> DEFINE state == SourceReadState(ReusedHash)
<1>1. DOMAIN state = {"sha", "total", "covered", "observed", "projected"}
  BY SourceReadStateTyped DEF StateParts
<1> HIDE DEF state
<1>2. PageRead(to) =
        [state EXCEPT
          !.covered = MergeRanges(ToSet(@) \cup {<<call.from, IF Cut THEN call.from ELSE to>>}),
          !.observed = @ \cup {Len(results) + 1}]
  BY Zenon DEF PageRead, state
<1> QED BY <1>1, <1>2 DEF state, StateParts

LEMMA PageReadCovers ==
  ASSUME Typed, NEW to
  PROVE  PageRead(to).covered =
           MergeRanges(ToSet(SourceReadState(ReusedHash).covered)
                         \cup {<<call.from, IF Cut THEN call.from ELSE to>>})
<1>1. DOMAIN SourceReadState(ReusedHash) = StateParts
  BY SourceReadStateTyped
<1> QED BY <1>1 DEF PageRead, StateParts

\* Marking changes nothing else of a state.
LEMMA MarksOnly ==
  ASSUME Typed, segments # None, NEW ids
  PROVE  LET marked == MarkedProjected(ids)
         IN /\ DOMAIN marked = StateParts
            /\ marked.sha = segments.sha /\ marked.total = segments.total
            /\ marked.covered = segments.covered /\ marked.observed = segments.observed
            /\ marked.projected = segments.projected \cup ids
BY DEF Typed, StateParts, MarkedProjected

\* The end of a round marks results of its own, a rebase those it removes.
LEMMA RoundsMark ==
  ASSUME AdmitToolRound \/ Rebase
  PROVE  \E ids \in SUBSET (resident \cup held) :
           /\ segments' = MarkedProjected(ids)
           /\ stubs' = stubs \ ids \/ stubs' = stubs \cup ids
           /\ results' = results
<1>1. CASE AdmitToolRound
  BY <1>1 DEF AdmitToolRound
<1>2. CASE Rebase
  BY <1>2 DEF Rebase
<1> QED BY <1>1, <1>2

\* The steps that record what was read or written, and those that forget it.
LEMMA TypedByRecords ==
  ASSUME Typed, UNCHANGED world,
         \/ ReturnNotice \/ ReturnPage \/ RecordWritten \/ Delete \/ RecordBashWrite
         \/ AdmitToolRound \/ Rebase \/ ResetTaskState
  PROVE  Typed'
<1> USE Calling
<1>1. /\ now \in 0..world.maxTime /\ now \in Nat
      /\ disk # Absent => disk.content \in world.contents /\ disk.mtime \in 0..now
      /\ CallTyped /\ call.tool \in {None, "read", "replace", "edit", "create", "delete"}
      /\ world \in Worlds /\ results \in Seq(Slices)
      /\ resident \cup held \subseteq DOMAIN results /\ stubs \subseteq resident
      /\ world.contents \subseteq Contents
  BY WorldsAssumption DEF Typed, TypeOK
<1>2. CallTyped' /\ now' = now
  BY <1>1 DEF CallTyped, ReturnNotice, ReturnPage, RecordWritten, Delete, RecordBashWrite,
              AdmitToolRound, Rebase, ResetTaskState, RemoveFile
<1>3. call'.tool \in {None, "read", "replace", "edit", "create", "delete"}
  BY <1>2 DEF CallTyped
<1>4. ASSUME NEW sha \in world.contents, NEW partial \in BOOLEAN, disk # Absent,
             snapshot' = SnapshotOf(sha, partial)
      PROVE  /\ snapshot' # None /\ snapshot' \in Snapshots
             /\ snapshot'.mtime \in 0..now /\ snapshot'.sha = sha
  BY <1>1, <1>4, SnapshotTyped
<1>5. CASE ReturnNotice
  <2>1. call.raw \in world.contents
    BY <1>1, <1>5 DEF ReturnNotice, At, CallTyped
  <2>2. ReusedHash \in world.contents
    BY <2>1, HashOfContents
  <2>3. /\ disk # Absent /\ segments' = SourceReadState(ReusedHash)
        /\ snapshot' = SnapshotOf(ReusedHash, FALSE)
        /\ UNCHANGED <<disk, now, conversation>> /\ paged' = FALSE
    BY <1>5 DEF ReturnNotice
  <2>4. /\ segments'.sha = ReusedHash /\ DOMAIN segments' = StateParts
        /\ segments'.projected \cup segments'.observed \subseteq DOMAIN results
    BY <2>3, SourceReadStateTyped
  <2>5. /\ snapshot' # None /\ snapshot' \in Snapshots
        /\ snapshot'.mtime \in 0..now /\ snapshot'.sha = ReusedHash
    BY <1>4, <2>2, <2>3
  <2> QED BY <1>1, <1>2, <1>3, <2>2, <2>3, <2>4, <2>5 DEF Typed, TypeOK, conversation
<1>6. CASE ReturnPage
  <2>1. PICK to \in call.from..call.to :
           /\ At("read", "bytes") /\ disk # Absent
           /\ segments' = PageRead(to)
           /\ snapshot' = SnapshotOf(ReusedHash, ~FullyScanned(PageRead(to)))
           /\ results' = Append(results, Slice(to))
           /\ held' = held \cup {Len(results) + 1}
           /\ UNCHANGED <<disk, now, resident, stubs>>
    BY <1>6, PageIsReturned
  <2>2. /\ call.raw \in world.contents /\ ReusedHash \in world.contents
        /\ call.from \in Nat /\ to \in Nat
    BY <1>1, <2>1, HashOfContents DEF At, CallTyped
  <2>3. Slice(to) \in Slices
    BY <1>1, <2>2 DEF Slice, Slices
  <2>4. /\ results' \in Seq(Slices) /\ Len(results') = Len(results) + 1
        /\ DOMAIN results' = DOMAIN results \cup {Len(results) + 1}
    BY <1>1, <2>1, <2>3
  <2>5. /\ segments'.sha = ReusedHash /\ DOMAIN segments' = StateParts
        /\ segments'.projected \cup segments'.observed \subseteq DOMAIN results'
    <3>1. /\ SourceReadState(ReusedHash).sha = ReusedHash
          /\ SourceReadState(ReusedHash).projected \subseteq DOMAIN results
          /\ SourceReadState(ReusedHash).observed \subseteq DOMAIN results
      BY SourceReadStateTyped
    <3>2. /\ DOMAIN segments' = StateParts
          /\ segments'.sha = SourceReadState(ReusedHash).sha
          /\ segments'.observed = SourceReadState(ReusedHash).observed \cup {Len(results) + 1}
          /\ segments'.projected = SourceReadState(ReusedHash).projected
      BY <2>1, PageReadParts
    <3> QED BY <2>4, <3>1, <3>2
  <2>6. /\ snapshot' # None /\ snapshot' \in Snapshots
        /\ snapshot'.mtime \in 0..now /\ snapshot'.sha = ReusedHash
    <3>1. (~FullyScanned(PageRead(to))) \in BOOLEAN
      BY DEF FullyScanned, CoversAll
    <3> QED BY <1>4, <2>1, <2>2, <3>1
  <2>7. resident' \cup held' \subseteq DOMAIN results' /\ stubs' \subseteq resident'
    BY <1>1, <2>1, <2>4
  <2> QED BY <1>1, <1>2, <1>3, <2>1, <2>2, <2>4, <2>5, <2>6, <2>7 DEF Typed, TypeOK
<1>7. CASE RecordWritten
  <2>1. /\ disk # Absent /\ snapshot' = SnapshotOf(call.raw, FALSE) /\ segments' = None
        /\ UNCHANGED <<disk, now, conversation>> /\ paged' = FALSE
    BY <1>7 DEF RecordWritten
  <2>2. call.raw \in world.contents
    BY <1>1, <1>7 DEF RecordWritten, CallTyped
  <2>3. /\ snapshot' # None /\ snapshot' \in Snapshots
        /\ snapshot'.mtime \in 0..now /\ snapshot'.sha = call.raw
    BY <1>4, <2>1, <2>2
  <2> QED BY <1>1, <1>2, <1>3, <2>1, <2>2, <2>3 DEF Typed, TypeOK, conversation
<1>8. CASE Delete
  <2>1. /\ disk' = Absent /\ snapshot' = None /\ segments' = None
        /\ paged' = FALSE /\ UNCHANGED conversation
    BY <1>8 DEF Delete, RemoveFile
  <2> QED BY <1>1, <1>2, <1>3, <2>1 DEF Typed, TypeOK, conversation
<1>9. CASE RecordBashWrite \/ ResetTaskState
  <2>1. /\ segments' = None /\ UNCHANGED <<disk, snapshot, results, resident, stubs, paged>>
        /\ held' \subseteq held
    BY <1>9 DEF RecordBashWrite, ResetTaskState, conversation, ghosts
  <2> QED BY <1>1, <1>2, <1>3, <2>1 DEF Typed, TypeOK
<1>10. CASE AdmitToolRound \/ Rebase
  <2>1. PICK ids \in SUBSET (resident \cup held) : segments' = MarkedProjected(ids)
    BY <1>10, RoundsMark
  <2>2. /\ UNCHANGED <<disk, snapshot, results, paged>>
        /\ resident' \cup held' \subseteq resident \cup held /\ stubs' \subseteq resident'
    BY <1>1, <1>10 DEF AdmitToolRound, Rebase, ghosts
  <2>3. segments = None => segments' = None
    BY <2>1 DEF MarkedProjected
  <2>4. segments # None =>
          /\ DOMAIN segments' = StateParts /\ segments'.sha = segments.sha
          /\ segments'.observed = segments.observed
          /\ segments'.projected = segments.projected \cup ids
    BY <2>1, MarksOnly DEF Typed
  <2> QED BY <1>1, <1>2, <1>3, <2>1, <2>2, <2>3, <2>4 DEF Typed, TypeOK
<1> QED BY <1>5, <1>6, <1>7, <1>8, <1>9, <1>10

LEMMA TypedKept == Typed /\ [Next]_vars => Typed'
<1> SUFFICES ASSUME Typed, [Next]_vars PROVE Typed'
  OBVIOUS
<1>1. CASE UNCHANGED vars
  BY <1>1 DEF Typed, TypeOK, CallTyped, vars, session, conversation, ghosts
<1> QED BY <1>1, TypedByOthersAndWrites, TypedByRecords DEF Next

-----------------------------------------------------------------------------
(* What others left.                                                       *)

LEMMA FreshKept == Typed /\ Fresh /\ [Next]_vars => Fresh'
<1> SUFFICES ASSUME Typed, Fresh, [Next]_vars PROVE Fresh'
  OBVIOUS
<1>0. world' = world
  BY DEF Next, vars
<1> SUFFICES ASSUME ~world.coarse
             PROVE  /\ ~Idle' => ~unseen'
                    /\ snapshot' # None /\ disk' # Absent /\ unseen' =>
                         snapshot'.mtime < disk'.mtime
  BY <1>0 DEF Fresh
<1> USE Calling
<1>1. /\ ~Idle => ~unseen
      /\ snapshot # None /\ disk # Absent /\ unseen => snapshot.mtime < disk.mtime
  BY DEF Fresh
<1>2. snapshot # None => snapshot.mtime \in 0..now
  BY DEF Typed, TypeOK
<1>3. ASSUME NEW content \in world.contents, Put(content), snapshot' = snapshot
      PROVE  snapshot' # None => snapshot'.mtime < disk'.mtime
  BY <1>2, <1>3, PutTyped
<1>4. CASE OthersWrite
  <2>1. snapshot' = snapshot /\ call' = call /\ unseen' = (Idle \/ unseen)
    BY <1>4 DEF OthersWrite, session
  <2>2. \E content \in world.contents : Put(content)
    BY <1>4 DEF OthersWrite
  <2> QED BY <1>1, <1>3, <2>1, <2>2 DEF Idle
<1>5. CASE OthersDelete \/ Replace \/ StoreEdit \/ Create \/ ReadFile \/ Delete
  BY <1>5 DEF OthersDelete, Replace, StoreEdit, Create, ReadFile, Delete, RemoveFile, PutByTool
<1>6. CASE Torn
  <2>1. snapshot' = snapshot /\ Idle'
    BY <1>6 DEF Torn, session, Idle
  <2>2. \E content \in world.contents : Put(content)
    BY <1>6 DEF Torn
  <2> QED BY <1>3, <2>1, <2>2
<1>7. CASE CheckReplace \/ CheckEdit \/ CheckDelete
  <2>1. /\ UNCHANGED <<disk, snapshot, unseen>> /\ disk # Absent
        /\ snapshot # None /\ snapshot.mtime = disk.mtime
    BY <1>7 DEF CheckReplace, CheckEdit, CheckDelete, UnchangedSinceSnapshot, session, ghosts
  <2>2. ~unseen
    BY <1>1, <1>2, <2>1
  <2> QED BY <2>1, <2>2
<1>8. CASE LoadEdit \/ LoadWritten
  <2>1. /\ UNCHANGED <<disk, snapshot, unseen>>
        /\ call.tool \in {"replace", "edit", "create"}
    BY <1>8 DEF LoadEdit, LoadWritten, At, session, ghosts
  <2>2. ~Idle
    BY <2>1 DEF Idle
  <2> QED BY <1>1, <2>1, <2>2
<1>9. CASE ReturnNotice \/ ReturnPage \/ RecordWritten
  <2>1. unseen' = unseen /\ call.tool \in {"read", "replace", "edit", "create"}
    BY <1>9 DEF ReturnNotice, ReturnPage, RecordWritten, At
  <2> QED BY <1>1, <2>1 DEF Idle
<1>10. CASE \/ Abandon \/ RecordBashWrite \/ AdmitToolRound \/ Rebase \/ ResetTaskState
            \/ UNCHANGED vars
  <2>1. UNCHANGED <<disk, snapshot, unseen>> /\ (call' = call \/ Idle')
    BY <1>10 DEF Abandon, RecordBashWrite, AdmitToolRound, Rebase, ResetTaskState, vars, session,
                 ghosts, Idle
  <2> QED BY <1>1, <2>1 DEF Idle
<1> QED BY <1>4, <1>5, <1>6, <1>7, <1>8, <1>9, <1>10 DEF Next

-----------------------------------------------------------------------------
(* What the tools compare.                                                 *)

LEMMA KnownKept == Typed /\ Known /\ [Next]_vars => Known'
<1> DEFINE KnownBody ==
             /\ snapshot # None => snapshot.sha \in handled
             /\ call.tool = "read" =>
                  disk # Absent /\ disk.content = call.raw /\ call.raw \in handled
             /\ call.tool \in {"replace", "delete"} /\ call.pc = "checked" =>
                  disk # Absent /\ snapshot # None /\ UnchangedSinceSnapshot
             /\ call.tool = "replace" /\ call.pc = "checked" => ~snapshot.partial
             /\ call.tool \in {"replace", "edit", "create"} /\ call.pc = "written" =>
                  disk.content \in handled
             /\ call.tool \in {"replace", "edit", "create"} /\ call.pc = "bytes" =>
                  disk # Absent /\ disk.content = call.raw /\ call.raw \in handled
<1> SUFFICES ASSUME Typed, Known, [Next]_vars PROVE Known'
  OBVIOUS
<1>0. world' = world
  BY DEF Next, vars
<1> SUFFICES ASSUME KnownBody, ~world.races PROVE KnownBody'
  BY <1>0 DEF Known
<1> USE Calling
<1>1. CASE OthersWrite
  <2>1. /\ Idle /\ Idle' /\ snapshot' = snapshot /\ handled' = handled
    BY <1>1 DEF OthersWrite, session, Idle
  <2> QED BY <2>1 DEF Idle
<1>2. CASE OthersDelete
  <2>1. /\ Idle /\ Idle' /\ snapshot' = snapshot /\ handled' = handled
    BY <1>2 DEF OthersDelete, RemoveFile, session, Idle
  <2> QED BY <2>1 DEF Idle
<1>3. CASE ReadFile
  <2>1. /\ call'.tool = "read" /\ call'.raw = disk.content
        /\ disk' = disk /\ disk # Absent /\ snapshot' = snapshot
        /\ handled' = handled \cup {disk.content}
    BY <1>3 DEF ReadFile, session
  <2> QED BY <2>1
<1>4. CASE CheckReplace \/ CheckDelete
  <2>1. /\ UNCHANGED <<disk, snapshot, handled>> /\ disk # Absent
        /\ snapshot # None /\ UnchangedSinceSnapshot
        /\ call'.pc = "checked"
        /\ \/ call'.tool = "replace" /\ ~snapshot.partial
           \/ call'.tool = "delete"
    BY <1>4 DEF CheckReplace, CheckDelete, session, ghosts
  <2> QED BY <2>1 DEF UnchangedSinceSnapshot
<1>5. CASE CheckEdit \/ LoadEdit
  <2>1. /\ UNCHANGED <<snapshot, handled>> /\ call'.tool = "edit"
        /\ call'.pc \in {"checked", "loaded"}
    BY <1>5 DEF CheckEdit, LoadEdit, session, ghosts
  <2> QED BY <2>1
<1>6. ASSUME NEW new \in world.contents, PutByTool(new), snapshot' = snapshot,
             call'.pc = "written", call'.tool \in {"replace", "edit", "create"}
      PROVE  KnownBody'
  <2>1. disk'.content = new /\ handled' = handled \cup {new}
    BY <1>6, PutTyped DEF PutByTool
  <2> QED BY <1>6, <2>1
<1>7. CASE Replace
  <2>1. call = Writing("replace", "checked", call.raw) /\ call.raw \in world.contents
    BY <1>7 DEF Typed, CallTyped, Replace, At
  <2>2. call' = Writing("replace", "written", call.raw)
    BY <1>7, <2>1 DEF Replace, Writing
  <2>3. PutByTool(call.raw) /\ snapshot' = snapshot
    BY <1>7 DEF Replace, session
  <2> QED BY <1>6, <2>1, <2>2, <2>3
<1>8. CASE StoreEdit
  BY <1>6, <1>8 DEF StoreEdit, session
<1>9. CASE Create
  BY <1>6, <1>9 DEF Create, session
<1>10. CASE Torn \/ Abandon
  <2>1. Idle' /\ UNCHANGED <<snapshot, handled>>
    BY <1>10 DEF Torn, Abandon, session, Idle
  <2> QED BY <2>1 DEF Idle
<1>11. CASE LoadWritten
  <2>1. /\ UNCHANGED <<disk, snapshot, handled>> /\ disk # Absent
        /\ call'.tool \in {"replace", "edit", "create"} /\ call'.pc = "bytes"
        /\ call'.raw = disk.content /\ disk.content \in handled
    BY <1>11 DEF LoadWritten, session, ghosts
  <2> QED BY <2>1
<1>12. CASE ReturnNotice \/ ReturnPage
  <2>1. /\ Idle' /\ UNCHANGED <<disk, handled>> /\ snapshot'.sha = ReusedHash
        /\ call.raw \in handled
    <3>1. CASE ReturnNotice
      BY <3>1 DEF ReturnNotice, At, Idle, SnapshotOf
    <3>2. CASE ReturnPage
      <4>1. \A sha, partial : SnapshotOf(sha, partial).sha = sha
        BY DEF SnapshotOf
      <4>2. PICK to, partial : /\ At("read", "bytes") /\ snapshot' = SnapshotOf(ReusedHash, partial)
                               /\ call' = NoCall /\ UNCHANGED <<disk, handled>>
        BY <3>2, PageIsReturned, Zenon
      <4> QED BY <4>1, <4>2 DEF At, Idle
    <3> QED BY <1>12, <3>1, <3>2
  <2>2. ReusedHash \in handled
    BY <2>1 DEF ReusedHash
  <2> QED BY <2>1, <2>2 DEF Idle
<1>13. CASE RecordWritten
  <2>1. /\ Idle' /\ UNCHANGED <<disk, handled>> /\ snapshot'.sha = call.raw
        /\ call.raw \in handled
    BY <1>13 DEF RecordWritten, Idle, SnapshotOf
  <2> QED BY <2>1 DEF Idle
<1>14. CASE Delete
  BY <1>14 DEF Delete
<1>15. CASE RecordBashWrite \/ AdmitToolRound \/ Rebase \/ ResetTaskState \/ UNCHANGED vars
  <2>1. UNCHANGED <<disk, snapshot, call, handled>>
    BY <1>15 DEF RecordBashWrite, AdmitToolRound, Rebase, ResetTaskState, vars, session, ghosts
  <2> QED BY <2>1 DEF UnchangedSinceSnapshot
<1> QED BY <1>1, <1>2, <1>3, <1>4, <1>5, <1>7, <1>8, <1>9, <1>10, <1>11, <1>12, <1>13,
           <1>14, <1>15 DEF Next

\* A read that ends where nobody interferes records the hash of what is there.
LEMMA RecordedHash ==
  ASSUME Known, Agrees, ~world.races, ~world.coarse, call.tool = "read", disk # Absent
  PROVE  ReusedHash = disk.content /\ call.raw = disk.content
BY DEF Known, Agrees, ReusedHash, UnchangedSinceSnapshot

LEMMA AgreesKept == Typed /\ Known /\ Agrees /\ [Next]_vars => Agrees'
<1> DEFINE AgreesBody ==
             /\ snapshot # None /\ disk # Absent /\ snapshot.mtime = disk.mtime =>
                  UnchangedSinceSnapshot
             /\ settled /\ call.tool # "read" /\ snapshot # None =>
                  disk # Absent /\ UnchangedSinceSnapshot
             /\ call.tool \in {"replace", "edit", "create"} /\ call.pc \in {"written", "bytes"} =>
                  ~settled
<1> SUFFICES ASSUME Typed, Known, Agrees, [Next]_vars PROVE Agrees'
  OBVIOUS
<1>0. world' = world
  BY DEF Next, vars
<1> SUFFICES ASSUME AgreesBody, ~world.races, ~world.coarse PROVE AgreesBody'
  BY <1>0 DEF Agrees
<1> USE Calling
<1>1. snapshot # None => snapshot.mtime \in 0..now
  BY DEF Typed, TypeOK
<1>2. ASSUME NEW content \in world.contents, Put(content), snapshot' = snapshot
      PROVE  AgreesBody'
  BY <1>1, <1>2, PutTyped
<1>3. CASE OthersWrite
  <2>1. snapshot' = snapshot /\ \E content \in world.contents : Put(content)
    BY <1>3 DEF OthersWrite, session
  <2> QED BY <1>2, <2>1
<1>4. CASE OthersDelete
  <2>1. disk' = Absent /\ ~settled'
    BY <1>4 DEF OthersDelete, RemoveFile
  <2> QED BY <2>1
<1>5. CASE Delete
  <2>1. disk' = Absent /\ ~settled'
    BY <1>5 DEF Delete, RemoveFile
  <2> QED BY <2>1
<1>6. CASE ReadFile
  <2>1. UNCHANGED <<disk, snapshot>> /\ call'.tool = "read"
    BY <1>6 DEF ReadFile, session
  <2> QED BY <2>1 DEF UnchangedSinceSnapshot
<1>7. CASE CheckReplace \/ CheckEdit \/ LoadEdit \/ CheckDelete
  <2>1. UNCHANGED <<disk, snapshot, settled>> /\ call'.tool \in {"replace", "edit", "delete"}
    BY <1>7 DEF CheckReplace, CheckEdit, LoadEdit, CheckDelete, session, ghosts
  <2>2. call.tool # "read" /\ call'.pc \in {"checked", "loaded"}
    BY <1>7 DEF CheckReplace, CheckEdit, LoadEdit, CheckDelete, Idle, At
  <2> QED BY <2>1, <2>2 DEF UnchangedSinceSnapshot
<1>8. CASE Replace
  <2>1. call.raw \in world.contents
    BY <1>8 DEF Replace, At, Typed, CallTyped
  <2> QED BY <1>2, <1>8, <2>1 DEF Replace, PutByTool, session
<1>9. CASE StoreEdit
  BY <1>2, <1>9 DEF StoreEdit, PutByTool, session
<1>10. CASE Create
  BY <1>2, <1>10 DEF Create, PutByTool, session
<1>11. CASE Torn
  BY <1>2, <1>11 DEF Torn, session
<1>12. CASE LoadWritten
  <2>1. /\ UNCHANGED <<disk, snapshot, settled>> /\ ~settled
        /\ call'.tool \in {"replace", "edit", "create"}
    BY <1>12 DEF LoadWritten, session, ghosts
  <2> QED BY <2>1 DEF UnchangedSinceSnapshot
<1>13. CASE ReturnNotice \/ ReturnPage
  <2>1. /\ call.tool = "read" /\ disk # Absent /\ disk' = disk /\ Idle'
        /\ \E partial : snapshot' = SnapshotOf(ReusedHash, partial)
    <3>1. CASE ReturnNotice
      BY <3>1 DEF ReturnNotice, At, Idle
    <3>2. CASE ReturnPage
      <4>1. PICK to, partial : /\ At("read", "bytes") /\ snapshot' = SnapshotOf(ReusedHash, partial)
                               /\ call' = NoCall /\ disk' = disk /\ disk # Absent
        BY <3>2, PageIsReturned, Zenon
      <4> QED BY <4>1 DEF At, Idle
    <3> QED BY <1>13, <3>1, <3>2
  <2>2. ReusedHash = disk.content
    BY <2>1, RecordedHash
  <2>3. UnchangedSinceSnapshot'
    BY <2>1, <2>2 DEF UnchangedSinceSnapshot, SnapshotOf
  <2> QED BY <2>1, <2>3 DEF Idle
<1>14. CASE RecordWritten
  <2>1. /\ disk # Absent /\ disk' = disk /\ snapshot' = SnapshotOf(call.raw, FALSE) /\ Idle'
        /\ settled' = settled /\ ~settled /\ disk.content = call.raw
    BY <1>14 DEF RecordWritten, Idle, Known
  <2>2. UnchangedSinceSnapshot'
    BY <2>1 DEF UnchangedSinceSnapshot, SnapshotOf
  <2> QED BY <2>1, <2>2 DEF Idle
<1>15. CASE Abandon
  <2>1. /\ UNCHANGED <<disk, snapshot>> /\ Idle'
        /\ settled' = (settled /\ call.tool # "read")
    BY <1>15 DEF Abandon, session, Idle
  <2> QED BY <2>1 DEF Idle, UnchangedSinceSnapshot
<1>16. CASE RecordBashWrite \/ AdmitToolRound \/ Rebase \/ ResetTaskState \/ UNCHANGED vars
  <2>1. UNCHANGED <<disk, snapshot, call, settled>>
    BY <1>16 DEF RecordBashWrite, AdmitToolRound, Rebase, ResetTaskState, vars, session, ghosts
  <2> QED BY <2>1 DEF UnchangedSinceSnapshot
<1> QED BY <1>3, <1>4, <1>5, <1>6, <1>7, <1>8, <1>9, <1>10, <1>11, <1>12, <1>13, <1>14, <1>15,
           <1>16 DEF Next

-----------------------------------------------------------------------------
(* What follows for the disk.                                              *)

LEMMA InitDiskInv == Init => DiskInv
<1> SUFFICES ASSUME Init PROVE DiskInv
  OBVIOUS
<1> USE Calling DEF Init
<1>1. PICK c \in world.contents : disk = [content |-> c, mtime |-> 0]
  OBVIOUS
<1>2. Typed
  <2>1. world.maxTime \in Nat
    BY WorldsAssumption
  <2>2. TypeOK
    BY <1>1, <2>1 DEF TypeOK
  <2> QED BY <2>2 DEF Typed, CallTyped
<1>3. Fresh /\ Known /\ Agrees
  BY DEF Fresh, Known, Agrees, Idle
<1> QED BY <1>2, <1>3 DEF DiskInv

\* The invariant holds throughout a session.
THEOREM DiskInvHolds == Spec => []DiskInv
<1>1. DiskInv /\ [Next]_vars => DiskInv'
  BY TypedKept, FreshKept, KnownKept, AgreesKept DEF DiskInv
<1> QED BY <1>1, InitDiskInv, PTL DEF Spec

\* What others left between two calls is read before a tool edits, replaces or
\* deletes it, where the times of writes differ.
THEOREM OthersWorkIsSafe == Spec => OthersWorkSurvives
<1> DEFINE Survives ==
             ~world.coarse /\ Overwrites({"replace", "edit", "delete"}) => ~unseen
<1>1. DiskInv => Survives
  BY Calling DEF DiskInv, Fresh, Overwrites, Idle
<1> QED BY <1>1, DiskInvHolds, PTL DEF OthersWorkSurvives

\* Where nobody else writes during a call, a tool that checks is what overwrites.
LEMMA OverwritingSteps ==
  ASSUME [Next]_vars, ~world.races, Overwrites({"replace", "delete"})
  PROVE  Replace \/ Delete
<1> USE Calling
<1>1. call.tool \in {"replace", "delete"} /\ disk' # disk
  BY DEF Overwrites
<1>2. ~Idle /\ call.tool \notin {"edit", "create", "read"}
  BY <1>1 DEF Idle
<1>3. CASE OthersWrite \/ OthersDelete \/ ReadFile \/ CheckReplace \/ CheckEdit \/ Create
             \/ CheckDelete \/ RecordBashWrite \/ AdmitToolRound \/ Rebase \/ ResetTaskState
  BY <1>2, <1>3 DEF OthersWrite, OthersDelete, ReadFile, CheckReplace, CheckEdit, Create,
                    CheckDelete, RecordBashWrite, AdmitToolRound, Rebase, ResetTaskState
<1>4. CASE ReturnNotice \/ ReturnPage \/ LoadEdit \/ StoreEdit \/ Torn
  BY <1>2, <1>4 DEF ReturnNotice, ReturnPage, LoadEdit, StoreEdit, Torn, At
<1>5. CASE LoadWritten \/ RecordWritten \/ Abandon \/ UNCHANGED vars
  BY <1>1, <1>5 DEF LoadWritten, RecordWritten, Abandon, vars
<1> QED BY <1>3, <1>4, <1>5 DEF Next

\* A tool that compares the hash touches only what a call has read or written,
\* unless the file changes during the call.
THEOREM HashIsProtection == Spec => HashProtects
<1> DEFINE Protects ==
             ~world.races /\ Overwrites({"replace", "delete"}) => disk.content \in handled
<1>1. DiskInv /\ [Next]_vars => Protects
  <2> SUFFICES ASSUME DiskInv, [Next]_vars, ~world.races, Overwrites({"replace", "delete"})
               PROVE  disk.content \in handled
    OBVIOUS
  <2> USE Calling
  <2>1. call.tool \in {"replace", "delete"} /\ disk' # disk
    BY DEF Overwrites
  <2>2. Replace \/ Delete
    BY OverwritingSteps
  <2>3. call.pc = "checked"
    BY <2>2 DEF Replace, Delete, At
  <2> QED BY <2>1, <2>3 DEF DiskInv, Known, UnchangedSinceSnapshot
<1> QED BY <1>1, DiskInvHolds, PTL DEF Spec, HashProtects

-----------------------------------------------------------------------------
(* The covered ranges of a session.                                        *)

\* A slice of the version that a state is about, within its lines.
Belongs(slice, state) ==
  /\ slice.sha = state.sha /\ LineCount[slice.content] = state.total
  /\ slice.from <= slice.to
  /\ slice.to <= state.total \/ slice.to = slice.from

StateIsExact(state) ==
  /\ state.total \in Nat /\ Separated(state.covered)
  /\ CoverTo(state.covered, Len(state.covered)) = Returned(state)
  /\ \A i \in state.observed : Belongs(results[i], state)

RangesInv == segments # None => StateIsExact(segments)

CutSlice(slice) == slice.from + 1 \in LongLines[slice.content]

LinesReturned(slice) == IF CutSlice(slice) THEN {} ELSE LinesOf(<<slice.from, slice.to>>)

LEMMA ReturnedBySlices ==
  ASSUME NEW state
  PROVE  Returned(state) = UNION {LinesReturned(results[i]) : i \in state.observed}
BY DEF Returned, LinesReturned, CutSlice

\* More results make no difference to a state that has not observed them.
LEMMA StateStaysExact ==
  ASSUME NEW state, StateIsExact(state), \A i \in state.observed : results'[i] = results[i]
  PROVE  StateIsExact(state)'
<1>1. Returned(state)' = Returned(state)
  BY DEF Returned
<1> QED BY <1>1 DEF StateIsExact

\* A new result is observed, and its range is merged with the covered ones, an
\* empty one if its line was cut.
LEMMA PageKeepsExact ==
  ASSUME NEW state, StateIsExact(state), NEW next,
         results \in Seq(Slices), state.observed \subseteq DOMAIN results,
         NEW slice \in Slices, Belongs(slice, state), results' = Append(results, slice),
         next.sha = state.sha, next.total = state.total,
         next.observed = state.observed \cup {Len(results) + 1},
         next.covered = MergeRanges(ToSet(state.covered)
           \cup {<<slice.from, IF CutSlice(slice) THEN slice.from ELSE slice.to>>})
  PROVE  StateIsExact(next)'
<1> DEFINE id == Len(results) + 1
           x == <<slice.from, IF CutSlice(slice) THEN slice.from ELSE slice.to>>
           S == ToSet(state.covered) \cup {x}
           n == Len(state.covered)
<1>1. /\ results'[id] = slice /\ \A i \in state.observed : results'[i] = results[i]
  BY DEF Slices
<1>2. x \in Ranges /\ LinesOf(x) = LinesReturned(slice)
  BY DEF Slices, Ranges, LinesReturned, LinesOf
<1>3. n \in Nat /\ state.covered \in [1..n -> Ranges]
  BY DEF StateIsExact, Separated, Ranges
<1> HIDE DEF n, x
<1>4. S \in SUBSET Ranges /\ IsFiniteSet(S)
  <2>1. ToSet(state.covered) = {state.covered[i] : i \in 1..n}
    BY <1>3 DEF ToSet
  <2>2. IsFiniteSet(1..n)
    BY <1>3, FS_Interval
  <2>3. IsFiniteSet(ToSet(state.covered))
    <3>1. state.covered \in Surjection(1..n, ToSet(state.covered))
      BY <1>3, <2>1 DEF Surjection
    <3> QED BY <2>2, <3>1, FS_Surjection
  <2>4. ToSet(state.covered) \in SUBSET Ranges
    BY <1>3, <2>1
  <2>5. IsFiniteSet(S)
    BY <2>3, FS_AddElement
  <2> QED BY <1>2, <2>4, <2>5
<1>5. /\ Separated(next.covered)
      /\ CoverTo(next.covered, Len(next.covered)) = UNION {LinesOf(r) : r \in S}
  <2>1. next.covered = MergeRanges(S)
    BY DEF x
  <2> HIDE DEF S
  <2> QED BY <1>4, <2>1, MergeIsExact
<1>6. UNION {LinesOf(r) : r \in S} = CoverTo(state.covered, n) \cup LinesOf(x)
  <2>1. ToSet(state.covered) = {state.covered[i] : i \in 1..n}
    BY <1>3 DEF ToSet
  <2>2. UNION {LinesOf(r) : r \in ToSet(state.covered)} = CoverTo(state.covered, n)
    BY <2>1 DEF CoverTo
  <2> QED BY <2>2
<1>7. Returned(next)' = Returned(state) \cup LinesReturned(slice)
  <2>1. Returned(next)' = UNION {LinesReturned(results'[i]) : i \in next.observed}
    BY DEF Returned, LinesReturned, CutSlice
  <2>2. {LinesReturned(results'[i]) : i \in next.observed}
          = {LinesReturned(results[i]) : i \in state.observed} \cup {LinesReturned(slice)}
    BY <1>1
  <2> QED BY <2>1, <2>2, ReturnedBySlices
<1>8. CoverTo(next.covered, Len(next.covered)) = Returned(next)'
  BY <1>2, <1>5, <1>6, <1>7 DEF StateIsExact, n
<1>9. \A i \in next.observed : Belongs(results'[i], next)
  BY <1>1 DEF StateIsExact, Belongs
<1> QED BY <1>5, <1>8, <1>9 DEF StateIsExact

\* The state that a hash selects is exact: the one there is, or a new one.
LEMMA SourceStateExact ==
  ASSUME Typed, RangesInv, NEW sha, call.raw \in Contents
  PROVE  StateIsExact(SourceReadState(sha))
<1>1. CASE segments # None /\ segments.sha = sha /\ segments.total = LineCount[call.raw]
  BY <1>1 DEF RangesInv, SourceReadState
<1>2. CASE ~(segments # None /\ segments.sha = sha /\ segments.total = LineCount[call.raw])
  <2> DEFINE state == NewReadState(sha, LineCount[call.raw])
  <2>1. /\ state.total = LineCount[call.raw] /\ state.covered = <<>> /\ state.observed = {}
        /\ SourceReadState(sha) = state
    BY <1>2 DEF SourceReadState, NewReadState
  <2> HIDE DEF state
  <2>2. state.total \in Nat
    BY <2>1, ContentsAssumption
  <2>3. Separated(<<>>) /\ CoverTo(<<>>, Len(<<>>)) = {}
    BY DEF Separated, CoverTo
  <2>4. Returned(state) = {}
    BY <2>1 DEF Returned
  <2> QED BY <2>1, <2>2, <2>3, <2>4 DEF StateIsExact
<1> QED BY <1>1, <1>2

\* What ReturnPage does to the state and the results.
LEMMA PageOfState ==
  ASSUME Typed, RangesInv, ReturnPage
  PROVE  \E state, slice :
           /\ state = SourceReadState(ReusedHash) /\ StateIsExact(state)
           /\ state.observed \subseteq DOMAIN results
           /\ slice \in Slices /\ Belongs(slice, state) /\ results' = Append(results, slice)
           /\ slice.sha = ReusedHash /\ slice.content = call.raw
           /\ segments'.sha = state.sha /\ segments'.total = state.total
           /\ segments'.observed = state.observed \cup {Len(results) + 1}
           /\ segments'.covered = MergeRanges(ToSet(state.covered)
                \cup {<<slice.from, IF CutSlice(slice) THEN slice.from ELSE slice.to>>})
           /\ \E partial \in BOOLEAN : /\ snapshot' = SnapshotOf(ReusedHash, partial)
                                       /\ partial <=> ~FullyScanned(segments')
<1>1. PICK to \in call.from..call.to :
           /\ At("read", "bytes") /\ disk # Absent
           /\ segments' = PageRead(to)
           /\ snapshot' = SnapshotOf(ReusedHash, ~FullyScanned(PageRead(to)))
           /\ results' = Append(results, Slice(to))
  BY PageIsReturned
<1>2. /\ call.raw \in world.contents /\ call.from \in Nat /\ call.to \in Nat
      /\ call.to <= LineCount[call.raw] \/ call.to = call.from
      /\ world.contents \subseteq Contents /\ LineCount[call.raw] \in Nat
  BY <1>1, ContentsAssumption, WorldsAssumption DEF Typed, TypeOK, CallTyped, At
<1>3. PICK state : state = SourceReadState(ReusedHash)
  OBVIOUS
<1>4. PICK slice : slice = Slice(to)
  OBVIOUS
<1>5. /\ slice \in Slices /\ slice.sha = ReusedHash /\ slice.content = call.raw
      /\ slice.from = call.from /\ slice.to = to
  BY <1>2, <1>4, HashOfContents DEF Slice, Slices
<1>6. /\ state.sha = ReusedHash /\ state.observed \subseteq DOMAIN results
      /\ StateIsExact(state)
  BY <1>2, <1>3, SourceReadStateTyped, SourceStateExact
<1>7. state.total = LineCount[call.raw]
  BY <1>3 DEF SourceReadState, NewReadState
<1>8. Belongs(slice, state)
  BY <1>2, <1>5, <1>6, <1>7 DEF Belongs
<1>9. /\ segments'.sha = state.sha /\ segments'.total = state.total
      /\ segments'.observed = state.observed \cup {Len(results) + 1}
  BY <1>1, <1>3, PageReadParts
<1>10. CutSlice(slice) = Cut
  BY <1>5 DEF CutSlice, Cut
<1>11. segments'.covered = MergeRanges(ToSet(state.covered)
         \cup {<<slice.from, IF CutSlice(slice) THEN slice.from ELSE slice.to>>})
  BY <1>1, <1>3, <1>5, <1>10, PageReadCovers, Zenon
<1>12. \E partial \in BOOLEAN : /\ snapshot' = SnapshotOf(ReusedHash, partial)
                                /\ partial <=> ~FullyScanned(segments')
  <2>1. (~FullyScanned(segments')) \in BOOLEAN
    BY DEF FullyScanned, CoversAll
  <2> QED BY <1>1, <2>1, Zenon
<1> QED BY <1>1, <1>3, <1>4, <1>5, <1>6, <1>8, <1>9, <1>11, <1>12, Zenon

LEMMA RangesKept == Typed /\ RangesInv /\ [Next]_vars => RangesInv'
<1> SUFFICES ASSUME Typed, RangesInv, [Next]_vars PROVE RangesInv'
  OBVIOUS
<1>1. ASSUME segments' = segments, results' = results PROVE RangesInv'
  <2> SUFFICES ASSUME segments' # None PROVE StateIsExact(segments)'
    BY DEF RangesInv
  <2>1. StateIsExact(segments)
    BY <1>1 DEF RangesInv
  <2> QED BY <1>1, <2>1 DEF StateIsExact, Returned
<1>2. ASSUME segments' = None PROVE RangesInv'
  BY <1>2 DEF RangesInv
<1>3. CASE ReturnPage
  <2>1. PICK state, slice :
           /\ state = SourceReadState(ReusedHash) /\ StateIsExact(state)
           /\ state.observed \subseteq DOMAIN results
           /\ slice \in Slices /\ Belongs(slice, state) /\ results' = Append(results, slice)
           /\ segments'.sha = state.sha /\ segments'.total = state.total
           /\ segments'.observed = state.observed \cup {Len(results) + 1}
           /\ segments'.covered = MergeRanges(ToSet(state.covered)
                \cup {<<slice.from, IF CutSlice(slice) THEN slice.from ELSE slice.to>>})
    BY <1>3, PageOfState, Zenon
  <2>2. results \in Seq(Slices)
    BY DEF Typed
  <2>3. PICK next : next = segments'
    OBVIOUS
  <2>4. StateIsExact(next)'
    BY <2>1, <2>2, <2>3, PageKeepsExact
  <2> QED BY <2>3, <2>4 DEF RangesInv, StateIsExact, Returned
<1>4. CASE ReturnNotice
  <2>1. segments' = SourceReadState(ReusedHash) /\ results' = results
    BY <1>4, Zenon DEF ReturnNotice, conversation
  <2>2. call.raw \in Contents
    BY <1>4, WorldsAssumption DEF ReturnNotice, At, Typed, TypeOK, CallTyped
  <2>3. PICK state : state = SourceReadState(ReusedHash)
    OBVIOUS
  <2>4. StateIsExact(state)
    BY <2>2, <2>3, SourceStateExact
  <2>5. StateIsExact(state)'
    BY <2>1, <2>4, StateStaysExact
  <2> QED BY <2>1, <2>3, <2>5 DEF RangesInv, StateIsExact, Returned
<1>5. CASE AdmitToolRound \/ Rebase
  <2>1. PICK ids : segments' = MarkedProjected(ids) /\ results' = results
    BY <1>5, RoundsMark
  <2>2. segments # None =>
          /\ segments'.sha = segments.sha /\ segments'.total = segments.total
          /\ segments'.covered = segments.covered /\ segments'.observed = segments.observed
    BY <2>1, MarksOnly
  <2>3. segments = None => segments' = None
    BY <2>1 DEF MarkedProjected
  <2> SUFFICES ASSUME segments # None PROVE RangesInv'
    BY <1>2, <2>3
  <2>4. StateIsExact(segments)
    BY DEF RangesInv
  <2>5. Returned(segments)' = Returned(segments)
    BY <2>1, <2>2 DEF Returned
  <2> QED BY <2>1, <2>2, <2>4, <2>5 DEF RangesInv, StateIsExact, Belongs
<1>6. CASE RecordWritten \/ Delete \/ RecordBashWrite \/ ResetTaskState
  BY <1>2, <1>6 DEF RecordWritten, Delete, RecordBashWrite, ResetTaskState
<1>7. CASE \/ OthersWrite \/ OthersDelete \/ ReadFile \/ CheckReplace \/ Replace
           \/ CheckEdit \/ LoadEdit \/ StoreEdit \/ Create \/ Torn \/ LoadWritten
           \/ CheckDelete \/ Abandon \/ UNCHANGED vars
  BY <1>1, <1>7 DEF OthersWrite, OthersDelete, ReadFile, CheckReplace, Replace, CheckEdit,
    LoadEdit, StoreEdit, Create, Torn, LoadWritten, CheckDelete, Abandon, vars, session,
    conversation
<1> QED BY <1>3, <1>4, <1>5, <1>6, <1>7 DEF Next

\* What a state says of the lines that were returned, given that it is exact.
LEMMA ExactStates ==
  ASSUME NEW state, StateIsExact(state), results \in Seq(Slices),
         state.observed \subseteq DOMAIN results
  PROVE  /\ Returned(state) \subseteq 0..(state.total - 1)
         /\ FullyScanned(state) <=> Returned(state) = 0..(state.total - 1)
         /\ \A start, end \in Nat :
              OverlapLength(state.covered, start, end)
                = Cardinality(Returned(state) \cap LinesOf(<<start, end>>))
<1>1. ASSUME NEW i \in state.observed, NEW l \in LinesReturned(results[i])
      PROVE  l \in 0..(state.total - 1)
  <2>1. results[i] \in Slices
    OBVIOUS
  <2>2. results[i].from \in Nat /\ results[i].to \in Nat
    BY <2>1 DEF Slices
  <2>3. l \in results[i].from..(results[i].to - 1)
    BY <1>1 DEF LinesReturned, LinesOf
  <2>4. Belongs(results[i], state) /\ state.total \in Nat
    BY DEF StateIsExact
  <2> QED BY <2>2, <2>3, <2>4 DEF Belongs
<1>2. Returned(state) \subseteq 0..(state.total - 1)
  BY <1>1, ReturnedBySlices
<1>3. /\ Separated(state.covered) /\ state.total \in Nat
      /\ CoverTo(state.covered, Len(state.covered)) = Returned(state)
  BY DEF StateIsExact
<1>4. FullyScanned(state) <=> Returned(state) = 0..(state.total - 1)
  BY <1>2, <1>3, CoversAllIsExact DEF FullyScanned
<1>5. ASSUME NEW start \in Nat, NEW end \in Nat
      PROVE  OverlapLength(state.covered, start, end)
               = Cardinality(Returned(state) \cap LinesOf(<<start, end>>))
  <2>1. OverlapLength(state.covered, start, end)
          = Cardinality(CoverTo(state.covered, Len(state.covered)) \cap LinesOf(<<start, end>>))
    BY <1>3, OverlapCounts, Zenon
  <2> QED BY <1>3, <2>1
<1> QED BY <1>2, <1>4, <1>5, Zenon

\* What read_file keeps of the file is exact, for any pages in any order.
THEOREM ReadStateHolds == Spec => []ReadStateIsExact
<1>1. Init => RangesInv
  BY DEF Init, RangesInv
<1>2. Spec => [](DiskInv /\ RangesInv)
  <2>1. DiskInv /\ RangesInv /\ [Next]_vars => RangesInv'
    BY RangesKept DEF DiskInv
  <2> QED BY <1>1, <2>1, DiskInvHolds, PTL DEF Spec
<1>3. DiskInv /\ RangesInv => ReadStateIsExact
  <2> SUFFICES ASSUME DiskInv, RangesInv PROVE ReadStateIsExact
    OBVIOUS
  <2>1. TypeOK /\ Typed
    BY DEF DiskInv, Typed
  <2>2. ASSUME segments # None
        PROVE  MergedIsExact /\ OverlapIsExact /\ FullScanIsExact
    <3>1. /\ StateIsExact(segments) /\ results \in Seq(Slices)
          /\ segments.observed \subseteq DOMAIN results
      BY <2>1, <2>2 DEF RangesInv, Typed, TypeOK
    <3>2. MergedIsExact
      <4>1. /\ Separated(segments.covered)
            /\ CoverTo(segments.covered, Len(segments.covered)) = Returned(segments)
        BY <3>1 DEF StateIsExact
      <4>2. DOMAIN segments.covered = 1..Len(segments.covered)
        BY <4>1 DEF Separated
      <4>3. UNION {LinesOf(segments.covered[i]) : i \in DOMAIN segments.covered}
              = Returned(segments)
        BY <4>1, <4>2 DEF CoverTo
      <4> QED BY <4>1, <4>2, <4>3 DEF MergedIsExact, Separated
    <3>3. segments.total \in Nat
      BY <3>1 DEF StateIsExact
    <3>4. PICK state : state = segments
      OBVIOUS
    <3>5. /\ FullyScanned(state) <=> Returned(state) = 0..(state.total - 1)
          /\ \A start, end \in Nat :
               OverlapLength(state.covered, start, end)
                 = Cardinality(Returned(state) \cap LinesOf(<<start, end>>))
      BY <3>1, <3>4, ExactStates
    <3>6. OverlapIsExact
      <4>1. \A start \in 0..segments.total : start \in Nat
        BY <3>3
      <4> QED BY <3>4, <3>5, <4>1, Zenon DEF OverlapIsExact
    <3>7. FullScanIsExact
      BY <3>4, <3>5 DEF FullScanIsExact
    <3> QED BY <3>2, <3>6, <3>7
  <2>3. ASSUME segments = None
        PROVE  MergedIsExact /\ OverlapIsExact /\ FullScanIsExact
    BY <2>3, Zenon DEF MergedIsExact, OverlapIsExact, FullScanIsExact
  <2>4. ReadingAgainHelps
    BY Calling DEF DiskInv, Agrees, ReadingAgainHelps, Idle
  <2> QED BY <2>1, <2>2, <2>3, <2>4 DEF ReadStateIsExact
<1> QED BY <1>2, <1>3, PTL

-----------------------------------------------------------------------------
(* What the conversation holds, and what a replacement stands on.          *)

\* Where nobody interferes, a result is recorded under the hash of its content.
HashesAreTrue ==
  ~world.races /\ ~world.coarse => \A i \in DOMAIN results : results[i].sha = results[i].content

\* A snapshot that pages have made complete stands for lines that were all returned.
CompleteIsShown ==
  ~world.races /\ ~world.coarse /\ paged /\ snapshot # None /\ ~snapshot.partial =>
    Lines(snapshot.sha) \subseteq Shown(snapshot.sha)

\* What is in the conversation as a stub only is marked as projected, or no state
\* that read_file goes by has observed it.
StubsAreMarked ==
  segments # None => segments.observed \cap stubs \subseteq segments.projected

ReadInv == DiskInv /\ RangesInv /\ HashesAreTrue /\ CompleteIsShown /\ StubsAreMarked

LEMMA HashesKept == DiskInv /\ RangesInv /\ HashesAreTrue /\ [Next]_vars => HashesAreTrue'
<1> SUFFICES ASSUME DiskInv, RangesInv, HashesAreTrue, [Next]_vars PROVE HashesAreTrue'
  OBVIOUS
<1>0. world' = world
  BY DEF Next, vars
<1> SUFFICES ASSUME ~world.races, ~world.coarse
             PROVE  \A i \in DOMAIN results' : results'[i].sha = results'[i].content
  BY <1>0 DEF HashesAreTrue
<1>1. \A i \in DOMAIN results : results[i].sha = results[i].content
  BY DEF HashesAreTrue
<1>2. CASE ReturnPage
  <2>1. PICK slice : /\ results' = Append(results, slice) /\ slice \in Slices
                     /\ slice.sha = ReusedHash /\ slice.content = call.raw
    BY <1>2, PageOfState, Zenon DEF DiskInv
  <2>2. slice.sha = slice.content
    BY <1>2, <2>1, RecordedHash DEF ReturnPage, At, DiskInv
  <2>3. results \in Seq(Slices)
    BY DEF DiskInv, Typed
  <2> QED BY <1>1, <2>1, <2>2, <2>3
<1>3. CASE ~ReturnPage
  <2>1. results' = results
    BY <1>3 DEF Next, OthersWrite, OthersDelete, ReadFile, ReturnNotice, CheckReplace, Replace,
      CheckEdit, LoadEdit, StoreEdit, Create, Torn, LoadWritten, RecordWritten, CheckDelete,
      Delete, Abandon, RecordBashWrite, AdmitToolRound, Rebase, ResetTaskState, vars, session,
      conversation
  <2> QED BY <1>1, <2>1
<1> QED BY <1>2, <1>3

\* More results show no less.
LEMMA ShownGrows ==
  ASSUME NEW content, results \in Seq(Slices),
         results' = results \/ \E slice \in Slices : results' = Append(results, slice)
  PROVE  Shown(content) \subseteq Shown(content)'
<1>1. \A i \in DOMAIN results : i \in DOMAIN results' /\ results'[i] = results[i]
  OBVIOUS
<1> QED BY <1>1 DEF Shown

LEMMA CompleteKept == ReadInv /\ [Next]_vars => CompleteIsShown'
<1> SUFFICES ASSUME ReadInv, [Next]_vars PROVE CompleteIsShown'
  OBVIOUS
<1>0. world' = world
  BY DEF Next, vars
<1> SUFFICES ASSUME ~world.races, ~world.coarse, paged', snapshot' # None, ~snapshot'.partial
             PROVE  (Lines(snapshot.sha) \subseteq Shown(snapshot.sha))'
  BY <1>0 DEF CompleteIsShown
<1>1. /\ Typed /\ RangesInv /\ results \in Seq(Slices) /\ HashesAreTrue
      /\ Known /\ Agrees /\ HashesAreTrue'
  BY HashesKept DEF ReadInv, DiskInv, Typed
<1>2. CASE ReturnPage
  <2>1. PICK state, slice :
           /\ StateIsExact(state) /\ state.sha = ReusedHash
           /\ state.observed \subseteq DOMAIN results
           /\ slice \in Slices /\ Belongs(slice, state) /\ results' = Append(results, slice)
           /\ slice.sha = ReusedHash /\ slice.content = call.raw
           /\ segments'.sha = state.sha /\ segments'.total = state.total
           /\ segments'.observed = state.observed \cup {Len(results) + 1}
           /\ segments'.covered = MergeRanges(ToSet(state.covered)
                \cup {<<slice.from, IF CutSlice(slice) THEN slice.from ELSE slice.to>>})
           /\ \E partial \in BOOLEAN : /\ snapshot' = SnapshotOf(ReusedHash, partial)
                                       /\ partial <=> ~FullyScanned(segments')
    <3>1. \A state : state = SourceReadState(ReusedHash) => state.sha = ReusedHash
      BY <1>1, SourceReadStateTyped
    <3> QED BY <1>1, <1>2, <3>1, PageOfState, Zenon
  <2>2. PICK next : next = segments'
    OBVIOUS
  <2>3. StateIsExact(next)'
    BY <1>1, <2>1, <2>2, PageKeepsExact
  <2>4. results' \in Seq(Slices) /\ next.observed \subseteq DOMAIN results'
    BY <1>1, <2>1, <2>2
  <2>5. FullyScanned(next) /\ snapshot'.sha = ReusedHash
    <3>1. \A sha, partial : SnapshotOf(sha, partial).sha = sha
                             /\ SnapshotOf(sha, partial).partial = partial
      BY DEF SnapshotOf
    <3>2. PICK partial \in BOOLEAN : /\ snapshot' = SnapshotOf(ReusedHash, partial)
                                     /\ partial <=> ~FullyScanned(segments')
      BY <2>1
    <3> QED BY <2>2, <3>1, <3>2
  <2>6. next.total = LineCount[ReusedHash] /\ next.total \in Nat
    <3>1. ReusedHash = call.raw
      BY <1>1, <1>2, RecordedHash DEF ReturnPage, At
    <3> QED BY <2>1, <2>2, <3>1 DEF Belongs, StateIsExact
  <2>7. Returned(next)' = 0..(next.total - 1)
    <3>1. CoverTo(next.covered, Len(next.covered)) = Returned(next)' /\ Separated(next.covered)
      BY <2>3 DEF StateIsExact
    <3>2. \A i \in next.observed : Belongs(results'[i], next)
      BY <2>3 DEF StateIsExact
    <3>3. Returned(next)' \subseteq 0..(next.total - 1)
      <4>1. ASSUME NEW i \in next.observed,
                   NEW l \in LinesOf(<<results'[i].from, results'[i].to>>)
            PROVE  l \in 0..(next.total - 1)
        <5>1. results'[i] \in Slices
          BY <2>4
        <5>2. results'[i].from \in Nat /\ results'[i].to \in Nat
          BY <5>1 DEF Slices
        <5>3. l \in results'[i].from..(results'[i].to - 1)
          BY <4>1 DEF LinesOf
        <5> QED BY <2>6, <3>2, <5>2, <5>3 DEF Belongs
      <4> QED BY <4>1 DEF Returned
    <3> QED BY <2>5, <2>6, <3>1, <3>3, CoversAllIsExact DEF FullyScanned
  <2>8. PICK sha : sha = ReusedHash
    OBVIOUS
  <2>9. ASSUME NEW l \in 1..next.total
        PROVE  l \in Shown(sha)'
    <3>1. l - 1 \in Returned(next)'
      BY <2>6, <2>7
    <3>2. PICK i \in next.observed :
            /\ l - 1 \in LinesOf(<<results'[i].from, results'[i].to>>)
            /\ results'[i].from + 1 \notin LongLines[results'[i].content]
      BY <3>1 DEF Returned
    <3>3. i \in DOMAIN results' /\ results'[i] \in Slices
      BY <2>4
    <3>4. results'[i].content = sha
      <4>1. results'[i].sha = next.sha
        BY <2>3 DEF StateIsExact, Belongs
      <4>2. results'[i].sha = results'[i].content
        BY <1>0, <1>1, <3>3 DEF HashesAreTrue
      <4> QED BY <2>1, <2>2, <2>8, <4>1, <4>2
    <3>5. l \in LinesBetween(results'[i].from, results'[i].to)
      <4>1. results'[i].from \in Nat /\ results'[i].to \in Nat /\ l \in Nat
        BY <2>6, <3>3 DEF Slices
      <4> QED BY <3>2, <4>1 DEF LinesOf, LinesBetween
    <3> QED BY <3>2, <3>3, <3>4, <3>5 DEF Shown
  <2>10. snapshot'.sha = sha /\ Lines(sha) \subseteq Shown(sha)'
    BY <2>5, <2>6, <2>8, <2>9 DEF Lines
  <2> QED BY <2>10 DEF Lines, Shown
<1>3. ASSUME UNCHANGED <<snapshot, paged, results>>
      PROVE  (Lines(snapshot.sha) \subseteq Shown(snapshot.sha))'
  <2>1. Lines(snapshot.sha) \subseteq Shown(snapshot.sha)
    BY <1>3 DEF ReadInv, CompleteIsShown
  <2> QED BY <1>3, <2>1 DEF Shown
<1>4. ~(ReturnNotice \/ RecordWritten \/ Delete)
  BY DEF ReturnNotice, RecordWritten, Delete
<1>5. CASE ~ReturnPage
  <2>1. UNCHANGED <<snapshot, paged, results>>
    BY <1>4, <1>5 DEF Next, OthersWrite, OthersDelete, ReadFile, CheckReplace, Replace,
      CheckEdit, LoadEdit, StoreEdit, Create, Torn, LoadWritten, CheckDelete,
      Abandon, RecordBashWrite, AdmitToolRound, Rebase, ResetTaskState, vars, session,
      conversation, ghosts
  <2> QED BY <1>3, <2>1
<1> QED BY <1>2, <1>5

\* The same of the state that a hash selects.
LEMMA SelectedIsMarked ==
  ASSUME StubsAreMarked, NEW sha
  PROVE  SourceReadState(sha).observed \cap stubs \subseteq SourceReadState(sha).projected
BY DEF StubsAreMarked, SourceReadState, NewReadState

LEMMA StubsKept == Typed /\ StubsAreMarked /\ [Next]_vars => StubsAreMarked'
<1> SUFFICES ASSUME Typed, StubsAreMarked, [Next]_vars PROVE StubsAreMarked'
  OBVIOUS
<1>1. CASE ReturnPage
  <2>1. PICK to \in call.from..call.to : segments' = PageRead(to) /\ stubs' = stubs
    BY <1>1, PageIsReturned
  <2>2. /\ segments'.observed = SourceReadState(ReusedHash).observed \cup {Len(results) + 1}
        /\ segments'.projected = SourceReadState(ReusedHash).projected
    BY <2>1, PageReadParts
  <2>3. Len(results) + 1 \notin stubs
    BY DEF Typed, TypeOK
  <2> QED BY <2>1, <2>2, <2>3, SelectedIsMarked DEF StubsAreMarked
<1>2. CASE ReturnNotice
  <2>1. segments' = SourceReadState(ReusedHash) /\ stubs' = stubs
    BY <1>2, Zenon DEF ReturnNotice, conversation
  <2> QED BY <2>1, SelectedIsMarked, Zenon DEF StubsAreMarked
<1>3. CASE AdmitToolRound \/ Rebase
  <2>1. PICK ids : /\ segments' = MarkedProjected(ids)
                   /\ stubs' = stubs \ ids \/ stubs' = stubs \cup ids
    BY <1>3, RoundsMark
  <2>2. CASE segments = None
    BY <2>1, <2>2 DEF MarkedProjected, StubsAreMarked
  <2>3. CASE segments # None
    <3>1. /\ segments'.observed = segments.observed
          /\ segments'.projected = segments.projected \cup ids
      BY <2>1, <2>3, MarksOnly
    <3> QED BY <2>1, <2>3, <3>1 DEF StubsAreMarked
  <2> QED BY <2>2, <2>3
<1>4. CASE RecordWritten \/ Delete \/ RecordBashWrite \/ ResetTaskState
  BY <1>4 DEF RecordWritten, Delete, RecordBashWrite, ResetTaskState, StubsAreMarked
<1>5. CASE \/ OthersWrite \/ OthersDelete \/ ReadFile \/ CheckReplace \/ Replace
           \/ CheckEdit \/ LoadEdit \/ StoreEdit \/ Create \/ Torn \/ LoadWritten
           \/ CheckDelete \/ Abandon \/ UNCHANGED vars
  <2>1. UNCHANGED <<segments, stubs>>
    BY <1>5 DEF OthersWrite, OthersDelete, ReadFile, CheckReplace, Replace, CheckEdit,
      LoadEdit, StoreEdit, Create, Torn, LoadWritten, CheckDelete, Abandon, vars, session,
      conversation
  <2> QED BY <2>1 DEF StubsAreMarked
<1> QED BY <1>1, <1>2, <1>3, <1>4, <1>5 DEF Next

LEMMA ReadInvHolds == Spec => []ReadInv
<1>1. Init => ReadInv
  BY InitDiskInv DEF Init, ReadInv, RangesInv, HashesAreTrue, CompleteIsShown, StubsAreMarked
<1>2. ReadInv /\ [Next]_vars => ReadInv'
  <2>1. DiskInv /\ [Next]_vars => DiskInv'
    BY TypedKept, FreshKept, KnownKept, AgreesKept DEF DiskInv
  <2> QED BY <2>1, RangesKept, HashesKept, CompleteKept, StubsKept DEF ReadInv, DiskInv
<1> QED BY <1>1, <1>2, PTL DEF Spec

\* A file whose pages were read is replaced only when all of its lines were.
THEOREM ReplacementWasRead == Spec => ReplacedWasRead
<1> DEFINE WasRead == ~world.races /\ ~world.coarse /\ paged /\ Overwrites({"replace"}) =>
                        Lines(disk.content) \subseteq Shown(disk.content)
<1>1. ReadInv /\ [Next]_vars => WasRead
  <2> SUFFICES ASSUME ReadInv, [Next]_vars, ~world.races, ~world.coarse, paged,
                      Overwrites({"replace"})
               PROVE  Lines(disk.content) \subseteq Shown(disk.content)
    OBVIOUS
  <2>1. call.tool = "replace" /\ Overwrites({"replace", "delete"})
    BY DEF Overwrites
  <2>2. call.pc = "checked"
    BY <2>1, OverwritingSteps DEF Replace, Delete, At
  <2>3. /\ snapshot # None /\ snapshot.sha = disk.content /\ ~snapshot.partial
    BY <2>1, <2>2 DEF ReadInv, DiskInv, Known, UnchangedSinceSnapshot
  <2> QED BY <2>3 DEF ReadInv, CompleteIsShown
<1> QED BY <1>1, ReadInvHolds, PTL DEF Spec, ReplacedWasRead

\* Of a set that holds as many of some lines as there are, none is missing.
LEMMA AllOfThem ==
  ASSUME NEW from \in Nat, NEW to \in Nat, from <= to, NEW C,
         Cardinality(C \cap LinesOf(<<from, to>>)) >= to - from
  PROVE  LinesOf(<<from, to>>) \subseteq C
<1> DEFINE A == LinesOf(<<from, to>>)
<1>1. A = from..(to - 1)
  BY DEF LinesOf
<1>2. IsFiniteSet(A) /\ Cardinality(A) = to - from
  BY <1>1, FS_Interval
<1> HIDE DEF A
<1>3. C \cap A \subseteq A /\ Cardinality(C \cap A) <= Cardinality(A)
      /\ (Cardinality(C \cap A) = Cardinality(A) => C \cap A = A)
      /\ Cardinality(C \cap A) \in Nat
  <2>1. C \cap A \in SUBSET A
    OBVIOUS
  <2>2. IsFiniteSet(C \cap A)
    BY <1>2, <2>1, FS_Subset
  <2> QED BY <1>2, <2>1, <2>2, FS_Subset, FS_CardinalityType
<1>4. Cardinality(C \cap A) >= to - from
  BY DEF A
<1>5. C \cap A = A
  BY <1>2, <1>3, <1>4
<1> QED BY <1>5 DEF A

\* When read_file answers with a notice, the lines are in the conversation as
\* they are on the disk, and not as a stub.
THEOREM NoticeHolds == Spec => NoticeIsTrue
<1> DEFINE Held == UNION {LinesBetween(results[i].from, results[i].to) :
                            i \in {j \in resident \ stubs : results[j].content = disk.content}}
           True == ~world.races /\ ~world.coarse /\ ReturnNotice => Requested \subseteq Held
<1>1. ReadInv => True
  <2> SUFFICES ASSUME ReadInv, ~world.races, ~world.coarse, ReturnNotice
               PROVE  Requested \subseteq Held
    OBVIOUS
  <2> HIDE DEF Held
  <2>1. /\ Typed /\ results \in Seq(Slices) /\ HashesAreTrue /\ Known /\ Agrees
        /\ resident \subseteq DOMAIN results /\ StubsAreMarked
    BY DEF ReadInv, DiskInv, Typed, TypeOK
  <2>2. PICK state : state = SourceReadState(ReusedHash)
    OBVIOUS
  <2>3. call.tool = "read" /\ disk # Absent /\ Redundant(state)
    BY <2>2, Zenon DEF ReturnNotice, At
  <2>4. /\ call.from \in Nat /\ call.to \in Nat /\ call.from <= call.to
    BY <2>1, <2>3 DEF Typed, CallTyped
  <2>5. /\ state.sha = disk.content /\ state.observed \subseteq DOMAIN results
        /\ state.observed \cap stubs \subseteq state.projected
    BY <2>1, <2>2, <2>3, SourceReadStateTyped, RecordedHash, SelectedIsMarked
  <2> DEFINE available == {i \in (state.observed \cap resident) \ state.projected :
                             results[i].sha = state.sha}
             R == {<<results[i].from, results[i].to>> : i \in available}
             A == LinesOf(<<call.from, call.to>>)
             m == MergeRanges(R)
  <2>6. OverlapLength(m, call.from, call.to) >= call.to - call.from
    BY <2>3, Zenon DEF Redundant, ResidentOverlap, RequestedLines
  <2>7. available \subseteq DOMAIN results
    BY <2>1
  <2>8. R \in SUBSET Ranges /\ IsFiniteSet(R)
    <3>1. R \in SUBSET Ranges
      <4>1. \A i \in available : results[i] \in Slices
        BY <2>1, <2>7
      <4> QED BY <4>1 DEF Slices, Ranges
    <3>2. DOMAIN results = 1..Len(results) /\ Len(results) \in Nat
      BY <2>1
    <3>3. IsFiniteSet(available)
      <4>1. IsFiniteSet(DOMAIN results)
        BY <3>2, FS_Interval
      <4> HIDE DEF available
      <4> QED BY <2>7, <4>1, FS_Subset
    <3> DEFINE f == [i \in available |-> <<results[i].from, results[i].to>>]
    <3>4. f \in Surjection(available, R)
      BY DEF Surjection
    <3> HIDE DEF available, R, f
    <3>5. IsFiniteSet(R)
      BY <3>3, <3>4, FS_Surjection
    <3> QED BY <3>1, <3>5 DEF R
  <2> HIDE DEF R, m
  <2>9. Separated(m) /\ CoverTo(m, Len(m)) = UNION {LinesOf(r) : r \in R}
    BY <2>8, MergeIsExact DEF m
  <2>10. Cardinality(CoverTo(m, Len(m)) \cap A) >= call.to - call.from
    <3>1. OverlapLength(m, call.from, call.to) = Cardinality(CoverTo(m, Len(m)) \cap A)
      BY <2>4, <2>9, OverlapCounts
    <3> QED BY <2>6, <3>1
  <2>11. A \subseteq UNION {LinesOf(r) : r \in R}
    BY <2>4, <2>9, <2>10, AllOfThem
  <2>12. ASSUME NEW l \in Requested
         PROVE  l \in Held
    <3>1. l \in Nat /\ l - 1 \in A
      BY <2>4, <2>12 DEF Requested, LinesBetween, LinesOf
    <3>2. PICK i \in available : l - 1 \in LinesOf(<<results[i].from, results[i].to>>)
      BY <2>11, <3>1 DEF R
    <3>3. /\ i \in resident \ stubs /\ i \in DOMAIN results /\ results[i] \in Slices
          /\ results[i].sha = state.sha
      BY <2>1, <2>5, <2>7
    <3>4. results[i].content = disk.content
      BY <2>1, <2>5, <3>3 DEF HashesAreTrue
    <3>5. l \in LinesBetween(results[i].from, results[i].to)
      <4>1. results[i].from \in Nat /\ results[i].to \in Nat
        BY <3>3 DEF Slices
      <4> QED BY <3>1, <3>2, <4>1 DEF LinesOf, LinesBetween
    <3> QED BY <3>3, <3>4, <3>5 DEF Held
  <2> QED BY <2>12
<1> QED BY <1>1, ReadInvHolds, PTL DEF NoticeIsTrue
=============================================================================
