--------------------------- MODULE NoteFilesProofs ---------------------------
(***************************************************************************)
(* What NoteFiles sees to, proved for every directory, every set of notes  *)
(* that others put, and every value of the other constants.                *)
(*                                                                         *)
(* The safety properties of the file follow from one inductive invariant,  *)
(* Inv: NotesOK says of the notes what Put has seen to; PageOK says of the *)
(* file that each line of the user is in it once, in order, and outside of *)
(* the markers, and of an export under way that it has read such a text;   *)
(* ImportOK has the types of an import.  That an import takes all is       *)
(* TakenOK: each file it has passed was put or told.  What Parse makes of  *)
(* Markdown, and what Render makes of a list, are lemmas about these       *)
(* operators; the induction over lines, notes and types that they need is  *)
(* by UpTo and Recursion, where the hypothesis is a set.                   *)
(***************************************************************************)
EXTENDS FiniteSetTheorems, NoteFiles, WellFoundedInduction, TLAPS

----------------------------------------------------------------------------
(***************************************************************************)
(* Least and greatest elements, and induction up to a bound, where the     *)
(* induction hypothesis is a set.                                          *)
(***************************************************************************)

\* A set of numbers has a least element, ...
LEMMA LeastExists ==
  ASSUME NEW T \in SUBSET Nat, T # {}
  PROVE  \E m \in T : \A y \in T : m <= y
<1>1. PICK m \in T : \A y \in T : ~ (<<y, m>> \in OpToRel(<, Nat))
  BY NatLessThanWellFounded, WFMin
<1>2. \A y \in T : ~(y < m)
  BY <1>1 DEF OpToRel
<1>3. QED  BY <1>2

\* ... which Min returns, ...
LEMMA MinOf ==
  ASSUME NEW T \in SUBSET Nat, T # {}
  PROVE  Min(T) \in T /\ \A y \in T : Min(T) <= y
  BY LeastExists DEF Min

\* ... whatever number it is.
LEMMA MinIs ==
  ASSUME NEW T \in SUBSET Nat, NEW m \in T, \A y \in T : m <= y
  PROVE  Min(T) = m
<1>1. Min(T) \in T /\ Min(T) <= m /\ m <= Min(T)
  BY MinOf
<1>2. Min(T) \in Nat /\ m \in Nat
  BY <1>1
<1>3. QED  BY <1>1, <1>2

\* A set of numbers up to n has a greatest one, which Max returns, ...
LEMMA MaxOf ==
  ASSUME NEW n \in Nat, NEW T \in SUBSET (0 .. n), T # {}
  PROVE  Max(T) \in T /\ \A y \in T : y <= Max(T)
<1> DEFINE U == {n - y : y \in T}
<1>1. U \in SUBSET Nat /\ U # {}
  <2>1. \A y \in T : n - y \in Nat
    OBVIOUS
  <2>2. QED  BY <2>1
<1>2. PICK m \in U : \A z \in U : m <= z
  BY <1>1, LeastExists
<1>3. PICK x \in T : m = n - x
  BY <1>2
<1>4. \A y \in T : n - x <= n - y
  BY <1>2, <1>3
<1>5. \A y \in T : x >= y
  BY <1>4
<1>6. QED  BY <1>5 DEF Max

\* ... whatever number it is.
LEMMA MaxIs ==
  ASSUME NEW n \in Nat, NEW T \in SUBSET (0 .. n), NEW m \in T, \A y \in T : y <= m
  PROVE  Max(T) = m
<1>1. Max(T) \in T /\ m <= Max(T)
  BY MaxOf
<1>2. Max(T) <= m /\ Max(T) \in 0 .. n /\ m \in 0 .. n
  BY <1>1
<1>3. QED  BY <1>1, <1>2

\* Induction up to n: set A holds 0, and with each number the next one.
LEMMA UpTo ==
  ASSUME NEW n \in Nat, NEW A, 0 \in A, \A k \in 0 .. n : k < n /\ k \in A => k + 1 \in A
  PROVE  \A k \in 0 .. n : k \in A
<1> DEFINE T == {k \in 0 .. n : k \notin A}
<1>1. SUFFICES ASSUME T # {} PROVE FALSE
  OBVIOUS
<1>2. PICK m \in T : \A y \in T : m <= y
  <2>1. T \in SUBSET Nat
    OBVIOUS
  <2>2. QED  BY <1>1, <2>1, LeastExists
<1>3. m \in 1 .. n /\ m - 1 \in 0 .. n /\ m - 1 < n /\ m - 1 \notin T
  BY <1>2
<1>4. m - 1 \in A
  BY <1>3
<1>5. (m - 1) + 1 \in A /\ (m - 1) + 1 = m
  BY <1>3, <1>4
<1>6. QED  BY <1>2, <1>5

\* The functions that a loop of n rounds computes, from a value to start with
\* and what a round does to a value.
Loops(n, V, base, step) ==
  {g \in [0 .. n -> V] : g[0] = base /\ \A k \in 1 .. n : g[k] = step[k][g[k - 1]]}

\* There is such a function, if every round stays within V.
LEMMA Recursion ==
  ASSUME NEW n \in Nat, NEW V, NEW base \in V, NEW step \in [1 .. n -> [V -> V]]
  PROVE  Loops(n, V, base, step) # {}
<1> DEFINE Good(m, g) == g[0] = base /\ \A k \in 1 .. m : g[k] = step[k][g[k - 1]]
           A == {m \in 0 .. n : \E g \in [0 .. m -> V] : Good(m, g)}
<1>1. 0 \in A
  <2> DEFINE g == [k \in 0 .. 0 |-> base]
  <2>1. 0 \in 0 .. 0 /\ 0 \in 0 .. n /\ 1 .. 0 = {}
    OBVIOUS
  <2>2. g \in [0 .. 0 -> V] /\ Good(0, g)
    BY <2>1
  <2>3. QED  BY <2>1, <2>2
<1>2. ASSUME NEW m \in 0 .. n, m < n, m \in A PROVE m + 1 \in A
  <2>1. PICK g \in [0 .. m -> V] : Good(m, g)
    BY <1>2
  <2> DEFINE h == [k \in 0 .. m + 1 |-> IF k = m + 1 THEN step[m + 1][g[m]] ELSE g[k]]
  <2>2. h \in [0 .. m + 1 -> V]
    <3>1. m + 1 \in 1 .. n /\ m \in 0 .. m /\ g[m] \in V
      BY <1>2
    <3>2. step[m + 1][g[m]] \in V
      BY <3>1
    <3>3. \A k \in 0 .. m + 1 : k # m + 1 => g[k] \in V
      BY <1>2
    <3>4. QED  BY <3>2, <3>3
  <2>3. \A k \in 0 .. m : h[k] = g[k]
    OBVIOUS
  <2>4. h[m + 1] = step[m + 1][h[(m + 1) - 1]]
    <3>1. (m + 1) - 1 = m /\ m \in 0 .. m /\ m + 1 \in 0 .. m + 1
      BY <1>2
    <3>2. h[m + 1] = step[m + 1][g[m]]
      BY <3>1
    <3>3. QED  BY <2>3, <3>1, <3>2
  <2>5. \A k \in 1 .. m : k - 1 \in 0 .. m /\ k \in 0 .. m
    OBVIOUS
  <2> HIDE DEF h
  <2>6. \A k \in 1 .. m + 1 : h[k] = step[k][h[k - 1]]
    <3>1. TAKE k \in 1 .. m + 1
    <3>2. CASE k = m + 1
      BY <2>4, <3>2
    <3>3. CASE k # m + 1
      <4>1. k \in 1 .. m
        BY <3>3
      <4>2. QED  BY <2>1, <2>3, <2>5, <4>1
    <3>4. QED  BY <3>2, <3>3
  <2>7. Good(m + 1, h) /\ m + 1 \in 0 .. n
    <3>1. 0 \in 0 .. m /\ m + 1 \in 0 .. n
      BY <1>2
    <3>2. QED  BY <2>1, <2>3, <2>6, <3>1
  <2>8. QED  BY <2>2, <2>7
<1>3. n \in A
  <2> HIDE DEF A
  <2>1. \A m \in 0 .. n : m \in A
    BY <1>1, <1>2, UpTo
  <2>2. QED  BY <2>1
<1>4. QED  BY <1>3 DEF Loops

\* Sequences over S that are put together are a sequence over S.
LEMMA FlattenIn ==
  ASSUME NEW S, NEW seqs \in Seq(Seq(S))
  PROVE  FlattenSeq(seqs) \in Seq(S)
<1> DEFINE n == Len(seqs)
           Flat(f) == [i \in 1 .. n |-> IF i = 1 THEN seqs[i] ELSE f[i - 1] \o seqs[i]]
           step == [k \in 1 .. n |-> [t \in Seq(S) |-> t \o seqs[k]]]
<1>1. CASE n = 0
  BY <1>1 DEF FlattenSeq
<1>2. CASE n # 0
  <2>1. n \in Nat /\ n >= 1
    BY <1>2
  <2>2. step \in [1 .. n -> [Seq(S) -> Seq(S)]] /\ <<>> \in Seq(S)
    OBVIOUS
  <2> HIDE DEF step
  <2>3. PICK g \in [0 .. n -> Seq(S)] :
               g[0] = <<>> /\ \A k \in 1 .. n : g[k] = step[k][g[k - 1]]
    <3>1. Loops(n, Seq(S), <<>>, step) # {}
      BY <2>1, <2>2, Recursion
    <3>2. QED  BY <3>1 DEF Loops
  <2>4. \A k \in 1 .. n : g[k] = g[k - 1] \o seqs[k] /\ g[k - 1] \in Seq(S)
    <3>1. \A k \in 1 .. n : k - 1 \in 0 .. n
      BY <2>1
    <3>2. QED  BY <2>3, <3>1 DEF step
  <2> DEFINE f == [i \in 1 .. n |-> g[i]]
  <2>5. f = Flat(f) /\ f[n] \in Seq(S)
    <3>1. g[1] = seqs[1]
      <4>1. 1 \in 1 .. n /\ 1 - 1 = 0
        BY <2>1
      <4>2. seqs[1] \in Seq(S)
        BY <4>1
      <4>3. g[1] = g[0] \o seqs[1] /\ g[0] = <<>>
        BY <2>3, <2>4, <4>1
      <4>4. QED  BY <4>2, <4>3
    <3>2. \A i \in 1 .. n : i # 1 => i - 1 \in 1 .. n
      BY <2>1
    <3>3. \A i \in 1 .. n : g[i] = IF i = 1 THEN seqs[i] ELSE f[i - 1] \o seqs[i]
      BY <2>4, <3>1, <3>2
    <3>4. n \in 1 .. n /\ n \in 0 .. n
      BY <2>1
    <3>5. QED  BY <3>3, <3>4
  <2> DEFINE c == CHOOSE x : x = Flat(x)
  <2>6. c = Flat(c)
    <3> HIDE DEF f, Flat
    <3>1. QED  BY <2>5
  <2>7. FlattenSeq(seqs) = c[n]
    BY <1>2 DEF FlattenSeq
  <2>8. \A k \in 0 .. n : k \in {j \in 0 .. n : j >= 1 => c[j] \in Seq(S)}
    <3> DEFINE A == {j \in 0 .. n : j >= 1 => c[j] \in Seq(S)}
    <3>1. 0 \in A
      OBVIOUS
    <3>2. ASSUME NEW k \in 0 .. n, k < n, k \in A PROVE k + 1 \in A
      <4>1. k + 1 \in 1 .. n /\ seqs[k + 1] \in Seq(S)
        BY <3>2
      <4>2. c[k + 1] = IF k + 1 = 1 THEN seqs[k + 1] ELSE c[(k + 1) - 1] \o seqs[k + 1]
        <5> HIDE DEF c
        <5>1. QED  BY <2>6, <4>1
      <4> HIDE DEF c
      <4>3. k >= 1 => c[k] \in Seq(S)
        BY <3>2
      <4>4. c[k + 1] \in Seq(S)
        BY <4>1, <4>2, <4>3
      <4>5. QED  BY <4>1, <4>4
    <3> HIDE DEF A, c, n
    <3>3. QED  BY <2>1, <3>1, <3>2, UpTo DEF A
  <2>9. n \in 0 .. n
    BY <2>1
  <2> HIDE DEF c
  <2>10. QED  BY <2>1, <2>7, <2>8, <2>9
<1>3. QED  BY <1>1, <1>2

----------------------------------------------------------------------------
\* Seconds and fractions of a stamp are numbers.
LEMMA StampParts ==
  ASSUME NEW t \in Nat
  PROVE  Second(t) \in Nat /\ Fraction(t) \in Nat
  BY UnitAssumption DEF Second, Fraction

\* The order of stamps as text leaves no two of them apart, ...
LEMMA StampsInOrder ==
  ASSUME NEW s \in Nat, NEW t \in Nat, NEW u \in Nat
  PROVE  /\ WrittenBefore(s, t) => ~WrittenBefore(t, s)
         /\ WrittenBefore(s, t) => WrittenBefore(s, u) \/ WrittenBefore(u, t)
<1>1. /\ Second(s) \in Nat /\ Second(t) \in Nat /\ Second(u) \in Nat
      /\ Fraction(s) \in Nat /\ Fraction(t) \in Nat /\ Fraction(u) \in Nat
  BY StampParts
<1>2. QED  BY <1>1 DEF WrittenBefore

\* Before(i, j): i is listed before j.
Before(ns, i, j) ==
  \/ WrittenBefore(ns[j].updated, ns[i].updated)
  \/ ~WrittenBefore(ns[i].updated, ns[j].updated) /\ i < j

\* It is a strict and total order of the notes found.
LEMMA BeforeIsOrder ==
  ASSUME NEW ns, NEW hits \in SUBSET Nat, \A i \in hits : ns[i].updated \in Nat
  PROVE  /\ \A i, j \in hits : i = j \/ Before(ns, i, j) \/ Before(ns, j, i)
         /\ \A i, j \in hits : Before(ns, i, j) => ~Before(ns, j, i)
         /\ \A i, j, k \in hits : Before(ns, i, j) /\ Before(ns, j, k) => Before(ns, i, k)
<1>1. \A i, j \in hits : i = j \/ Before(ns, i, j) \/ Before(ns, j, i)
  BY DEF Before
<1>2. \A i, j \in hits : Before(ns, i, j) => ~Before(ns, j, i)
  <2>1. TAKE i, j \in hits
  <2>2. ns[i].updated \in Nat /\ ns[j].updated \in Nat /\ i \in Nat /\ j \in Nat
    OBVIOUS
  <2>3. ~(WrittenBefore(ns[i].updated, ns[j].updated) /\ WrittenBefore(ns[j].updated, ns[i].updated))
    BY <2>2, StampsInOrder
  <2>4. QED  BY <2>2, <2>3 DEF Before
<1>3. \A i, j, k \in hits : Before(ns, i, j) /\ Before(ns, j, k) => Before(ns, i, k)
  <2>1. SUFFICES ASSUME NEW i \in hits, NEW j \in hits, NEW k \in hits,
                        Before(ns, i, j), Before(ns, j, k)
                 PROVE  Before(ns, i, k)
    OBVIOUS
  <2> DEFINE a == ns[i].updated  b == ns[j].updated  c == ns[k].updated
  <2>2. a \in Nat /\ b \in Nat /\ c \in Nat /\ i \in Nat /\ j \in Nat /\ k \in Nat
    OBVIOUS
  <2>3. /\ WrittenBefore(b, a) \/ (~WrittenBefore(a, b) /\ i < j)
        /\ WrittenBefore(c, b) \/ (~WrittenBefore(b, c) /\ j < k)
    BY <2>1 DEF Before
  <2> HIDE DEF a, b, c
  <2>4. /\ WrittenBefore(c, b) => ~WrittenBefore(b, c)
        /\ WrittenBefore(b, a) => ~WrittenBefore(a, b)
        /\ WrittenBefore(c, b) => WrittenBefore(c, a) \/ WrittenBefore(a, b)
        /\ WrittenBefore(b, a) => WrittenBefore(b, c) \/ WrittenBefore(c, a)
        /\ WrittenBefore(a, c) => WrittenBefore(a, b) \/ WrittenBefore(b, c)
    BY <2>2, StampsInOrder
  <2>5. WrittenBefore(c, a) \/ (~WrittenBefore(a, c) /\ i < k)
    BY <2>2, <2>3, <2>4
  <2>6. QED  BY <2>5 DEF Before, a, c
<1>4. QED  BY <1>1, <1>2, <1>3

\* What NewestFirst chooses exists.
LEMMA NewestFirstExists ==
  ASSUME NEW ns, NEW hits \in SUBSET Nat, IsFiniteSet(hits),
         \A i \in hits : ns[i].updated \in Nat
  PROVE  /\ NewestFirst(ns, hits) \in Orders(hits)
         /\ \A j, k \in DOMAIN NewestFirst(ns, hits) :
              j < k => ~WrittenBefore(ns[NewestFirst(ns, hits)[j]].updated,
                                      ns[NewestFirst(ns, hits)[k]].updated)
<1> DEFINE n == Cardinality(hits)
           upTo(i) == {j \in hits : j = i \/ Before(ns, j, i)}
           rank == [i \in hits |-> Cardinality(upTo(i))]
<1>1. n \in Nat /\ IsFiniteSet(1 .. n) /\ Cardinality(1 .. n) = n
  <2>1. n \in Nat
    BY FS_CardinalityType
  <2>2. QED  BY <2>1, FS_Interval
<1>2. \A i \in hits : IsFiniteSet(upTo(i)) /\ i \in upTo(i) /\ Cardinality(upTo(i)) \in 1 .. n
  <2>1. TAKE i \in hits
  <2>2. IsFiniteSet(upTo(i)) /\ Cardinality(upTo(i)) <= n
    BY FS_Subset
  <2>3. Cardinality(upTo(i)) \in Nat /\ Cardinality(upTo(i)) # 0
    BY <2>2, FS_CardinalityType, FS_EmptySet
  <2>4. QED  BY <1>1, <2>2, <2>3
<1>3. ASSUME NEW i \in hits, NEW j \in hits, Before(ns, i, j)
      PROVE  rank[i] < rank[j]
  <2>1. upTo(i) \subseteq upTo(j) /\ j \notin upTo(i)
    BY <1>3, BeforeIsOrder
  <2>2. upTo(i) # upTo(j)
    BY <2>1
  <2>3. Cardinality(upTo(i)) <= Cardinality(upTo(j)) /\ Cardinality(upTo(i)) # Cardinality(upTo(j))
    BY <1>2, <2>1, <2>2, FS_Subset
  <2>4. Cardinality(upTo(i)) \in Nat /\ Cardinality(upTo(j)) \in Nat
    <3>1. Cardinality(upTo(i)) \in 1 .. n /\ Cardinality(upTo(j)) \in 1 .. n
      BY <1>2
    <3> HIDE DEF n, upTo
    <3>2. QED  BY <1>1, <3>1
  <2> HIDE DEF upTo
  <2>5. QED  BY <2>3, <2>4
<1>4. rank \in [hits -> 1 .. n]
  BY <1>2
<1> HIDE DEF rank, upTo, n
<1>5. \A i, j \in hits : rank[i] = rank[j] => i = j
  <2>1. TAKE i, j \in hits
  <2>2. rank[i] \in Nat /\ rank[j] \in Nat
    <3>1. rank[i] \in 1 .. n /\ rank[j] \in 1 .. n
      BY <1>4
    <3>2. QED  BY <1>1, <3>1
  <2>3. i = j \/ rank[i] < rank[j] \/ rank[j] < rank[i]
    BY <1>3, BeforeIsOrder
  <2>4. QED  BY <2>2, <2>3
<1>6. rank \in Injection(hits, 1 .. n)
  BY <1>4, <1>5 DEF Injection, IsInjective
<1>7. rank \in Surjection(hits, 1 .. n)
  <2>1. Cardinality(hits) = n
    BY DEF n
  <2>2. QED  BY <1>1, <1>6, <2>1, FS_Injection
<1>8. \A k \in 1 .. n : \E i \in hits : rank[i] = k
  BY <1>7 DEF Surjection
<1> DEFINE order == [k \in 1 .. n |-> CHOOSE i \in hits : rank[i] = k]
<1>9. \A k \in 1 .. n : order[k] \in hits /\ rank[order[k]] = k
  BY <1>8
<1>10. order \in [1 .. n -> hits]
  BY <1>9
<1> HIDE DEF order
<1>11. order \in Orders(hits)
  <2>1. \A j, k \in 1 .. n : order[j] = order[k] => j = k
    BY <1>9
  <2>2. IsInjective(order)
    BY <1>10, <2>1 DEF IsInjective
  <2>3. QED  BY <1>10, <2>2 DEF Orders, n
<1>12. ASSUME NEW j \in DOMAIN order, NEW k \in DOMAIN order, j < k
       PROVE  ~WrittenBefore(ns[order[j]].updated, ns[order[k]].updated)
  <2>1. /\ j \in 1 .. n /\ k \in 1 .. n /\ order[j] \in hits /\ order[k] \in hits
        /\ rank[order[j]] = j /\ rank[order[k]] = k
    BY <1>9, <1>10, <1>12
  <2>2. ~Before(ns, order[k], order[j])
    <3>1. j \in Nat /\ k \in Nat
      BY <1>1, <2>1
    <3>2. Before(ns, order[k], order[j]) => k < j
      BY <1>3, <2>1
    <3>3. QED  BY <1>12, <3>1, <3>2
  <2>3. QED  BY <2>2 DEF Before
<1>13. QED  BY <1>11, <1>12 DEF NewestFirst

\* The lesser of two numbers.
LEMMA LesserOf ==
  ASSUME NEW a \in Nat, NEW b \in Nat
  PROVE  Min({a, b}) = IF a <= b THEN a ELSE b
<1>1. {a, b} \in SUBSET Nat
  OBVIOUS
<1>2. CASE a <= b
  BY <1>1, <1>2, MinIs
<1>3. CASE ~(a <= b)
  BY <1>1, <1>3, MinIs
<1>4. QED  BY <1>2, <1>3

\* What a list is: matching notes in order, and those it leaves out.
LEMMA Listed ==
  ASSUME NEW ns \in Seq(NoteTypes), NEW f, Limit(f) \in Nat \ {0}
  PROVE  LET L == List(ns, f) IN
         /\ L \in Seq(Matching(ns, f))
         /\ \A j, k \in DOMAIN L : j < k => ~WrittenBefore(ns[L[j]].updated, ns[L[k]].updated)
         /\ \A i \in Matching(ns, f) \ ToSet(L) :
              /\ Len(L) = Limit(f)
              /\ \A j \in ToSet(L) : ~WrittenBefore(ns[j].updated, ns[i].updated)
<1> DEFINE M == Matching(ns, f)
           N == NewestFirst(ns, M)
           n == Cardinality(M)
           m == IF Limit(f) <= n THEN Limit(f) ELSE n
<1>1. M \in SUBSET (1 .. Len(ns)) /\ Len(ns) \in Nat
  BY DEF Matching
<1>2. M \in SUBSET Nat /\ IsFiniteSet(M) /\ \A i \in M : ns[i].updated \in Nat
  <2>1. IsFiniteSet(1 .. Len(ns))
    BY <1>1, FS_Interval
  <2>2. IsFiniteSet(M)
    BY <1>1, <2>1, FS_Subset
  <2>3. \A i \in M : ns[i] \in NoteTypes
    BY <1>1
  <2>4. \A i \in M : ns[i].updated \in 1 .. MaxTime /\ MaxTime \in Nat
    BY <2>3, FilesAssumption DEF NoteTypes
  <2>5. M \in SUBSET Nat
    BY <1>1
  <2> HIDE DEF M
  <2>6. QED  BY <2>2, <2>4, <2>5
<1> HIDE DEF M
<1>3. /\ N \in Orders(M)
      /\ \A j, k \in DOMAIN N : j < k => ~WrittenBefore(ns[N[j]].updated, ns[N[k]].updated)
  BY <1>2, NewestFirstExists
<1>4. n \in Nat /\ N \in [1 .. n -> M] /\ IsInjective(N) /\ Len(N) = n
  <2>1. n \in Nat
    BY <1>2, FS_CardinalityType
  <2>2. N \in [1 .. n -> M] /\ IsInjective(N)
    BY <1>3 DEF Orders
  <2>3. QED  BY <2>1, <2>2
<1>5. \A i \in M : \E k \in 1 .. n : N[k] = i
  <2>1. N \in Injection(1 .. n, M)
    BY <1>4 DEF Injection
  <2>2. Cardinality(1 .. n) = Cardinality(M)
    BY <1>4, FS_Interval
  <2>3. N \in Surjection(1 .. n, M)
    BY <1>2, <2>1, <2>2, FS_Injection
  <2>4. QED  BY <2>3 DEF Surjection
<1>6. List(ns, f) = SubSeq(N, 1, m)
  BY <1>4, LesserOf DEF List, M
<1> DEFINE L == List(ns, f)
<1>7. m \in 0 .. n /\ m <= Limit(f)
  BY <1>4
<1> HIDE DEF N, n, m
<1>8. L \in Seq(M) /\ Len(L) = m /\ DOMAIN L = 1 .. m /\ \A k \in 1 .. m : L[k] = N[k]
  BY <1>4, <1>6, <1>7
<1> HIDE DEF L
<1>9. \A k \in 1 .. m : k \in 1 .. n /\ k \in DOMAIN N
  BY <1>4, <1>7
<1>10. \A j, k \in DOMAIN L : j < k => ~WrittenBefore(ns[L[j]].updated, ns[L[k]].updated)
  BY <1>3, <1>8, <1>9
<1>11. ASSUME NEW i \in M \ ToSet(L)
       PROVE  /\ Len(L) = Limit(f)
              /\ \A j \in ToSet(L) : ~WrittenBefore(ns[j].updated, ns[i].updated)
  <2>1. PICK k \in 1 .. n : N[k] = i
    BY <1>5
  <2>2. k \notin 1 .. m
    BY <1>8, <1>11, <2>1 DEF ToSet
  <2>3. m < k /\ m < n
    BY <1>4, <1>7, <2>2
  <2>4. m = Limit(f)
    BY <2>3, <1>4 DEF m
  <2>5. ASSUME NEW j \in ToSet(L) PROVE ~WrittenBefore(ns[j].updated, ns[i].updated)
    <3>1. PICK l \in 1 .. m : L[l] = j
      BY <1>8, <2>5 DEF ToSet
    <3>2. l < k /\ l \in DOMAIN N /\ k \in DOMAIN N /\ N[l] = j
      BY <1>4, <1>7, <1>8, <1>9, <2>3, <3>1
    <3>3. QED  BY <1>3, <2>1, <3>2
  <2>6. QED  BY <1>8, <2>4, <2>5
<1>12. QED  BY <1>8, <1>10, <1>11 DEF L, M

\* The limits of the lists that an export and a listing ask for.
LEMMA LimitType ==
  ASSUME NEW t
  PROVE  /\ Limit([NoFilter EXCEPT !.project = Target, !.viewer = Me, !.since = t]) \in Nat \ {0}
         /\ Limit([NoFilter EXCEPT !.project = Target, !.limit = MaxLimit, !.viewer = Me]) \in Nat \ {0}
  BY LimitAssumption DEF Limit, NoFilter

\* A list goes by seconds, and "since" cuts it by seconds.
LEMMA ListFollows ==
  ASSUME notes \in Seq(NoteTypes), clock \in Nat
  PROVE  ListFollowsClock
<1> SUFFICES ASSUME NEW t \in 0 .. clock, NEW i \in DOMAIN notes
    PROVE LET f == [NoFilter EXCEPT !.project = Target, !.viewer = Me, !.since = t]
              listed == ToSet(List(notes, f)) 
              s == Second(notes[i].updated) IN
      /\ i \in listed => s >= Second(t)
      /\ Where([f EXCEPT !.since = 0], notes[i]) /\ s > Second(t) /\ i \notin listed
         => Len(List(notes, f)) = Limit(f) /\ \A j \in listed : Second(notes[j].updated) >= s
  BY DEF ListFollowsClock
<1> DEFINE f == [NoFilter EXCEPT !.project = Target, !.viewer = Me, !.since = t]
           L == List(notes, f)
<1>1. t \in Nat /\ \A j \in DOMAIN notes : notes[j].updated \in Nat
  <2>1. \A j \in DOMAIN notes : notes[j] \in NoteTypes
    OBVIOUS
  <2>2. \A j \in DOMAIN notes : notes[j].updated \in 1 .. MaxTime
    BY <2>1 DEF NoteTypes
  <2>3. QED  BY <2>2, FilesAssumption
<1>2. ASSUME NEW j \in DOMAIN notes
      PROVE  Second(notes[j].updated) \in Nat /\ Second(t) \in Nat
  BY <1>1, StampParts
<1>3. /\ L \in Seq(Matching(notes, f))
      /\ \A k \in Matching(notes, f) \ ToSet(L) :
              /\ Len(L) = Limit(f)
              /\ \A j \in ToSet(L) : ~WrittenBefore(notes[j].updated, notes[k].updated)
  BY LimitType, Listed
<1>4. Where(f, notes[i]) <=> /\ Where([f EXCEPT !.since = 0], notes[i])
                             /\ t = 0 \/ ~WrittenBefore(notes[i].updated, t)
  BY DEF NoFilter, Where, StatusAsked
<1>5. ToSet(L) \subseteq Matching(notes, f) /\ Matching(notes, f) \subseteq DOMAIN notes
  BY <1>3 DEF ToSet, Matching
<1> HIDE DEF f, L
<1>6. ASSUME i \in ToSet(L) PROVE Second(notes[i].updated) >= Second(t)
  <2>1. t = 0 \/ ~WrittenBefore(notes[i].updated, t)
    BY <1>4, <1>5, <1>6 DEF Matching
  <2>2. CASE t = 0
    <3>1. Second(t) = 0
      BY <2>2, UnitAssumption DEF Second
    <3>2. QED  BY <1>2, <3>1
  <2>3. CASE ~WrittenBefore(notes[i].updated, t)
    BY <1>2, <2>3 DEF WrittenBefore
  <2>4. QED  BY <2>1, <2>2, <2>3
<1>7. ASSUME Where([f EXCEPT !.since = 0], notes[i]), Second(notes[i].updated) > Second(t),
             i \notin ToSet(L)
      PROVE  Len(L) = Limit(f)
             /\ \A j \in ToSet(L) : Second(notes[j].updated) >= Second(notes[i].updated)
  <2>1. ~WrittenBefore(notes[i].updated, t)
    BY <1>2, <1>7 DEF WrittenBefore
  <2>2. i \in Matching(notes, f) \ ToSet(L)
    BY <1>4, <1>7, <2>1 DEF Matching
  <2>3. ASSUME NEW j \in ToSet(L) PROVE Second(notes[j].updated) >= Second(notes[i].updated)
    <3>1. ~WrittenBefore(notes[j].updated, notes[i].updated) /\ j \in DOMAIN notes
      BY <1>3, <1>5, <2>2
    <3>2. QED  BY <1>2, <3>1 DEF WrittenBefore
  <2>4. QED  BY <1>3, <2>2, <2>3
<1>8. QED  BY <1>6, <1>7 DEF f, L

----------------------------------------------------------------------------
\* Lines that are told from those of the user by their text.
Foreign == {l \in Line : \A o \in Own : l.text # o.text}

\* Blank lines are, plain copies of such lines are, and the lines of the directory.
LEMMA ForeignLines ==
  /\ Blank \in Foreign
  /\ \A l \in Foreign : l \in Line /\ l.text \in STRING /\ Plain(l.text) \in Foreign
  /\ \A f \in File : Doc[f] \in Seq(Foreign)
<1>1. Blank \in Foreign
  <2>1. Blank \in Line /\ Blank.text = ""
    BY LiteralAssumption DEF Blank, Line
  <2>2. QED  BY <2>1, OwnAssumption DEF Foreign
<1>2. ASSUME NEW l \in Foreign
      PROVE  l \in Line /\ l.text \in STRING /\ Plain(l.text) \in Foreign
  <2>1. l \in Line /\ l.text \in STRING /\ \A o \in Own : l.text # o.text
    BY DEF Foreign, Line
  <2>2. Plain(l.text) \in Line /\ Plain(l.text).text = l.text
    BY <2>1, LiteralAssumption DEF Plain, Line
  <2>3. QED  BY <2>1, <2>2 DEF Foreign
<1>3. ASSUME NEW f \in File PROVE Doc[f] \in Seq(Foreign)
  <2>1. Doc[f] \in Seq(Line)
    BY FilesAssumption
  <2>2. \A i \in DOMAIN Doc[f] : Doc[f][i] \in ToSet(Doc[f]) /\ Doc[f][i] \in Line
    BY <2>1 DEF ToSet
  <2>3. \A l \in ToSet(Doc[f]) : \A o \in Own : l.text # o.text
    BY OwnAssumption
  <2>4. \A i \in DOMAIN Doc[f] : Doc[f][i] \in Foreign
    BY <2>2, <2>3 DEF Foreign
  <2>5. QED  BY <2>1, <2>4
<1>4. QED  BY <1>1, <1>2, <1>3

\* What is trimmed away.
LEMMA TrimmedParts ==
  ASSUME NEW ls \in Seq(Foreign)
  PROVE  \/ Trimmed(ls) = <<>> /\ \A i \in DOMAIN ls : ls[i].kind = "blank"
         \/ \E a \in DOMAIN ls, b \in DOMAIN ls :
              /\ a <= b /\ Trimmed(ls) = SubSeq(ls, a, b)
              /\ ls[a].kind # "blank" /\ ls[b].kind # "blank"
              /\ \A i \in DOMAIN ls : i < a \/ i > b => ls[i].kind = "blank"
<1> DEFINE full == {i \in DOMAIN ls : ls[i].kind # "blank"}
<1>1. CASE full = {}
  BY <1>1 DEF Trimmed
<1>2. CASE full # {}
  <2>1. full \in SUBSET Nat /\ Len(ls) \in Nat /\ full \in SUBSET (0 .. Len(ls))
    OBVIOUS
  <2>2. /\ Min(full) \in full /\ Max(full) \in full
        /\ \A i \in full : Min(full) <= i /\ i <= Max(full)
    BY <1>2, <2>1, MinOf, MaxOf
  <2>3. Trimmed(ls) = SubSeq(ls, Min(full), Max(full))
    BY <1>2 DEF Trimmed
  <2>4. \A i \in DOMAIN ls : i < Min(full) \/ i > Max(full) => i \notin full
    <3>1. Min(full) \in Nat /\ Max(full) \in Nat
      BY <2>1, <2>2
    <3> HIDE DEF full
    <3>2. QED  BY <2>2, <3>1
  <2>5. Min(full) \in DOMAIN ls /\ Max(full) \in DOMAIN ls /\ Min(full) <= Max(full)
    BY <2>2
  <2>6. /\ ls[Min(full)].kind # "blank" /\ ls[Max(full)].kind # "blank"
        /\ \A i \in DOMAIN ls : i < Min(full) \/ i > Max(full) => ls[i].kind = "blank"
    BY <2>2, <2>4
  <2> HIDE DEF full
  <2>7. QED  BY <2>3, <2>5, <2>6
<1>3. QED  BY <1>1, <1>2

\* A text whose ends are not blank is not trimmed.
LEMMA TrimmedSame ==
  ASSUME NEW ls \in Seq(Foreign), ls # <<>>, ls[1].kind # "blank", ls[Len(ls)].kind # "blank"
  PROVE  Trimmed(ls) = ls
<1>1. 1 \in DOMAIN ls /\ Len(ls) \in DOMAIN ls /\ Len(ls) \in Nat
  OBVIOUS
<1>2. PICK a \in DOMAIN ls, b \in DOMAIN ls :
         /\ Trimmed(ls) = SubSeq(ls, a, b)
         /\ \A i \in DOMAIN ls : i < a \/ i > b => ls[i].kind = "blank"
  BY <1>1, TrimmedParts
<1>3. a = 1 /\ b = Len(ls)
  BY <1>1, <1>2
<1>4. QED  BY <1>2, <1>3

\* Trimming yields lines of the text, all that are not blank, and once is enough.
LEMMA TrimmedIs ==
  ASSUME NEW ls \in Seq(Foreign)
  PROVE  /\ Trimmed(ls) \in Seq(Foreign)
         /\ \A i \in DOMAIN ls : ls[i].kind # "blank" => ls[i] \in ToSet(Trimmed(ls))
         /\ Trimmed(ls) # <<>> => /\ Trimmed(ls)[1].kind # "blank"
                                  /\ Trimmed(ls)[Len(Trimmed(ls))].kind # "blank"
<1>1. CASE Trimmed(ls) = <<>> /\ \A i \in DOMAIN ls : ls[i].kind = "blank"
  BY <1>1
<1>2. ASSUME NEW a \in DOMAIN ls, NEW b \in DOMAIN ls, a <= b, Trimmed(ls) = SubSeq(ls, a, b),
             ls[a].kind # "blank", ls[b].kind # "blank",
             \A i \in DOMAIN ls : i < a \/ i > b => ls[i].kind = "blank"
      PROVE  /\ Trimmed(ls) \in Seq(Foreign)
             /\ \A i \in DOMAIN ls : ls[i].kind # "blank" => ls[i] \in ToSet(Trimmed(ls))
             /\ Trimmed(ls)[1].kind # "blank" /\ Trimmed(ls)[Len(Trimmed(ls))].kind # "blank"
  <2> DEFINE t == Trimmed(ls)
  <2>1. a \in Nat /\ b \in Nat /\ 1 <= a /\ b <= Len(ls) /\ Len(ls) \in Nat
    OBVIOUS
  <2>2. /\ t \in Seq(Foreign) /\ Len(t) = b - a + 1 /\ DOMAIN t = 1 .. (b - a + 1)
        /\ \A k \in 1 .. (b - a + 1) : t[k] = ls[a + k - 1]
    BY <1>2, <2>1
  <2> HIDE DEF t
  <2>3. t[1] = ls[a] /\ t[Len(t)] = ls[b]
    <3>1. 1 \in 1 .. (b - a + 1) /\ b - a + 1 \in 1 .. (b - a + 1)
          /\ a + 1 - 1 = a /\ a + (b - a + 1) - 1 = b
      BY <1>2, <2>1
    <3>2. QED  BY <2>2, <3>1
  <2>4. ASSUME NEW i \in DOMAIN ls, ls[i].kind # "blank" PROVE ls[i] \in ToSet(t)
    <3>1. i - a + 1 \in 1 .. (b - a + 1) /\ a + (i - a + 1) - 1 = i
      BY <1>2, <2>1, <2>4
    <3>2. t[i - a + 1] = ls[i] /\ i - a + 1 \in DOMAIN t
      BY <2>2, <3>1
    <3>3. QED  BY <3>2 DEF ToSet
  <2>5. QED  BY <1>2, <2>2, <2>3, <2>4 DEF t
<1>3. QED  BY <1>1, <1>2, TrimmedParts

\* Trimming once is enough.
LEMMA TrimmedTwice ==
  ASSUME NEW ls \in Seq(Foreign)
  PROVE  Trimmed(Trimmed(ls)) = Trimmed(ls)
<1>1. CASE Trimmed(ls) = <<>>
  <2>1. {i \in DOMAIN <<>> : <<>>[i].kind # "blank"} = {}
    OBVIOUS
  <2>2. Trimmed(<<>>) = <<>>
    BY <2>1 DEF Trimmed
  <2>3. QED  BY <1>1, <2>2
<1>2. CASE Trimmed(ls) # <<>>
  BY <1>2, TrimmedIs, TrimmedSame
<1>3. QED  BY <1>1, <1>2

\* The parts of a document that Parse takes.
LEMMA DocParts ==
  ASSUME NEW doc \in Seq(Foreign), Parses(doc)
  PROVE  FrontOf(doc) \in Seq(Foreign) /\ BodyOf(doc) \in Seq(Foreign)
<1>1. CASE ~Framed(doc)
  BY <1>1 DEF FrontOf, BodyOf
<1>2. CASE Framed(doc)
  <2> DEFINE c == Closing(doc)
  <2>1. c \in 2 .. Len(doc) /\ Len(doc) \in Nat
    <3>1. Closings(doc) # {} /\ Closings(doc) \in SUBSET Nat
      BY <1>2 DEF Parses, Closings
    <3>2. c \in Closings(doc)
      BY <3>1, MinOf DEF Closing
    <3> HIDE DEF c
    <3>3. QED  BY <3>2 DEF Closings
  <2> HIDE DEF c
  <2>2. /\ SubSeq(doc, 2, c - 1) \in Seq(Foreign) /\ SubSeq(doc, c + 1, Len(doc)) \in Seq(Foreign)
        /\ doc[c] \in Foreign
    BY <2>1
  <2> DEFINE b == IF doc[c].text = "" THEN Blank ELSE Plain(doc[c].text)
  <2>3. b \in Foreign
    BY <2>2, ForeignLines
  <2>4. <<b>> \o SubSeq(doc, c + 1, Len(doc)) \in Seq(Foreign)
    <3> HIDE DEF b
    <3>1. QED  BY <2>2, <2>3
  <2>5. BodyOf(doc) = <<b>> \o SubSeq(doc, c + 1, Len(doc))
    BY <1>2 DEF BodyOf, c
  <2>6. FrontOf(doc) = SubSeq(doc, 2, c - 1)
    BY <1>2 DEF FrontOf, c
  <2>7. QED  BY <2>2, <2>4, <2>5, <2>6
<1>3. QED  BY <1>1, <1>2

\* A value of frontmatter is a text, and that of a line there, unless it is empty.
LEMMA ValueType ==
  ASSUME NEW front \in Seq(Foreign), NEW k
  PROVE  /\ Value(front, k) \in STRING
         /\ Value(front, k) # "" => \E i \in DOMAIN front : front[i].text = Value(front, k)
<1> DEFINE at == {i \in DOMAIN front : front[i].kind = "key" /\ front[i].key = k}
<1>1. CASE at = {}
  BY <1>1, LiteralAssumption DEF Value
<1>2. CASE at # {}
  <2>1. at \in SUBSET Nat
    OBVIOUS
  <2>2. Min(at) \in at
    BY <1>2, <2>1, MinOf
  <2>3. Value(front, k) = front[Min(at)].text
    BY <1>2 DEF Value
  <2>4. Min(at) \in DOMAIN front
    BY <2>2
  <2> HIDE DEF at
  <2>5. front[Min(at)] \in Foreign
    BY <2>4
  <2>6. QED  BY <2>3, <2>4, <2>5, ForeignLines
<1>3. QED  BY <1>1, <1>2

\* The elements of a list in frontmatter are a finite set of texts.
LEMMA ItemsType ==
  ASSUME NEW front \in Seq(Foreign), NEW k
  PROVE  Items(front, k) \in SUBSET STRING /\ IsFiniteSet(Items(front, k))
<1> DEFINE at == {j \in DOMAIN front : front[j].kind = "key" /\ front[j].key = k}
<1>1. \A i \in at : front[i].text \in STRING
  BY ForeignLines
<1>2. IsFiniteSet(at)
  <2>1. Len(front) \in Nat /\ at \subseteq 1 .. Len(front)
    OBVIOUS
  <2>2. QED  BY <2>1, FS_Interval, FS_Subset
<1> HIDE DEF at
<1> DEFINE texts == {front[i].text : i \in at}
           text == [i \in at |-> front[i].text]
<1>3. text \in Surjection(at, texts)
  BY DEF Surjection
<1>4. IsFiniteSet(texts)
  BY <1>2, <1>3, FS_Surjection
<1>5. QED  BY <1>1, <1>4 DEF Items, at

\* A title found in a text is a text.
LEMMA FirstHeadingType ==
  ASSUME NEW body \in Seq(Foreign)
  PROVE  FirstHeading(body) \in STRING
<1> DEFINE heads == {i \in DOMAIN body : body[i].kind = "head"}
<1>1. CASE heads # {}
  <2>1. heads \in SUBSET Nat
    OBVIOUS
  <2>2. Min(heads) \in DOMAIN body
    BY <1>1, <2>1, MinOf
  <2> HIDE DEF heads
  <2>3. body[Min(heads)].text \in STRING
    BY <2>2, ForeignLines
  <2>4. QED  BY <1>1, <2>3 DEF FirstHeading, heads
<1>2. CASE heads = {} /\ body # <<>>
  <2>1. body[1] \in Foreign
    BY <1>2
  <2>2. Shown(body[1]) \in STRING
    BY <2>1, ForeignLines, LiteralAssumption DEF Shown
  <2>3. QED  BY <1>2, <2>2 DEF FirstHeading
<1>3. CASE heads = {} /\ body = <<>>
  BY <1>3, LiteralAssumption DEF FirstHeading
<1>4. QED  BY <1>1, <1>2, <1>3

\* What Put and the documents see to, beyond the types of a note's fields.
GoodText(n) ==
  /\ IsFiniteSet(n.tags) /\ n.title # "" /\ n.type # ""
  /\ n.title \in DOMAIN LineSize /\ n.type \in ToSet(TypeOrder)
  /\ n.body \in Seq(Foreign) /\ Trimmed(n.body) = n.body

\* The same, of a note without its stamp.
GoodDraft(n) == n \in DraftTypes /\ GoodText(n)

\* The first of two values that is not empty is one of them.
LEMMA FirstOfType ==
  ASSUME NEW S, NEW s \in S, NEW t \in S
  PROVE  FirstOf(s, t) \in S /\ (t # "" => FirstOf(s, t) # "")
  BY DEF FirstOf

\* Others put notes of this kind.
LEMMA DraftsGood ==
  ASSUME NEW d \in Drafts
  PROVE  GoodDraft(d)
<1>1. /\ d \in DraftTypes /\ IsFiniteSet(d.tags) /\ Normalized(d) = d /\ Accepted(d)
      /\ \A l \in ToSet(d.body) : \A o \in Own : l.text # o.text
  BY DraftsAssumption, OwnAssumption
<1>2. d.title # "" /\ d.type = FirstOf(d.type, "project") /\ d.body = Trimmed(d.body)
  <2>1. Normalized(d).type = FirstOf(d.type, "project") /\ Normalized(d).body = Trimmed(d.body)
    BY <1>1 DEF Normalized, DraftTypes
  <2>2. Valid(d)
    BY <1>1 DEF Accepted
  <2>3. QED  BY <1>1, <2>1, <2>2 DEF Valid
<1>3. d.type # ""
  BY <1>2 DEF FirstOf
<1>4. d.body \in Seq(Foreign)
  <2>1. d.body \in Seq(Line)
    BY <1>1 DEF DraftTypes
  <2>2. \A i \in DOMAIN d.body : d.body[i] \in ToSet(d.body) /\ d.body[i] \in Line
    BY <2>1 DEF ToSet
  <2>3. \A i \in DOMAIN d.body : d.body[i] \in Foreign
    BY <1>1, <2>2 DEF Foreign
  <2>4. QED  BY <2>1, <2>3
<1>5. d.title \in DOMAIN LineSize /\ d.type \in ToSet(TypeOrder)
  BY DigestAssumption
<1>6. QED  BY <1>1, <1>2, <1>3, <1>4, <1>5 DEF GoodDraft, GoodText

\* The fields of a document that Parse takes have their types.
LEMMA ParsedTypes ==
  ASSUME NEW doc \in Seq(Foreign), Parses(doc)
  PROVE  LET p == Parsed(doc) IN
         /\ p = [title |-> p.title, type |-> p.type, scope |-> p.scope, project |-> p.project,
                 author |-> p.author, status |-> p.status, tags |-> p.tags, body |-> p.body]
         /\ {p.title, p.type, p.scope, p.project, p.author, p.status} \subseteq STRING
         /\ p.tags \in SUBSET STRING /\ IsFiniteSet(p.tags)
         /\ p.body = Trimmed(BodyOf(doc)) /\ p.body \in Seq(Foreign)
<1> DEFINE front == FrontOf(doc)
           body == Trimmed(BodyOf(doc))
           p == Parsed(doc)
<1>1. front \in Seq(Foreign) /\ body \in Seq(Foreign)
  BY DocParts, TrimmedIs
<1>2. /\ p.title = FirstOf(FirstOf(Value(front, "title"), Value(front, "name")), FirstHeading(body))
      /\ p.type = FirstOf(Value(front, "type"), Value(front, "metadata.type"))
      /\ p.scope = Value(front, "scope") /\ p.project = Value(front, "project")
      /\ p.author = Value(front, "author") /\ p.status = Value(front, "status")
      /\ p.tags = Items(front, "tags") /\ p.body = body
      /\ p = [title |-> p.title, type |-> p.type, scope |-> p.scope, project |-> p.project,
              author |-> p.author, status |-> p.status, tags |-> p.tags, body |-> p.body]
  BY DEF Parsed
<1> HIDE DEF p, front, body
<1>3. FirstHeading(body) \in STRING /\ \A k : Value(front, k) \in STRING
  <2>1. FirstHeading(body) \in STRING
    BY <1>1, FirstHeadingType
  <2>2. \A k : Value(front, k) \in STRING
    BY <1>1, ValueType
  <2>3. QED  BY <2>1, <2>2
<1>4. p.title \in STRING /\ p.type \in STRING
  BY <1>2, <1>3 DEF FirstOf
<1>5. Items(front, "tags") \in SUBSET STRING /\ IsFiniteSet(Items(front, "tags"))
  BY <1>1, ItemsType
<1>6. QED  BY <1>1, <1>2, <1>3, <1>4, <1>5 DEF p, body

\* The note of an import has the text of its file.
LEMMA ImportedGood ==
  ASSUME NEW f \in Markdowns, Importable(f)
  PROVE  LET n == Normalized(NoteOf(f)) IN
         GoodDraft(n) /\ n.project = Target /\ KeepsText(n, Doc[f])
<1> DEFINE doc == Doc[f]
           p == Parsed(doc)
           hint == SummaryHint(doc)
           n == Normalized(NoteOf(f))
<1>1. f \in File /\ doc \in Seq(Foreign) /\ Parses(doc) /\ Valid(n)
  BY FilesAssumption, ForeignLines DEF Importable, Accepted
<1> HIDE DEF doc
<1>2. /\ p = [title |-> p.title, type |-> p.type, scope |-> p.scope, project |-> p.project,
                 author |-> p.author, status |-> p.status, tags |-> p.tags, body |-> p.body]
      /\ {p.title, p.type, p.scope, p.project, p.author, p.status} \subseteq STRING
      /\ p.tags \in SUBSET STRING /\ IsFiniteSet(p.tags)
      /\ p.body = Trimmed(BodyOf(doc)) /\ p.body \in Seq(Foreign)
  BY <1>1, ParsedTypes
<1> HIDE DEF p, hint, n
<1>3. n = [title   |-> p.title,
           type    |-> FirstOf(FirstOf(p.type, TypeFromFilename(f)), "project"),
           scope   |-> FirstOf(ImportScope, "project"),
           project |-> Target,
           author  |-> FirstOf(p.author, Me),
           status  |-> FirstOf(p.status, "active"),
           tags    |-> p.tags \union {"imported"},
           body    |-> Trimmed(WithHint(hint, p.body))]
  <2> DEFINE m == [title   |-> p.title,
                   type    |-> FirstOf(p.type, TypeFromFilename(f)),
                   scope   |-> ImportScope,
                   project |-> Target,
                   author  |-> FirstOf(p.author, Me),
                   status  |-> p.status,
                   tags    |-> p.tags \union {"imported"},
                   body    |-> WithHint(hint, p.body)]
  <2>1. NoteOf(f) = [p EXCEPT !.project = Target, !.scope = ImportScope,
                              !.type = FirstOf(@, TypeFromFilename(f)),
                              !.body = WithHint(hint, @),
                              !.tags = @ \union {"imported"},
                              !.author = FirstOf(@, Me)]
    BY DEF NoteOf, Imported, p, hint, doc
  <2>2. NoteOf(f) = m
    BY <1>2, <2>1
  <2>3. n = Normalized(m)
    BY <2>2 DEF n
  <2>4. QED  BY <2>3 DEF Normalized
<1>4. hint \in STRING /\ (hint # "" => \E i \in DOMAIN FrontOf(doc) : FrontOf(doc)[i].text = hint)
  <2>1. FrontOf(doc) \in Seq(Foreign)
    BY <1>1, DocParts
  <2>2. QED  BY <2>1, ValueType DEF hint, SummaryHint
<1>5. WithHint(hint, p.body) \in Seq(Foreign)
  <2>1. CASE hint = "" \/ \E i \in DOMAIN p.body : p.body[i].text = hint
    BY <1>2, <2>1 DEF WithHint
  <2>2. CASE ~(hint = "" \/ \E i \in DOMAIN p.body : p.body[i].text = hint)
    <3>1. PICK i \in DOMAIN FrontOf(doc) : FrontOf(doc)[i].text = hint
      BY <1>4, <2>2
    <3>2. FrontOf(doc)[i] \in Foreign
      BY <1>1, <3>1, DocParts
    <3>3. Plain(hint) \in Foreign /\ Blank \in Foreign
      BY <3>1, <3>2, ForeignLines
    <3>4. WithHint(hint, p.body) = <<Plain(hint), Blank>> \o p.body
      BY <2>2 DEF WithHint
    <3>5. QED  BY <1>2, <3>3, <3>4
  <2>3. QED  BY <2>1, <2>2
<1>6. n.body \in Seq(Foreign) /\ Trimmed(n.body) = n.body
  BY <1>3, <1>5, TrimmedIs, TrimmedTwice
<1>7. n \in DraftTypes
  <2>1. n.type \in STRING /\ n.author \in STRING
    BY <1>1, <1>2, <1>3, FilesAssumption, LiteralAssumption DEF FirstOf, TypeFromFilename
  <2>2. n.scope \in KnownScopes /\ n.status \in KnownStatuses
    BY <1>1 DEF Valid
  <2>3. n.project \in STRING /\ n.title \in STRING /\ n.tags \in SUBSET STRING
    BY <1>2, <1>3, FilesAssumption, LiteralAssumption
  <2>4. n.body \in Seq(Line)
    <3>1. \A i \in DOMAIN n.body : n.body[i] \in Line
      BY <1>6, ForeignLines
    <3>2. QED  BY <1>6, <3>1
  <2>5. n = [project |-> n.project, title |-> n.title, type |-> n.type, scope |-> n.scope,
             author |-> n.author, status |-> n.status, tags |-> n.tags, body |-> n.body]
    BY <1>3
  <2>6. QED  BY <2>1, <2>2, <2>3, <2>4, <2>5 DEF DraftTypes
<1>8. IsFiniteSet(n.tags) /\ n.title # "" /\ n.type # ""
  <2>1. IsFiniteSet(n.tags)
    BY <1>2, <1>3, FS_AddElement
  <2>2. n.title # "" /\ n.type # ""
    BY <1>1, <1>3 DEF Valid, FirstOf
  <2>3. QED  BY <2>1, <2>2
<1>9. n.title \in DOMAIN LineSize /\ n.type \in ToSet(TypeOrder)
  BY DigestAssumption DEF n
<1>10. KeepsText(n, doc)
  <2> DEFINE w == WithHint(hint, p.body)
  <2>1. p.body # <<>> => p.body[1].kind # "blank" /\ p.body[Len(p.body)].kind # "blank"
    <3>1. BodyOf(doc) \in Seq(Foreign)
      BY <1>1, DocParts
    <3>2. QED  BY <1>2, <3>1, TrimmedIs
  <2>2. CASE hint = "" \/ \E i \in DOMAIN p.body : p.body[i].text = hint
    <3>1. n.body = p.body
      <4>1. w = p.body
        BY <2>2 DEF WithHint
      <4>2. Trimmed(p.body) = p.body
        <5>1. BodyOf(doc) \in Seq(Foreign)
          BY <1>1, DocParts
        <5>2. QED  BY <1>2, <5>1, TrimmedTwice
      <4>3. QED  BY <1>3, <4>1, <4>2
    <3>2. hint # "" => \E l \in ToSet(n.body) : l.text = hint
      BY <2>2, <3>1 DEF ToSet
    <3>3. \A l \in ToSet(Trimmed(BodyOf(doc))) : Contains(n.body, l)
      BY <1>2, <3>1 DEF ToSet, Contains
    <3>4. QED  BY <3>2, <3>3 DEF KeepsText, hint
  <2>3. CASE ~(hint = "" \/ \E i \in DOMAIN p.body : p.body[i].text = hint)
    <3>1. w = <<Plain(hint), Blank>> \o p.body /\ w \in Seq(Foreign)
      BY <1>5, <2>3 DEF WithHint
    <3> HIDE DEF w
    <3>2. /\ Len(w) = Len(p.body) + 2 /\ w[1] = Plain(hint)
          /\ \A k \in DOMAIN p.body : w[k + 2] = p.body[k] /\ p.body[k] \in Foreign
      BY <1>2, <3>1
    <3>3. n.body = Trimmed(w) /\ Plain(hint).kind # "blank" /\ Plain(hint).text = hint
      BY <1>3 DEF w, Plain
    <3>4. Plain(hint) \in ToSet(n.body)
      <4>1. 1 \in DOMAIN w /\ w[1].kind # "blank"
        BY <3>1, <3>2, <3>3
      <4>2. QED  BY <3>1, <3>2, <3>3, <4>1, TrimmedIs
    <3>5. ASSUME NEW l \in ToSet(p.body) PROVE l \in ToSet(n.body)
      <4>1. PICK k \in DOMAIN p.body : p.body[k] = l
        BY <3>5 DEF ToSet
      <4>2. /\ p.body # <<>> /\ Len(p.body) \in DOMAIN p.body /\ k + 2 \in DOMAIN w
            /\ w # <<>> /\ w[k + 2] = l
        BY <1>2, <3>1, <3>2, <4>1
      <4>3. w[Len(w)].kind # "blank"
        BY <2>1, <3>2, <4>2
      <4>4. n.body = w
        BY <3>1, <3>2, <3>3, <4>2, <4>3, TrimmedSame
      <4>5. QED  BY <4>2, <4>4 DEF ToSet
    <3>6. \A l \in ToSet(Trimmed(BodyOf(doc))) : Contains(n.body, l)
      <4>1. \A l \in ToSet(n.body) : Contains(n.body, l)
        BY DEF ToSet, Contains
      <4>2. QED  BY <1>2, <3>5, <4>1
    <3>7. QED  BY <3>3, <3>4, <3>6 DEF KeepsText, hint
  <2>4. QED  BY <2>2, <2>3
<1>11. GoodDraft(n)
  BY <1>6, <1>7, <1>8, <1>9 DEF GoodDraft, GoodText
<1>12. n.project = Target
  BY <1>3
<1>13. QED  BY <1>10, <1>11, <1>12 DEF n, doc

----------------------------------------------------------------------------
\* The notes of the store.
NotesOK ==
  /\ notes \in Seq(NoteTypes) /\ clock \in 0 .. MaxTime
  /\ \A i \in DOMAIN notes : GoodText(notes[i])

\* A note that is stored is the one put, with the stamp.
LEMMA StoredNote ==
  ASSUME NEW n, GoodDraft(n), clock' \in 1 .. MaxTime
  PROVE  /\ Stored(n) \in NoteTypes /\ GoodText(Stored(n))
         /\ Stored(n).project = n.project /\ Stored(n).body = n.body
<1> DEFINE s == [project |-> n.project, title |-> n.title, type |-> n.type, scope |-> n.scope,
                 author |-> n.author, status |-> n.status, tags |-> n.tags, body |-> n.body,
                 updated |-> clock']
<1>1. n \in DraftTypes /\ GoodText(n)
  BY DEF GoodDraft
<1>2. DOMAIN n = {"project", "title", "type", "scope", "author", "status", "tags", "body"}
  BY <1>1 DEF DraftTypes
<1>3. DOMAIN s = DOMAIN n \union {"updated"}
  BY <1>2
<1>4. \A field \in DOMAIN s : s[field] = IF field = "updated" THEN clock' ELSE n[field]
  BY <1>2
<1> HIDE DEF s
<1>5. Stored(n) = [field \in DOMAIN s |-> s[field]]
  BY <1>3, <1>4 DEF Stored
<1>6. s = [field \in DOMAIN s |-> s[field]]
  BY DEF s
<1>7. Stored(n) = s
  BY <1>5, <1>6
<1>8. s \in NoteTypes
  BY <1>1 DEF s, NoteTypes, DraftTypes
<1>9. GoodText(s) /\ s.project = n.project /\ s.body = n.body
  BY <1>1 DEF s, GoodText
<1>10. QED  BY <1>7, <1>8, <1>9

\* A write keeps the notes of this kind, ...
LEMMA SaveKeepsNotes ==
  ASSUME NotesOK, NEW n, GoodDraft(n), Save(n)
  PROVE  NotesOK'
<1>1. clock' \in 1 .. MaxTime
  BY FilesAssumption DEF NotesOK, Save
<1>2. Stored(n) \in NoteTypes /\ GoodText(Stored(n))
  BY <1>1, StoredNote
<1>3. notes' = Append(notes, Stored(n)) /\ notes \in Seq(NoteTypes)
      /\ \A i \in DOMAIN notes : GoodText(notes[i])
  BY DEF Save, NotesOK
<1>4. notes' \in Seq(NoteTypes)
  BY <1>2, <1>3
<1>5. \A i \in DOMAIN notes' : notes'[i] = Stored(n) \/ (i \in DOMAIN notes /\ notes'[i] = notes[i])
  BY <1>2, <1>3
<1>6. \A i \in DOMAIN notes' : GoodText(notes'[i])
  BY <1>2, <1>3, <1>5
<1>7. QED  BY <1>1, <1>4, <1>6 DEF NotesOK

\* ... and so does a deprecation.
LEMMA DeprecateKeepsNotes ==
  ASSUME NotesOK, NEW i \in DOMAIN notes, Deprecate(i)
  PROVE  NotesOK'
<1> DEFINE n == [notes[i] EXCEPT !.status = "deprecated", !.updated = clock']
<1>1. clock' \in 1 .. MaxTime
  BY FilesAssumption DEF NotesOK, Deprecate
<1>2. notes[i] \in NoteTypes /\ GoodText(notes[i]) /\ notes \in Seq(NoteTypes)
      /\ \A j \in DOMAIN notes : GoodText(notes[j])
  BY DEF NotesOK
<1>3. n \in NoteTypes
  BY <1>1, <1>2, KnownAssumption DEF NoteTypes
<1>4. GoodText(n)
  <2>1. /\ n.tags = notes[i].tags /\ n.title = notes[i].title /\ n.type = notes[i].type
        /\ n.body = notes[i].body
    BY <1>2 DEF NoteTypes
  <2>2. QED  BY <1>2, <2>1 DEF GoodText
<1>5. notes' = [notes EXCEPT ![i] = n]
  BY <1>2 DEF Deprecate, NoteTypes
<1> HIDE DEF n
<1>6. notes' \in Seq(NoteTypes) /\ DOMAIN notes' = DOMAIN notes
  BY <1>2, <1>3, <1>5
<1>7. \A j \in DOMAIN notes' : GoodText(notes'[j])
  BY <1>2, <1>4, <1>5, <1>6
<1>8. QED  BY <1>1, <1>6, <1>7 DEF NotesOK

\* An export lists notes of the store.
LEMMA ExportedNotes ==
  ASSUME notes \in Seq(NoteTypes)
  PROVE  Exported \in Seq(DOMAIN notes)
<1> DEFINE f == [NoFilter EXCEPT !.project = Target, !.limit = MaxLimit, !.viewer = Me]
<1>1. Exported \in Seq(Matching(notes, f))
  BY Listed, LimitType DEF Exported
<1>2. Matching(notes, f) \subseteq DOMAIN notes
  BY DEF Matching
<1> HIDE DEF f
<1>3. QED  BY <1>1, <1>2

\* What is between the markers of a section: lines of the notes, their titles
\* and ends of lines.
Entry(i) == <<Heading(notes[i].title), NewLine>> \o Lined(notes[i].body)
Entries  == FlattenSeq([k \in DOMAIN Exported |-> Entry(Exported[k])])

\* A section is its entries between two markers.
LEMMA SectionIs == Section = <<Begin, NewLine>> \o Entries \o <<End, NewLine>>
  BY DEF Section, Entries, Entry

\* The entries are made of titles, bodies and ends of lines.
LEMMA EntriesIn ==
  ASSUME notes \in Seq(NoteTypes), NEW S, NewLine \in S,
         \A i \in DOMAIN notes : Heading(notes[i].title) \in S /\ notes[i].body \in Seq(S)
  PROVE  Entries \in Seq(S)
<1>1. ASSUME NEW i \in DOMAIN notes PROVE Entry(i) \in Seq(S)
  <2> DEFINE b == notes[i].body
             lines == [k \in DOMAIN b |-> <<b[k], NewLine>>]
  <2>1. b \in Seq(S)
    BY <1>1
  <2>2. lines \in Seq(Seq(S))
    <3>1. \A k \in DOMAIN b : <<b[k], NewLine>> \in Seq(S)
      BY <2>1
    <3>2. DOMAIN b = 1 .. Len(b) /\ Len(b) \in Nat
      BY <2>1
    <3> HIDE DEF b
    <3>3. QED  BY <3>1, <3>2
  <2>3. Lined(b) \in Seq(S)
    BY <2>2, FlattenIn DEF Lined
  <2>4. <<Heading(notes[i].title), NewLine>> \in Seq(S)
    BY <1>1
  <2> HIDE DEF b, lines
  <2>5. QED  BY <2>3, <2>4 DEF Entry, b
<1> DEFINE es == [k \in DOMAIN Exported |-> Entry(Exported[k])]
<1>2. es \in Seq(Seq(S))
  <2>1. Exported \in Seq(DOMAIN notes)
    BY ExportedNotes
  <2>2. \A k \in DOMAIN Exported : Entry(Exported[k]) \in Seq(S)
    BY <1>1, <2>1
  <2>3. DOMAIN Exported = 1 .. Len(Exported) /\ Len(Exported) \in Nat
    BY <2>1
  <2>4. QED  BY <2>2, <2>3
<1>3. QED  BY <1>2, FlattenIn DEF Entries

\* An export writes nothing that is the user's.
Theirs == (Line \union {NewLine}) \ Own

\* Neither the entries nor the markers are what the user writes.
LEMMA SectionIn ==
  ASSUME NotesOK
  PROVE  Section \in Seq(Theirs) /\ Entries \in Seq(Theirs)
<1>1. NewLine \in Theirs /\ Begin \in Theirs /\ End \in Theirs
  <2>1. NewLine.kind # "text" /\ Begin.kind # "text" /\ End.kind # "text"
    BY DEF NewLine, Begin, End
  <2>2. Begin \in Line /\ End \in Line
    BY LiteralAssumption DEF Begin, End, Line
  <2>3. QED  BY <2>1, <2>2, OwnAssumption DEF Theirs
<1>2. ASSUME NEW i \in DOMAIN notes
      PROVE  Heading(notes[i].title) \in Theirs /\ notes[i].body \in Seq(Theirs)
  <2>1. notes[i] \in NoteTypes /\ GoodText(notes[i])
    BY DEF NotesOK
  <2>2. Heading(notes[i].title) \in Line /\ Heading(notes[i].title).kind # "text"
    BY <2>1, LiteralAssumption DEF Heading, Line, NoteTypes
  <2>3. Foreign \subseteq Theirs
    BY OwnAssumption DEF Foreign, Theirs
  <2>4. notes[i].body \in Seq(Theirs)
    <3>1. notes[i].body \in Seq(Foreign)
      BY <2>1 DEF GoodText
    <3>2. QED  BY <2>3, <3>1
  <2>5. QED  BY <2>2, <2>4, OwnAssumption DEF Theirs
<1>3. Entries \in Seq(Theirs)
  BY <1>1, <1>2, EntriesIn DEF NotesOK
<1>4. QED  BY <1>1, <1>3, SectionIs

----------------------------------------------------------------------------
\* What a file is made of, and its markers.
Element == Line \union {NewLine}
Marks   == {Begin, End}

\* The order in which the user's own text is in the file.
Rank(l) == IF l = Above THEN 1 ELSE IF l = Initial THEN 2 ELSE 3

\* The three are told from each other.
LEMMA Elements ==
  /\ NewLine \in Element /\ Begin \in Element /\ End \in Element
  /\ Begin # End /\ NewLine \notin Marks /\ NewLine \notin Own
  /\ Own \subseteq Element /\ \A l \in Own : l \notin Marks
  /\ Own = {Above, Initial, Below} /\ Above # Initial /\ Above # Below /\ Initial # Below
  /\ Theirs = Element \ Own
<1>1. NewLine.kind = "newline" /\ Begin.kind = "mark" /\ End.kind = "mark"
      /\ Begin.text = "begin" /\ End.text = "end"
  BY DEF NewLine, Begin, End
<1>2. Begin \in Line /\ End \in Line
  BY LiteralAssumption DEF Begin, End, Line
<1>3. Own \subseteq Line /\ \A l \in Own : l.kind = "text"
  BY OwnAssumption
<1>4. Own = {Above, Initial, Below} /\ Above # Initial /\ Above # Below /\ Initial # Below
  BY OwnAssumption DEF Own
<1>5. QED  BY <1>1, <1>2, <1>3, <1>4 DEF Element, Marks, Theirs

\* The first of some places.
LEMMA FirstPlace ==
  ASSUME NEW S, NEW text \in Seq(S), NEW m, Places(text, m) # {}
  PROVE  /\ Min(Places(text, m)) \in DOMAIN text /\ text[Min(Places(text, m))] = m
         /\ \A i \in DOMAIN text : text[i] = m => Min(Places(text, m)) <= i
<1>1. Places(text, m) \in SUBSET Nat
  BY DEF Places
<1>2. Min(Places(text, m)) \in Places(text, m) /\ \A i \in Places(text, m) : Min(Places(text, m)) <= i
  BY <1>1, MinOf
<1> DEFINE p == Min(Places(text, m))
<1> HIDE DEF p
<1>3. p \in Places(text, m) /\ \A i \in Places(text, m) : p <= i
  BY <1>2 DEF p
<1>4. QED  BY <1>3 DEF Places, p

\* The first place of m is p, if p holds m and no place before it does.
LEMMA FirstPlaceIs ==
  ASSUME NEW S, NEW text \in Seq(S), NEW m, NEW p \in DOMAIN text, text[p] = m,
         \A i \in DOMAIN text : text[i] = m => p <= i
  PROVE  Places(text, m) # {} /\ Min(Places(text, m)) = p
<1>1. Places(text, m) \in SUBSET Nat /\ p \in Places(text, m) /\ \A i \in Places(text, m) : p <= i
  BY DEF Places
<1>2. QED  BY <1>1, MinIs

\* A text of three parts.
Joined(t, pre, mid, post) ==
  /\ Len(t) = Len(pre) + Len(mid) + Len(post)
  /\ \A i \in 1 .. Len(pre) : t[i] = pre[i]
  /\ \A i \in 1 .. Len(mid) : t[Len(pre) + i] = mid[i]
  /\ \A i \in 1 .. Len(post) : t[Len(pre) + Len(mid) + i] = post[i]
  /\ \A k \in DOMAIN t : \/ k \in 1 .. Len(pre)
                         \/ k - Len(pre) \in 1 .. Len(mid)
                         \/ k - Len(pre) - Len(mid) \in 1 .. Len(post)

\* Three sequences put together have three parts.
LEMMA Parts ==
  ASSUME NEW S, NEW pre \in Seq(S), NEW mid \in Seq(S), NEW post \in Seq(S)
  PROVE  pre \o mid \o post \in Seq(S) /\ Joined(pre \o mid \o post, pre, mid, post)
<1> DEFINE u == pre \o mid
           t == u \o post
<1>1. /\ u \in Seq(S) /\ Len(u) = Len(pre) + Len(mid)
      /\ \A i \in 1 .. Len(pre) : u[i] = pre[i]
      /\ \A i \in 1 .. Len(mid) : u[Len(pre) + i] = mid[i]
  OBVIOUS
<1>2. Len(pre) \in Nat /\ Len(mid) \in Nat /\ Len(post) \in Nat
  OBVIOUS
<1> HIDE DEF u
<1>3. /\ t \in Seq(S) /\ Len(t) = Len(u) + Len(post)
      /\ \A i \in 1 .. Len(u) : t[i] = u[i]
      /\ \A i \in 1 .. Len(post) : t[Len(u) + i] = post[i]
  <2>1. t \in Seq(S) /\ Len(t) = Len(u) + Len(post) /\ \A i \in 1 .. Len(u) : t[i] = u[i]
    <3>1. t \in Seq(S) /\ Len(t) = Len(u) + Len(post)
      <4>1. u \in Seq(S)
        BY <1>1
      <4>2. QED  BY <4>1
    <3>2. ASSUME NEW i \in 1 .. Len(u) PROVE t[i] = u[i]
      <4>1. Len(u) \in Nat /\ i \in 1 .. (Len(u) + Len(post))
        BY <1>1, <1>2
      <4>2. QED  BY <1>1, <4>1
    <3>3. QED  BY <3>1, <3>2
  <2>2. ASSUME NEW i \in 1 .. Len(post) PROVE t[Len(u) + i] = post[i]
    <3>1. Len(u) \in Nat /\ Len(u) + i \in 1 .. (Len(u) + Len(post)) /\ Len(u) + i > Len(u)
          /\ (Len(u) + i) - Len(u) = i
      BY <1>1, <1>2
    <3>2. QED  BY SMTT(20), <1>1, <3>1
  <2>3. QED  BY <2>1, <2>2
<1> HIDE DEF t
<1>4. DOMAIN t = 1 .. (Len(pre) + Len(mid) + Len(post))
  BY <1>1, <1>3
<1>5. \A k \in DOMAIN t : \/ k \in 1 .. Len(pre)
                          \/ k - Len(pre) \in 1 .. Len(mid)
                          \/ k - Len(pre) - Len(mid) \in 1 .. Len(post)
  BY <1>2, <1>4
<1>6. \A i \in 1 .. Len(pre) : t[i] = pre[i]
  <2>1. TAKE i \in 1 .. Len(pre)
  <2>2. i \in 1 .. Len(u)
    BY <1>1, <1>2
  <2>3. QED  BY <1>1, <1>3, <2>2
<1>7. \A i \in 1 .. Len(mid) : t[Len(pre) + i] = mid[i]
  <2>1. TAKE i \in 1 .. Len(mid)
  <2>2. Len(pre) + i \in 1 .. Len(u)
    BY <1>1, <1>2
  <2>3. QED  BY <1>1, <1>3, <2>2
<1>8. \A i \in 1 .. Len(post) : t[Len(pre) + Len(mid) + i] = post[i]
  BY <1>1, <1>3
<1>9. t \in Seq(S) /\ Joined(t, pre, mid, post)
  BY <1>1, <1>3, <1>5, <1>6, <1>7, <1>8 DEF Joined
<1>10. QED  BY <1>9 DEF t, u

----------------------------------------------------------------------------
\* The text of the user in a file: what he may count on is there, nothing is there
\* twice, and it has its order.  Another character of his may be there: the one
\* that is not counted as his, before the rest of its line.
Held(text, own) ==
  /\ \A l \in Own : Contains(own, l) => \E i \in DOMAIN text : text[i] = l
  /\ \A i \in DOMAIN text : text[i] \in Own =>
       Contains(own, IF text[i] = Initial THEN Below ELSE text[i])
  /\ \A i, j \in DOMAIN text : text[i] \in Own /\ text[i] = text[j] => i = j
  /\ \A i, j \in DOMAIN text :
       text[i] \in Own /\ text[j] \in Own /\ Rank(text[i]) < Rank(text[j]) => i < j

\* Place i comes before all markers of a text, or after them and what an export
\* takes for the end of their line.
Ahead(text, i)  == \A m \in DOMAIN text : text[m] \in Marks => i < m
Behind(text, i) ==
  \A m \in DOMAIN text : (text[m] \in Marks => m < i) /\ (text[m] = End => m + 1 < i)

\* So does all he may count on.
Outside(text, own) ==
  \A i \in DOMAIN text : Contains(own, text[i]) => Ahead(text, i) \/ Behind(text, i)

\* No end marker without a begin marker.
BeginFirst(text) == Places(text, End) # {} => Places(text, Begin) # {}

\* What an export writes: from a begin marker to the end of a line.
SectionOK(s) ==
  s \in Seq(Theirs) /\ s # <<>> /\ s[1] = Begin /\ s[Len(s)] = NewLine

\* Two texts that differ in what they have after place a: c places of the one,
\* d of the other, with nothing that the user may count on, or has written.
Spliced(t, u, own, a, c, d) ==
  /\ a + c <= Len(t) /\ Len(u) = Len(t) - c + d
  /\ \A i \in 1 .. a : u[i] = t[i]
  /\ \A i \in a + c + 1 .. Len(t) : u[i - c + d] = t[i]
  /\ \A i \in a + 1 .. a + c : ~Contains(own, t[i])
  /\ \A i \in a + 1 .. a + d : u[i] \notin Own

\* Such a change leaves the text of the user as it was, and its order.
LEMMA SplicedKeeps ==
  ASSUME NEW t \in Seq(Element), NEW u \in Seq(Element), NEW own,
         NEW a \in Nat, NEW c \in Nat, NEW d \in Nat, Spliced(t, u, own, a, c, d), Held(t, own)
  PROVE  Held(u, own)
<1> DEFINE to(i) == IF i <= a THEN i ELSE i - c + d
           from(k) == IF k <= a THEN k ELSE k - d + c
<1>1. Len(t) \in Nat /\ Len(u) \in Nat /\ DOMAIN t = 1 .. Len(t) /\ DOMAIN u = 1 .. Len(u)
  OBVIOUS
<1>2. ASSUME NEW i \in DOMAIN t, Contains(own, t[i])
      PROVE  to(i) \in DOMAIN u /\ u[to(i)] = t[i]
  <2>1. i \notin a + 1 .. a + c
    BY <1>2 DEF Spliced
  <2>2. CASE i <= a
    BY <1>1, <2>2 DEF Spliced
  <2>3. CASE i > a + c
    BY <1>1, <2>3 DEF Spliced
  <2>4. QED  BY <1>1, <2>1, <2>2, <2>3
<1>3. ASSUME NEW k \in DOMAIN u, u[k] \in Own
      PROVE  from(k) \in DOMAIN t /\ t[from(k)] = u[k]
  <2>1. k \notin a + 1 .. a + d
    BY <1>3 DEF Spliced
  <2>2. CASE k <= a
    BY <1>1, <2>2 DEF Spliced
  <2>3. CASE k > a + d
    <3>1. k - d + c \in a + c + 1 .. Len(t) /\ (k - d + c) - c + d = k
      BY <1>1, <2>3 DEF Spliced
    <3>2. u[(k - d + c) - c + d] = t[k - d + c]
      BY <3>1 DEF Spliced
    <3>3. QED  BY <1>1, <2>3, <3>1, <3>2
  <2>4. QED  BY <1>1, <2>1, <2>2, <2>3
<1>4. \A k, l \in DOMAIN u : u[k] \in Own /\ u[l] \in Own =>
        (from(k) = from(l) => k = l) /\ (from(k) < from(l) => k < l)
  <2>1. TAKE k, l \in DOMAIN u
  <2>2. SUFFICES ASSUME u[k] \in Own, u[l] \in Own
                 PROVE  (from(k) = from(l) => k = l) /\ (from(k) < from(l) => k < l)
    OBVIOUS
  <2>3. k \notin a + 1 .. a + d /\ l \notin a + 1 .. a + d
    BY <2>2 DEF Spliced
  <2>4. QED  BY SMTT(20), <1>1, <2>3
<1> HIDE DEF to, from
<1>5. ASSUME NEW l \in Own, Contains(own, l)
      PROVE  \E i \in DOMAIN u : u[i] = l
  <2>1. PICK i \in DOMAIN t : t[i] = l
    BY <1>5 DEF Held
  <2>2. QED  BY <1>2, <1>5, <2>1
<1>6. ASSUME NEW k \in DOMAIN u, u[k] \in Own
      PROVE  Contains(own, IF u[k] = Initial THEN Below ELSE u[k])
  BY <1>3, <1>6 DEF Held
<1>7. \A k, l \in DOMAIN u : u[k] \in Own /\ u[k] = u[l] => k = l
  BY <1>3, <1>4 DEF Held
<1>8. \A k, l \in DOMAIN u :
        u[k] \in Own /\ u[l] \in Own /\ Rank(u[k]) < Rank(u[l]) => k < l
  BY <1>3, <1>4 DEF Held
<1>9. QED  BY <1>5, <1>6, <1>7, <1>8 DEF Held

\* What is left of a text by an export: the first a places, with ends of lines
\* after them, and what comes after c more, which start with a marker and end with
\* an end marker and what follows it.
Kept(text, pre, post, a, c) ==
  /\ pre \in Seq(Element) /\ post \in Seq(Element) /\ a \in Nat /\ c \in Nat
  /\ a <= Len(pre) /\ a + c + Len(post) = Len(text)
  /\ \A i \in 1 .. a : pre[i] = text[i]
  /\ \A i \in a + 1 .. Len(pre) : pre[i] = NewLine
  /\ \A i \in DOMAIN pre : pre[i] \notin Marks
  /\ \A i \in 1 .. Len(post) : post[i] = text[a + c + i]
  /\ \/ c = 0 /\ post = <<>>
     \/ c > 2 /\ text[a + 1] \in Marks /\ text[a + c - 1] = End

\* An export splits the text it finds in such a way, whatever section it writes.
LEMMA UpdatedParts ==
  ASSUME NEW text \in Seq(Element), BeginFirst(text), CanUpdate(text)
  PROVE  \E pre, post, a, c : /\ Kept(text, pre, post, a, c)
                              /\ \A s : Updated(text, s) = pre \o s \o post
<1>0. Len(text) \in Nat /\ DOMAIN text = 1 .. Len(text)
  OBVIOUS
<1>1. CASE Places(text, Begin) = {}
  <2> DEFINE pre == Ended(text) \o <<NewLine>>
  <2>1. \A i \in DOMAIN text : text[i] \notin Marks
    BY <1>1 DEF BeginFirst, Places, Marks
  <2>2. /\ Ended(text) \in Seq(Element) /\ Len(text) <= Len(Ended(text))
        /\ \A i \in 1 .. Len(text) : Ended(text)[i] = text[i]
        /\ \A i \in Len(text) + 1 .. Len(Ended(text)) : Ended(text)[i] = NewLine
    BY Elements DEF Ended
  <2>3. /\ pre \in Seq(Element) /\ Len(text) <= Len(pre)
        /\ \A i \in 1 .. Len(text) : pre[i] = text[i]
        /\ \A i \in Len(text) + 1 .. Len(pre) : pre[i] = NewLine
    <3> DEFINE e == Ended(text)
    <3>1. e \in Seq(Element)
      BY <2>2
    <3> HIDE DEF e
    <3>2. /\ pre \in Seq(Element) /\ Len(pre) = Len(e) + 1 /\ Len(e) \in Nat
          /\ pre[Len(pre)] = NewLine /\ \A i \in 1 .. Len(e) : pre[i] = e[i]
      BY <3>1, Elements DEF e
    <3> HIDE DEF pre
    <3>3. Len(text) <= Len(pre)
      BY <1>0, <2>2, <3>2 DEF e
    <3>4. \A i \in 1 .. Len(text) : pre[i] = text[i]
      BY <1>0, <2>2, <3>2 DEF e
    <3>5. \A i \in Len(text) + 1 .. Len(pre) : pre[i] = NewLine
      <4>1. TAKE i \in Len(text) + 1 .. Len(pre)
      <4>2. i = Len(pre) \/ (i \in Len(text) + 1 .. Len(e) /\ i \in 1 .. Len(e))
        BY <1>0, <3>2
      <4>3. QED  BY <2>2, <3>2, <4>2 DEF e
    <3>6. QED  BY <3>2, <3>3, <3>4, <3>5
  <2>4. \A s : Updated(text, s) = pre \o s \o <<>>
    <3>1. TAKE s
    <3>2. Updated(text, s) = Ended(text) \o <<NewLine>> \o s
      BY <1>1 DEF Updated, Appended
    <3>3. QED  BY <3>2
  <2> HIDE DEF pre
  <2>5. \A i \in DOMAIN pre : pre[i] \notin Marks
    <3>1. TAKE i \in DOMAIN pre
    <3>2. i \in 1 .. Len(text) \/ i \in Len(text) + 1 .. Len(pre)
      BY <1>0, <2>3
    <3>3. QED  BY <1>0, <2>1, <2>3, <3>2, Elements
  <2>6. Kept(text, pre, <<>>, Len(text), 0)
    BY <1>0, <2>3, <2>5 DEF Kept
  <2>7. QED  BY <2>4, <2>6
<1>2. CASE Places(text, Begin) # {}
  <2> DEFINE b == Min(Places(text, Begin))
             e == Min(Places(text, End))
             pre == SubSeq(text, 1, b - 1)
             post == SubSeq(text, e + 2, Len(text))
  <2>1. Places(text, End) # {} /\ e > b /\ e < Len(text)
    BY <1>2 DEF CanUpdate
  <2>2. b \in DOMAIN text /\ text[b] = Begin /\ \A i \in DOMAIN text : text[i] = Begin => b <= i
    BY <1>2, FirstPlace
  <2>3. e \in DOMAIN text /\ text[e] = End /\ \A i \in DOMAIN text : text[i] = End => e <= i
    BY <2>1, FirstPlace
  <2>4. \A s : Updated(text, s) = pre \o s \o post
    BY <1>2 DEF Updated, Replaced
  <2> HIDE DEF b, e
  <2>5. b \in Nat /\ e \in Nat /\ 1 <= b /\ b < e /\ e < Len(text)
    BY <1>0, <2>1, <2>2, <2>3
  <2>6. /\ pre \in Seq(Element) /\ Len(pre) = b - 1 /\ DOMAIN pre = 1 .. b - 1
        /\ \A i \in 1 .. b - 1 : pre[i] = text[i]
    BY <1>0, <2>5
  <2>7. /\ post \in Seq(Element) /\ Len(post) = Len(text) - e - 1
        /\ \A i \in 1 .. Len(text) - e - 1 : post[i] = text[e + 1 + i]
    <3>1. post \in Seq(Element) /\ Len(post) = Len(text) - e - 1
      <4>1. e + 2 \in Nat /\ e + 2 >= 1 /\ e + 2 <= Len(text) + 1
        BY <1>0, <2>5
      <4>2. \A i \in e + 2 .. Len(text) : text[i] \in Element
        BY <1>0, <4>1
      <4>3. post \in Seq(Element)
        BY <1>0, <4>1, <4>2
      <4>4. Len(post) = IF e + 2 <= Len(text) THEN Len(text) - (e + 2) + 1 ELSE 0
        BY <1>0, <4>1
      <4> HIDE DEF post
      <4>5. CASE e + 2 <= Len(text)
        BY <1>0, <2>5, <4>3, <4>4, <4>5
      <4>6. CASE ~(e + 2 <= Len(text))
        <5>1. e \in Nat /\ Len(text) \in Nat /\ e < Len(text) /\ ~(e + 2 <= Len(text)) /\ Len(post) = 0
          BY <1>0, <2>5, <4>4, <4>6
        <5>2. Len(text) - e - 1 = 0
          BY <5>1
        <5>3. QED  BY <4>3, <5>1, <5>2
      <4>7. QED  BY <4>5, <4>6
    <3>2. ASSUME NEW i \in 1 .. Len(text) - e - 1 PROVE post[i] = text[e + 1 + i]
      <4>1. (e + 2) + i - 1 = e + 1 + i /\ i \in 1 .. Len(text) - (e + 2) + 1
        BY <1>0, <2>5
      <4>2. QED  BY <1>0, <2>5, <4>1
    <3>3. QED  BY <3>1, <3>2
  <2> HIDE DEF pre, post
  <2>8. \A i \in DOMAIN pre : pre[i] \notin Marks
    <3>1. TAKE i \in DOMAIN pre
    <3>2. i \in DOMAIN text /\ i < b /\ i < e /\ pre[i] = text[i]
      BY <1>0, <2>5, <2>6
    <3>3. ~(b <= i) /\ ~(e <= i)
      BY <1>0, <2>5, <3>2
    <3>4. QED  BY <2>2, <2>3, <3>2, <3>3 DEF Marks
  <2> DEFINE c == e - b + 2
  <2>9. c \in Nat /\ c > 2 /\ (b - 1) + 1 = b /\ (b - 1) + c - 1 = e /\ (b - 1) + c = e + 1
    BY <2>5
  <2> HIDE DEF c
  <2>10. text[(b - 1) + 1] \in Marks /\ text[(b - 1) + c - 1] = End
    BY <2>2, <2>3, <2>9 DEF Marks
  <2>11. (b - 1) + c + Len(post) = Len(text) /\ b - 1 \in Nat /\ b - 1 <= Len(pre)
    <3>1. Len(post) = Len(text) - e - 1 /\ Len(pre) = b - 1
      BY <2>6, <2>7
    <3>2. QED  BY <1>0, <2>5, <2>9, <3>1
  <2>12. \A i \in 1 .. Len(post) : post[i] = text[(b - 1) + c + i]
    BY <2>7, <2>9
  <2>13. \A i \in (b - 1) + 1 .. Len(pre) : pre[i] = NewLine
    BY <2>5, <2>6
  <2>14. Kept(text, pre, post, b - 1, c)
    BY <2>6, <2>7, <2>8, <2>9, <2>10, <2>11, <2>12, <2>13 DEF Kept
  <2>15. QED  BY <2>4, <2>14
<1>3. QED  BY <1>1, <1>2

\* An export keeps what the user may count on, outside of the markers.
LEMMA UpdatedKeeps ==
  ASSUME NEW text \in Seq(Element), BeginFirst(text), CanUpdate(text), NEW s, SectionOK(s),
         NEW own \in Seq(Own)
  PROVE  LET u == Updated(text, s) IN
         /\ u \in Seq(Element) /\ BeginFirst(u)
         /\ Held(text, own) /\ Outside(text, own) => Held(u, own) /\ Outside(u, own)
<1>1. PICK pre, post, a, c : /\ Kept(text, pre, post, a, c)
                             /\ Updated(text, s) = pre \o s \o post
  BY UpdatedParts
<1> DEFINE u == pre \o s \o post
           p == Len(pre)
           n == Len(s)
           q == Len(post)
           d == p - a + n
<1>2. pre \in Seq(Element) /\ post \in Seq(Element)
  BY <1>1 DEF Kept
<1>3. s \in Seq(Theirs) /\ s # <<>> /\ s[1] = Begin /\ s[n] = NewLine
  BY DEF SectionOK
<1>4. s \in Seq(Element) /\ \A i \in 1 .. n : s[i] \notin Own
  <2>1. \A i \in 1 .. n : s[i] \in Element /\ s[i] \notin Own
    BY <1>3, Elements
  <2>2. QED  BY <1>3, <2>1
<1>5. /\ u \in Seq(Element) /\ Len(u) = p + n + q
      /\ \A i \in 1 .. p : u[i] = pre[i]
      /\ \A i \in 1 .. n : u[p + i] = s[i]
      /\ \A i \in 1 .. q : u[p + n + i] = post[i]
      /\ \A k \in DOMAIN u : k \in 1 .. p \/ k - p \in 1 .. n \/ k - p - n \in 1 .. q
  <2>1. u \in Seq(Element) /\ Joined(u, pre, s, post)
    BY <1>2, <1>4, Parts
  <2> HIDE DEF u
  <2>2. QED  BY <2>1 DEF Joined
<1>6. /\ a \in Nat /\ c \in Nat /\ a <= p /\ a + c + q = Len(text)
      /\ \A i \in 1 .. a : pre[i] = text[i]
      /\ \A i \in a + 1 .. p : pre[i] = NewLine
      /\ \A i \in 1 .. p : pre[i] \notin Marks
      /\ \A i \in 1 .. q : post[i] = text[a + c + i]
      /\ \/ c = 0 /\ q = 0
         \/ c > 2 /\ text[a + 1] \in Marks /\ text[a + c - 1] = End
  BY <1>1, <1>2 DEF Kept
<1>7. p \in Nat /\ n \in Nat /\ n >= 1 /\ q \in Nat /\ Len(text) \in Nat
  BY <1>2, <1>3
<1>8. DOMAIN u = 1 .. p + n + q /\ DOMAIN text = 1 .. Len(text)
  BY <1>5, <1>7
<1> HIDE DEF u, p, n, q
<1>9. BeginFirst(u)
  <2>1. p + 1 \in DOMAIN u /\ 1 \in 1 .. n
    BY <1>7, <1>8
  <2>2. u[p + 1] = Begin
    BY <1>3, <1>5, <2>1
  <2>3. QED  BY <2>1, <2>2 DEF BeginFirst, Places
<1>10. ASSUME Held(text, own), Outside(text, own) PROVE Held(u, own) /\ Outside(u, own)
  <2>1. /\ d \in Nat /\ d = p - a + n /\ a \in Nat /\ c \in Nat /\ p \in Nat /\ n \in Nat
        /\ q \in Nat /\ Len(text) \in Nat /\ a <= p /\ a + c + q = Len(text)
    BY <1>6, <1>7
  <2>0. NewLine \notin Marks
    BY Elements
  <2> HIDE DEF d
  <2>2. \A i \in a + 1 .. a + c : ~Contains(own, text[i])
    <3>1. SUFFICES ASSUME NEW i \in a + 1 .. a + c, Contains(own, text[i]) PROVE FALSE
      OBVIOUS
    <3>2. i \in DOMAIN text /\ c > 2 /\ a + 1 \in DOMAIN text /\ a + c - 1 \in DOMAIN text
          /\ ~(i < a + 1) /\ ~((a + c - 1) + 1 < i)
      BY <1>6, <1>7, <1>8, <3>1
    <3>3. Ahead(text, i) \/ Behind(text, i)
      BY <1>10, <3>1, <3>2 DEF Outside
    <3>4. QED  BY SMTT(20), <1>6, <3>2, <3>3 DEF Ahead, Behind
  <2>3. \A i \in a + 1 .. a + d : u[i] \notin Own
    <3>1. TAKE i \in a + 1 .. a + d
    <3>2. CASE i <= p
      BY <1>5, <1>6, <1>7, <3>2, Elements
    <3>3. CASE i > p
      <4>1. i - p \in 1 .. n /\ p + (i - p) = i
        BY <1>6, <1>7, <2>1, <3>3
      <4>2. QED  BY <1>4, <1>5, <4>1
    <3>4. QED  BY <1>6, <1>7, <3>2, <3>3
  <2>4. Spliced(text, u, own, a, c, d)
    <3>1. a + c <= Len(text) /\ Len(u) = Len(text) - c + d
      <4>1. Len(u) = p + n + q
        BY <1>5
      <4>2. QED  BY <2>1, <4>1
    <3>2. \A i \in 1 .. a : u[i] = text[i]
      BY <1>5, <1>6, <1>7
    <3>3. ASSUME NEW i \in a + c + 1 .. Len(text) PROVE u[i - c + d] = text[i]
      <4>1. i - a - c \in 1 .. q /\ p + n + (i - a - c) = i - c + d /\ a + c + (i - a - c) = i
        BY <2>1
      <4>2. QED  BY <1>5, <1>6, <4>1
    <3>4. QED  BY <2>2, <2>3, <3>1, <3>2, <3>3 DEF Spliced
  <2>5. Held(u, own)
    BY <1>5, <1>6, <1>10, <2>1, <2>4, SplicedKeeps
  <2>6. ASSUME NEW m \in DOMAIN u, u[m] \in Marks
        PROVE  \/ m > p /\ m + 1 <= p + n
               \/ m - d + c \in DOMAIN text /\ text[m - d + c] = u[m]
    <3>1. CASE m \in 1 .. p
      BY <1>5, <1>6, <2>6, <3>1
    <3>2. CASE m - p \in 1 .. n
      <4>1. p + (m - p) = m
        BY <1>8, <2>1
      <4>2. u[m] = s[m - p]
        BY <1>5, <3>2, <4>1
      <4>3. m - p # n
        <5>1. s[m - p] # s[n]
          BY <1>3, <2>0, <2>6, <4>2
        <5>2. QED  BY <5>1
      <4>4. QED  BY <1>7, <1>8, <3>2, <4>3
    <3>3. CASE m - p - n \in 1 .. q
      <4>1. p + n + (m - p - n) = m /\ a + c + (m - p - n) = m - d + c /\ m - d + c \in DOMAIN text
        <5>1. m \in Nat
          BY <1>8, <2>1
        <5>2. p + n + (m - p - n) = m /\ a + c + (m - p - n) = m - d + c
          BY <2>1, <5>1
        <5>3. a + c + (m - p - n) \in 1 .. Len(text)
          BY <2>1, <3>3, <5>1
        <5>4. QED  BY <1>8, <5>2, <5>3
      <4>2. QED  BY <1>5, <1>6, <3>3, <4>1
    <3>4. QED  BY <1>5, <3>1, <3>2, <3>3
  <2>7. ASSUME NEW m \in DOMAIN u, u[m] \in Marks PROVE m > p
    <3>1. ~(m \in 1 .. p)
      BY <1>5, <1>6, <2>7
    <3>2. QED  BY <1>7, <1>8, <3>1
  <2>8. ASSUME NEW k \in DOMAIN u, Contains(own, u[k])
        PROVE  Ahead(u, k) \/ Behind(u, k)
    <3>0. u[k] \in Own
      BY <2>8 DEF Contains
    <3>1. CASE k <= p
      BY <1>7, <1>8, <2>7, <3>1 DEF Ahead
    <3>2. CASE k > p
      <4>1. k - p - n \in 1 .. q
        <5>1. ~(k - p \in 1 .. n)
          <6>1. SUFFICES ASSUME k - p \in 1 .. n PROVE FALSE
            OBVIOUS
          <6>2. p + (k - p) = k
            BY <1>7, <1>8
          <6>3. QED  BY <1>4, <1>5, <3>0, <6>1, <6>2
        <5>2. QED  BY <1>5, <1>7, <1>8, <3>2, <5>1
      <4> DEFINE i == k - d + c
      <4>2. p + n + (k - p - n) = k /\ a + c + (k - p - n) = i /\ i \in DOMAIN text /\ i > a + c
        <5>1. k \in Nat
          BY <1>8, <2>1
        <5>2. p + n + (k - p - n) = k /\ a + c + (k - p - n) = i
          BY <2>1, <5>1
        <5>3. a + c + (k - p - n) \in 1 .. Len(text) /\ a + c + (k - p - n) > a + c
          BY <2>1, <4>1, <5>1
        <5>4. QED  BY <1>8, <5>2, <5>3
      <4>3. text[i] = u[k]
        BY <1>5, <1>6, <4>1, <4>2
      <4>4. q # 0 /\ c > 2 /\ a + 1 \in DOMAIN text /\ ~(i < a + 1) /\ text[a + 1] \in Marks
        <5>1. q # 0
          BY <2>1, <4>1
        <5>2. c > 2 /\ text[a + 1] \in Marks
          BY <1>6, <5>1
        <5>3. QED  BY SMTT(20), <1>8, <2>1, <4>2, <5>1, <5>2
      <4>5. Behind(text, i)
        BY <1>10, <2>8, <4>2, <4>3, <4>4 DEF Outside, Ahead
      <4>6. ASSUME NEW m \in DOMAIN u, u[m] \in Marks
            PROVE  m < k /\ (u[m] = End => m + 1 < k)
        <5>1. CASE m > p /\ m + 1 <= p + n
          BY <1>7, <1>8, <4>1, <5>1
        <5>2. CASE m - d + c \in DOMAIN text /\ text[m - d + c] = u[m]
          <6>1. m - d + c < i /\ (u[m] = End => (m - d + c) + 1 < i)
            BY <4>5, <4>6, <5>2 DEF Behind
          <6>2. QED  BY <1>6, <1>8, <2>1, <6>1
        <5>3. QED  BY <2>6, <4>6, <5>1, <5>2
      <4>7. QED  BY <4>6 DEF Behind, Marks
    <3>3. QED  BY <1>7, <1>8, <3>1, <3>2
  <2>9. QED  BY <2>5, <2>8 DEF Outside
<1>11. QED  BY <1>1, <1>5, <1>9, <1>10 DEF u

\* What is in the user's text after one more piece of it.
LEMMA ContainsMore ==
  ASSUME NEW x \in Seq(Own), NEW y \in Seq(Own)
  PROVE  /\ x \o y \in Seq(Own) /\ Len(x \o y) = Len(x) + Len(y)
         /\ \A l : Contains(x \o y, l) <=> Contains(x, l) \/ Contains(y, l)
         /\ \A i \in 1 .. Len(x) : (x \o y)[i] = x[i]
         /\ \A i \in 1 .. Len(y) : (x \o y)[Len(x) + i] = y[i]
<1> DEFINE z == x \o y
<1>1. /\ z \in Seq(Own) /\ Len(z) = Len(x) + Len(y) /\ Len(x) \in Nat /\ Len(y) \in Nat
      /\ \A i \in 1 .. Len(x) : z[i] = x[i]
      /\ \A i \in 1 .. Len(y) : z[Len(x) + i] = y[i]
  OBVIOUS
<1> HIDE DEF z
<1>2. \A i \in 1 .. Len(z) : i \in 1 .. Len(x) \/ (i - Len(x) \in 1 .. Len(y) /\ Len(x) + (i - Len(x)) = i)
  BY <1>1
<1>3. (\A i \in 1 .. Len(x) : i \in 1 .. Len(z)) /\ \A i \in 1 .. Len(y) : Len(x) + i \in 1 .. Len(z)
  BY <1>1
<1>4. ASSUME NEW l PROVE Contains(z, l) <=> Contains(x, l) \/ Contains(y, l)
  <2>1. ASSUME NEW i \in 1 .. Len(z), z[i] = l PROVE Contains(x, l) \/ Contains(y, l)
    BY <1>1, <1>2, <2>1 DEF Contains
  <2>2. ASSUME NEW i \in 1 .. Len(x), x[i] = l PROVE Contains(z, l)
    BY <1>1, <1>3, <2>2 DEF Contains
  <2>3. ASSUME NEW i \in 1 .. Len(y), y[i] = l PROVE Contains(z, l)
    BY <1>1, <1>3, <2>3 DEF Contains
  <2>4. QED  BY <2>1, <2>2, <2>3 DEF Contains
<1>5. QED  BY <1>1, <1>4 DEF z

\* A line above everything else, markers that it quotes included.
Quotes   == {<<>>, <<Begin>>, <<Begin, End>>}
Line1(q) == <<Above>> \o q \o <<NewLine>>

\* Only its start is the user's, and it starts and ends without a marker.
LEMMA FirstLine ==
  ASSUME NEW q \in Quotes
  PROVE  LET f == Line1(q) IN
         /\ f \in Seq(Element) /\ Len(f) \in Nat /\ Len(f) >= 2 /\ f[1] = Above
         /\ \A i \in 2 .. Len(f) : f[i] \notin Own
         /\ \A i \in 1 .. Len(f) : f[i] \in Marks => q # <<>> /\ 1 < i /\ i + 1 <= Len(f)
         /\ \A i \in 1 .. Len(f) : f[i] = End => f[2] = Begin
<1>0. /\ Begin \in Element /\ End \in Element /\ NewLine \in Element /\ Above \in Element
      /\ Above \in Own /\ Above \notin Marks /\ NewLine \notin Own /\ NewLine \notin Marks
      /\ Begin \notin Own /\ End \notin Own /\ NewLine # End /\ Above # End
  BY Elements DEF Marks
<1> DEFINE f == Line1(q)
<1>1. /\ f \in Seq(Element) /\ Len(f) = Len(q) + 2 /\ Len(q) \in Nat
      /\ f[1] = Above /\ f[Len(q) + 2] = NewLine
      /\ \A i \in 1 .. Len(q) : f[1 + i] = q[i]
  <2> DEFINE x == <<Above>>
             y == <<NewLine>>
  <2>1. x \in Seq(Element) /\ Len(x) = 1 /\ x[1] = Above /\ y \in Seq(Element) /\ Len(y) = 1 /\ y[1] = NewLine
    BY <1>0
  <2>2. q \in Seq(Element) /\ Len(q) \in Nat
    <3>1. <<>> \in Seq(Element) /\ <<Begin>> \in Seq(Element) /\ <<Begin, End>> \in Seq(Element)
      BY <1>0
    <3>2. q = <<>> \/ q = <<Begin>> \/ q = <<Begin, End>>
      BY DEF Quotes
    <3>3. q \in Seq(Element)
      BY <3>1, <3>2
    <3>4. QED  BY <3>3
  <2>3. f = x \o q \o y
    BY DEF Line1
  <2> HIDE DEF x, y, f
  <2>4. f \in Seq(Element) /\ Joined(f, x, q, y)
    BY <2>1, <2>2, <2>3, Parts
  <2>5. /\ Len(f) = 1 + Len(q) + 1
        /\ \A i \in 1 .. 1 : f[i] = x[i]
        /\ \A i \in 1 .. Len(q) : f[1 + i] = q[i]
        /\ \A i \in 1 .. 1 : f[1 + Len(q) + i] = y[i]
    BY <2>1, <2>4 DEF Joined
  <2>6. 1 \in 1 .. 1 /\ 1 + Len(q) + 1 = Len(q) + 2
    BY <2>2
  <2>7. f[1] = Above /\ f[Len(q) + 2] = NewLine
    <3>1. f[1] = x[1] /\ f[1 + Len(q) + 1] = y[1]
      BY <2>5, <2>6
    <3>2. QED  BY <2>1, <2>6, <3>1
  <2>8. QED  BY <2>2, <2>4, <2>5, <2>6, <2>7
<1> HIDE DEF f
<1>2. CASE q = <<>>
  <2>1. Len(f) = 2 /\ f[2] = NewLine
    BY <1>1, <1>2
  <2>2. \A i \in 1 .. Len(f) : i = 1 \/ i = 2
    BY <2>1
  <2>3. QED  BY <1>0, <1>1, <2>1, <2>2 DEF f
<1>3. CASE q = <<Begin>>
  <2>1. Len(q) = 1 /\ q[1] = Begin /\ q # <<>>
    BY <1>3
  <2>2. Len(f) = 3 /\ f[2] = Begin /\ f[3] = NewLine
    BY <1>1, <2>1
  <2>3. \A i \in 1 .. Len(f) : i = 1 \/ i = 2 \/ i = 3
    BY <2>2
  <2>4. QED  BY <1>0, <1>1, <2>1, <2>2, <2>3 DEF f
<1>4. CASE q = <<Begin, End>>
  <2>1. Len(q) = 2 /\ q[1] = Begin /\ q[2] = End /\ q # <<>>
    BY <1>4
  <2>2. Len(f) = 4 /\ f[2] = Begin /\ f[3] = End /\ f[4] = NewLine
    BY <1>1, <2>1
  <2>3. \A i \in 1 .. Len(f) : i = 1 \/ i = 2 \/ i = 3 \/ i = 4
    BY <2>2
  <2>4. QED  BY <1>0, <1>1, <2>1, <2>2, <2>3 DEF f
<1>5. QED  BY <1>2, <1>3, <1>4 DEF Quotes

\* A line of the user above everything else is one that is held, ...
LEMMA AboveKeeps ==
  ASSUME NEW t \in Seq(Element), BeginFirst(t), NEW own \in Seq(Own), ~Contains(own, Above),
         NEW q \in Quotes,
         q # <<>> => \A i, m \in DOMAIN t : t[i] \in Own /\ t[m] \in Marks => m < i
  PROVE  LET u == Line1(q) \o t IN
         /\ u \in Seq(Element) /\ BeginFirst(u)
         /\ Held(t, own) /\ Outside(t, own) => Held(u, <<Above>> \o own) /\ Outside(u, <<Above>> \o own)
<1> DEFINE f == Line1(q)
           h == Len(f)
           u == f \o t
           mine2 == <<Above>> \o own
<1>1. /\ f \in Seq(Element) /\ h \in Nat /\ h >= 2 /\ f[1] = Above
      /\ \A i \in 2 .. h : f[i] \notin Own
      /\ \A i \in 1 .. h : f[i] \in Marks => q # <<>> /\ 1 < i /\ i + 1 <= h
      /\ \A i \in 1 .. h : f[i] = End => f[2] = Begin
  BY FirstLine
<1> HIDE DEF f
<1>2. /\ u \in Seq(Element) /\ Len(u) = h + Len(t) /\ Len(t) \in Nat
      /\ \A i \in 1 .. h : u[i] = f[i]
      /\ \A i \in 1 .. Len(t) : u[h + i] = t[i]
  BY <1>1
<1> HIDE DEF h
<1>3. DOMAIN t = 1 .. Len(t) /\ DOMAIN u = 1 .. h + Len(t)
  BY <1>1, <1>2
<1>4. \A l : Contains(mine2, l) <=> l = Above \/ Contains(own, l)
  <2>1. Above \in Own
    BY Elements
  <2>2. <<Above>> \in Seq(Own) /\ \A l : Contains(<<Above>>, l) <=> l = Above
    BY <2>1 DEF Contains
  <2>3. QED  BY <2>2, ContainsMore
<1> HIDE DEF u, mine2
<1>5. \A k \in DOMAIN u : \/ k \in 1 .. h /\ u[k] = f[k]
                          \/ k - h \in DOMAIN t /\ u[k] = t[k - h] /\ k > h
  <2>1. TAKE k \in DOMAIN u
  <2>2. CASE k > h
    <3>1. k - h \in 1 .. Len(t) /\ h + (k - h) = k
      BY <1>1, <1>2, <1>3, <2>2
    <3>2. QED  BY <1>2, <1>3, <2>2, <3>1
  <2>3. CASE ~(k > h)
    <3>1. k \in 1 .. h
      BY <1>1, <1>2, <1>3, <2>3
    <3>2. QED  BY <1>2, <3>1
  <2>4. QED  BY <2>2, <2>3
<1>6. \A i \in DOMAIN t : h + i \in DOMAIN u /\ u[h + i] = t[i]
  BY <1>1, <1>2, <1>3
<1>7. 1 \in DOMAIN u /\ u[1] = Above /\ 2 \in DOMAIN u /\ u[2] = f[2]
  BY <1>1, <1>2, <1>3
<1>8. BeginFirst(u)
  <2>1. SUFFICES ASSUME NEW k \in DOMAIN u, u[k] = End PROVE \E j \in DOMAIN u : u[j] = Begin
    BY DEF BeginFirst, Places
  <2>2. CASE k \in 1 .. h /\ u[k] = f[k]
    BY <1>1, <1>7, <2>1, <2>2
  <2>3. CASE k - h \in DOMAIN t /\ u[k] = t[k - h]
    <3>1. PICK j \in DOMAIN t : t[j] = Begin
      BY <2>1, <2>3 DEF BeginFirst, Places
    <3>2. QED  BY <1>6, <3>1
  <2>4. QED  BY <1>5, <2>2, <2>3
<1>9. ASSUME Held(t, own), Outside(t, own) PROVE Held(u, mine2) /\ Outside(u, mine2)
  <2>0. Above \in Own /\ Above # Initial /\ Above # Below /\ Initial \in Own /\ Own = {Above, Initial, Below}
        /\ Begin \in Marks /\ End \in Marks
    BY Elements DEF Marks
  <2>1. \A i \in DOMAIN t : t[i] # Above
    BY <1>9, <2>0 DEF Held
  <2>2. \A k \in DOMAIN u : u[k] \in Own => k = 1 \/ (k - h \in DOMAIN t /\ u[k] = t[k - h] /\ k > h)
    <3>1. ASSUME NEW k \in 1 .. h, f[k] \in Own PROVE k = 1
      <4>1. k \notin 2 .. h
        BY <1>1, <3>1
      <4>2. QED  BY <1>1, <4>1
    <3>2. QED  BY <1>5, <3>1
  <2>3. ASSUME NEW l \in Own, Contains(mine2, l) PROVE \E k \in DOMAIN u : u[k] = l
    <3>1. CASE l = Above
      BY <1>7, <3>1
    <3>2. CASE Contains(own, l)
      <4>1. \E i \in DOMAIN t : t[i] = l
        BY <1>9, <3>2 DEF Held
      <4>2. QED  BY <1>6, <4>1
    <3>3. QED  BY <1>4, <2>3, <3>1, <3>2
  <2>4. ASSUME NEW k \in DOMAIN u, u[k] \in Own
        PROVE  Contains(mine2, IF u[k] = Initial THEN Below ELSE u[k])
    <3>1. CASE k = 1
      BY <1>4, <1>7, <2>0, <3>1
    <3>2. CASE k - h \in DOMAIN t /\ u[k] = t[k - h]
      <4>1. Contains(own, IF u[k] = Initial THEN Below ELSE u[k])
        BY <1>9, <2>4, <3>2 DEF Held
      <4>2. QED  BY <1>4, <4>1
    <3>3. QED  BY <2>2, <2>4, <3>1, <3>2
  <2>5. ASSUME NEW i \in DOMAIN u, NEW j \in DOMAIN u, u[i] \in Own, u[i] = u[j] PROVE i = j
    <3>1. CASE i = 1
      BY <1>7, <2>1, <2>2, <2>5, <3>1
    <3>2. CASE j = 1
      BY <1>7, <2>1, <2>2, <2>5, <3>2
    <3>3. CASE i # 1 /\ j # 1
      <4>1. i - h = j - h
        BY <1>9, <2>2, <2>5, <3>3 DEF Held
      <4>2. i \in Int /\ j \in Int /\ h \in Int
        BY <1>1, <1>3
      <4>3. QED  BY <4>1, <4>2
    <3>4. QED  BY <3>1, <3>2, <3>3
  <2>6. ASSUME NEW i \in DOMAIN u, NEW j \in DOMAIN u, u[i] \in Own, u[j] \in Own, Rank(u[i]) < Rank(u[j])
        PROVE  i < j
    <3>0. i \in Nat /\ j \in Nat /\ i >= 1 /\ j >= 1 /\ h \in Nat
      BY <1>1, <1>3
    <3>1. Rank(Above) = 1 /\ \A l : Rank(l) >= 1 /\ Rank(l) \in Nat
      BY DEF Rank
    <3>2. j # 1
      BY <1>7, <2>6, <3>1
    <3>3. CASE i = 1
      BY <3>0, <3>2, <3>3
    <3>4. CASE i # 1
      <4>1. i - h \in DOMAIN t /\ j - h \in DOMAIN t /\ u[i] = t[i - h] /\ u[j] = t[j - h]
        BY <2>2, <2>6, <3>2, <3>4
      <4>2. i - h < j - h
        BY <1>9, <2>6, <4>1 DEF Held
      <4>3. QED  BY <3>0, <4>2
    <3>5. QED  BY <3>3, <3>4
  <2>7. ASSUME NEW k \in DOMAIN u, Contains(mine2, u[k])
        PROVE  Ahead(u, k) \/ Behind(u, k)
    <3>0. k \in Nat /\ h \in Nat /\ u[k] \in Own
      <4>1. u[k] = Above \/ Contains(own, u[k])
        BY <1>4, <2>7
      <4>2. u[k] \in Own
        BY <2>0, <4>1 DEF Contains
      <4>3. QED  BY <1>1, <1>3, <4>2
    <3>1. CASE k = 1
      <4>1. ASSUME NEW m \in DOMAIN u, u[m] \in Marks PROVE 1 < m
        <5>1. m # 1
          BY <1>7, <4>1, Elements
        <5>2. QED  BY <1>3, <5>1
      <4>2. QED  BY <3>1, <4>1 DEF Ahead
    <3>2. CASE k # 1
      <4>1. k - h \in DOMAIN t /\ u[k] = t[k - h] /\ k > h /\ Contains(own, t[k - h])
        <5>1. k - h \in DOMAIN t /\ u[k] = t[k - h] /\ k > h
          BY <2>2, <3>0, <3>2
        <5>2. u[k] # Above
          BY <2>1, <5>1
        <5>3. QED  BY <1>4, <2>7, <5>1, <5>2
      <4>2. CASE Behind(t, k - h)
        <5>1. ASSUME NEW m \in DOMAIN u, u[m] \in Marks
              PROVE  m < k /\ (u[m] = End => m + 1 < k)
          <6>0. m \in Nat
            BY <1>3
          <6>1. CASE m \in 1 .. h /\ u[m] = f[m]
            <7>1. m + 1 <= h
              BY <1>1, <5>1, <6>1
            <7>2. QED  BY <3>0, <4>1, <6>0, <7>1
          <6>2. CASE m - h \in DOMAIN t /\ u[m] = t[m - h]
            <7>1. m - h < k - h /\ (u[m] = End => (m - h) + 1 < k - h)
              BY <4>2, <5>1, <6>2 DEF Behind
            <7>2. QED  BY <3>0, <6>0, <7>1
          <6>3. QED  BY <1>5, <6>1, <6>2
        <5>2. QED  BY <2>0, <5>1 DEF Behind
      <4>3. CASE Ahead(t, k - h) /\ q = <<>>
        <5>1. ASSUME NEW m \in DOMAIN u, u[m] \in Marks PROVE k < m
          <6>1. m - h \in DOMAIN t /\ u[m] = t[m - h]
            BY <1>1, <1>5, <4>3, <5>1
          <6>2. k - h < m - h
            BY <4>3, <5>1, <6>1 DEF Ahead
          <6>3. QED  BY <1>3, <3>0, <6>2
        <5>2. QED  BY <5>1 DEF Ahead
      <4>4. CASE Ahead(t, k - h) /\ q # <<>>
        <5>1. \A m \in DOMAIN t : t[m] \notin Marks
          <6>1. SUFFICES ASSUME NEW m \in DOMAIN t, t[m] \in Marks PROVE FALSE
            OBVIOUS
          <6>2. k - h < m
            BY <4>4, <6>1 DEF Ahead
          <6>3. m < k - h
            BY <3>0, <4>1, <4>4, <6>1
          <6>4. QED  BY <1>3, <3>0, <6>2, <6>3
        <5>2. Behind(t, k - h)
          BY <2>0, <5>1 DEF Behind
        <5>3. QED  BY <4>2, <5>2
      <4>5. QED  BY <1>9, <4>1, <4>2, <4>3, <4>4 DEF Outside
    <3>3. QED  BY <3>1, <3>2
  <2>8. Held(u, mine2)
    BY <2>3, <2>4, <2>5, <2>6 DEF Held
  <2>9. QED  BY <2>7, <2>8 DEF Outside
<1>10. QED  BY <1>2, <1>8, <1>9 DEF u, mine2, f

\* ... and so is text below everything else, but for a first character right
\* behind an end marker.
Counted(x) == IF x # <<>> /\ x[Len(x)] = End THEN <<Below>> ELSE <<Initial, Below>>

LEMMA BelowKeeps ==
  ASSUME NEW t \in Seq(Element), BeginFirst(t), NEW own \in Seq(Own), ~Contains(own, Below),
         NEW x \in {t, Ended(t)}
  PROVE  LET u == x \o <<Initial, Below, NewLine>>
             mine2 == own \o Counted(x) IN
         /\ u \in Seq(Element) /\ BeginFirst(u)
         /\ Held(t, own) /\ Outside(t, own) => Held(u, mine2) /\ Outside(u, mine2)
<1> DEFINE n == Len(x)
           u == x \o <<Initial, Below, NewLine>>
           mine2 == own \o Counted(x)
<1>0. /\ Initial \in Own /\ Below \in Own /\ Initial # Below /\ Own = {Above, Initial, Below}
      /\ Above # Initial /\ Above # Below /\ Begin # End /\ NewLine \notin Own /\ NewLine \notin Marks
      /\ Marks = {Begin, End} /\ Own \subseteq Element /\ NewLine \in Element /\ \A l \in Own : l \notin Marks
  BY Elements DEF Marks
<1>1. /\ x \in Seq(Element) /\ Len(t) \in Nat /\ DOMAIN t = 1 .. Len(t) /\ Len(t) <= n /\ n \in Nat
      /\ \A i \in 1 .. Len(t) : x[i] = t[i]
      /\ \A i \in Len(t) + 1 .. n : x[i] = NewLine
  <2>1. x = t \/ x = Append(t, NewLine)
    BY DEF Ended
  <2>2. CASE x = t
    BY <2>2
  <2>3. CASE x = Append(t, NewLine)
    <3>1. x \in Seq(Element) /\ n = Len(t) + 1 /\ Len(t) \in Nat /\ DOMAIN t = 1 .. Len(t)
          /\ (\A i \in 1 .. Len(t) : x[i] = t[i]) /\ x[Len(t) + 1] = NewLine
      BY <1>0, <2>3
    <3> HIDE DEF n
    <3>2. \A i \in Len(t) + 1 .. n : i = Len(t) + 1
      BY <3>1
    <3>3. Len(t) <= n /\ n \in Nat
      BY <3>1
    <3>4. QED  BY <3>1, <3>2, <3>3
  <2>4. QED  BY <2>1, <2>2, <2>3
<1> HIDE DEF n
<1>2. /\ u \in Seq(Element) /\ Len(u) = n + 3
      /\ u[n + 1] = Initial /\ u[n + 2] = Below /\ u[n + 3] = NewLine
      /\ \A i \in 1 .. n : u[i] = x[i]
  BY <1>0, <1>1 DEF n
<1> HIDE DEF u
<1>3. DOMAIN u = 1 .. n + 3
  BY <1>1, <1>2
<1>4. \A i \in DOMAIN t : i \in DOMAIN u /\ u[i] = t[i] /\ i <= n
  <2>1. TAKE i \in DOMAIN t
  <2>2. i \in 1 .. n /\ i \in 1 .. Len(t) /\ i \in DOMAIN u
    BY <1>1, <1>3
  <2>3. x[i] = t[i] /\ u[i] = x[i]
    BY <1>1, <1>2, <2>2
  <2>4. QED  BY <2>2, <2>3
<1>5. \A k \in DOMAIN u : (k \in DOMAIN t /\ u[k] = t[k]) \/ u[k] = NewLine \/ k = n + 1 \/ k = n + 2
  <2>1. TAKE k \in DOMAIN u
  <2>2. k \in 1 .. Len(t) \/ (k \in Len(t) + 1 .. n /\ k \in 1 .. n) \/ k = n + 1 \/ k = n + 2 \/ k = n + 3
    <3>1. Len(t) \in Nat /\ n \in Nat /\ Len(t) <= n /\ k \in 1 .. n + 3
      BY <1>1, <1>3
    <3>2. QED  BY <3>1
  <2>3. QED  BY <1>1, <1>2, <1>4, <2>2
<1>6. \A k \in DOMAIN u : u[k] \in Own => (k \in DOMAIN t /\ u[k] = t[k]) \/ k = n + 1 \/ k = n + 2
  BY <1>0, <1>5
<1>7. \A m \in DOMAIN u : u[m] \in Marks => m \in DOMAIN t /\ u[m] = t[m] /\ m <= n
  BY <1>0, <1>2, <1>4, <1>5
<1>8. n + 1 \in DOMAIN u /\ n + 2 \in DOMAIN u
  BY <1>1, <1>3
<1>9. BeginFirst(u)
  <2>1. SUFFICES ASSUME NEW k \in DOMAIN u, u[k] = End PROVE \E j \in DOMAIN u : u[j] = Begin
    BY DEF BeginFirst, Places
  <2>2. k \in DOMAIN t /\ t[k] = End
    BY <1>0, <1>7, <2>1
  <2>3. PICK j \in DOMAIN t : t[j] = Begin
    BY <2>2 DEF BeginFirst, Places
  <2>4. QED  BY <1>4, <2>3
<1>10. /\ \A l : Contains(own, l) => Contains(mine2, l)
       /\ Contains(mine2, Below)
       /\ \A l : Contains(mine2, l) => Contains(own, l) \/ l = Below \/ (l = Initial /\ ~(x # <<>> /\ x[Len(x)] = End))
  <2>1. CASE x # <<>> /\ x[Len(x)] = End
    <3>1. Counted(x) = <<Below>> /\ <<Below>> \in Seq(Own) /\ \A l : Contains(<<Below>>, l) <=> l = Below
      BY <1>0, <2>1 DEF Counted, Contains
    <3>2. \A l : Contains(own \o <<Below>>, l) <=> Contains(own, l) \/ Contains(<<Below>>, l)
      BY <3>1, ContainsMore
    <3>3. QED  BY <3>1, <3>2
  <2>2. CASE ~(x # <<>> /\ x[Len(x)] = End)
    <3>1. Counted(x) = <<Initial, Below>> /\ <<Initial, Below>> \in Seq(Own)
      BY <1>0, <2>2 DEF Counted
    <3>2. \A l : Contains(<<Initial, Below>>, l) <=> l = Initial \/ l = Below
      <4>1. /\ Len(<<Initial, Below>>) = 2 /\ <<Initial, Below>>[1] = Initial /\ <<Initial, Below>>[2] = Below
            /\ 1 .. 2 = {1, 2}
        OBVIOUS
      <4>2. QED  BY <4>1 DEF Contains
    <3>3. \A l : Contains(own \o <<Initial, Below>>, l) <=> Contains(own, l) \/ Contains(<<Initial, Below>>, l)
      BY <3>1, ContainsMore
    <3>4. QED  BY <2>2, <3>1, <3>2, <3>3
  <2>3. QED  BY <2>1, <2>2
<1> HIDE DEF mine2
<1>11. ASSUME Held(t, own), Outside(t, own) PROVE Held(u, mine2) /\ Outside(u, mine2)
  <2>1. \A i \in DOMAIN t : t[i] # Below /\ t[i] # Initial
    BY <1>0, <1>11 DEF Held
  <2>2. ASSUME NEW l \in Own, Contains(mine2, l) PROVE \E k \in DOMAIN u : u[k] = l
    <3>1. CASE Contains(own, l)
      <4>1. \E i \in DOMAIN t : t[i] = l
        BY <1>11, <3>1 DEF Held
      <4>2. QED  BY <1>4, <4>1
    <3>2. CASE l = Below \/ l = Initial
      BY <1>2, <1>8, <3>2
    <3>3. QED  BY <1>10, <2>2, <3>1, <3>2
  <2>3. ASSUME NEW k \in DOMAIN u, u[k] \in Own
        PROVE  Contains(mine2, IF u[k] = Initial THEN Below ELSE u[k])
    <3>1. CASE k = n + 1 \/ k = n + 2
      BY <1>0, <1>2, <1>10, <3>1
    <3>2. CASE k \in DOMAIN t /\ u[k] = t[k]
      <4>1. Contains(own, IF u[k] = Initial THEN Below ELSE u[k])
        BY <1>11, <2>3, <3>2 DEF Held
      <4>2. QED  BY <1>10, <4>1
    <3>3. QED  BY <1>6, <2>3, <3>1, <3>2
  <2>4. ASSUME NEW i \in DOMAIN u, NEW j \in DOMAIN u, u[i] \in Own, u[i] = u[j] PROVE i = j
    <3>1. CASE i \in DOMAIN t /\ u[i] = t[i] /\ j \in DOMAIN t /\ u[j] = t[j]
      BY <1>11, <2>4, <3>1 DEF Held
    <3>2. CASE i = n + 1
      BY <1>0, <1>2, <1>6, <2>1, <2>4, <3>2
    <3>3. CASE i = n + 2
      BY <1>0, <1>2, <1>6, <2>1, <2>4, <3>3
    <3>4. CASE i \in DOMAIN t /\ u[i] = t[i] /\ (j = n + 1 \/ j = n + 2)
      BY <1>2, <2>1, <2>4, <3>4
    <3>5. QED  BY <1>6, <2>4, <3>1, <3>2, <3>3, <3>4
  <2>5. ASSUME NEW i \in DOMAIN u, NEW j \in DOMAIN u, u[i] \in Own, u[j] \in Own, Rank(u[i]) < Rank(u[j])
        PROVE  i < j
    <3>0. i \in Nat /\ j \in Nat /\ n \in Nat
      BY <1>1, <1>3
    <3>1. Rank(Above) = 1 /\ Rank(Initial) = 2 /\ Rank(Below) = 3
      BY <1>0 DEF Rank
    <3>2. CASE i \in DOMAIN t /\ u[i] = t[i] /\ j \in DOMAIN t /\ u[j] = t[j]
      BY <1>11, <2>5, <3>2 DEF Held
    <3>3. CASE i \in DOMAIN t /\ (j = n + 1 \/ j = n + 2)
      <4>1. i <= n
        BY <1>4, <3>3
      <4>2. QED  BY <3>0, <3>3, <4>1
    <3>4. CASE i = n + 1
      <4>1. u[j] = Below
        BY <1>0, <1>2, <2>5, <3>1, <3>4
      <4>2. j = n + 2
        BY <1>0, <1>2, <1>6, <2>1, <2>5, <4>1
      <4>3. QED  BY <3>0, <3>4, <4>2
    <3>5. CASE i = n + 2
      BY <1>0, <1>2, <2>5, <3>1, <3>5
    <3>6. QED  BY <1>6, <2>5, <3>2, <3>3, <3>4, <3>5
  <2>6. ASSUME NEW k \in DOMAIN u, Contains(mine2, u[k])
        PROVE  Ahead(u, k) \/ Behind(u, k)
    <3>0. n \in Nat /\ n + 1 \in Nat
      BY <1>1
    <3>1. u[k] \in Own
      <4>1. \A l : Contains(own, l) => l \in Own
        BY DEF Contains
      <4>2. QED  BY <1>0, <1>10, <2>6, <4>1
    <3>2. CASE k = n + 2
      <4>1. \A m \in DOMAIN u : u[m] \in Marks => m < n + 2 /\ m + 1 < n + 2
        BY <1>3, <1>7, <3>0
      <4>2. QED  BY <1>0, <3>2, <4>1 DEF Behind
    <3>3. CASE k = n + 1
      <4>1. u[k] = Initial
        BY <1>2, <3>3
      <4>2. ~Contains(own, Initial)
        BY <1>0, <1>11, <2>1 DEF Held
      <4>3. ~(x # <<>> /\ x[Len(x)] = End)
        BY <1>0, <1>10, <2>6, <4>1, <4>2
      <4>4. ASSUME NEW m \in DOMAIN u, u[m] = End PROVE m + 1 < n + 1
        <5>1. m \in DOMAIN t /\ t[m] = End /\ m <= n
          BY <1>0, <1>7, <4>4
        <5>2. m # n
          <6>1. SUFFICES ASSUME m = n PROVE FALSE
            OBVIOUS
          <6>2. x[n] = End /\ n >= 1
            BY <1>1, <5>1, <6>1
          <6>3. x # <<>> /\ n = Len(x)
            BY <1>1, <6>2 DEF n
          <6>4. QED  BY <4>3, <6>2, <6>3
        <5>3. QED  BY <1>3, <3>0, <5>1, <5>2
      <4>5. \A m \in DOMAIN u : u[m] \in Marks => m < n + 1
        BY <1>3, <1>7, <3>0
      <4>6. QED  BY <3>3, <4>4, <4>5 DEF Behind
    <3>4. CASE k \in DOMAIN t /\ u[k] = t[k]
      <4>1. Contains(own, t[k])
        BY <1>10, <2>1, <2>6, <3>4
      <4>2. Ahead(t, k) \/ Behind(t, k)
        BY <1>11, <3>4, <4>1 DEF Outside
      <4>3. Ahead(t, k) => Ahead(u, k)
        BY <1>7 DEF Ahead
      <4>4. Behind(t, k) => Behind(u, k)
        BY <1>0, <1>7 DEF Behind
      <4>5. QED  BY <4>2, <4>3, <4>4
    <3>5. QED  BY <1>6, <3>1, <3>2, <3>3, <3>4
  <2>7. Held(u, mine2)
    BY <2>2, <2>3, <2>4, <2>5 DEF Held
  <2>8. QED  BY <2>6, <2>7 DEF Outside
<1>12. QED  BY <1>2, <1>9, <1>11 DEF u, mine2

\* A place that holds an end marker, or is the last and ends a line.
Loose(t, p) == t[p] = End \/ (t[p] = NewLine /\ p = Len(t))

\* Text t without place p.
Without(t, u, p) ==
  /\ p \in DOMAIN t /\ Len(u) = Len(t) - 1
  /\ \A i \in 1 .. p - 1 : u[i] = t[i]
  /\ \A i \in p .. Len(u) : u[i] = t[i + 1]

\* Taking such a place away keeps the text of the user.
LEMMA WithoutKeeps ==
  ASSUME NEW t \in Seq(Element), NEW u \in Seq(Element), NEW p, NEW own \in Seq(Own),
         Without(t, u, p), Loose(t, p), BeginFirst(t)
  PROVE  /\ BeginFirst(u)
         /\ Held(t, own) /\ Outside(t, own) => Held(u, own) /\ Outside(u, own)
<1>1. /\ Len(t) \in Nat /\ DOMAIN t = 1 .. Len(t) /\ Len(u) = Len(t) - 1 /\ DOMAIN u = 1 .. Len(u)
      /\ p \in 1 .. Len(t) /\ Len(u) \in Nat
  BY DEF Without
<1>0. t[p] \notin Own /\ t[p] # Begin
  <2>1. End \notin Own /\ NewLine \notin Own /\ End # Begin /\ NewLine # Begin
    BY Elements DEF Marks
  <2>2. t[p] = End \/ t[p] = NewLine
    BY DEF Loose
  <2>3. QED  BY <2>1, <2>2
<1> DEFINE from(k) == IF k < p THEN k ELSE k + 1
<1>2. \A k \in DOMAIN u : from(k) \in DOMAIN t /\ u[k] = t[from(k)] /\ from(k) # p
  <2>1. TAKE k \in DOMAIN u
  <2>2. CASE k < p
    BY SMTT(20), <1>1, <2>2 DEF Without
  <2>3. CASE ~(k < p)
    BY <1>1, <2>3 DEF Without
  <2>4. QED  BY <2>2, <2>3
<1>3. \A i \in DOMAIN t : i # p => \E k \in DOMAIN u : u[k] = t[i]
  <2>1. TAKE i \in DOMAIN t
  <2>2. CASE i < p
    <3>1. i \in DOMAIN u /\ u[i] = t[i]
      BY <1>1, <2>2 DEF Without
    <3>2. QED  BY <3>1
  <2>3. CASE i > p
    <3>1. i - 1 \in p .. Len(u) /\ (i - 1) + 1 = i /\ i - 1 \in DOMAIN u
      BY <1>1, <2>3
    <3>2. u[i - 1] = t[i]
      BY <3>1 DEF Without
    <3>3. QED  BY <3>1, <3>2
  <2>4. QED  BY <1>1, <2>2, <2>3
<1>4. BeginFirst(u)
  <2>1. SUFFICES ASSUME NEW k \in DOMAIN u, u[k] = End PROVE \E j \in DOMAIN u : u[j] = Begin
    BY DEF BeginFirst, Places
  <2>2. PICK j \in DOMAIN t : t[j] = Begin
    BY <1>2, <2>1 DEF BeginFirst, Places
  <2>3. QED  BY <1>0, <1>3, <2>2
<1>5. ASSUME Held(t, own), Outside(t, own) PROVE Held(u, own) /\ Outside(u, own)
  <2>1. Spliced(t, u, own, p - 1, 1, 0) /\ p - 1 \in Nat
    <3>1. p - 1 \in Nat /\ (p - 1) + 1 <= Len(t) /\ Len(u) = Len(t) - 1 + 0
      BY <1>1
    <3>2. \A i \in 1 .. p - 1 : u[i] = t[i]
      BY DEF Without
    <3>3. ASSUME NEW i \in (p - 1) + 1 + 1 .. Len(t) PROVE u[i - 1 + 0] = t[i]
      <4>1. i - 1 \in p .. Len(u) /\ (i - 1) + 1 = i /\ i - 1 + 0 = i - 1
        BY <1>1
      <4>2. QED  BY <4>1 DEF Without
    <3>4. \A i \in (p - 1) + 1 .. (p - 1) + 1 : ~Contains(own, t[i])
      <4>1. \A i \in (p - 1) + 1 .. (p - 1) + 1 : i = p
        BY <1>1
      <4>2. \A l : Contains(own, l) => l \in Own
        BY DEF Contains
      <4>3. QED  BY <1>0, <4>1, <4>2
    <3>5. \A i \in (p - 1) + 1 .. (p - 1) + 0 : u[i] \notin Own
      BY <1>1
    <3>6. QED  BY <3>1, <3>2, <3>3, <3>4, <3>5 DEF Spliced
  <2>2. Held(u, own)
    BY <1>5, <2>1, SplicedKeeps
  <2>3. ASSUME NEW k \in DOMAIN u, Contains(own, u[k])
        PROVE  Ahead(u, k) \/ Behind(u, k)
    <3>1. from(k) \in DOMAIN t /\ Contains(own, t[from(k)])
      BY <1>2, <2>3
    <3>2. CASE Ahead(t, from(k))
      <4>1. ASSUME NEW m \in DOMAIN u, u[m] \in Marks PROVE k < m
        <5>1. from(k) < from(m)
          BY <1>2, <3>2, <4>1 DEF Ahead
        <5>2. QED  BY <1>1, <5>1
      <4>2. QED  BY <4>1 DEF Ahead
    <3>3. CASE Behind(t, from(k))
      <4>1. ASSUME NEW m \in DOMAIN u, u[m] \in Marks PROVE m < k
        <5>1. from(m) < from(k)
          BY <1>2, <3>3, <4>1 DEF Behind
        <5>2. QED  BY <1>1, <5>1
      <4>2. ASSUME NEW m \in DOMAIN u, u[m] = End PROVE m + 1 < k
        <5>1. from(m) + 1 < from(k)
          BY <1>2, <3>3, <4>2 DEF Behind
        <5>2. k < p \/ p + 1 < from(k)
          <6>1. CASE t[p] = End
            BY <1>1, <3>3, <6>1 DEF Behind
          <6>2. CASE p = Len(t)
            BY <1>1, <6>2
          <6>3. QED  BY <6>1, <6>2 DEF Loose
        <5>3. CASE k < p
          BY <1>1, <5>1, <5>3
        <5>4. CASE p + 1 < from(k)
          BY <1>1, <5>1, <5>4
        <5>5. QED  BY <5>2, <5>3, <5>4
      <4>3. QED  BY <4>1, <4>2 DEF Behind
    <3>4. QED  BY <1>5, <3>1, <3>2, <3>3 DEF Outside
  <2>4. QED  BY <2>2, <2>3 DEF Outside
<1>6. QED  BY <1>4, <1>5

\* Where no note quotes a marker, a section has one at each end.
LEMMA UpdatedAgain ==
  ASSUME NEW text \in Seq(Element), BeginFirst(text), CanUpdate(text), NEW mid \in Seq(Element),
         \A i \in DOMAIN mid : mid[i] \notin Marks
  PROVE  LET s == <<Begin, NewLine>> \o mid \o <<End, NewLine>>
             once == Updated(text, s) IN
         CanUpdate(once) /\ Updated(once, s) = once
<1> DEFINE s == <<Begin, NewLine>> \o mid \o <<End, NewLine>>
           n == Len(mid) + 4
<1>1. /\ s \in Seq(Element) /\ Len(s) = n /\ n \in Nat /\ n >= 4
      /\ s[1] = Begin /\ s[n - 1] = End
      /\ \A i \in 1 .. n : s[i] = Begin => i = 1
      /\ \A i \in 1 .. n : s[i] = End => i = n - 1
  <2> DEFINE x == <<Begin, NewLine>>
             y == <<End, NewLine>>
  <2>1. x \in Seq(Element) /\ y \in Seq(Element) /\ Len(x) = 2 /\ Len(y) = 2
        /\ x[1] = Begin /\ x[2] = NewLine /\ y[1] = End /\ y[2] = NewLine
    BY Elements
  <2>2. Len(mid) \in Nat /\ DOMAIN mid = 1 .. Len(mid)
    OBVIOUS
  <2> HIDE DEF x, y
  <2>3. /\ s \in Seq(Element) /\ Len(s) = 2 + Len(mid) + 2
        /\ \A i \in 1 .. 2 : s[i] = x[i]
        /\ \A i \in 1 .. Len(mid) : s[2 + i] = mid[i]
        /\ \A i \in 1 .. 2 : s[2 + Len(mid) + i] = y[i]
        /\ \A k \in DOMAIN s : k \in 1 .. 2 \/ k - 2 \in 1 .. Len(mid) \/ k - 2 - Len(mid) \in 1 .. 2
    <3>1. s = x \o mid \o y
      BY DEF x, y
    <3>2. s \in Seq(Element) /\ Joined(s, x, mid, y)
      BY <2>1, <3>1, Parts
    <3> HIDE DEF s
    <3>3. QED  BY <2>1, <3>2 DEF Joined
  <2> HIDE DEF s
  <2>4. DOMAIN s = 1 .. n /\ n \in Nat /\ n - 1 = 2 + Len(mid) + 1 /\ n = 2 + Len(mid) + 2
    BY <2>2, <2>3
  <2>5. s[1] = Begin /\ s[2] = NewLine /\ s[n - 1] = End /\ s[n] = NewLine
    <3>1. 1 \in 1 .. 2 /\ 2 \in 1 .. 2
      OBVIOUS
    <3>2. s[2 + Len(mid) + 1] = y[1] /\ s[2 + Len(mid) + 2] = y[2]
      BY <2>3, <3>1
    <3>3. QED  BY <2>1, <2>3, <2>4, <3>1, <3>2
  <2>6. ASSUME NEW i \in 1 .. n, s[i] \in Marks PROVE i = 1 \/ i = n - 1
    <3>1. CASE i \in 1 .. 2
      <4>1. i # 2
        BY <2>5, <2>6, Elements
      <4>2. QED  BY <3>1, <4>1
    <3>2. CASE i - 2 \in 1 .. Len(mid)
      <4>1. 2 + (i - 2) = i
        BY <2>4
      <4>2. s[i] = mid[i - 2]
        BY <2>3, <3>2, <4>1
      <4>3. QED  BY <2>2, <2>6, <3>2, <4>2
    <3>3. CASE i - 2 - Len(mid) \in 1 .. 2
      <4>1. i = n - 1 \/ i = n
        BY <2>2, <2>4, <3>3
      <4>2. i # n
        BY <2>5, <2>6, Elements
      <4>3. QED  BY <4>1, <4>2
    <3>4. QED  BY <2>3, <2>4, <3>1, <3>2, <3>3
  <2>7. Begin # End /\ Begin \in Marks /\ End \in Marks
    BY Elements DEF Marks
  <2>8. \A i \in 1 .. n : s[i] = Begin => i = 1
    BY <2>5, <2>6, <2>7
  <2>9. \A i \in 1 .. n : s[i] = End => i = n - 1
    BY <2>5, <2>6, <2>7
  <2>10. n >= 4
    BY <2>2
  <2>11. QED  BY <2>3, <2>4, <2>5, <2>8, <2>9, <2>10
<1> HIDE DEF s, n
<1>2. PICK pre, post, a, c : /\ Kept(text, pre, post, a, c)
                             /\ \A z : Updated(text, z) = pre \o z \o post
  BY UpdatedParts
<1> DEFINE once == pre \o s \o post
           p == Len(pre)
           q == Len(post)
<1>3. /\ pre \in Seq(Element) /\ post \in Seq(Element)
      /\ \A i \in DOMAIN pre : pre[i] \notin Marks
  BY <1>2 DEF Kept
<1>4. /\ once \in Seq(Element) /\ Len(once) = p + n + q
      /\ \A i \in 1 .. p : once[i] = pre[i]
      /\ \A i \in 1 .. n : once[p + i] = s[i]
      /\ \A i \in 1 .. q : once[p + n + i] = post[i]
      /\ \A k \in DOMAIN once : k \in 1 .. p \/ k - p \in 1 .. n \/ k - p - n \in 1 .. q
  <2>1. s \in Seq(Element) /\ n = Len(s)
    BY <1>1
  <2>2. once \in Seq(Element) /\ Joined(once, pre, s, post)
    BY <1>3, <2>1, Parts
  <2> HIDE DEF once
  <2>3. QED  BY <2>1, <2>2 DEF Joined
<1>5. p \in Nat /\ q \in Nat /\ DOMAIN pre = 1 .. p /\ DOMAIN post = 1 .. q
  BY <1>3
<1> HIDE DEF once, p, q
<1>6. DOMAIN once = 1 .. p + n + q
  BY <1>1, <1>4, <1>5
<1>7. Places(once, Begin) # {} /\ Min(Places(once, Begin)) = p + 1
  <2>1. p + 1 \in DOMAIN once /\ 1 \in 1 .. n
    BY <1>1, <1>5, <1>6
  <2>2. once[p + 1] = Begin
    BY <1>1, <1>4, <2>1
  <2>3. ASSUME NEW i \in DOMAIN once, once[i] = Begin PROVE p + 1 <= i
    <3>1. i \notin 1 .. p
      BY <1>3, <1>4, <1>5, <2>3 DEF Marks
    <3>2. QED  BY <1>1, <1>5, <1>6, <3>1
  <2>4. QED  BY <1>4, <2>1, <2>2, <2>3, FirstPlaceIs
<1>8. Places(once, End) # {} /\ Min(Places(once, End)) = p + n - 1
  <2>1. p + n - 1 \in DOMAIN once /\ n - 1 \in 1 .. n /\ p + (n - 1) = p + n - 1
    BY <1>1, <1>5, <1>6
  <2>2. once[p + n - 1] = End
    BY <1>1, <1>4, <2>1
  <2>3. ASSUME NEW i \in DOMAIN once, once[i] = End PROVE p + n - 1 <= i
    <3>1. i \notin 1 .. p
      BY <1>3, <1>4, <1>5, <2>3 DEF Marks
    <3>2. CASE i - p \in 1 .. n
      <4>1. p + (i - p) = i
        BY <1>5, <1>6, <1>1
      <4>2. i - p = n - 1
        BY <1>1, <1>4, <2>3, <3>2, <4>1
      <4>3. QED  BY <1>1, <1>5, <1>6, <4>2
    <3>3. CASE i - p - n \in 1 .. q
      BY <1>1, <1>5, <1>6, <3>3
    <3>4. QED  BY <1>4, <3>1, <3>2, <3>3
  <2>4. QED  BY <1>4, <2>1, <2>2, <2>3, FirstPlaceIs
<1>9. CanUpdate(once)
  BY <1>1, <1>4, <1>5, <1>7, <1>8 DEF CanUpdate
<1>10. SubSeq(once, 1, (p + 1) - 1) = pre
  <2>1. (p + 1) - 1 = p /\ 1 \in Nat /\ p <= Len(once)
    BY <1>1, <1>4, <1>5
  <2>2. /\ SubSeq(once, 1, p) \in Seq(Element) /\ Len(SubSeq(once, 1, p)) = p
        /\ \A i \in 1 .. p : SubSeq(once, 1, p)[i] = once[i]
    BY <1>4, <1>5, <2>1
  <2>3. \A i \in 1 .. p : SubSeq(once, 1, p)[i] = pre[i]
    BY <1>4, <2>2
  <2>4. SubSeq(once, 1, p) = pre
    BY <1>3, <1>5, <2>2, <2>3
  <2>5. QED  BY <2>1, <2>4
<1>11. SubSeq(once, (p + n - 1) + 2, Len(once)) = post
  <2> DEFINE f == p + n + 1
             tail == SubSeq(once, f, Len(once))
  <2>1. (p + n - 1) + 2 = f /\ f \in Nat /\ f >= 1 /\ Len(once) = f - 1 + q /\ Len(once) \in Nat
    BY <1>1, <1>4, <1>5
  <2>2. tail = [i \in 1 .. Len(once) - f + 1 |-> once[f + i - 1]]
    BY SMTT(20), <1>4, <2>1
  <2> HIDE DEF f
  <2>3. Len(once) - f + 1 = q
    BY <1>5, <2>1
  <2>4. tail = [i \in 1 .. q |-> once[f + i - 1]]
    BY <2>2, <2>3
  <2>5. \A i \in 1 .. q : once[f + i - 1] = post[i]
    <3>1. \A i \in 1 .. q : f + i - 1 = p + n + i
      BY <1>1, <1>5 DEF f
    <3>2. QED  BY <1>4, <3>1
  <2>6. tail = [i \in 1 .. q |-> post[i]]
    BY <2>4, <2>5
  <2>7. post = [i \in 1 .. q |-> post[i]]
    BY <1>3, <1>5
  <2>8. QED  BY <2>1, <2>6, <2>7
<1>12. Updated(once, s) = pre \o s \o post
  BY <1>7, <1>8, <1>10, <1>11 DEF Updated, Replaced
<1>13. Updated(text, s) = once /\ once = pre \o s \o post
  BY <1>2 DEF once
<1>14. QED  BY <1>9, <1>12, <1>13 DEF s

----------------------------------------------------------------------------
\* The text that an export will write anew, or has.
Page == IF export = "truncated" THEN seen ELSE file

\* What is in the order of the file.
InRank(own) == \A j, k \in DOMAIN own : j < k => Rank(own[j]) < Rank(own[k])

\* The file, an export under way and the text of the user: whatever the user and the
\* export have done, the text has what is his, where the next export will not touch it.
PageOK ==
  /\ file \in Seq(Element) /\ seen \in Seq(Element) /\ section \in Seq(Element)
  /\ mine \in Seq(Own) /\ InRank(mine)
  /\ spoilt \in BOOLEAN /\ export \in {"idle", "read", "truncated"}
  /\ BeginFirst(file)
  /\ export # "idle" => BeginFirst(seen) /\ CanUpdate(seen) /\ SectionOK(section)
  /\ ~spoilt /\ export = "read" => seen = file
  /\ ~spoilt => Held(Page, mine) /\ Outside(Page, mine)

\* The types of an import.
ImportOK ==
  /\ told \subseteq Markdowns /\ importing \in Seq(File) /\ stage \in {"idle", "busy"}

\* The inductive invariant.
Inv == NotesOK /\ PageOK /\ ImportOK

\* An empty text is in order.
LEMMA EmptyPage ==
  /\ <<>> \in Seq(Element) /\ BeginFirst(<<>>) /\ Held(<<>>, <<>>) /\ Outside(<<>>, <<>>)
<1>1. DOMAIN <<>> = {} /\ 1 .. Len(<<>>) = {} /\ <<>> \in Seq(Element)
  OBVIOUS
<1>2. \A l : ~Contains(<<>>, l)
  BY <1>1 DEF Contains
<1>3. Places(<<>>, End) = {}
  BY <1>1 DEF Places
<1>4. QED  BY <1>1, <1>2, <1>3 DEF BeginFirst, Held, Outside

\* It holds at first.
LEMMA InvInit == Init => Inv
<1> SUFFICES ASSUME Init PROVE Inv
  OBVIOUS
<1>1. NotesOK
  <2>1. notes = <<>> /\ clock = 0 /\ MaxTime \in Nat
    BY FilesAssumption DEF Init
  <2>2. QED  BY <2>1 DEF NotesOK
<1>2. PageOK
  <2>1. /\ file = <<>> /\ mine = <<>> /\ seen = <<>> /\ section = <<>> /\ spoilt = FALSE
        /\ export = "idle" /\ Page = <<>>
    BY DEF Init, Page
  <2>2. <<>> \in Seq(Own) /\ InRank(<<>>)
    BY DEF InRank
  <2>3. QED  BY <2>1, <2>2, EmptyPage DEF PageOK
<1>3. ImportOK
  BY DEF Init, ImportOK
<1>4. QED  BY <1>1, <1>2, <1>3 DEF Inv

\* What an edit leaves, if the text keeps the lines of the user.
LEMMA EditKeeps ==
  ASSUME PageOK, Edit, file' \in Seq(Element), BeginFirst(file'),
         mine' \in Seq(Own), InRank(mine'),
         Held(file, mine) /\ Outside(file, mine) => Held(file', mine') /\ Outside(file', mine')
  PROVE  PageOK'
<1>1. /\ ~spoilt /\ spoilt' = (export \in {"read", "truncated"})
      /\ export' = export /\ section' = section /\ seen' = seen
  BY DEF Edit
<1>2. /\ seen' \in Seq(Element) /\ section' \in Seq(Element) /\ spoilt' \in BOOLEAN
      /\ export' \in {"idle", "read", "truncated"}
      /\ export' # "idle" => BeginFirst(seen') /\ CanUpdate(seen') /\ SectionOK(section')
  BY <1>1 DEF PageOK
<1>3. ASSUME ~spoilt'
      PROVE  export' = "idle" /\ Held(Page', mine') /\ Outside(Page', mine')
  <2>1. export = "idle"
    BY <1>1, <1>3 DEF PageOK
  <2>2. Page = file /\ Page' = file'
    BY <1>1, <2>1 DEF Page
  <2>3. QED  BY <1>1, <2>1, <2>2 DEF PageOK
<1>4. QED  BY <1>2, <1>3 DEF PageOK

\* The order of what the user has written, after one more line above, ...
LEMMA AboveRanked ==
  ASSUME NEW own \in Seq(Own), InRank(own), ~Contains(own, Above)
  PROVE  <<Above>> \o own \in Seq(Own) /\ InRank(<<Above>> \o own)
<1> DEFINE m == <<Above>> \o own
<1>1. <<Above>> \in Seq(Own) /\ Len(<<Above>>) = 1 /\ <<Above>>[1] = Above
  BY Elements
<1>2. /\ m \in Seq(Own) /\ Len(m) = 1 + Len(own) /\ m[1] = Above /\ Len(own) \in Nat
      /\ \A k \in 1 .. Len(own) : m[1 + k] = own[k]
  BY <1>1, ContainsMore
<1> HIDE DEF m
<1>3. \A l \in Own : l # Above => Rank(Above) < Rank(l)
  BY Elements DEF Rank
<1>4. ASSUME NEW j \in DOMAIN m, NEW k \in DOMAIN m, j < k PROVE Rank(m[j]) < Rank(m[k])
  <2>1. j \in Nat /\ k \in Nat /\ k - 1 \in 1 .. Len(own) /\ 1 + (k - 1) = k
    BY <1>2, <1>4
  <2>2. m[k] = own[k - 1] /\ own[k - 1] \in Own /\ own[k - 1] # Above
    BY <1>2, <2>1 DEF Contains
  <2>3. CASE j = 1
    BY <1>2, <1>3, <2>2, <2>3
  <2>4. CASE j # 1
    <3>1. j - 1 \in 1 .. Len(own) /\ 1 + (j - 1) = j /\ j - 1 < k - 1
      BY <1>2, <1>4, <2>1, <2>4
    <3>2. m[j] = own[j - 1]
      BY <1>2, <3>1
    <3>3. Rank(own[j - 1]) < Rank(own[k - 1])
      BY <2>1, <3>1 DEF InRank
    <3>4. QED  BY <2>2, <3>2, <3>3
  <2>5. QED  BY <2>3, <2>4
<1>5. InRank(m)
  BY <1>4 DEF InRank
<1>6. QED  BY <1>2, <1>5 DEF m

\* ... or below.
LEMMA BelowRanked ==
  ASSUME NEW own \in Seq(Own), InRank(own), ~Contains(own, Below), ~Contains(own, Initial), NEW x
  PROVE  own \o Counted(x) \in Seq(Own) /\ InRank(own \o Counted(x))
<1> DEFINE y == Counted(x)
           m == own \o y
<1>1. Own = {Above, Initial, Below} /\ Rank(Above) = 1 /\ Rank(Initial) = 2 /\ Rank(Below) = 3
  BY Elements DEF Rank
<1>2. /\ y \in Seq(Own) /\ Len(y) \in Nat
      /\ \A j \in 1 .. Len(y) : Rank(y[j]) > 1
      /\ \A j, k \in 1 .. Len(y) : j < k => Rank(y[j]) < Rank(y[k])
  <2>1. CASE y = <<Below>>
    BY <1>1, <2>1
  <2>2. CASE y = <<Initial, Below>>
    <3>1. Len(y) = 2 /\ y[1] = Initial /\ y[2] = Below /\ y \in Seq(Own)
      BY <1>1, <2>2
    <3>2. 1 .. Len(y) = {1, 2}
      BY <3>1
    <3>3. QED  BY <1>1, <3>1, <3>2
  <2>3. QED  BY <2>1, <2>2 DEF Counted
<1> HIDE DEF y
<1>3. /\ m \in Seq(Own) /\ Len(m) = Len(own) + Len(y) /\ Len(own) \in Nat
      /\ \A i \in 1 .. Len(own) : m[i] = own[i]
      /\ \A i \in 1 .. Len(y) : m[Len(own) + i] = y[i]
  BY <1>2, ContainsMore
<1> HIDE DEF m
<1>4. \A i \in 1 .. Len(own) : own[i] = Above
  BY <1>1 DEF Contains
<1>5. ASSUME NEW j \in DOMAIN m, NEW k \in DOMAIN m, j < k PROVE Rank(m[j]) < Rank(m[k])
  <2>0. j \in Nat /\ k \in Nat /\ DOMAIN m = 1 .. Len(own) + Len(y)
    BY <1>2, <1>3
  <2>1. CASE k <= Len(own)
    <3>1. j \in 1 .. Len(own) /\ k \in 1 .. Len(own) /\ j \in DOMAIN own /\ k \in DOMAIN own
      BY <1>3, <1>5, <2>0, <2>1
    <3>2. QED  BY <1>3, <1>5, <3>1 DEF InRank
  <2>2. CASE k > Len(own)
    <3>1. k - Len(own) \in 1 .. Len(y) /\ Len(own) + (k - Len(own)) = k
      BY <1>2, <1>3, <2>0, <2>2
    <3>2. m[k] = y[k - Len(own)]
      BY <1>3, <3>1
    <3>3. CASE j <= Len(own)
      <4>1. j \in 1 .. Len(own)
        BY <1>3, <2>0, <3>3
      <4>2. Rank(m[j]) = 1
        BY <1>1, <1>3, <1>4, <4>1
      <4>3. QED  BY <1>2, <3>1, <3>2, <4>2
    <3>4. CASE j > Len(own)
      <4>1. j - Len(own) \in 1 .. Len(y) /\ Len(own) + (j - Len(own)) = j /\ j - Len(own) < k - Len(own)
        BY <1>2, <1>3, <1>5, <2>0, <3>4
      <4>2. m[j] = y[j - Len(own)]
        BY <1>3, <4>1
      <4>3. QED  BY <1>2, <3>1, <3>2, <4>1, <4>2
    <3>5. QED  BY <1>3, <2>0, <3>3, <3>4
  <2>3. QED  BY <1>3, <2>0, <2>1, <2>2
<1>6. InRank(m)
  BY <1>5 DEF InRank
<1>7. QED  BY <1>3, <1>6 DEF m, y

\* Each edit of the user keeps PageOK, ...
LEMMA PageEdits ==
  ASSUME PageOK, Editing
  PROVE  PageOK'
<1>0. file \in Seq(Element) /\ BeginFirst(file) /\ mine \in Seq(Own) /\ InRank(mine)
  BY DEF PageOK
<1>1. CASE WriteAbove
  <2>1. ~Contains(mine, Above) /\ mine' = <<Above>> \o mine /\ Edit
    BY <1>1 DEF WriteAbove
  <2>2. PICK q \in Quotes :
          /\ q # <<>> => \A i, m \in DOMAIN file : file[i] \in Own /\ file[m] \in Marks => m < i
          /\ file' = Line1(q) \o file
    BY <1>1 DEF WriteAbove, Quotes, Line1, Marks
  <2>3. /\ file' \in Seq(Element) /\ BeginFirst(file')
        /\ Held(file, mine) /\ Outside(file, mine) => Held(file', mine') /\ Outside(file', mine')
    BY <1>0, <2>1, <2>2, AboveKeeps
  <2>4. mine' \in Seq(Own) /\ InRank(mine')
    BY <1>0, <2>1, AboveRanked
  <2>5. QED  BY <2>1, <2>3, <2>4, EditKeeps
<1>2. CASE WriteBelow
  <2>1. ~Contains(mine, Below) /\ Edit
    BY <1>2 DEF WriteBelow
  <2>2. PICK x \in {file, Ended(file)} :
          file' = x \o <<Initial, Below, NewLine>> /\ mine' = mine \o Counted(x)
    BY <1>2 DEF WriteBelow, Counted
  <2>3. /\ file' \in Seq(Element) /\ BeginFirst(file')
        /\ Held(file, mine) /\ Outside(file, mine) => Held(file', mine') /\ Outside(file', mine')
    BY <1>0, <2>1, <2>2, BelowKeeps
  <2>4. mine' \in Seq(Own) /\ InRank(mine')
    <3>1. ~Contains(mine, Initial)
      <4>1. export = "idle" \/ export = "read" \/ export = "truncated"
        BY DEF PageOK
      <4>2. ~spoilt
        BY <2>1 DEF Edit
      <4>3. Held(Page, mine)
        BY <4>2 DEF PageOK
      <4>4. Initial \in Own /\ Initial # Below
        BY Elements
      <4>5. Contains(mine, Initial) => Contains(mine, Below)
        BY <4>3, <4>4 DEF Held
      <4>6. QED  BY <2>1, <4>5
    <3>2. QED  BY <1>0, <2>1, <2>2, <3>1, BelowRanked
  <2>5. QED  BY <2>1, <2>3, <2>4, EditKeeps
<1>3. CASE DropNewLine
  <2>1. file # <<>> /\ file[Len(file)] = NewLine /\ file' = SubSeq(file, 1, Len(file) - 1) /\ mine' = mine /\ Edit
    BY <1>3 DEF DropNewLine
  <2>2. file' \in Seq(Element) /\ Without(file, file', Len(file))
    <3>1. Len(file) \in Nat /\ Len(file) >= 1
      BY <1>0, <2>1
    <3>2. /\ file' \in Seq(Element) /\ Len(file') = Len(file) - 1
          /\ \A i \in 1 .. Len(file) - 1 : file'[i] = file[i]
      <4> DEFINE n == Len(file) - 1
      <4>1. n \in Nat /\ n <= Len(file) /\ file' = SubSeq(file, 1, n)
        BY <2>1, <3>1
      <4> HIDE DEF n
      <4>2. /\ SubSeq(file, 1, n) \in Seq(Element) /\ Len(SubSeq(file, 1, n)) = n
            /\ \A i \in 1 .. n : SubSeq(file, 1, n)[i] = file[i]
        BY <1>0, <3>1, <4>1
      <4>3. QED  BY <4>1, <4>2 DEF n
    <3>3. Len(file) .. Len(file') = {}
      BY <3>1, <3>2
    <3>4. QED  BY <1>0, <3>1, <3>2, <3>3 DEF Without
  <2>3. Loose(file, Len(file))
    BY <2>1 DEF Loose
  <2>4. /\ BeginFirst(file')
        /\ Held(file, mine) /\ Outside(file, mine) => Held(file', mine') /\ Outside(file', mine')
    BY <1>0, <2>1, <2>2, <2>3, WithoutKeeps
  <2>5. QED  BY <1>0, <2>1, <2>2, <2>4, EditKeeps
<1>4. CASE DropEnd
  <2> DEFINE p == Min(Places(file, End))
  <2>1. Places(file, End) # {} /\ file' = RemoveAt(file, p) /\ mine' = mine /\ Edit
    BY <1>4 DEF DropEnd
  <2>2. p \in DOMAIN file /\ file[p] = End
    BY <1>0, <2>1, FirstPlace
  <2> HIDE DEF p
  <2>3. file' \in Seq(Element) /\ Without(file, file', p)
    <3> DEFINE x == SubSeq(file, 1, p - 1)
               y == SubSeq(file, p + 1, Len(file))
               n == Len(file)
    <3>1. n \in Nat /\ p \in 1 .. n /\ p \in Nat
      BY <1>0, <2>2
    <3>2. x \in Seq(Element) /\ Len(x) = p - 1 /\ \A i \in 1 .. p - 1 : x[i] = file[i]
      BY <1>0, <3>1
    <3>3. y \in Seq(Element) /\ y = [i \in 1 .. n - (p + 1) + 1 |-> file[(p + 1) + i - 1]]
      BY <1>0, <3>1
    <3> HIDE DEF x, y, n
    <3>4. Len(y) = n - p /\ \A i \in 1 .. n - p : y[i] = file[p + i]
      <4>1. n - (p + 1) + 1 = n - p /\ n - p \in Nat /\ \A i \in 1 .. n - p : (p + 1) + i - 1 = p + i
        BY <3>1
      <4>2. QED  BY <3>3, <4>1
    <3>5. file' = x \o y
      BY <2>1 DEF RemoveAt, x, y
    <3>6. /\ file' \in Seq(Element) /\ Len(file') = n - 1
          /\ \A i \in 1 .. p - 1 : file'[i] = file[i]
      <4>1. x \o y \in Seq(Element) /\ Len(x \o y) = (p - 1) + (n - p)
        <5>1. x \in Seq(Element) /\ y \in Seq(Element)
          BY <3>2, <3>3
        <5>2. x \o y \in Seq(Element) /\ Len(x \o y) = Len(x) + Len(y)
          BY <5>1
        <5>3. QED  BY <3>2, <3>4, <5>2
      <4>2. \A i \in 1 .. p - 1 : (x \o y)[i] = x[i]
        BY <3>1, <3>2, <3>3, <3>4
      <4>3. (p - 1) + (n - p) = n - 1
        BY <3>1
      <4>4. QED  BY <3>2, <3>5, <4>1, <4>2, <4>3
    <3>7. ASSUME NEW i \in p .. Len(file') PROVE file'[i] = file[i + 1]
      <4>1. i - (p - 1) \in 1 .. n - p /\ p + (i - (p - 1)) = i + 1 /\ i > p - 1 /\ i \in 1 .. (p - 1) + (n - p)
        BY <3>1, <3>6
      <4>2. file'[i] = y[i - (p - 1)]
        BY <3>1, <3>2, <3>3, <3>4, <3>5, <4>1
      <4>3. QED  BY <3>4, <4>1, <4>2
    <3>8. QED  BY <2>2, <3>6, <3>7 DEF Without, n
  <2>4. Loose(file, p)
    BY <2>2 DEF Loose
  <2>5. /\ BeginFirst(file')
        /\ Held(file, mine) /\ Outside(file, mine) => Held(file', mine') /\ Outside(file', mine')
    BY <1>0, <2>1, <2>3, <2>4, WithoutKeeps
  <2>6. QED  BY <1>0, <2>1, <2>3, <2>5, EditKeeps
<1>5. QED  BY <1>1, <1>2, <1>3, <1>4 DEF Editing

\* ... and so does each step of an export.
LEMMA PageExports ==
  ASSUME NotesOK, PageOK, Exporting
  PROVE  PageOK'
<1>1. CASE ReadPage
  <2>1. /\ export = "idle" /\ ~spoilt /\ CanUpdate(file) /\ export' = "read" /\ section' = Section
        /\ seen' = file /\ file' = file /\ mine' = mine /\ spoilt' = spoilt
    BY <1>1 DEF ReadPage, page
  <2>2. Section \in Seq(Theirs)
    BY SectionIn
  <2>3. SectionOK(Section)
    <3> DEFINE x == <<Begin, NewLine>>
               y == <<End, NewLine>>
               e == Entries
    <3>1. e \in Seq(Theirs)
      BY SectionIn
    <3>2. Section = x \o e \o y
      BY SectionIs
    <3> HIDE DEF e
    <3>3. (x \o e \o y)[1] = Begin
      BY <3>1, Elements
    <3>4. (x \o e \o y)[Len(x \o e \o y)] = NewLine /\ x \o e \o y # <<>>
      BY <3>1, Elements
    <3>5. QED  BY <2>2, <3>2, <3>3, <3>4 DEF SectionOK
  <2>4. Section \in Seq(Element)
    <3>1. \A i \in DOMAIN Section : Section[i] \in Element
      BY <2>2, Elements
    <3>2. QED  BY <2>2, <3>1
  <2>5. Page = file /\ Page' = file
    BY <2>1 DEF Page
  <2>6. QED  BY <2>1, <2>3, <2>4, <2>5 DEF PageOK
<1>2. CASE Truncate
  <2>1. /\ export = "read" /\ export' = "truncated" /\ file' = <<>> /\ section' = section /\ seen' = seen
        /\ mine' = mine /\ spoilt' = spoilt
    BY <1>2 DEF Truncate
  <2>2. Page = file /\ Page' = seen
    BY <2>1 DEF Page
  <2>3. QED  BY <2>1, <2>2, EmptyPage DEF PageOK
<1>3. CASE WritePage
  <2>1. /\ export = "truncated" /\ file' = Updated(seen, section) /\ export' = "idle" /\ section' = <<>>
        /\ seen' = <<>> /\ mine' = mine /\ spoilt' = spoilt
    BY <1>3 DEF WritePage
  <2>2. seen \in Seq(Element) /\ BeginFirst(seen) /\ CanUpdate(seen) /\ SectionOK(section)
    BY <2>1 DEF PageOK
  <2>3. /\ file' \in Seq(Element) /\ BeginFirst(file')
        /\ Held(seen, mine) /\ Outside(seen, mine) => Held(file', mine) /\ Outside(file', mine)
    <3>1. mine \in Seq(Own)
      BY DEF PageOK
    <3>2. QED  BY <2>1, <2>2, <3>1, UpdatedKeeps
  <2>4. Page = seen /\ Page' = file'
    BY <2>1 DEF Page
  <2>5. QED  BY <2>1, <2>3, <2>4, EmptyPage DEF PageOK
<1>4. CASE KillExport
  <2>1. /\ export # "idle" /\ spoilt' = (spoilt \/ export = "truncated") /\ export' = "idle" /\ section' = <<>>
        /\ seen' = <<>> /\ file' = file /\ mine' = mine
    BY <1>4 DEF KillExport
  <2>2. ~spoilt' => ~spoilt /\ Page = file /\ Page' = file
    BY <2>1 DEF Page
  <2>3. spoilt' \in BOOLEAN
    BY <2>1 DEF PageOK
  <2>4. QED  BY <2>1, <2>2, <2>3, EmptyPage DEF PageOK
<1>5. QED  BY <1>1, <1>2, <1>3, <1>4 DEF Exporting

\* Each step of an import keeps ImportOK.
LEMMA ImportSteps ==
  ASSUME ImportOK, Importing
  PROVE  ImportOK'
<1>1. importing # <<>> => Here \in File /\ Tail(importing) \in Seq(File)
  BY DEF ImportOK, Here
<1>2. CASE StartImport
  <2>1. Names \in Seq(File)
    <3>1. Names \in Seq(STRING) /\ \A i \in DOMAIN Names : Names[i] \in File
      BY FilesAssumption DEF File, ToSet
    <3>2. QED  BY <3>1
  <2>2. QED  BY <1>2, <2>1 DEF StartImport, ImportOK
<1>3. CASE PassOver
  BY <1>1, <1>3 DEF PassOver, Next1, ImportOK
<1>4. CASE ImportFile
  BY <1>1, <1>4 DEF ImportFile, Next1, ImportOK
<1>5. CASE SkipFile
  BY <1>1, <1>5 DEF SkipFile, Next1, ImportOK
<1>6. CASE EndImport
  BY <1>6 DEF EndImport, ImportOK
<1>7. CASE AbortImport
  BY <1>7 DEF AbortImport, ImportOK
<1>8. QED  BY <1>2, <1>3, <1>4, <1>5, <1>6, <1>7 DEF Importing

\* Each step keeps NotesOK.
LEMMA NotesSteps ==
  ASSUME NotesOK, Next
  PROVE  NotesOK'
<1>1. ASSUME NEW d \in Drafts, Put(d) PROVE NotesOK'
  BY <1>1, DraftsGood, SaveKeepsNotes DEF Put
<1>2. ASSUME NEW i \in DOMAIN notes, Deprecate(i) PROVE NotesOK'
  BY <1>2, DeprecateKeepsNotes
<1>3. CASE ImportFile
  <2>1. Here \in Markdowns /\ Importable(Here) /\ Save(Normalized(NoteOf(Here)))
    BY <1>3 DEF ImportFile
  <2>2. GoodDraft(Normalized(NoteOf(Here)))
    BY <2>1, ImportedGood
  <2>3. QED  BY <2>1, <2>2, SaveKeepsNotes
<1>4. UNCHANGED store => NotesOK'
  BY DEF store, NotesOK
<1>5. CASE Importing
  BY <1>3, <1>4, <1>5
     DEF Importing, StartImport, PassOver, SkipFile, EndImport, AbortImport
<1>6. CASE Exporting
  BY <1>4, <1>6 DEF Exporting, ReadPage, Truncate, WritePage, KillExport
<1>7. CASE Editing
  BY <1>4, <1>7 DEF Editing, WriteAbove, WriteBelow, DropNewLine, DropEnd, Edit
<1>8. QED  BY <1>1, <1>2, <1>5, <1>6, <1>7 DEF Next

\* Each step keeps the invariant.
LEMMA InvNext == Inv /\ [Next]_vars => Inv'
<1> SUFFICES ASSUME Inv, [Next]_vars PROVE Inv'
  OBVIOUS
<1>0. NotesOK /\ PageOK /\ ImportOK
  BY DEF Inv
<1> DEFINE pages == <<file, mine, spoilt, export, section, seen>>
<1>1. UNCHANGED pages => PageOK'
  BY <1>0 DEF PageOK, Page
<1>2. UNCHANGED import => ImportOK'
  BY <1>0 DEF import, ImportOK
<1>3. CASE UNCHANGED vars
  BY <1>0, <1>1, <1>2, <1>3 DEF vars, Inv, NotesOK, import
<1>4. CASE Next
  <2>1. NotesOK'
    BY <1>0, <1>4, NotesSteps
  <2>2. ASSUME NEW d \in Drafts, Put(d) PROVE UNCHANGED pages /\ UNCHANGED import
    BY <2>2 DEF Put, page
  <2>3. ASSUME NEW i \in DOMAIN notes, Deprecate(i) PROVE UNCHANGED pages /\ UNCHANGED import
    BY <2>3 DEF Deprecate, page
  <2>4. Importing => UNCHANGED pages
    BY DEF Importing, StartImport, PassOver, ImportFile, SkipFile, EndImport, AbortImport, page
  <2>5. Exporting => UNCHANGED import
    BY DEF Exporting, ReadPage, Truncate, WritePage, KillExport
  <2>6. Editing => UNCHANGED import
    BY DEF Editing, WriteAbove, WriteBelow, DropNewLine, DropEnd, Edit
  <2>7. PageOK'
    <3>1. UNCHANGED pages \/ Exporting \/ Editing
      BY <1>4, <2>2, <2>3, <2>4 DEF Next
    <3>2. Exporting => PageOK'
      BY <1>0, PageExports
    <3>3. Editing => PageOK'
      BY <1>0, PageEdits
    <3>4. QED  BY <1>1, <3>1, <3>2, <3>3
  <2>8. ImportOK'
    <3>1. UNCHANGED import \/ Importing
      BY <1>4, <2>2, <2>3, <2>5, <2>6 DEF Next
    <3>2. Importing => ImportOK'
      BY <1>0, ImportSteps
    <3>3. QED  BY <1>2, <3>1, <3>2
  <2>9. QED  BY <2>1, <2>7, <2>8 DEF Inv
<1>5. QED  BY <1>3, <1>4

\* The invariant holds in every behaviour.
LEMMA Invariant == Spec => []Inv
<1>1. QED  BY InvInit, InvNext, PTL DEF Spec

\* Every variable of NoteFiles has its type: the store, the import and the export of
\* cmd/openmind/main.go, and the file.
THEOREM FilesTypeCorrect == Spec => []TypeOK
<1>1. Inv => TypeOK
  <2>1. SUFFICES ASSUME Inv PROVE TypeOK
    OBVIOUS
  <2>2. NotesOK /\ PageOK /\ ImportOK
    BY <2>1 DEF Inv
  <2>3. QED  BY <2>2 DEF NotesOK, PageOK, ImportOK, TypeOK, Element
<1>2. QED  BY <1>1, Invariant, PTL

\* What a user wrote around the section stays in the file, whatever is exported to it
\* (cmdExport of main.go) and edited, unless an edit or a kill meets an export between
\* its reading and its writing; but for a character right behind an end marker.
THEOREM OwnLinesKeptCorrect == Spec => []OwnLinesKept
<1>1. Inv => OwnLinesKept
  <2>1. SUFFICES ASSUME Inv, ~spoilt, export # "truncated"
                 PROVE  LET own == {i \in DOMAIN file : Contains(mine, file[i])} IN
                        \E at \in [DOMAIN mine -> own] :
                          /\ \A k \in DOMAIN mine : file[at[k]] = mine[k]
                          /\ \A j, k \in DOMAIN mine : j < k => at[j] < at[k]
                          /\ \A i \in own : \E k \in DOMAIN mine : at[k] = i
    BY DEF OwnLinesKept
  <2> DEFINE own == {i \in DOMAIN file : Contains(mine, file[i])}
             at == [k \in DOMAIN mine |-> CHOOSE i \in DOMAIN file : file[i] = mine[k]]
  <2>2. mine \in Seq(Own) /\ InRank(mine) /\ Held(file, mine)
    BY <2>1 DEF Inv, PageOK, Page
  <2>3. \A l : Contains(mine, l) <=> \E k \in DOMAIN mine : mine[k] = l
    <3>1. DOMAIN mine = 1 .. Len(mine)
      BY <2>2
    <3>2. QED  BY <3>1 DEF Contains
  <2>4. ASSUME NEW k \in DOMAIN mine
        PROVE  /\ at[k] \in DOMAIN file /\ file[at[k]] = mine[k] /\ mine[k] \in Own
               /\ Contains(mine, mine[k])
    <3>1. mine[k] \in Own /\ Contains(mine, mine[k])
      BY <2>2, <2>3
    <3>2. \E i \in DOMAIN file : file[i] = mine[k]
      BY <2>2, <3>1 DEF Held
    <3>3. QED  BY <3>1, <3>2
  <2>5. at \in [DOMAIN mine -> own]
    BY <2>4
  <2> HIDE DEF at
  <2>6. \A k \in DOMAIN mine : file[at[k]] = mine[k]
    BY <2>4
  <2>7. ASSUME NEW j \in DOMAIN mine, NEW k \in DOMAIN mine, j < k PROVE at[j] < at[k]
    <3>1. Rank(mine[j]) < Rank(mine[k])
      BY <2>2, <2>7 DEF InRank
    <3>2. QED  BY <2>2, <2>4, <3>1 DEF Held
  <2>8. ASSUME NEW i \in own PROVE \E k \in DOMAIN mine : at[k] = i
    <3>1. PICK k \in DOMAIN mine : mine[k] = file[i]
      BY <2>3, <2>8
    <3>2. at[k] = i
      BY <2>2, <2>4, <2>8, <3>1 DEF Held
    <3>3. QED  BY <3>2
  <2>9. QED  BY <2>5, <2>6, <2>7, <2>8
<1>2. QED  BY <1>1, Invariant, PTL

\* A second export of the same notes changes nothing, unless a note quotes a marker.
THEOREM ExportIdempotentCorrect == Spec => []ExportIdempotent
<1>1. Inv => ExportIdempotent
  <2>1. SUFFICES ASSUME Inv, CanUpdate(file),
                        \A i \in DOMAIN notes : \A l \in ToSet(notes[i].body) : l.kind # "mark"
                 PROVE  /\ CanUpdate(Updated(file, Section))
                        /\ Updated(Updated(file, Section), Section) = Updated(file, Section)
    BY DEF ExportIdempotent
  <2>2. NotesOK /\ file \in Seq(Element) /\ BeginFirst(file)
    BY <2>1 DEF Inv, PageOK
  <2> DEFINE S == Element \ Marks
  <2>3. NewLine \in S
    BY Elements
  <2>4. ASSUME NEW i \in DOMAIN notes PROVE Heading(notes[i].title) \in S /\ notes[i].body \in Seq(S)
    <3>1. notes[i] \in NoteTypes
      BY <2>2 DEF NotesOK
    <3>2. Heading(notes[i].title) \in Line /\ Heading(notes[i].title).kind = "head"
      BY <3>1, LiteralAssumption DEF Heading, Line, NoteTypes
    <3>3. \A l \in Line : l.kind # "mark" => l \in S
      <4>1. Begin.kind = "mark" /\ End.kind = "mark"
        BY DEF Begin, End
      <4>2. QED  BY <4>1 DEF Element, Marks
    <3>4. notes[i].body \in Seq(Line) /\ \A l \in ToSet(notes[i].body) : l.kind # "mark"
      BY <2>1, <3>1 DEF NoteTypes
    <3>5. \A k \in DOMAIN notes[i].body : notes[i].body[k] \in S
      BY <3>3, <3>4 DEF ToSet
    <3>6. QED  BY <3>2, <3>3, <3>4, <3>5
  <2>5. Entries \in Seq(S)
    <3> HIDE DEF S
    <3>1. QED  BY <2>2, <2>3, <2>4, EntriesIn DEF NotesOK
  <2>6. Entries \in Seq(Element) /\ \A k \in DOMAIN Entries : Entries[k] \notin Marks
    <3>1. \A k \in DOMAIN Entries : Entries[k] \in S
      BY <2>5
    <3>2. QED  BY <2>5, <3>1
  <2>7. QED  BY <2>1, <2>2, <2>6, SectionIs, UpdatedAgain
<1>2. QED  BY <1>1, Invariant, PTL

\* Lists of the store (List of store.go) go by seconds: what a limit or "since" leaves
\* out is not a second newer than what is listed.
THEOREM ListFollowsClockCorrect == Spec => []ListFollowsClock
<1>1. Inv => ListFollowsClock
  <2>1. SUFFICES ASSUME Inv PROVE ListFollowsClock
    OBVIOUS
  <2>2. notes \in Seq(NoteTypes) /\ clock \in Nat
    BY <2>1, FilesAssumption DEF Inv, NotesOK
  <2>3. QED  BY <2>2, ListFollows
<1>2. QED  BY <1>1, Invariant, PTL

----------------------------------------------------------------------------
\* Some note has what the document of file f says.
Taken(f) == \E i \in DOMAIN notes : notes[i].project = Target /\ KeepsText(notes[i], Doc[f])

\* While an import is busy, every file that it passed was put or told.
TakenOK ==
  stage = "busy" => \A f \in Markdowns : f \in ToSet(importing) \/ f \in told \/ Taken(f)

\* What a note has of a file stays, in a store that only grows and deprecates.
LEMMA TakenStays ==
  ASSUME NotesOK, NEW f, Taken(f), Next
  PROVE  Taken(f)'
<1>0. notes \in Seq(NoteTypes)
  BY DEF NotesOK
<1>1. PICK i \in DOMAIN notes : notes[i].project = Target /\ KeepsText(notes[i], Doc[f])
  BY DEF Taken
<1>2. ASSUME NEW n, Save(n) PROVE Taken(f)'
  <2>1. notes' = Append(notes, Stored(n))
    BY <1>2 DEF Save
  <2>2. i \in DOMAIN notes' /\ notes'[i] = notes[i]
    BY <1>0, <2>1
  <2>3. QED  BY <1>1, <2>2 DEF Taken
<1>3. UNCHANGED notes => Taken(f)'
  BY <1>1 DEF Taken
<1>4. ASSUME NEW j \in DOMAIN notes, Deprecate(j) PROVE Taken(f)'
  <2> DEFINE n == [notes[j] EXCEPT !.status = "deprecated", !.updated = clock']
  <2>1. notes[j] \in NoteTypes
    BY <1>0
  <2>2. n.project = notes[j].project /\ n.body = notes[j].body
    BY <2>1 DEF NoteTypes
  <2>3. notes' = [notes EXCEPT ![j] = n]
    BY <1>4, <2>1 DEF Deprecate, NoteTypes
  <2> HIDE DEF n
  <2>4. i \in DOMAIN notes' /\ notes'[i].project = notes[i].project /\ notes'[i].body = notes[i].body
    BY <2>2, <2>3
  <2>5. KeepsText(notes'[i], Doc[f])
    BY <1>1, <2>4 DEF KeepsText
  <2>6. QED  BY <1>1, <2>4, <2>5 DEF Taken
<1>5. CASE Importing
  BY <1>2, <1>3, <1>5
     DEF Importing, StartImport, PassOver, ImportFile, SkipFile, EndImport, AbortImport, store
<1>6. CASE Exporting
  BY <1>3, <1>6 DEF Exporting, ReadPage, Truncate, WritePage, KillExport, store
<1>7. CASE Editing
  BY <1>3, <1>7 DEF Editing, WriteAbove, WriteBelow, DropNewLine, DropEnd, Edit, store
<1>8. QED  BY <1>2, <1>4, <1>5, <1>6, <1>7 DEF Next, Put

\* The elements of a sequence are its first and those of its tail.
LEMMA TailOf ==
  ASSUME NEW S, NEW s \in Seq(S), s # <<>>
  PROVE  ToSet(s) = {s[1]} \union ToSet(Tail(s))
<1>1. /\ Len(s) \in Nat /\ Len(s) >= 1 /\ DOMAIN s = 1 .. Len(s)
      /\ DOMAIN Tail(s) = 1 .. Len(s) - 1 /\ \A i \in 1 .. Len(s) - 1 : Tail(s)[i] = s[i + 1]
  OBVIOUS
<1>2. \A i \in DOMAIN s : i = 1 \/ (i - 1 \in DOMAIN Tail(s) /\ Tail(s)[i - 1] = s[i])
  BY <1>1
<1>3. \A i \in DOMAIN Tail(s) : i + 1 \in DOMAIN s /\ s[i + 1] = Tail(s)[i]
  BY <1>1
<1>4. ASSUME NEW x \in ToSet(s) PROVE x \in {s[1]} \union ToSet(Tail(s))
  BY <1>2, <1>4 DEF ToSet
<1>5. s[1] \in ToSet(s) /\ ToSet(Tail(s)) \subseteq ToSet(s)
  BY <1>1, <1>3 DEF ToSet
<1>6. QED  BY <1>4, <1>5

\* Each step keeps TakenOK.
LEMMA TakenSteps ==
  ASSUME Inv, TakenOK, Next
  PROVE  TakenOK'
<1>0. NotesOK /\ ImportOK
  BY DEF Inv
<1>1. \A f : Taken(f) => Taken(f)'
  BY <1>0, TakenStays
<1>2. UNCHANGED import => TakenOK'
  BY <1>1 DEF TakenOK, import
<1>3. CASE StartImport
  BY <1>3, FilesAssumption DEF StartImport, TakenOK, File
<1>4. ASSUME stage = "busy", stage' = "busy", importing # <<>>, importing' = Tail(importing),
             told \subseteq told', \A h \in Markdowns : h = Here => h \in told' \/ Taken(h)'
      PROVE  TakenOK'
  <2>1. ToSet(importing) = {Here} \union ToSet(importing')
    BY <1>0, <1>4, TailOf DEF ImportOK, Here
  <2>2. ASSUME NEW f \in Markdowns PROVE f \in ToSet(importing') \/ f \in told' \/ Taken(f)'
    <3>1. f \in ToSet(importing) \/ f \in told \/ Taken(f)
      BY <1>4 DEF TakenOK
    <3>2. QED  BY <1>1, <1>4, <2>1, <3>1
  <2>3. QED  BY <2>2 DEF TakenOK
<1>5. CASE PassOver
  BY <1>4, <1>5 DEF PassOver, Next1
<1>6. CASE ImportFile
  <2>1. ASSUME NEW h \in Markdowns, h = Here PROVE Taken(h)'
    <3> DEFINE n == Normalized(NoteOf(h))
    <3>1. Importable(h) /\ Save(n)
      BY <1>6, <2>1 DEF ImportFile
    <3>2. GoodDraft(n) /\ n.project = Target /\ KeepsText(n, Doc[h])
      BY <3>1, ImportedGood
    <3> HIDE DEF n
    <3>3. clock' \in 1 .. MaxTime
      BY <1>0, <3>1, FilesAssumption DEF Save, NotesOK
    <3>4. Stored(n).project = Target /\ Stored(n).body = n.body
      BY <3>2, <3>3, StoredNote
    <3>5. KeepsText(Stored(n), Doc[h])
      BY <3>2, <3>4 DEF KeepsText
    <3>6. Len(notes) + 1 \in DOMAIN notes' /\ notes'[Len(notes) + 1] = Stored(n)
      BY <1>0, <3>1 DEF NotesOK, Save
    <3>7. QED  BY <3>4, <3>5, <3>6 DEF Taken
  <2>2. QED  BY <1>4, <1>6, <2>1 DEF ImportFile, Next1
<1>7. CASE SkipFile
  BY <1>4, <1>7 DEF SkipFile, Next1
<1>8. CASE EndImport \/ AbortImport
  BY <1>8 DEF EndImport, AbortImport, TakenOK
<1>9. ASSUME NEW d \in Drafts, Put(d) PROVE TakenOK'
  BY <1>2, <1>9 DEF Put
<1>10. ASSUME NEW i \in DOMAIN notes, Deprecate(i) PROVE TakenOK'
  BY <1>2, <1>10 DEF Deprecate
<1>11. CASE Exporting
  BY <1>2, <1>11 DEF Exporting, ReadPage, Truncate, WritePage, KillExport
<1>12. CASE Editing
  BY <1>2, <1>12 DEF Editing, WriteAbove, WriteBelow, DropNewLine, DropEnd, Edit
<1>13. QED  BY <1>3, <1>5, <1>6, <1>7, <1>8, <1>9, <1>10, <1>11, <1>12 DEF Next, Importing

\* TakenOK holds in every behaviour.
LEMMA TakenInvariant == Spec => []TakenOK
<1>1. Init => TakenOK
  BY DEF Init, TakenOK
<1>2. Inv /\ TakenOK /\ [Next]_vars => TakenOK'
  <2>1. SUFFICES ASSUME Inv, TakenOK, [Next]_vars PROVE TakenOK'
    OBVIOUS
  <2>2. CASE Next
    BY <2>1, <2>2, TakenSteps
  <2>3. CASE UNCHANGED vars
    BY <2>1, <2>3 DEF vars, TakenOK, Taken
  <2>4. QED  BY <2>1, <2>2, <2>3
<1>3. QED  BY <1>1, <1>2, Invariant, PTL DEF Spec

\* An import (cmdImport of main.go) that comes to its end has put every note of
\* its directory, text and description whole, or has told which it did not.
THEOREM ImportTakesAllCorrect == Spec => ImportTakesAll
<1> DEFINE All == EndImport => \A f \in Markdowns \ told :
                    \E n \in ToSet(notes) : n.project = Target /\ KeepsText(n, Doc[f])
<1>1. TakenOK => All
  <2>1. SUFFICES ASSUME TakenOK, EndImport, NEW f \in Markdowns \ told
                 PROVE  \E n \in ToSet(notes) : n.project = Target /\ KeepsText(n, Doc[f])
    OBVIOUS
  <2>2. stage = "busy" /\ ToSet(importing) = {}
    BY <2>1 DEF EndImport, ToSet
  <2>3. Taken(f)
    BY <2>1, <2>2 DEF TakenOK
  <2>4. QED  BY <2>3 DEF Taken, ToSet
<1>2. QED  BY <1>1, TakenInvariant, PTL DEF Spec, ImportTakesAll

----------------------------------------------------------------------------
\* Sequences are put together in any order.
LEMMA ConcatAssoc ==
  ASSUME NEW S, NEW a \in Seq(S), NEW b \in Seq(S), NEW c \in Seq(S)
  PROVE  (a \o b) \o c = a \o (b \o c)
<1> DEFINE x == (a \o b) \o c
           bc == b \o c
           y == a \o bc
           n == Len(a) + Len(b) + Len(c)
<1>1. Len(a) \in Nat /\ Len(b) \in Nat /\ Len(c) \in Nat
  OBVIOUS
<1>2. x \in Seq(S) /\ Joined(x, a, b, c)
  BY Parts
<1>3. /\ bc \in Seq(S) /\ Len(bc) = Len(b) + Len(c)
      /\ \A i \in 1 .. Len(b) : bc[i] = b[i]
      /\ \A i \in 1 .. Len(c) : bc[Len(b) + i] = c[i]
  OBVIOUS
<1> HIDE DEF bc
<1>4. /\ y \in Seq(S) /\ Len(y) = Len(a) + Len(bc)
      /\ \A i \in 1 .. Len(a) : y[i] = a[i]
      /\ \A i \in 1 .. Len(bc) : y[Len(a) + i] = bc[i]
  <2>1. bc \in Seq(S)
    BY <1>3
  <2>2. QED  BY <2>1
<1> HIDE DEF x, y
<1>5. DOMAIN x = 1 .. n /\ DOMAIN y = 1 .. n
  <2>1. Len(x) = n /\ Len(y) = n
    BY <1>1, <1>2, <1>3, <1>4 DEF Joined
  <2>2. DOMAIN x = 1 .. Len(x) /\ DOMAIN y = 1 .. Len(y)
    BY <1>2, <1>4
  <2> HIDE DEF n
  <2>3. QED  BY <2>1, <2>2
<1>6. ASSUME NEW k \in 1 .. n PROVE x[k] = y[k]
  <2>1. CASE k \in 1 .. Len(a)
    BY <1>2, <1>4, <2>1 DEF Joined
  <2>2. CASE k - Len(a) \in 1 .. Len(b)
    <3>1. k - Len(a) \in 1 .. Len(bc) /\ Len(a) + (k - Len(a)) = k
      BY <1>1, <1>3, <2>2
    <3>2. y[k] = b[k - Len(a)]
      BY <1>3, <1>4, <2>2, <3>1
    <3>3. x[k] = b[k - Len(a)]
      BY <1>2, <2>2, <3>1 DEF Joined
    <3>4. QED  BY <3>2, <3>3
  <2>3. CASE k - Len(a) - Len(b) \in 1 .. Len(c)
    <3> DEFINE j == k - Len(a) - Len(b)
    <3>1. /\ Len(b) + j \in 1 .. Len(bc) /\ Len(a) + (Len(b) + j) = k
          /\ Len(a) + Len(b) + j = k
      BY <1>1, <1>3, <2>3
    <3> HIDE DEF j
    <3>2. y[k] = c[j]
      BY <1>3, <1>4, <2>3, <3>1 DEF j
    <3>3. x[k] = c[j]
      <4>1. x[Len(a) + Len(b) + j] = c[j]
        BY <1>2, <2>3 DEF Joined, j
      <4>2. QED  BY <3>1, <4>1
    <3>4. QED  BY <3>2, <3>3
  <2>4. QED  BY <1>1, <2>1, <2>2, <2>3
<1>7. x = y
  <2>1. x = [k \in DOMAIN x |-> x[k]] /\ y = [k \in DOMAIN y |-> y[k]]
    BY <1>2, <1>4
  <2> HIDE DEF n
  <2>2. QED  BY <1>5, <1>6, <2>1
<1>8. QED  BY <1>7 DEF x, y, bc

\* Sequences of one element each are put together to the sequence of these.
LEMMA FlattenOnes ==
  ASSUME NEW S, NEW xs \in Seq(S)
  PROVE  FlattenSeq([i \in 1 .. Len(xs) |-> <<xs[i]>>]) = xs
<1> DEFINE n == Len(xs)
           seqs == [i \in 1 .. n |-> <<xs[i]>>]
           Flat(f) == [i \in 1 .. n |-> IF i = 1 THEN seqs[i] ELSE f[i - 1] \o seqs[i]]
<1>1. n \in Nat /\ Len(seqs) = n /\ seqs \in Seq(Seq(S)) /\ (n = 0 <=> seqs = <<>>) /\ (n = 0 => xs = <<>>)
  <2>1. \A i \in 1 .. n : <<xs[i]>> \in Seq(S)
    OBVIOUS
  <2>2. QED  BY <2>1
<1>2. CASE n = 0
  BY <1>1, <1>2 DEF FlattenSeq
<1>3. CASE n # 0
  <2> DEFINE f == [i \in 1 .. n |-> SubSeq(xs, 1, i)]
  <2>1. ASSUME NEW i \in 1 .. n
        PROVE  f[i] = IF i = 1 THEN seqs[i] ELSE f[i - 1] \o seqs[i]
    <3>1. f[i] = SubSeq(xs, 1, i) /\ seqs[i] = <<xs[i]>> /\ i \in Nat /\ i >= 1 /\ i <= Len(xs)
      OBVIOUS
    <3>2. CASE i = 1
      <4>1. 1 <= Len(xs) /\ xs[1] \in S
        BY <3>1, <3>2
      <4>2. Len(SubSeq(xs, 1, 1)) = 1 /\ SubSeq(xs, 1, 1)[1] = xs[1] /\ SubSeq(xs, 1, 1) \in Seq(S)
        BY <4>1
      <4>3. SubSeq(xs, 1, 1) = <<xs[1]>>
        <5> DEFINE t == SubSeq(xs, 1, 1)
        <5>1. t \in Seq(S) /\ Len(t) = 1 /\ t[1] = xs[1]
          BY <4>2
        <5> HIDE DEF t
        <5>2. DOMAIN t = 1 .. 1 /\ t = [k \in DOMAIN t |-> t[k]]
          BY <5>1
        <5>3. <<xs[1]>> = [k \in 1 .. 1 |-> xs[1]]
          OBVIOUS
        <5>4. \A k \in 1 .. 1 : t[k] = xs[1]
          BY <5>1
        <5>5. t = <<xs[1]>>
          BY <5>2, <5>3, <5>4
        <5>6. QED  BY <5>5 DEF t
      <4>4. QED  BY <3>1, <3>2, <4>3
    <3>3. CASE i # 1
      <4>1. i - 1 \in 1 .. n /\ i - 1 \in Nat
        BY <3>1, <3>3
      <4>2. f[i - 1] = SubSeq(xs, 1, i - 1)
        BY <4>1
      <4>3. SubSeq(xs, 1, i) = SubSeq(xs, 1, i - 1) \o <<xs[i]>>
        BY <3>1, <4>1
      <4>4. QED  BY <3>1, <3>3, <4>2, <4>3
    <3>4. QED  BY <3>2, <3>3
  <2> HIDE DEF f
  <2>2. f = Flat(f)
    <3>1. f = [i \in 1 .. n |-> f[i]]
      BY DEF f
    <3>2. QED  BY <2>1, <3>1
  <2> DEFINE c == CHOOSE x : x = Flat(x)
  <2>3. c = Flat(c)
    <3> HIDE DEF Flat
    <3>1. QED  BY <2>2
  <2>4. FlattenSeq(seqs) = c[n]
    BY <1>1, <1>3 DEF FlattenSeq
  <2> DEFINE A == {k \in 0 .. n : k >= 1 => c[k] = f[k]}
  <2>5. 0 \in A
    BY <1>1
  <2>6. ASSUME NEW k \in 0 .. n, k < n, k \in A PROVE k + 1 \in A
    <3>1. k + 1 \in 1 .. n /\ (k + 1) - 1 = k /\ k + 1 \in 0 .. n
      BY <1>1, <2>6
    <3>2. c[k + 1] = IF k + 1 = 1 THEN seqs[k + 1] ELSE c[(k + 1) - 1] \o seqs[k + 1]
      <4> HIDE DEF c, seqs
      <4>1. QED  BY <2>3, <3>1
    <3>3. f[k + 1] = IF k + 1 = 1 THEN seqs[k + 1] ELSE f[(k + 1) - 1] \o seqs[k + 1]
      BY <2>1, <3>1
    <3> HIDE DEF c, seqs
    <3>4. k # 0 => c[k] = f[k]
      BY <2>6
    <3>5. QED  BY <3>1, <3>2, <3>3, <3>4
  <2>7. n \in A
    <3> HIDE DEF A
    <3>1. \A k \in 0 .. n : k \in A
      BY <1>1, <2>5, <2>6, UpTo
    <3>2. QED  BY <1>1, <3>1
  <2>8. f[n] = xs
    BY <1>1, <1>3 DEF f
  <2> HIDE DEF c
  <2>9. QED  BY <1>1, <1>3, <2>4, <2>7, <2>8
<1>4. QED  BY <1>2, <1>3

\* A finite set as a sequence has the elements of the set.
LEMMA SetToSeqIs ==
  ASSUME NEW S, IsFiniteSet(S)
  PROVE  SetToSeq(S) \in Seq(S) /\ ToSet(SetToSeq(S)) = S
<1> DEFINE n == Cardinality(S)
           s == SetToSeq(S)
<1>1. n \in Nat /\ ExistsBijection(1 .. n, S)
  BY FS_CardinalityType
<1>2. s \in [1 .. n -> S] /\ IsInjective(s)
  <2>1. PICK f \in Bijection(1 .. n, S) : TRUE
    BY <1>1 DEF ExistsBijection
  <2>2. f \in [1 .. n -> S] /\ IsInjective(f)
    BY <2>1 DEF Bijection, Injection
  <2>3. QED  BY <2>2 DEF SetToSeq
<1> HIDE DEF s
<1>3. s \in Surjection(1 .. n, S)
  <2>1. s \in Injection(1 .. n, S)
    BY <1>2 DEF Injection
  <2>2. IsFiniteSet(1 .. n) /\ Cardinality(1 .. n) = Cardinality(S)
    BY <1>1, FS_Interval
  <2>3. QED  BY <2>1, <2>2, FS_Injection
<1> HIDE DEF n
<1>4. s \in Seq(S) /\ DOMAIN s = 1 .. n
  BY <1>1, <1>2
<1>5. \A x \in S : \E i \in 1 .. n : s[i] = x
  BY <1>3 DEF Surjection
<1>6. \A i \in 1 .. n : s[i] \in S
  BY <1>2
<1>7. ToSet(s) = S
  BY <1>4, <1>5, <1>6 DEF ToSet
<1>8. QED  BY <1>4, <1>7 DEF s

\* A document with frontmatter front, which has no fence, and text body.
LEMMA FramedDoc ==
  ASSUME NEW front \in Seq(Line), NEW body \in Seq(Line),
         \A i \in DOMAIN front : front[i].kind # "fence"
  PROVE  LET doc == <<Opening>> \o front \o (<<Opening>> \o body) IN
         /\ Framed(doc) /\ Closings(doc) # {}
         /\ FrontOf(doc) = front /\ BodyOf(doc) = <<Blank>> \o body
<1> DEFINE tail == <<Opening>> \o body
           doc == <<Opening>> \o front \o tail
           n == Len(front)
           c == n + 2
<1>1. Opening \in Line /\ Opening.kind = "fence" /\ Opening.text = ""
  BY LiteralAssumption DEF Opening, Fence, Line
<1>0. Opening \in Line
  BY <1>1
<1>2. n \in Nat /\ Len(body) \in Nat /\ c \in Nat
  OBVIOUS
<1>3. /\ tail \in Seq(Line) /\ Len(tail) = Len(body) + 1 /\ tail[1] = Opening
      /\ \A i \in 1 .. Len(body) : tail[i + 1] = body[i]
  BY <1>0
<1> HIDE DEF tail
<1>4. doc \in Seq(Line) /\ Joined(doc, <<Opening>>, front, tail)
  <2>1. <<Opening>> \in Seq(Line)
    BY <1>0
  <2>2. QED  BY <1>3, <2>1, Parts
<1>5. Len(<<Opening>>) = 1 /\ <<Opening>>[1] = Opening
  OBVIOUS
<1> HIDE DEF doc
<1>6. Len(doc) = n + Len(body) + 2
  BY <1>2, <1>3, <1>4, <1>5 DEF Joined
<1>7. doc[1] = Opening
  BY <1>4, <1>5 DEF Joined
<1>8. \A i \in 1 .. n : doc[i + 1] = front[i]
  BY <1>4, <1>5 DEF Joined
<1>9. \A i \in 1 .. Len(body) + 1 : doc[i + n + 1] = tail[i]
  <2>1. TAKE i \in 1 .. Len(body) + 1
  <2>2. doc[1 + n + i] = tail[i]
    BY <1>3, <1>4, <1>5 DEF Joined
  <2>3. 1 + n + i = i + n + 1
    BY <1>2
  <2>4. QED  BY <2>2, <2>3
<1>10. doc[c] = Opening
  <2>1. 1 \in 1 .. Len(body) + 1 /\ 1 + n + 1 = c
    BY <1>2
  <2>2. QED  BY <1>3, <1>9, <2>1
<1>11. DOMAIN doc = 1 .. Len(doc) /\ c \in 2 .. Len(doc) /\ doc # <<>>
  BY <1>2, <1>4, <1>6
<1> HIDE DEF c
<1>12. Closing(doc) = c /\ Closings(doc) # {}
  <2>0. doc[c].kind = "fence"
    BY <1>1, <1>10
  <2>1. c \in Closings(doc) /\ Closings(doc) \in SUBSET Nat
    BY <1>11, <2>0 DEF Closings
  <2>2. ASSUME NEW y \in Closings(doc) PROVE c <= y
    <3>1. y \in 2 .. Len(doc) /\ doc[y].kind = "fence"
      BY DEF Closings
    <3>2. CASE y < c
      <4>1. y - 1 \in 1 .. n /\ (y - 1) + 1 = y
        BY <1>2, <3>1, <3>2 DEF c
      <4>2. doc[y] = front[y - 1] /\ y - 1 \in DOMAIN front
        BY <1>8, <4>1
      <4>3. QED  BY <3>1, <4>2
    <3>3. CASE ~(y < c)
      BY <1>2, <3>1, <3>3
    <3>4. QED  BY <3>2, <3>3
  <2>3. QED  BY <2>1, <2>2, MinIs DEF Closing
<1>13. Framed(doc)
  BY <1>7, <1>11 DEF Framed
<1>14. FrontOf(doc) = front
  <2>1. FrontOf(doc) = SubSeq(doc, 2, c - 1)
    BY <1>12, <1>13 DEF FrontOf
  <2>2. c - 1 = n + 1 /\ n + 1 <= Len(doc) /\ Len(doc) \in Nat
    BY <1>2, <1>6 DEF c
  <2> DEFINE s == SubSeq(doc, 2, n + 1)
  <2>3. s = [i \in 1 .. (n + 1) - 2 + 1 |-> doc[2 + i - 1]]
    BY <1>2, <1>4, <2>2
  <2>4. (n + 1) - 2 + 1 = n /\ \A i \in 1 .. n : 2 + i - 1 = i + 1
    BY <1>2
  <2>5. s = [i \in 1 .. n |-> doc[i + 1]]
    BY <2>3, <2>4
  <2>6. s = [i \in 1 .. n |-> front[i]]
    BY <1>8, <2>5
  <2>7. front = [i \in 1 .. n |-> front[i]]
    OBVIOUS
  <2>8. QED  BY <2>1, <2>2, <2>6, <2>7
<1>15. BodyOf(doc) = <<Blank>> \o body
  <2>1. BodyOf(doc) = <<Blank>> \o SubSeq(doc, c + 1, Len(doc))
    BY <1>1, <1>10, <1>12, <1>13 DEF BodyOf
  <2>2. c + 1 = n + 3 /\ Len(doc) \in Nat /\ Len(doc) = n + Len(body) + 2
    BY <1>2, <1>6 DEF c
  <2> DEFINE s == SubSeq(doc, n + 3, Len(doc))
  <2>3. s = [i \in 1 .. Len(doc) - (n + 3) + 1 |-> doc[(n + 3) + i - 1]]
    BY <1>2, <1>4, <2>2
  <2>4. Len(doc) - (n + 3) + 1 = Len(body)
    BY <1>2, <2>2
  <2>5. ASSUME NEW i \in 1 .. Len(body) PROVE doc[(n + 3) + i - 1] = body[i]
    <3>1. (n + 3) + i - 1 = (i + 1) + n + 1 /\ i + 1 \in 1 .. Len(body) + 1
      BY <1>2
    <3>2. doc[(i + 1) + n + 1] = tail[i + 1]
      BY <1>9, <3>1
    <3>3. QED  BY <1>3, <3>1, <3>2
  <2>6. s = [i \in 1 .. Len(body) |-> body[i]]
    BY <2>3, <2>4, <2>5
  <2>7. body = [i \in 1 .. Len(body) |-> body[i]]
    OBVIOUS
  <2>8. QED  BY <2>1, <2>2, <2>6, <2>7
<1>16. QED  BY <1>12, <1>13, <1>14, <1>15 DEF doc, tail

\* The value of a key that is there once, ...
LEMMA ValueIs ==
  ASSUME NEW front \in Seq(Line), NEW k, NEW p \in DOMAIN front,
         front[p].kind = "key", front[p].key = k,
         \A i \in DOMAIN front : front[i].key = k => i = p
  PROVE  Value(front, k) = front[p].text
<1> DEFINE at == {i \in DOMAIN front : front[i].kind = "key" /\ front[i].key = k}
<1>1. at = {p}
  OBVIOUS
<1>2. {p} \in SUBSET Nat /\ p \in {p} /\ \A y \in {p} : p <= y
  OBVIOUS
<1>3. Min({p}) = p
  BY <1>2, MinIs
<1> HIDE DEF at
<1>4. QED  BY <1>1, <1>3 DEF Value, at

\* ... and of one that is not.
LEMMA ValueNone ==
  ASSUME NEW front \in Seq(Line), NEW k, \A i \in DOMAIN front : front[i].key # k
  PROVE  Value(front, k) = ""
<1>1. {i \in DOMAIN front : front[i].kind = "key" /\ front[i].key = k} = {}
  OBVIOUS
<1>2. QED  BY <1>1 DEF Value

\* The blank line that a body starts with is trimmed away.
LEMMA TrimmedBlank ==
  ASSUME NEW body \in Seq(Foreign), Trimmed(body) = body
  PROVE  Trimmed(<<Blank>> \o body) = body
<1> DEFINE ls == <<Blank>> \o body
           n == Len(body)
<1>1. Blank \in Foreign /\ Blank.kind = "blank" /\ n \in Nat
  <2>1. Blank.kind = "blank"
    BY DEF Blank
  <2>2. QED  BY <2>1, ForeignLines
<1>2. /\ ls \in Seq(Foreign) /\ Len(ls) = n + 1 /\ ls[1] = Blank
      /\ \A i \in 1 .. n : ls[i + 1] = body[i]
  BY <1>1
<1> HIDE DEF ls
<1>3. CASE body = <<>>
  <2>1. DOMAIN ls = 1 .. 1
    BY <1>2, <1>3
  <2>2. \A i \in DOMAIN ls : ls[i].kind = "blank"
    BY <1>1, <1>2, <2>1
  <2>3. Trimmed(ls) = <<>>
    BY <2>2 DEF Trimmed
  <2>4. QED  BY <1>3, <2>3 DEF ls
<1>4. CASE body # <<>>
  <2>1. body[1].kind # "blank" /\ body[n].kind # "blank" /\ n >= 1
    BY <1>4, TrimmedIs
  <2>2. ls[2].kind # "blank" /\ ls[n + 1].kind # "blank"
    <3>1. 1 \in 1 .. n /\ n \in 1 .. n /\ 1 + 1 = 2
      BY <1>1, <2>1
    <3>2. QED  BY <1>2, <2>1, <3>1
  <2>3. 2 \in DOMAIN ls /\ n + 1 \in DOMAIN ls /\ DOMAIN ls = 1 .. n + 1
    BY <1>1, <1>2, <2>1
  <2>4. PICK a \in DOMAIN ls, b \in DOMAIN ls :
           /\ Trimmed(ls) = SubSeq(ls, a, b)
           /\ ls[a].kind # "blank" /\ ls[b].kind # "blank"
           /\ \A i \in DOMAIN ls : i < a \/ i > b => ls[i].kind = "blank"
    BY <1>2, <2>2, <2>3, TrimmedParts
  <2>5. a = 2
    <3>1. a # 1
      BY <1>1, <1>2, <2>4
    <3>2. ~(2 < a)
      BY <2>2, <2>3, <2>4
    <3>3. QED  BY <1>1, <2>3, <3>1, <3>2
  <2>6. b = n + 1
    <3>1. ~(n + 1 > b)
      BY <2>2, <2>3, <2>4
    <3>2. QED  BY <1>1, <2>3, <3>1
  <2> DEFINE s == SubSeq(ls, 2, n + 1)
  <2>7. s = [i \in 1 .. (n + 1) - 2 + 1 |-> ls[2 + i - 1]]
    BY <1>1, <1>2
  <2>8. (n + 1) - 2 + 1 = n /\ \A i \in 1 .. n : 2 + i - 1 = i + 1
    BY <1>1
  <2>9. s = [i \in 1 .. n |-> body[i]]
    BY <1>2, <2>7, <2>8
  <2>10. body = [i \in 1 .. n |-> body[i]]
    OBVIOUS
  <2>11. QED  BY <2>4, <2>5, <2>6, <2>9, <2>10 DEF ls
<1>5. QED  BY <1>3, <1>4

\* The frontmatter of a note: its parts.
FirstKeys(n)   ==
  <<Key("title", n.title), Key("type", n.type), Key("scope", n.scope), Key("project", n.project)>>
TagKeys(n)     == [i \in 1 .. Len(SetToSeq(n.tags)) |-> Key("tags", SetToSeq(n.tags)[i])]
LastKeys(n)    == Optional("author", n.author) \o <<Key("status", n.status)>>
FrontMatter(n) == FirstKeys(n) \o TagKeys(n) \o LastKeys(n)

\* What the types of a note say of its texts.
LEMMA NoteTexts ==
  ASSUME NEW n \in NoteTypes, GoodText(n)
  PROVE  /\ n.title \in STRING /\ n.type \in STRING /\ n.scope \in STRING /\ n.project \in STRING
         /\ n.author \in STRING /\ n.status \in STRING /\ n.tags \in SUBSET STRING
         /\ IsFiniteSet(n.tags) /\ n.title # "" /\ n.type # ""
         /\ n.body \in Seq(Foreign) /\ n.body \in Seq(Line) /\ Trimmed(n.body) = n.body
  BY KnownAssumption DEF NoteTypes, GoodText

\* A key of a note and its value are a line.
LEMMA KeyIs ==
  ASSUME NEW k \in {"title", "type", "scope", "project", "author", "status", "tags"}, NEW t \in STRING
  PROVE  Key(k, t) \in Line
<1>1. k \in STRING /\ "key" \in {"fence", "head", "key", "blank", "mark", "text"}
  BY LiteralAssumption
<1>2. QED  BY <1>1 DEF Key, Line

\* These parts are lines, and the tags are all there.
LEMMA FrontParts ==
  ASSUME NEW n \in NoteTypes, GoodText(n)
  PROVE  /\ FirstKeys(n) \in Seq(Line) /\ TagKeys(n) \in Seq(Line) /\ LastKeys(n) \in Seq(Line)
         /\ Optional("author", n.author) \in Seq(Line) /\ Key("status", n.status) \in Line
         /\ SetToSeq(n.tags) \in Seq(n.tags) /\ ToSet(SetToSeq(n.tags)) = n.tags
<1>1. /\ n.title \in STRING /\ n.type \in STRING /\ n.scope \in STRING /\ n.project \in STRING
      /\ n.author \in STRING /\ n.status \in STRING /\ n.tags \in SUBSET STRING
      /\ IsFiniteSet(n.tags)
  BY NoteTexts
<1>2. SetToSeq(n.tags) \in Seq(n.tags) /\ ToSet(SetToSeq(n.tags)) = n.tags
  BY <1>1, SetToSeqIs
<1>3. FirstKeys(n) \in Seq(Line)
  <2> DEFINE a == Key("title", n.title)  b == Key("type", n.type)
             c == Key("scope", n.scope)  d == Key("project", n.project)
  <2>1. a \in Line /\ b \in Line /\ c \in Line /\ d \in Line
    BY <1>1, KeyIs
  <2> HIDE DEF a, b, c, d
  <2>2. <<a, b, c, d>> \in Seq(Line)
    BY <2>1
  <2>3. QED  BY <2>2 DEF FirstKeys, a, b, c, d
<1>4. TagKeys(n) \in Seq(Line)
  <2> DEFINE s == SetToSeq(n.tags)
  <2>1. s \in Seq(STRING)
    BY <1>1, <1>2
  <2> HIDE DEF s
  <2>2. \A i \in 1 .. Len(s) : Key("tags", s[i]) \in Line
    <3>1. \A i \in 1 .. Len(s) : s[i] \in STRING
      BY <2>1
    <3>2. \A t \in STRING : Key("tags", t) \in Line
      BY KeyIs
    <3>3. QED  BY <3>1, <3>2
  <2>3. [i \in 1 .. Len(s) |-> Key("tags", s[i])] \in Seq(Line)
    BY <2>1, <2>2
  <2>4. QED  BY <2>3 DEF TagKeys, s
<1>5. Optional("author", n.author) \in Seq(Line) /\ Key("status", n.status) \in Line
  <2> DEFINE a == Key("author", n.author)  b == Key("status", n.status)
  <2>1. a \in Line /\ b \in Line
    BY <1>1, KeyIs
  <2> HIDE DEF a, b
  <2>2. <<a>> \in Seq(Line) /\ <<>> \in Seq(Line)
    BY <2>1
  <2>3. QED  BY <2>1, <2>2 DEF Optional, a, b
<1>6. LastKeys(n) \in Seq(Line)
  <2> DEFINE b == Key("status", n.status)  o == Optional("author", n.author)
  <2>1. b \in Line /\ o \in Seq(Line)
    BY <1>5
  <2> HIDE DEF b, o
  <2>2. o \o <<b>> \in Seq(Line)
    BY <2>1
  <2>3. QED  BY <2>2 DEF LastKeys, b, o
<1>7. QED  BY <1>2, <1>3, <1>4, <1>5, <1>6

\* The same, for lines.
LEMMA LinesConcat ==
  \A a, b, c \in Seq(Line) : (a \o b) \o c = a \o (b \o c)
  BY ConcatAssoc

\* The markdown of a note is its frontmatter between two fences, then its body.
LEMMA MarkdownIs ==
  ASSUME NEW n \in NoteTypes, GoodText(n)
  PROVE  /\ FrontMatter(n) \in Seq(Line)
         /\ Markdown(n) = <<Opening>> \o FrontMatter(n) \o (<<Opening>> \o n.body)
<1> DEFINE s == SetToSeq(n.tags)
           O == <<Opening>>
           H == FirstKeys(n)
           T == TagKeys(n)
           A == Optional("author", n.author)
           st == Key("status", n.status)
           B == n.body
           flat == FlattenSeq([i \in 1 .. Len(s) |-> <<Key("tags", s[i])>>])
<1>1. H \in Seq(Line) /\ T \in Seq(Line) /\ LastKeys(n) \in Seq(Line) /\ A \in Seq(Line) /\ st \in Line
      /\ B \in Seq(Line) /\ s \in Seq(n.tags)
  BY FrontParts, NoteTexts
<1>2. Opening \in Line
  BY LiteralAssumption DEF Opening, Fence, Line
<1>3. O \in Seq(Line) /\ Len(O) = 1
  BY <1>2
<1>4. flat = T
  <2>1. T = [i \in 1 .. Len(s) |-> Key("tags", s[i])]
    BY DEF TagKeys
  <2>2. Len(s) \in Nat
    BY <1>1
  <2>3. Len(T) = Len(s) /\ \A i \in 1 .. Len(s) : T[i] = Key("tags", s[i])
    BY <2>1, <2>2
  <2>4. [i \in 1 .. Len(s) |-> <<Key("tags", s[i])>>] = [i \in 1 .. Len(T) |-> <<T[i]>>]
    BY <2>3
  <2> HIDE DEF T, s
  <2>5. FlattenSeq([i \in 1 .. Len(T) |-> <<T[i]>>]) = T
    BY <1>1, FlattenOnes
  <2>6. QED  BY <2>4, <2>5
<1>5. <<Opening, Key("title", n.title), Key("type", n.type), Key("scope", n.scope), Key("project", n.project)>>
        = O \o H
  <2> DEFINE a == Key("title", n.title)  b == Key("type", n.type)
             c == Key("scope", n.scope)  d == Key("project", n.project)
  <2>1. H = <<a, b, c, d>>
    BY DEF FirstKeys
  <2> HIDE DEF a, b, c, d
  <2>2. <<Opening, a, b, c, d>> = <<Opening>> \o <<a, b, c, d>>
    OBVIOUS
  <2>3. QED  BY <2>1, <2>2 DEF a, b, c, d
<1>6. Markdown(n) = (((O \o H) \o T) \o A) \o <<st, Opening>> \o B
  BY <1>4, <1>5 DEF Markdown
<1>7. LastKeys(n) = A \o <<st>> /\ FrontMatter(n) = (H \o T) \o LastKeys(n)
  BY DEF LastKeys, FrontMatter
<1> HIDE DEF s, H, T, A, st, B, flat
<1>8. <<st, Opening>> = <<st>> \o O /\ <<st>> \in Seq(Line)
  BY <1>1, <1>2
<1> HIDE DEF O
<1> DEFINE S1 == <<st>>
           X == H \o T
           Y == X \o A
<1>9. S1 \in Seq(Line) /\ <<st, Opening>> = S1 \o O
  BY <1>8
<1> HIDE DEF S1
<1>10. X \in Seq(Line)
  BY <1>1
<1>11. (O \o H) \o T = O \o X
  BY <1>1, <1>3, LinesConcat
<1> HIDE DEF X
<1>12. Y \in Seq(Line)
  BY <1>1, <1>10
<1>13. (O \o X) \o A = O \o Y
  BY ZenonT(40), <1>1, <1>3, <1>10, LinesConcat
<1>14. Y \o S1 = X \o (A \o S1)
  BY <1>1, <1>9, <1>10, LinesConcat
<1>15. Y \o S1 = FrontMatter(n)
  BY <1>7, <1>14 DEF S1, X
<1> HIDE DEF Y
<1>16. Y \o S1 \in Seq(Line) /\ O \o Y \in Seq(Line) /\ O \o B \in Seq(Line)
  BY <1>1, <1>3, <1>9, <1>12
<1>17. (O \o Y) \o (S1 \o O) = ((O \o Y) \o S1) \o O
  BY <1>3, <1>9, <1>16, LinesConcat
<1>18. (O \o Y) \o S1 = O \o (Y \o S1)
  BY <1>3, <1>9, <1>12, LinesConcat
<1>19. O \o FrontMatter(n) \in Seq(Line)
  BY <1>3, <1>15, <1>16
<1>20. ((O \o FrontMatter(n)) \o O) \o B = (O \o FrontMatter(n)) \o (O \o B)
  BY ZenonT(40), <1>1, <1>3, <1>19, LinesConcat
<1>21. Markdown(n) = (O \o FrontMatter(n)) \o (O \o B)
  BY <1>6, <1>9, <1>11, <1>13, <1>15, <1>17, <1>18, <1>20
<1>22. QED  BY <1>15, <1>16, <1>21 DEF O, B

\* What a line of the frontmatter is.
LineOf(n, i) ==
  LET front == FrontMatter(n) IN
  /\ front[i].kind = "key"
  /\ \/ i = 1 /\ front[i].key = "title" /\ front[i].text = n.title
     \/ i = 2 /\ front[i].key = "type" /\ front[i].text = n.type
     \/ i = 3 /\ front[i].key = "scope" /\ front[i].text = n.scope
     \/ i = 4 /\ front[i].key = "project" /\ front[i].text = n.project
     \/ front[i].key = "tags" /\ i > 4 /\ front[i].text \in n.tags
     \/ n.author # "" /\ i = Len(front) - 1 /\ front[i].key = "author" /\ front[i].text = n.author
     \/ i = Len(front) /\ front[i].key = "status" /\ front[i].text = n.status

\* The frontmatter has the keys of a note in their order.
LEMMA FrontLines ==
  ASSUME NEW n \in NoteTypes, GoodText(n)
  PROVE  /\ Len(FrontMatter(n)) \in Nat /\ Len(FrontMatter(n)) >= 5
         /\ \A i \in 1 .. Len(FrontMatter(n)) : LineOf(n, i)
         /\ \A t \in n.tags : \E i \in 1 .. Len(FrontMatter(n)) : FrontMatter(n)[i] = Key("tags", t)
         /\ n.author # "" => FrontMatter(n)[Len(FrontMatter(n)) - 1].key = "author" /\ Len(FrontMatter(n)) >= 6
         /\ FrontMatter(n)[Len(FrontMatter(n))] = Key("status", n.status)
         /\ FrontMatter(n)[1] = Key("title", n.title) /\ FrontMatter(n)[2] = Key("type", n.type)
         /\ FrontMatter(n)[3] = Key("scope", n.scope) /\ FrontMatter(n)[4] = Key("project", n.project)
<1> DEFINE F == FrontMatter(n)
           H == FirstKeys(n)
           T == TagKeys(n)
           R == LastKeys(n)
           s == SetToSeq(n.tags)
<1>1. /\ H \in Seq(Line) /\ T \in Seq(Line) /\ R \in Seq(Line)
      /\ s \in Seq(n.tags) /\ ToSet(s) = n.tags
  BY FrontParts
<1>2. Len(H) = 4 /\ Len(H) \in Nat /\ Len(T) \in Nat /\ Len(R) \in Nat /\ Len(s) \in Nat
  BY <1>1 DEF FirstKeys
<1>3. /\ H[1] = Key("title", n.title) /\ H[2] = Key("type", n.type)
      /\ H[3] = Key("scope", n.scope) /\ H[4] = Key("project", n.project)
  BY DEF FirstKeys
<1>4. Len(T) = Len(s) /\ \A i \in 1 .. Len(s) : T[i] = Key("tags", s[i]) /\ s[i] \in n.tags
  BY <1>1, <1>2 DEF TagKeys
<1>00. Key("status", n.status) \in Line /\ Key("author", n.author) \in Line
  BY KeyIs, NoteTexts
<1> DEFINE ka == Key("author", n.author)
           kst == Key("status", n.status)
<1>5. n.author = "" => Len(R) = 1 /\ R[1] = Key("status", n.status)
  <2>1. n.author = "" => R = <<>> \o <<kst>>
    BY DEF LastKeys, Optional
  <2>3. kst \in Line
    BY <1>00
  <2> HIDE DEF R, kst
  <2>4. Len(<<>> \o <<kst>>) = 1 /\ (<<>> \o <<kst>>)[1] = kst
    BY <2>3
  <2>2. QED  BY <2>1, <2>4 DEF kst
<1>6. n.author # "" => Len(R) = 2 /\ R[1] = Key("author", n.author) /\ R[2] = Key("status", n.status)
  <2>1. n.author # "" => R = <<ka>> \o <<kst>>
    BY DEF LastKeys, Optional
  <2>3. ka \in Line /\ kst \in Line
    BY <1>00
  <2> HIDE DEF R, ka, kst
  <2>4. Len(<<ka>> \o <<kst>>) = 2 /\ (<<ka>> \o <<kst>>)[1] = ka /\ (<<ka>> \o <<kst>>)[2] = kst
    BY <2>3
  <2>2. QED  BY <2>1, <2>4 DEF ka, kst
<1>7. F \in Seq(Line) /\ Joined(F, H, T, R)
  BY <1>1, Parts DEF FrontMatter
<1> HIDE DEF F, H, T, R, s
<1>8. Len(F) = 4 + Len(s) + Len(R) /\ Len(F) \in Nat /\ Len(F) >= 5
  <2>1. Len(F) = Len(H) + Len(T) + Len(R)
    BY <1>7 DEF Joined
  <2>2. Len(R) = 1 \/ Len(R) = 2
    BY <1>5, <1>6
  <2>3. QED  BY <1>2, <1>4, <2>1, <2>2
<1>9. \A k, t : Key(k, t).kind = "key" /\ Key(k, t).key = k /\ Key(k, t).text = t
  BY DEF Key
<1>10. \A i \in 1 .. Len(s) : F[4 + i] = Key("tags", s[i]) /\ s[i] \in n.tags
  BY <1>2, <1>4, <1>7 DEF Joined
<1>11. \A i \in 1 .. 4 : F[i] = H[i]
  BY <1>2, <1>7 DEF Joined
<1>12. \A i \in 1 .. Len(R) : F[4 + Len(s) + i] = R[i]
  BY <1>2, <1>4, <1>7 DEF Joined
<1>13. F[Len(F)] = Key("status", n.status)
  <2>1. Len(R) \in 1 .. Len(R) /\ 4 + Len(s) + Len(R) = Len(F) /\ R[Len(R)] = Key("status", n.status)
    <3>1. CASE n.author = ""
      <4>1. Len(R) = 1 /\ R[1] = Key("status", n.status)
        BY <1>5, <3>1
      <4>2. R[Len(R)] = Key("status", n.status)
        BY <4>1
      <4>3. Len(R) \in 1 .. Len(R)
        BY <4>1
      <4>4. QED  BY <1>8, <4>2, <4>3
    <3>2. CASE n.author # ""
      <4>1. Len(R) = 2 /\ R[2] = Key("status", n.status)
        BY <1>6, <3>2
      <4>2. R[Len(R)] = Key("status", n.status)
        BY <4>1
      <4>3. Len(R) \in 1 .. Len(R)
        BY <4>1
      <4>4. QED  BY <1>8, <4>2, <4>3
    <3>3. QED  BY <3>1, <3>2
  <2>2. QED  BY <1>12, <2>1
<1>14. n.author # "" => F[Len(F) - 1] = Key("author", n.author)
  <2>1. SUFFICES ASSUME n.author # "" PROVE F[Len(F) - 1] = Key("author", n.author)
    OBVIOUS
  <2>0. Len(R) = 2 /\ R[1] = Key("author", n.author)
    BY <1>6, <2>1
  <2>2. 1 \in 1 .. Len(R) /\ 4 + Len(s) + 1 = Len(F) - 1
    <3>1. Len(R) = 2 /\ Len(s) \in Nat /\ Len(F) = 4 + Len(s) + Len(R)
      BY <1>2, <1>8, <2>0
    <3>2. QED  BY <3>1
  <2>3. F[4 + Len(s) + 1] = R[1]
    BY <1>12, <2>2
  <2>4. QED  BY <2>0, <2>2, <2>3
<1>15. ASSUME NEW i \in 1 .. Len(F)
       PROVE  /\ F[i].kind = "key"
              /\ \/ i = 1 /\ F[i].key = "title" /\ F[i].text = n.title
                 \/ i = 2 /\ F[i].key = "type" /\ F[i].text = n.type
                 \/ i = 3 /\ F[i].key = "scope" /\ F[i].text = n.scope
                 \/ i = 4 /\ F[i].key = "project" /\ F[i].text = n.project
                 \/ F[i].key = "tags" /\ i > 4 /\ F[i].text \in n.tags
                 \/ n.author # "" /\ i = Len(F) - 1 /\ F[i].key = "author" /\ F[i].text = n.author
                 \/ i = Len(F) /\ F[i].key = "status" /\ F[i].text = n.status
  <2>1. CASE i \in 1 .. 4
    <3>1. i = 1 \/ i = 2 \/ i = 3 \/ i = 4
      BY <2>1
    <3>2. F[i] = H[i]
      BY <1>11, <2>1
    <3>3. CASE i = 1
      <4>1. F[i] = Key("title", n.title)
        BY <1>3, <3>2, <3>3
      <4>2. F[i].kind = "key" /\ F[i].key = "title" /\ F[i].text = n.title
        BY <1>9, <4>1
      <4>3. QED  BY <3>3, <4>2
    <3>4. CASE i = 2
      <4>1. F[i] = Key("type", n.type)
        BY <1>3, <3>2, <3>4
      <4>2. F[i].kind = "key" /\ F[i].key = "type" /\ F[i].text = n.type
        BY <1>9, <4>1
      <4>3. QED  BY <3>4, <4>2
    <3>5. CASE i = 3
      <4>1. F[i] = Key("scope", n.scope)
        BY <1>3, <3>2, <3>5
      <4>2. F[i].kind = "key" /\ F[i].key = "scope" /\ F[i].text = n.scope
        BY <1>9, <4>1
      <4>3. QED  BY <3>5, <4>2
    <3>6. CASE i = 4
      <4>1. F[i] = Key("project", n.project)
        BY <1>3, <3>2, <3>6
      <4>2. F[i].kind = "key" /\ F[i].key = "project" /\ F[i].text = n.project
        BY <1>9, <4>1
      <4>3. QED  BY <3>6, <4>2
    <3>7. QED  BY <3>1, <3>3, <3>4, <3>5, <3>6
  <2>2. CASE i \in 5 .. 4 + Len(s)
    <3>1. i - 4 \in 1 .. Len(s) /\ 4 + (i - 4) = i /\ i > 4
      BY <1>2, <2>2
    <3>2. F[i] = Key("tags", s[i - 4]) /\ s[i - 4] \in n.tags
      BY <1>10, <3>1
    <3>3. F[i].kind = "key" /\ F[i].key = "tags" /\ F[i].text = s[i - 4]
      BY <1>9, <3>2
    <3>4. QED  BY <3>1, <3>2, <3>3
  <2>3. CASE i > 4 + Len(s)
    <3>1. i = Len(F) \/ (n.author # "" /\ i = Len(F) - 1)
      <4>1. CASE n.author = ""
        <5>1. Len(R) = 1
          BY <1>5, <4>1
        <5>2. i = Len(F)
          BY <1>2, <1>8, <2>3, <5>1
        <5>3. QED  BY <5>2
      <4>2. CASE n.author # ""
        <5>1. Len(R) = 2
          BY <1>6, <4>2
        <5>2. i = Len(F) \/ i = Len(F) - 1
          BY <1>2, <1>8, <2>3, <5>1
        <5>3. QED  BY <4>2, <5>2
      <4>3. QED  BY <4>1, <4>2
    <3>2. CASE i = Len(F)
      <4>1. F[i] = Key("status", n.status)
        BY <1>13, <3>2
      <4>2. F[i].kind = "key" /\ F[i].key = "status" /\ F[i].text = n.status
        BY <1>9, <4>1
      <4>3. QED  BY <3>2, <4>2
    <3>3. CASE n.author # "" /\ i = Len(F) - 1
      <4>1. F[i] = Key("author", n.author)
        BY <1>14, <3>3
      <4>2. F[i].kind = "key" /\ F[i].key = "author" /\ F[i].text = n.author
        BY <1>9, <4>1
      <4>3. QED  BY <3>3, <4>2
    <3>4. QED  BY <3>1, <3>2, <3>3
  <2>4. i \in 1 .. 4 \/ i \in 5 .. 4 + Len(s) \/ i > 4 + Len(s)
    BY <1>2, <1>8
  <2>5. QED  BY <2>1, <2>2, <2>3, <2>4
<1>16. ASSUME NEW t \in n.tags PROVE \E i \in 1 .. Len(F) : F[i] = Key("tags", t)
  <2>1. PICK i \in 1 .. Len(s) : s[i] = t
    <3>1. PICK i \in DOMAIN s : s[i] = t
      BY <1>1 DEF ToSet
    <3>2. DOMAIN s = 1 .. Len(s)
      BY <1>1
    <3>3. QED  BY <3>1, <3>2
  <2>2. 4 + i \in 1 .. Len(F)
    BY <1>2, <1>8
  <2>3. QED  BY <1>10, <2>1, <2>2
<1>17. n.author # "" => F[Len(F) - 1].key = "author" /\ Len(F) >= 6
  <2>1. SUFFICES ASSUME n.author # "" PROVE F[Len(F) - 1].key = "author" /\ Len(F) >= 6
    OBVIOUS
  <2>2. F[Len(F) - 1] = Key("author", n.author) /\ Len(R) = 2
    BY <1>6, <1>14, <2>1
  <2>3. F[Len(F) - 1].key = "author"
    BY <1>9, <2>2
  <2>4. QED  BY <1>2, <1>8, <2>2, <2>3
<1>18. /\ F[1] = Key("title", n.title) /\ F[2] = Key("type", n.type)
       /\ F[3] = Key("scope", n.scope) /\ F[4] = Key("project", n.project)
  BY <1>3, <1>11
<1>19. QED  BY <1>8, <1>13, <1>15, <1>16, <1>17, <1>18 DEF LineOf, F

\* The frontmatter of a note is a mapping, and has the values of the note.
LEMMA FrontIsYaml ==
  ASSUME NEW n \in NoteTypes, GoodText(n)
  PROVE  /\ IsYaml(FrontMatter(n))
         /\ \A i \in DOMAIN FrontMatter(n) : FrontMatter(n)[i].kind # "fence"
<1> DEFINE F == FrontMatter(n)
<1>1. F \in Seq(Line) /\ DOMAIN F = 1 .. Len(F) /\ Len(F) \in Nat /\ Len(F) >= 5
  <2>1. F \in Seq(Line)
    BY MarkdownIs
  <2>2. Len(F) \in Nat /\ Len(F) >= 5
    BY FrontLines
  <2> HIDE DEF F
  <2>3. QED  BY <2>1, <2>2
<1>2. \A i \in DOMAIN F : LineOf(n, i)
  BY <1>1, FrontLines
<1>3. \A i \in DOMAIN F : F[i].kind = "key"
  BY <1>2 DEF LineOf
<1>4. ASSUME NEW i \in DOMAIN F, NEW j \in DOMAIN F, F[i].key = F[j].key, F[i].key # "tags"
      PROVE  i = j
  <2>1. LineOf(n, i) /\ LineOf(n, j)
    BY <1>2
  <2> HIDE DEF F
  <2>2. /\ \/ i = 1 /\ F[i].key = "title"
           \/ i = 2 /\ F[i].key = "type"
           \/ i = 3 /\ F[i].key = "scope"
           \/ i = 4 /\ F[i].key = "project"
           \/ i = Len(F) - 1 /\ F[i].key = "author"
           \/ i = Len(F) /\ F[i].key = "status"
        /\ \/ j = 1 /\ F[j].key = "title"
           \/ j = 2 /\ F[j].key = "type"
           \/ j = 3 /\ F[j].key = "scope"
           \/ j = 4 /\ F[j].key = "project"
           \/ j = Len(F) - 1 /\ F[j].key = "author"
           \/ j = Len(F) /\ F[j].key = "status"
    BY <1>4, <2>1 DEF LineOf, F
  <2>3. QED  BY <1>4, <2>2
<1>5. QED  BY <1>3, <1>4 DEF IsYaml

\* Each key has the value of the note.
LEMMA FrontValues ==
  ASSUME NEW n \in NoteTypes, GoodText(n)
  PROVE  /\ Value(FrontMatter(n), "title") = n.title /\ Value(FrontMatter(n), "type") = n.type
         /\ Value(FrontMatter(n), "scope") = n.scope /\ Value(FrontMatter(n), "project") = n.project
         /\ Value(FrontMatter(n), "author") = n.author /\ Value(FrontMatter(n), "status") = n.status
         /\ Items(FrontMatter(n), "tags") = n.tags
<1> DEFINE F == FrontMatter(n)
<1>1. F \in Seq(Line) /\ DOMAIN F = 1 .. Len(F) /\ Len(F) \in Nat /\ Len(F) >= 5
  <2>1. F \in Seq(Line)
    BY MarkdownIs
  <2>2. Len(F) \in Nat /\ Len(F) >= 5
    BY FrontLines
  <2> HIDE DEF F
  <2>3. QED  BY <2>1, <2>2
<1>2. \A i \in DOMAIN F : LineOf(n, i)
  BY <1>1, FrontLines
<1>3. /\ \A t \in n.tags : \E i \in DOMAIN F : F[i] = Key("tags", t)
      /\ n.author # "" => F[Len(F) - 1].key = "author" /\ Len(F) >= 6
  BY <1>1, FrontLines
<1> HIDE DEF F
<1>4. ASSUME NEW k, NEW p \in DOMAIN F, NEW v, k # "tags", F[p].key = k, F[p].text = v,
             \A i \in DOMAIN F : F[i].key = k => i = p
      PROVE  Value(F, k) = v
  <2>1. F[p].kind = "key"
    BY <1>2 DEF LineOf, F
  <2>2. QED  BY <1>1, <1>4, <2>1, ValueIs
<1>5. ASSUME NEW i \in DOMAIN F
      PROVE  /\ \/ i = 1 /\ F[i].key = "title" /\ F[i].text = n.title
                \/ i = 2 /\ F[i].key = "type" /\ F[i].text = n.type
                \/ i = 3 /\ F[i].key = "scope" /\ F[i].text = n.scope
                \/ i = 4 /\ F[i].key = "project" /\ F[i].text = n.project
                \/ i > 4 /\ F[i].key = "tags" /\ F[i].text \in n.tags
                \/ n.author # "" /\ i = Len(F) - 1 /\ F[i].key = "author" /\ F[i].text = n.author
                \/ i = Len(F) /\ F[i].key = "status" /\ F[i].text = n.status
             /\ F[i].kind = "key"
  BY <1>2 DEF LineOf, F
<1>6. /\ F[1].key = "title" /\ F[1].text = n.title /\ 1 \in DOMAIN F
      /\ F[2].key = "type" /\ F[2].text = n.type /\ 2 \in DOMAIN F
      /\ F[3].key = "scope" /\ F[3].text = n.scope /\ 3 \in DOMAIN F
      /\ F[4].key = "project" /\ F[4].text = n.project /\ 4 \in DOMAIN F
  <2>1. 1 \in DOMAIN F /\ 2 \in DOMAIN F /\ 3 \in DOMAIN F /\ 4 \in DOMAIN F
    BY <1>1
  <2>2. /\ F[1] = Key("title", n.title) /\ F[2] = Key("type", n.type)
        /\ F[3] = Key("scope", n.scope) /\ F[4] = Key("project", n.project)
    BY FrontLines DEF F
  <2>3. \A k, t : Key(k, t).key = k /\ Key(k, t).text = t
    BY DEF Key
  <2>4. F[1].key = "title" /\ F[1].text = n.title
    BY <2>2, <2>3
  <2>5. F[2].key = "type" /\ F[2].text = n.type
    BY <2>2, <2>3
  <2>6. F[3].key = "scope" /\ F[3].text = n.scope
    BY <2>2, <2>3
  <2>7. F[4].key = "project" /\ F[4].text = n.project
    BY <2>2, <2>3
  <2>8. QED  BY <2>1, <2>4, <2>5, <2>6, <2>7
<1>7. Value(F, "title") = n.title
  <2>1. F[1].key = "title" /\ F[1].text = n.title /\ 1 \in DOMAIN F
    BY <1>6
  <2>2. \A i \in DOMAIN F : F[i].key = "title" => i = 1
    BY <1>5
  <2>3. QED  BY <1>4, <2>1, <2>2
<1>8. Value(F, "type") = n.type
  <2>1. F[2].key = "type" /\ F[2].text = n.type /\ 2 \in DOMAIN F
    BY <1>6
  <2>2. \A i \in DOMAIN F : F[i].key = "type" => i = 2
    BY <1>5
  <2>3. QED  BY <1>4, <2>1, <2>2
<1>9. Value(F, "scope") = n.scope
  <2>1. F[3].key = "scope" /\ F[3].text = n.scope /\ 3 \in DOMAIN F
    BY <1>6
  <2>2. \A i \in DOMAIN F : F[i].key = "scope" => i = 3
    BY <1>5
  <2>3. QED  BY <1>4, <2>1, <2>2
<1>10. Value(F, "project") = n.project
  <2>1. F[4].key = "project" /\ F[4].text = n.project /\ 4 \in DOMAIN F
    BY <1>6
  <2>2. \A i \in DOMAIN F : F[i].key = "project" => i = 4
    BY <1>5
  <2>3. QED  BY <1>4, <2>1, <2>2
<1>11. Value(F, "author") = n.author
  <2>1. CASE n.author = ""
    <3>1. \A i \in DOMAIN F : F[i].key # "author"
      BY <1>5, <2>1
    <3>2. QED  BY <1>1, <2>1, <3>1, ValueNone
  <2>2. CASE n.author # ""
    <3>0. Len(F) >= 6 /\ F[Len(F) - 1].key = "author"
      BY <1>3, <2>2
    <3>1. Len(F) - 1 \in DOMAIN F /\ F[Len(F) - 1].key = "author"
      BY <1>1, <3>0
    <3>2. F[Len(F) - 1].text = n.author
      BY <1>5, <3>1
    <3>3. \A i \in DOMAIN F : F[i].key = "author" => i = Len(F) - 1
      BY <1>5
    <3>4. QED  BY <1>4, <3>1, <3>2, <3>3
  <2>3. QED  BY <2>1, <2>2
<1>12. Value(F, "status") = n.status
  <2>1. Len(F) \in DOMAIN F
    BY <1>1
  <2>2. F[Len(F)].key = "status" /\ F[Len(F)].text = n.status
    <3>1. F[Len(F)] = Key("status", n.status)
      BY FrontLines DEF F
    <3>2. Key("status", n.status).key = "status" /\ Key("status", n.status).text = n.status
      BY DEF Key
    <3>3. QED  BY <3>1, <3>2
  <2>3. \A i \in DOMAIN F : F[i].key = "status" => i = Len(F)
    BY <1>5
  <2>4. QED  BY <1>4, <2>1, <2>2, <2>3
<1>13. Items(F, "tags") = n.tags
  <2>1. ASSUME NEW t \in n.tags PROVE t \in Items(F, "tags")
    <3>1. PICK i \in DOMAIN F : F[i] = Key("tags", t)
      BY <1>3
    <3>2. F[i].kind = "key" /\ F[i].key = "tags" /\ F[i].text = t
      BY <3>1 DEF Key
    <3>3. QED  BY <3>2 DEF Items
  <2>2. ASSUME NEW t \in Items(F, "tags") PROVE t \in n.tags
    <3>1. PICK i \in DOMAIN F : F[i].key = "tags" /\ F[i].text = t
      BY <2>2 DEF Items
    <3>2. QED  BY <1>5, <3>1
  <2>3. QED  BY <2>1, <2>2
<1>14. QED  BY <1>7, <1>8, <1>9, <1>10, <1>11, <1>12, <1>13 DEF F

\* A note is read back from its own text.
LEMMA ReadBack ==
  ASSUME NEW n \in NoteTypes, GoodText(n)
  PROVE  LET back == Parsed(Markdown(n)) IN
         Parses(Markdown(n)) /\ \A field \in DOMAIN back : back[field] = n[field]
<1> DEFINE F == FrontMatter(n)
           doc == Markdown(n)
           back == Parsed(doc)
<1>1. /\ n.title # "" /\ n.type # "" /\ n.body \in Seq(Line) /\ n.body \in Seq(Foreign)
      /\ Trimmed(n.body) = n.body
  BY NoteTexts
<1>2. F \in Seq(Line) /\ doc = <<Opening>> \o F \o (<<Opening>> \o n.body)
  BY MarkdownIs
<1>3. IsYaml(F) /\ \A i \in DOMAIN F : F[i].kind # "fence"
  BY FrontIsYaml
<1> HIDE DEF F
<1>4. /\ Framed(doc) /\ Closings(doc) # {}
      /\ FrontOf(doc) = F /\ BodyOf(doc) = <<Blank>> \o n.body
  <2> HIDE DEF doc
  <2>1. QED  BY <1>1, <1>2, <1>3, FramedDoc
<1> HIDE DEF doc
<1>5. Parses(doc)
  BY <1>3, <1>4 DEF Parses
<1>6. Trimmed(BodyOf(doc)) = n.body
  BY <1>1, <1>4, TrimmedBlank
<1>7. /\ Value(F, "title") = n.title /\ Value(F, "type") = n.type
      /\ Value(F, "scope") = n.scope /\ Value(F, "project") = n.project
      /\ Value(F, "author") = n.author /\ Value(F, "status") = n.status
      /\ Items(F, "tags") = n.tags
  BY FrontValues DEF F
<1>8. back = [title |-> n.title, type |-> n.type, scope |-> n.scope, project |-> n.project,
              author |-> n.author, status |-> n.status, tags |-> n.tags, body |-> n.body]
  BY <1>1, <1>4, <1>6, <1>7 DEF Parsed, FirstOf
<1> HIDE DEF back
<1>9. \A field \in DOMAIN back : back[field] = n[field]
  BY <1>8
<1>10. QED  BY <1>5, <1>9 DEF doc, back

\* What "openmind get" prints of a note (Markdown of note.go) is read back (Parse) as
\* the same note, for every note the store takes.
THEOREM GetReadsBackCorrect == Spec => []GetReadsBack
<1>1. Inv => GetReadsBack
  <2> SUFFICES ASSUME Inv, NEW n \in ToSet(notes)
               PROVE  LET back == Parsed(Markdown(n)) IN
                      Parses(Markdown(n)) /\ \A field \in DOMAIN back : back[field] = n[field]
    BY DEF GetReadsBack
  <2>1. n \in NoteTypes /\ GoodText(n)
    BY DEF Inv, NotesOK, ToSet
  <2>2. QED  BY <2>1, ReadBack
<1>2. QED  BY <1>1, Invariant, PTL

----------------------------------------------------------------------------
\* What is written of a digest at some time.
Digests == [size : Nat, shown : Seq(Nat), cut : BOOLEAN]

\* Of each type the first notes of list L are shown, whatever follows.
InOrder(L, x) ==
  \A i \in ToSet(x.shown) :
    \E a \in DOMAIN L : L[a] = i /\ \A b \in 1 .. a : notes[L[b]].type = notes[i].type => L[b] \in ToSet(x.shown)

\* A digest of list L after the groups of the types in done, ...
DigestOK(L, done, x) ==
  /\ x \in Digests /\ ToSet(x.shown) \subseteq ToSet(L) /\ InOrder(L, x)
  /\ ~x.cut => \A j \in DOMAIN L : notes[L[j]].type \in done => L[j] \in ToSet(x.shown)
  /\ HeaderSize <= MaxBytes /\ x.cut => x.size <= MaxBytes + HeadingSize + CutSize
  /\ HeaderSize <= MaxBytes /\ ~x.cut => x.size <= MaxBytes

\* ... and in the group of a further type, after the first k notes of the list.
GroupOK(L, type, done, x, k) ==
  /\ x \in Digests /\ ToSet(x.shown) \subseteq ToSet(L) /\ InOrder(L, x)
  /\ ~x.cut => \A j \in DOMAIN L :
       notes[L[j]].type \in done \/ (j <= k /\ notes[L[j]].type = type) => L[j] \in ToSet(x.shown)
  /\ HeaderSize <= MaxBytes /\ x.cut => x.size <= MaxBytes + HeadingSize + CutSize
  /\ HeaderSize <= MaxBytes /\ ~x.cut => x.size <= MaxBytes + HeadingSize
  /\ HeaderSize <= MaxBytes /\ ~x.cut /\ (\E j \in 1 .. k : notes[L[j]].type = type) => x.size <= MaxBytes

\* Lists of notes that have a size.
Listing == {L \in Seq(DOMAIN notes) : \A j \in DOMAIN L : notes[L[j]].title \in DOMAIN LineSize}

\* Notes are found by numbers.
LEMMA NotesAre ==
  ASSUME NotesOK
  PROVE  DOMAIN notes \subseteq Nat /\ notes \in Seq(NoteTypes)
  BY DEF NotesOK

\* A note is written whole, or the digest is cut before it.
LEMMA NoteWritten ==
  ASSUME NEW x \in Digests, NEW n, n.title \in DOMAIN LineSize, NEW i \in Nat
  PROVE  LET y == WriteNote(x, n, i) IN
         /\ y \in Digests
         /\ \/ y.cut /\ y.size = x.size + CutSize /\ y.shown = x.shown
            \/ y.cut = x.cut /\ y.size <= MaxBytes /\ y.shown = Append(x.shown, i)
<1>1. /\ LineSize[n.title] \in Nat /\ CutSize \in Nat /\ MaxBytes \in Nat
      /\ x.size \in Nat /\ x.shown \in Seq(Nat) /\ x.cut \in BOOLEAN
  BY SizeAssumption DEF Digests
<1>2. CASE x.size + LineSize[n.title] > MaxBytes
  <2>1. WriteNote(x, n, i) = [x EXCEPT !.size = x.size + CutSize, !.cut = TRUE]
    BY <1>2 DEF WriteNote, Cut
  <2>2. x.size + CutSize \in Nat /\ TRUE \in BOOLEAN
    BY <1>1
  <2>3. WriteNote(x, n, i) = [size |-> x.size + CutSize, shown |-> x.shown, cut |-> TRUE]
    BY <2>1 DEF Digests
  <2>4. QED  BY <1>1, <2>2, <2>3 DEF Digests
<1>3. CASE ~(x.size + LineSize[n.title] > MaxBytes)
  <2>1. WriteNote(x, n, i) = [x EXCEPT !.size = x.size + LineSize[n.title], !.shown = Append(x.shown, i)]
    BY <1>3 DEF WriteNote
  <2>2. Append(x.shown, i) \in Seq(Nat) /\ x.size + LineSize[n.title] \in Nat
        /\ x.size + LineSize[n.title] <= MaxBytes
    BY <1>1, <1>3
  <2>3. QED  BY <1>1, <2>1, <2>2 DEF Digests
<1>4. QED  BY <1>2, <1>3

\* What a sequence has after one more.
LEMMA AppendIn ==
  ASSUME NEW s \in Seq(Nat), NEW i \in Nat
  PROVE  ToSet(Append(s, i)) = ToSet(s) \union {i}
<1>1. /\ Len(s) \in Nat /\ Append(s, i) \in Seq(Nat) /\ Len(Append(s, i)) = Len(s) + 1
      /\ Append(s, i)[Len(s) + 1] = i /\ \A k \in 1 .. Len(s) : Append(s, i)[k] = s[k]
  OBVIOUS
<1> DEFINE t == Append(s, i)
<1>2. DOMAIN s = 1 .. Len(s) /\ DOMAIN t = 1 .. Len(s) + 1
  BY <1>1
<1> HIDE DEF t
<1>3. \A k \in 1 .. Len(s) + 1 : k = Len(s) + 1 \/ k \in 1 .. Len(s)
  BY <1>1
<1>4. Len(s) + 1 \in 1 .. Len(s) + 1 /\ \A k \in 1 .. Len(s) : k \in 1 .. Len(s) + 1
  BY <1>1
<1>5. t[Len(s) + 1] = i /\ \A k \in 1 .. Len(s) : t[k] = s[k]
  BY <1>1 DEF t
<1>6. ToSet(t) = ToSet(s) \union {i}
  BY <1>2, <1>3, <1>4, <1>5 DEF ToSet
<1>7. QED  BY <1>6 DEF t

\* What a group does with a note of the list.
GroupStep(L, type, x, k) ==
  IF x.cut \/ notes[L[k]].type # type THEN x ELSE WriteNote(x, notes[L[k]], L[k])

\* It keeps what a group has seen to.
LEMMA GroupStepOK ==
  ASSUME NotesOK, NEW L \in Listing, NEW type, NEW done, NEW x, NEW k \in 0 .. Len(L), k < Len(L),
         GroupOK(L, type, done, x, k)
  PROVE  GroupOK(L, type, done, GroupStep(L, type, x, k + 1), k + 1)
<1> DEFINE m == k + 1
           i == L[m]
           y == GroupStep(L, type, x, m)
<1>1. L \in Seq(DOMAIN notes) /\ Len(L) \in Nat /\ DOMAIN L = 1 .. Len(L) /\ m \in DOMAIN L /\ k \in Nat
  BY DEF Listing
<1>2. i \in DOMAIN notes /\ notes[i].title \in DOMAIN LineSize
  BY <1>1 DEF Listing
<1>3. /\ x \in Digests /\ ToSet(x.shown) \subseteq ToSet(L) /\ InOrder(L, x)
      /\ ~x.cut => \A j \in DOMAIN L :
           notes[L[j]].type \in done \/ (j <= k /\ notes[L[j]].type = type) => L[j] \in ToSet(x.shown)
      /\ HeaderSize <= MaxBytes /\ x.cut => x.size <= MaxBytes + HeadingSize + CutSize
      /\ HeaderSize <= MaxBytes /\ ~x.cut => x.size <= MaxBytes + HeadingSize
      /\ HeaderSize <= MaxBytes /\ ~x.cut /\ (\E j \in 1 .. k : notes[L[j]].type = type) => x.size <= MaxBytes
  BY DEF GroupOK
<1>4. \A j \in DOMAIN L : j <= m <=> j <= k \/ j = m
  BY <1>1
<1>5. \A j \in 1 .. m : j \in 1 .. k \/ j = m
  BY <1>1
<1> HIDE DEF m, i, y
<1>6. CASE x.cut \/ notes[i].type # type
  <2>1. y = x
    BY <1>6 DEF y, GroupStep, i
  <2>2. ~x.cut => \A j \in DOMAIN L :
           notes[L[j]].type \in done \/ (j <= m /\ notes[L[j]].type = type) => L[j] \in ToSet(x.shown)
    BY <1>3, <1>4, <1>6 DEF i
  <2>3. HeaderSize <= MaxBytes /\ ~x.cut /\ (\E j \in 1 .. m : notes[L[j]].type = type) => x.size <= MaxBytes
    <3>1. ~x.cut /\ (\E j \in 1 .. m : notes[L[j]].type = type) => \E j \in 1 .. k : notes[L[j]].type = type
      BY <1>5, <1>6 DEF i
    <3>2. QED  BY <1>3, <3>1
  <2>4. GroupOK(L, type, done, x, m)
    BY <1>3, <2>2, <2>3 DEF GroupOK
  <2>5. QED  BY <2>1, <2>4 DEF m, y
<1>7. CASE ~x.cut /\ notes[i].type = type
  <2>1. y = WriteNote(x, notes[i], i)
    BY <1>7 DEF y, GroupStep, i
  <2>2. i \in Nat
    BY <1>1, <1>2, NotesAre
  <2>3. /\ y \in Digests
        /\ \/ y.cut /\ y.size = x.size + CutSize /\ y.shown = x.shown
           \/ y.cut = x.cut /\ y.size <= MaxBytes /\ y.shown = Append(x.shown, i)
    BY <1>2, <1>3, <2>1, <2>2, NoteWritten
  <2>4. x.size \in Nat /\ x.shown \in Seq(Nat) /\ y.size \in Nat /\ y.cut \in BOOLEAN
        /\ HeaderSize \in Nat /\ HeadingSize \in Nat /\ CutSize \in Nat /\ MaxBytes \in Nat
    BY <1>3, <2>3, SizeAssumption DEF Digests
  <2>5. CASE y.cut /\ y.size = x.size + CutSize /\ y.shown = x.shown
    <3>1. InOrder(L, y)
      BY <1>3, <2>5 DEF InOrder
    <3>2. HeaderSize <= MaxBytes => y.size <= MaxBytes + HeadingSize + CutSize
      BY <1>3, <1>7, <2>4, <2>5
    <3>3. GroupOK(L, type, done, y, m)
      BY <1>3, <2>3, <2>5, <3>1, <3>2 DEF GroupOK
    <3>4. QED  BY <3>3 DEF m, y
  <2>6. CASE ~y.cut /\ y.size <= MaxBytes /\ y.shown = Append(x.shown, i)
    <3>1. ToSet(y.shown) = ToSet(x.shown) \union {i}
      BY <2>2, <2>4, <2>6, AppendIn
    <3>2. i \in ToSet(L)
      BY <1>1 DEF i, ToSet
    <3>3. \A j \in DOMAIN L :
             notes[L[j]].type \in done \/ (j <= m /\ notes[L[j]].type = type) => L[j] \in ToSet(y.shown)
      BY <1>3, <1>4, <1>7, <3>1 DEF i
    <3>4. InOrder(L, y)
      <4>1. SUFFICES ASSUME NEW l \in ToSet(y.shown)
                     PROVE  \E a \in DOMAIN L : L[a] = l /\ \A b \in 1 .. a :
                              notes[L[b]].type = notes[l].type => L[b] \in ToSet(y.shown)
        BY DEF InOrder
      <4>2. CASE l = i
        <5>1. L[m] = l /\ m \in DOMAIN L /\ notes[l].type = type
          BY <1>1, <1>7, <4>2 DEF i
        <5>2. \A b \in 1 .. m : b \in DOMAIN L /\ b <= m
          BY <1>1
        <5>3. \A b \in 1 .. m : notes[L[b]].type = notes[l].type => L[b] \in ToSet(y.shown)
          BY <3>3, <5>1, <5>2
        <5>4. QED  BY <5>1, <5>3
      <4>3. CASE l # i
        <5>1. l \in ToSet(x.shown)
          BY <3>1, <4>1, <4>3
        <5>2. QED  BY <1>3, <3>1, <5>1 DEF InOrder
      <4>4. QED  BY <4>2, <4>3
    <3>5. y.size <= MaxBytes + HeadingSize
      BY <2>4, <2>6
    <3>6. GroupOK(L, type, done, y, m)
      BY <1>3, <2>3, <2>6, <3>1, <3>2, <3>3, <3>4, <3>5 DEF GroupOK
    <3>7. QED  BY <3>6 DEF m, y
  <2>7. QED  BY <1>7, <2>3, <2>5, <2>6
<1>8. QED  BY <1>6, <1>7

\* A group adds its type to those that are done.
LEMMA GroupDone ==
  ASSUME NotesOK, NEW L \in Listing, NEW type, NEW done, NEW d, DigestOK(L, done, d)
  PROVE  DigestOK(L, done \union {type}, WriteGroup(notes, d, L, type))
<1> DEFINE n == Len(L)
           h == WriteHeading(d)
           Body(w) == [k \in 0 .. n |->
                         IF k = 0 THEN h
                         ELSE IF w[k - 1].cut \/ notes[L[k]].type # type THEN w[k - 1]
                         ELSE WriteNote(w[k - 1], notes[L[k]], L[k])]
           step == [k \in 1 .. n |-> [x \in Digests |-> GroupStep(L, type, x, k)]]
<1>1. /\ L \in Seq(DOMAIN notes) /\ n \in Nat /\ DOMAIN L = 1 .. n
      /\ \A j \in DOMAIN L : L[j] \in DOMAIN notes /\ L[j] \in Nat /\ notes[L[j]].title \in DOMAIN LineSize
  BY NotesAre DEF Listing
<1>2. /\ d \in Digests /\ d.size \in Nat /\ d.shown \in Seq(Nat) /\ d.cut \in BOOLEAN
      /\ {HeaderSize, HeadingSize, CutSize, MaxBytes} \subseteq Nat
  BY SizeAssumption DEF DigestOK, Digests
<1>3. h \in Digests /\ h.size = d.size + HeadingSize /\ h.shown = d.shown /\ h.cut = d.cut
  BY SMTT(20), <1>2 DEF WriteHeading, Digests
<1>4. CASE d.cut
  <2>1. WriteGroup(notes, d, L, type) = d
    BY <1>4 DEF WriteGroup
  <2>2. QED  BY <1>4, <2>1 DEF DigestOK
<1>5. CASE ~d.cut /\ \A k \in DOMAIN L : notes[L[k]].type # type
  <2>1. WriteGroup(notes, d, L, type) = d
    BY <1>5 DEF WriteGroup
  <2>2. QED  BY <1>5, <2>1 DEF DigestOK
<1>6. CASE ~d.cut /\ \E k \in DOMAIN L : notes[L[k]].type = type
  <2>1. step \in [1 .. n -> [Digests -> Digests]]
    <3>1. ASSUME NEW k \in 1 .. n, NEW x \in Digests PROVE GroupStep(L, type, x, k) \in Digests
      <4>1. L[k] \in Nat /\ notes[L[k]].title \in DOMAIN LineSize
        BY <1>1
      <4>2. WriteNote(x, notes[L[k]], L[k]) \in Digests
        BY <4>1, NoteWritten
      <4>3. QED  BY <4>2 DEF GroupStep
    <3>2. QED  BY <3>1
  <2> HIDE DEF step
  <2>2. PICK g \in [0 .. n -> Digests] : g[0] = h /\ \A k \in 1 .. n : g[k] = step[k][g[k - 1]]
    <3>1. Loops(n, Digests, h, step) # {}
      <4> HIDE DEF h, n
      <4>1. QED  BY <1>1, <1>3, <2>1, Recursion
    <3>2. QED  BY <3>1 DEF Loops
  <2>3. \A k \in 1 .. n : k - 1 \in 0 .. n /\ g[k - 1] \in Digests
    BY <1>1, <2>2
  <2>4. \A k \in 1 .. n : g[k] = GroupStep(L, type, g[k - 1], k)
    BY <2>2, <2>3 DEF step
  <2>5. g = Body(g)
    <3> HIDE DEF h, n
    <3>1. \A k \in 0 .. n : k = 0 \/ k \in 1 .. n
      BY <1>1
    <3>2. ASSUME NEW k \in 0 .. n
          PROVE  g[k] = IF k = 0 THEN h
                        ELSE IF g[k - 1].cut \/ notes[L[k]].type # type THEN g[k - 1]
                        ELSE WriteNote(g[k - 1], notes[L[k]], L[k])
      <4>1. CASE k = 0
        BY <2>2, <4>1
      <4>2. CASE k # 0
        <5>1. k \in 1 .. n
          BY <3>1, <4>2
        <5>2. QED  BY <2>4, <4>2, <5>1 DEF GroupStep
      <4>3. QED  BY <4>1, <4>2
    <3>3. g = [k \in 0 .. n |-> g[k]]
      BY <2>2
    <3>4. QED  BY <3>2, <3>3
  <2> DEFINE c == CHOOSE w : w = Body(w)
  <2>6. c = Body(c)
    <3> HIDE DEF Body
    <3>1. QED  BY <2>5
  <2>7. WriteGroup(notes, d, L, type) = c[n]
    <3>1. ~(d.cut \/ \A k \in DOMAIN L : notes[L[k]].type # type)
      BY <1>6
    <3>2. QED  BY <3>1 DEF WriteGroup
  <2>8. c[0] = h /\ \A k \in 1 .. n : c[k] = GroupStep(L, type, c[k - 1], k)
    <3> HIDE DEF c, h, n
    <3>1. 0 \in 0 .. n /\ \A k \in 1 .. n : k \in 0 .. n /\ k # 0
      BY <1>1
    <3>2. c[0] = h
      BY <2>6, <3>1
    <3>3. ASSUME NEW k \in 1 .. n PROVE c[k] = GroupStep(L, type, c[k - 1], k)
      <4>1. k \in 0 .. n /\ k # 0
        BY <3>1
      <4>2. c[k] = IF k = 0 THEN h
                   ELSE IF c[k - 1].cut \/ notes[L[k]].type # type THEN c[k - 1]
                   ELSE WriteNote(c[k - 1], notes[L[k]], L[k])
        BY <2>6, <4>1
      <4>3. QED  BY <4>1, <4>2 DEF GroupStep
    <3>4. QED  BY <3>2, <3>3
  <2> HIDE DEF c
  <2> DEFINE A == {k \in 0 .. n : GroupOK(L, type, done, c[k], k)}
  <2>9. 0 \in A
    <3>1. \A j \in DOMAIN L : ~(j <= 0)
      BY <1>1
    <3>2. InOrder(L, h)
      BY <1>3 DEF DigestOK, InOrder
    <3>3. HeaderSize <= MaxBytes => h.size <= MaxBytes + HeadingSize
      BY <1>2, <1>3, <1>6 DEF DigestOK
    <3>4. ~h.cut /\ 1 .. 0 = {}
      BY <1>3, <1>6
    <3> HIDE DEF h
    <3>5. GroupOK(L, type, done, h, 0)
      BY <1>3, <3>1, <3>2, <3>3, <3>4 DEF DigestOK, GroupOK
    <3>6. QED  BY <1>1, <2>8, <3>5
  <2>10. ASSUME NEW k \in 0 .. n, k < n, k \in A PROVE k + 1 \in A
    <3>1. k + 1 \in 1 .. n /\ (k + 1) - 1 = k /\ k + 1 \in 0 .. n
      BY <1>1, <2>10
    <3>2. GroupOK(L, type, done, GroupStep(L, type, c[k], k + 1), k + 1)
      BY <2>10, GroupStepOK
    <3>3. c[k + 1] = GroupStep(L, type, c[k], k + 1)
      BY <2>8, <3>1
    <3>4. QED  BY <3>1, <3>2, <3>3
  <2>11. GroupOK(L, type, done, c[n], n)
    <3>1. \A k \in 0 .. n : k \in A
      <4> HIDE DEF A, n
      <4>1. QED  BY <1>1, <2>9, <2>10, UpTo
    <3>2. n \in 0 .. n
      BY <1>1
    <3>3. QED  BY <3>1, <3>2
  <2>12. \A j \in DOMAIN L : j <= n
    BY <1>1
  <2>13. \E j \in 1 .. n : notes[L[j]].type = type
    BY <1>1, <1>6
  <2> HIDE DEF n
  <2>14. DigestOK(L, done \union {type}, c[n])
    BY <2>11, <2>12, <2>13 DEF GroupOK, DigestOK
  <2>15. QED  BY <2>7, <2>14
<1>7. QED  BY <1>2, <1>4, <1>5, <1>6

\* What Render writes of a list of notes of known types.
LEMMA Rendered ==
  ASSUME NotesOK, NEW L \in Listing
  PROVE  DigestOK(L, ToSet(TypeOrder), Render(notes, L))
<1> DEFINE n == Len(TypeOrder)
           Done(k) == {TypeOrder[j] : j \in 1 .. k}
           Body(r) == [k \in 0 .. n |-> IF k = 0 THEN StartDigest
                                        ELSE WriteGroup(notes, r[k - 1], L, TypeOrder[k])]
           All == {x \in Digests : \E done \in SUBSET STRING : DigestOK(L, done, x)}
           step == [k \in 1 .. n |-> [x \in All |-> WriteGroup(notes, x, L, TypeOrder[k])]]
<1>1. /\ n \in Nat /\ DOMAIN TypeOrder = 1 .. n /\ \A k \in 1 .. n : TypeOrder[k] \in STRING
      /\ {HeaderSize, HeadingSize, CutSize, MaxBytes} \subseteq Nat
  BY OrderAssumption, SizeAssumption
<1>2. DigestOK(L, {}, StartDigest)
  <2>1. StartDigest = [size |-> HeaderSize, shown |-> <<>>, cut |-> FALSE] /\ <<>> \in Seq(Nat)
        /\ ToSet(<<>>) = {}
    BY DEF StartDigest, ToSet
  <2>2. StartDigest \in Digests /\ StartDigest.size = HeaderSize /\ StartDigest.shown = <<>>
        /\ ~StartDigest.cut
    BY <1>1, <2>1 DEF Digests
  <2> HIDE <2>1
  <2>3. ToSet(StartDigest.shown) = {}
    BY <2>1, <2>2
  <2>4. QED  BY <2>2, <2>3 DEF DigestOK, InOrder
<1>3. StartDigest \in All
  <2>1. {} \in SUBSET STRING /\ StartDigest \in Digests
    BY <1>2 DEF DigestOK
  <2>2. QED  BY <1>2, <2>1
<1>4. ASSUME NEW k \in 1 .. n, NEW done, NEW x, DigestOK(L, done, x)
      PROVE  DigestOK(L, done \union {TypeOrder[k]}, WriteGroup(notes, x, L, TypeOrder[k]))
  BY <1>4, GroupDone
<1>5. step \in [1 .. n -> [All -> All]]
  <2>1. ASSUME NEW k \in 1 .. n, NEW x \in All
        PROVE  WriteGroup(notes, x, L, TypeOrder[k]) \in All
    <3>1. PICK done \in SUBSET STRING : DigestOK(L, done, x)
      OBVIOUS
    <3>2. done \union {TypeOrder[k]} \in SUBSET STRING
      BY <1>1
    <3>3. DigestOK(L, done \union {TypeOrder[k]}, WriteGroup(notes, x, L, TypeOrder[k]))
      BY <1>4, <3>1
    <3>4. WriteGroup(notes, x, L, TypeOrder[k]) \in Digests
      BY <3>3 DEF DigestOK
    <3>5. QED  BY <3>2, <3>3, <3>4
  <2> HIDE DEF All
  <2>2. QED  BY <2>1
<1> HIDE DEF step, All
<1>6. PICK g \in [0 .. n -> All] : g[0] = StartDigest /\ \A k \in 1 .. n : g[k] = step[k][g[k - 1]]
  <2>1. Loops(n, All, StartDigest, step) # {}
    BY <1>1, <1>3, <1>5, Recursion
  <2>2. QED  BY <2>1 DEF Loops
<1>7. \A k \in 1 .. n : k - 1 \in 0 .. n /\ g[k - 1] \in All
  BY <1>1, <1>6
<1>8. \A k \in 1 .. n : g[k] = WriteGroup(notes, g[k - 1], L, TypeOrder[k])
  BY <1>6, <1>7 DEF step
<1>9. g = Body(g)
  <2> HIDE DEF n
  <2>1. \A k \in 0 .. n : k = 0 \/ k \in 1 .. n
    BY <1>1
  <2>2. \A k \in 0 .. n : g[k] = IF k = 0 THEN StartDigest
                                 ELSE WriteGroup(notes, g[k - 1], L, TypeOrder[k])
    BY <1>6, <1>8, <2>1
  <2>3. g = [k \in 0 .. n |-> g[k]]
    BY <1>6
  <2>4. QED  BY <2>2, <2>3
<1> DEFINE c == CHOOSE r : r = Body(r)
<1>10. c = Body(c)
  <2> HIDE DEF Body
  <2>1. QED  BY <1>9
<1>11. Render(notes, L) = c[n]
  BY DEF Render
<1>12. c[0] = StartDigest /\ \A k \in 1 .. n : c[k] = WriteGroup(notes, c[k - 1], L, TypeOrder[k])
  <2> HIDE DEF c, n
  <2>1. 0 \in 0 .. n /\ \A k \in 1 .. n : k \in 0 .. n /\ k # 0
    BY <1>1
  <2>2. c[0] = StartDigest
    BY <1>10, <2>1
  <2>3. ASSUME NEW k \in 1 .. n PROVE c[k] = WriteGroup(notes, c[k - 1], L, TypeOrder[k])
    <3>1. k \in 0 .. n /\ k # 0
      BY <2>1
    <3>2. c[k] = IF k = 0 THEN StartDigest ELSE WriteGroup(notes, c[k - 1], L, TypeOrder[k])
      BY <1>10, <3>1
    <3>3. QED  BY <3>1, <3>2
  <2>4. QED  BY <2>2, <2>3
<1> HIDE DEF c
<1> DEFINE A == {k \in 0 .. n : DigestOK(L, Done(k), c[k])}
<1>13. 0 \in A
  <2>1. Done(0) = {} /\ 0 \in 0 .. n
    BY <1>1
  <2> HIDE DEF Done
  <2>2. QED  BY <1>2, <1>12, <2>1
<1>14. ASSUME NEW k \in 0 .. n, k < n, k \in A PROVE k + 1 \in A
  <2>1. k + 1 \in 1 .. n /\ (k + 1) - 1 = k /\ k + 1 \in 0 .. n
    BY <1>1, <1>14
  <2>2. \A j : j \in 1 .. k + 1 <=> j \in 1 .. k \/ j = k + 1
    BY <1>1
  <2>3. Done(k + 1) = Done(k) \union {TypeOrder[k + 1]}
    BY <2>2
  <2> HIDE DEF Done
  <2>4. DigestOK(L, Done(k) \union {TypeOrder[k + 1]}, WriteGroup(notes, c[k], L, TypeOrder[k + 1]))
    BY <1>4, <1>14, <2>1
  <2>5. c[k + 1] = WriteGroup(notes, c[k], L, TypeOrder[k + 1])
    BY <1>12, <2>1
  <2>6. QED  BY <2>1, <2>3, <2>4, <2>5
<1>15. DigestOK(L, Done(n), c[n])
  <2> HIDE DEF Done
  <2>1. \A k \in 0 .. n : k \in A
    <3> HIDE DEF A, n
    <3>1. QED  BY <1>1, <1>13, <1>14, UpTo
  <2>2. n \in 0 .. n
    BY <1>1
  <2>3. QED  BY <2>1, <2>2
<1>16. Done(n) = ToSet(TypeOrder)
  BY <1>1 DEF ToSet
<1>17. QED  BY <1>11, <1>15, <1>16

\* The list of an export is one that Render gets.
LEMMA ExportedListing ==
  ASSUME NotesOK
  PROVE  /\ Exported \in Listing
         /\ \A j \in DOMAIN Exported : notes[Exported[j]].type \in ToSet(TypeOrder)
<1>1. Exported \in Seq(DOMAIN notes)
  BY ExportedNotes DEF NotesOK
<1>2. \A i \in DOMAIN notes : notes[i].title \in DOMAIN LineSize /\ notes[i].type \in ToSet(TypeOrder)
  BY DEF NotesOK, GoodText
<1>3. \A j \in DOMAIN Exported : Exported[j] \in DOMAIN notes
  BY <1>1
<1>4. QED  BY <1>1, <1>2, <1>3 DEF Listing

\* A digest is what Render writes of the list.
LEMMA DigestIs ==
  ASSUME NotesOK
  PROVE  DigestOK(Exported, ToSet(TypeOrder), Digest)
  BY ExportedListing, Rendered DEF Digest

\* A digest (Render of digest.go) exceeds its budget by a heading and the line that says
\* it is cut at most, for every list of notes and every budget that the header fits.
THEOREM DigestFitsCorrect == Spec => []DigestFits
<1>1. Inv => DigestFits
  <2> SUFFICES ASSUME Inv, HeaderSize <= MaxBytes PROVE Digest.size <= MaxBytes + HeadingSize + CutSize
    BY DEF DigestFits
  <2>1. DigestOK(Exported, ToSet(TypeOrder), Digest)
    BY DigestIs DEF Inv
  <2> DEFINE d == Digest
  <2> HIDE DEF d
  <2>2. d \in Digests /\ (d.cut => d.size <= MaxBytes + HeadingSize + CutSize)
        /\ (~d.cut => d.size <= MaxBytes)
    BY <2>1 DEF DigestOK, d
  <2>3. d.size \in Nat /\ MaxBytes \in Nat /\ HeadingSize \in Nat /\ CutSize \in Nat
    BY <2>2, SizeAssumption DEF Digests
  <2>4. d.size <= MaxBytes + HeadingSize + CutSize
    BY <2>2, <2>3
  <2>5. QED  BY <2>4 DEF d
<1>2. QED  BY <1>1, Invariant, PTL

\* A digest that is not cut shows every note listed, and one that is leaves out the older
\* ones of each type.
THEOREM DigestTellsCorrect == Spec => []DigestTells
<1>1. Inv => DigestTells
  <2> SUFFICES ASSUME Inv PROVE DigestTells
    OBVIOUS
  <2> DEFINE d == Digest
             L == Exported
  <2>1. NotesOK
    BY DEF Inv
  <2>2. DigestOK(L, ToSet(TypeOrder), d)
    BY <2>1, DigestIs
  <2>3. L \in Seq(DOMAIN notes) /\ \A j \in DOMAIN L : notes[L[j]].type \in ToSet(TypeOrder)
    BY <2>1, ExportedListing DEF Listing
  <2>4. notes \in Seq(NoteTypes) /\ \A i \in DOMAIN notes : notes[i].updated \in Nat
    <3>1. notes \in Seq(NoteTypes)
      BY <2>1 DEF NotesOK
    <3>2. \A i \in DOMAIN notes : notes[i] \in NoteTypes
      BY <3>1
    <3>3. \A i \in DOMAIN notes : notes[i].updated \in 1 .. MaxTime
      BY <3>2 DEF NoteTypes
    <3>4. QED  BY <3>1, <3>3, FilesAssumption
  <2>5. \A j, k \in DOMAIN L : j < k => ~WrittenBefore(notes[L[j]].updated, notes[L[k]].updated)
    BY <2>4, LimitType, Listed DEF Exported
  <2> HIDE DEF d, L
  <2>6. ASSUME ~d.cut PROVE ToSet(d.shown) = ToSet(L)
    <3>1. \A j \in DOMAIN L : L[j] \in ToSet(d.shown)
      BY <2>2, <2>3, <2>6 DEF DigestOK
    <3>2. ToSet(L) \subseteq ToSet(d.shown)
      BY <3>1 DEF ToSet
    <3>3. QED  BY <2>2, <3>2 DEF DigestOK
  <2>7. ASSUME NEW i \in ToSet(L) \ ToSet(d.shown), NEW j \in ToSet(d.shown), notes[i].type = notes[j].type
        PROVE  Second(notes[i].updated) <= Second(notes[j].updated)
    <3>1. PICK a \in DOMAIN L : L[a] = j /\ \A b \in 1 .. a :
                                  notes[L[b]].type = notes[j].type => L[b] \in ToSet(d.shown)
      BY <2>2 DEF DigestOK, InOrder
    <3>2. PICK b \in DOMAIN L : L[b] = i
      BY DEF ToSet
    <3>3. b \notin 1 .. a
      BY <2>7, <3>1, <3>2
    <3>4. a \in Nat /\ b \in Nat /\ b >= 1
      BY <2>3
    <3>5. a < b
      BY <3>3, <3>4
    <3>6. ~WrittenBefore(notes[j].updated, notes[i].updated)
      BY <2>5, <3>1, <3>2, <3>5
    <3>7. i \in DOMAIN notes /\ j \in DOMAIN notes
      BY <2>3, <3>1, <3>2
    <3>8. Second(notes[i].updated) \in Nat /\ Second(notes[j].updated) \in Nat
      BY <2>4, <3>7, StampParts
    <3>9. QED  BY <3>6, <3>8 DEF WrittenBefore
  <2>8. QED  BY <2>6, <2>7 DEF DigestTells, d, L
<1>2. QED  BY <1>1, Invariant, PTL
==============================================================================
