----------------------------- MODULE DataLemmas -----------------------------
(***************************************************************************)
(* Facts about finite sets, sequences and folds that the library does not  *)
(* state.  A fold is a recursive function on the subsets of the domain of  *)
(* a sequence; that it exists is shown here, once, for folds whose values  *)
(* stay in a set.  Induction is over the elements of a set, so that no     *)
(* operator needs to be a parameter.                                       *)
(***************************************************************************)
EXTENDS Integers, FiniteSets, Sequences, SequencesExt,
        FiniteSetTheorems, SequenceTheorems, TLAPS

-----------------------------------------------------------------------------
\* Finite sets and orders

LEMMA NatLeast ==
    ASSUME NEW S \in SUBSET Nat, S # {}
    PROVE  \E n \in S : \A k \in S : n <= k
<1>1. PICK n \in S : \A k \in S : <<k, n>> \notin OpToRel(<, Nat)
  BY NatLessThanWellFounded, WFMin
<1>2. \A k \in S : ~(k < n)
  BY <1>1 DEF OpToRel
<1> QED BY <1>2

\* A finite set that a relation orders totally and transitively has a first
\* element: a smallest counterexample has an element to take away.
LEMMA FiniteFirst ==
    ASSUME NEW S, IsFiniteSet(S), S # {}, NEW R,
           \A x, y \in S : x = y \/ <<x, y>> \in R \/ <<y, x>> \in R,
           \A x, y, z \in S : <<x, y>> \in R /\ <<y, z>> \in R => <<x, z>> \in R
    PROVE  \E m \in S : \A x \in S : m = x \/ <<m, x>> \in R
<1> DEFINE HasFirst(T) == \E m \in T : \A x \in T : m = x \/ <<m, x>> \in R
           Bad == {n \in Nat : \E T \in SUBSET S :
                      T # {} /\ Cardinality(T) = n /\ ~HasFirst(T)}
<1>1. SUFFICES ASSUME ~HasFirst(S) PROVE FALSE
  OBVIOUS
<1>2. Cardinality(S) \in Bad
  <2>1. Cardinality(S) \in Nat
    BY FS_CardinalityType
  <2>2. S \in SUBSET S /\ S # {} /\ ~HasFirst(S)
    BY <1>1
  <2> QED BY <2>1, <2>2
<1>3. PICK n \in Bad : \A k \in Bad : n <= k
  <2>1. Bad \in SUBSET Nat /\ Bad # {}
    BY <1>2
  <2> QED BY <2>1, NatLeast
<1>4. PICK T \in SUBSET S : T # {} /\ Cardinality(T) = n /\ ~HasFirst(T)
  OBVIOUS
<1>5. PICK x \in T : TRUE
  BY <1>4
<1>6. IsFiniteSet(T)
  BY FS_Subset
<1>7. /\ Cardinality(T \ {x}) = n - 1
      /\ n \in Nat /\ n - 1 \in Nat
  <2>1. Cardinality(T \ {x}) = n - 1 /\ IsFiniteSet(T \ {x})
    BY <1>4, <1>5, <1>6, FS_RemoveElement
  <2>2. Cardinality(T \ {x}) \in Nat
    BY <2>1, FS_CardinalityType
  <2> QED BY <2>1, <2>2
<1>8. CASE T \ {x} = {}
  <2>1. \A y \in T : x = y
    BY <1>8
  <2> QED BY <2>1, <1>4, <1>5
<1>9. CASE T \ {x} # {}
  <2>1. HasFirst(T \ {x})
    <3>1. SUFFICES ASSUME ~HasFirst(T \ {x}) PROVE FALSE
      OBVIOUS
    <3>2. T \ {x} \in SUBSET S
      OBVIOUS
    <3>3. n - 1 \in Bad
      BY <1>7, <1>9, <3>1, <3>2
    <3> QED BY <1>3, <1>7, <3>3
  <2>2. PICK m \in T \ {x} : \A y \in T \ {x} : m = y \/ <<m, y>> \in R
    BY <2>1
  <2>3. CASE <<x, m>> \in R
    <3>1. \A y \in T : x = y \/ <<x, y>> \in R
      BY <2>2, <2>3
    <3> QED BY <3>1, <1>4, <1>5
  <2>4. CASE <<m, x>> \in R
    <3>1. \A y \in T : m = y \/ <<m, y>> \in R
      BY <2>2, <2>4
    <3> QED BY <3>1, <1>4
  <2> QED BY <2>2, <2>3, <2>4, <1>5
<1> QED BY <1>8, <1>9

LEMMA MaxProperties ==
    ASSUME NEW S \in SUBSET Nat, IsFiniteSet(S), S # {}
    PROVE  Max(S) \in S /\ \A x \in S : x <= Max(S)
<1> DEFINE R == {p \in S \X S : p[1] > p[2]}
<1>1. \A x, y : <<x, y>> \in R <=> x \in S /\ y \in S /\ x > y
  OBVIOUS
<1>2. \A x \in S : x \in Nat
  OBVIOUS
<1> HIDE DEF R
<1>3. \A x, y \in S : x = y \/ <<x, y>> \in R \/ <<y, x>> \in R
  <2>1. \A x, y \in Nat : x = y \/ x > y \/ y > x
    OBVIOUS
  <2> QED BY <1>1, <1>2, <2>1
<1>4. \A x, y, z \in S : <<x, y>> \in R /\ <<y, z>> \in R => <<x, z>> \in R
  <2>1. \A x, y, z \in Nat : x > y /\ y > z => x > z
    OBVIOUS
  <2> QED BY <1>1, <1>2, <2>1
<1>5. \E m \in S : \A x \in S : m = x \/ <<m, x>> \in R
  BY ZenonT(30), <1>3, <1>4, FiniteFirst
<1>6. PICK m \in S : \A x \in S : m = x \/ m > x
  BY <1>1, <1>5
<1>7. \A x \in S : m >= x
  <2>1. \A x \in Nat : m = x \/ m > x => m >= x
    BY <1>2
  <2> QED BY <1>2, <1>6, <2>1
<1>8. \A x \in S : Max(S) >= x /\ Max(S) \in S
  BY <1>7 DEF Max
<1> QED BY <1>2, <1>8

LEMMA MinProperties ==
    ASSUME NEW S \in SUBSET Nat, S # {}
    PROVE  Min(S) \in S /\ \A x \in S : Min(S) <= x
BY NatLeast DEF Min

\* The image of a finite set under a function is finite.
LEMMA ImageFinite ==
    ASSUME NEW S, IsFiniteSet(S), NEW f, DOMAIN f = S
    PROVE  IsFiniteSet({f[x] : x \in S})
<1> DEFINE T == {f[x] : x \in S}
<1>1. [x \in S |-> f[x]] \in Surjection(S, T)
  BY DEF Surjection
<1> QED BY <1>1, FS_Surjection

-----------------------------------------------------------------------------
\* Induction up to a bound, on the set of numbers with the property.
LEMMA Induct ==
    ASSUME NEW n \in Nat, NEW P, 0 \in P,
           \A k \in 1..n : k - 1 \in P => k \in P
    PROVE  \A k \in 0..n : k \in P
<1> DEFINE Bad == {k \in 0..n : k \notin P}
<1>1. SUFFICES ASSUME Bad # {} PROVE FALSE
  OBVIOUS
<1>2. Bad \in SUBSET Nat
  OBVIOUS
<1>3. PICK k \in Bad : \A j \in Bad : k <= j
  BY <1>1, <1>2, NatLeast
<1>4. k \in 1..n /\ k - 1 \in 0..n /\ ~(k <= k - 1)
  OBVIOUS
<1> QED BY <1>3, <1>4

\* A function on the subsets of a finite set may be defined by recursion that
\* takes one chosen element away.
FoldData(S, V, base, g, c) ==
    /\ IsFiniteSet(S)
    /\ base \in V
    /\ g \in [S -> [V -> V]]
    /\ \A s \in SUBSET S : s # {} => c[s] \in s

IsFold(f, S, V, base, g, c) ==
    /\ f \in [SUBSET S -> V]
    /\ \A s \in SUBSET S : f[s] = IF s = {} THEN base ELSE g[c[s]][f[s \ {c[s]}]]

LEMMA FoldExists ==
    ASSUME NEW S, NEW V, NEW base, NEW g, NEW c, FoldData(S, V, base, g, c)
    PROVE  \E f : IsFold(f, S, V, base, g, c)
<1> USE DEF FoldData
<1> DEFINE N == Cardinality(S)
           Upto(f, k) == \A s \in SUBSET S : Cardinality(s) <= k =>
                            f[s] = IF s = {} THEN base ELSE g[c[s]][f[s \ {c[s]}]]
           P == {k \in Nat : \E f \in [SUBSET S -> V] : Upto(f, k)}
<1>1. \A s \in SUBSET S : IsFiniteSet(s) /\ Cardinality(s) \in 0..N
  <2>1. N \in Nat
    BY FS_CardinalityType
  <2> QED BY <2>1, FS_Subset, FS_CardinalityType
<1>2. \A s \in SUBSET S : s # {} =>
         /\ c[s] \in S /\ s \ {c[s]} \in SUBSET S
         /\ Cardinality(s \ {c[s]}) = Cardinality(s) - 1
  BY <1>1, FS_RemoveElement
<1>3. 0 \in P
  <2>1. \A s \in SUBSET S : Cardinality(s) <= 0 => s = {}
    BY <1>1, FS_EmptySet
  <2> DEFINE f == [s \in SUBSET S |-> base]
  <2>2. f \in [SUBSET S -> V] /\ Upto(f, 0)
    BY <2>1
  <2> QED BY <2>2
<1>4. ASSUME NEW k \in 1..N, k - 1 \in P PROVE k \in P
  <2>1. PICK f \in [SUBSET S -> V] : Upto(f, k - 1)
    BY <1>4
  <2> DEFINE next(s) == IF s = {} THEN base ELSE g[c[s]][f[s \ {c[s]}]]
             h == [s \in SUBSET S |-> next(s)]
  <2>2. \A s \in SUBSET S : next(s) \in V
    BY <1>2
  <2>3. h \in [SUBSET S -> V]
    BY <2>2
  <2>4. ASSUME NEW s \in SUBSET S, Cardinality(s) <= k - 1 PROVE h[s] = f[s]
    BY <2>1, <2>4
  <2>5. ASSUME NEW s \in SUBSET S, Cardinality(s) <= k
        PROVE  h[s] = IF s = {} THEN base ELSE g[c[s]][h[s \ {c[s]}]]
    <3>1. CASE s = {}
      BY <3>1
    <3>2. CASE s # {}
      <4>1. /\ s \ {c[s]} \in SUBSET S
            /\ Cardinality(s \ {c[s]}) <= k - 1
        <5>1. /\ s \ {c[s]} \in SUBSET S
              /\ Cardinality(s \ {c[s]}) = Cardinality(s) - 1
          BY <1>2, <3>2
        <5>2. Cardinality(s) \in Nat /\ k \in Nat
          BY <1>1, FS_CardinalityType
        <5> QED BY <2>5, <5>1, <5>2
      <4>2. h[s \ {c[s]}] = f[s \ {c[s]}]
        BY <2>4, <4>1
      <4> QED BY <3>2, <4>2
    <3> QED BY <3>1, <3>2
  <2>6. k \in Nat
    BY FS_CardinalityType
  <2> HIDE DEF h
  <2> QED BY <2>3, <2>5, <2>6
<1>5. N \in P
  <2>1. N \in Nat /\ N \in 0..N
    BY FS_CardinalityType
  <2> HIDE DEF N, P
  <2>2. \A k \in 0..N : k \in P
    BY <1>3, <1>4, <2>1, Induct
  <2> QED BY <2>1, <2>2
<1> HIDE DEF P
<1>6. PICK f \in [SUBSET S -> V] : Upto(f, N)
  BY <1>5 DEF P
<1>7. \A s \in SUBSET S :
         f[s] = IF s = {} THEN base ELSE g[c[s]][f[s \ {c[s]}]]
  <2>1. \A s \in SUBSET S : Cardinality(s) <= N
    BY <1>1
  <2> HIDE DEF N
  <2> QED BY <1>6, <2>1
<1> QED BY <1>7 DEF IsFold

\* The recursive function behind FoldLeft: it takes away the last element.
StepsOf(g, n, V) == g \in [1..n -> [V -> V]]

IsFoldLeft(f, n, V, base, g) ==
    /\ f \in [SUBSET (1..n) -> V]
    /\ \A s \in SUBSET (1..n) :
          /\ s \ {Max(s)} \in SUBSET (1..n)
          /\ s # {} => Max(s) \in 1..n
          /\ f[s] = IF s = {} THEN base ELSE g[Max(s)][f[s \ {Max(s)}]]

LEMMA FoldLeftExists ==
    ASSUME NEW n \in Nat, NEW V, NEW base \in V, NEW g, StepsOf(g, n, V)
    PROVE  \E f : IsFoldLeft(f, n, V, base, g)
<1> DEFINE S == 1..n
           c == [s \in SUBSET S |-> Max(s)]
<1>1. IsFiniteSet(S)
  BY FS_Interval
<1>2. \A s \in SUBSET S : s # {} => Max(s) \in s
  <2>1. \A s \in SUBSET S : s \in SUBSET Nat /\ IsFiniteSet(s)
    <3>1. S \in SUBSET Nat
      OBVIOUS
    <3> HIDE DEF S
    <3> QED BY <1>1, <3>1, FS_Subset
  <2> QED BY <2>1, MaxProperties
<1>3. FoldData(S, V, base, g, c)
  BY <1>1, <1>2 DEF FoldData, StepsOf
<1>4. PICK f : IsFold(f, S, V, base, g, c)
  BY <1>3, FoldExists
<1>5. /\ f \in [SUBSET S -> V]
      /\ \A s \in SUBSET S :
            f[s] = IF s = {} THEN base ELSE g[Max(s)][f[s \ {Max(s)}]]
  <2>1. \A s \in SUBSET S : c[s] = Max(s)
    OBVIOUS
  <2> HIDE DEF S, c
  <2> QED BY <1>4, <2>1 DEF IsFold
<1>6. \A s \in SUBSET S : s \ {Max(s)} \in SUBSET S /\ (s # {} => Max(s) \in S)
  BY <1>2
<1> QED BY <1>5, <1>6 DEF IsFoldLeft

\* The prefixes of the domain of a sequence, from which a fold is computed.
LEMMA IntervalSteps ==
    ASSUME NEW k \in Nat \ {0}
    PROVE  /\ 1..k # {} /\ Max(1..k) = k
           /\ (1..k) \ {k} = 1..(k - 1)
<1>1. 1..k \in SUBSET Nat /\ IsFiniteSet(1..k) /\ k \in 1..k
  BY FS_Interval
<1>2. Max(1..k) \in 1..k /\ k <= Max(1..k)
  BY <1>1, MaxProperties
<1> QED BY <1>1, <1>2

\* The values a fold goes through, from the base to the result.
IsRun(h, n, V, base, g) ==
    /\ h \in [0..n -> V]
    /\ h[0] = base
    /\ \A k \in 1..n : h[k] = g[k][h[k - 1]]

FoldsTo(c, n, V, base, g) ==
    /\ c[{}] = base
    /\ \A k \in 1..n : c[1..(k - 1)] \in V => c[1..k] = g[k][c[1..(k - 1)]]

LEMMA RunOfFold ==
    ASSUME NEW n \in Nat, NEW V, NEW base \in V, NEW g, NEW c, StepsOf(g, n, V),
           FoldsTo(c, n, V, base, g)
    PROVE  \E h : IsRun(h, n, V, base, g) /\ h[n] = c[1..n]
<1> USE DEF FoldsTo, StepsOf
<1> DEFINE h == [k \in 0..n |-> c[1..k]]
           P == {k \in 0..n : c[1..k] \in V}
<1>1. 1..0 = {}
  OBVIOUS
<1>2. 0 \in P
  BY <1>1
<1>3. \A k \in 1..n : k - 1 \in P => k \in P
  <2>1. \A k \in 1..n : k \in 0..n
    OBVIOUS
  <2> QED BY <2>1
<1>4. \A k \in 0..n : k \in P
  <2> HIDE DEF P
  <2> QED BY <1>2, <1>3, Induct
<1>5. \A k \in 1..n : k \in 0..n /\ k - 1 \in 0..n
  OBVIOUS
<1>6. h \in [0..n -> V] /\ n \in 0..n /\ 0 \in 0..n
  BY <1>4
<1>7. \A k \in 1..n : h[k] = g[k][h[k - 1]]
  BY <1>4, <1>5
<1>8. h[0] = base /\ h[n] = c[1..n]
  BY <1>1
<1> HIDE DEF h
<1> QED BY <1>6, <1>7, <1>8 DEF IsRun

-----------------------------------------------------------------------------
\* The two parts of a concatenation.
LEMMA ConcatParts ==
    ASSUME NEW S, NEW s \in Seq(S), NEW t \in Seq(S)
    PROVE  /\ s \o t \in Seq(S)
           /\ Len(s) \in Nat /\ Len(t) \in Nat
           /\ Len(s \o t) = Len(s) + Len(t)
           /\ \A k \in 1..Len(s) : (s \o t)[k] = s[k]
           /\ \A k \in 1..Len(t) : (s \o t)[Len(s) + k] = t[k]
<1> DEFINE m == Len(s)
           n == Len(t)
           r == s \o t
<1>1. /\ r \in Seq(S) /\ m \in Nat /\ n \in Nat /\ Len(r) = m + n
      /\ \A i \in 1..(m + n) : r[i] = IF i <= m THEN s[i] ELSE t[i - m]
  BY ConcatProperties, LenProperties
<1> HIDE DEF m, n, r
<1>2. ASSUME NEW k \in 1..m PROVE r[k] = s[k]
  <2>1. k \in 1..(m + n) /\ k <= m
    BY <1>1
  <2> QED BY <1>1, <2>1
<1>3. ASSUME NEW k \in 1..n PROVE r[m + k] = t[k]
  <2>1. m + k \in 1..(m + n) /\ ~(m + k <= m) /\ (m + k) - m = k
    BY <1>1
  <2> QED BY <1>1, <2>1
<1> QED BY <1>1, <1>2, <1>3 DEF m, n, r

\* The trees that are left when one is removed, and where they were.
PlaceBefore(i, k) == IF k < i THEN k ELSE k + 1

LEMMA RemoveAtPlaces ==
    ASSUME NEW S, NEW s \in Seq(S), NEW i \in 1..Len(s)
    PROVE  LET r == RemoveAt(s, i)
           IN  /\ DOMAIN r = 1..(Len(s) - 1)
               /\ \A k \in 1..(Len(s) - 1) :
                     PlaceBefore(i, k) \in (1..Len(s)) \ {i} /\ r[k] = s[PlaceBefore(i, k)]
               /\ \A k, l \in 1..(Len(s) - 1) : PlaceBefore(i, k) = PlaceBefore(i, l) => k = l
               /\ \A j \in (1..Len(s)) \ {i} : \E k \in 1..(Len(s) - 1) : PlaceBefore(i, k) = j
<1> DEFINE n == Len(s)
           a == SubSeq(s, 1, i - 1)
           c == SubSeq(s, i + 1, Len(s))
           r == RemoveAt(s, i)
<1>1. /\ n \in Nat /\ i \in Nat \ {0} /\ i <= n
      /\ \A j \in 1..n : s[j] \in S
  BY LenProperties, ElementOfSeq
<1>2. a \in Seq(S) /\ Len(a) = i - 1 /\ \A k \in 1..(i - 1) : a[k] = s[k]
  <2>1. i - 1 \in 0..n /\ 1 \in 1..(n + 1) /\ \A k \in 1..(i - 1) : k \in 1..n
    BY <1>1
  <2>2. \A k \in 1..(i - 1) : s[k] \in S
    BY <1>1, <2>1
  <2>3. /\ a \in Seq(S) /\ Len(a) = IF 1 <= i - 1 THEN (i - 1) - 1 + 1 ELSE 0
        /\ \A k \in 1..((i - 1) - 1 + 1) : a[k] = s[1 + k - 1]
    BY <2>1, <2>2, SubSeqProperties
  <2>4. (i - 1) - 1 + 1 = i - 1 /\ (~(1 <= i - 1) => i - 1 = 0) /\ \A k \in 1..(i - 1) : 1 + k - 1 = k
    BY <1>1
  <2> HIDE DEF a
  <2> QED BY <2>3, <2>4
<1>3. c \in Seq(S) /\ Len(c) = n - i /\ \A k \in 1..(n - i) : c[k] = s[i + k]
  <2>1. n \in 0..n /\ i + 1 \in 1..(n + 1) /\ \A k \in (i + 1)..n : k \in 1..n
    BY <1>1
  <2>2. \A k \in (i + 1)..n : s[k] \in S
    BY <1>1, <2>1
  <2>3. /\ c \in Seq(S) /\ Len(c) = IF i + 1 <= n THEN n - (i + 1) + 1 ELSE 0
        /\ \A k \in 1..(n - (i + 1) + 1) : c[k] = s[i + 1 + k - 1]
    BY <2>1, <2>2, SubSeqProperties
  <2> HIDE DEF c, n
  <2>4. n - (i + 1) + 1 = n - i /\ (~(i + 1 <= n) => n - i = 0) /\ \A k \in 1..(n - i) : i + 1 + k - 1 = i + k
    BY <1>1
  <2> QED BY <2>3, <2>4
<1>4. r = a \o c
  BY DEF RemoveAt
<1> HIDE DEF a, c, r
<1>5. /\ Len(r) = n - 1 /\ DOMAIN r = 1..(n - 1)
      /\ \A k \in 1..(i - 1) : r[k] = s[k]
      /\ \A k \in 1..(n - i) : r[i - 1 + k] = s[i + k]
  <2>1. /\ r \in Seq(S) /\ Len(r) = Len(a) + Len(c)
        /\ \A k \in 1..Len(a) : r[k] = a[k]
        /\ \A k \in 1..Len(c) : r[Len(a) + k] = c[k]
    <3>1. a \in Seq(S) /\ c \in Seq(S)
      BY <1>2, <1>3
    <3> QED BY <1>4, <3>1, ConcatParts
  <2> HIDE DEF n
  <2>2. (i - 1) + (n - i) = n - 1
    BY <1>1
  <2> QED BY <1>2, <1>3, <2>1, <2>2, LenProperties
<1> HIDE DEF n
<1>6. ASSUME NEW k \in 1..(n - 1)
      PROVE  /\ (IF k < i THEN k ELSE k + 1) \in (1..n) \ {i}
             /\ r[k] = s[IF k < i THEN k ELSE k + 1]
  <2>1. CASE k < i
    BY <1>1, <1>5, <2>1
  <2>2. CASE ~(k < i)
    <3>1. k - i + 1 \in 1..(n - i) /\ i - 1 + (k - i + 1) = k /\ i + (k - i + 1) = k + 1
      BY <1>1, <2>2
    <3>2. r[i - 1 + (k - i + 1)] = s[i + (k - i + 1)]
      BY <1>5, <3>1
    <3> QED BY <1>1, <2>2, <3>1, <3>2
  <2> QED BY <2>1, <2>2
<1>7. \A k, l \in 1..(n - 1) :
         (IF k < i THEN k ELSE k + 1) = (IF l < i THEN l ELSE l + 1) => k = l
  BY <1>1
<1>8. ASSUME NEW j \in (1..n) \ {i}
      PROVE  \E k \in 1..(n - 1) : (IF k < i THEN k ELSE k + 1) = j
  <2>1. CASE j < i
    <3>1. j \in 1..(n - 1)
      BY <1>1, <2>1
    <3> QED BY <2>1, <3>1
  <2>2. CASE ~(j < i)
    <3>1. j - 1 \in 1..(n - 1) /\ ~(j - 1 < i) /\ (j - 1) + 1 = j
      BY <1>1, <2>2
    <3> QED BY <3>1
  <2> QED BY <2>1, <2>2
<1> QED BY <1>5, <1>6, <1>7, <1>8 DEF n, r, PlaceBefore
-----------------------------------------------------------------------------
\* The first so many elements of an order of a finite set.
LEMMA FirstOfOrder ==
    ASSUME NEW S, IsFiniteSet(S), NEW s \in SetToSeqs(S), NEW I \in SUBSET DOMAIN s
    PROVE  LET n == Cardinality(I)
               first == SubSeq(s, 1, n)
           IN  /\ s \in Seq(S) /\ n \in 0..Len(s)
               /\ first \in Seq(S) /\ Len(first) = n
               /\ ToSet(first) \subseteq S
               /\ \A j \in DOMAIN first : j \in DOMAIN s /\ first[j] = s[j]
<1> DEFINE n == Cardinality(I)
           first == SubSeq(s, 1, n)
<1>1. Cardinality(S) \in Nat /\ s \in [1..Cardinality(S) -> S]
  BY FS_CardinalityType DEF SetToSeqs
<1>2. s \in Seq(S) /\ Len(s) \in Nat /\ DOMAIN s = 1..Len(s)
  BY <1>1, SeqDef, LenProperties
<1>3. n \in 0..Len(s)
  <2> DEFINE l == Len(s)
  <2>1. IsFiniteSet(1..l) /\ Cardinality(1..l) = l
    <3>1. l \in Nat
      BY <1>2
    <3> HIDE DEF l
    <3>2. IsFiniteSet(1..l)
      BY <3>1, FS_Interval
    <3>3. Cardinality(1..l) = IF 1 > l THEN 0 ELSE l - 1 + 1
      BY <3>1, FS_Interval
    <3> QED BY <3>1, <3>2, <3>3
  <2>2. n \in Nat /\ n <= l
    BY <1>2, <2>1, FS_Subset, FS_CardinalityType
  <2> QED BY <1>2, <2>2
<1> HIDE DEF n
<1>4. \A i \in 1..n : i \in 1..Len(s) /\ s[i] \in S
  BY <1>1, <1>2, <1>3
<1>5. /\ first \in Seq(S) /\ Len(first) = n /\ DOMAIN first = 1..n
      /\ \A i \in 1..n : first[i] = s[i]
  BY <1>2, <1>3, <1>4
<1>6. ToSet(first) \subseteq S
  BY <1>4, <1>5 DEF ToSet
<1> QED BY <1>2, <1>3, <1>4, <1>5, <1>6 DEF n

-----------------------------------------------------------------------------
\* Sums over a finite set

\* Induction over the subsets of a finite set.
LEMMA SubsetInduct ==
    ASSUME NEW S, IsFiniteSet(S), NEW P,
           \A T \in SUBSET S : (\A U \in SUBSET T : U # T => U \in P) => T \in P
    PROVE  \A T \in SUBSET S : T \in P
<1> DEFINE Bad == {T \in SUBSET S : T \notin P}
           sizes == {Cardinality(T) : T \in Bad}
<1>1. SUFFICES ASSUME Bad # {} PROVE FALSE
  OBVIOUS
<1>2. \A T \in SUBSET S : IsFiniteSet(T) /\ Cardinality(T) \in Nat
  BY FS_Subset, FS_CardinalityType
<1>3. sizes \in SUBSET Nat /\ sizes # {}
  BY <1>1, <1>2
<1>4. PICK n \in sizes : \A k \in sizes : n <= k
  <2> HIDE DEF sizes
  <2> QED BY <1>3, NatLeast
<1>5. PICK T \in Bad : Cardinality(T) = n
  OBVIOUS
<1>6. ASSUME NEW U \in SUBSET T, U # T PROVE U \in P
  <2>1. Cardinality(U) < Cardinality(T) /\ U \in SUBSET S
    BY <1>2, <1>5, <1>6, FS_Subset
  <2>2. Cardinality(U) \in Nat /\ Cardinality(T) \in Nat
    BY <1>2, <1>5
  <2>3. U \notin Bad
    BY <1>4, <1>5, <2>1, <2>2
  <2> QED BY <2>1, <2>3
<1> QED BY <1>5, <1>6

\* The sum of f over a set.
SumOf(f, S) == MapThenSumSet(LAMBDA x : f[x], S)

\* What SumOf computes, for every subset of S.
IsSum(sum, S, f) ==
    \A T \in SUBSET S :
        LET x == CHOOSE y \in T : TRUE
        IN  /\ sum[T] \in Int
            /\ sum[T] = IF T = {} THEN 0 ELSE f[x] + sum[T \ {x}]

LEMMA SumExists ==
    ASSUME NEW S, IsFiniteSet(S), NEW f, \A x \in S : f[x] \in Int
    PROVE  \E sum : IsSum(sum, S, f) /\ SumOf(f, S) = sum[S]
<1> DEFINE first(T) == CHOOSE y \in T : TRUE
           Good(h) == h = [T \in SUBSET S |->
                             IF T = {} THEN 0 ELSE f[first(T)] + h[T \ {first(T)}]]
           g == [x \in S |-> [v \in Int |-> f[x] + v]]
           c == [T \in SUBSET S |-> first(T)]
           sum == CHOOSE h : Good(h)
<1>1. SumOf(f, S) = sum[S]
  BY DEF SumOf, MapThenSumSet, MapThenFoldSet
<1>2. \A T \in SUBSET S : T # {} => first(T) \in T
  OBVIOUS
<1> HIDE DEF first
<1>3. FoldData(S, Int, 0, g, c)
  BY <1>2 DEF FoldData
<1>4. PICK h : IsFold(h, S, Int, 0, g, c)
  <2> HIDE DEF g, c
  <2> QED BY <1>3, FoldExists
<1>5. h \in [SUBSET S -> Int]
  BY <1>4 DEF IsFold
<1>6. ASSUME NEW T \in SUBSET S
      PROVE  h[T] = IF T = {} THEN 0 ELSE f[first(T)] + h[T \ {first(T)}]
  <2>1. T # {} => first(T) \in S /\ T \ {first(T)} \in SUBSET S
    BY <1>2
  <2> QED BY <1>4, <1>5, <2>1 DEF IsFold
<1>7. Good(h)
  BY <1>5, <1>6
<1>8. Good(sum)
  <2> HIDE DEF Good
  <2> QED BY <1>7
<1> HIDE DEF sum
<1>9. sum = h
  <2>1. DOMAIN sum = SUBSET S /\ DOMAIN h = SUBSET S /\ sum = [T \in SUBSET S |-> sum[T]]
    BY <1>5, <1>8
  <2> DEFINE P == {T \in SUBSET S : sum[T] = h[T]}
  <2>2. ASSUME NEW T \in SUBSET S, \A U \in SUBSET T : U # T => U \in P PROVE T \in P
    <3>1. CASE T = {}
      BY <1>6, <1>8, <3>1
    <3>2. CASE T # {}
      <4>1. T \ {first(T)} \in SUBSET T /\ T \ {first(T)} # T
        BY <1>2, <3>2
      <4>2. sum[T \ {first(T)}] = h[T \ {first(T)}]
        BY <2>2, <4>1
      <4>3. sum[T] = f[first(T)] + sum[T \ {first(T)}]
        BY <1>8, <3>2
      <4> QED BY <1>6, <3>2, <4>2, <4>3
    <3> QED BY <3>1, <3>2
  <2>3. \A T \in SUBSET S : T \in P
    <3> HIDE DEF P
    <3> QED BY <2>2, SubsetInduct
  <2>4. \A T \in SUBSET S : sum[T] = h[T]
    BY <2>3
  <2>5. h = [T \in SUBSET S |-> h[T]]
    BY <1>5
  <2> QED BY <2>1, <2>4, <2>5
<1>10. IsSum(h, S, f)
  BY <1>5, <1>6 DEF IsSum, first
<1> QED BY <1>1, <1>9, <1>10

\* The sum over a subset is the same, taken alone.
LEMMA SumOfPart ==
    ASSUME NEW S, IsFiniteSet(S), NEW f, \A x \in S : f[x] \in Int,
           NEW sum, IsSum(sum, S, f), NEW T \in SUBSET S
    PROVE  SumOf(f, T) = sum[T] /\ sum[T] \in Int
<1>1. IsFiniteSet(T)
  BY FS_Subset
<1>2. PICK part : IsSum(part, T, f) /\ SumOf(f, T) = part[T]
  BY <1>1, SumExists
<1> DEFINE P == {U \in SUBSET T : part[U] = sum[U]}
           first(U) == CHOOSE y \in U : TRUE
<1>3. ASSUME NEW U \in SUBSET T, \A V \in SUBSET U : V # U => V \in P PROVE U \in P
  <2>1. /\ part[U] = IF U = {} THEN 0 ELSE f[first(U)] + part[U \ {first(U)}]
        /\ sum[U] = IF U = {} THEN 0 ELSE f[first(U)] + sum[U \ {first(U)}]
    BY <1>2 DEF IsSum
  <2>2. U # {} => first(U) \in U
    OBVIOUS
  <2> HIDE DEF first
  <2>3. U # {} => part[U \ {first(U)}] = sum[U \ {first(U)}]
    BY <1>3, <2>2
  <2> QED BY <2>1, <2>3
<1>4. \A U \in SUBSET T : U \in P
  <2> HIDE DEF P
  <2> QED BY <1>1, <1>3, SubsetInduct
<1>5. part[T] = sum[T]
  BY <1>4
<1>6. sum[T] \in Int
  BY DEF IsSum
<1> QED BY <1>2, <1>5, <1>6

\* The sum over a finite set is the sum without any one element, and that element.
LEMMA SumStep ==
    ASSUME NEW S, IsFiniteSet(S), NEW f, \A x \in S : f[x] \in Int
    PROVE  /\ SumOf(f, {}) = 0
           /\ SumOf(f, S) \in Int
           /\ \A x \in S : SumOf(f, S) = f[x] + SumOf(f, S \ {x})
<1>1. PICK sum : IsSum(sum, S, f) /\ SumOf(f, S) = sum[S]
  BY SumExists
<1>2. \A T \in SUBSET S : SumOf(f, T) = sum[T] /\ sum[T] \in Int
  BY <1>1, SumOfPart
<1>3. sum[{}] = 0
  BY <1>1 DEF IsSum
<1> DEFINE Splits(T) == \A x \in T : sum[T] = f[x] + sum[T \ {x}]
           P == {T \in SUBSET S : Splits(T)}
<1>4. ASSUME NEW T \in SUBSET S, \A U \in SUBSET T : U # T => U \in P PROVE T \in P
  <2>1. ASSUME NEW x \in T PROVE sum[T] = f[x] + sum[T \ {x}]
    <3> DEFINE y == CHOOSE z \in T : TRUE
               R == (T \ {x}) \ {y}
    <3>1. y \in T /\ sum[T] = f[y] + sum[T \ {y}]
      BY <1>1 DEF IsSum
    <3> HIDE DEF y
    <3>2. CASE y = x
      BY <3>1, <3>2
    <3>3. CASE y # x
      <4>1. /\ T \ {x} \in SUBSET T /\ T \ {x} # T /\ y \in T \ {x}
            /\ T \ {y} \in SUBSET T /\ T \ {y} # T /\ x \in T \ {y}
            /\ (T \ {y}) \ {x} = R /\ R \in SUBSET S
        BY <3>1, <3>3
      <4>2. sum[T \ {x}] = f[y] + sum[R] /\ sum[T \ {y}] = f[x] + sum[R]
        <5>1. Splits(T \ {x}) /\ Splits(T \ {y})
          BY <1>4, <4>1
        <5> HIDE DEF R
        <5> QED BY <4>1, <5>1 DEF R
      <4>3. f[x] \in Int /\ f[y] \in Int /\ sum[R] \in Int
        BY <1>2, <3>1, <4>1
      <4> QED BY <3>1, <4>2, <4>3
    <3> QED BY <3>2, <3>3
  <2> QED BY <2>1
<1>5. \A T \in SUBSET S : T \in P
  <2> HIDE DEF P
  <2> QED BY <1>4, SubsetInduct
<1>6. \A x \in S : sum[S] = f[x] + sum[S \ {x}]
  BY <1>5
<1>7. S \in SUBSET S /\ {} \in SUBSET S /\ \A x : S \ {x} \in SUBSET S
  OBVIOUS
<1> HIDE DEF P
<1> QED BY <1>2, <1>3, <1>6, <1>7
\* Of what is not negative a smaller set has the smaller sum.
LEMMA SumGrows ==
    ASSUME NEW S, IsFiniteSet(S), NEW f, \A x \in S : f[x] \in Nat, NEW T \in SUBSET S
    PROVE  SumOf(f, T) \in Nat /\ SumOf(f, S) \in Nat /\ SumOf(f, T) <= SumOf(f, S)
<1>1. \A U \in SUBSET S : IsFiniteSet(U) /\ \A x \in U : f[x] \in Int
  BY FS_Subset
<1>2. \A U \in SUBSET S : /\ SumOf(f, U) \in Int
                          /\ \A x \in U : SumOf(f, U) = f[x] + SumOf(f, U \ {x})
  BY <1>1, SumStep
<1>3. SumOf(f, {}) = 0
  <2>1. IsFiniteSet({}) /\ \A x \in {} : f[x] \in Int
    BY <1>1
  <2> QED BY <2>1, SumStep
<1> DEFINE P == {U \in SUBSET S : \A R \in SUBSET U : SumOf(f, R) <= SumOf(f, U)}
<1>4. ASSUME NEW U \in SUBSET S, \A V \in SUBSET U : V # U => V \in P PROVE U \in P
  <2>1. ASSUME NEW R \in SUBSET U PROVE SumOf(f, R) <= SumOf(f, U)
    <3>1. CASE R = U
      BY <1>2, <3>1
    <3>2. CASE R # U
      <4>1. PICK x \in U : x \notin R
        BY <3>2
      <4>2. R \in SUBSET (U \ {x}) /\ U \ {x} \in P
        BY <1>4, <4>1
      <4>3. SumOf(f, R) <= SumOf(f, U \ {x})
        BY <4>2
      <4>4. SumOf(f, U) = f[x] + SumOf(f, U \ {x}) /\ f[x] \in Nat
        BY <1>2
      <4>5. SumOf(f, R) \in Int /\ SumOf(f, U \ {x}) \in Int
        BY <1>2
      <4> QED BY <4>3, <4>4, <4>5
    <3> QED BY <3>1, <3>2
  <2> QED BY <2>1
<1>5. \A U \in SUBSET S : U \in P
  <2> HIDE DEF P
  <2> QED BY <1>4, SubsetInduct
<1>6. SumOf(f, T) <= SumOf(f, S) /\ 0 <= SumOf(f, T) /\ 0 <= SumOf(f, S)
  <2>1. S \in P /\ T \in P /\ {} \in SUBSET S /\ {} \in SUBSET T
    BY <1>5
  <2> QED BY <1>3, <2>1
<1> QED BY <1>2, <1>6

\* Sums over two sets whose elements correspond.
Corresponds(e, S, R, f, g) ==
    /\ R = {e[x] : x \in S}
    /\ \A x, y \in S : e[x] = e[y] => x = y
    /\ \A x \in S : f[x] = g[e[x]]

LEMMA SumImage ==
    ASSUME NEW S, IsFiniteSet(S), NEW f, \A x \in S : f[x] \in Int,
           NEW e, NEW R, NEW g, Corresponds(e, S, R, f, g)
    PROVE  SumOf(f, S) = SumOf(g, R) /\ IsFiniteSet(R)
<1> USE DEF Corresponds
<1> DEFINE image(U) == {e[x] : x \in U}
<1>1. \A U \in SUBSET S : IsFiniteSet(U) /\ \A x \in U : f[x] \in Int
  BY FS_Subset
<1>2. \A U \in SUBSET S : IsFiniteSet(image(U)) /\ \A r \in image(U) : g[r] \in Int
  <2>1. ASSUME NEW U \in SUBSET S PROVE IsFiniteSet(image(U))
    <3> DEFINE h == [x \in U |-> e[x]]
    <3>1. IsFiniteSet({h[x] : x \in U})
      <4>1. DOMAIN h = U /\ IsFiniteSet(U)
        BY <1>1
      <4> HIDE DEF h
      <4> QED BY <4>1, ImageFinite
    <3>2. {h[x] : x \in U} = image(U)
      OBVIOUS
    <3> QED BY <3>1, <3>2
  <2>2. ASSUME NEW U \in SUBSET S, NEW r \in image(U) PROVE g[r] \in Int
    BY <1>1
  <2> QED BY <2>1, <2>2
<1>3. \A U \in SUBSET S : \A x \in U : SumOf(f, U) = f[x] + SumOf(f, U \ {x})
  BY <1>1, SumStep
<1>4. \A U \in SUBSET S : \A r \in image(U) :
         SumOf(g, image(U)) = g[r] + SumOf(g, image(U) \ {r})
  <2> HIDE DEF image
  <2> QED BY <1>2, SumStep
<1>5. SumOf(f, {}) = 0 /\ SumOf(g, {}) = 0
  <2>1. IsFiniteSet({}) /\ (\A x \in {} : f[x] \in Int) /\ \A x \in {} : g[x] \in Int
    BY <1>1
  <2> QED BY <2>1, SumStep
<1> DEFINE P == {U \in SUBSET S : SumOf(f, U) = SumOf(g, image(U))}
<1>6. ASSUME NEW U \in SUBSET S, \A V \in SUBSET U : V # U => V \in P PROVE U \in P
  <2>1. CASE U = {}
    <3>1. image(U) = {}
      BY <2>1
    <3> QED BY <1>5, <2>1, <3>1
  <2>2. CASE U # {}
    <3>1. PICK x \in U : TRUE
      BY <2>2
    <3>2. U \ {x} \in P
      BY <1>6
    <3>3. image(U \ {x}) = image(U) \ {e[x]} /\ e[x] \in image(U)
      OBVIOUS
    <3>4. SumOf(f, U) = f[x] + SumOf(f, U \ {x})
      BY <1>3
    <3>5. SumOf(g, image(U)) = g[e[x]] + SumOf(g, image(U) \ {e[x]})
      BY <1>4, <3>3
    <3>6. f[x] = g[e[x]]
      OBVIOUS
    <3> HIDE DEF image
    <3> QED BY <3>2, <3>3, <3>4, <3>5, <3>6
  <2> QED BY <2>1, <2>2
<1>7. \A U \in SUBSET S : U \in P
  <2> HIDE DEF P
  <2> QED BY <1>6, SubsetInduct
<1>8. SumOf(f, S) = SumOf(g, image(S)) /\ image(S) = R /\ IsFiniteSet(image(S))
  BY <1>2, <1>7
<1> QED BY <1>8

FirstOf(s, k) == {s[i] : i \in 1..k}

\* Adding up along a sequence without repetitions.
LEMMA SumAlong ==
    ASSUME NEW k \in Nat \ {0}, NEW s, \A i, j \in 1..k : s[i] = s[j] => i = j,
           NEW f, \A i \in 1..k : f[s[i]] \in Int
    PROVE  SumOf(f, FirstOf(s, k)) = f[s[k]] + SumOf(f, FirstOf(s, k - 1))
<1> DEFINE S == {s[i] : i \in 1..k}
           h == [i \in 1..k |-> s[i]]
<1>1. IsFiniteSet(S)
  <2>1. IsFiniteSet(1..k) /\ DOMAIN h = 1..k
    BY FS_Interval
  <2>2. S = {h[i] : i \in 1..k}
    OBVIOUS
  <2> HIDE DEF h, S
  <2> QED BY <2>1, <2>2, ImageFinite
<1>2. s[k] \in S /\ \A x \in S : f[x] \in Int
  OBVIOUS
<1>3. S \ {s[k]} = {s[i] : i \in 1..(k - 1)}
  <2>1. ASSUME NEW x \in S, x # s[k] PROVE x \in {s[i] : i \in 1..(k - 1)}
    <3>1. PICK i \in 1..k : x = s[i]
      OBVIOUS
    <3>2. i \in 1..(k - 1)
      BY <2>1, <3>1
    <3> QED BY <3>1, <3>2
  <2>2. ASSUME NEW i \in 1..(k - 1) PROVE s[i] \in S /\ s[i] # s[k]
    <3>1. i \in 1..k /\ k \in 1..k /\ i # k
      OBVIOUS
    <3> QED BY <3>1
  <2> QED BY <2>1, <2>2
<1> HIDE DEF S
<1>4. SumOf(f, S) = f[s[k]] + SumOf(f, S \ {s[k]})
  BY <1>1, <1>2, SumStep
<1> QED BY <1>3, <1>4 DEF S, FirstOf

\* A set of places with which all earlier ones are in it.
LEMMA FirstPlaces ==
    ASSUME NEW n \in Nat, NEW C \in SUBSET (1..n),
           \A k \in C : \A j \in 1..k : j \in C
    PROVE  Cardinality(C) \in 0..n /\ C = 1..Cardinality(C)
<1>1. IsFiniteSet(1..n)
  BY FS_Interval
<1>2. IsFiniteSet(C)
  BY <1>1, FS_Subset
<1>3. CASE C = {}
  BY <1>3, FS_EmptySet
<1>4. CASE C # {}
  <2> DEFINE m == Max(C)
  <2>1. m \in C /\ \A x \in C : x <= m
    <3>1. C \in SUBSET Nat
      OBVIOUS
    <3> QED BY <1>2, <1>4, <3>1, MaxProperties
  <2> HIDE DEF m
  <2>2. C = 1..m /\ m \in 1..n
    <3>1. m \in 1..n /\ \A x \in C : x \in 1..n /\ x <= m
      BY <2>1
    <3>2. \A x \in C : x \in 1..m
      BY <3>1
    <3>3. \A x \in 1..m : x \in C
      BY <2>1
    <3> QED BY <3>1, <3>2, <3>3
  <2>3. Cardinality(1..m) = m
    BY <2>2, FS_Interval
  <2> QED BY <2>2, <2>3
<1> QED BY <1>3, <1>4

\* An image under a function that keeps elements apart is as large as the set.
LEMMA ImageCardinality ==
    ASSUME NEW S, IsFiniteSet(S), NEW e, NEW R, R = {e[x] : x \in S},
           \A x, y \in S : e[x] = e[y] => x = y
    PROVE  IsFiniteSet(R) /\ Cardinality(R) = Cardinality(S)
<1> DEFINE b == [x \in S |-> e[x]]
<1>1. b \in Bijection(S, R)
  BY DEF Bijection, Injection, IsInjective, Surjection
<1> HIDE DEF b
<1>2. ExistsBijection(S, R)
  BY <1>1 DEF ExistsBijection
<1> QED BY <1>2, FS_Bijection
=============================================================================
