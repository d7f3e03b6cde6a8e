-------------------------- MODULE ChainDataProofs --------------------------
(***************************************************************************)
(* What the operators on a forest of blocks and on a UTXO set keep: lemmas *)
(* for the proofs about the chain state and about the file it is saved in. *)
(*                                                                         *)
(* The first part is about BlockForest.  The second is about UtxoSet,      *)
(* whatever transactions its operations are given: the loops over inputs,  *)
(* outputs and transactions are folds; a lemma for each lays its           *)
(* intermediate sets out, and the others go from one to the next.          *)
(***************************************************************************)
EXTENDS BlockForest, UtxoSet, DataLemmas

-----------------------------------------------------------------------------
\* Partitioning and sorting a vector of trees

LEMMA DepthType ==
    ASSUME NEW t \in Tree
    PROVE  Depth(t) \in Nat
<1> DEFINE lens == {Len(n.at) : n \in t}
           f == [n \in t |-> Len(n.at)]
<1>1. lens \in SUBSET Nat /\ lens # {}
  <2>1. \A n \in t : n.at \in Seq(Nat \ {0})
    BY DEF Tree, Node, Position
  <2>2. \A n \in t : Len(n.at) \in Nat
    BY <2>1, LenProperties
  <2>3. t # {}
    BY DEF Tree, IsTree
  <2> QED BY <2>2, <2>3
<1>2. IsFiniteSet(lens)
  <2>1. IsFiniteSet({f[n] : n \in t})
    BY ImageFinite DEF Tree
  <2>2. {f[n] : n \in t} = lens
    OBVIOUS
  <2> QED BY <2>1, <2>2
<1> QED BY <1>1, <1>2, MaxProperties DEF Depth

\* The order of the partitioned and sorted vector is a strict total order.
LEMMA AheadOrder ==
    ASSUME NEW trees \in Seq(Tree), NEW anchor
    PROVE  LET I == DOMAIN trees
               A(i, j) == Ahead(trees, anchor, i, j)
           IN  /\ \A i \in I : ~A(i, i)
               /\ \A i, j \in I : i = j \/ A(i, j) \/ A(j, i)
               /\ \A i, j, k \in I : A(i, j) /\ A(j, k) => A(i, k)
<1> DEFINE att(k) == Attached(trees[k], anchor)
           deep(k) == Depth(trees[k])
           A(i, j) == Ahead(trees, anchor, i, j)
<1>1. \A i \in DOMAIN trees : i \in Nat /\ deep(i) \in Nat /\ att(i) \in BOOLEAN
  BY DepthType DEF Attached
<1>2. \A i, j \in DOMAIN trees :
         A(i, j) <=> \/ att(i) /\ ~att(j)
                     \/ att(i) /\ att(j) /\ deep(i) < deep(j)
                     \/ att(i) = att(j) /\ i < j /\ (att(i) => deep(i) = deep(j))
  BY DEF Ahead
<1> HIDE DEF att, deep, A
<1>3. \A i \in DOMAIN trees : ~A(i, i)
  BY <1>1, <1>2
<1>4. \A i, j \in DOMAIN trees : i = j \/ A(i, j) \/ A(j, i)
  BY <1>1, <1>2
<1>5. \A i, j, k \in DOMAIN trees : A(i, j) /\ A(j, k) => A(i, k)
  BY <1>1, <1>2
<1> QED BY <1>3, <1>4, <1>5 DEF A

\* Places are 1 .. Len(trees), each taken once: what comes no later than i is a
\* proper subset of what comes no later than any j that i is ahead of.
LEMMA PlacePermutes ==
    ASSUME NEW trees \in Seq(Tree), NEW anchor
    PROVE  /\ \A i \in DOMAIN trees : Place(trees, anchor, i) \in DOMAIN trees
           /\ \A k \in DOMAIN trees :
                 \E i \in DOMAIN trees : Place(trees, anchor, i) = k
<1> DEFINE I == DOMAIN trees
           A(i, j) == Ahead(trees, anchor, i, j)
           Up(i) == {j \in I : j = i \/ A(j, i)}
           place == [i \in I |-> Place(trees, anchor, i)]
<1>1. /\ \A i \in I : ~A(i, i)
      /\ \A i, j \in I : i = j \/ A(i, j) \/ A(j, i)
      /\ \A i, j, k \in I : A(i, j) /\ A(j, k) => A(i, k)
  BY AheadOrder
<1>2. I = 1..Len(trees) /\ Len(trees) \in Nat
  BY LenProperties
<1>3. IsFiniteSet(I) /\ Cardinality(I) = Len(trees)
  BY SMTT(30), <1>2, FS_Interval
<1>4. \A i \in I : Place(trees, anchor, i) = Cardinality(Up(i))
  BY DEF Place
<1> HIDE DEF A
<1>5. \A i \in I : IsFiniteSet(Up(i)) /\ Up(i) \in SUBSET I /\ i \in Up(i)
  <2> TAKE i \in I
  <2>1. Up(i) \in SUBSET I /\ i \in Up(i)
    OBVIOUS
  <2> QED BY <2>1, <1>3, FS_Subset
<1>6. \A i \in I : Cardinality(Up(i)) \in I
  <2> TAKE i \in I
  <2>1. Cardinality(Up(i)) \in Nat /\ Cardinality(Up(i)) <= Cardinality(I)
    BY <1>3, <1>5, FS_Subset, FS_CardinalityType
  <2>2. Cardinality(Up(i)) # 0
    BY <1>5, FS_EmptySet
  <2> QED BY <2>1, <2>2, <1>2, <1>3
<1>7. \A i, j \in I : A(i, j) => Cardinality(Up(i)) # Cardinality(Up(j))
  <2> SUFFICES ASSUME NEW i \in I, NEW j \in I, A(i, j),
                      Cardinality(Up(i)) = Cardinality(Up(j))
               PROVE  FALSE
    OBVIOUS
  <2>1. Up(i) \in SUBSET Up(j)
    BY <1>1
  <2>2. Up(i) = Up(j)
    BY <2>1, <1>5, FS_Subset
  <2>3. j \in Up(i)
    BY <2>2, <1>5
  <2> QED BY <2>3, <1>1
<1> HIDE DEF Up
<1>8. place \in Injection(I, I)
  <2>1. place \in [I -> I]
    BY <1>4, <1>6
  <2>2. \A i, j \in I : place[i] = place[j] => i = j
    BY <1>1, <1>4, <1>7
  <2> QED BY <2>1, <2>2 DEF Injection, IsInjective
<1>9. place \in Surjection(I, I)
  BY <1>3, <1>8, FS_Injection
<1> QED BY <1>4, <1>6, <1>9 DEF Surjection

LEMMA PartitionedType ==
    ASSUME NEW T \in SUBSET Tree, NEW trees \in Seq(T), NEW anchor
    PROVE  /\ Partitioned(trees, anchor) \in Seq(T)
           /\ Len(Partitioned(trees, anchor)) = Len(trees)
<1> DEFINE from(k) == CHOOSE i \in DOMAIN trees : Place(trees, anchor, i) = k
           sorted == [k \in 1..Len(trees) |-> trees[from(k)]]
<1>1. trees \in Seq(Tree) /\ DOMAIN trees = 1..Len(trees) /\ Len(trees) \in Nat
  BY SeqMonotonic, LenProperties
<1>2. \A k \in DOMAIN trees : from(k) \in DOMAIN trees
  BY <1>1, PlacePermutes
<1>3. \A k \in 1..Len(trees) : trees[from(k)] \in T
  <2> HIDE DEF from
  <2>1. \A i \in 1..Len(trees) : trees[i] \in T
    BY ElementOfSeq
  <2> QED BY <1>1, <1>2, <2>1
<1>4. Partitioned(trees, anchor) = sorted
  BY <1>1 DEF Partitioned
<1> HIDE DEF from
<1>5. sorted \in Seq(T) /\ Len(sorted) = Len(trees)
  <2>1. sorted \in [1..Len(trees) -> T]
    BY <1>3
  <2>2. sorted \in Seq(T)
    BY <1>1, <2>1, SeqDef
  <2>3. DOMAIN sorted = 1..Len(sorted) /\ Len(sorted) \in Nat
    BY <2>2, LenProperties
  <2> QED BY <1>1, <2>2, <2>3
<1> QED BY <1>4, <1>5

LEMMA NumAttachedType ==
    ASSUME NEW trees \in Seq(Tree), NEW anchor
    PROVE  NumAttached(trees, anchor) \in 0..Len(trees)
<1> DEFINE attached == {i \in DOMAIN trees : Attached(trees[i], anchor)}
<1>1. DOMAIN trees = 1..Len(trees) /\ Len(trees) \in Nat
  BY LenProperties
<1>2. IsFiniteSet(1..Len(trees)) /\ Cardinality(1..Len(trees)) = Len(trees)
  BY SMTT(30), <1>1, FS_Interval
<1>3. attached \in SUBSET (1..Len(trees))
  BY <1>1
<1>4. Cardinality(attached) \in Nat /\ Cardinality(attached) <= Len(trees)
  BY <1>2, <1>3, FS_Subset, FS_CardinalityType
<1> QED BY <1>1, <1>4 DEF NumAttached

\* The attached trees come first, so that the tree that pop() takes, the last of
\* them, does follow the anchor: the assertion of insert_block cannot fail.
LEMMA FirstAreAttached ==
    ASSUME NEW trees \in Seq(Tree), NEW anchor, NEW k \in 1..NumAttached(trees, anchor)
    PROVE  Attached(Partitioned(trees, anchor)[k], anchor)
<1> DEFINE I == DOMAIN trees
           n == NumAttached(trees, anchor)
           attached == {i \in I : Attached(trees[i], anchor)}
           Up(i) == {j \in I : j = i \/ Ahead(trees, anchor, j, i)}
           i == CHOOSE x \in I : Place(trees, anchor, x) = k
<1>1. I = 1..Len(trees) /\ Len(trees) \in Nat
  BY LenProperties
<1>2. k \in I /\ n \in Nat
  BY <1>1, NumAttachedType
<1>3. i \in I /\ Place(trees, anchor, i) = k
  BY <1>2, PlacePermutes
<1>4. Partitioned(trees, anchor)[k] = trees[i]
  BY <1>2 DEF Partitioned
<1> HIDE DEF i
<1>5. SUFFICES ASSUME ~Attached(trees[i], anchor) PROVE FALSE
  BY <1>4
<1>6. \A j \in attached : Ahead(trees, anchor, j, i)
  BY <1>5 DEF Ahead
<1>7. attached \cup {i} \in SUBSET Up(i)
  BY <1>3, <1>6
<1>8. IsFiniteSet(I) /\ IsFiniteSet(Up(i)) /\ IsFiniteSet(attached)
  <2>1. IsFiniteSet(I)
    BY <1>1, FS_Interval
  <2>2. Up(i) \in SUBSET I /\ attached \in SUBSET I
    OBVIOUS
  <2> QED BY <2>1, <2>2, FS_Subset
<1>9. Cardinality(Up(i)) = k /\ Cardinality(attached) = n
  BY <1>3 DEF Place, NumAttached
<1>10. Cardinality(attached \cup {i}) = n + 1
  <2>1. i \notin attached
    BY <1>5
  <2> QED BY <2>1, <1>8, <1>9, FS_AddElement
<1>11. Cardinality(attached \cup {i}) <= Cardinality(Up(i))
  BY <1>7, <1>8, FS_Subset
<1>12. k <= n /\ k \in Nat
  BY <1>1, <1>2
<1> HIDE DEF n
<1> QED BY <1>2, <1>9, <1>10, <1>11, <1>12

-----------------------------------------------------------------------------
\* Positions

LEMMA PositionFacts ==
    ASSUME NEW p \in Position
    PROVE  /\ Len(p) \in Nat
           /\ \A i \in 1..Len(p) : p[i] \in Nat \ {0}
           /\ \A i \in Nat \ {0} : Index(p, i) \in Nat
           /\ \A i \in Nat \ {0} : Index(p, i) > 0 <=> i <= Len(p)
<1>1. Len(p) \in Nat /\ \A i \in 1..Len(p) : p[i] \in Nat \ {0}
  BY DEF Position
<1>2. \A i \in Nat \ {0} : i <= Len(p) => Index(p, i) \in Nat \ {0}
  BY <1>1 DEF Index
<1>3. \A i \in Nat : ~(i <= Len(p)) => Index(p, i) = 0
  BY DEF Index
<1> QED BY <1>1, <1>2, <1>3

LEMMA BeforeTotal ==
    ASSUME NEW p \in Position, NEW q \in Position
    PROVE  p = q \/ Before(p, q) \/ Before(q, p)
<1> DEFINE D == {i \in Nat \ {0} : Index(p, i) # Index(q, i)}
<1>1. CASE D = {}
  <2>1. \A i \in Nat \ {0} : Index(p, i) = Index(q, i)
    BY <1>1
  <2>2. \A i \in Nat \ {0} : i <= Len(p) <=> i <= Len(q)
    BY <2>1, PositionFacts
  <2>3. Len(p) = Len(q)
    <3>1. Len(p) \in Nat /\ Len(q) \in Nat
      BY PositionFacts
    <3> QED BY <2>2, <3>1
  <2>4. \A i \in 1..Len(p) : p[i] = q[i]
    <3>1. Len(p) \in Nat
      BY PositionFacts
    <3>2. \A i \in 1..Len(p) : i \in Nat \ {0} /\ i <= Len(p) /\ i <= Len(q)
      BY <2>3, <3>1
    <3>3. \A i \in 1..Len(p) : Index(p, i) = p[i] /\ Index(q, i) = q[i]
      BY <3>2 DEF Index
    <3> QED BY <2>1, <3>2, <3>3
  <2> QED BY <2>3, <2>4, SeqEqual DEF Position
<1>2. CASE D # {}
  <2>1. PICK i \in D : \A j \in D : i <= j
    BY <1>2, NatLeast
  <2>2. \A j \in 1..(i - 1) : Index(p, j) = Index(q, j)
    BY <2>1
  <2>3. Index(p, i) \in Nat /\ Index(q, i) \in Nat /\ Index(p, i) # Index(q, i)
    BY PositionFacts
  <2>4. /\ Index(p, i) > 0 => i \in 1..Len(p)
        /\ Index(q, i) > 0 => i \in 1..Len(q)
    BY PositionFacts
  <2>5. CASE Index(p, i) < Index(q, i)
    <3>1. i \in 1..Len(q)
      BY <2>3, <2>4, <2>5
    <3> QED BY <2>2, <2>5, <3>1 DEF Before
  <2>6. CASE Index(q, i) < Index(p, i)
    <3>1. i \in 1..Len(p)
      BY <2>3, <2>4, <2>6
    <3> QED BY <2>2, <2>6, <3>1 DEF Before
  <2> QED BY <2>3, <2>5, <2>6
<1> QED BY <1>1, <1>2

LEMMA BeforeTransitive ==
    ASSUME NEW p \in Position, NEW q \in Position, NEW r \in Position,
           Before(p, q), Before(q, r)
    PROVE  Before(p, r)
<1>1. PICK i \in 1..Len(q) : /\ Index(p, i) < Index(q, i)
                             /\ \A k \in 1..(i - 1) : Index(p, k) = Index(q, k)
  BY DEF Before
<1>2. PICK j \in 1..Len(r) : /\ Index(q, j) < Index(r, j)
                             /\ \A k \in 1..(j - 1) : Index(q, k) = Index(r, k)
  BY DEF Before
<1>3. /\ Len(q) \in Nat /\ Len(r) \in Nat
      /\ \A k \in Nat \ {0} : /\ Index(p, k) \in Nat
                              /\ Index(q, k) \in Nat
                              /\ Index(r, k) \in Nat
                              /\ Index(r, k) > 0 <=> k <= Len(r)
  BY PositionFacts
<1>4. i \in Nat \ {0} /\ j \in Nat \ {0}
  BY SMTT(30), <1>3
<1>5. CASE i < j
  <2>1. Index(q, i) = Index(r, i) /\ Index(p, i) < Index(r, i)
    BY <1>1, <1>2, <1>3, <1>4, <1>5
  <2>2. i \in 1..Len(r)
    BY <1>2, <1>3, <1>4, <1>5
  <2>3. \A k \in 1..(i - 1) : Index(p, k) = Index(r, k)
    BY <1>1, <1>2, <1>4, <1>5
  <2> QED BY <2>1, <2>2, <2>3 DEF Before
<1>6. CASE i = j
  <2>1. Index(p, j) < Index(r, j)
    BY <1>1, <1>2, <1>3, <1>4, <1>6
  <2>2. \A k \in 1..(j - 1) : Index(p, k) = Index(r, k)
    BY <1>1, <1>2, <1>4, <1>6
  <2> QED BY <2>1, <2>2 DEF Before
<1>7. CASE j < i
  <2>1. Index(p, j) = Index(q, j) /\ Index(p, j) < Index(r, j)
    BY <1>1, <1>2, <1>3, <1>4, <1>7
  <2>2. \A k \in 1..(j - 1) : Index(p, k) = Index(r, k)
    BY <1>1, <1>2, <1>4, <1>7
  <2> QED BY <2>1, <2>2 DEF Before
<1> QED BY <1>4, <1>5, <1>6, <1>7

\* find_mut() finds a block that the tree has.
LEMMA FindProperties ==
    ASSUME NEW t \in Tree, NEW b, HasBlock(t, b)
    PROVE  /\ Find(t, b) \in Position
           /\ \E n \in t : n.at = Find(t, b) /\ n.block = b
<1> DEFINE nodes == {m \in t : m.block = b}
           places == {n.at : n \in nodes}
           R == {pq \in places \X places : Before(pq[1], pq[2])}
<1>1. \A n \in t : n.at \in Position
  BY DEF Tree, Node
<1>2. \A p \in places : p \in Position
  BY <1>1
<1>3. places # {}
  BY DEF HasBlock
<1>4. IsFiniteSet(places)
  <2> DEFINE f == [n \in nodes |-> n.at]
  <2>1. IsFiniteSet(nodes)
    <3>1. IsFiniteSet(t) /\ nodes \in SUBSET t
      BY DEF Tree
    <3> QED BY <3>1, FS_Subset
  <2>2. IsFiniteSet({f[n] : n \in nodes})
    BY <2>1, ImageFinite
  <2>3. {f[n] : n \in nodes} = places
    OBVIOUS
  <2> QED BY <2>2, <2>3
<1>5. \A p, q : <<p, q>> \in R <=> p \in places /\ q \in places /\ Before(p, q)
  OBVIOUS
<1> HIDE DEF R
<1>6. \A p, q \in places : p = q \/ <<p, q>> \in R \/ <<q, p>> \in R
  BY <1>2, <1>5, BeforeTotal
<1>7. \A p, q, r \in places : <<p, q>> \in R /\ <<q, r>> \in R => <<p, r>> \in R
  BY <1>2, <1>5, BeforeTransitive
<1> HIDE DEF places
<1>8. \E p \in places : \A q \in places : p = q \/ <<p, q>> \in R
  BY <1>3, <1>4, <1>6, <1>7, FiniteFirst
<1>9. \E p \in places : \A q \in places : p = q \/ Before(p, q)
  BY <1>5, <1>8
<1>10. Find(t, b) \in places
  BY <1>9 DEF Find, places
<1> QED BY <1>2, <1>10 DEF places

-----------------------------------------------------------------------------
\* The algebra of positions: children, prefixes, and positions below a position

LEMMA ChildPosition ==
    ASSUME NEW p \in Position, NEW k \in Nat \ {0}
    PROVE  /\ Append(p, k) \in Position
           /\ Append(p, k) # <<>>
           /\ Len(Append(p, k)) = Len(p) + 1
           /\ Append(p, k)[Len(p) + 1] = k
           /\ SubSeq(Append(p, k), 1, Len(p)) = p
           /\ Front(Append(p, k)) = p
           /\ Last(Append(p, k)) = k
<1> DEFINE c == Append(p, k)
<1>1. /\ c \in Position /\ c # <<>> /\ Len(c) = Len(p) + 1 /\ c[Len(p) + 1] = k
      /\ \A i \in 1..Len(p) : c[i] = p[i]
  BY SMTT(30), AppendProperties DEF Position
<1>2. Len(p) \in Nat /\ p \in Seq(Nat \ {0})
  BY PositionFacts DEF Position
<1> HIDE DEF c
<1>3. \A i \in 1..Len(p) : c[i] \in Nat \ {0}
  BY <1>1, <1>2, ElementOfSeq
<1>4. /\ SubSeq(c, 1, Len(p)) \in Seq(Nat \ {0})
      /\ Len(SubSeq(c, 1, Len(p))) = Len(p)
      /\ \A i \in 1..Len(p) : SubSeq(c, 1, Len(p))[i] = c[i]
  BY <1>2, <1>3, SubSeqProperties
<1>5. SubSeq(c, 1, Len(p)) = p
  BY <1>1, <1>2, <1>4, SeqEqual
<1>6. Len(c) - 1 = Len(p)
  BY <1>1, <1>2
<1> QED BY <1>1, <1>5, <1>6 DEF c, Front, Last

LEMMA ParentPosition ==
    ASSUME NEW p \in Position, p # <<>>
    PROVE  /\ Front(p) \in Position
           /\ Last(p) \in Nat \ {0}
           /\ Len(p) \in Nat \ {0}
           /\ Len(Front(p)) = Len(p) - 1
           /\ Append(Front(p), Last(p)) = p
<1>1. PICK q \in Seq(Nat \ {0}), k \in Nat \ {0} : p = Append(q, k)
  BY SequenceEmptyOrAppend DEF Position
<1>2. q \in Position /\ Front(p) = q /\ Last(p) = k /\ Len(p) = Len(q) + 1
  BY <1>1, ChildPosition DEF Position
<1>3. Len(q) \in Nat
  BY <1>2, PositionFacts
<1> QED BY <1>1, <1>2, <1>3

LEMMA PrefixPosition ==
    ASSUME NEW p \in Position, NEW n \in 0..Len(p)
    PROVE  /\ SubSeq(p, 1, n) \in Position
           /\ Len(SubSeq(p, 1, n)) = n
           /\ \A i \in 1..n : SubSeq(p, 1, n)[i] = p[i]
<1>1. Len(p) \in Nat /\ \A i \in 1..Len(p) : p[i] \in Nat \ {0}
  BY PositionFacts
<1>2. n \in Nat /\ \A i \in 1..n : p[i] \in Nat \ {0}
  BY <1>1
<1>3. /\ SubSeq(p, 1, n) \in Seq(Nat \ {0})
      /\ Len(SubSeq(p, 1, n)) = IF 1 <= n THEN n - 1 + 1 ELSE 0
      /\ \A i \in 1..(n - 1 + 1) : SubSeq(p, 1, n)[i] = p[1 + i - 1]
  BY <1>2, SubSeqProperties
<1> QED BY <1>2, <1>3 DEF Position

LEMMA Below ==
    ASSUME NEW p \in Position, NEW q \in Position
    PROVE  /\ p \o q \in Position
           /\ Len(p \o q) = Len(p) + Len(q)
           /\ \A j \in 1..Len(p) : /\ (p \o q)[j] = p[j]
                                   /\ SubSeq(p \o q, 1, j - 1) = SubSeq(p, 1, j - 1)
           /\ \A j \in 1..Len(q) :
                 /\ (p \o q)[Len(p) + j] = q[j]
                 /\ SubSeq(p \o q, 1, Len(p) + j - 1) = p \o SubSeq(q, 1, j - 1)
<1> DEFINE c == p \o q
<1>1. /\ c \in Position /\ Len(c) = Len(p) + Len(q)
      /\ \A i \in 1..(Len(p) + Len(q)) :
            c[i] = IF i <= Len(p) THEN p[i] ELSE q[i - Len(p)]
  BY ConcatProperties DEF Position
<1>2. Len(p) \in Nat /\ Len(q) \in Nat
  BY PositionFacts
<1> HIDE DEF c
<1>3. \A j \in 1..Len(p) : c[j] = p[j]
  BY <1>1, <1>2
<1>4. \A j \in 1..Len(q) : c[Len(p) + j] = q[j]
  BY <1>1, <1>2
<1>5. ASSUME NEW j \in 1..Len(p)
      PROVE  SubSeq(c, 1, j - 1) = SubSeq(p, 1, j - 1)
  <2>1. j - 1 \in 0..Len(c) /\ j - 1 \in 0..Len(p) /\ 1..(j - 1) \subseteq 1..Len(p)
    BY <1>1, <1>2
  <2>2. /\ SubSeq(c, 1, j - 1) \in Position /\ SubSeq(p, 1, j - 1) \in Position
        /\ Len(SubSeq(c, 1, j - 1)) = j - 1 /\ Len(SubSeq(p, 1, j - 1)) = j - 1
        /\ \A i \in 1..(j - 1) : SubSeq(c, 1, j - 1)[i] = c[i]
        /\ \A i \in 1..(j - 1) : SubSeq(p, 1, j - 1)[i] = p[i]
    BY <1>1, <2>1, PrefixPosition
  <2>3. \A i \in 1..(j - 1) : SubSeq(c, 1, j - 1)[i] = SubSeq(p, 1, j - 1)[i]
    BY <1>3, <2>1, <2>2
  <2> QED BY <2>2, <2>3, SeqEqual DEF Position
<1>6. ASSUME NEW j \in 1..Len(q)
      PROVE  SubSeq(c, 1, Len(p) + j - 1) = p \o SubSeq(q, 1, j - 1)
  <2> DEFINE l == SubSeq(c, 1, Len(p) + j - 1)
             h == SubSeq(q, 1, j - 1)
             r == p \o h
  <2>1. Len(p) + j - 1 \in 0..Len(c) /\ j - 1 \in 0..Len(q)
    BY <1>1, <1>2
  <2>2. /\ l \in Position /\ Len(l) = Len(p) + j - 1
        /\ \A i \in 1..(Len(p) + j - 1) : l[i] = c[i]
    BY <1>1, <2>1, PrefixPosition
  <2>3. /\ h \in Position /\ Len(h) = j - 1
        /\ \A i \in 1..(j - 1) : h[i] = q[i]
    BY <2>1, PrefixPosition
  <2>4. /\ r \in Position /\ Len(r) = Len(p) + Len(h)
        /\ \A i \in 1..(Len(p) + Len(h)) :
              r[i] = IF i <= Len(p) THEN p[i] ELSE h[i - Len(p)]
    BY <2>3, ConcatProperties DEF Position
  <2> HIDE DEF l, h, r
  <2>5. \A i \in 1..(Len(p) + j - 1) : l[i] = r[i]
    <3> TAKE i \in 1..(Len(p) + j - 1)
    <3>1. CASE i <= Len(p)
      BY <1>1, <1>2, <2>1, <2>2, <2>3, <2>4, <3>1
    <3>2. CASE ~(i <= Len(p))
      <4>1. i - Len(p) \in 1..(j - 1) /\ i - Len(p) \in 1..Len(q)
        BY <1>2, <3>2
      <4>2. c[i] = q[i - Len(p)] /\ r[i] = h[i - Len(p)]
        BY <1>1, <1>2, <2>3, <2>4, <3>2
      <4> QED BY <2>2, <2>3, <4>1, <4>2
    <3> QED BY <3>1, <3>2
  <2>6. l = r
    <3>1. Len(l) = Len(r) /\ \A i \in 1..Len(l) : l[i] = r[i]
      BY <1>2, <2>2, <2>3, <2>4, <2>5
    <3> QED BY <3>1, <2>2, <2>4, SeqEqual DEF Position
  <2> QED BY <2>6 DEF l, r, h
<1> QED BY <1>1, <1>3, <1>4, <1>5, <1>6 DEF c

\* A step down below a position, and back up.
LEMMA BelowChild ==
    ASSUME NEW p \in Position, NEW q \in Position, NEW k \in Nat \ {0}
    PROVE  p \o Append(q, k) = Append(p \o q, k)
<1>1. /\ Append(q, k) = q \o <<k>>
      /\ Append(p \o q, k) = (p \o q) \o <<k>>
      /\ <<k>> \in Seq(Nat \ {0})
  BY SMTT(30), AppendIsConcat, Below DEF Position
<1> QED BY <1>1, ConcatAssociative DEF Position

LEMMA BelowCancel ==
    ASSUME NEW p \in Position, NEW q \in Position, NEW r \in Position,
           p \o q = p \o r
    PROVE  q = r
BY ConcatSimplifications DEF Position

LEMMA BelowParent ==
    ASSUME NEW p \in Position, NEW q \in Position, q # <<>>
    PROVE  p \o q # <<>> /\ Front(p \o q) = p \o Front(q)
<1>1. /\ Front(q) \in Position /\ Last(q) \in Nat \ {0}
      /\ Append(Front(q), Last(q)) = q
  BY ParentPosition
<1>2. /\ p \o Append(Front(q), Last(q)) = Append(p \o Front(q), Last(q))
      /\ p \o Front(q) \in Position
  BY <1>1, BelowChild, Below
<1> DEFINE up == p \o Front(q)
<1>3. Append(up, Last(q)) # <<>> /\ Front(Append(up, Last(q))) = up
  BY <1>1, <1>2, ChildPosition
<1> QED BY <1>1, <1>2, <1>3

-----------------------------------------------------------------------------
\* Trees

LEMMA TreeFacts ==
    ASSUME NEW t \in Tree
    PROVE  /\ IsFiniteSet(t)
           /\ \A n \in t : /\ n.at \in Position /\ n.block \in Blocks
                           /\ n = [at |-> n.at, block |-> n.block]
           /\ \E n \in t : n.at = <<>>
           /\ \A n, m \in t : n.at = m.at => n = m
           /\ \A n \in t : \A j \in 1..Len(n.at) : \A k \in 1..n.at[j] :
                 \E m \in t : m.at = Append(SubSeq(n.at, 1, j - 1), k)
BY DEF Tree, IsTree, Node

LEMMA RootProperties ==
    ASSUME NEW t \in Tree
    PROVE  /\ Root(t) \in Blocks
           /\ \A n \in t : n.at = <<>> => n.block = Root(t)
<1> DEFINE r == CHOOSE n \in t : n.at = <<>>
<1>1. r \in t /\ r.at = <<>>
  BY TreeFacts
<1>2. Root(t) = r.block
  BY DEF Root
<1> HIDE DEF r
<1> QED BY <1>1, <1>2, TreeFacts

\* With a node at or below the i-th child of a position, all the children up to
\* the i-th are there.
LEMMA EarlierSiblings ==
    ASSUME NEW t \in Tree, NEW n \in t, NEW p \in Position, NEW i \in Nat \ {0},
           NEW q \in Position, n.at = Append(p, i) \o q, NEW k \in 1..i
    PROVE  \E m \in t : m.at = Append(p, k)
<1> DEFINE c == Append(p, i)
           d == Len(p) + 1
<1>1. /\ c \in Position /\ Len(c) = d /\ c[d] = i /\ SubSeq(c, 1, Len(p)) = p
      /\ Len(p) \in Nat /\ Len(q) \in Nat
  BY ChildPosition, PositionFacts
<1> HIDE DEF c
<1>2. d \in 1..Len(c) /\ d - 1 = Len(p)
  BY <1>1
<1>3. Len(n.at) = d + Len(q) /\ n.at[d] = i /\ SubSeq(n.at, 1, d - 1) = SubSeq(c, 1, d - 1)
  <2>1. n.at = c \o q
    BY DEF c
  <2>2. /\ Len(c \o q) = Len(c) + Len(q)
        /\ \A j \in 1..Len(c) : /\ (c \o q)[j] = c[j]
                                /\ SubSeq(c \o q, 1, j - 1) = SubSeq(c, 1, j - 1)
    BY <1>1, Below
  <2>3. (c \o q)[d] = c[d] /\ SubSeq(c \o q, 1, d - 1) = SubSeq(c, 1, d - 1)
    BY <1>2, <2>2
  <2> QED BY <1>1, <2>1, <2>2, <2>3
<1>4. SubSeq(n.at, 1, d - 1) = p
  BY <1>1, <1>2, <1>3
<1>5. d \in 1..Len(n.at) /\ k \in 1..n.at[d]
  BY <1>1, <1>3
<1> HIDE DEF d
<1>6. \E m \in t : m.at = Append(SubSeq(n.at, 1, d - 1), k)
  <2>1. \A j \in 1..Len(n.at) : \A x \in 1..n.at[j] :
           \E m \in t : m.at = Append(SubSeq(n.at, 1, j - 1), x)
    BY ZenonT(30), TreeFacts
  <2> QED BY <1>5, <2>1
<1> QED BY <1>4, <1>6

\* The children in use below a position are 1 .. NumChildren.
LEMMA NumChildrenProperties ==
    ASSUME NEW t \in Tree, NEW p \in Position
    PROVE  /\ NumChildren(t, p) \in Nat
           /\ \A k \in Nat \ {0} :
                 (\E m \in t : m.at = Append(p, k)) <=> k \in 1..NumChildren(t, p)
<1> DEFINE kids == {m \in t : m.at # <<>> /\ Front(m.at) = p}
           f == [n \in kids |-> Last(n.at)]
           lasts == {Last(n.at) : n \in kids}
           N == NumChildren(t, p)
<1>1. \A n \in kids : Last(n.at) \in Nat \ {0} /\ Append(p, Last(n.at)) = n.at
  BY TreeFacts, ParentPosition
<1>2. IsFiniteSet(lasts)
  <2>1. IsFiniteSet(kids)
    <3>1. kids \in SUBSET t
      OBVIOUS
    <3> QED BY <3>1, TreeFacts, FS_Subset
  <2>2. IsFiniteSet({f[n] : n \in kids})
    BY <2>1, ImageFinite
  <2>3. {f[n] : n \in kids} = lasts
    OBVIOUS
  <2> QED BY <2>2, <2>3
<1>3. N \in {0} \cup lasts /\ \A x \in {0} \cup lasts : x <= N
  <2> DEFINE S == {0} \cup lasts
  <2>1. S \in SUBSET Nat /\ S # {}
    BY <1>1
  <2>2. IsFiniteSet(S)
    BY <1>2, FS_AddElement
  <2>3. Max(S) \in S /\ \A x \in S : x <= Max(S)
    <3> HIDE DEF S
    <3> QED BY <2>1, <2>2, MaxProperties
  <2> QED BY <2>3 DEF NumChildren
<1>4. N \in Nat
  BY <1>1, <1>3
<1> HIDE DEF N
<1>5. ASSUME NEW k \in Nat \ {0}, NEW m \in t, m.at = Append(p, k)
      PROVE  k \in 1..N
  <2>1. m \in kids /\ Last(m.at) = k
    BY <1>5, ChildPosition
  <2>2. k \in lasts
    BY <2>1
  <2>3. k <= N
    BY <1>3, <2>2
  <2> QED BY <1>4, <2>3
<1>6. ASSUME NEW k \in 1..N
      PROVE  \E m \in t : m.at = Append(p, k)
  <2>1. N \in lasts
    BY <1>3, <1>4, <1>6
  <2>2. PICK n \in kids : Last(n.at) = N
    BY <2>1
  <2>3. n \in t /\ n.at = Append(p, N) /\ N \in Nat \ {0}
    BY <1>1, <2>2
  <2>4. <<>> \in Position /\ n.at = Append(p, N) \o <<>>
    BY <2>3, ChildPosition, ConcatEmptySeq, EmptySeq DEF Position
  <2> QED BY ZenonT(30), <2>3, <2>4, EarlierSiblings
<1> QED BY <1>4, <1>5, <1>6 DEF N

\* Nothing in a tree lies at or below the position of the next child.
LEMMA NextChildFree ==
    ASSUME NEW t \in Tree, NEW p \in Position, NEW q \in Position, NEW n \in t
    PROVE  n.at # Append(p, NumChildren(t, p) + 1) \o q
<1> DEFINE c == NumChildren(t, p) + 1
<1>1. SUFFICES ASSUME n.at = Append(p, c) \o q PROVE FALSE
  OBVIOUS
<1>2. NumChildren(t, p) \in Nat /\ c \in Nat \ {0}
  BY NumChildrenProperties
<1> HIDE DEF c
<1>3. c \in 1..c
  BY <1>2
<1>4. \E m \in t : m.at = Append(p, c)
  BY ZenonT(30), <1>1, <1>2, <1>3, EarlierSiblings
<1>5. c \in 1..NumChildren(t, p)
  BY <1>2, <1>4, NumChildrenProperties
<1> QED BY <1>2, <1>5 DEF c

\* The trees whose edges are hash links.
Linked ==
    {t \in Tree :
        \A n, m \in t : m.at # <<>> /\ n.at = Front(m.at) => Prev[m.block] = n.block}

LEMMA LeafLinked ==
    ASSUME NEW b \in Blocks
    PROVE  Leaf(b) \in Linked /\ Root(Leaf(b)) = b
<1> DEFINE l == [at |-> <<>>, block |-> b]
<1>1. Leaf(b) = {l}
  BY DEF Leaf
<1>2. l \in Node /\ l.at = <<>> /\ l.block = b
  BY EmptySeq DEF Node, Position
<1>3. IsFiniteSet({l})
  BY FS_Singleton
<1> HIDE DEF l
<1>4. IsTree({l})
  <2>1. Len(<<>>) = 0
    BY EmptySeq
  <2>2. \A j \in 1..Len(l.at) : FALSE
    BY <1>2, <2>1
  <2> QED BY <1>2, <2>2 DEF IsTree
<1>5. {l} \in Tree
  BY <1>2, <1>3, <1>4 DEF Tree
<1>6. {l} \in Linked
  BY <1>2, <1>5 DEF Linked
<1>7. Root({l}) = b
  BY <1>2, <1>5, RootProperties
<1> QED BY <1>1, <1>6, <1>7

\* Grafting a tree below the block that its root follows, or nothing at all,
\* keeps a tree a tree and its edges hash links.
LEMMA GraftLinked ==
    ASSUME NEW t \in Linked, NEW h \in t, NEW s \in Linked \cup {{}},
           s # {} => Prev[Root(s)] = h.block
    PROVE  /\ Graft(t, h.at, s) \in Linked
           /\ t \subseteq Graft(t, h.at, s)
           /\ Root(Graft(t, h.at, s)) = Root(t)
<1> DEFINE p == h.at
           c == NumChildren(t, p) + 1
           top == Append(p, c)
           moved(n) == [at |-> top \o n.at, block |-> n.block]
           new == {moved(n) : n \in s}
           g == Graft(t, p, s)
<1>1. t \in Tree /\ p \in Position /\ h.block \in Blocks
  BY TreeFacts DEF Linked
<1>2. NumChildren(t, p) \in Nat /\ c \in Nat \ {0}
  BY <1>1, NumChildrenProperties
<1>3. /\ top \in Position /\ Len(top) = Len(p) + 1 /\ top # <<>>
      /\ Front(top) = p /\ Last(top) = c
      /\ Len(p) \in Nat
  <2> HIDE DEF p, c
  <2> QED BY <1>1, <1>2, ChildPosition, PositionFacts
<1>4. g = t \cup new
  BY DEF Graft
<1>5. \A n \in s : n.at \in Position /\ n.block \in Blocks
  BY TreeFacts DEF Linked
<1>6. \A n \in t : \A q \in Position : n.at # top \o q
  BY <1>1, NextChildFree
<1>7. \A n \in t : n.at \in Position /\ n.block \in Blocks
  BY <1>1, TreeFacts
<1> HIDE DEF g, top, c
<1>8. \A m \in new : \E n \in s : m.at = top \o n.at /\ m.block = n.block
  OBVIOUS
<1>9. \A m \in new : m \in Node
  <2>1. \A n \in s : top \o n.at \in Position
    BY <1>3, <1>5, Below
  <2>2. \A n \in s : moved(n) \in Node
    BY <1>5, <2>1 DEF Node
  <2> QED BY <2>2
<1>10. \A n, m \in s : top \o n.at = top \o m.at => n.at = m.at
  BY <1>3, <1>5, BelowCancel
<1>11. IsFiniteSet(g)
  <2>1. IsFiniteSet(s)
    BY TreeFacts, FS_EmptySet DEF Linked
  <2> DEFINE f == [n \in s |-> moved(n)]
  <2>2. IsFiniteSet({f[n] : n \in s})
    BY ZenonT(30), <2>1, ImageFinite
  <2>3. {f[n] : n \in s} = new
    OBVIOUS
  <2> QED BY <1>1, <1>4, <2>2, <2>3, TreeFacts, FS_Union
<1>12. \A n, m \in g : n.at = m.at => n = m
  <2> SUFFICES ASSUME NEW n \in g, NEW m \in g, n.at = m.at PROVE n = m
    OBVIOUS
  <2>1. CASE n \in t /\ m \in t
    BY <1>1, <2>1, TreeFacts
  <2>2. CASE n \in new /\ m \in new
    <3>1. PICK x \in s : n = moved(x)
      BY <2>2
    <3>2. PICK y \in s : m = moved(y)
      BY <2>2
    <3>3. x.at = y.at
      BY <1>10, <3>1, <3>2
    <3>4. x = y
      BY <3>3, TreeFacts DEF Linked
    <3> QED BY <3>1, <3>2, <3>4
  <2>3. ~(n \in t /\ m \in new) /\ ~(n \in new /\ m \in t)
    BY <1>5, <1>6, <1>8
  <2> QED BY <1>4, <2>1, <2>2, <2>3
<1>13. ASSUME NEW n \in g, NEW j \in 1..Len(n.at), NEW k \in 1..n.at[j]
       PROVE  \E m \in g : m.at = Append(SubSeq(n.at, 1, j - 1), k)
  <2>1. CASE n \in t
    <3>1. \A i \in 1..Len(n.at) : \A x \in 1..n.at[i] :
             \E m \in t : m.at = Append(SubSeq(n.at, 1, i - 1), x)
      <4>1. \A y \in t : \A i \in 1..Len(y.at) : \A x \in 1..y.at[i] :
               \E m \in t : m.at = Append(SubSeq(y.at, 1, i - 1), x)
        BY <1>1, TreeFacts
      <4> QED BY <2>1, <4>1
    <3> QED BY <1>4, <3>1
  <2>2. CASE n \in new
    <3>1. PICK x \in s : n.at = top \o x.at
      BY <1>8, <2>2
    <3>2. /\ Len(n.at) = Len(top) + Len(x.at)
          /\ \A i \in 1..Len(top) :
                n.at[i] = top[i] /\ SubSeq(n.at, 1, i - 1) = SubSeq(top, 1, i - 1)
          /\ \A i \in 1..Len(x.at) :
                /\ n.at[Len(top) + i] = x.at[i]
                /\ SubSeq(n.at, 1, Len(top) + i - 1) = top \o SubSeq(x.at, 1, i - 1)
          /\ Len(top) \in Nat /\ Len(x.at) \in Nat
      <4> DEFINE z == x.at
      <4>1. z \in Position /\ n.at = top \o z
        BY <1>5, <3>1
      <4> HIDE DEF z
      <4>2. Len(top) \in Nat /\ Len(z) \in Nat
        BY <1>3, <4>1, PositionFacts
      <4>3. /\ Len(top \o z) = Len(top) + Len(z)
            /\ \A i \in 1..Len(top) :
                  /\ (top \o z)[i] = top[i]
                  /\ SubSeq(top \o z, 1, i - 1) = SubSeq(top, 1, i - 1)
            /\ \A i \in 1..Len(z) :
                  /\ (top \o z)[Len(top) + i] = z[i]
                  /\ SubSeq(top \o z, 1, Len(top) + i - 1) = top \o SubSeq(z, 1, i - 1)
        BY <1>3, <4>1, Below
      <4>4. /\ Len(n.at) = Len(top) + Len(z)
            /\ \A i \in 1..Len(top) :
                  n.at[i] = top[i] /\ SubSeq(n.at, 1, i - 1) = SubSeq(top, 1, i - 1)
            /\ \A i \in 1..Len(z) :
                  /\ n.at[Len(top) + i] = z[i]
                  /\ SubSeq(n.at, 1, Len(top) + i - 1) = top \o SubSeq(z, 1, i - 1)
        BY <4>1, <4>3
      <4> QED BY <4>2, <4>4 DEF z
    <3>3. CASE j \in 1..Len(p)
      <4>1. /\ \A i \in 1..Len(p) : top[i] = p[i]
            /\ SubSeq(top, 1, j - 1) = SubSeq(p, 1, j - 1)
        <5>1. <<c>> \in Position /\ top = p \o <<c>>
          <6>1. p \in Seq(Nat \ {0}) /\ c \in Nat \ {0}
            BY <1>1, <1>2 DEF Position
          <6>2. <<c>> \in Seq(Nat \ {0})
            BY <6>1
          <6>3. Append(p, c) = p \o <<c>>
            BY <6>1, AppendIsConcat
          <6> QED BY <6>2, <6>3 DEF top, Position
        <5> QED BY <1>1, <3>3, <5>1, Below
      <4>2. n.at[j] = p[j] /\ SubSeq(n.at, 1, j - 1) = SubSeq(p, 1, j - 1)
        BY <1>3, <3>2, <3>3, <4>1
      <4>3. \A i \in 1..Len(p) : \A y \in 1..p[i] :
               \E m \in t : m.at = Append(SubSeq(p, 1, i - 1), y)
        BY <1>1, TreeFacts
      <4> QED BY <1>4, <3>3, <4>2, <4>3
    <3>4. CASE j = Len(p) + 1
      <4>1. /\ j \in 1..Len(top) /\ top[j] = c
            /\ SubSeq(top, 1, Len(p)) = p /\ j - 1 = Len(p)
        <5> HIDE DEF p
        <5>1. SubSeq(top, 1, Len(p)) = p /\ top[Len(p) + 1] = c
          BY <1>1, <1>2, ChildPosition DEF top
        <5>2. j \in 1..Len(top) /\ j - 1 = Len(p)
          BY <1>3, <3>4
        <5> QED BY <3>4, <5>1, <5>2
      <4>2. n.at[j] = c /\ SubSeq(n.at, 1, j - 1) = p
        BY <3>2, <4>1
      <4>3. CASE k = c
        <5>1. PICK r \in s : r.at = <<>>
          BY TreeFacts DEF Linked
        <5>2. top \o <<>> = top
          BY <1>3, ConcatEmptySeq DEF Position
        <5>3. moved(r) \in g /\ moved(r).at = Append(p, c)
          BY <1>4, <5>1, <5>2 DEF top
        <5> QED BY <4>2, <4>3, <5>3
      <4>4. CASE k # c
        <5>1. k \in Nat \ {0} /\ k \in 1..NumChildren(t, p)
          BY <1>2, <4>2, <4>4 DEF c
        <5>2. \E m \in t : m.at = Append(p, k)
          BY <1>1, <5>1, NumChildrenProperties
        <5> QED BY <1>4, <4>2, <5>2
      <4> QED BY <4>3, <4>4
    <3>5. CASE j > Len(top)
      <4> DEFINE i == j - Len(top)
      <4>1. i \in 1..Len(x.at) /\ j = Len(top) + i
        BY <3>2, <3>5
      <4>2. n.at[j] = x.at[i] /\ SubSeq(n.at, 1, j - 1) = top \o SubSeq(x.at, 1, i - 1)
        <5> HIDE DEF i
        <5>1. n.at[Len(top) + i] = x.at[i]
          BY <3>2, <4>1
        <5>2. SubSeq(n.at, 1, Len(top) + i - 1) = top \o SubSeq(x.at, 1, i - 1)
          BY <3>2, <4>1
        <5> QED BY <4>1, <5>1, <5>2
      <4> HIDE DEF i
      <4>3. \A l \in 1..Len(x.at) : \A y \in 1..x.at[l] :
               \E m \in s : m.at = Append(SubSeq(x.at, 1, l - 1), y)
        BY TreeFacts DEF Linked
      <4>4. PICK m \in s : m.at = Append(SubSeq(x.at, 1, i - 1), k)
        BY <4>1, <4>2, <4>3
      <4>5. i - 1 \in 0..Len(x.at) /\ k \in Nat \ {0}
        <5>1. x.at[i] \in Nat \ {0}
          BY <1>5, <4>1, PositionFacts
        <5>2. k \in 1..x.at[i]
          BY <4>2
        <5>3. k \in Nat \ {0}
          BY <5>1, <5>2
        <5>4. i - 1 \in 0..Len(x.at)
          BY <3>2, <4>1
        <5> QED BY <5>3, <5>4
      <4>6. SubSeq(x.at, 1, i - 1) \in Position
        BY <1>5, <4>5, PrefixPosition
      <4> DEFINE q == SubSeq(x.at, 1, i - 1)
      <4>7. top \o Append(q, k) = Append(top \o q, k)
        BY <1>3, <4>5, <4>6, BelowChild
      <4>8. moved(m) \in g /\ moved(m).at = Append(top \o q, k)
        BY <1>4, <4>4, <4>7
      <4> QED BY <4>2, <4>8
    <3> QED BY <1>3, <3>2, <3>3, <3>4, <3>5
  <2> QED BY <1>4, <2>1, <2>2
<1>14. g \in Tree
  <2>1. \E n \in g : n.at = <<>>
    BY <1>1, <1>4, TreeFacts
  <2>2. IsTree(g)
    BY <1>12, <1>13, <2>1 DEF IsTree
  <2>3. g \in SUBSET Node
    BY <1>1, <1>4, <1>9 DEF Tree
  <2> QED BY <1>11, <2>2, <2>3 DEF Tree
<1>15. ASSUME NEW n \in g, NEW m \in g, m.at # <<>>, n.at = Front(m.at)
       PROVE  Prev[m.block] = n.block
  <2>1. CASE m \in t
    <3>1. n \notin new
      <4> SUFFICES ASSUME n \in new PROVE FALSE
        OBVIOUS
      <4>1. PICK x \in s : n.at = top \o x.at
        BY <1>8
      <4>2. Last(m.at) \in Nat \ {0} /\ m.at = Append(n.at, Last(m.at))
        BY <1>7, <1>15, <2>1, ParentPosition
      <4> DEFINE e == Last(m.at)
      <4>3. /\ top \o Append(x.at, e) = Append(top \o x.at, e)
            /\ Append(x.at, e) \in Position
        <5>1. x.at \in Position /\ e \in Nat \ {0}
          BY <1>5, <4>2
        <5> HIDE DEF e
        <5>2. top \o Append(x.at, e) = Append(top \o x.at, e)
          BY <1>3, <5>1, BelowChild
        <5>3. Append(x.at, e) \in Position
          BY <5>1, ChildPosition
        <5> QED BY <5>2, <5>3
      <4>4. m.at = top \o Append(x.at, e)
        BY <4>1, <4>2, <4>3
      <4> QED BY <1>6, <2>1, <4>3, <4>4
    <3>2. n \in t
      BY <1>4, <3>1
    <3> QED BY <1>15, <2>1, <3>2 DEF Linked
  <2>2. CASE m \in new
    <3>1. PICK y \in s : m.at = top \o y.at /\ m.block = y.block
      BY <1>8, <2>2
    <3>2. s \in Linked
      BY <3>1
    <3>3. CASE y.at = <<>>
      <4>1. m.at = top
        BY <1>3, <3>1, <3>3, ConcatEmptySeq DEF Position
      <4>2. n.at = p
        BY <1>3, <1>15, <4>1
      <4>3. h \in g
        BY <1>4
      <4>4. n = h
        BY <1>12, <4>2, <4>3
      <4>5. y.block = Root(s)
        BY <3>2, <3>3, RootProperties DEF Linked
      <4> QED BY <3>1, <4>4, <4>5
    <3>4. CASE y.at # <<>>
      <4>1. n.at = top \o Front(y.at) /\ Front(y.at) \in Position
        BY <1>3, <1>5, <1>15, <3>1, <3>4, BelowParent, ParentPosition
      <4>2. n \in new
        BY <1>4, <1>6, <4>1
      <4>3. PICK x \in s : n.at = top \o x.at /\ n.block = x.block
        BY <1>8, <4>2
      <4>4. x.at = Front(y.at)
        BY <1>3, <1>5, <4>1, <4>3, BelowCancel
      <4>5. Prev[y.block] = x.block
        BY <3>2, <3>4, <4>4 DEF Linked
      <4> QED BY <3>1, <4>3, <4>5
    <3> QED BY <3>3, <3>4
  <2> QED BY <1>4, <2>1, <2>2
<1>16. g \in Linked
  BY <1>14, <1>15 DEF Linked
<1>17. Root(g) = Root(t)
  <2>1. PICK r \in t : r.at = <<>>
    BY <1>1, TreeFacts
  <2>2. r \in g
    BY <1>4
  <2>3. r.block = Root(t) /\ r.block = Root(g)
    BY <1>1, <1>14, <2>1, <2>2, RootProperties
  <2> QED BY <2>3
<1> QED BY <1>4, <1>16, <1>17 DEF g

LEMMA ExtendLinked ==
    ASSUME NEW t \in Linked, NEW b \in Blocks, CanExtend(t, b)
    PROVE  Extend(t, b) \in Linked /\ HasBlock(Extend(t, b), b)
<1>1. CASE HasBlock(t, b)
  BY <1>1 DEF Extend
<1>2. CASE ~HasBlock(t, b)
  <2>1. t \in Tree /\ HasBlock(t, Prev[b])
    BY <1>2 DEF CanExtend, Linked
  <2>2. PICK h \in t : h.at = Find(t, Prev[b]) /\ h.block = Prev[b]
    BY <2>1, FindProperties
  <2>3. Leaf(b) \in Linked /\ Root(Leaf(b)) = b
    BY LeafLinked
  <2>4. Graft(t, h.at, Leaf(b)) \in Linked
    BY <2>2, <2>3, GraftLinked
  <2>5. HasBlock(Graft(t, h.at, Leaf(b)), b)
    <3> DEFINE child == Append(h.at, NumChildren(t, h.at) + 1)
               leaf == [at |-> <<>>, block |-> b]
               moved == [at |-> child \o leaf.at, block |-> leaf.block]
    <3>1. moved \in {[at |-> child \o n.at, block |-> n.block] : n \in {leaf}}
      OBVIOUS
    <3>2. moved \in Graft(t, h.at, Leaf(b))
      BY <3>1 DEF Graft, Leaf
    <3>3. moved.block = b
      OBVIOUS
    <3> QED BY <3>2, <3>3 DEF HasBlock
  <2> QED BY <1>2, <2>2, <2>4, <2>5 DEF Extend
<1> QED BY <1>1, <1>2

\* What BlockTree::pop() leaves of a tree below its root are trees.
LEMMA SubtreesLinked ==
    ASSUME NEW t \in Linked
    PROVE  Subtrees(t) \in Seq(Linked)
<1> DEFINE N == NumChildren(t, <<>>)
           up(n) == [at |-> Tail(n.at), block |-> n.block]
           part(i) == {m \in t : m.at # <<>> /\ Head(m.at) = i}
           sub(i) == {up(n) : n \in part(i)}
<1>1. t \in Tree
  BY DEF Linked
<1>2. <<>> \in Position
  BY EmptySeq DEF Position
<1>3. N \in Nat
  BY <1>1, <1>2, NumChildrenProperties
<1>4. \A n \in t : n.at \in Position /\ n.block \in Blocks
  BY <1>1, TreeFacts
<1>5. ASSUME NEW i \in 1..N
      PROVE  sub(i) \in Linked
  <2>1. \A n \in part(i) : /\ n \in t /\ n.at \in Position /\ n.at # <<>>
                           /\ n.at[1] = i /\ Head(n.at) = i
    BY <1>4, TreeFacts
  <2>2. ASSUME NEW n \in part(i)
        PROVE  /\ Tail(n.at) \in Position
               /\ Len(n.at) \in Nat /\ Len(Tail(n.at)) = Len(n.at) - 1
               /\ \A j \in 1..Len(Tail(n.at)) : Tail(n.at)[j] = n.at[j + 1]
               /\ n.at = <<i>> \o Tail(n.at)
    <3> DEFINE a == n.at
    <3>1. a \in Seq(Nat \ {0}) /\ a # <<>> /\ a[1] = i
      BY <2>1 DEF Position
    <3> HIDE DEF a
    <3>2. /\ Tail(a) \in Seq(Nat \ {0})
          /\ Len(Tail(a)) = Len(a) - 1
          /\ \A j \in 1..Len(Tail(a)) : Tail(a)[j] = a[j + 1]
      BY <3>1, HeadTailProperties
    <3>3. Len(a) \in Nat \ {0}
      BY <3>1, EmptySeq
    <3>4. a = <<i>> \o Tail(a)
      <4>1. 1 \in 1..Len(a) /\ Len(a) \in 1..Len(a)
        BY <3>3
      <4>2. SubSeq(a, 1, Len(a)) = <<a[1]>> \o SubSeq(a, 1 + 1, Len(a))
        BY <3>1, <4>1, SubSeqRecursiveFirst
      <4>3. SubSeq(a, 1, Len(a)) = a /\ Tail(a) = SubSeq(a, 2, Len(a))
        BY <3>1, SubSeqFull, TailIsSubSeq
      <4> QED BY <3>1, <4>2, <4>3
    <3> QED BY <3>2, <3>3, <3>4 DEF a, Position
  <2>3. <<i>> \in Position /\ Len(<<i>>) = 1
    BY DEF Position
  <2> HIDE DEF part
  <2>4. \A m \in sub(i) :
           \E n \in part(i) : m.at = Tail(n.at) /\ m.block = n.block
    <3> SUFFICES ASSUME NEW m \in sub(i)
                 PROVE  \E n \in part(i) : m.at = Tail(n.at) /\ m.block = n.block
      OBVIOUS
    <3>1. PICK n \in part(i) : m = up(n)
      OBVIOUS
    <3>2. m.at = Tail(n.at) /\ m.block = n.block
      BY <3>1
    <3> QED BY <3>2
  <2>5. \A m \in t : \A q \in Position :
           m.at = <<i>> \o q => m \in part(i) /\ Tail(m.at) = q
    <3> SUFFICES ASSUME NEW m \in t, NEW q \in Position, m.at = <<i>> \o q
                 PROVE  m \in part(i) /\ Tail(m.at) = q
      OBVIOUS
    <3>1. Len(m.at) = 1 + Len(q) /\ m.at[1] = i /\ Len(q) \in Nat
      BY <2>3, Below, PositionFacts
    <3>2. m.at # <<>> /\ Head(m.at) = i
      BY <3>1, EmptySeq
    <3>3. m \in part(i)
      BY <3>2 DEF part
    <3>4. <<i>> \o Tail(m.at) = <<i>> \o q /\ Tail(m.at) \in Position
      BY <2>2, <3>3
    <3> QED BY <2>3, <3>3, <3>4, BelowCancel
  <2>6. IsFiniteSet(sub(i))
    <3>1. part(i) \in SUBSET t
      BY DEF part
    <3>2. IsFiniteSet(part(i))
      BY <1>1, <3>1, TreeFacts, FS_Subset
    <3> DEFINE f == [n \in part(i) |-> up(n)]
    <3>3. IsFiniteSet({f[n] : n \in part(i)})
      BY <3>2, ImageFinite
    <3>4. {f[n] : n \in part(i)} = sub(i)
      OBVIOUS
    <3> QED BY <3>3, <3>4
  <2>7. \A m \in sub(i) : m \in Node
    <3>1. \A n \in part(i) : up(n) \in Node
      BY <1>4, <2>1, <2>2 DEF Node
    <3> QED BY <3>1
  <2>8. \E m \in sub(i) : m.at = <<>>
    <3>1. i \in Nat \ {0} /\ i \in 1..N
      BY <1>3
    <3>2. PICK m \in t : m.at = Append(<<>>, i)
      BY <1>1, <1>2, <3>1, NumChildrenProperties
    <3>3. Append(<<>>, i) = <<>> \o <<i>> /\ <<>> \o <<i>> = <<i>> /\ <<i>> \o <<>> = <<i>>
      BY <1>2, <2>3, <3>1, AppendIsConcat, ConcatEmptySeq DEF Position
    <3>4. m \in part(i) /\ Tail(m.at) = <<>>
      BY <1>2, <2>5, <3>2, <3>3
    <3>5. up(m) \in sub(i) /\ up(m).at = <<>>
      BY <3>4
    <3> QED BY <3>5
  <2>9. \A n, m \in sub(i) : n.at = m.at => n = m
    <3> SUFFICES ASSUME NEW n \in sub(i), NEW m \in sub(i), n.at = m.at PROVE n = m
      OBVIOUS
    <3>1. PICK x \in part(i) : n = up(x)
      OBVIOUS
    <3>2. PICK y \in part(i) : m = up(y)
      OBVIOUS
    <3>3. Tail(x.at) = Tail(y.at)
      BY <3>1, <3>2
    <3>4. x.at = y.at
      BY <2>2, <3>3
    <3>5. x = y
      BY <1>1, <2>1, <3>4, TreeFacts
    <3> QED BY <3>1, <3>2, <3>5
  <2>10. ASSUME NEW n \in sub(i), NEW j \in 1..Len(n.at), NEW k \in 1..n.at[j]
         PROVE  \E m \in sub(i) : m.at = Append(SubSeq(n.at, 1, j - 1), k)
    <3>1. PICK x \in part(i) : n.at = Tail(x.at)
      BY <2>4
    <3> DEFINE a == x.at
               q == SubSeq(Tail(a), 1, j - 1)
    <3>2. /\ x \in t /\ a = <<i>> \o Tail(a) /\ Tail(a) \in Position /\ n.at = Tail(a)
          /\ Len(a) \in Nat /\ Len(Tail(a)) = Len(a) - 1
          /\ \A l \in 1..Len(Tail(a)) : Tail(a)[l] = a[l + 1]
      BY <2>1, <2>2, <3>1
    <3> HIDE DEF a
    <3>3. /\ j + 1 \in 1..Len(a) /\ k \in 1..a[j + 1]
          /\ j - 1 \in 0..Len(Tail(a)) /\ j \in 1..Len(Tail(a))
      BY <3>2
    <3>4. \E m \in t : m.at = Append(SubSeq(a, 1, (j + 1) - 1), k)
      <4>1. \A y \in t : \A l \in 1..Len(y.at) : \A z \in 1..y.at[l] :
               \E m \in t : m.at = Append(SubSeq(y.at, 1, l - 1), z)
        BY <1>1, TreeFacts
      <4>2. \A l \in 1..Len(a) : \A z \in 1..a[l] :
               \E m \in t : m.at = Append(SubSeq(a, 1, l - 1), z)
        BY <3>2, <4>1 DEF a
      <4> QED BY <3>3, <4>2
    <3>5. PICK m \in t : m.at = Append(SubSeq(a, 1, (j + 1) - 1), k)
      BY <3>4
    <3>6. SubSeq(a, 1, (j + 1) - 1) = <<i>> \o q
      <4>1. \A l \in 1..Len(Tail(a)) :
               SubSeq(<<i>> \o Tail(a), 1, Len(<<i>>) + l - 1) = <<i>> \o SubSeq(Tail(a), 1, l - 1)
        BY <2>3, <3>2, Below
      <4>2. Len(<<i>>) + j - 1 = (j + 1) - 1
        BY <2>3, <3>3
      <4> QED BY <3>2, <3>3, <4>1, <4>2
    <3>7. q \in Position /\ k \in Nat \ {0}
      <4>1. q \in Position
        BY <3>2, <3>3, PrefixPosition
      <4>2. Tail(a)[j] \in Nat \ {0}
        BY <3>2, <3>3, PositionFacts
      <4> QED BY <3>2, <4>1, <4>2
    <3> HIDE DEF q
    <3>8. m.at = <<i>> \o Append(q, k) /\ Append(q, k) \in Position
      <4>1. <<i>> \o Append(q, k) = Append(<<i>> \o q, k)
        BY <2>3, <3>7, BelowChild
      <4> QED BY <3>5, <3>6, <3>7, <4>1, ChildPosition
    <3>9. m \in part(i) /\ Tail(m.at) = Append(q, k)
      BY <2>5, <3>8
    <3>10. up(m) \in sub(i) /\ up(m).at = Append(q, k)
      BY <3>9
    <3> QED BY <3>2, <3>10 DEF q
  <2>11. sub(i) \in Tree
    <3>1. IsTree(sub(i))
      BY <2>8, <2>9, <2>10 DEF IsTree
    <3>2. sub(i) \in SUBSET Node
      BY <2>7
    <3> QED BY <2>6, <3>1, <3>2 DEF Tree
  <2>12. ASSUME NEW n \in sub(i), NEW m \in sub(i), m.at # <<>>, n.at = Front(m.at)
         PROVE  Prev[m.block] = n.block
    <3>1. PICK x \in part(i) : n.at = Tail(x.at) /\ n.block = x.block
      BY <2>4
    <3>2. PICK y \in part(i) : m.at = Tail(y.at) /\ m.block = y.block
      BY <2>4
    <3>3. /\ y.at = <<i>> \o Tail(y.at) /\ Tail(y.at) \in Position
          /\ x.at = <<i>> \o Tail(x.at)
      BY <2>2
    <3>4. y.at # <<>> /\ Front(y.at) = <<i>> \o Front(Tail(y.at))
      <4> DEFINE q == Tail(y.at)
      <4>1. q \in Position /\ q # <<>> /\ y.at = <<i>> \o q
        BY <2>12, <3>2, <3>3
      <4> HIDE DEF q
      <4>2. <<i>> \o q # <<>> /\ Front(<<i>> \o q) = <<i>> \o Front(q)
        BY <2>3, <4>1, BelowParent
      <4> QED BY <4>1, <4>2 DEF q
    <3>5. x.at = Front(y.at)
      BY <2>12, <3>1, <3>2, <3>3, <3>4
    <3>6. x \in t /\ y \in t
      BY <2>1
    <3>7. Prev[y.block] = x.block
      BY <3>4, <3>5, <3>6 DEF Linked
    <3> QED BY <3>1, <3>2, <3>7
  <2> QED BY <2>11, <2>12 DEF Linked
<1>6. Subtrees(t) = [i \in 1..N |-> sub(i)]
  BY DEF Subtrees
<1> HIDE DEF N, sub
<1>7. [i \in 1..N |-> sub(i)] \in [1..N -> Linked]
  BY <1>5
<1>8. [i \in 1..N |-> sub(i)] \in Seq(Linked)
  BY <1>3, <1>7, SeqDef
<1> QED BY <1>6, <1>8

-----------------------------------------------------------------------------
\* The operations on the forest

LEMMA TakeTreeLinked ==
    ASSUME NEW trees \in Seq(Linked), NEW b
    PROVE  /\ TakeTree(trees, b).tree \in Linked \cup {{}}
           /\ TakeTree(trees, b).rest \in Seq(Linked)
           /\ TakeTree(trees, b).tree # {} => Prev[Root(TakeTree(trees, b).tree)] = b
<1> DEFINE followers == {i \in DOMAIN trees : Prev[Root(trees[i])] = b}
           i == Min(followers)
<1>1. CASE followers = {}
  BY <1>1 DEF TakeTree
<1>2. CASE followers # {}
  <2>1. Len(trees) \in Nat /\ DOMAIN trees = 1..Len(trees)
    BY LenProperties
  <2>2. followers \in SUBSET Nat
    BY <2>1
  <2>3. i \in followers
    <3> HIDE DEF followers
    <3> QED BY <1>2, <2>2, MinProperties
  <2>4. i \in 1..Len(trees) /\ Prev[Root(trees[i])] = b
    BY <2>1, <2>3
  <2>5. TakeTree(trees, b) = [tree |-> trees[i], rest |-> RemoveAt(trees, i)]
    BY <1>2 DEF TakeTree
  <2> HIDE DEF i
  <2>6. trees[i] \in Linked
    BY <2>4, ElementOfSeq
  <2>7. RemoveAt(trees, i) \in Seq(Linked)
    <3>1. /\ \A j \in 1..(i - 1) : trees[j] \in Linked
          /\ \A j \in (i + 1)..Len(trees) : trees[j] \in Linked
      BY <2>1, <2>4, ElementOfSeq
    <3>2. SubSeq(trees, 1, i - 1) \in Seq(Linked)
      BY <2>4, <3>1, SubSeqProperties
    <3>3. SubSeq(trees, i + 1, Len(trees)) \in Seq(Linked)
      BY <2>1, <2>4, <3>1, SubSeqProperties
    <3> QED BY <3>2, <3>3, ConcatProperties DEF RemoveAt
  <2> QED BY <2>4, <2>5, <2>6, <2>7
<1> QED BY <1>1, <1>2

\* push() keeps a vector of trees of hash links.
LEMMA PushLinked ==
    ASSUME NEW trees \in Seq(Linked), NEW b \in Blocks
    PROVE  Push(trees, b) \in Seq(Linked)
<1> DEFINE taken == TakeTree(trees, b)
           homes == {i \in DOMAIN taken.rest : CanExtend(taken.rest[i], b)}
           i == Min(homes)
           extended == Extend(taken.rest[i], b)
<1>1. /\ taken.tree \in Linked \cup {{}} /\ taken.rest \in Seq(Linked)
      /\ taken.tree # {} => Prev[Root(taken.tree)] = b
  BY TakeTreeLinked
<1>2. CASE homes = {}
  <2> DEFINE leaf == [at |-> <<>>, block |-> b]
  <2>1. Leaf(b) \in Linked /\ leaf \in Leaf(b) /\ leaf.at = <<>> /\ leaf.block = b
    BY LeafLinked DEF Leaf
  <2> HIDE DEF leaf, taken
  <2>2. Graft(Leaf(b), leaf.at, taken.tree) \in Linked
    BY <1>1, <2>1, GraftLinked
  <2>3. Append(taken.rest, Graft(Leaf(b), <<>>, taken.tree)) \in Seq(Linked)
    BY <1>1, <2>1, <2>2, AppendProperties
  <2> QED BY <1>2, <2>3 DEF Push, taken
<1>3. CASE homes # {}
  <2>1. Len(taken.rest) \in Nat /\ DOMAIN taken.rest = 1..Len(taken.rest)
    BY <1>1, LenProperties
  <2>2. homes \in SUBSET Nat
    BY <2>1
  <2>3. i \in homes
    <3> HIDE DEF homes
    <3> QED BY <1>3, <2>2, MinProperties
  <2>4. i \in 1..Len(taken.rest) /\ CanExtend(taken.rest[i], b)
    BY <2>1, <2>3
  <2>5. Push(trees, b) = [taken.rest EXCEPT ![i] = Graft(extended, Find(extended, b), taken.tree)]
    BY <1>3 DEF Push
  <2> HIDE DEF i, taken
  <2>6. extended \in Linked /\ HasBlock(extended, b)
    <3>1. taken.rest[i] \in Linked
      BY <1>1, <2>4, ElementOfSeq
    <3> QED BY <2>4, <3>1, ExtendLinked
  <2> HIDE DEF extended
  <2>7. PICK h \in extended : h.at = Find(extended, b) /\ h.block = b
    BY <2>6, FindProperties DEF Linked
  <2>8. Graft(extended, h.at, taken.tree) \in Linked
    BY <1>1, <2>6, <2>7, GraftLinked
  <2>9. [taken.rest EXCEPT ![i] = Graft(extended, Find(extended, b), taken.tree)] \in Seq(Linked)
    BY <1>1, <2>4, <2>7, <2>8, ExceptSeq
  <2> QED BY <2>5, <2>9
<1> QED BY <1>2, <1>3

\* pop() keeps such a vector too, and what it returns is a block that follows the
\* anchor, or nothing.
LEMMA PopLinked ==
    ASSUME NEW trees \in Seq(Linked), NEW anchor
    PROVE  /\ Pop(trees, anchor).trees \in Seq(Linked)
           /\ Pop(trees, anchor).block \in Blocks \cup {NoBlock}
           /\ Pop(trees, anchor).block # NoBlock =>
                 Prev[Pop(trees, anchor).block] = anchor
<1> DEFINE sorted == Partitioned(trees, anchor)
           n == NumAttached(trees, anchor)
           detached == SubSeq(sorted, n + 1, Len(sorted))
<1>1. trees \in Seq(Tree) /\ Linked \in SUBSET Tree
  <2>1. Linked \in SUBSET Tree
    BY DEF Linked
  <2> QED BY <2>1, SeqMonotonic
<1>2. sorted \in Seq(Linked) /\ Len(sorted) = Len(trees) /\ Len(trees) \in Nat
  BY <1>1, PartitionedType, LenProperties
<1>3. n \in 0..Len(trees)
  BY <1>1, NumAttachedType
<1>4. n >= 1 => Attached(sorted[n], anchor)
  <2>1. n >= 1 => n \in 1..n
    BY <1>2, <1>3
  <2> QED BY <1>1, <2>1, FirstAreAttached
<1>5. Pop(trees, anchor) =
         IF DeepestIsStable(sorted, n)
         THEN [block |-> Root(sorted[n]), trees |-> detached \o Subtrees(sorted[n])]
         ELSE [block |-> NoBlock, trees |-> sorted]
  BY DEF Pop
<1> HIDE DEF sorted, n
<1>6. CASE DeepestIsStable(sorted, n)
  <2>1. n \in 1..Len(sorted)
    BY <1>2, <1>3, <1>6 DEF DeepestIsStable
  <2>2. sorted[n] \in Linked
    BY <1>2, <2>1, ElementOfSeq
  <2>3. Root(sorted[n]) \in Blocks /\ Prev[Root(sorted[n])] = anchor
    BY <1>2, <1>4, <2>1, <2>2, RootProperties DEF Linked, Attached
  <2>4. detached \in Seq(Linked)
    <3>1. \A j \in (n + 1)..Len(sorted) : sorted[j] \in Linked
      BY <1>2, <2>1, ElementOfSeq
    <3> QED BY <1>2, <2>1, <3>1, SubSeqProperties
  <2>5. detached \o Subtrees(sorted[n]) \in Seq(Linked)
    BY <2>2, <2>4, SubtreesLinked, ConcatProperties
  <2> QED BY <1>5, <1>6, <2>3, <2>5
<1>7. CASE ~DeepestIsStable(sorted, n)
  BY <1>2, <1>5, <1>7
<1> QED BY <1>6, <1>7

-----------------------------------------------------------------------------
\* The blocks of a forest

\* A place of the sorted vector holds the tree of one place of the unsorted one,
\* and every tree has a place.
IsPlacing(f, trees, sorted) ==
    /\ f \in [DOMAIN trees -> DOMAIN trees]
    /\ \A k \in DOMAIN trees : sorted[k] = trees[f[k]]
    /\ \A k, l \in DOMAIN trees : f[k] = f[l] => k = l
    /\ \A i \in DOMAIN trees : \E k \in DOMAIN trees : f[k] = i

LEMMA PartitionedPermutes ==
    ASSUME NEW trees \in Seq(Tree), NEW anchor
    PROVE  \E f : IsPlacing(f, trees, Partitioned(trees, anchor))
<1> DEFINE I == DOMAIN trees
           from(k) == CHOOSE i \in I : Place(trees, anchor, i) = k
           f == [k \in I |-> from(k)]
<1>1. IsFiniteSet(I)
  BY LenProperties, FS_Interval
<1>2. \A k \in I : from(k) \in I /\ Place(trees, anchor, from(k)) = k
  BY PlacePermutes
<1>3. \A k \in I : Partitioned(trees, anchor)[k] = trees[from(k)]
  BY DEF Partitioned
<1> HIDE DEF from
<1>4. f \in Injection(I, I)
  <2>1. f \in [I -> I]
    BY <1>2
  <2>2. \A k, l \in I : f[k] = f[l] => k = l
    BY <1>2
  <2> QED BY <2>1, <2>2 DEF Injection, IsInjective
<1>5. f \in Surjection(I, I)
  BY <1>1, <1>4, FS_Injection
<1>6. /\ f \in [I -> I]
      /\ \A k, l \in I : f[k] = f[l] => k = l
      /\ \A i \in I : \E k \in I : f[k] = i
  BY <1>4, <1>5 DEF Injection, IsInjective, Surjection
<1>7. \A k \in I : Partitioned(trees, anchor)[k] = trees[f[k]]
  BY <1>3
<1> HIDE DEF f
<1> QED BY <1>6, <1>7 DEF IsPlacing

\* The blocks of a tree, and a tree that has no block twice.
BlocksOf(t) == {n.block : n \in t}

Once(t) == \A n, m \in t : n.block = m.block => n = m

\* No block is in the forest twice.
Single(trees) ==
    /\ \A i \in DOMAIN trees : Once(trees[i])
    /\ \A i, j \in DOMAIN trees : i # j => BlocksOf(trees[i]) \cap BlocksOf(trees[j]) = {}

LEMMA InForest ==
    ASSUME NEW trees, NEW b
    PROVE  b \in GetBlocks(trees) <=> \E i \in DOMAIN trees : b \in BlocksOf(trees[i])
BY DEF GetBlocks, BlocksOf

LEMMA GraftBlocks ==
    ASSUME NEW t, NEW p, NEW s
    PROVE  /\ BlocksOf(Graft(t, p, s)) = BlocksOf(t) \cup BlocksOf(s)
           /\ Once(t) /\ Once(s) /\ BlocksOf(t) \cap BlocksOf(s) = {} => Once(Graft(t, p, s))
<1> DEFINE child == Append(p, NumChildren(t, p) + 1)
           moved(n) == [at |-> child \o n.at, block |-> n.block]
           new == {moved(n) : n \in s}
<1>1. Graft(t, p, s) = t \cup new
  BY DEF Graft
<1>2. \A n \in s : moved(n) \in new /\ moved(n).block = n.block
  OBVIOUS
<1>3. \A m \in new : \E n \in s : m = moved(n) /\ m.block = n.block
  <2>1. \A m \in new : \E n \in s : m = moved(n)
    OBVIOUS
  <2>2. \A n : moved(n).block = n.block
    OBVIOUS
  <2> HIDE DEF moved
  <2> QED BY <2>1, <2>2
<1> HIDE DEF new, moved
<1>4. BlocksOf(t \cup new) = BlocksOf(t) \cup BlocksOf(s)
  BY <1>2, <1>3 DEF BlocksOf
<1>5. ASSUME Once(t), Once(s), BlocksOf(t) \cap BlocksOf(s) = {},
             NEW n \in t \cup new, NEW m \in t \cup new, n.block = m.block
      PROVE  n = m
  <2>1. \A x \in new : x.block \in BlocksOf(s)
    BY <1>3 DEF BlocksOf
  <2>2. \A x \in t : x.block \in BlocksOf(t)
    BY DEF BlocksOf
  <2>3. CASE n \in t /\ m \in t
    BY <1>5, <2>3 DEF Once
  <2>4. CASE n \in new /\ m \in new
    BY <1>3, <1>5, <2>4 DEF Once
  <2> QED BY <1>5, <2>1, <2>2, <2>3, <2>4
<1> QED BY <1>1, <1>4, <1>5 DEF Once

LEMMA ExtendBlocks ==
    ASSUME NEW t, NEW b
    PROVE  /\ BlocksOf(Extend(t, b)) = BlocksOf(t) \cup {b}
           /\ Once(t) => Once(Extend(t, b))
<1>1. CASE HasBlock(t, b)
  BY <1>1 DEF HasBlock, Extend, BlocksOf
<1>2. CASE ~HasBlock(t, b)
  <2>1. BlocksOf(Leaf(b)) = {b} /\ Once(Leaf(b))
    BY DEF BlocksOf, Leaf, Once
  <2>2. BlocksOf(t) \cap {b} = {}
    BY <1>2 DEF HasBlock, BlocksOf
  <2> QED BY <1>2, <2>1, <2>2, GraftBlocks DEF Extend
<1> QED BY <1>1, <1>2

\* The tree taken, and the others.
LEMMA TakeTreeCases ==
    ASSUME NEW trees \in Seq(Linked), NEW b
    PROVE  LET taken == TakeTree(trees, b) IN
           \/ taken.tree = {} /\ taken.rest = trees
           \/ \E i \in 1..Len(trees) : taken.tree = trees[i] /\ taken.rest = RemoveAt(trees, i)
<1> DEFINE followers == {i \in DOMAIN trees : Prev[Root(trees[i])] = b}
<1>1. CASE followers = {}
  BY <1>1 DEF TakeTree
<1>2. CASE followers # {}
  <2>1. DOMAIN trees = 1..Len(trees)
    BY LenProperties
  <2>2. Min(followers) \in followers
    <3>1. followers \in SUBSET Nat
      BY <2>1
    <3> HIDE DEF followers
    <3> QED BY <1>2, <3>1, MinProperties
  <2> DEFINE i == Min(followers)
  <2>3. TakeTree(trees, b) = [tree |-> trees[i], rest |-> RemoveAt(trees, i)]
    BY <1>2 DEF TakeTree
  <2>4. i \in 1..Len(trees)
    BY <2>1, <2>2
  <2> HIDE DEF i
  <2> QED BY <2>3, <2>4
<1> QED BY <1>1, <1>2

LEMMA TakeTreeBlocks ==
    ASSUME NEW trees \in Seq(Linked), NEW b, NEW anchor
    PROVE  LET taken == TakeTree(trees, b) IN
           /\ GetBlocks(trees) = GetBlocks(taken.rest) \cup BlocksOf(taken.tree)
           /\ Single(trees) =>
                 /\ Single(taken.rest) /\ Once(taken.tree)
                 /\ GetBlocks(taken.rest) \cap BlocksOf(taken.tree) = {}
           /\ Twins(taken.rest, anchor) => Twins(trees, anchor)
<1> DEFINE taken == TakeTree(trees, b)
<1>1. CASE taken.tree = {} /\ taken.rest = trees
  BY <1>1 DEF BlocksOf, Once
<1>2. ASSUME NEW i \in 1..Len(trees), taken.tree = trees[i], taken.rest = RemoveAt(trees, i)
      PROVE  /\ GetBlocks(trees) = GetBlocks(taken.rest) \cup BlocksOf(taken.tree)
             /\ Single(trees) =>
                   /\ Single(taken.rest) /\ Once(taken.tree)
                   /\ GetBlocks(taken.rest) \cap BlocksOf(taken.tree) = {}
             /\ Twins(taken.rest, anchor) => Twins(trees, anchor)
  <2> DEFINE J == 1..(Len(trees) - 1)
             r == taken.rest
  <2>1. /\ DOMAIN r = J
        /\ \A k \in J : PlaceBefore(i, k) \in (1..Len(trees)) \ {i} /\ r[k] = trees[PlaceBefore(i, k)]
        /\ \A k, l \in J : PlaceBefore(i, k) = PlaceBefore(i, l) => k = l
        /\ \A j \in (1..Len(trees)) \ {i} : \E k \in J : PlaceBefore(i, k) = j
    <3> DEFINE x == RemoveAt(trees, i)
    <3>1. /\ DOMAIN x = J
          /\ \A k \in J : PlaceBefore(i, k) \in (1..Len(trees)) \ {i} /\ x[k] = trees[PlaceBefore(i, k)]
          /\ \A k, l \in J : PlaceBefore(i, k) = PlaceBefore(i, l) => k = l
          /\ \A j \in (1..Len(trees)) \ {i} : \E k \in J : PlaceBefore(i, k) = j
      BY RemoveAtPlaces
    <3>2. r = x
      BY <1>2
    <3> HIDE DEF J, x, r
    <3> QED BY <3>1, <3>2
  <2>2. DOMAIN trees = 1..Len(trees)
    BY LenProperties
  <2> HIDE DEF J, r, taken
  <2>3. GetBlocks(trees) = GetBlocks(r) \cup BlocksOf(trees[i])
    <3>1. \A x : x \in GetBlocks(trees) <=> x \in GetBlocks(r) \/ x \in BlocksOf(trees[i])
      BY <2>1, <2>2, InForest
    <3> QED BY <3>1
  <2>4. ASSUME Single(trees)
        PROVE  Single(r) /\ Once(trees[i]) /\ GetBlocks(r) \cap BlocksOf(trees[i]) = {}
    <3>1. Once(trees[i]) /\ \A k \in J : Once(r[k])
      BY <2>1, <2>2, <2>4 DEF Single
    <3>2. \A k, l \in J : k # l => BlocksOf(r[k]) \cap BlocksOf(r[l]) = {}
      BY <2>1, <2>2, <2>4 DEF Single
    <3>3. \A k \in J : BlocksOf(r[k]) \cap BlocksOf(trees[i]) = {}
      BY <2>1, <2>2, <2>4 DEF Single
    <3> QED BY <2>1, <3>1, <3>2, <3>3, InForest DEF Single
  <2>5. Twins(r, anchor) => Twins(trees, anchor)
    BY <2>1, <2>2 DEF Twins
  <2> QED BY <1>2, <2>3, <2>4, <2>5 DEF r
<1> QED BY <1>1, <1>2, TakeTreeCases

\* A forest in which one tree is replaced, or that one more tree joins.
LEMMA ReplaceBlocks ==
    ASSUME NEW trees \in Seq(Linked), NEW i \in DOMAIN trees, NEW t, NEW B,
           BlocksOf(t) = BlocksOf(trees[i]) \cup B, Root(t) = Root(trees[i]),
           NEW anchor
    PROVE  LET new == [trees EXCEPT ![i] = t] IN
           /\ GetBlocks(new) = GetBlocks(trees) \cup B
           /\ Single(trees) /\ Once(t) /\ B \cap GetBlocks(trees) = {} => Single(new)
           /\ Twins(new, anchor) => Twins(trees, anchor)
<1> DEFINE new == [trees EXCEPT ![i] = t]
<1>1. /\ DOMAIN new = DOMAIN trees /\ new[i] = t
      /\ \A j \in DOMAIN trees : j # i => new[j] = trees[j]
  OBVIOUS
<1> HIDE DEF new
<1>2. GetBlocks(new) = GetBlocks(trees) \cup B
  <2>1. \A x : x \in GetBlocks(new) <=> x \in GetBlocks(trees) \/ x \in B
    BY <1>1, InForest
  <2> QED BY <2>1
<1>3. ASSUME Single(trees), Once(t), B \cap GetBlocks(trees) = {} PROVE Single(new)
  <2>1. \A j \in DOMAIN trees : Once(new[j])
    BY <1>1, <1>3 DEF Single
  <2>2. \A j \in DOMAIN trees : BlocksOf(trees[j]) \subseteq GetBlocks(trees)
    BY InForest
  <2>3. ASSUME NEW j \in DOMAIN trees, NEW k \in DOMAIN trees, j # k
        PROVE  BlocksOf(new[j]) \cap BlocksOf(new[k]) = {}
    <3>1. BlocksOf(trees[j]) \cap BlocksOf(trees[k]) = {}
      BY <1>3, <2>3 DEF Single
    <3>2. B \cap BlocksOf(trees[j]) = {} /\ B \cap BlocksOf(trees[k]) = {}
      BY <1>3, <2>2
    <3>3. CASE j = i
      BY <1>1, <2>3, <3>1, <3>2, <3>3
    <3>4. CASE k = i
      BY <1>1, <2>3, <3>1, <3>2, <3>4
    <3>5. CASE j # i /\ k # i
      BY <1>1, <3>1, <3>5
    <3> QED BY <3>3, <3>4, <3>5
  <2> QED BY <1>1, <2>1, <2>3 DEF Single
<1>4. Twins(new, anchor) => Twins(trees, anchor)
  <2>1. \A j \in DOMAIN trees : Root(new[j]) = Root(trees[j])
    BY <1>1
  <2> QED BY <1>1, <2>1 DEF Twins, Attached
<1> QED BY <1>2, <1>3, <1>4 DEF new

LEMMA AppendBlocks ==
    ASSUME NEW trees \in Seq(Linked), NEW t, NEW anchor,
           ~\E i \in DOMAIN trees : Root(trees[i]) = Root(t)
    PROVE  LET new == Append(trees, t) IN
           /\ GetBlocks(new) = GetBlocks(trees) \cup BlocksOf(t)
           /\ Single(trees) /\ Once(t) /\ BlocksOf(t) \cap GetBlocks(trees) = {} => Single(new)
           /\ Twins(new, anchor) => Twins(trees, anchor)
<1> DEFINE new == Append(trees, t)
           n == Len(trees)
<1>1. /\ n \in Nat /\ DOMAIN trees = 1..n
      /\ DOMAIN new = 1..(n + 1) /\ new[n + 1] = t
      /\ \A j \in 1..n : new[j] = trees[j]
  <2>1. trees \in Seq(Linked \cup {t}) /\ t \in Linked \cup {t}
    BY SeqMonotonic
  <2>2. /\ new \in Seq(Linked \cup {t}) /\ Len(new) = n + 1 /\ new[n + 1] = t
        /\ \A j \in 1..n : new[j] = trees[j]
    BY <2>1, AppendProperties
  <2> HIDE DEF new
  <2> QED BY <2>2, LenProperties
<1> HIDE DEF new, n
<1>2. DOMAIN new = DOMAIN trees \cup {n + 1} /\ n + 1 \notin DOMAIN trees
  BY <1>1
<1>3. GetBlocks(new) = GetBlocks(trees) \cup BlocksOf(t)
  <2>1. \A x : x \in GetBlocks(new) <=> x \in GetBlocks(trees) \/ x \in BlocksOf(t)
    BY <1>1, <1>2, InForest
  <2> QED BY <2>1
<1>4. ASSUME Single(trees), Once(t), BlocksOf(t) \cap GetBlocks(trees) = {} PROVE Single(new)
  <2>1. \A j \in DOMAIN new : Once(new[j])
    BY <1>1, <1>2, <1>4 DEF Single
  <2>2. \A j \in DOMAIN trees : BlocksOf(trees[j]) \subseteq GetBlocks(trees)
    BY InForest
  <2>3. ASSUME NEW j \in DOMAIN new, NEW k \in DOMAIN new, j # k
        PROVE  BlocksOf(new[j]) \cap BlocksOf(new[k]) = {}
    <3>1. CASE j \in DOMAIN trees /\ k \in DOMAIN trees
      BY <1>1, <1>4, <2>3, <3>1 DEF Single
    <3>2. CASE j = n + 1
      BY <1>1, <1>2, <1>4, <2>2, <2>3, <3>2
    <3>3. CASE k = n + 1
      BY <1>1, <1>2, <1>4, <2>2, <2>3, <3>3
    <3> QED BY <1>2, <3>1, <3>2, <3>3
  <2> QED BY <2>1, <2>3 DEF Single
<1>5. ASSUME Twins(new, anchor) PROVE Twins(trees, anchor)
  <2>1. PICK i \in DOMAIN new, j \in DOMAIN new :
           i # j /\ Attached(new[i], anchor) /\ Root(new[i]) = Root(new[j])
    BY <1>5 DEF Twins
  <2>2. i \in DOMAIN trees /\ j \in DOMAIN trees
    BY <1>1, <1>2, <2>1
  <2> QED BY <1>1, <2>1, <2>2 DEF Twins
<1> QED BY <1>3, <1>4, <1>5 DEF new

\* push() adds the block and loses none, keeps a forest without copies without
\* them if the block is new, and makes no twins.
LEMMA PushBlocks ==
    ASSUME NEW trees \in Seq(Linked), NEW b \in Blocks, NEW anchor
    PROVE  /\ GetBlocks(Push(trees, b)) = GetBlocks(trees) \cup {b}
           /\ Single(trees) /\ b \notin GetBlocks(trees) => Single(Push(trees, b))
           /\ Twins(Push(trees, b), anchor) => Twins(trees, anchor)
<1> DEFINE taken == TakeTree(trees, b)
           s == taken.tree
           rest == taken.rest
           homes == {i \in DOMAIN rest : CanExtend(rest[i], b)}
           i == Min(homes)
           extended == Extend(rest[i], b)
<1>1. /\ s \in Linked \cup {{}} /\ rest \in Seq(Linked)
      /\ s # {} => Prev[Root(s)] = b
  BY TakeTreeLinked
<1>2. /\ GetBlocks(trees) = GetBlocks(rest) \cup BlocksOf(s)
      /\ Single(trees) => /\ Single(rest) /\ Once(s)
                          /\ GetBlocks(rest) \cap BlocksOf(s) = {}
      /\ Twins(rest, anchor) => Twins(trees, anchor)
  BY TakeTreeBlocks
<1> HIDE DEF taken
<1>3. CASE homes = {}
  <2> DEFINE leaf == [at |-> <<>>, block |-> b]
             t == Graft(Leaf(b), <<>>, s)
  <2>1. Leaf(b) \in Linked /\ leaf \in Leaf(b) /\ leaf.at = <<>> /\ leaf.block = b /\ Root(Leaf(b)) = b
    BY LeafLinked DEF Leaf
  <2> HIDE DEF leaf
  <2>2. Root(Graft(Leaf(b), leaf.at, s)) = Root(Leaf(b))
    BY <1>1, <2>1, GraftLinked
  <2>3. Root(t) = b
    BY <2>1, <2>2
  <2>4. BlocksOf(Leaf(b)) = {b} /\ Once(Leaf(b))
    BY DEF BlocksOf, Leaf, Once
  <2>5. /\ BlocksOf(t) = {b} \cup BlocksOf(s)
        /\ Once(s) /\ b \notin BlocksOf(s) => Once(t)
    BY <2>4, GraftBlocks
  <2> HIDE DEF t
  <2>6. Push(trees, b) = Append(rest, t)
    BY <1>3 DEF Push, taken, t
  <2>7. ~\E j \in DOMAIN rest : Root(rest[j]) = Root(t)
    <3>1. ASSUME NEW j \in DOMAIN rest PROVE Root(rest[j]) # b
      <4>1. rest[j] \in Tree
        BY <1>1, ElementOfSeq, LenProperties DEF Linked
      <4>2. \E n \in rest[j] : n.block = Root(rest[j])
        BY <4>1, TreeFacts, RootProperties
      <4> QED BY <1>3, <4>2 DEF CanExtend, HasBlock
    <3> QED BY <2>3, <3>1
  <2>8. /\ GetBlocks(Append(rest, t)) = GetBlocks(rest) \cup BlocksOf(t)
        /\ Single(rest) /\ Once(t) /\ BlocksOf(t) \cap GetBlocks(rest) = {} => Single(Append(rest, t))
        /\ Twins(Append(rest, t), anchor) => Twins(rest, anchor)
    BY <1>1, <2>7, AppendBlocks
  <2> QED BY <1>2, <2>5, <2>6, <2>8
<1>4. CASE homes # {}
  <2>1. i \in DOMAIN rest /\ CanExtend(rest[i], b) /\ rest[i] \in Linked
    <3>1. homes \in SUBSET Nat
      BY <1>1, LenProperties
    <3>2. i \in homes
      <4> HIDE DEF homes
      <4> QED BY <1>4, <3>1, MinProperties
    <3>3. i \in DOMAIN rest /\ CanExtend(rest[i], b)
      BY <3>2
    <3> HIDE DEF i, rest
    <3> QED BY <1>1, <3>3, ElementOfSeq, LenProperties
  <2> DEFINE t == Graft(extended, Find(extended, b), s)
  <2>2. Push(trees, b) = [rest EXCEPT ![i] = t]
    BY <1>4 DEF Push, taken
  <2> HIDE DEF i
  <2>3. extended \in Linked /\ HasBlock(extended, b) /\ Root(extended) = Root(rest[i])
    <3>1. extended \in Linked /\ HasBlock(extended, b)
      BY <2>1, ExtendLinked
    <3>2. CASE HasBlock(rest[i], b)
      BY <3>1, <3>2 DEF Extend
    <3>3. CASE ~HasBlock(rest[i], b)
      <4>1. rest[i] \in Tree /\ HasBlock(rest[i], Prev[b])
        BY <2>1, <3>3 DEF CanExtend, Linked
      <4>2. PICK h \in rest[i] : h.at = Find(rest[i], Prev[b]) /\ h.block = Prev[b]
        BY <4>1, FindProperties
      <4>3. Leaf(b) \in Linked /\ Root(Leaf(b)) = b
        BY LeafLinked
      <4>4. Root(Graft(rest[i], h.at, Leaf(b))) = Root(rest[i])
        BY <2>1, <4>2, <4>3, GraftLinked
      <4> QED BY <3>1, <3>3, <4>2, <4>4 DEF Extend
    <3> QED BY <3>2, <3>3
  <2>4. /\ BlocksOf(extended) = BlocksOf(rest[i]) \cup {b}
        /\ Once(rest[i]) => Once(extended)
    BY ExtendBlocks
  <2> HIDE DEF extended
  <2>5. PICK h \in extended : h.at = Find(extended, b) /\ h.block = b
    BY <2>3, FindProperties DEF Linked
  <2>6. Root(Graft(extended, h.at, s)) = Root(extended)
    BY <1>1, <2>3, <2>5, GraftLinked
  <2>7. /\ BlocksOf(t) = BlocksOf(rest[i]) \cup ({b} \cup BlocksOf(s))
        /\ Once(extended) /\ Once(s) /\ BlocksOf(extended) \cap BlocksOf(s) = {} => Once(t)
        /\ Root(t) = Root(rest[i])
    <3>1. BlocksOf(t) = BlocksOf(extended) \cup BlocksOf(s)
      BY GraftBlocks
    <3> QED BY <2>3, <2>4, <2>5, <2>6, <3>1, GraftBlocks
  <2> HIDE DEF t
  <2>8. LET B == {b} \cup BlocksOf(s) IN
        /\ GetBlocks([rest EXCEPT ![i] = t]) = GetBlocks(rest) \cup B
        /\ Single(rest) /\ Once(t) /\ B \cap GetBlocks(rest) = {} => Single([rest EXCEPT ![i] = t])
        /\ Twins([rest EXCEPT ![i] = t], anchor) => Twins(rest, anchor)
    BY <1>1, <2>1, <2>7, ReplaceBlocks
  <2>9. Single(trees) /\ b \notin GetBlocks(trees) => Once(t)
    <3>1. BlocksOf(rest[i]) \subseteq GetBlocks(rest)
      BY <2>1, InForest
    <3> QED BY <1>2, <2>1, <2>4, <2>7, <3>1 DEF Single
  <2> QED BY <1>2, <2>2, <2>8, <2>9
<1> QED BY <1>3, <1>4

\* A block that is not at the root is in a subtree, and in one only.
LEMMA SubtreesBlocks ==
    ASSUME NEW t \in Linked
    PROVE  /\ \A n \in t : n.at # <<>> => n.block \in GetBlocks(Subtrees(t))
           /\ GetBlocks(Subtrees(t)) \subseteq BlocksOf(t)
           /\ Once(t) => Single(Subtrees(t))
<1> DEFINE N == NumChildren(t, <<>>)
           up(n) == [at |-> Tail(n.at), block |-> n.block]
           part(i) == {m \in t : m.at # <<>> /\ Head(m.at) = i}
           sub == [i \in 1..N |-> {up(n) : n \in part(i)}]
<1>1. t \in Tree /\ Subtrees(t) = sub
  BY DEF Linked, Subtrees
<1>2. \A n : up(n).block = n.block
  OBVIOUS
<1>3. \A i \in 1..N : /\ \A n \in part(i) : up(n) \in sub[i]
                      /\ \A m \in sub[i] : \E n \in part(i) : m = up(n)
  OBVIOUS
<1>4. DOMAIN sub = 1..N
  OBVIOUS
<1>5. \A i : \A n \in part(i) : n \in t /\ Head(n.at) = i
  OBVIOUS
<1>6. ASSUME NEW n \in t, n.at # <<>> PROVE \E i \in 1..N : n \in part(i)
  <2> DEFINE a == n.at
             i == Head(a)
  <2>1. a \in Position /\ a # <<>> /\ <<>> \in Position /\ n \in t
    BY <1>1, <1>6, TreeFacts, EmptySeq DEF Position
  <2>2. Len(a) \in Nat \ {0}
    BY <2>1, EmptySeq, LenProperties DEF Position
  <2>3. 1 \in 1..Len(a) /\ i = a[1]
    BY <2>1, <2>2
  <2>4. a[1] \in Nat \ {0}
    BY <2>1, <2>3, PositionFacts
  <2>5. i \in 1..i /\ i \in Nat \ {0}
    BY <2>3, <2>4
  <2>6. \E m \in t : m.at = Append(SubSeq(a, 1, 1 - 1), i)
    <3>1. \A j \in 1..Len(a) : \A k \in 1..a[j] : \E m \in t : m.at = Append(SubSeq(a, 1, j - 1), k)
      BY <1>1, TreeFacts
    <3> HIDE DEF a, i
    <3> QED BY <2>3, <2>5, <3>1
  <2>7. SubSeq(a, 1, 1 - 1) = <<>>
    <3>1. 0 \in 0..Len(a) /\ 1 - 1 = 0
      BY <2>2
    <3>2. SubSeq(a, 1, 0) \in Position /\ Len(SubSeq(a, 1, 0)) = 0
      BY <2>1, <3>1, PrefixPosition
    <3> QED BY <3>1, <3>2, EmptySeq DEF Position
  <2>8. i \in 1..N
    <3>1. \E m \in t : m.at = Append(<<>>, i)
      BY <2>6, <2>7
    <3> HIDE DEF i
    <3> QED BY <1>1, <2>1, <2>5, <3>1, NumChildrenProperties
  <2> QED BY <1>6, <2>8
<1> HIDE DEF N, up, part, sub
<1>7. \A n \in t : n.at # <<>> => n.block \in GetBlocks(sub)
  BY <1>2, <1>3, <1>4, <1>6 DEF GetBlocks
<1>8. ASSUME NEW b \in GetBlocks(sub) PROVE b \in BlocksOf(t)
  <2>1. PICK i \in 1..N : \E m \in sub[i] : b = m.block
    BY <1>4 DEF GetBlocks
  <2>2. PICK m \in sub[i] : b = m.block
    BY <2>1
  <2> QED BY <1>2, <1>3, <1>5, <2>2 DEF BlocksOf
<1>9. ASSUME Once(t) PROVE Single(sub)
  <2>1. ASSUME NEW i \in 1..N, NEW j \in 1..N, NEW n \in sub[i], NEW m \in sub[j],
               n.block = m.block
        PROVE  i = j /\ n = m
    <3>1. PICK x \in part(i) : n = up(x)
      BY <1>3
    <3>2. PICK y \in part(j) : m = up(y)
      BY <1>3
    <3>3. x = y
      BY <1>2, <1>5, <1>9, <2>1, <3>1, <3>2 DEF Once
    <3> QED BY <1>5, <3>1, <3>2, <3>3
  <2>2. \A i \in 1..N : Once(sub[i])
    BY <2>1 DEF Once
  <2>3. ASSUME NEW i \in 1..N, NEW j \in 1..N, i # j
        PROVE  BlocksOf(sub[i]) \cap BlocksOf(sub[j]) = {}
    BY <2>1, <2>3 DEF BlocksOf
  <2> QED BY <1>4, <2>2, <2>3 DEF Single
<1> QED BY <1>1, <1>7, <1>8, <1>9

\* What pop() may lose of the trees when it returns the root of tree i: other
\* attached trees, and that root.
PopsRoot(trees, anchor, i) ==
    LET popped == Pop(trees, anchor) IN
    /\ Attached(trees[i], anchor) /\ Root(trees[i]) = popped.block
    /\ \A j \in DOMAIN trees : \A n \in trees[j] :
          \/ n.block \in GetBlocks(popped.trees)
          \/ j # i /\ Attached(trees[j], anchor)
          \/ j = i /\ n.block = popped.block

LEMMA PopBlocks ==
    ASSUME NEW trees \in Seq(Linked), NEW anchor
    PROVE  LET popped == Pop(trees, anchor) IN
           /\ GetBlocks(popped.trees) \subseteq GetBlocks(trees)
           /\ Single(trees) => Single(popped.trees)
           /\ popped.block = NoBlock => GetBlocks(trees) \subseteq GetBlocks(popped.trees)
           /\ popped.block # NoBlock => \E i \in DOMAIN trees : PopsRoot(trees, anchor, i)
<1> DEFINE sorted == Partitioned(trees, anchor)
           n == NumAttached(trees, anchor)
           I == 1..Len(trees)
           detached == SubSeq(sorted, n + 1, Len(sorted))
           popped == Pop(trees, anchor)
<1>1. trees \in Seq(Tree) /\ Linked \in SUBSET Tree
  <2>1. Linked \in SUBSET Tree
    BY DEF Linked
  <2> QED BY <2>1, SeqMonotonic
<1>2. /\ sorted \in Seq(Linked) /\ Len(sorted) = Len(trees) /\ Len(trees) \in Nat
      /\ DOMAIN trees = I /\ DOMAIN sorted = I
      /\ \A k \in I : sorted[k] \in Linked /\ trees[k] \in Linked
  BY <1>1, PartitionedType, LenProperties, ElementOfSeq
<1>3. n \in 0..Len(trees)
  BY <1>1, NumAttachedType
<1>4. \A k \in 1..n : Attached(sorted[k], anchor)
  BY <1>1, FirstAreAttached
<1>5. PICK f : IsPlacing(f, trees, sorted)
  BY <1>1, PartitionedPermutes
<1>6. /\ f \in [I -> I]
      /\ \A k \in I : sorted[k] = trees[f[k]]
      /\ \A k, l \in I : f[k] = f[l] => k = l
      /\ \A i \in I : \E k \in I : f[k] = i
  BY <1>2, <1>5 DEF IsPlacing
<1>7. popped = IF DeepestIsStable(sorted, n)
               THEN [block |-> Root(sorted[n]), trees |-> detached \o Subtrees(sorted[n])]
               ELSE [block |-> NoBlock, trees |-> sorted]
  BY DEF Pop
<1> HIDE DEF sorted, n, I, popped
<1>8. GetBlocks(sorted) = GetBlocks(trees)
  <2>1. \A k \in I : f[k] \in I /\ BlocksOf(sorted[k]) = BlocksOf(trees[f[k]])
    BY <1>6
  <2>2. ASSUME NEW b \in GetBlocks(sorted) PROVE b \in GetBlocks(trees)
    <3>1. PICK k \in I : b \in BlocksOf(sorted[k])
      BY <1>2, InForest
    <3> QED BY <1>2, <2>1, <3>1, InForest
  <2>3. ASSUME NEW b \in GetBlocks(trees) PROVE b \in GetBlocks(sorted)
    <3>1. PICK i \in I : b \in BlocksOf(trees[i])
      BY <1>2, InForest
    <3>2. PICK k \in I : f[k] = i
      BY <1>6
    <3> QED BY <1>2, <2>1, <3>1, <3>2, InForest
  <2> QED BY <2>2, <2>3
<1>9. ASSUME Single(trees) PROVE Single(sorted)
  <2>1. \A k \in I : Once(sorted[k])
    BY <1>2, <1>6, <1>9 DEF Single
  <2>2. ASSUME NEW k \in I, NEW l \in I, k # l
        PROVE  BlocksOf(sorted[k]) \cap BlocksOf(sorted[l]) = {}
    <3>1. f[k] \in I /\ f[l] \in I /\ f[k] # f[l]
      BY <1>6, <2>2
    <3>2. BlocksOf(trees[f[k]]) \cap BlocksOf(trees[f[l]]) = {}
      BY <1>2, <1>9, <3>1 DEF Single
    <3> QED BY <1>6, <3>2
  <2> QED BY <1>2, <2>1, <2>2 DEF Single
<1>10. ASSUME ~DeepestIsStable(sorted, n)
       PROVE  /\ GetBlocks(popped.trees) \subseteq GetBlocks(trees)
              /\ Single(trees) => Single(popped.trees)
              /\ popped.block = NoBlock => GetBlocks(trees) \subseteq GetBlocks(popped.trees)
              /\ popped.block # NoBlock => \E i \in DOMAIN trees : PopsRoot(trees, anchor, i)
  BY <1>7, <1>8, <1>9, <1>10
<1>11. ASSUME DeepestIsStable(sorted, n)
       PROVE  /\ GetBlocks(popped.trees) \subseteq GetBlocks(trees)
              /\ Single(trees) => Single(popped.trees)
              /\ popped.block = NoBlock => GetBlocks(trees) \subseteq GetBlocks(popped.trees)
              /\ popped.block # NoBlock => \E i \in DOMAIN trees : PopsRoot(trees, anchor, i)
  <2> DEFINE t == sorted[n]
             subs == Subtrees(t)
             all == detached \o subs
             m == Len(trees) - n
             d == Len(subs)
  <2>1. /\ n \in I /\ n \in Nat /\ t \in Linked /\ t \in Tree
        /\ popped.block = Root(t) /\ popped.trees = all
    <3>1. n \in I /\ n \in Nat
      BY <1>2, <1>3, <1>11 DEF DeepestIsStable, I
    <3>2. t \in Linked
      BY <1>2, <3>1
    <3>3. t \in Tree
      BY <1>1, <3>2
    <3>4. popped = [block |-> Root(t), trees |-> all]
      BY <1>7, <1>11
    <3> QED BY <3>1, <3>2, <3>3, <3>4
  <2> HIDE DEF t, subs
  <2>2. /\ subs \in Seq(Linked) /\ d \in Nat /\ DOMAIN subs = 1..d
        /\ \A x \in t : x.at # <<>> => x.block \in GetBlocks(subs)
        /\ GetBlocks(subs) \subseteq BlocksOf(t)
        /\ Once(t) => Single(subs)
    BY <2>1, SubtreesLinked, SubtreesBlocks, LenProperties DEF subs
  <2>3. /\ detached \in Seq(Linked) /\ Len(detached) = m /\ m \in Nat
        /\ \A k \in 1..m : n + k \in I /\ n + k # n /\ detached[k] = sorted[n + k]
    <3> DEFINE L == Len(trees)
    <3>1. L \in Nat /\ n \in 1..L /\ L = Len(sorted) /\ n + 1 \in 1..(L + 1) /\ L \in 0..L
      BY <1>2, <2>1 DEF I
    <3>2. \A j \in (n + 1)..L : sorted[j] \in Linked
      BY <1>2, <3>1 DEF I
    <3>3. /\ detached \in Seq(Linked)
          /\ Len(detached) = IF n + 1 <= L THEN L - (n + 1) + 1 ELSE 0
          /\ \A k \in 1..(L - (n + 1) + 1) : detached[k] = sorted[n + 1 + k - 1]
      BY <1>2, <3>1, <3>2, SubSeqProperties
    <3> HIDE DEF L, detached
    <3>4. /\ L - (n + 1) + 1 = L - n /\ (~(n + 1 <= L) => L - n = 0)
          /\ \A k \in 1..(L - n) : n + 1 + k - 1 = n + k /\ n + k \in 1..L /\ n + k # n
          /\ L - n \in Nat
      BY <3>1
    <3> QED BY <3>3, <3>4 DEF L, I
  <2> HIDE DEF detached, m, d
  <2>4. /\ DOMAIN all = 1..(m + d)
        /\ \A k \in 1..m : all[k] = sorted[n + k]
        /\ \A k \in 1..d : all[m + k] = subs[k]
    <3>1. /\ all \in Seq(Linked) /\ Len(all) = Len(detached) + Len(subs)
          /\ \A k \in 1..Len(detached) : all[k] = detached[k]
          /\ \A k \in 1..Len(subs) : all[Len(detached) + k] = subs[k]
      <4>1. detached \in Seq(Linked) /\ subs \in Seq(Linked)
        BY <2>2, <2>3
      <4> HIDE DEF detached, subs
      <4> QED BY <4>1, ConcatParts
    <3> HIDE DEF all
    <3>2. /\ DOMAIN all = 1..(m + d)
          /\ \A k \in 1..m : all[k] = detached[k]
          /\ \A k \in 1..d : all[m + k] = subs[k]
      BY <2>3, <3>1, LenProperties DEF d
    <3> QED BY <2>3, <3>2
  <2> HIDE DEF all
  <2>5. /\ \A k \in 1..m : k \in DOMAIN all
        /\ \A k \in 1..d : m + k \in DOMAIN all
        /\ \A x \in DOMAIN all : x \in 1..m \/ \E k \in 1..d : x = m + k
    <3>1. m \in Nat /\ d \in Nat
      BY <2>2, <2>3
    <3>2. /\ \A x \in 1..(m + d) : x \in 1..m \/ (x - m \in 1..d /\ x = m + (x - m))
          /\ \A k \in 1..m : k \in 1..(m + d)
          /\ \A k \in 1..d : m + k \in 1..(m + d)
      BY <3>1
    <3>3. \A x \in 1..(m + d) : x \in 1..m \/ \E k \in 1..d : x = m + k
      BY <3>2
    <3> QED BY <2>4, <3>2, <3>3
  <2>6. GetBlocks(all) \subseteq GetBlocks(trees)
    <3>1. ASSUME NEW b \in GetBlocks(all) PROVE b \in GetBlocks(sorted)
      <4>1. PICK x \in DOMAIN all : b \in BlocksOf(all[x])
        BY InForest
      <4>2. CASE x \in 1..m
        BY <1>2, <2>3, <2>4, <4>1, <4>2, InForest
      <4>3. CASE \E k \in 1..d : x = m + k
        <5>1. PICK k \in 1..d : x = m + k
          BY <4>3
        <5>2. b \in GetBlocks(subs)
          BY <2>2, <2>4, <4>1, <5>1, InForest
        <5> QED BY <1>2, <2>1, <2>2, <5>2, InForest DEF t
      <4> QED BY <2>5, <4>2, <4>3
    <3> QED BY <1>8, <3>1
  <2>7. ASSUME Single(trees) PROVE Single(all)
    <3>1. /\ \A k \in I : Once(sorted[k])
          /\ \A k, l \in I : k # l => BlocksOf(sorted[k]) \cap BlocksOf(sorted[l]) = {}
      BY <1>2, <1>9, <2>7 DEF Single
    <3>2. /\ \A k \in 1..d : Once(subs[k]) /\ BlocksOf(subs[k]) \subseteq BlocksOf(t)
          /\ \A k, l \in 1..d : k # l => BlocksOf(subs[k]) \cap BlocksOf(subs[l]) = {}
      BY <2>1, <2>2, <3>1, InForest DEF Single, t
    <3>3. \A x \in DOMAIN all : Once(all[x])
      BY <2>3, <2>4, <2>5, <3>1, <3>2
    <3>4. ASSUME NEW x \in DOMAIN all, NEW y \in DOMAIN all, x # y
          PROVE  BlocksOf(all[x]) \cap BlocksOf(all[y]) = {}
      <4>1. \A k \in 1..m : BlocksOf(all[k]) \cap BlocksOf(t) = {}
        BY ZenonT(30), <2>1, <2>3, <2>4, <3>1 DEF t
      <4>2. CASE x \in 1..m /\ y \in 1..m
        <5>1. n + x \in I /\ n + y \in I /\ n + x # n + y
          BY <2>1, <2>3, <3>4, <4>2
        <5> QED BY <2>4, <3>1, <4>2, <5>1
      <4>3. CASE x \in 1..m /\ \E k \in 1..d : y = m + k
        BY <2>4, <3>2, <4>1, <4>3
      <4>4. CASE y \in 1..m /\ \E k \in 1..d : x = m + k
        BY <2>4, <3>2, <4>1, <4>4
      <4>5. CASE (\E k \in 1..d : x = m + k) /\ \E k \in 1..d : y = m + k
        BY <2>4, <3>2, <3>4, <4>5
      <4> QED BY <2>5, <4>2, <4>3, <4>4, <4>5
    <3> QED BY <3>3, <3>4 DEF Single
  <2>8. \E i \in DOMAIN trees : PopsRoot(trees, anchor, i)
    <3> DEFINE i == f[n]
    <3>1. i \in I /\ trees[i] = t
      BY <1>6, <2>1 DEF t
    <3>2. Attached(t, anchor)
      <4>1. n >= 1 /\ n \in Nat
        BY <1>2, <2>1 DEF I
      <4>2. n \in 1..n
        BY <4>1
      <4> QED BY <1>4, <4>2 DEF t
    <3>3. ASSUME NEW j \in I, NEW x \in trees[j],
                 ~(j # i /\ Attached(trees[j], anchor)),
                 ~(j = i /\ x.block = popped.block)
          PROVE  x.block \in GetBlocks(all)
      <4>1. CASE j = i
        <5>1. x \in t /\ x.block # Root(t)
          BY <2>1, <3>1, <3>3, <4>1
        <5>2. x.at # <<>>
          BY <2>1, <5>1, RootProperties
        <5>3. x.block \in GetBlocks(subs)
          BY <2>2, <5>1, <5>2
        <5>4. PICK k \in 1..d : x.block \in BlocksOf(subs[k])
          BY <2>2, <5>3, InForest
        <5> QED BY <2>4, <2>5, <5>4, InForest
      <4>2. CASE j # i
        <5>1. PICK k \in I : f[k] = j
          BY <1>6
        <5>2. sorted[k] = trees[j] /\ ~Attached(sorted[k], anchor)
          BY <1>6, <3>3, <4>2, <5>1
        <5>3. k - n \in 1..m /\ n + (k - n) = k
          <6>1. ~(k \in 1..n)
            BY <1>4, <5>2
          <6> QED BY <1>2, <2>1, <6>1 DEF I, m
        <5>4. all[k - n] = trees[j] /\ k - n \in DOMAIN all
          BY <2>4, <2>5, <5>2, <5>3
        <5>5. x.block \in BlocksOf(all[k - n])
          BY <5>4 DEF BlocksOf
        <5> QED BY <5>4, <5>5, InForest
      <4> QED BY <4>1, <4>2
    <3> HIDE DEF i
    <3>4. PopsRoot(trees, anchor, i)
      BY <1>2, <2>1, <3>1, <3>2, <3>3 DEF PopsRoot, popped
    <3> QED BY <1>2, <3>1, <3>4
  <2>9. popped.block # NoBlock
    BY <2>1, RootProperties, BlocksAssumption
  <2> QED BY <2>1, <2>6, <2>7, <2>8, <2>9
<1> QED BY <1>10, <1>11 DEF popped
-----------------------------------------------------------------------------
\* Chains

\* A sequence of blocks that starts above an anchor, each following the one before.
IsChain(c, anchor) ==
    /\ c \in Seq(Blocks)
    /\ \A k \in 1..Len(c) : Prev[c[k]] = IF k = 1 THEN anchor ELSE c[k - 1]

\* The node at a position, and above every node one at each prefix of its position.
LEMMA PathInTree ==
    ASSUME NEW t \in Tree, NEW n \in t
    PROVE  /\ BlockAt(t, n.at) = n.block
           /\ \A k \in 0..Len(n.at) : \E m \in t : m.at = SubSeq(n.at, 1, k)
<1>1. n.at \in Position /\ Len(n.at) \in Nat
  BY TreeFacts, PositionFacts
<1>2. BlockAt(t, n.at) = n.block
  BY TreeFacts DEF BlockAt
<1>3. ASSUME NEW k \in 0..Len(n.at) PROVE \E m \in t : m.at = SubSeq(n.at, 1, k)
  <2>1. CASE k = 0
    <3>1. SubSeq(n.at, 1, 0) = <<>>
      BY <1>1, PrefixPosition, EmptySeq DEF Position
    <3> QED BY <2>1, <3>1, TreeFacts
  <2>2. CASE k # 0
    <3>1. k \in 1..Len(n.at) /\ n.at[k] \in 1..n.at[k] /\ k - 1 \in 0..Len(n.at)
      BY <1>1, <2>2, PositionFacts
    <3>2. PICK m \in t : m.at = Append(SubSeq(n.at, 1, k - 1), n.at[k])
      <4>1. \A j \in 1..Len(n.at) : \A i \in 1..n.at[j] :
               \E m \in t : m.at = Append(SubSeq(n.at, 1, j - 1), i)
        BY ZenonT(30), TreeFacts
      <4>2. \A i \in 1..n.at[k] : \E m \in t : m.at = Append(SubSeq(n.at, 1, k - 1), i)
        BY <3>1, <4>1
      <4> HIDE <4>1
      <4> QED BY <3>1, <4>2
    <3>3. Append(SubSeq(n.at, 1, k - 1), n.at[k]) = SubSeq(n.at, 1, k)
      <4> DEFINE p == n.at
      <4>1. p \in Seq(Nat \ {0}) /\ k \in Nat
        BY <1>1, <3>1 DEF Position
      <4> HIDE DEF p
      <4>2. k \in 1..Len(p)
        BY <3>1 DEF p
      <4> QED BY <4>1, <4>2 DEF p
    <3> QED BY <3>2, <3>3
  <2> QED BY <2>1, <2>2
<1> QED BY <1>2, <1>3

\* The blocks on the path down to a node.
NodePath(t, n) == [k \in 1..(Len(n.at) + 1) |-> BlockAt(t, SubSeq(n.at, 1, k - 1))]

\* In a tree that is attached they are a chain above the anchor.
LEMMA PathIsChain ==
    ASSUME NEW t \in Linked, NEW anchor, Attached(t, anchor), NEW n \in t
    PROVE  LET c == NodePath(t, n) IN
           /\ IsChain(c, anchor)
           /\ Len(n.at) \in Nat /\ Len(c) = Len(n.at) + 1
           /\ c[Len(c)] = n.block
           /\ \A k \in 1..Len(c) : c[k] \in BlocksOf(t)
<1> DEFINE c == NodePath(t, n)
           d == Len(n.at)
<1>1. c = [k \in 1..(d + 1) |-> BlockAt(t, SubSeq(n.at, 1, k - 1))]
  BY DEF NodePath
<1>2. t \in Tree /\ n.at \in Position /\ d \in Nat
  BY TreeFacts, PositionFacts DEF Linked
<1> HIDE DEF c
<1>3. ASSUME NEW k \in 1..(d + 1)
      PROVE  \E m \in t : m.at = SubSeq(n.at, 1, k - 1) /\ m.block = c[k]
  <2>1. k - 1 \in 0..d
    BY <1>2
  <2>2. PICK m \in t : m.at = SubSeq(n.at, 1, k - 1)
    BY <1>2, <2>1, PathInTree
  <2>3. BlockAt(t, m.at) = m.block
    BY <1>2, PathInTree
  <2> QED BY <1>1, <2>2, <2>3
<1>4. c \in Seq(Blocks) /\ Len(c) = d + 1
  <2>1. \A k \in 1..(d + 1) : c[k] \in Blocks
    BY <1>2, <1>3, TreeFacts
  <2>2. c \in [1..(d + 1) -> Blocks] /\ d + 1 \in Nat \ {0}
    <3>1. DOMAIN c = 1..(d + 1) /\ c = [k \in DOMAIN c |-> c[k]]
      BY <1>1
    <3>2. d + 1 \in Nat \ {0}
      BY <1>2
    <3> QED BY <2>1, <3>1, <3>2
  <2> HIDE DEF d
  <2> QED BY <2>2
<1>5. ASSUME NEW k \in 1..(d + 1)
      PROVE  Prev[c[k]] = IF k = 1 THEN anchor ELSE c[k - 1]
  <2>1. PICK m \in t : m.at = SubSeq(n.at, 1, k - 1) /\ m.block = c[k]
    BY <1>3
  <2>2. CASE k = 1
    <3>1. SubSeq(n.at, 1, 0) = <<>>
      BY <1>2, PrefixPosition, EmptySeq DEF Position
    <3>3. m.at = <<>>
      BY <2>1, <2>2, <3>1
    <3>2. m.block = Root(t)
      BY <1>2, <3>3, RootProperties
    <3> QED BY <2>1, <2>2, <3>2 DEF Attached
  <2>3. CASE k # 1
    <3>1. k - 1 \in 1..(d + 1) /\ k - 1 \in 1..d
      BY <1>2, <2>3
    <3>2. PICK l \in t : l.at = SubSeq(n.at, 1, (k - 1) - 1) /\ l.block = c[k - 1]
      BY <1>3, <3>1
    <3>3. Front(m.at) = l.at /\ m.at # <<>>
      <4> DEFINE p == n.at
                 j == k - 1
      <4>1. p \in Seq(Nat \ {0}) /\ j \in 1..Len(p)
        BY <1>2, <3>1 DEF Position
      <4> HIDE DEF p, j
      <4>2. SubSeq(p, 1, j) \in Seq(Nat \ {0}) /\ Len(SubSeq(p, 1, j)) = j
        BY <4>1
      <4>3. Front(SubSeq(p, 1, j)) = SubSeq(p, 1, j - 1) /\ SubSeq(p, 1, j) # <<>>
        BY <4>1, <4>2 DEF Front
      <4> QED BY <2>1, <3>2, <4>3 DEF p, j
    <3>4. Prev[m.block] = l.block
      BY <3>3 DEF Linked
    <3> QED BY <2>1, <2>3, <3>2, <3>4
  <2> QED BY <2>2, <2>3
<1>6. IsChain(c, anchor)
  BY <1>4, <1>5 DEF IsChain
<1>7. \A k \in 1..(d + 1) : c[k] \in BlocksOf(t)
  BY <1>3 DEF BlocksOf
<1>8. c[d + 1] = n.block
  <2>1. d + 1 \in 1..(d + 1) /\ (d + 1) - 1 = d
    BY <1>2
  <2>2. SubSeq(n.at, 1, d) = n.at
    BY <1>2 DEF Position
  <2>3. c[d + 1] = BlockAt(t, SubSeq(n.at, 1, (d + 1) - 1))
    BY <1>1, <2>1
  <2> QED BY <1>2, <2>1, <2>2, <2>3, PathInTree
<1> QED BY <1>2, <1>4, <1>6, <1>7, <1>8 DEF c

\* The chains of an attached tree are its paths down to a leaf.
LEMMA BlockchainsAreChains ==
    ASSUME NEW t \in Linked, NEW anchor, Attached(t, anchor), NEW c \in Blockchains(t)
    PROVE  /\ IsChain(c, anchor)
           /\ Len(c) \in Nat \ {0}
           /\ \A k \in 1..Len(c) : c[k] \in BlocksOf(t)
<1>1. PICK n \in t : c = NodePath(t, n)
  BY DEF Blockchains, Leaves, NodePath
<1> QED BY <1>1, PathIsChain

\* Below every node there is nothing longer than the depth of the tree; a chain of
\* the tree is as long, and a node at which no chain ends has a longer one below it.
LEMMA DeepestLeaf ==
    ASSUME NEW t \in Tree
    PROVE  /\ Depth(t) \in Nat
           /\ \A m \in t : Len(m.at) \in Nat /\ Len(m.at) <= Depth(t)
           /\ \E n \in Leaves(t) : Len(n.at) = Depth(t)
           /\ \A n \in t \ Leaves(t) : \E m \in t : Len(m.at) > Len(n.at)
<1> DEFINE g == [n \in t |-> Len(n.at)]
           L == {g[n] : n \in t}
<1>1. IsFiniteSet(t) /\ \A m \in t : m.at \in Position /\ Len(m.at) \in Nat
  BY TreeFacts, PositionFacts
<1>2. Depth(t) = Max(L)
  <2>1. L = {Len(m.at) : m \in t}
    OBVIOUS
  <2> QED BY <2>1 DEF Depth
<1>3. IsFiniteSet(L)
  BY <1>1, ImageFinite
<1>4. L \in SUBSET Nat /\ L # {}
  <2>1. PICK n \in t : TRUE
    BY TreeFacts
  <2>2. Len(n.at) \in L
    OBVIOUS
  <2> QED BY <1>1, <2>2
<1>5. Max(L) \in L /\ \A x \in L : x <= Max(L)
  <2> HIDE DEF L
  <2> QED BY <1>3, <1>4, MaxProperties
<1>6. \A m \in t : Len(m.at) <= Depth(t)
  BY <1>2, <1>5
<1>7. PICK n \in t : Len(n.at) = Depth(t)
  BY <1>2, <1>5
<1>8. \A p, q \in t : IsStrictPrefix(p.at, q.at) => Len(q.at) > Len(p.at)
  <2> SUFFICES ASSUME NEW p \in t, NEW q \in t, IsStrictPrefix(p.at, q.at)
               PROVE  Len(q.at) > Len(p.at)
    OBVIOUS
  <2> DEFINE x == p.at
             y == q.at
  <2>1. /\ x \in Seq(Nat \ {0}) /\ y \in Seq(Nat \ {0})
        /\ Len(x) \in Nat /\ Len(y) \in Nat
        /\ Len(x) <= Len(y) /\ SubSeq(x, 1, Len(x)) = SubSeq(y, 1, Len(x)) /\ x # y
    BY <1>1 DEF IsStrictPrefix, IsPrefix, Position
  <2> HIDE DEF x, y
  <2>2. SubSeq(x, 1, Len(x)) = x /\ SubSeq(y, 1, Len(y)) = y
    BY <2>1
  <2>3. Len(x) # Len(y)
    BY <2>1, <2>2
  <2> QED BY <2>1, <2>3 DEF x, y
<1>9. n \in Leaves(t)
  <2>1. ASSUME NEW m \in t, IsStrictPrefix(n.at, m.at) PROVE FALSE
    <3>1. Len(m.at) > Len(n.at) /\ Len(m.at) <= Depth(t) /\ Len(m.at) \in Nat
      BY <1>1, <1>6, <1>8, <2>1
    <3> QED BY <1>1, <1>7, <3>1
  <2> QED BY <2>1 DEF Leaves
<1>10. \A m \in t \ Leaves(t) : \E q \in t : Len(q.at) > Len(m.at)
  BY <1>8 DEF Leaves
<1>11. Depth(t) \in Nat
  BY <1>1, <1>7
<1> QED BY <1>1, <1>6, <1>7, <1>9, <1>10, <1>11

\* The longest common prefix is a common prefix, and longest.
LEMMA LongestCommon ==
    ASSUME NEW T, NEW S \in SUBSET Seq(T), S # {}
    PROVE  LET p == LongestCommonPrefix(S) IN
           /\ \A s \in S : p = SubSeq(s, 1, Len(p)) /\ Len(p) \in 0..Len(s)
           /\ \A s \in S : \A l \in 0..Len(s) :
                 (\A u \in S : IsPrefix(SubSeq(s, 1, l), u)) => l <= Len(p)
<1> DEFINE C == CommonPrefixes(S)
           L == {Len(q) : q \in C}
<1>1. PICK r \in S : TRUE
  OBVIOUS
<1>2. \A s \in S : s \in Seq(T) /\ Len(s) \in Nat
  OBVIOUS
<1>3. \A s \in S : \A l \in 0..Len(s) : Len(SubSeq(s, 1, l)) = l
  BY <1>2
<1>4. \A q \in C : Len(q) \in Nat /\ \A s \in S : q = SubSeq(s, 1, Len(q)) /\ Len(q) \in 0..Len(s)
  <2>1. ASSUME NEW q \in C, NEW s \in S PROVE q = SubSeq(s, 1, Len(q)) /\ Len(q) \in 0..Len(s)
    <3>5. PICK u \in S : \E l \in 0..Len(u) : q = SubSeq(u, 1, l)
      BY DEF CommonPrefixes, Prefixes
    <3>1. PICK l \in 0..Len(u) : q = SubSeq(u, 1, l)
      BY <3>5
    <3>2. q \in Seq(T) /\ Len(q) = l
      BY <1>2, <3>1
    <3>3. Len(q) <= Len(s) /\ SubSeq(q, 1, Len(q)) = SubSeq(s, 1, Len(q))
      BY DEF CommonPrefixes, IsPrefix
    <3>4. SubSeq(q, 1, Len(q)) = q
      BY <3>2
    <3> QED BY <1>2, <3>2, <3>3, <3>4
  <2> QED BY <1>1, <1>2, <2>1
<1>5. \A s \in S : \A l \in 0..Len(s) :
         (\A u \in S : IsPrefix(SubSeq(s, 1, l), u)) => SubSeq(s, 1, l) \in C
  BY DEF CommonPrefixes, Prefixes
<1>6. SubSeq(r, 1, 0) \in C
  <2>1. SubSeq(r, 1, 0) = <<>> /\ 0 \in 0..Len(r)
    BY <1>1, <1>2
  <2>2. \A u \in S : IsPrefix(<<>>, u)
    BY <1>2 DEF IsPrefix
  <2> QED BY <1>1, <1>5, <2>1, <2>2
<1>7. \E p \in C : \A q \in C : Len(q) <= Len(p)
  <2>1. L \subseteq 0..Len(r) /\ L # {} /\ L \in SUBSET Nat
    BY <1>1, <1>2, <1>4, <1>6
  <2>2. IsFiniteSet(L)
    <3>1. IsFiniteSet(0..Len(r))
      BY <1>2, FS_Interval
    <3> QED BY <2>1, <3>1, FS_Subset
  <2>3. Max(L) \in L /\ \A x \in L : x <= Max(L)
    <3> HIDE DEF L
    <3> QED BY <2>1, <2>2, MaxProperties
  <2> QED BY <2>3
<1>8. LongestCommonPrefix(S) \in C /\ \A q \in C : Len(q) <= Len(LongestCommonPrefix(S))
  <2> HIDE DEF C
  <2> QED BY <1>7 DEF LongestCommonPrefix, C
<1> HIDE DEF C
<1>9. \A s \in S : \A l \in 0..Len(s) :
         (\A u \in S : IsPrefix(SubSeq(s, 1, l), u)) => l <= Len(LongestCommonPrefix(S))
  BY <1>3, <1>5, <1>8
<1> QED BY <1>4, <1>8, <1>9

\* The beginning of a chain is a chain.
LEMMA ChainPrefix ==
    ASSUME NEW c, NEW anchor, IsChain(c, anchor), NEW l \in 0..Len(c)
    PROVE  IsChain(SubSeq(c, 1, l), anchor) /\ Len(SubSeq(c, 1, l)) = l
<1>1. c \in Seq(Blocks) /\ Len(c) \in Nat
  BY DEF IsChain
<1>2. /\ SubSeq(c, 1, l) \in Seq(Blocks) /\ Len(SubSeq(c, 1, l)) = l
      /\ \A k \in 1..l : SubSeq(c, 1, l)[k] = c[k]
  BY <1>1
<1>3. \A k \in 1..l : k \in 1..Len(c) /\ (k # 1 => k - 1 \in 1..l)
  BY <1>1
<1> QED BY <1>2, <1>3 DEF IsChain

AttachedChains(trees, anchor) ==
    UNION {Blockchains(trees[i]) : i \in {j \in DOMAIN trees : Attached(trees[j], anchor)}}

\* No chain of a forest is longer than its deepest tree is deep.
LEMMA ChainsBounded ==
    ASSUME NEW trees \in Seq(Tree), NEW anchor
    PROVE  \E n \in Nat : \A d \in AttachedChains(trees, anchor) : Len(d) <= n
<1> DEFINE f == [i \in DOMAIN trees |-> Depth(trees[i])]
           D == {f[i] : i \in DOMAIN trees}
<1>1. \A i \in DOMAIN trees : trees[i] \in Tree
  BY ElementOfSeq, LenProperties
<1>2. \A i \in DOMAIN trees : \A d \in Blockchains(trees[i]) : Len(d) \in Nat /\ Len(d) <= f[i] + 1
  <2>1. ASSUME NEW i \in DOMAIN trees, NEW d \in Blockchains(trees[i])
        PROVE  Len(d) \in Nat /\ Len(d) <= f[i] + 1
    <3> DEFINE t == trees[i]
    <3>1. PICK n \in t : d = [k \in 1..(Len(n.at) + 1) |-> BlockAt(t, SubSeq(n.at, 1, k - 1))]
      BY DEF Blockchains, Leaves
    <3>2. Len(n.at) \in Nat /\ Len(n.at) <= Depth(t) /\ Depth(t) \in Nat
      BY <1>1, DeepestLeaf
    <3>3. Len(d) = Len(n.at) + 1
      <4>1. Len(n.at) + 1 \in Nat
        BY <3>2
      <4> QED BY <3>1, <4>1
    <3> QED BY <3>2, <3>3
  <2> QED BY <2>1
<1>3. CASE DOMAIN trees = {}
  <2>1. AttachedChains(trees, anchor) = {}
    BY <1>3 DEF AttachedChains
  <2> QED BY <2>1
<1>4. CASE DOMAIN trees # {}
  <2>1. D \in SUBSET Nat /\ D # {}
    BY <1>1, <1>4, DepthType
  <2>2. IsFiniteSet(D)
    <3>1. IsFiniteSet(DOMAIN trees)
      BY LenProperties, FS_Interval
    <3> HIDE DEF f
    <3>2. DOMAIN f = DOMAIN trees
      BY DEF f
    <3> QED BY <3>1, <3>2, ImageFinite
  <2>3. Max(D) \in Nat /\ \A i \in DOMAIN trees : f[i] <= Max(D) /\ f[i] \in Nat
    <3>1. Max(D) \in D /\ \A x \in D : x <= Max(D)
      <4> HIDE DEF D
      <4> QED BY <2>1, <2>2, MaxProperties
    <3> QED BY <2>1, <3>1
  <2> HIDE DEF D, f
  <2>4. ASSUME NEW d \in AttachedChains(trees, anchor) PROVE Len(d) <= Max(D) + 1
    <3>1. PICK i \in DOMAIN trees : d \in Blockchains(trees[i])
      BY DEF AttachedChains
    <3>2. Len(d) <= f[i] + 1 /\ Len(d) \in Nat
      BY <1>2, <3>1
    <3> QED BY <2>3, <3>2
  <2>5. Max(D) + 1 \in Nat
    BY <2>3
  <2> QED BY <2>4, <2>5
<1> QED BY <1>3, <1>4

LongestChains(trees, anchor) ==
    {c \in AttachedChains(trees, anchor) :
        \A d \in AttachedChains(trees, anchor) : Len(d) <= Len(c)}

\* If there is a chain there is a longest one, and the current chain is what the
\* longest ones have in common.
LEMMA LongestChainsExist ==
    ASSUME NEW trees \in Seq(Linked), NEW anchor
    PROVE  /\ \A c \in AttachedChains(trees, anchor) :
                 IsChain(c, anchor) /\ c \in Seq(Blocks) /\ Len(c) \in Nat \ {0}
           /\ \/ /\ AttachedChains(trees, anchor) = {}
                 /\ GetCurrentChain(trees, anchor) = <<>>
              \/ /\ LongestChains(trees, anchor) # {}
                 /\ GetCurrentChain(trees, anchor)
                       = LongestCommonPrefix(LongestChains(trees, anchor))
<1> DEFINE chains == AttachedChains(trees, anchor)
           longest == {c \in chains : \A d \in chains : Len(d) <= Len(c)}
<1>1. \A c \in chains : IsChain(c, anchor) /\ c \in Seq(Blocks) /\ Len(c) \in Nat \ {0}
  <2>1. \A c \in chains : IsChain(c, anchor) /\ Len(c) \in Nat \ {0}
    BY ElementOfSeq, LenProperties, BlockchainsAreChains DEF AttachedChains
  <2> QED BY <2>1 DEF IsChain
<1>2. GetCurrentChain(trees, anchor) =
         IF chains = {} THEN <<>> ELSE LongestCommonPrefix(LongestChains(trees, anchor))
  BY DEF GetCurrentChain, AttachedChains, LongestChains
<1>3. ASSUME chains # {} PROVE longest # {}
  <2> HIDE DEF chains
  <2>1. PICK c \in chains : TRUE
    BY <1>3
  <2>2. trees \in Seq(Tree)
    BY SeqMonotonic DEF Linked
  <2>3. PICK n \in Nat : \A d \in chains : Len(d) <= n
    BY <2>2, ChainsBounded DEF chains
  <2> DEFINE L == {Len(d) : d \in chains}
  <2>4. L \in SUBSET Nat /\ L # {} /\ L \subseteq 0..n
    <3>1. \A d \in chains : Len(d) \in 0..n
      BY <1>1, <2>3
    <3>2. Len(c) \in L
      BY <2>1
    <3>3. L \subseteq 0..n
      BY <3>1
    <3> QED BY <3>2, <3>3
  <2>5. IsFiniteSet(L)
    <3>1. IsFiniteSet(0..n)
      BY FS_Interval
    <3> QED BY <2>4, <3>1, FS_Subset
  <2>6. Max(L) \in L /\ \A x \in L : x <= Max(L)
    <3> HIDE DEF L
    <3> QED BY <2>4, <2>5, MaxProperties
  <2> QED BY <2>6
<1>4. longest = LongestChains(trees, anchor)
  BY DEF LongestChains
<1> QED BY <1>1, <1>2, <1>3, <1>4

\* What get_current_chain returns is a chain above the anchor.
LEMMA CurrentChainIsChain ==
    ASSUME NEW trees \in Seq(Linked), NEW anchor
    PROVE  IsChain(GetCurrentChain(trees, anchor), anchor)
<1> DEFINE longest == LongestChains(trees, anchor)
           p == LongestCommonPrefix(longest)
<1>1. CASE GetCurrentChain(trees, anchor) = <<>>
  BY <1>1 DEF IsChain
<1>2. CASE longest # {} /\ GetCurrentChain(trees, anchor) = p
  <2>1. PICK s \in longest : TRUE
    BY <1>2
  <2>2. IsChain(s, anchor) /\ longest \in SUBSET Seq(Blocks)
    BY LongestChainsExist DEF LongestChains
  <2> HIDE DEF longest
  <2>3. p = SubSeq(s, 1, Len(p)) /\ Len(p) \in 0..Len(s)
    BY <1>2, <2>1, <2>2, LongestCommon
  <2> HIDE DEF p
  <2> QED BY <1>2, <2>2, <2>3, ChainPrefix
<1> QED BY <1>1, <1>2, LongestChainsExist

-----------------------------------------------------------------------------
\* Deliveries in order: which trees there are after push() and pop()

\* A block that no tree follows joins the first tree that has the block before it,
\* whose root stays, or is a tree of its own if there is none.
LEMMA PushInOrder ==
    ASSUME NEW trees \in Seq(Linked), NEW b \in Blocks, b \notin GetBlocks(trees),
           \A i \in DOMAIN trees : Prev[Root(trees[i])] # b
    PROVE  LET new == Push(trees, b) IN
           \A k \in DOMAIN new :
              \/ k \in DOMAIN trees /\ new[k] = trees[k]
              \/ /\ BlocksOf(new[k]) = {b} /\ Root(new[k]) = b
                 /\ Prev[b] \notin GetBlocks(trees)
              \/ /\ k \in DOMAIN trees /\ Prev[b] \in BlocksOf(trees[k])
                 /\ BlocksOf(new[k]) = BlocksOf(trees[k]) \cup {b}
                 /\ Root(new[k]) = Root(trees[k])
<1> DEFINE homes == {i \in DOMAIN trees : CanExtend(trees[i], b)}
           i == Min(homes)
           extended == Extend(trees[i], b)
           new == Push(trees, b)
<1>1. TakeTree(trees, b) = [tree |-> {}, rest |-> trees]
  BY DEF TakeTree
<1>2. \A t, p : Graft(t, p, {}) = t
  BY DEF Graft
<1>3. \A k \in DOMAIN trees : CanExtend(trees[k], b) <=> Prev[b] \in BlocksOf(trees[k])
  BY InForest DEF CanExtend, HasBlock, BlocksOf
<1>4. CASE homes = {}
  <2>1. new = Append(trees, Leaf(b))
    BY <1>1, <1>2, <1>4 DEF Push
  <2> DEFINE n == Len(trees)
  <2>2. /\ n \in Nat /\ DOMAIN trees = 1..n
        /\ DOMAIN new = 1..(n + 1) /\ new[n + 1] = Leaf(b)
        /\ \A j \in 1..n : new[j] = trees[j]
    <3>1. Leaf(b) \in Linked
      BY LeafLinked
    <3>2. /\ new \in Seq(Linked) /\ Len(new) = n + 1 /\ new[n + 1] = Leaf(b)
          /\ \A j \in 1..n : new[j] = trees[j]
      BY <2>1, <3>1, AppendProperties
    <3> QED BY <3>2, LenProperties
  <2>3. BlocksOf(Leaf(b)) = {b} /\ Root(Leaf(b)) = b
    BY LeafLinked DEF BlocksOf, Leaf
  <2>4. Prev[b] \notin GetBlocks(trees)
    BY <1>3, <1>4, InForest
  <2> HIDE DEF new, n
  <2>5. \A k \in 1..(n + 1) : k \in 1..n \/ k = n + 1
    BY <2>2
  <2> QED BY <2>2, <2>3, <2>4, <2>5 DEF new
<1>5. CASE homes # {}
  <2>1. i \in DOMAIN trees /\ CanExtend(trees[i], b)
    <3>1. homes \in SUBSET Nat
      BY LenProperties
    <3>2. i \in homes
      <4> HIDE DEF homes
      <4> QED BY <1>5, <3>1, MinProperties
    <3> QED BY <3>2
  <2>2. new = [trees EXCEPT ![i] = extended]
    <3>1. new = [trees EXCEPT ![i] = Graft(extended, Find(extended, b), {})]
      BY <1>1, <1>5 DEF Push
    <3> HIDE DEF new, i, extended
    <3> QED BY <1>2, <3>1
  <2> HIDE DEF i
  <2>3. trees[i] \in Linked /\ Prev[b] \in BlocksOf(trees[i]) /\ ~HasBlock(trees[i], b)
    <3>1. b \notin BlocksOf(trees[i])
      BY <2>1, InForest
    <3> QED BY <1>3, <2>1, <3>1, ElementOfSeq, LenProperties DEF HasBlock, BlocksOf
  <2>4. BlocksOf(extended) = BlocksOf(trees[i]) \cup {b}
    BY ExtendBlocks
  <2>5. Root(extended) = Root(trees[i])
    <3>1. trees[i] \in Tree /\ HasBlock(trees[i], Prev[b])
      BY <2>3 DEF HasBlock, BlocksOf, Linked
    <3>2. PICK h \in trees[i] : h.at = Find(trees[i], Prev[b]) /\ h.block = Prev[b]
      BY <3>1, FindProperties
    <3>3. Leaf(b) \in Linked /\ Root(Leaf(b)) = b
      BY LeafLinked
    <3>4. Root(Graft(trees[i], h.at, Leaf(b))) = Root(trees[i])
      BY <2>3, <3>2, <3>3, GraftLinked
    <3> QED BY <2>3, <3>2, <3>4 DEF Extend
  <2> HIDE DEF extended
  <2>6. /\ DOMAIN new = DOMAIN trees /\ new[i] = extended
        /\ \A k \in DOMAIN trees : k # i => new[k] = trees[k]
    BY <2>1, <2>2
  <2> HIDE DEF new
  <2> QED BY <2>1, <2>3, <2>4, <2>5, <2>6 DEF new
<1> QED BY <1>4, <1>5

\* The subtrees of a tree follow its root.
LEMMA SubtreesFollow ==
    ASSUME NEW t \in Linked, NEW k \in DOMAIN Subtrees(t)
    PROVE  Attached(Subtrees(t)[k], Root(t))
<1> DEFINE s == Subtrees(t)[k]
           up(n) == [at |-> Tail(n.at), block |-> n.block]
           part == {m \in t : m.at # <<>> /\ Head(m.at) = k}
<1>1. s = {up(n) : n \in part}
  BY DEF Subtrees
<1>2. s \in Tree /\ t \in Tree
  BY SubtreesLinked, ElementOfSeq, LenProperties DEF Linked
<1>3. PICK m \in s : m.at = <<>> /\ m.block = Root(s)
  BY <1>2, TreeFacts, RootProperties
<1>4. PICK n \in t : n.at # <<>> /\ Tail(n.at) = <<>> /\ n.block = Root(s)
  <2>1. PICK n \in part : m = up(n)
    BY <1>1, <1>3
  <2>2. m.at = Tail(n.at) /\ m.block = n.block
    BY <2>1
  <2> QED BY <1>3, <2>2
<1>5. n.at \in Position
  BY <1>2, TreeFacts
<1>6. Front(n.at) = <<>>
  <2> DEFINE p == n.at
  <2>1. p \in Seq(Nat \ {0}) /\ p # <<>> /\ Tail(p) = <<>>
    BY <1>4, <1>5 DEF Position
  <2> HIDE DEF p
  <2>2. Len(p) = 1
    <3>1. Len(p) \in Nat \ {0} /\ Len(Tail(p)) = Len(p) - 1 /\ Len(Tail(p)) = 0
      BY <2>1, LenProperties, EmptySeq, HeadTailProperties
    <3> QED BY <3>1
  <2>3. SubSeq(p, 1, 0) = <<>>
    BY <2>1
  <2> QED BY <2>2, <2>3 DEF Front, p
<1>7. PICK r \in t : r.at = <<>> /\ r.block = Root(t)
  BY <1>2, TreeFacts, RootProperties
<1>8. Prev[n.block] = r.block
  BY <1>4, <1>6, <1>7 DEF Linked
<1> QED BY <1>4, <1>7, <1>8 DEF Attached

\* The trees after the attached ones are detached.
LEMMA RestAreDetached ==
    ASSUME NEW trees \in Seq(Tree), NEW anchor, NEW k \in DOMAIN trees,
           k \notin 1..NumAttached(trees, anchor)
    PROVE  ~Attached(Partitioned(trees, anchor)[k], anchor)
<1> DEFINE I == DOMAIN trees
           n == NumAttached(trees, anchor)
           attached == {j \in I : Attached(trees[j], anchor)}
           i == CHOOSE x \in I : Place(trees, anchor, x) = k
           Up == {j \in I : j = i \/ Ahead(trees, anchor, j, i)}
<1>1. I = 1..Len(trees) /\ Len(trees) \in Nat /\ n \in Nat
  BY LenProperties, NumAttachedType
<1>2. i \in I /\ Place(trees, anchor, i) = k
  BY PlacePermutes
<1>3. Partitioned(trees, anchor)[k] = trees[i]
  BY DEF Partitioned
<1> HIDE DEF i
<1>4. SUFFICES ASSUME Attached(trees[i], anchor) PROVE FALSE
  BY <1>3
<1>5. Up \in SUBSET attached
  BY <1>2, <1>4 DEF Ahead
<1>6. IsFiniteSet(attached)
  <2>1. IsFiniteSet(I) /\ attached \in SUBSET I
    BY <1>1, FS_Interval
  <2> QED BY <2>1, FS_Subset
<1>7. Cardinality(Up) <= Cardinality(attached)
  BY <1>5, <1>6, FS_Subset
<1>8. Cardinality(Up) = k /\ Cardinality(attached) = n
  BY <1>2 DEF Place, NumAttached
<1> HIDE DEF n
<1>9. k \in Nat /\ k >= 1
  BY <1>1
<1> QED BY <1>1, <1>7, <1>8, <1>9 DEF n

\* The attached trees are sorted by depth.
LEMMA SortedByDepth ==
    ASSUME NEW trees \in Seq(Tree), NEW anchor,
           NEW l \in 1..NumAttached(trees, anchor), NEW k \in 1..l
    PROVE  Depth(Partitioned(trees, anchor)[k]) <= Depth(Partitioned(trees, anchor)[l])
<1> DEFINE I == DOMAIN trees
           sorted == Partitioned(trees, anchor)
           from(m) == CHOOSE x \in I : Place(trees, anchor, x) = m
           i == from(k)
           j == from(l)
           A(x, y) == Ahead(trees, anchor, x, y)
           Up(x) == {y \in I : y = x \/ A(y, x)}
<1>1. /\ I = 1..Len(trees) /\ Len(trees) \in Nat
      /\ NumAttached(trees, anchor) \in 0..Len(trees)
  BY LenProperties, NumAttachedType
<1>2. k \in I /\ l \in I /\ k \in 1..NumAttached(trees, anchor)
  BY <1>1
<1>3. /\ i \in I /\ Place(trees, anchor, i) = k /\ sorted[k] = trees[i]
      /\ j \in I /\ Place(trees, anchor, j) = l /\ sorted[l] = trees[j]
  BY <1>2, PlacePermutes DEF Partitioned
<1>4. Attached(trees[i], anchor) /\ Attached(trees[j], anchor)
  BY <1>2, <1>3, FirstAreAttached
<1>5. CASE k = l
  <2>1. Depth(sorted[k]) \in Nat
    BY <1>3, ElementOfSeq, LenProperties, DepthType
  <2> QED BY <1>5, <2>1
<1> HIDE DEF i, j, sorted
<1>6. CASE k # l
  <2>1. SUFFICES ASSUME ~(Depth(trees[i]) <= Depth(trees[j])) PROVE FALSE
    BY <1>3 DEF sorted
  <2>2. Depth(trees[j]) < Depth(trees[i])
    <3>1. Depth(trees[i]) \in Nat /\ Depth(trees[j]) \in Nat
      BY <1>3, ElementOfSeq, LenProperties, DepthType
    <3> QED BY <2>1, <3>1
  <2>3. A(j, i)
    BY <1>4, <2>2 DEF Ahead
  <2>4. \A x, y, z \in I : A(x, y) /\ A(y, z) => A(x, z)
    BY AheadOrder
  <2> HIDE DEF A
  <2>5. Up(j) \in SUBSET Up(i)
    BY <1>3, <2>3, <2>4
  <2>6. IsFiniteSet(Up(i))
    <3>1. IsFiniteSet(I) /\ Up(i) \in SUBSET I
      BY <1>1, FS_Interval
    <3> QED BY <3>1, FS_Subset
  <2>7. Cardinality(Up(j)) <= Cardinality(Up(i))
    BY <2>5, <2>6, FS_Subset
  <2>8. Cardinality(Up(j)) = l /\ Cardinality(Up(i)) = k
    BY <1>3 DEF Place, A
  <2>9. l <= k /\ l \in Nat /\ k \in Nat
    BY <1>1, <1>2, <2>7, <2>8
  <2> QED BY <1>6, <2>9
<1> QED BY <1>5, <1>6

\* The tree whose root pop() returns: attached, and delta deeper than the others.
StandsOut(trees, anchor, i) ==
    /\ Attached(trees[i], anchor)
    /\ Depth(trees[i]) >= Delta
    /\ \A j \in DOMAIN trees :
          j # i /\ Attached(trees[j], anchor) => Depth(trees[i]) - Depth(trees[j]) >= Delta

\* After pop() each tree is one from before, a detached one if a block was popped, or
\* follows the popped block, which was the root of the tree that stood out.
LEMMA PopInOrder ==
    ASSUME NEW trees \in Seq(Linked), NEW anchor
    PROVE  LET popped == Pop(trees, anchor) IN
           /\ popped.block = NoBlock =>
                 \A k \in DOMAIN popped.trees : \E i \in DOMAIN trees : popped.trees[k] = trees[i]
           /\ popped.block # NoBlock =>
                 /\ \A k \in DOMAIN popped.trees :
                       \/ Attached(popped.trees[k], popped.block)
                       \/ \E i \in DOMAIN trees :
                             popped.trees[k] = trees[i] /\ ~Attached(trees[i], anchor)
                 /\ \E i \in DOMAIN trees :
                       Root(trees[i]) = popped.block /\ StandsOut(trees, anchor, i)
<1> DEFINE sorted == Partitioned(trees, anchor)
           n == NumAttached(trees, anchor)
           I == 1..Len(trees)
           detached == SubSeq(sorted, n + 1, Len(sorted))
           popped == Pop(trees, anchor)
<1>1. trees \in Seq(Tree) /\ Linked \in SUBSET Tree
  <2>1. Linked \in SUBSET Tree
    BY DEF Linked
  <2> QED BY <2>1, SeqMonotonic
<1>2. /\ sorted \in Seq(Linked) /\ Len(sorted) = Len(trees) /\ Len(trees) \in Nat
      /\ DOMAIN trees = I /\ DOMAIN sorted = I
      /\ \A k \in I : sorted[k] \in Linked
  BY <1>1, PartitionedType, LenProperties, ElementOfSeq
<1>3. n \in 0..Len(trees)
  BY <1>1, NumAttachedType
<1>4. PICK f : IsPlacing(f, trees, sorted)
  BY <1>1, PartitionedPermutes
<1>5. /\ f \in [I -> I]
      /\ \A k \in I : sorted[k] = trees[f[k]]
      /\ \A i \in I : \E k \in I : f[k] = i
  BY <1>2, <1>4 DEF IsPlacing
<1>6. popped = IF DeepestIsStable(sorted, n)
               THEN [block |-> Root(sorted[n]), trees |-> detached \o Subtrees(sorted[n])]
               ELSE [block |-> NoBlock, trees |-> sorted]
  BY DEF Pop
<1>7. /\ \A k \in I : k \in 1..n <=> Attached(sorted[k], anchor)
      /\ n \in 1..n => \A k \in 1..n : Depth(sorted[k]) <= Depth(sorted[n])
      /\ n - 1 \in 1..n => \A k \in 1..(n - 1) : Depth(sorted[k]) <= Depth(sorted[n - 1])
  BY <1>1, <1>2, FirstAreAttached, RestAreDetached, SortedByDepth
<1>8. \A k \in I : Depth(sorted[k]) \in Nat
  BY <1>1, <1>2, DepthType
<1> HIDE DEF sorted, n, I, popped
<1>9. CASE ~DeepestIsStable(sorted, n)
  <2>1. popped.block = NoBlock /\ popped.trees = sorted
    BY <1>6, <1>9
  <2> QED BY <1>2, <1>5, <2>1 DEF popped
<1>10. CASE DeepestIsStable(sorted, n)
  <2> DEFINE t == sorted[n]
             subs == Subtrees(t)
             m == Len(trees) - n
  <2>1. /\ n \in I /\ n \in 1..n /\ t \in Linked
        /\ popped.block = Root(t) /\ popped.trees = detached \o subs
    <3>1. n \in I /\ n \in 1..n
      BY <1>2, <1>3, <1>10 DEF DeepestIsStable, I
    <3>2. popped = [block |-> Root(t), trees |-> detached \o subs]
      BY <1>6, <1>10
    <3> QED BY <1>2, <3>1, <3>2
  <2>2. popped.block # NoBlock
    BY <2>1, <1>1, RootProperties, BlocksAssumption
  <2>3. /\ detached \in Seq(Linked) /\ Len(detached) = m
        /\ \A k \in 1..m : n + k \in I /\ n + k \notin 1..n /\ detached[k] = sorted[n + k]
    <3> DEFINE L == Len(trees)
    <3>1. L \in Nat /\ n \in 1..L /\ L = Len(sorted) /\ n + 1 \in 1..(L + 1) /\ L \in 0..L
      BY <1>2, <2>1 DEF I
    <3>2. \A j \in (n + 1)..L : sorted[j] \in Linked
      BY <1>2, <3>1 DEF I
    <3>3. /\ detached \in Seq(Linked)
          /\ Len(detached) = IF n + 1 <= L THEN L - (n + 1) + 1 ELSE 0
          /\ \A k \in 1..(L - (n + 1) + 1) : detached[k] = sorted[n + 1 + k - 1]
      BY <1>2, <3>1, <3>2, SubSeqProperties
    <3> HIDE DEF L, detached
    <3>4. /\ L - (n + 1) + 1 = L - n /\ (~(n + 1 <= L) => L - n = 0)
          /\ \A k \in 1..(L - n) : n + 1 + k - 1 = n + k /\ n + k \in 1..L /\ n + k \notin 1..n
      BY <3>1
    <3> QED BY <3>3, <3>4 DEF L, I
  <2>4. subs \in Seq(Linked) /\ \A k \in DOMAIN subs : Attached(subs[k], Root(t))
    BY <2>1, SubtreesLinked, SubtreesFollow
  <2> HIDE DEF t, subs, detached
  <2>5. ASSUME NEW x \in DOMAIN popped.trees
        PROVE  \/ Attached(popped.trees[x], popped.block)
               \/ \E i \in DOMAIN trees :
                     popped.trees[x] = trees[i] /\ ~Attached(trees[i], anchor)
    <3> DEFINE all == detached \o subs
               d == Len(subs)
    <3>1. /\ all \in Seq(Linked) /\ m \in Nat /\ d \in Nat
          /\ Len(all) = m + d /\ DOMAIN subs = 1..d
          /\ \A k \in 1..m : all[k] = detached[k]
          /\ \A k \in 1..d : all[m + k] = subs[k]
      <4>1. /\ all \in Seq(Linked) /\ Len(detached) \in Nat /\ d \in Nat
            /\ Len(all) = Len(detached) + d
            /\ \A k \in 1..Len(detached) : all[k] = detached[k]
            /\ \A k \in 1..d : all[Len(detached) + k] = subs[k]
        <5>1. detached \in Seq(Linked) /\ subs \in Seq(Linked)
          BY <2>3, <2>4
        <5> QED BY <5>1, ConcatParts
      <4> HIDE DEF all
      <4> QED BY <2>3, <2>4, <4>1, LenProperties
    <3> HIDE DEF all, d, m
    <3>2. x \in 1..(m + d) /\ popped.trees[x] = all[x]
      <4>1. popped.trees = all
        BY <2>1 DEF all
      <4> QED BY <3>1, <4>1, LenProperties
    <3>3. CASE x \in 1..m
      <4>1. n + x \in I /\ n + x \notin 1..n /\ all[x] = sorted[n + x]
        BY <2>3, <3>1, <3>3
      <4>2. f[n + x] \in I /\ sorted[n + x] = trees[f[n + x]]
        BY <1>5, <4>1
      <4>3. ~Attached(sorted[n + x], anchor)
        BY <1>7, <4>1
      <4> QED BY <1>2, <3>2, <4>1, <4>2, <4>3
    <3>4. CASE x \notin 1..m
      <4>1. x - m \in 1..d /\ x = m + (x - m)
        BY <3>1, <3>2, <3>4
      <4>2. all[x] = subs[x - m]
        BY <3>1, <4>1
      <4> QED BY <2>1, <2>4, <3>1, <3>2, <4>1, <4>2
    <3> QED BY <3>3, <3>4
  <2>6. StandsOut(trees, anchor, f[n]) /\ f[n] \in I /\ trees[f[n]] = t
    <3>1. f[n] \in I /\ trees[f[n]] = t /\ Attached(t, anchor)
      BY <1>5, <1>7, <2>1 DEF t
    <3>2. Depth(t) >= Delta
      BY <1>10 DEF DeepestIsStable, t
    <3>3. ASSUME NEW j \in I, j # f[n], Attached(trees[j], anchor)
          PROVE  Depth(t) - Depth(trees[j]) >= Delta
      <4>1. PICK k \in I : f[k] = j /\ sorted[k] = trees[j]
        BY <1>5
      <4>2. k \in 1..n /\ k # n
        BY <1>7, <3>3, <4>1
      <4>3. n >= 2 /\ n - 1 \in 1..n /\ k \in 1..(n - 1) /\ n - 1 \in I
        BY <1>2, <1>3, <2>1, <4>2 DEF I
      <4>4. Depth(t) - Depth(sorted[n - 1]) >= Delta
        BY <1>10, <4>3 DEF DeepestIsStable, t
      <4>5. Depth(sorted[k]) <= Depth(sorted[n - 1])
        BY <1>7, <4>3
      <4>6. Depth(t) \in Nat /\ Depth(sorted[k]) \in Nat /\ Depth(sorted[n - 1]) \in Nat
        BY <1>8, <2>1, <4>1, <4>3 DEF t
      <4> QED BY <4>1, <4>4, <4>5, <4>6, DeltaAssumption
    <3> QED BY <1>2, <3>1, <3>2, <3>3 DEF StandsOut
  <2> QED BY <1>2, <2>1, <2>2, <2>5, <2>6 DEF popped
<1> QED BY <1>9, <1>10

-----------------------------------------------------------------------------
\* UTXO sets

Entry == [output : Output, height : Nat]

UtxoMap == UNION {[D -> Entry] : D \in SUBSET OutPoint}

IndexMap == UNION {[D -> Seq(OutPoint)] : D \in SUBSET Addresses}

UtxoState == [utxos : UtxoMap, index : IndexMap, strict : BOOLEAN, panicked : BOOLEAN]

-----------------------------------------------------------------------------
\* Maps

LEMMA MapFacts ==
    ASSUME NEW u \in UtxoState
    PROVE  /\ u.utxos \in [DOMAIN u.utxos -> Entry] /\ DOMAIN u.utxos \subseteq OutPoint
           /\ u.index \in [DOMAIN u.index -> Seq(OutPoint)]
           /\ DOMAIN u.index \subseteq Addresses
           /\ u.strict \in BOOLEAN /\ u.panicked \in BOOLEAN
<1>1. u.utxos \in UtxoMap /\ u.index \in IndexMap
  BY DEF UtxoState
<1>2. PICK D \in SUBSET OutPoint : u.utxos \in [D -> Entry]
  BY <1>1 DEF UtxoMap
<1>3. PICK A \in SUBSET Addresses : u.index \in [A -> Seq(OutPoint)]
  BY <1>1 DEF IndexMap
<1> QED BY <1>2, <1>3 DEF UtxoState

LEMMA BindUtxo ==
    ASSUME NEW f \in UtxoMap, NEW o \in OutPoint, NEW e \in Entry
    PROVE  Bind(f, o, e) \in UtxoMap
<1>1. PICK D \in SUBSET OutPoint : f \in [D -> Entry]
  BY DEF UtxoMap
<1>2. Bind(f, o, e) \in [D \cup {o} -> Entry]
  BY <1>1 DEF Bind
<1> QED BY <1>2 DEF UtxoMap

LEMMA BindIndex ==
    ASSUME NEW f \in IndexMap, NEW a \in Addresses, NEW s \in Seq(OutPoint)
    PROVE  Bind(f, a, s) \in IndexMap
<1>1. PICK D \in SUBSET Addresses : f \in [D -> Seq(OutPoint)]
  BY DEF IndexMap
<1>2. Bind(f, a, s) \in [D \cup {a} -> Seq(OutPoint)]
  BY <1>1 DEF Bind
<1> QED BY <1>2 DEF IndexMap

LEMMA WithoutUtxo ==
    ASSUME NEW f \in UtxoMap, NEW o
    PROVE  Without(f, o) \in UtxoMap
<1>1. PICK D \in SUBSET OutPoint : f \in [D -> Entry]
  BY DEF UtxoMap
<1>2. Without(f, o) \in [D \ {o} -> Entry]
  BY <1>1 DEF Without, Restrict
<1> QED BY <1>2 DEF UtxoMap

LEMMA WithoutIndex ==
    ASSUME NEW f \in IndexMap, NEW a
    PROVE  Without(f, a) \in IndexMap
<1>1. PICK D \in SUBSET Addresses : f \in [D -> Seq(OutPoint)]
  BY DEF IndexMap
<1>2. Without(f, a) \in [D \ {a} -> Seq(OutPoint)]
  BY <1>1 DEF Without, Restrict
<1> QED BY <1>2 DEF IndexMap

\* The index by address: what IndexOf finds is a vector of outpoints.
LEMMA IndexOfType ==
    ASSUME NEW u \in UtxoState, NEW a
    PROVE  IndexOf(u, a) \in Seq(OutPoint)
BY MapFacts, EmptySeq DEF IndexOf

\* RemoveFirst takes the one occurrence of an element away.
LEMMA RemoveFirstFacts ==
    ASSUME NEW S, NEW s \in Seq(S), NEW e
    PROVE  /\ RemoveFirst(s, e) \in Seq(S)
           /\ e \notin ToSet(s) => RemoveFirst(s, e) = s
           /\ e \in ToSet(s) => Len(RemoveFirst(s, e)) = Len(s) - 1
           /\ e \in ToSet(s) /\ (\A i, j \in DOMAIN s : s[i] = s[j] => i = j) =>
                 LET r == RemoveFirst(s, e) IN
                 /\ ToSet(r) = ToSet(s) \ {e}
                 /\ \A i, j \in DOMAIN r : r[i] = r[j] => i = j
<1> DEFINE I == {i \in 1..Len(s) : s[i] = e}
           k == Min(I)
           r == RemoveFirst(s, e)
<1>1. Len(s) \in Nat /\ DOMAIN s = 1..Len(s) /\ \A i \in 1..Len(s) : s[i] \in S
  OBVIOUS
<1>2. CASE I = {}
  <2>1. r = s /\ e \notin ToSet(s)
    BY <1>1, <1>2 DEF RemoveFirst, ToSet
  <2> QED BY <2>1
<1>3. CASE I # {}
  <2>1. I \in SUBSET Nat /\ e \in ToSet(s)
    BY <1>1, <1>3 DEF ToSet
  <2>2. k \in 1..Len(s) /\ s[k] = e
    BY <1>3, <2>1, MinProperties
  <2>3. r = RemoveAt(s, k)
    BY <1>1, <1>3 DEF RemoveFirst, SelectInSeq
  <2> HIDE DEF k
  <2> DEFINE n == Len(s)
             p == SubSeq(s, 1, k - 1)
             q == SubSeq(s, k + 1, n)
  <2>4. /\ p \in Seq(S) /\ Len(p) = k - 1
        /\ \A i \in 1..(k - 1) : p[i] = s[i]
    BY <1>1, <2>2
  <2>5. /\ q \in Seq(S) /\ Len(q) = n - k
        /\ \A i \in 1..(n - k) : q[i] = s[k + i]
    <3>1. k + 1 \in 1..(n + 1) /\ n \in Nat /\ s \in Seq(S)
      BY <1>1, <2>2
    <3>2. /\ q \in Seq(S)
          /\ Len(q) = IF k + 1 <= n THEN n - (k + 1) + 1 ELSE 0
          /\ \A i \in 1..(n - (k + 1) + 1) : q[i] = s[k + 1 + i - 1]
      BY SMTT(30), <1>1, <3>1, SubSeqProperties
    <3> HIDE DEF q
    <3>3. ASSUME NEW i \in 1..(n - k) PROVE q[i] = s[k + i]
      <4>1. i \in 1..(n - (k + 1) + 1) /\ k + 1 + i - 1 = k + i
        BY <1>1, <2>2
      <4> QED BY <3>2, <4>1
    <3>4. Len(q) = n - k
      <4>1. n \in Nat /\ k \in 1..n
        BY <1>1, <2>2
      <4> HIDE DEF n
      <4>2. (k + 1 <= n => n - (k + 1) + 1 = n - k) /\ (~(k + 1 <= n) => n - k = 0)
        BY <4>1
      <4> QED BY <3>2, <4>2
    <3> QED BY <3>2, <3>3, <3>4
  <2> HIDE DEF p, q
  <2>6. r = p \o q
    BY <2>3 DEF RemoveAt, p, q
  <2> HIDE DEF r
  <2>7. /\ r \in Seq(S) /\ Len(r) = n - 1 /\ DOMAIN r = 1..(n - 1)
        /\ \A i \in 1..(n - 1) : r[i] = IF i < k THEN s[i] ELSE s[i + 1]
    <3>1. /\ r \in Seq(S) /\ Len(r) = Len(p) + Len(q)
          /\ \A i \in 1..(Len(p) + Len(q)) :
                r[i] = IF i <= Len(p) THEN p[i] ELSE q[i - Len(p)]
      BY <2>4, <2>5, <2>6, ConcatProperties
    <3>2. ASSUME NEW i \in 1..(n - 1)
          PROVE  r[i] = IF i < k THEN s[i] ELSE s[i + 1]
      <4>1. /\ i \in 1..(Len(p) + Len(q))
            /\ i <= Len(p) <=> i < k
            /\ i - Len(p) = i - (k - 1)
        BY <1>1, <2>2, <2>4, <2>5
      <4>2. CASE i < k
        <5>1. i \in 1..(k - 1)
          BY <2>2, <4>2
        <5> QED BY <2>4, <3>1, <4>1, <4>2, <5>1
      <4>3. CASE ~(i < k)
        <5>1. i - (k - 1) \in 1..(n - k) /\ k + (i - (k - 1)) = i + 1
          BY <1>1, <2>2, <4>3
        <5>2. r[i] = q[i - (k - 1)]
          BY <3>1, <4>1, <4>3
        <5>3. q[i - (k - 1)] = s[k + (i - (k - 1))]
          BY <2>5, <5>1
        <5> QED BY <4>3, <5>1, <5>2, <5>3
      <4> QED BY <4>2, <4>3
    <3>3. Len(r) = n - 1
      BY <1>1, <2>2, <2>4, <2>5, <3>1
    <3> QED BY <3>1, <3>2, <3>3
  <2>8. ASSUME \A i, j \in DOMAIN s : s[i] = s[j] => i = j
        PROVE  /\ ToSet(r) = ToSet(s) \ {e}
               /\ \A i, j \in DOMAIN r : r[i] = r[j] => i = j
    <3>1. ASSUME NEW i \in 1..(n - 1) PROVE r[i] \in ToSet(s) /\ r[i] # e
      <4>1. PICK j \in 1..n : j # k /\ r[i] = s[j]
        <5>1. i \in 1..n /\ i + 1 \in 1..n /\ (i < k => i # k) /\ (~(i < k) => i + 1 # k)
          BY <1>1, <2>2
        <5> QED BY <2>7, <5>1
      <4> QED BY <1>1, <2>2, <2>8, <4>1 DEF ToSet
    <3>2. ASSUME NEW x \in ToSet(s), x # e PROVE x \in ToSet(r)
      <4>1. PICK i \in 1..n : x = s[i]
        BY <1>1 DEF ToSet
      <4>2. CASE i < k
        <5>1. i \in 1..(n - 1) /\ r[i] = x
          BY <1>1, <2>2, <2>7, <4>1, <4>2
        <5> QED BY <2>7, <5>1 DEF ToSet
      <4>3. CASE ~(i < k)
        <5>1. i # k
          BY <2>2, <3>2, <4>1
        <5>2. i - 1 \in 1..(n - 1) /\ ~(i - 1 < k) /\ (i - 1) + 1 = i
          BY <1>1, <2>2, <4>3, <5>1
        <5>3. r[i - 1] = x
          BY <2>7, <4>1, <5>2
        <5> QED BY <2>7, <5>2, <5>3 DEF ToSet
      <4> QED BY <4>2, <4>3
    <3>3. ToSet(r) = ToSet(s) \ {e}
      BY <2>7, <3>1, <3>2 DEF ToSet
    <3>4. ASSUME NEW i \in 1..(n - 1), NEW j \in 1..(n - 1), r[i] = r[j] PROVE i = j
      <4> DEFINE at(l) == IF l < k THEN l ELSE l + 1
      <4>1. /\ at(i) \in 1..n /\ at(j) \in 1..n
            /\ at(i) = at(j) => i = j
        BY <1>1, <2>2
      <4>2. r[i] = s[at(i)] /\ r[j] = s[at(j)]
        BY <2>7
      <4> HIDE DEF at
      <4>3. at(i) = at(j)
        BY <1>1, <2>8, <3>4, <4>1, <4>2
      <4> QED BY <4>1, <4>3
    <3> QED BY <2>7, <3>3, <3>4
  <2> QED BY <2>1, <2>7, <2>8 DEF r
<1> QED BY <1>2, <1>3

-----------------------------------------------------------------------------
\* Types: the operations take UTXO sets to UTXO sets, and leave strict alone.

LEMMA NewType == \A strict \in BOOLEAN : NewUtxoSet(strict) \in UtxoState
<1>1. <<>> \in UtxoMap /\ <<>> \in IndexMap
  <2>1. <<>> \in [{} -> Entry] /\ <<>> \in [{} -> Seq(OutPoint)]
    OBVIOUS
  <2> QED BY <2>1 DEF UtxoMap, IndexMap
<1> QED BY <1>1 DEF NewUtxoSet, UtxoState

LEMMA PanicType ==
    ASSUME NEW u \in UtxoState
    PROVE  Panic(u) \in UtxoState /\ Panic(u).strict = u.strict
BY DEF Panic, UtxoState

LEMMA AddType ==
    ASSUME NEW u \in UtxoState, NEW o \in OutPoint, NEW out \in Output, NEW h \in Nat
    PROVE  /\ Add(u, o, out, h) \in UtxoState
           /\ Add(u, o, out, h).strict = u.strict
           /\ Add(u, o, out, h).panicked = u.panicked
           /\ Add(u, o, out, h).utxos = Bind(u.utxos, o, [output |-> out, height |-> h])
           /\ Add(u, o, out, h).index =
                 IF out.address = NoAddress THEN u.index
                 ELSE Bind(u.index, out.address, Append(IndexOf(u, out.address), o))
<1> DEFINE e == [output |-> out, height |-> h]
           a == out.address
<1>1. u.utxos \in UtxoMap /\ u.index \in IndexMap
  BY DEF UtxoState
<1>2. e \in Entry
  BY DEF Entry
<1>3. Bind(u.utxos, o, e) \in UtxoMap
  BY <1>1, <1>2, BindUtxo
<1>4. a # NoAddress => Bind(u.index, a, Append(IndexOf(u, a), o)) \in IndexMap
  <2>1. SUFFICES ASSUME a # NoAddress
                 PROVE  Bind(u.index, a, Append(IndexOf(u, a), o)) \in IndexMap
    OBVIOUS
  <2>2. a \in Addresses
    BY <2>1 DEF Output
  <2>3. Append(IndexOf(u, a), o) \in Seq(OutPoint)
    BY IndexOfType, AppendProperties
  <2> QED BY <1>1, <2>2, <2>3, BindIndex
<1> QED BY <1>3, <1>4 DEF Add, UtxoState

LEMMA InsertOutpointType ==
    ASSUME NEW u \in UtxoState, NEW o \in OutPoint, NEW out \in Output, NEW h \in Nat
    PROVE  /\ InsertOutpoint(u, o, out, h) \in UtxoState
           /\ InsertOutpoint(u, o, out, h).strict = u.strict
BY AddType, PanicType DEF InsertOutpoint

LEMMA RemoveSpentType ==
    ASSUME NEW u \in UtxoState, NEW o \in OutPoint
    PROVE  /\ RemoveSpent(u, o) \in UtxoState
           /\ RemoveSpent(u, o).strict = u.strict
<1>1. CASE o \notin DOMAIN u.utxos
  BY <1>1, PanicType DEF RemoveSpent
<1>2. CASE o \in DOMAIN u.utxos
  <2> DEFINE a == u.utxos[o].output.address
             indexed == IndexOf(u, a)
             rest == RemoveFirst(indexed, o)
             ix == IF a = NoAddress THEN u.index
                   ELSE IF rest = <<>> THEN Without(u.index, a)
                   ELSE Bind(u.index, a, rest)
             p == \/ u.panicked
                  \/ /\ a # NoAddress
                     /\ \/ indexed = <<>>
                        \/ u.strict /\ rest = indexed
  <2>1. RemoveSpent(u, o) = [u EXCEPT !.utxos = Without(@, o), !.index = ix, !.panicked = p]
    BY <1>2 DEF RemoveSpent
  <2>2. Without(u.utxos, o) \in UtxoMap
    BY WithoutUtxo DEF UtxoState
  <2>3. ix \in IndexMap
    <3>1. u.index \in IndexMap
      BY DEF UtxoState
    <3>2. rest \in Seq(OutPoint)
      BY IndexOfType, RemoveFirstFacts
    <3>3. a \in Addresses \cup {NoAddress}
      BY <1>2, MapFacts DEF Entry, Output
    <3> HIDE DEF a, rest
    <3> QED BY <3>1, <3>2, <3>3, BindIndex, WithoutIndex
  <2>4. p \in BOOLEAN
    BY DEF UtxoState
  <2> HIDE DEF ix, p
  <2> QED BY <2>1, <2>2, <2>3, <2>4 DEF UtxoState
<1> QED BY <1>1, <1>2

-----------------------------------------------------------------------------
\* What the operations keep

\* A UTXO set that has not panicked and whose index is right, the duplicated
\* transactions having no address.
Sound(u) ==
    /\ u \in UtxoState
    /\ ~u.panicked
    /\ IndexMatches(u)
    /\ \A o \in DOMAIN u.utxos :
          o[1] \in DuplicateTxIds => u.utxos[o].output.address = NoAddress

PaysTo(u, a) == {o \in DOMAIN u.utxos : u.utxos[o].output.address = a}

Distinct(s) == \A i, j \in DOMAIN s : s[i] = s[j] => i = j

\* The same, with the vectors of the index as sets.
IndexesPays(u) ==
    /\ \A a \in DOMAIN u.index :
          /\ u.index[a] # <<>>
          /\ Distinct(u.index[a])
          /\ ToSet(u.index[a]) = PaysTo(u, a)
    /\ \A o \in DOMAIN u.utxos :
          u.utxos[o].output.address # NoAddress =>
              u.utxos[o].output.address \in DOMAIN u.index

LEMMA IndexMatchesSets ==
    ASSUME NEW u \in UtxoState
    PROVE  IndexMatches(u) <=> IndexesPays(u)
<1>1. ASSUME IndexMatches(u) PROVE IndexesPays(u)
  <2>1. ASSUME NEW a \in DOMAIN u.index PROVE ToSet(u.index[a]) = PaysTo(u, a)
    <3>1. a # NoAddress
      BY MapFacts, UtxoSetAssumption
    <3>2. \A i \in DOMAIN u.index[a] : u.index[a][i] \in PaysTo(u, a)
      BY <1>1 DEF IndexMatches, PaysTo
    <3>3. ASSUME NEW o \in PaysTo(u, a) PROVE o \in ToSet(u.index[a])
      BY <1>1, <3>1 DEF IndexMatches, PaysTo
    <3> QED BY <3>2, <3>3 DEF ToSet
  <2> QED BY <1>1, <2>1 DEF IndexMatches, IndexesPays, Distinct
<1>2. ASSUME IndexesPays(u) PROVE IndexMatches(u)
  <2>1. ASSUME NEW a \in DOMAIN u.index, NEW i \in DOMAIN u.index[a]
        PROVE  /\ u.index[a][i] \in DOMAIN u.utxos
               /\ u.utxos[u.index[a][i]].output.address = a
    <3>1. u.index[a][i] \in ToSet(u.index[a])
      BY DEF ToSet
    <3> QED BY <1>2, <3>1 DEF IndexesPays, PaysTo
  <2>2. ASSUME NEW o \in DOMAIN u.utxos, u.utxos[o].output.address # NoAddress
        PROVE  o \in ToSet(u.index[u.utxos[o].output.address])
    BY <1>2, <2>2 DEF IndexesPays, PaysTo
  <2> QED BY <1>2, <2>1, <2>2 DEF IndexMatches, IndexesPays, Distinct
<1> QED BY <1>1, <1>2

LEMMA SoundFacts ==
    ASSUME NEW u, Sound(u)
    PROVE  /\ u \in UtxoState /\ ~u.panicked /\ IndexesPays(u)
           /\ \A o \in DOMAIN u.utxos :
                 o[1] \in DuplicateTxIds => u.utxos[o].output.address = NoAddress
           /\ \A o \in DOMAIN u.utxos :
                 /\ o \in OutPoint
                 /\ u.utxos[o] \in Entry
                 /\ u.utxos[o].output \in Output
                 /\ u.utxos[o].height \in Nat
                 /\ u.utxos[o].output.address \in Addresses \cup {NoAddress}
BY IndexMatchesSets, MapFacts DEF Sound, Entry, Output

\* The vector of an address, and that of an address without one.
LEMMA IndexOfPays ==
    ASSUME NEW u, Sound(u), NEW a \in Addresses
    PROVE  /\ IndexOf(u, a) \in Seq(OutPoint)
           /\ Distinct(IndexOf(u, a))
           /\ ToSet(IndexOf(u, a)) = PaysTo(u, a)
           /\ a \notin DOMAIN u.index => PaysTo(u, a) = {}
<1>1. IndexOf(u, a) \in Seq(OutPoint)
  BY IndexOfType DEF Sound
<1>2. CASE a \in DOMAIN u.index
  BY <1>1, <1>2, SoundFacts DEF IndexOf, IndexesPays
<1>3. CASE a \notin DOMAIN u.index
  <2>1. PaysTo(u, a) = {}
    BY <1>3, SoundFacts, UtxoSetAssumption DEF IndexesPays, PaysTo
  <2>2. IndexOf(u, a) = <<>>
    BY <1>3 DEF IndexOf
  <2> QED BY <1>1, <2>1, <2>2 DEF Distinct, ToSet
<1> QED BY <1>2, <1>3

NewlyFits(u, o, out) ==
    /\ o \in DOMAIN u.utxos => o[1] \in DuplicateTxIds
    /\ o[1] \in DuplicateTxIds => out.address = NoAddress

\* An outpoint joins a sound set: it is new, or it is one of a duplicated
\* transaction, which no index holds.
LEMMA InsertOutpointSound ==
    ASSUME NEW u, Sound(u), NEW o \in OutPoint, NEW out \in Output, NEW h \in Nat,
           NewlyFits(u, o, out)
    PROVE  LET v == InsertOutpoint(u, o, out, h) IN
           /\ Sound(v) /\ v.strict = u.strict
           /\ v.utxos = Bind(u.utxos, o, [output |-> out, height |-> h])
<1> USE DEF NewlyFits
<1> DEFINE v == InsertOutpoint(u, o, out, h)
           b == out.address
<1>1. v = Add(u, o, out, h)
  BY DEF InsertOutpoint
<1> HIDE DEF v
<1>2. /\ v \in UtxoState /\ v.strict = u.strict /\ ~v.panicked
      /\ v.utxos = Bind(u.utxos, o, [output |-> out, height |-> h])
      /\ v.index = IF b = NoAddress THEN u.index
                   ELSE Bind(u.index, b, Append(IndexOf(u, b), o))
  BY <1>1, AddType DEF Sound
<1>3. /\ DOMAIN v.utxos = DOMAIN u.utxos \cup {o}
      /\ v.utxos[o].output = out
      /\ \A x \in DOMAIN u.utxos : x # o => v.utxos[x] = u.utxos[x]
  BY <1>2 DEF Bind
<1>4. o \in DOMAIN u.utxos => u.utxos[o].output.address = NoAddress
  BY SoundFacts
<1>5. \A a \in Addresses : PaysTo(v, a) = IF a = b THEN PaysTo(u, a) \cup {o} ELSE PaysTo(u, a)
  BY <1>3, <1>4, UtxoSetAssumption DEF PaysTo
<1>6. IndexesPays(v)
  <2>1. CASE b = NoAddress
    <3>1. v.index = u.index
      BY <1>2, <2>1
    <3>2. \A a \in DOMAIN u.index : a \in Addresses /\ a # b
      BY <2>1, MapFacts, UtxoSetAssumption DEF Sound
    <3> QED BY <1>3, <1>5, <2>1, <3>1, <3>2, SoundFacts DEF IndexesPays
  <2>2. CASE b # NoAddress
    <3> DEFINE s == IndexOf(u, b)
               r == Append(s, o)
    <3>1. b \in Addresses
      BY <2>2 DEF Output
    <3>2. s \in Seq(OutPoint) /\ Distinct(s) /\ ToSet(s) = PaysTo(u, b)
      BY <3>1, IndexOfPays
    <3> HIDE DEF s
    <3>3. o \notin ToSet(s)
      BY <1>4, <2>2, <3>2 DEF PaysTo
    <3>4. /\ r \in Seq(OutPoint) /\ DOMAIN r = 1..(Len(s) + 1) /\ Len(s) \in Nat
          /\ DOMAIN s = 1..Len(s)
          /\ r[Len(s) + 1] = o /\ \A i \in 1..Len(s) : r[i] = s[i]
      BY <3>2, AppendProperties, LenProperties
    <3> HIDE DEF r
    <3>5. ToSet(r) = ToSet(s) \cup {o}
      BY <3>4 DEF ToSet
    <3>6. Distinct(r)
      <4>1. \A i \in DOMAIN r : i = Len(s) + 1 \/ i \in DOMAIN s
        BY <3>4
      <4>2. \A i \in DOMAIN s : r[i] = s[i] /\ r[i] # o
        BY <3>3, <3>4 DEF ToSet
      <4> QED BY <3>2, <3>4, <4>1, <4>2 DEF Distinct
    <3>7. r # <<>>
      <4>1. Len(s) + 1 \in DOMAIN r
        BY <3>4
      <4> QED BY <4>1
    <3>8. v.index = Bind(u.index, b, r)
      BY <1>2, <2>2 DEF r, s
    <3>9. /\ DOMAIN v.index = DOMAIN u.index \cup {b}
          /\ v.index[b] = r
          /\ \A a \in DOMAIN u.index : a # b => v.index[a] = u.index[a]
      BY <3>8 DEF Bind
    <3>10. \A a \in DOMAIN u.index : a \in Addresses
      BY MapFacts DEF Sound
    <3>11. ASSUME NEW a \in DOMAIN v.index
           PROVE  v.index[a] # <<>> /\ Distinct(v.index[a]) /\ ToSet(v.index[a]) = PaysTo(v, a)
      <4>1. CASE a = b
        BY <1>5, <3>1, <3>2, <3>5, <3>6, <3>7, <3>9, <4>1
      <4>2. CASE a # b
        <5>1. a \in DOMAIN u.index /\ a \in Addresses /\ v.index[a] = u.index[a]
          BY <3>9, <3>10, <4>2
        <5> QED BY <1>5, <4>2, <5>1, SoundFacts DEF IndexesPays
      <4> QED BY <4>1, <4>2
    <3>12. ASSUME NEW x \in DOMAIN v.utxos, v.utxos[x].output.address # NoAddress
           PROVE  v.utxos[x].output.address \in DOMAIN v.index
      BY <1>3, <3>9, <3>12, SoundFacts DEF IndexesPays
    <3> QED BY <3>11, <3>12 DEF IndexesPays
  <2> QED BY <2>1, <2>2
<1>7. ASSUME NEW x \in DOMAIN v.utxos, x[1] \in DuplicateTxIds
      PROVE  v.utxos[x].output.address = NoAddress
  BY <1>3, <1>7, SoundFacts
<1> QED BY <1>2, <1>6, <1>7, IndexMatchesSets DEF Sound, v

\* An input leaves a sound set: it is there, or the set is one of a view.
LEMMA RemoveSpentSound ==
    ASSUME NEW u, Sound(u), NEW o \in OutPoint, u.strict => o \in DOMAIN u.utxos
    PROVE  LET v == RemoveSpent(u, o) IN
           /\ Sound(v) /\ v.strict = u.strict
           /\ v.utxos = Restrict(u.utxos, DOMAIN u.utxos \ {o})
<1> DEFINE v == RemoveSpent(u, o)
<1>1. CASE o \notin DOMAIN u.utxos
  <2>1. v = u
    BY <1>1 DEF RemoveSpent
  <2>2. u.utxos \in [DOMAIN u.utxos -> Entry]
    BY MapFacts DEF Sound
  <2>3. DOMAIN u.utxos \ {o} = DOMAIN u.utxos
    BY <1>1
  <2>4. u.utxos = Restrict(u.utxos, DOMAIN u.utxos \ {o})
    BY <2>2, <2>3 DEF Restrict
  <2> QED BY <2>1, <2>4
<1>2. CASE o \in DOMAIN u.utxos
  <2> DEFINE b == u.utxos[o].output.address
             s == IndexOf(u, b)
             r == RemoveFirst(s, o)
             ix == IF b = NoAddress THEN u.index
                   ELSE IF r = <<>> THEN Without(u.index, b)
                   ELSE Bind(u.index, b, r)
             p == \/ u.panicked
                  \/ /\ b # NoAddress
                     /\ \/ s = <<>>
                        \/ u.strict /\ r = s
  <2>1. v = [u EXCEPT !.utxos = Without(@, o), !.index = ix, !.panicked = p]
    BY <1>2 DEF RemoveSpent
  <2>2. v \in UtxoState /\ v.strict = u.strict
    BY RemoveSpentType DEF Sound
  <2>3. b \in Addresses \cup {NoAddress}
    BY <1>2, SoundFacts
  <2>4. b # NoAddress =>
           /\ s \in Seq(OutPoint) /\ Distinct(s) /\ ToSet(s) = PaysTo(u, b)
           /\ o \in ToSet(s) /\ b \in DOMAIN u.index
    BY <1>2, <2>3, IndexOfPays DEF PaysTo
  <2>5. b # NoAddress =>
           /\ Len(r) = Len(s) - 1 /\ ToSet(r) = PaysTo(u, b) \ {o} /\ Distinct(r)
    BY <2>4, RemoveFirstFacts DEF Distinct
  <2>6. b # NoAddress => s # <<>> /\ r # s /\ Len(s) \in Nat
    <3>1. b # NoAddress => Len(s) \in Nat /\ Len(r) # Len(s)
      BY <2>4, <2>5, LenProperties
    <3>2. b # NoAddress => s # <<>>
      BY <2>4 DEF ToSet
    <3> QED BY <3>1, <3>2
  <2> HIDE DEF s, r
  <2>7. /\ v.utxos = Without(u.utxos, o) /\ v.index = ix /\ ~v.panicked
    <3>1. p = FALSE
      BY <2>6 DEF Sound
    <3>2. DOMAIN u = {"utxos", "index", "strict", "panicked"}
      BY DEF Sound, UtxoState
    <3> HIDE DEF ix, p
    <3> QED BY <2>1, <3>1, <3>2
  <2> HIDE DEF v
  <2>8. /\ DOMAIN v.utxos = DOMAIN u.utxos \ {o}
        /\ \A x \in DOMAIN v.utxos : v.utxos[x] = u.utxos[x]
    BY <2>7 DEF Without, Restrict
  <2>9. \A a : PaysTo(v, a) = PaysTo(u, a) \ {o}
    BY <2>8 DEF PaysTo
  <2>10. \A a : a # b => PaysTo(v, a) = PaysTo(u, a)
    BY <2>9 DEF PaysTo
  <2>11. IndexesPays(v)
    <3>1. CASE b = NoAddress
      <4>1. v.index = u.index
        BY <2>7, <3>1
      <4>2. \A a \in DOMAIN u.index : a \in Addresses /\ a # b
        BY <3>1, MapFacts, UtxoSetAssumption DEF Sound
      <4> QED BY <2>8, <2>10, <4>1, <4>2, SoundFacts DEF IndexesPays
    <3>2. CASE b # NoAddress /\ r = <<>>
      <4>1. /\ DOMAIN v.index = DOMAIN u.index \ {b}
            /\ \A a \in DOMAIN v.index : v.index[a] = u.index[a]
        BY <2>7, <3>2 DEF Without, Restrict
      <4>2. PaysTo(v, b) = {}
        BY <2>5, <2>9, <3>2 DEF ToSet
      <4>3. \A x \in DOMAIN v.utxos : v.utxos[x].output.address # b
        BY <4>2 DEF PaysTo
      <4> QED BY SMTT(30), <2>8, <2>10, <4>1, <4>3, SoundFacts DEF IndexesPays
    <3>3. CASE b # NoAddress /\ r # <<>>
      <4>1. /\ DOMAIN v.index = DOMAIN u.index \cup {b}
            /\ v.index[b] = r
            /\ \A a \in DOMAIN u.index : a # b => v.index[a] = u.index[a]
        BY <2>7, <3>3 DEF Bind
      <4>2. b \in DOMAIN u.index
        BY <2>4, <3>3
      <4> HIDE DEF b
      <4> QED BY ZenonT(30), <2>5, <2>8, <2>9, <2>10, <3>3, <4>1, <4>2, SoundFacts DEF IndexesPays
    <3> QED BY <3>1, <3>2, <3>3
  <2>12. ASSUME NEW x \in DOMAIN v.utxos, x[1] \in DuplicateTxIds
         PROVE  v.utxos[x].output.address = NoAddress
    BY <2>8, <2>12, SoundFacts
  <2>13. Sound(v)
    BY <2>2, <2>7, <2>11, <2>12, IndexMatchesSets DEF Sound
  <2> QED BY <2>2, <2>7, <2>13 DEF v, Without
<1> QED BY <1>1, <1>2

-----------------------------------------------------------------------------
\* The loop over the inputs of a transaction

LEMMA RemoveSpentTxsRun ==
    ASSUME NEW u \in UtxoState, NEW tx, tx.inputs \in Seq(OutPoint)
    PROVE  \E h \in [0..Len(tx.inputs) -> UtxoState] :
              /\ h[0] = u /\ h[Len(tx.inputs)] = RemoveSpentTxs(u, tx)
              /\ \A k \in 1..Len(tx.inputs) : h[k] = RemoveSpent(h[k - 1], tx.inputs[k])
<1> DEFINE n == Len(tx.inputs)
           seq == tx.inputs
           g == [k \in 1..n |-> [v \in UtxoState |-> RemoveSpent(v, seq[k])]]
           Good(f) == f = [s \in SUBSET (1..n) |->
                              IF s = {} THEN u ELSE RemoveSpent(f[s \ {Max(s)}], seq[Max(s)])]
           c == CHOOSE f : Good(f)
<1>1. n \in Nat /\ DOMAIN seq = 1..n /\ \A k \in 1..n : seq[k] \in OutPoint
  OBVIOUS
<1>2. RemoveSpentTxs(u, tx) = c[1..n]
  BY <1>1 DEF RemoveSpentTxs, FoldLeft, MapThenFoldSet
<1> HIDE DEF n, seq
<1>3. StepsOf(g, n, UtxoState)
  BY <1>1, RemoveSpentType DEF StepsOf
<1>4. Good(c)
  <2>1. PICK f : IsFoldLeft(f, n, UtxoState, u, g)
    <3> HIDE DEF g
    <3> QED BY <1>1, <1>3, FoldLeftExists
  <2>2. Good(f)
    BY <2>1 DEF IsFoldLeft
  <2> QED BY <2>2
<1>5. /\ c[{}] = u
      /\ \A k \in 1..n : c[1..k] = RemoveSpent(c[1..(k - 1)], seq[k])
  <2> HIDE DEF c
  <2>1. \A k \in 1..n : 1..k \in SUBSET (1..n) /\ k \in Nat \ {0}
    BY <1>1
  <2> QED BY <1>4, <2>1, IntervalSteps
<1> HIDE DEF c
<1>6. \E h : IsRun(h, n, UtxoState, u, g) /\ h[n] = c[1..n]
  <2>1. FoldsTo(c, n, UtxoState, u, g)
    BY <1>5 DEF FoldsTo
  <2> HIDE DEF g
  <2> QED BY <1>1, <1>3, <1>5, <2>1, RunOfFold
<1>7. \A k \in 1..n : k - 1 \in 0..n
  BY <1>1
<1> QED BY <1>2, <1>6, <1>7 DEF IsRun, n, seq

\* The inputs leave the set, if each is named once and, in a strict set, there.
LEMMA RemoveSpentTxsSound ==
    ASSUME NEW u, Sound(u), NEW tx, tx.inputs \in Seq(OutPoint), Distinct(tx.inputs),
           u.strict => ToSet(tx.inputs) \subseteq DOMAIN u.utxos
    PROVE  LET v == RemoveSpentTxs(u, tx) IN
           /\ Sound(v) /\ v.strict = u.strict
           /\ v.utxos = Restrict(u.utxos, DOMAIN u.utxos \ ToSet(tx.inputs))
<1> DEFINE seq == tx.inputs
           n == Len(seq)
           Upto(k) == {seq[i] : i \in 1..k}
           Kept(w, k) == /\ Sound(w) /\ w.strict = u.strict
                         /\ w.utxos = Restrict(u.utxos, DOMAIN u.utxos \ Upto(k))
<1>1. n \in Nat /\ DOMAIN seq = 1..n /\ \A k \in 1..n : seq[k] \in OutPoint
  OBVIOUS
<1>2. u \in UtxoState
  BY DEF Sound
<1>3. PICK h \in [0..n -> UtxoState] :
         /\ h[0] = u /\ h[n] = RemoveSpentTxs(u, tx)
         /\ \A k \in 1..n : h[k] = RemoveSpent(h[k - 1], seq[k])
  BY <1>2, RemoveSpentTxsRun
<1> DEFINE P == {k \in 0..n : Kept(h[k], k)}
<1>4. 0 \in P
  <2>1. Upto(0) = {}
    OBVIOUS
  <2>2. u.utxos \in [DOMAIN u.utxos -> Entry]
    BY <1>2, MapFacts
  <2>3. DOMAIN u.utxos \ Upto(0) = DOMAIN u.utxos
    BY <2>1
  <2>4. u.utxos = Restrict(u.utxos, DOMAIN u.utxos \ Upto(0))
    BY <2>2, <2>3 DEF Restrict
  <2> HIDE DEF Upto
  <2>5. Kept(h[0], 0)
    BY <1>3, <2>4
  <2>6. 0 \in 0..n
    BY <1>1
  <2> HIDE DEF Kept
  <2> QED BY <2>5, <2>6
<1>5. ASSUME NEW k \in 1..n, k - 1 \in P PROVE k \in P
  <2> DEFINE w == h[k - 1]
             o == seq[k]
  <2>1. Sound(w) /\ w.strict = u.strict
        /\ w.utxos = Restrict(u.utxos, DOMAIN u.utxos \ Upto(k - 1))
    BY <1>5
  <2>2. /\ k - 1 \in 0..n /\ k \in 0..n
        /\ Upto(k) = Upto(k - 1) \cup {o}
    <3>1. 1..k = 1..(k - 1) \cup {k}
      BY <1>1
    <3> QED BY <1>1, <3>1
  <2>3. o \notin Upto(k - 1)
    <3>1. \A i \in 1..(k - 1) : i \in 1..n /\ i # k
      BY <1>1
    <3> QED BY <1>1, <3>1 DEF Distinct
  <2>4. u.strict => o \in DOMAIN u.utxos
    BY <1>1 DEF ToSet
  <2>5. h[k] = RemoveSpent(w, o) /\ o \in OutPoint
    BY <1>1, <1>3
  <2> HIDE DEF w, o, Upto
  <2>6. DOMAIN w.utxos = DOMAIN u.utxos \ Upto(k - 1)
        /\ \A x \in DOMAIN w.utxos : w.utxos[x] = u.utxos[x]
    BY <2>1 DEF Restrict
  <2>7. w.strict => o \in DOMAIN w.utxos
    BY <2>1, <2>3, <2>4, <2>6
  <2>8. /\ Sound(h[k]) /\ h[k].strict = w.strict
        /\ h[k].utxos = Restrict(w.utxos, DOMAIN w.utxos \ {o})
    BY <2>1, <2>5, <2>7, RemoveSpentSound
  <2>9. DOMAIN w.utxos \ {o} = DOMAIN u.utxos \ Upto(k)
    BY <2>2, <2>6
  <2>10. h[k].utxos = Restrict(u.utxos, DOMAIN u.utxos \ Upto(k))
    BY <2>2, <2>6, <2>8, <2>9 DEF Restrict
  <2> QED BY <2>1, <2>2, <2>8, <2>10
<1>6. n \in P
  <2> HIDE DEF P, n
  <2>1. \A k \in 0..n : k \in P
    BY <1>1, <1>4, <1>5, Induct
  <2> QED BY <1>1, <2>1
<1>7. Upto(n) = ToSet(seq)
  BY <1>1 DEF ToSet
<1> QED BY <1>3, <1>6, <1>7

-----------------------------------------------------------------------------
\* The loop over the outputs of a transaction

Made(tx) == {<<tx.txid, v - 1>> : v \in DOMAIN tx.outputs}

OutputsRun(h, u, tx, height) ==
    /\ h \in [0..Len(tx.outputs) -> UtxoState]
    /\ h[0] = u /\ h[Len(tx.outputs)] = InsertUnspentTxs(u, tx, height)
    /\ \A k \in 1..Len(tx.outputs) :
          h[k] = InsertOutpoint(h[k - 1], <<tx.txid, k - 1>>, tx.outputs[k], height)

LEMMA InsertUnspentTxsRun ==
    ASSUME NEW u \in UtxoState, NEW tx, IsTx(tx), NEW height \in Nat
    PROVE  \E h : OutputsRun(h, u, tx, height)
<1> DEFINE n == Len(tx.outputs)
           out == tx.outputs
           id == tx.txid
           seq == [i \in DOMAIN tx.outputs |-> i]
           step(v, i) == InsertOutpoint(v, <<id, i - 1>>, out[i], height)
           g == [k \in 1..n |-> [v \in UtxoState |-> step(v, k)]]
           Good(f) == f = [s \in SUBSET (1..n) |->
                              IF s = {} THEN u ELSE step(f[s \ {Max(s)}], seq[Max(s)])]
           c == CHOOSE f : Good(f)
<1>1. /\ n \in Nat /\ DOMAIN out = 1..n /\ n <= MaxVout + 1
      /\ id \in TxIds
      /\ \A k \in 1..n : out[k] \in Output
  BY DEF IsTx
<1>2. \A k \in 1..n : <<id, k - 1>> \in OutPoint
  <2>1. MaxVout \in Nat
    BY UtxoSetAssumption
  <2> HIDE DEF n
  <2>2. \A k \in 1..n : k - 1 \in 0..MaxVout
    BY <1>1, <2>1
  <2> QED BY <1>1, <2>2 DEF OutPoint
<1>3. InsertUnspentTxs(u, tx, height) = c[1..n]
  BY <1>1 DEF InsertUnspentTxs, FoldLeftDomain, FoldLeft, MapThenFoldSet
<1>4. \A k \in 1..n : seq[k] = k
  BY <1>1
<1> HIDE DEF n, out, seq
<1>5. StepsOf(g, n, UtxoState)
  <2>1. \A k \in 1..n : \A v \in UtxoState : step(v, k) \in UtxoState
    BY <1>1, <1>2, InsertOutpointType
  <2> HIDE DEF step
  <2> QED BY <2>1 DEF StepsOf
<1>6. Good(c)
  <2>1. PICK f : IsFoldLeft(f, n, UtxoState, u, g)
    <3> HIDE DEF g
    <3> QED BY <1>1, <1>5, FoldLeftExists
  <2>2. Good(f)
    <3> HIDE DEF step
    <3>1. ASSUME NEW s \in SUBSET (1..n), s # {}
          PROVE  f[s] = step(f[s \ {Max(s)}], seq[Max(s)])
      <4>1. /\ f[s \ {Max(s)}] \in UtxoState /\ Max(s) \in 1..n
            /\ f[s] = g[Max(s)][f[s \ {Max(s)}]]
        <5> HIDE DEF g
        <5> QED BY <2>1, <3>1 DEF IsFoldLeft
      <4>2. seq[Max(s)] = Max(s)
        BY <1>4, <4>1
      <4> QED BY <4>1, <4>2
    <3>2. f[{}] = u /\ DOMAIN f = SUBSET (1..n) /\ f \in [SUBSET (1..n) -> UtxoState]
      BY <2>1 DEF IsFoldLeft
    <3> QED BY <3>1, <3>2
  <2> QED BY <2>2
<1> HIDE DEF c
<1>7. /\ c[{}] = u
      /\ \A k \in 1..n : c[1..k] = step(c[1..(k - 1)], k)
  <2>1. \A k \in 1..n : 1..k \in SUBSET (1..n) /\ k \in Nat \ {0}
    BY <1>1
  <2> HIDE DEF step
  <2>2. c[{}] = u
    BY <1>6
  <2>3. ASSUME NEW k \in 1..n PROVE c[1..k] = step(c[1..(k - 1)], k)
    <3>1. 1..k # {} /\ Max(1..k) = k /\ (1..k) \ {k} = 1..(k - 1)
      BY <2>1, IntervalSteps
    <3>2. c[1..k] = step(c[(1..k) \ {Max(1..k)}], seq[Max(1..k)])
      BY <1>6, <2>1, <3>1
    <3> QED BY <1>4, <3>1, <3>2
  <2> QED BY <2>2, <2>3
<1>8. \E h : IsRun(h, n, UtxoState, u, g) /\ h[n] = c[1..n]
  <2>1. FoldsTo(c, n, UtxoState, u, g)
    <3> HIDE DEF step
    <3> QED BY <1>7 DEF FoldsTo
  <2> HIDE DEF g
  <2> QED BY <1>1, <1>5, <2>1, RunOfFold
<1>9. \A k \in 1..n : k - 1 \in 0..n
  BY <1>1
<1> HIDE DEF step
<1>10. PICK h : /\ h \in [0..n -> UtxoState] /\ h[0] = u /\ h[n] = c[1..n]
                /\ \A k \in 1..n : h[k] = step(h[k - 1], k)
  BY <1>8, <1>9 DEF IsRun
<1> QED BY <1>3, <1>10 DEF n, out, step, OutputsRun

MadeFits(u, tx) ==
    /\ tx.txid \notin DuplicateTxIds => Made(tx) \cap DOMAIN u.utxos = {}
    /\ tx.txid \in DuplicateTxIds =>
          \A v \in DOMAIN tx.outputs : tx.outputs[v].address = NoAddress

\* The outputs join the set.
LEMMA InsertUnspentTxsSound ==
    ASSUME NEW u, Sound(u), NEW tx, IsTx(tx), NEW height \in Nat, MadeFits(u, tx)
    PROVE  LET v == InsertUnspentTxs(u, tx, height) IN
           /\ Sound(v) /\ v.strict = u.strict
           /\ DOMAIN v.utxos = DOMAIN u.utxos \cup Made(tx)
           /\ \A k \in DOMAIN tx.outputs :
                 v.utxos[<<tx.txid, k - 1>>] = [output |-> tx.outputs[k], height |-> height]
           /\ \A o \in DOMAIN u.utxos \ Made(tx) : v.utxos[o] = u.utxos[o]
<1> DEFINE n == Len(tx.outputs)
           out == tx.outputs
           id == tx.txid
           Upto(k) == {<<id, i - 1>> : i \in 1..k}
           Kept(w, k) == /\ Sound(w) /\ w.strict = u.strict
                         /\ DOMAIN w.utxos = DOMAIN u.utxos \cup Upto(k)
                         /\ \A i \in 1..k : w.utxos[<<id, i - 1>>] =
                                               [output |-> out[i], height |-> height]
                         /\ \A o \in DOMAIN u.utxos \ Upto(k) : w.utxos[o] = u.utxos[o]
<1>1. /\ n \in Nat /\ DOMAIN out = 1..n /\ n <= MaxVout + 1
      /\ id \in TxIds
      /\ \A k \in 1..n : out[k] \in Output
  BY DEF IsTx
<1>2. u \in UtxoState
  BY DEF Sound
<1>3. PICK h \in [0..n -> UtxoState] :
         /\ h[0] = u /\ h[n] = InsertUnspentTxs(u, tx, height)
         /\ \A k \in 1..n : h[k] = InsertOutpoint(h[k - 1], <<id, k - 1>>, out[k], height)
  <2>1. \E h : OutputsRun(h, u, tx, height)
    BY <1>2, InsertUnspentTxsRun
  <2> QED BY <2>1 DEF OutputsRun
<1> HIDE DEF n, out
<1> DEFINE P == {k \in 0..n : Kept(h[k], k)}
<1>4. 0 \in P
  <2>1. Upto(0) = {} /\ 1..0 = {}
    OBVIOUS
  <2> HIDE DEF Upto
  <2> QED BY <1>1, <1>3, <2>1
<1>5. ASSUME NEW k \in 1..n, k - 1 \in P PROVE k \in P
  <2> DEFINE w == h[k - 1]
             o == <<id, k - 1>>
  <2>1. Kept(w, k - 1)
    BY <1>5
  <2>2. /\ k \in 0..n
        /\ Upto(k) = Upto(k - 1) \cup {o}
        /\ 1..k = 1..(k - 1) \cup {k}
    <3>1. 1..k = 1..(k - 1) \cup {k} /\ k \in 0..n
      BY <1>1
    <3> QED BY <3>1
  <2>3. o \notin Upto(k - 1) /\ \A i \in 1..(k - 1) : <<id, i - 1>> # o
    OBVIOUS
  <2>4. o \in OutPoint
    <3>1. MaxVout \in Nat
      BY UtxoSetAssumption
    <3>2. k - 1 \in 0..MaxVout
      BY <1>1, <3>1
    <3> QED BY <1>1, <3>2 DEF OutPoint
  <2>5. h[k] = InsertOutpoint(w, o, out[k], height) /\ out[k] \in Output
    BY <1>1, <1>3
  <2>6. o \in Made(tx)
    BY <1>1 DEF Made, out
  <2>7. NewlyFits(w, o, out[k])
    <3>1. id \notin DuplicateTxIds => o \notin DOMAIN w.utxos
      <4> HIDE DEF Upto, o, w
      <4> QED BY <2>1, <2>3, <2>6 DEF MadeFits
    <3>2. id \in DuplicateTxIds => out[k].address = NoAddress
      BY <1>1 DEF MadeFits, out
    <3> QED BY <3>1, <3>2 DEF NewlyFits
  <2> HIDE DEF w, o, Upto
  <2>8. /\ Sound(h[k]) /\ h[k].strict = w.strict
        /\ h[k].utxos = Bind(w.utxos, o, [output |-> out[k], height |-> height])
    BY <2>1, <2>4, <2>5, <2>7, InsertOutpointSound
  <2>9. /\ DOMAIN h[k].utxos = DOMAIN w.utxos \cup {o}
        /\ h[k].utxos[o] = [output |-> out[k], height |-> height]
        /\ \A x \in DOMAIN w.utxos : x # o => h[k].utxos[x] = w.utxos[x]
    BY <2>8 DEF Bind
  <2>10. ASSUME NEW i \in 1..k
         PROVE  h[k].utxos[<<id, i - 1>>] = [output |-> out[i], height |-> height]
    <3>1. CASE i = k
      BY <2>9, <3>1 DEF o
    <3>2. CASE i # k
      <4>1. i \in 1..(k - 1) /\ <<id, i - 1>> \in Upto(k - 1)
        BY <2>2, <3>2 DEF Upto
      <4> QED BY <2>1, <2>3, <2>9, <4>1
    <3> QED BY <3>1, <3>2
  <2> QED BY <2>1, <2>2, <2>8, <2>9, <2>10
<1>6. n \in P
  <2> HIDE DEF P, n
  <2>1. \A k \in 0..n : k \in P
    BY <1>1, <1>4, <1>5, Induct
  <2> QED BY <1>1, <2>1
<1>7. Upto(n) = Made(tx)
  BY <1>1 DEF Made, out
<1> HIDE DEF Upto
<1> QED BY <1>1, <1>3, <1>6, <1>7 DEF out, n

-----------------------------------------------------------------------------
\* Transactions

LEMMA InsertTxType ==
    ASSUME NEW u \in UtxoState, NEW tx, IsTx(tx), NEW height \in Nat
    PROVE  InsertTx(u, tx, height) \in UtxoState
<1>1. Len(tx.inputs) \in Nat /\ Len(tx.outputs) \in Nat /\ tx.inputs \in Seq(OutPoint)
  BY DEF IsTx
<1> DEFINE v == RemoveSpentTxs(u, tx)
<1>2. v \in UtxoState
  BY <1>1, RemoveSpentTxsRun
<1> HIDE DEF v
<1>3. InsertUnspentTxs(v, tx, height) \in UtxoState
  <2>1. PICK h : OutputsRun(h, v, tx, height)
    BY <1>2, InsertUnspentTxsRun
  <2> QED BY <1>1, <2>1 DEF OutputsRun
<1> QED BY <1>3 DEF InsertTx, v

TxFits(u, tx) ==
    /\ Distinct(tx.inputs)
    /\ u.strict => ToSet(tx.inputs) \subseteq DOMAIN u.utxos
    /\ MadeFits(u, tx)

\* v is u after tx.
Applied(v, u, tx, height) ==
    /\ Sound(v) /\ v.strict = u.strict
    /\ DOMAIN v.utxos = (DOMAIN u.utxos \ ToSet(tx.inputs)) \cup Made(tx)
    /\ \A k \in DOMAIN tx.outputs :
          v.utxos[<<tx.txid, k - 1>>] = [output |-> tx.outputs[k], height |-> height]
    /\ \A o \in (DOMAIN u.utxos \ ToSet(tx.inputs)) \ Made(tx) : v.utxos[o] = u.utxos[o]

LEMMA InsertTxSound ==
    ASSUME NEW u, Sound(u), NEW tx, IsTx(tx), NEW height \in Nat, TxFits(u, tx)
    PROVE  Applied(InsertTx(u, tx, height), u, tx, height)
<1> DEFINE w == RemoveSpentTxs(u, tx)
           v == InsertUnspentTxs(w, tx, height)
<1>1. /\ Sound(w) /\ w.strict = u.strict
      /\ w.utxos = Restrict(u.utxos, DOMAIN u.utxos \ ToSet(tx.inputs))
  BY RemoveSpentTxsSound DEF TxFits, IsTx
<1> HIDE DEF w
<1>2. /\ DOMAIN w.utxos = DOMAIN u.utxos \ ToSet(tx.inputs)
      /\ \A o \in DOMAIN w.utxos : w.utxos[o] = u.utxos[o]
  BY <1>1 DEF Restrict
<1>3. MadeFits(w, tx)
  BY <1>2 DEF TxFits, MadeFits
<1>4. /\ Sound(v) /\ v.strict = w.strict
      /\ DOMAIN v.utxos = DOMAIN w.utxos \cup Made(tx)
      /\ \A k \in DOMAIN tx.outputs :
            v.utxos[<<tx.txid, k - 1>>] = [output |-> tx.outputs[k], height |-> height]
      /\ \A o \in DOMAIN w.utxos \ Made(tx) : v.utxos[o] = w.utxos[o]
  BY ZenonT(30), <1>1, <1>3, InsertUnspentTxsSound
<1>5. v = InsertTx(u, tx, height)
  BY DEF InsertTx, w
<1> HIDE DEF v
<1> QED BY <1>1, <1>2, <1>4, <1>5 DEF Applied

TxsOK(txs) ==
    /\ Len(txs) \in Nat /\ DOMAIN txs = 1..Len(txs)
    /\ \A k \in DOMAIN txs : IsTx(txs[k])

TxsRun(h, u, txs, height) ==
    /\ h \in [0..Len(txs) -> UtxoState]
    /\ h[0] = u /\ h[Len(txs)] = InsertTxs(u, txs, height)
    /\ \A k \in 1..Len(txs) : h[k] = InsertTx(h[k - 1], txs[k], height)

LEMMA InsertTxsRun ==
    ASSUME NEW u \in UtxoState, NEW txs, TxsOK(txs), NEW height \in Nat
    PROVE  \E h : TxsRun(h, u, txs, height)
<1> DEFINE n == Len(txs)
           step(v, tx) == InsertTx(v, tx, height)
           g == [k \in 1..n |-> [v \in UtxoState |-> step(v, txs[k])]]
           Good(f) == f = [s \in SUBSET (1..n) |->
                              IF s = {} THEN u ELSE step(f[s \ {Max(s)}], txs[Max(s)])]
           c == CHOOSE f : Good(f)
<1>1. n \in Nat /\ DOMAIN txs = 1..n /\ \A k \in 1..n : IsTx(txs[k])
  BY DEF TxsOK
<1>2. InsertTxs(u, txs, height) = c[1..n]
  BY <1>1 DEF InsertTxs, FoldLeft, MapThenFoldSet
<1> HIDE DEF n
<1>3. StepsOf(g, n, UtxoState)
  <2>1. \A k \in 1..n : \A v \in UtxoState : step(v, txs[k]) \in UtxoState
    BY <1>1, InsertTxType
  <2> HIDE DEF step
  <2> QED BY <2>1 DEF StepsOf
<1>4. Good(c)
  <2>1. PICK f : IsFoldLeft(f, n, UtxoState, u, g)
    <3> HIDE DEF g
    <3> QED BY <1>1, <1>3, FoldLeftExists
  <2>2. Good(f)
    <3> HIDE DEF step
    <3> QED BY <2>1 DEF IsFoldLeft
  <2> QED BY <2>2
<1> HIDE DEF c
<1>5. /\ c[{}] = u
      /\ \A k \in 1..n : c[1..k] = step(c[1..(k - 1)], txs[k])
  <2>1. \A k \in 1..n : 1..k \in SUBSET (1..n) /\ k \in Nat \ {0}
    BY <1>1
  <2> HIDE DEF step
  <2> QED BY <1>4, <2>1, IntervalSteps
<1>6. \E h : IsRun(h, n, UtxoState, u, g) /\ h[n] = c[1..n]
  <2>1. FoldsTo(c, n, UtxoState, u, g)
    <3> HIDE DEF step
    <3> QED BY <1>5 DEF FoldsTo
  <2> HIDE DEF g
  <2> QED BY <1>1, <1>3, <2>1, RunOfFold
<1>7. \A k \in 1..n : k - 1 \in 0..n
  BY <1>1
<1> HIDE DEF step
<1>8. PICK h : /\ h \in [0..n -> UtxoState] /\ h[0] = u /\ h[n] = c[1..n]
               /\ \A k \in 1..n : h[k] = step(h[k - 1], txs[k])
  BY <1>6, <1>7 DEF IsRun
<1> QED BY <1>2, <1>8 DEF n, step, TxsRun

-----------------------------------------------------------------------------
\* The part of a UTXO set that belongs to an address

PartRun(h, u, a) ==
    LET s == IndexOf(u, a) IN
    /\ h \in [0..Len(s) -> UtxoState]
    /\ h[0] = NewUtxoSet(FALSE) /\ h[Len(s)] = AddressUtxos(u, a)
    /\ \A k \in 1..Len(s) :
          h[k] = InsertOutpoint(h[k - 1], s[k], u.utxos[s[k]].output, u.utxos[s[k]].height)

LEMMA AddressUtxosRun ==
    ASSUME NEW u, Sound(u), NEW a \in Addresses
    PROVE  \E h : PartRun(h, u, a)
<1> DEFINE seq == IndexOf(u, a)
           n == Len(seq)
           base == NewUtxoSet(FALSE)
           step(v, o) == IF o \notin DOMAIN u.utxos THEN Panic(v)
                         ELSE InsertOutpoint(v, o, u.utxos[o].output, u.utxos[o].height)
           g == [k \in 1..n |-> [v \in UtxoState |-> step(v, seq[k])]]
           Good(f) == f = [s \in SUBSET (1..n) |->
                              IF s = {} THEN base ELSE step(f[s \ {Max(s)}], seq[Max(s)])]
           c == CHOOSE f : Good(f)
<1>1. n \in Nat /\ DOMAIN seq = 1..n /\ \A k \in 1..n : seq[k] \in DOMAIN u.utxos
  BY IndexOfPays, LenProperties DEF ToSet, PaysTo
<1>2. base \in UtxoState
  BY NewType
<1>3. AddressUtxos(u, a) = c[1..n]
  BY <1>1 DEF AddressUtxos, FoldLeft, MapThenFoldSet
<1> HIDE DEF n, seq, base
<1>4. \A k \in 1..n : \A v :
         step(v, seq[k]) = InsertOutpoint(v, seq[k], u.utxos[seq[k]].output, u.utxos[seq[k]].height)
  BY <1>1
<1>5. StepsOf(g, n, UtxoState)
  <2>1. \A k \in 1..n : \A v \in UtxoState : step(v, seq[k]) \in UtxoState
    <3>1. ASSUME NEW k \in 1..n, NEW v \in UtxoState PROVE step(v, seq[k]) \in UtxoState
      <4>1. /\ seq[k] \in OutPoint /\ u.utxos[seq[k]].output \in Output
            /\ u.utxos[seq[k]].height \in Nat
        BY <1>1, SoundFacts
      <4> HIDE DEF step
      <4> QED BY <1>4, <4>1, InsertOutpointType
    <3> QED BY <3>1
  <2> HIDE DEF step
  <2> QED BY <2>1 DEF StepsOf
<1>6. Good(c)
  <2>1. PICK f : IsFoldLeft(f, n, UtxoState, base, g)
    <3> HIDE DEF g
    <3> QED BY <1>1, <1>2, <1>5, FoldLeftExists
  <2>2. Good(f)
    <3> HIDE DEF step
    <3> QED BY <2>1 DEF IsFoldLeft
  <2> QED BY <2>2
<1> HIDE DEF c
<1>7. /\ c[{}] = base
      /\ \A k \in 1..n : c[1..k] = step(c[1..(k - 1)], seq[k])
  <2>1. \A k \in 1..n : 1..k \in SUBSET (1..n) /\ k \in Nat \ {0}
    BY <1>1
  <2> HIDE DEF step
  <2> QED BY <1>6, <2>1, IntervalSteps
<1>8. \E h : IsRun(h, n, UtxoState, base, g) /\ h[n] = c[1..n]
  <2>1. FoldsTo(c, n, UtxoState, base, g)
    <3> HIDE DEF step
    <3> QED BY <1>7 DEF FoldsTo
  <2> HIDE DEF g
  <2> QED BY <1>1, <1>2, <1>5, <2>1, RunOfFold
<1>9. \A k \in 1..n : k - 1 \in 0..n
  BY <1>1
<1> HIDE DEF step
<1>10. PICK h : /\ h \in [0..n -> UtxoState] /\ h[0] = base /\ h[n] = c[1..n]
                /\ \A k \in 1..n : h[k] = step(h[k - 1], seq[k])
  BY <1>8, <1>9 DEF IsRun
<1>11. \A k \in 1..n :
          h[k] = InsertOutpoint(h[k - 1], seq[k], u.utxos[seq[k]].output, u.utxos[seq[k]].height)
  BY <1>4, <1>10
<1>12. PartRun(h, u, a)
  BY <1>3, <1>10, <1>11 DEF n, seq, base, PartRun
<1> QED BY <1>12

\* Of a sound set, the outpoints of an address with their outputs and heights.
LEMMA AddressUtxosSound ==
    ASSUME NEW u, Sound(u), NEW a \in Addresses
    PROVE  LET v == AddressUtxos(u, a) IN
           /\ Sound(v) /\ v.strict = FALSE
           /\ DOMAIN v.utxos = PaysTo(u, a)
           /\ \A o \in PaysTo(u, a) : v.utxos[o] = u.utxos[o]
<1> DEFINE seq == IndexOf(u, a)
           n == Len(seq)
           Upto(k) == {seq[i] : i \in 1..k}
           Kept(w, k) == /\ Sound(w) /\ w.strict = FALSE
                         /\ DOMAIN w.utxos = Upto(k)
                         /\ \A o \in Upto(k) : w.utxos[o] = u.utxos[o]
<1>1. /\ n \in Nat /\ DOMAIN seq = 1..n /\ Distinct(seq)
      /\ \A k \in 1..n : seq[k] \in PaysTo(u, a)
  BY IndexOfPays, LenProperties DEF ToSet
<1>2. Upto(n) = PaysTo(u, a)
  BY <1>1, IndexOfPays DEF ToSet
<1>3. PICK h : PartRun(h, u, a)
  BY AddressUtxosRun
<1>4. /\ h[0] = NewUtxoSet(FALSE) /\ h[n] = AddressUtxos(u, a)
      /\ \A k \in 1..n : h[k] = InsertOutpoint(h[k - 1], seq[k], u.utxos[seq[k]].output,
                                               u.utxos[seq[k]].height)
  BY <1>3 DEF PartRun
<1> HIDE DEF seq, n
<1> DEFINE P == {k \in 0..n : Kept(h[k], k)}
<1>5. 0 \in P
  <2>1. Upto(0) = {}
    OBVIOUS
  <2>2. /\ Sound(NewUtxoSet(FALSE)) /\ NewUtxoSet(FALSE).strict = FALSE
        /\ DOMAIN NewUtxoSet(FALSE).utxos = {}
    <3>1. DOMAIN <<>> = {}
      OBVIOUS
    <3>2. NewUtxoSet(FALSE) \in UtxoState
      BY NewType
    <3> QED BY <3>1, <3>2 DEF Sound, NewUtxoSet, IndexMatches
  <2>3. 0 \in 0..n
    BY <1>1
  <2> HIDE DEF Upto
  <2> QED BY <1>4, <2>1, <2>2, <2>3
<1>6. ASSUME NEW k \in 1..n, k - 1 \in P PROVE k \in P
  <2> DEFINE w == h[k - 1]
             o == seq[k]
  <2>1. Kept(w, k - 1)
    BY <1>6
  <2>2. k \in 0..n /\ Upto(k) = Upto(k - 1) \cup {o}
    <3>1. 1..k = 1..(k - 1) \cup {k} /\ k \in 0..n
      BY <1>1
    <3> QED BY <3>1
  <2>3. o \notin Upto(k - 1)
    <3>1. \A i \in 1..(k - 1) : i \in 1..n /\ i # k
      BY <1>1
    <3> QED BY <1>1, <3>1 DEF Distinct
  <2>4. /\ o \in OutPoint /\ u.utxos[o].output \in Output /\ u.utxos[o].height \in Nat
        /\ u.utxos[o] = [output |-> u.utxos[o].output, height |-> u.utxos[o].height]
        /\ u.utxos[o].output.address = a
    <3>1. o \in DOMAIN u.utxos /\ u.utxos[o].output.address = a
      BY <1>1 DEF PaysTo
    <3> QED BY <3>1, SoundFacts DEF Entry
  <2>5. h[k] = InsertOutpoint(w, o, u.utxos[o].output, u.utxos[o].height)
    BY <1>4
  <2>6. NewlyFits(w, o, u.utxos[o].output)
    <3>1. o[1] \in DuplicateTxIds => u.utxos[o].output.address = NoAddress
      BY <1>1, SoundFacts DEF PaysTo
    <3> HIDE DEF Upto, w, o
    <3> QED BY <2>1, <2>3, <3>1 DEF NewlyFits
  <2> HIDE DEF w, o, Upto
  <2>7. /\ Sound(h[k]) /\ h[k].strict = w.strict
        /\ h[k].utxos = Bind(w.utxos, o, [output |-> u.utxos[o].output, height |-> u.utxos[o].height])
    BY <2>1, <2>4, <2>5, <2>6, InsertOutpointSound
  <2>8. /\ DOMAIN h[k].utxos = DOMAIN w.utxos \cup {o}
        /\ h[k].utxos[o] = u.utxos[o]
        /\ \A x \in DOMAIN w.utxos : x # o => h[k].utxos[x] = w.utxos[x]
    BY <2>4, <2>7 DEF Bind
  <2> QED BY <2>1, <2>2, <2>7, <2>8
<1>7. n \in P
  <2> HIDE DEF P, n
  <2>1. \A k \in 0..n : k \in P
    BY <1>1, <1>5, <1>6, Induct
  <2> QED BY <1>1, <2>1
<1> HIDE DEF Upto
<1> QED BY <1>2, <1>4, <1>7
=============================================================================
