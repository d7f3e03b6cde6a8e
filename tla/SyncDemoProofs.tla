--------------------------- MODULE SyncDemoProofs ---------------------------
(***************************************************************************)
(* The syncing process, proved for every set of blocks and transactions,   *)
(* every delta, any adapter, any number of processes and any commands.     *)
(*                                                                         *)
(* Loading inverts saving: the state that is read from a file has the      *)
(* forest and the map of UTXOs that were written, in whatever order the    *)
(* map was, and an index that agrees with them.  So SyncInv can say of the *)
(* file what it says of the state.                                         *)
(*                                                                         *)
(* SyncInv says of both that they stand for a chain and are gathered: each *)
(* delivered block above the anchor is in the forest, once, and there is   *)
(* nothing else in it.  The request names what is there, so that no block  *)
(* of an answer has been delivered before, and the block before it has:    *)
(* each insertion is one of a delivery in order.                           *)
(***************************************************************************)
EXTENDS SyncDemo, BitcoinStateProofs

-----------------------------------------------------------------------------
\* Loading inverts saving: blocks and trees

LEMMA LoadedBlock ==
    ASSUME NEW b \in Blocks
    PROVE  BlockFromProto(BlockToProto(b)) = b
<1> DEFINE m == BlockToProto(b)
           c == CHOOSE x \in Blocks : Prev[x] = m.prev_blockhash /\ Txs[x] = m.txdata
<1>1. Prev[b] = m.prev_blockhash /\ Txs[b] = m.txdata
  BY DEF BlockToProto
<1> HIDE DEF m
<1>2. c \in Blocks /\ Prev[c] = m.prev_blockhash /\ Txs[c] = m.txdata
  BY <1>1
<1>3. c = b
  BY <1>1, <1>2, FileAssumption
<1> QED BY <1>3 DEF BlockFromProto, m

LEMMA LoadedTree ==
    ASSUME NEW t \in Tree
    PROVE  TreeFromProto(TreeToProto(t)) = t
<1> DEFINE m == TreeToProto(t)
           saved(n) == [at |-> n.at, root |-> BlockToProto(n.block)]
           loaded(x) == [at |-> x.at, block |-> BlockFromProto(x.root)]
<1>1. \A n \in t : /\ n = [at |-> n.at, block |-> n.block]
                   /\ BlockFromProto(BlockToProto(n.block)) = n.block
  BY TreeFacts, LoadedBlock
<1>2. \A n \in t : loaded(saved(n)) = n
  BY <1>1
<1>3. /\ \A n \in t : saved(n) \in m
      /\ \A x \in m : \E n \in t : x = saved(n)
  BY DEF TreeToProto
<1>4. TreeFromProto(m) = {loaded(x) : x \in m}
  BY DEF TreeFromProto
<1> HIDE DEF m, saved, loaded
<1> QED BY <1>2, <1>3, <1>4 DEF m

LEMMA LoadedForest ==
    ASSUME NEW trees \in Seq(Linked)
    PROVE  ForestFromProto(ForestToProto(trees)) = trees
<1>1. /\ Len(trees) \in Nat /\ DOMAIN trees = 1..Len(trees)
      /\ trees = [i \in 1..Len(trees) |-> trees[i]]
  BY LenProperties
<1>2. \A i \in DOMAIN trees : TreeFromProto(TreeToProto(trees[i])) = trees[i]
  BY <1>1, ElementOfSeq, LoadedTree DEF Linked
<1>3. ForestFromProto(ForestToProto(trees)) =
         [i \in DOMAIN trees |-> TreeFromProto(TreeToProto(trees[i]))]
  BY DEF ForestFromProto, ForestToProto
<1> QED BY <1>1, <1>2, <1>3

-----------------------------------------------------------------------------
\* Loading inverts saving: UTXOs

\* An order of a finite set names each of its elements once.
LEMMA OrderCovers ==
    ASSUME NEW S, IsFiniteSet(S), NEW order \in SetToSeqs(S)
    PROVE  /\ Len(order) \in Nat /\ DOMAIN order = 1..Len(order)
           /\ \A k \in 1..Len(order) : order[k] \in S
           /\ \A j, k \in 1..Len(order) : order[j] = order[k] => j = k
           /\ \A x \in S : \E k \in 1..Len(order) : order[k] = x
<1> DEFINE n == Cardinality(S)
           D == 1..n
<1>1. n \in Nat
  BY FS_CardinalityType
<1>2. order \in [D -> S] /\ \A j, k \in D : j # k => order[j] # order[k]
  BY DEF SetToSeqs
<1>3. IsFiniteSet(D) /\ Cardinality(D) = n
  BY <1>1, FS_Interval
<1>4. Len(order) = n /\ DOMAIN order = D
  BY <1>1, <1>2
<1> HIDE DEF n, D
<1>5. order \in Injection(D, S)
  BY <1>2 DEF Injection, IsInjective
<1>6. order \in Surjection(D, S)
  <2>1. Cardinality(D) = Cardinality(S)
    BY <1>3 DEF n
  <2> QED BY <1>5, <2>1, FS_Injection
<1>7. \A x \in S : \E k \in D : order[k] = x
  BY <1>6 DEF Surjection
<1> QED BY <1>1, <1>2, <1>4, <1>7 DEF D

\* The outpoints that a chain creates are finitely many, and so is what a UTXO set
\* holds of them.
LEMMA ReplayFinite ==
    ASSUME NEW u, NEW chain \in Seq(Blocks), NEW H, NEW W,
           IsReplay(u, chain, TxPlaces(chain), H, W)
    PROVE  IsFiniteSet(IntoSet(u))
<1> DEFINE here(i) == {i} \X DOMAIN Txs[chain[i]]
           rows == [i \in DOMAIN chain |-> here(i)]
           P == TxPlaces(chain)
           made == [p \in P |-> Made(TxAt(chain, p))]
           O == UNION {made[p] : p \in P}
           entry(o) == [outpoint |-> o, output |-> u.utxos[o].output, height |-> u.utxos[o].height]
           entries == [o \in DOMAIN u.utxos |-> entry(o)]
<1>1. IsFiniteSet(P)
  <2>1. Len(chain) \in Nat /\ DOMAIN chain = 1..Len(chain)
        /\ \A i \in DOMAIN chain : chain[i] \in Blocks
    BY LenProperties, ElementOfSeq
  <2>2. IsFiniteSet(DOMAIN chain)
    BY <2>1, FS_Interval
  <2>3. ASSUME NEW i \in DOMAIN chain PROVE IsFiniteSet(here(i))
    <3>1. Len(Txs[chain[i]]) \in Nat /\ DOMAIN Txs[chain[i]] = 1..Len(Txs[chain[i]])
      BY <2>1, StateAssumption
    <3>2. IsFiniteSet(DOMAIN Txs[chain[i]])
      BY <3>1, FS_Interval
    <3>3. IsFiniteSet({i})
      BY FS_Singleton
    <3> QED BY <3>2, <3>3, FS_Product
  <2>4. \A i \in DOMAIN chain : IsFiniteSet(rows[i])
    BY <2>3
  <2>5. P = UNION {rows[i] : i \in DOMAIN chain}
    BY DEF TxPlaces
  <2>6. DOMAIN rows = DOMAIN chain
    OBVIOUS
  <2> HIDE DEF rows, P
  <2>7. IsFiniteSet({rows[i] : i \in DOMAIN chain})
    BY <2>2, <2>6, ImageFinite
  <2> QED BY <2>4, <2>5, <2>7, FS_UNION
<1>2. IsFiniteSet(O)
  <2>1. ASSUME NEW p \in P PROVE IsFiniteSet(made[p])
    <3> DEFINE tx == TxAt(chain, p)
               n == Len(tx.outputs)
               f == [v \in 1..n |-> <<tx.txid, v - 1>>]
    <3>1. n \in Nat /\ DOMAIN tx.outputs = 1..n
      BY PlaceFacts, LenProperties DEF IsTx
    <3> DEFINE D == 1..n
    <3>2. IsFiniteSet(D)
      BY <3>1, FS_Interval
    <3>3. made[p] = {f[v] : v \in D}
      BY <3>1 DEF Made
    <3>4. DOMAIN f = D
      OBVIOUS
    <3> HIDE DEF f, D, made
    <3> QED BY <3>2, <3>3, <3>4, ImageFinite
  <2>2. DOMAIN made = P
    OBVIOUS
  <2> HIDE DEF made, P
  <2>3. IsFiniteSet({made[p] : p \in P})
    BY <1>1, <2>2, ImageFinite
  <2> QED BY <2>1, <2>3, FS_UNION
<1>3. DOMAIN u.utxos \subseteq O
  <2>1. ASSUME NEW o \in DOMAIN u.utxos PROVE o \in O
    <3>1. PICK p : LastCreates(chain, P, p, o)
      BY DEF IsReplay
    <3>2. p \in P /\ Creates(TxAt(chain, p), o)
      BY <3>1 DEF LastCreates
    <3>3. o \in OutPoint /\ IsTx(TxAt(chain, p))
      BY <3>2, PlaceFacts, SoundFacts DEF IsReplay
    <3>4. o \in Made(TxAt(chain, p))
      BY <3>2, <3>3, MadeCreates
    <3> QED BY <3>2, <3>4
  <2> QED BY <2>1
<1>4. IsFiniteSet(DOMAIN u.utxos)
  <2> HIDE DEF O
  <2> QED BY <1>2, <1>3, FS_Subset
<1>5. IntoSet(u) = {entries[o] : o \in DOMAIN u.utxos} /\ DOMAIN entries = DOMAIN u.utxos
  BY DEF IntoSet
<1> HIDE DEF entries
<1> QED BY <1>4, <1>5, ImageFinite

\* Inserting a sequence of UTXOs into a new set, one after the other.
UtxoEntry == [outpoint : OutPoint, output : Output, height : Nat]

LoadRun(h, m) ==
    /\ h \in [0..Len(m.utxos) -> UtxoState]
    /\ h[0] = NewUtxoSet(m.strict) /\ h[Len(m.utxos)] = UtxosFromProto(m)
    /\ \A k \in 1..Len(m.utxos) :
          h[k] = InsertOutpoint(h[k - 1], m.utxos[k].outpoint, m.utxos[k].output,
                                m.utxos[k].height)

LEMMA UtxosLoadRun ==
    ASSUME NEW m, m.strict \in BOOLEAN, m.utxos \in Seq(UtxoEntry)
    PROVE  \E h : LoadRun(h, m)
<1> DEFINE seq == m.utxos
           n == Len(seq)
           base == NewUtxoSet(m.strict)
           step(u, x) == InsertOutpoint(u, x.outpoint, x.output, x.height)
           g == [k \in 1..n |-> [v \in UtxoState |-> step(v, seq[k])]]
           Good(f) == f = [s \in SUBSET (1..n) |->
                              IF s = {} THEN base ELSE step(f[s \ {Max(s)}], seq[Max(s)])]
           c == CHOOSE f : Good(f)
<1>1. n \in Nat /\ DOMAIN seq = 1..n /\ \A k \in 1..n : seq[k] \in UtxoEntry
  BY LenProperties, ElementOfSeq
<1>2. base \in UtxoState
  BY NewType
<1>3. UtxosFromProto(m) = c[1..n]
  BY <1>1 DEF UtxosFromProto, FoldLeft, MapThenFoldSet
<1> HIDE DEF n, seq, base
<1>4. StepsOf(g, n, UtxoState)
  <2>1. \A k \in 1..n : \A v \in UtxoState : step(v, seq[k]) \in UtxoState
    <3>1. ASSUME NEW k \in 1..n, NEW v \in UtxoState PROVE step(v, seq[k]) \in UtxoState
      <4>1. seq[k].outpoint \in OutPoint /\ seq[k].output \in Output /\ seq[k].height \in Nat
        BY <1>1 DEF UtxoEntry
      <4> QED BY <4>1, InsertOutpointType
    <3> QED BY <3>1
  <2> HIDE DEF step
  <2> QED BY <2>1 DEF StepsOf
<1>5. Good(c)
  <2>1. PICK f : IsFoldLeft(f, n, UtxoState, base, g)
    <3> HIDE DEF g
    <3> QED BY <1>1, <1>2, <1>4, FoldLeftExists
  <2>2. Good(f)
    <3> HIDE DEF step
    <3> QED BY <2>1 DEF IsFoldLeft
  <2> QED BY <2>2
<1> HIDE DEF c
<1>6. /\ c[{}] = base
      /\ \A k \in 1..n : c[1..k] = step(c[1..(k - 1)], seq[k])
  <2>1. \A s \in SUBSET (1..n) :
           c[s] = IF s = {} THEN base ELSE step(c[s \ {Max(s)}], seq[Max(s)])
    <3> HIDE DEF step
    <3> QED BY <1>5
  <2>2. c[{}] = base
    BY <2>1
  <2>3. ASSUME NEW k \in 1..n PROVE c[1..k] = step(c[1..(k - 1)], seq[k])
    <3>1. 1..k \in SUBSET (1..n) /\ k \in Nat \ {0}
      BY <1>1
    <3>2. 1..k # {} /\ Max(1..k) = k /\ (1..k) \ {k} = 1..(k - 1)
      BY <3>1, IntervalSteps
    <3> HIDE DEF step
    <3> QED BY <2>1, <3>1, <3>2
  <2> HIDE DEF step
  <2> QED BY <2>2, <2>3
<1>7. \E h : IsRun(h, n, UtxoState, base, g) /\ h[n] = c[1..n]
  <2>1. FoldsTo(c, n, UtxoState, base, g)
    <3> HIDE DEF step
    <3> QED BY <1>6 DEF FoldsTo
  <2> HIDE DEF g
  <2> QED BY <1>1, <1>2, <1>4, <2>1, RunOfFold
<1>8. \A k \in 1..n : k - 1 \in 0..n
  BY <1>1
<1> HIDE DEF step
<1>9. PICK h : /\ h \in [0..n -> UtxoState] /\ h[0] = base /\ h[n] = c[1..n]
               /\ \A k \in 1..n : h[k] = step(h[k - 1], seq[k])
  BY <1>7, <1>8 DEF IsRun
<1>10. LoadRun(h, m)
  BY <1>3, <1>9 DEF n, seq, base, step, LoadRun
<1> QED BY <1>10

\* What is read has the same map, and an index that agrees with it: in whatever
\* order the map was written, each outpoint is inserted into a set without it.
LEMMA LoadedUtxos ==
    ASSUME NEW u, Sound(u), IsFiniteSet(IntoSet(u)), NEW m \in UtxosToProto(u)
    PROVE  LET v == UtxosFromProto(m) IN
           Sound(v) /\ v.utxos = u.utxos /\ v.strict = u.strict
<1> DEFINE seq == m.utxos
           n == Len(seq)
           o(k) == seq[k].outpoint
           Upto(k) == {o(i) : i \in 1..k}
           Kept(w, k) == /\ Sound(w) /\ w.strict = u.strict
                         /\ DOMAIN w.utxos = Upto(k)
                         /\ \A x \in Upto(k) : w.utxos[x] = u.utxos[x]
<1>1. seq \in SetToSeqs(IntoSet(u)) /\ m.strict = u.strict
  BY DEF UtxosToProto
<1>2. /\ n \in Nat /\ DOMAIN seq = 1..n
      /\ \A k \in 1..n : seq[k] \in IntoSet(u)
      /\ \A j, k \in 1..n : seq[j] = seq[k] => j = k
      /\ \A x \in IntoSet(u) : \E k \in 1..n : seq[k] = x
  BY <1>1, OrderCovers
<1> HIDE DEF seq, n
<1>3. \A x \in IntoSet(u) :
         /\ x.outpoint \in DOMAIN u.utxos
         /\ x = [outpoint |-> x.outpoint, output |-> u.utxos[x.outpoint].output,
                 height |-> u.utxos[x.outpoint].height]
         /\ x.output = u.utxos[x.outpoint].output
         /\ x.height = u.utxos[x.outpoint].height
  BY DEF IntoSet
<1>4. \A k \in 1..n : /\ o(k) \in DOMAIN u.utxos
                      /\ seq[k] = [outpoint |-> o(k), output |-> u.utxos[o(k)].output,
                                   height |-> u.utxos[o(k)].height]
  BY <1>2, <1>3
<1>5. \A k \in 1..n :
         /\ seq[k].output = u.utxos[o(k)].output /\ seq[k].height = u.utxos[o(k)].height
         /\ o(k) \in OutPoint /\ seq[k].output \in Output /\ seq[k].height \in Nat
         /\ [output |-> seq[k].output, height |-> seq[k].height] = u.utxos[o(k)]
  <2>1. \A x \in DOMAIN u.utxos :
           /\ x \in OutPoint /\ u.utxos[x].output \in Output /\ u.utxos[x].height \in Nat
           /\ u.utxos[x] = [output |-> u.utxos[x].output, height |-> u.utxos[x].height]
    BY SoundFacts DEF Entry
  <2>2. \A k \in 1..n :
           seq[k].output = u.utxos[o(k)].output /\ seq[k].height = u.utxos[o(k)].height
    BY <1>2, <1>3
  <2> HIDE DEF o
  <2> QED BY <1>4, <2>1, <2>2
<1>6. m.strict \in BOOLEAN /\ seq \in Seq(UtxoEntry)
  <2>1. m.strict \in BOOLEAN
    BY <1>1, MapFacts DEF Sound
  <2>2. ASSUME NEW k \in 1..n PROVE seq[k] \in UtxoEntry
    <3>1. seq[k] = [outpoint |-> o(k), output |-> seq[k].output, height |-> seq[k].height]
      BY <1>4, <1>5
    <3> HIDE DEF o
    <3>2. o(k) \in OutPoint /\ seq[k].output \in Output /\ seq[k].height \in Nat
      BY <1>5
    <3> QED BY <3>1, <3>2 DEF UtxoEntry
  <2>3. seq \in [1..n -> UtxoEntry]
    <3>1. seq \in [1..Cardinality(IntoSet(u)) -> IntoSet(u)]
      BY <1>1 DEF SetToSeqs
    <3> QED BY <1>2, <2>2, <3>1
  <2> QED BY <1>2, <2>1, <2>3, SeqDef
<1>7. \A j, k \in 1..n : o(j) = o(k) => j = k
  BY <1>2, <1>4
<1>8. Upto(n) = DOMAIN u.utxos
  <2>1. ASSUME NEW x \in DOMAIN u.utxos PROVE x \in Upto(n)
    <3>1. [outpoint |-> x, output |-> u.utxos[x].output, height |-> u.utxos[x].height]
             \in IntoSet(u)
      BY DEF IntoSet
    <3> QED BY <1>2, <3>1
  <2> QED BY <1>4, <2>1
<1>9. PICK h : LoadRun(h, m)
  BY <1>6, UtxosLoadRun DEF seq
<1>10. /\ h[0] = NewUtxoSet(m.strict) /\ h[n] = UtxosFromProto(m)
       /\ \A k \in 1..n : h[k] = InsertOutpoint(h[k - 1], o(k), seq[k].output, seq[k].height)
  BY <1>9 DEF LoadRun, seq, n
<1> DEFINE P == {k \in 0..n : Kept(h[k], k)}
<1>11. 0 \in P
  <2>1. Upto(0) = {}
    OBVIOUS
  <2>2. /\ Sound(NewUtxoSet(m.strict)) /\ NewUtxoSet(m.strict).strict = m.strict
        /\ DOMAIN NewUtxoSet(m.strict).utxos = {}
    <3>1. DOMAIN <<>> = {}
      OBVIOUS
    <3>2. NewUtxoSet(m.strict) \in UtxoState
      BY <1>6, NewType
    <3> QED BY <3>1, <3>2 DEF Sound, NewUtxoSet, IndexMatches
  <2>3. 0 \in 0..n
    BY <1>2
  <2> HIDE DEF Upto
  <2> QED BY <1>1, <1>10, <2>1, <2>2, <2>3
<1> HIDE DEF o
<1>12. ASSUME NEW k \in 1..n, k - 1 \in P PROVE k \in P
  <2> DEFINE w == h[k - 1]
             out == seq[k].output
             height == seq[k].height
             x == o(k)
  <2>1. Kept(w, k - 1)
    BY <1>12
  <2>2. k \in 0..n /\ Upto(k) = Upto(k - 1) \cup {x}
    <3>1. 1..k = 1..(k - 1) \cup {k} /\ k \in 0..n
      BY <1>2
    <3> QED BY <3>1
  <2>3. x \notin Upto(k - 1)
    <3>1. \A i \in 1..(k - 1) : i \in 1..n /\ i # k
      BY <1>2
    <3> QED BY <1>7, <3>1
  <2>4. /\ x \in OutPoint /\ out \in Output /\ height \in Nat /\ out = u.utxos[x].output
        /\ u.utxos[x] = [output |-> out, height |-> height] /\ x \in DOMAIN u.utxos
    BY <1>4, <1>5
  <2>5. h[k] = InsertOutpoint(w, x, out, height)
    BY <1>10
  <2> HIDE DEF w, x, out, height, Upto
  <2>6. NewlyFits(w, x, out)
    <3>1. x[1] \in DuplicateTxIds => out.address = NoAddress
      BY <2>4, SoundFacts
    <3> QED BY <2>1, <2>3, <3>1 DEF NewlyFits
  <2>7. /\ Sound(h[k]) /\ h[k].strict = w.strict
        /\ h[k].utxos = Bind(w.utxos, x, [output |-> out, height |-> height])
    BY <2>1, <2>4, <2>5, <2>6, InsertOutpointSound
  <2>8. /\ DOMAIN h[k].utxos = DOMAIN w.utxos \cup {x}
        /\ h[k].utxos[x] = u.utxos[x]
        /\ \A y \in DOMAIN w.utxos : y # x => h[k].utxos[y] = w.utxos[y]
    BY <2>4, <2>7 DEF Bind
  <2> QED BY <2>1, <2>2, <2>7, <2>8
<1>13. Kept(h[n], n)
  <2> HIDE DEF P, Kept, Upto
  <2>1. \A k \in 0..n : k \in P
    BY <1>2, <1>11, <1>12, Induct
  <2> QED BY <1>2, <2>1 DEF P
<1> DEFINE v == UtxosFromProto(m)
<1>14. Sound(v) /\ v.strict = u.strict /\ DOMAIN v.utxos = DOMAIN u.utxos
       /\ \A x \in DOMAIN u.utxos : v.utxos[x] = u.utxos[x]
  <2> HIDE DEF Upto
  <2> QED BY <1>8, <1>10, <1>13
<1>15. v.utxos = u.utxos
  <2> HIDE DEF v
  <2>1. v.utxos \in [DOMAIN v.utxos -> Entry] /\ u.utxos \in [DOMAIN u.utxos -> Entry]
    BY <1>14, MapFacts DEF Sound
  <2> QED BY <1>14, <2>1
<1> QED BY <1>14, <1>15

\* A state that is read from a file stands for the chain that the state which was
\* saved stood for, and has its forest.
LEMMA LoadedState ==
    ASSUME NEW s, NEW chain, Consistent(s, chain), NEW m \in StateToProto(s)
    PROVE  LET t == StateFromProto(m) IN
           /\ Consistent(t, chain)
           /\ t.latest_stable_block_hash = s.latest_stable_block_hash
           /\ t.unstable_blocks = s.unstable_blocks
<1> DEFINE t == StateFromProto(m)
<1>1. /\ m.height = s.height /\ m.latest_stable_block_hash = s.latest_stable_block_hash
      /\ m.utxos \in UtxosToProto(s.utxos)
      /\ m.unstable_blocks = ForestToProto(s.unstable_blocks)
  BY DEF StateToProto
<1>2. /\ chain \in Seq(Blocks) /\ Sound(s.utxos) /\ s.unstable_blocks \in Seq(Linked)
      /\ IsReplay(s.utxos, chain, TxPlaces(chain), At, AnyAddress)
  BY ValidLine DEF Consistent, IsReplay
<1>3. IsFiniteSet(IntoSet(s.utxos))
  BY <1>2, ReplayFinite
<1> DEFINE v == UtxosFromProto(m.utxos)
<1>4. Sound(v) /\ v.utxos = s.utxos.utxos /\ v.strict = s.utxos.strict
  BY <1>1, <1>2, <1>3, LoadedUtxos
<1>5. t = [height |-> s.height, latest_stable_block_hash |-> s.latest_stable_block_hash,
           utxos |-> v, unstable_blocks |-> s.unstable_blocks]
  BY <1>1, <1>2, LoadedForest DEF StateFromProto
<1> HIDE DEF v, t
<1>6. IsReplay(v, chain, TxPlaces(chain), At, AnyAddress)
  BY <1>2, <1>4 DEF IsReplay
<1>7. /\ IsState(t)
      /\ DOMAIN t = {"height", "latest_stable_block_hash", "utxos", "unstable_blocks"}
      /\ t.height = s.height /\ t.latest_stable_block_hash = s.latest_stable_block_hash
      /\ t.utxos = v /\ t.unstable_blocks = s.unstable_blocks
  BY <1>5 DEF IsState
<1>8. Consistent(t, chain)
  BY <1>4, <1>6, <1>7 DEF Consistent
<1> QED BY <1>7, <1>8 DEF t

-----------------------------------------------------------------------------
\* What a request names

\* The forest that a request describes: with a block it holds, or with the
\* anchor, it holds whatever was delivered that follows.  Blocks of a dropped
\* fork are not in it, and a block that comes later and follows one of them is,
\* in a detached tree.
Closed(trees, a, blocks) ==
    /\ Gathered(trees, a, blocks)
    /\ \A d \in blocks : Prev[d] \in GetBlocks(trees) \cup {a} => d \in GetBlocks(trees)

\* A block that is new takes no delivered block with it.
LEMMA ClosedPush ==
    ASSUME NEW trees, NEW a, NEW blocks, Closed(trees, a, blocks),
           NEW b \in Blocks \ blocks, Prev[b] \in blocks
    PROVE  Closed(Push(trees, b), a, blocks \cup {b})
<1>1. Gathered(trees, a, blocks) /\ trees \in Seq(Linked) /\ b \notin GetBlocks(trees)
      /\ Single(trees)
  BY DEF Closed, Gathered
<1>2. GetBlocks(Push(trees, b)) = GetBlocks(trees) \cup {b}
  BY <1>1, PushBlocks
<1>3. Gathered(Push(trees, b), a, blocks \cup {b})
  BY <1>1, GatheredPush
<1>4. \A d \in blocks : Prev[d] # b
  BY BlocksAssumption DEF Closed, Gathered
<1> QED BY <1>2, <1>3, <1>4 DEF Closed

\* A popped block takes whole trees with it, which are attached to the anchor:
\* what follows a block that stays, stays.
LEMMA ClosedPop ==
    ASSUME NEW trees, NEW a, NEW blocks, Closed(trees, a, blocks)
    PROVE  LET popped == Pop(trees, a) IN
           Closed(popped.trees, IF popped.block = NoBlock THEN a ELSE popped.block, blocks)
<1> DEFINE popped == Pop(trees, a)
           new == popped.trees
           p == popped.block
           anchor == IF p = NoBlock THEN a ELSE p
<1>1. /\ Gathered(trees, a, blocks) /\ trees \in Seq(Linked) /\ a \in Blocks
      /\ blocks \in SUBSET Blocks /\ GetBlocks(trees) \subseteq blocks \ {a}
      /\ \A d \in blocks : Prev[d] \in GetBlocks(trees) \cup {a} => d \in GetBlocks(trees)
  BY DEF Closed, Gathered
<1>2. Gathered(new, anchor, blocks)
  BY <1>1, GatheredPop
<1>3. /\ GetBlocks(new) \subseteq GetBlocks(trees)
      /\ p = NoBlock => GetBlocks(trees) \subseteq GetBlocks(new)
      /\ p # NoBlock => p \in Blocks /\ Prev[p] = a
      /\ p # NoBlock => \E i \in DOMAIN trees : PopsRoot(trees, a, i)
  BY <1>1, PopLinked, PopBlocks
<1>4. p # NoBlock =>
         \A k \in DOMAIN new :
            \/ Attached(new[k], p)
            \/ \E i \in DOMAIN trees : new[k] = trees[i] /\ ~Attached(trees[i], a)
  BY <1>1, PopInOrder
<1>5. CASE p = NoBlock
  <2> HIDE DEF new, p
  <2> QED BY <1>1, <1>2, <1>3, <1>5 DEF Closed, new, p
<1>6. CASE p # NoBlock
  <2>1. PICK l \in DOMAIN trees : PopsRoot(trees, a, l)
    BY <1>3, <1>6
  <2>2. \A j \in DOMAIN trees : \A n \in trees[j] :
           \/ n.block \in GetBlocks(new)
           \/ Attached(trees[j], a)
           \/ n.block = p
    BY <2>1 DEF PopsRoot
  <2> HIDE DEF new, p
  <2>3. p \in Blocks /\ Prev[p] = a /\ a # NoBlock /\ p # NoBlock
    BY <1>1, <1>3, <1>6, BlocksAssumption
  <2>4. new \in Seq(Linked) /\ Gathered(new, p, blocks)
    BY <1>2, <1>6 DEF Gathered
  <2>5. ASSUME NEW d \in blocks, Descends(d, p) PROVE d \in GetBlocks(new)
    BY <2>4, <2>5, InForest DEF Gathered
  <2>6. ASSUME NEW k \in DOMAIN new, Attached(new[k], p), NEW d \in blocks,
               Prev[d] \in BlocksOf(new[k])
        PROVE  Descends(d, p)
    <3>1. PICK n \in new[k] : n.block = Prev[d]
      BY <2>6 DEF BlocksOf
    <3>2. new[k] \in Linked /\ d \in Blocks
      BY <1>1, <2>4, ElementOfSeq, LenProperties
    <3> DEFINE r == Root(new[k])
               c == Prev[d]
    <3>3. c \in Blocks /\ r \in ToSet(Line[c])
      BY <3>1, <3>2, RootOnLine
    <3>4. r \in Blocks /\ Prev[r] = p
      BY <2>6, <3>3, OnLine DEF Attached
    <3> HIDE DEF r
    <3>5. Descends(c, p)
      <4>1. CASE c = r
        BY <2>3, <3>4, <4>1, DescendsStep
      <4>2. CASE c # r
        BY <2>3, <3>3, <3>4, <4>2, DescendsFurther DEF Descends
      <4> QED BY <4>1, <4>2
    <3>6. c # NoBlock
      BY <3>3, BlocksAssumption
    <3> QED BY <2>3, <3>2, <3>5, <3>6, DescendsStep
  <2>7. ASSUME NEW i \in DOMAIN trees, ~Attached(trees[i], a), NEW d \in blocks,
               Prev[d] \in BlocksOf(trees[i])
        PROVE  d \in GetBlocks(new)
    <3>1. Prev[d] \in GetBlocks(trees)
      BY <2>7, InForest
    <3>2. d \in GetBlocks(trees) /\ d \in Blocks
      BY <1>1, <3>1
    <3>3. PICK j \in DOMAIN trees : d \in BlocksOf(trees[j])
      BY <3>2, InForest
    <3>4. PICK n \in trees[j] : n.block = d
      BY <3>3 DEF BlocksOf
    <3>5. d # p
      BY <1>1, <2>3, <3>1
    <3>6. ~Attached(trees[j], a)
      <4>1. SUFFICES ASSUME Attached(trees[j], a) PROVE FALSE
        OBVIOUS
      <4> DEFINE r == Root(trees[j])
      <4>2. trees[j] \in Linked
        BY <1>1, ElementOfSeq, LenProperties
      <4>3. r \in ToSet(Line[d])
        BY <3>4, <4>2, RootOnLine
      <4>4. r \in Blocks /\ Prev[r] = a
        BY <3>2, <4>1, <4>3, OnLine DEF Attached
      <4> HIDE DEF r
      <4>5. Descends(d, a)
        <5>1. CASE d = r
          BY <1>1, <2>3, <4>4, <5>1, DescendsStep
        <5>2. CASE d # r
          BY <1>1, <3>2, <4>3, <4>4, <5>2, DescendsFurther DEF Descends
        <5> QED BY <5>1, <5>2
      <4>6. Prev[d] # a
        BY <1>1, <3>1
      <4>7. Descends(Prev[d], a)
        BY <1>1, <3>2, <4>5, <4>6, DescendsStep
      <4> QED BY <1>1, <2>7, <4>7, GatheredPlace
    <3> QED BY <2>2, <3>4, <3>5, <3>6
  <2>8. ASSUME NEW d \in blocks, Prev[d] \in GetBlocks(new) \cup {p} PROVE d \in GetBlocks(new)
    <3>1. CASE Prev[d] = p
      BY <1>1, <2>3, <2>5, <3>1, DescendsStep
    <3>2. CASE Prev[d] \in GetBlocks(new)
      <4>1. PICK k \in DOMAIN new : Prev[d] \in BlocksOf(new[k])
        BY <3>2, InForest
      <4> QED BY <1>4, <1>6, <2>5, <2>6, <2>7, <4>1
    <3> QED BY <2>8, <3>1, <3>2
  <2> QED BY <1>6, <2>4, <2>8 DEF Closed, new, p
<1> QED BY <1>5, <1>6

\* insert_block of a new block that follows a delivered one keeps the state
\* described, and makes a block stable only by the definition.
LEMMA InsertClosed ==
    ASSUME NEW s, NEW chain, Consistent(s, chain),
           NEW blocks, Closed(s.unstable_blocks, s.latest_stable_block_hash, blocks),
           NEW b \in Blocks \ blocks, Prev[b] \in blocks
    PROVE  LET after == Insert(s, b)
               new == StableAfter(chain, s, after)
           IN  /\ Closed(after.unstable_blocks, after.latest_stable_block_hash, blocks \cup {b})
               /\ \/ new = chain
                  \/ \E p \in Blocks : /\ new = Append(chain, p)
                                       /\ DefinitionOfStable(blocks \cup {b}, p)
<1> DEFINE after == Insert(s, b)
           new == StableAfter(chain, s, after)
           trees == Push(s.unstable_blocks, b)
           anchor == s.latest_stable_block_hash
           popped == Pop(trees, anchor)
           p == popped.block
<1>1. /\ Gathered(trees, anchor, blocks \cup {b})
      /\ after.unstable_blocks = popped.trees
      /\ after.latest_stable_block_hash = IF p = NoBlock THEN anchor ELSE p
      /\ new = IF p = NoBlock THEN chain ELSE Append(chain, p)
  BY InsertGathered DEF Closed
<1>2. Closed(trees, anchor, blocks \cup {b})
  BY ClosedPush
<1> HIDE DEF trees, after, new
<1>3. Closed(popped.trees, IF p = NoBlock THEN anchor ELSE p, blocks \cup {b})
  BY <1>2, ClosedPop
<1>4. Closed(after.unstable_blocks, after.latest_stable_block_hash, blocks \cup {b})
  <2> HIDE DEF popped, p
  <2> QED BY <1>1, <1>3
<1>5. p # NoBlock => p \in Blocks /\ DefinitionOfStable(blocks \cup {b}, p)
  BY <1>1, PoppedByDefinition, PopLinked DEF Gathered
<1> HIDE DEF popped, p
<1> QED BY <1>1, <1>4, <1>5 DEF after, new

-----------------------------------------------------------------------------
\* The answer to a request

\* What the task asks for: the blocks of the forest, and the anchor.
Asked == GetBlocks(state.unstable_blocks) \cup {Anchor}

LEMMA AskedTyped ==
    ASSUME Consistent(state, stable)
    PROVE  Asked \subseteq Blocks /\ Asked # {}
<1>1. state.unstable_blocks \in Seq(Linked) /\ Anchor \in Blocks
  BY DEF Consistent, Anchor
<1>2. \A t \in Linked : \A n \in t : n.block \in Blocks
  BY DEF Linked, Tree, Node
<1>3. \A i \in DOMAIN state.unstable_blocks : state.unstable_blocks[i] \in Linked
  BY <1>1, ElementOfSeq, LenProperties
<1> QED BY <1>1, <1>2, <1>3 DEF GetBlocks, Asked

LEMMA FirstOfPrefix ==
    ASSUME NEW bs \in Seq(Blocks), NEW k \in 0..Len(bs)
    PROVE  ToSet(SubSeq(bs, 1, k)) = FirstOf(bs, k)
<1>1. Len(bs) \in Nat /\ DOMAIN bs = 1..Len(bs)
  BY LenProperties
<1>2. /\ Len(SubSeq(bs, 1, k)) = k
      /\ \A i \in 1..k : SubSeq(bs, 1, k)[i] = bs[i]
  BY <1>1
<1>3. DOMAIN SubSeq(bs, 1, k) = 1..k
  BY <1>1
<1> QED BY <1>2, <1>3 DEF ToSet, FirstOf

LEMMA AnswerFacts ==
    ASSUME NEW hashes, available \subseteq Blocks, NEW bs \in Answers(hashes)
    PROVE  /\ bs \in Seq(Blocks)
           /\ \A k \in 1..Len(bs) :
                 /\ bs[k] \in Blocks /\ bs[k] \notin hashes
                 /\ Prev[bs[k]] \in hashes \cup FirstOf(bs, k - 1)
                 /\ bs[k] \notin FirstOf(bs, k - 1)
<1>1. bs \in BoundedSeq(available \ hashes, MaxResponse)
  BY DEF Answers
<1>2. PICK m \in 0..MaxResponse : bs \in [1..m -> available \ hashes]
  BY <1>1 DEF BoundedSeq, SeqOf
<1>3. m \in Nat
  BY AdapterAssumption
<1>4. bs \in Seq(Blocks) /\ Len(bs) = m /\ DOMAIN bs = 1..m
  <2>1. bs \in [1..m -> Blocks]
    BY <1>2
  <2> QED BY <1>3, <2>1, SeqDef
<1>5. ASSUME NEW k \in 1..Len(bs)
      PROVE  /\ Prev[bs[k]] \in hashes \cup FirstOf(bs, k - 1)
             /\ bs[k] \notin FirstOf(bs, k - 1)
  <2>1. k - 1 \in 0..Len(bs) /\ k \in DOMAIN bs
    BY <1>3, <1>4
  <2>2. ToSet(SubSeq(bs, 1, k - 1)) = FirstOf(bs, k - 1)
    BY <1>4, <2>1, FirstOfPrefix
  <2> QED BY <2>1, <2>2 DEF Answers
<1> QED BY <1>2, <1>4, <1>5

\* No block of an answer to such a request was delivered before, and each follows
\* one that was, or one before it in the answer.
AnswerFollows(bs, blocks) ==
    \A k \in 1..Len(bs) :
        /\ bs[k] \in Blocks \ (blocks \cup FirstOf(bs, k - 1))
        /\ Prev[bs[k]] \in blocks \cup FirstOf(bs, k - 1)

LEMMA AnswerIsNew ==
    ASSUME Closed(state.unstable_blocks, Anchor, delivered), available \subseteq Blocks,
           NEW bs \in Answers(Asked)
    PROVE  bs \in Seq(Blocks) /\ AnswerFollows(bs, delivered)
<1> DEFINE n == Len(bs)
           P == {k \in 0..n : \A j \in 1..k : bs[j] \notin delivered}
<1>1. /\ bs \in Seq(Blocks) /\ n \in Nat
      /\ \A k \in 1..n :
            /\ bs[k] \in Blocks /\ bs[k] \notin Asked
            /\ Prev[bs[k]] \in Asked \cup FirstOf(bs, k - 1)
            /\ bs[k] \notin FirstOf(bs, k - 1)
  BY AnswerFacts, LenProperties
<1>2. Asked \subseteq delivered
  BY DEF Closed, Gathered, Asked
<1>3. \A d \in delivered : /\ Prev[d] \in Asked => d \in Asked
                           /\ Prev[d] # NoBlock => Prev[d] \in delivered
  BY DEF Closed, Gathered, Asked
<1> HIDE DEF n
<1>4. 0 \in P
  BY <1>1
<1>5. ASSUME NEW k \in 1..n, k - 1 \in P PROVE k \in P
  <2>1. k \in 0..n /\ k - 1 \in 0..n /\ \A j \in 1..k : j \in 1..(k - 1) \/ j = k
    BY <1>1
  <2>2. \A j \in 1..(k - 1) : bs[j] \notin delivered
    BY <1>5
  <2>3. bs[k] \notin delivered
    <3>1. SUFFICES ASSUME bs[k] \in delivered PROVE FALSE
      OBVIOUS
    <3>2. Prev[bs[k]] \in FirstOf(bs, k - 1)
      BY <1>1, <1>3, <3>1
    <3>3. PICK j \in 1..(k - 1) : Prev[bs[k]] = bs[j]
      BY <3>2 DEF FirstOf
    <3>4. j \in 1..n
      BY <1>1
    <3>5. bs[j] \in Blocks /\ bs[j] # NoBlock
      BY <1>1, <3>4, BlocksAssumption
    <3> QED BY <1>3, <2>2, <3>1, <3>3, <3>5
  <2> QED BY <2>1, <2>2, <2>3
<1>6. \A k \in 1..n : bs[k] \notin delivered
  <2>1. \A k \in 0..n : k \in P
    <3> HIDE DEF P
    <3> QED BY <1>1, <1>4, <1>5, Induct
  <2>2. n \in 0..n
    BY <1>1
  <2> QED BY <2>1, <2>2
<1> QED BY <1>1, <1>2, <1>6 DEF AnswerFollows, n

\* What has become stable since chain, by what the first k blocks of an answer add
\* to those that were delivered.
StableSince(new, chain, bs, blocks, k) ==
    /\ Len(chain) <= Len(new)
    /\ \A i \in (Len(chain) + 1)..Len(new) : \E l \in 1..k :
          DefinitionOfStable(blocks \cup FirstOf(bs, l), new[i])

\* Inserting the blocks of an answer, one after the other: each is inserted in
\* order.
LEMMA AnswerRun ==
    ASSUME Consistent(state, stable), Closed(state.unstable_blocks, Anchor, delivered),
           NEW bs \in Seq(Blocks), AnswerFollows(bs, delivered)
    PROVE  LET after == InsertAll(bs) IN
           /\ ~Traps(after.state) /\ Consistent(after.state, after.stable)
           /\ Closed(after.state.unstable_blocks, after.state.latest_stable_block_hash,
                     delivered \cup FirstOf(bs, Len(bs)))
           /\ StableSince(after.stable, stable, bs, delivered, Len(bs))
<1> DEFINE n == Len(bs)
           seen(k) == delivered \cup FirstOf(bs, k)
           Fine(r, k) == /\ Closed(r.state.unstable_blocks, r.state.latest_stable_block_hash, seen(k))
                         /\ StableSince(r.stable, stable, bs, delivered, k)
<1>1. PICK h : InsertRun(h, bs)
  BY InsertAllRun
<1>2. /\ h \in [0..n -> Standing]
      /\ h[0] = [state |-> state, stable |-> stable] /\ h[n] = InsertAll(bs)
      /\ \A k \in 1..n : h[k] = InsertNext(h[k - 1], bs[k])
      /\ n \in Nat
  BY <1>1, LenProperties DEF InsertRun
<1>3. \A k \in 1..n : /\ bs[k] \in Blocks \ seen(k - 1) /\ Prev[bs[k]] \in seen(k - 1)
  BY DEF AnswerFollows
<1>4. \A k \in 1..n : k \in 0..n /\ k - 1 \in 0..n /\ FirstOf(bs, k) = FirstOf(bs, k - 1) \cup {bs[k]}
  <2>1. ASSUME NEW k \in 1..n PROVE k \in 0..n /\ k - 1 \in 0..n /\ 1..k = 1..(k - 1) \cup {k}
    BY <1>2
  <2> QED BY <2>1 DEF FirstOf
<1> HIDE DEF n
<1> DEFINE P == {k \in 0..n : Fine(h[k], k)}
<1>5. 0 \in P
  <2>1. FirstOf(bs, 0) = {}
    BY DEF FirstOf
  <2>2. Closed(state.unstable_blocks, state.latest_stable_block_hash, seen(0))
    BY <2>1 DEF Anchor
  <2>3. StableSince(stable, stable, bs, delivered, 0)
    <3>1. Len(stable) \in Nat
      BY ValidLine DEF Consistent
    <3> QED BY <3>1 DEF StableSince
  <2> HIDE DEF seen
  <2> QED BY <1>2, <2>2, <2>3
<1>6. ASSUME NEW k \in 1..n, k - 1 \in P PROVE k \in P
  <2> DEFINE r == h[k - 1]
             s == r.state
             chain == r.stable
             b == bs[k]
             old == seen(k - 1)
             after == Insert(s, b)
             new == StableAfter(chain, s, after)
  <2>1. Fine(r, k - 1) /\ r \in Standing
    BY <1>2, <1>4, <1>6
  <2>2. Consistent(s, chain) /\ chain \in Seq(Blocks) /\ Len(chain) \in Nat
    BY <2>1, ValidLine DEF Standing, Consistent
  <2>3. h[k] = [state |-> after, stable |-> new]
    BY <1>2 DEF InsertNext
  <2>4. b \in Blocks \ old /\ Prev[b] \in old /\ seen(k) = old \cup {b}
    BY <1>3, <1>4
  <2>5. Closed(s.unstable_blocks, s.latest_stable_block_hash, old)
    BY <2>1
  <2> HIDE DEF old, seen, b, r, s, chain
  <2>6. /\ Closed(after.unstable_blocks, after.latest_stable_block_hash, old \cup {b})
        /\ \/ new = chain
           \/ \E p \in Blocks : /\ new = Append(chain, p)
                                /\ DefinitionOfStable(old \cup {b}, p)
    BY <2>2, <2>4, <2>5, InsertClosed
  <2> HIDE DEF after, new
  <2>7. StableSince(chain, stable, bs, delivered, k - 1)
    BY <2>1 DEF chain, r
  <2>8. StableSince(new, stable, bs, delivered, k)
    <3>1. \A l \in 1..(k - 1) : l \in 1..k
      BY <1>2
    <3>2. CASE new = chain
      BY <2>7, <3>1, <3>2 DEF StableSince
    <3>3. ASSUME NEW p \in Blocks, new = Append(chain, p), DefinitionOfStable(seen(k), p)
          PROVE  StableSince(new, stable, bs, delivered, k)
      <4>1. /\ Len(new) = Len(chain) + 1 /\ new[Len(chain) + 1] = p
            /\ \A i \in 1..Len(chain) : new[i] = chain[i]
        BY <2>2, <3>3, AppendProperties
      <4>2. Len(stable) \in Nat
        BY ValidLine DEF Consistent
      <4>3. Len(stable) <= Len(chain) /\ k \in 1..k
        BY <1>2, <2>7 DEF StableSince
      <4>4. ASSUME NEW i \in (Len(stable) + 1)..Len(new)
            PROVE  \E l \in 1..k : DefinitionOfStable(delivered \cup FirstOf(bs, l), new[i])
        <5>1. CASE i = Len(chain) + 1
          BY <3>3, <4>1, <4>3, <5>1 DEF seen
        <5>2. CASE i # Len(chain) + 1
          <6>1. i \in (Len(stable) + 1)..Len(chain) /\ i \in 1..Len(chain)
            BY <2>2, <4>1, <4>2, <5>2
          <6> QED BY <2>7, <3>1, <4>1, <6>1 DEF StableSince
        <5> QED BY <5>1, <5>2
      <4>5. Len(stable) <= Len(new)
        BY <2>2, <4>1, <4>2, <4>3
      <4> QED BY <4>4, <4>5 DEF StableSince
    <3> QED BY <2>4, <2>6, <3>2, <3>3
  <2>9. Fine(h[k], k)
    BY <2>3, <2>4, <2>6, <2>8
  <2> QED BY <1>4, <2>9
<1>7. Fine(h[n], n) /\ h[n] \in Standing
  <2> HIDE DEF P, Fine
  <2>1. \A k \in 0..n : k \in P
    BY <1>2, <1>5, <1>6, Induct
  <2>2. n \in 0..n
    BY <1>2
  <2> QED BY <1>2, <2>1, <2>2 DEF P
<1> HIDE DEF Fine
<1>8. ~Traps(InsertAll(bs).state) /\ Consistent(InsertAll(bs).state, InsertAll(bs).stable)
  <2>1. Consistent(InsertAll(bs).state, InsertAll(bs).stable)
    BY <1>2, <1>7 DEF Standing
  <2> QED BY <2>1 DEF Traps, Consistent, IsReplay, Sound
<1> QED BY <1>2, <1>7, <1>8 DEF Fine, n

-----------------------------------------------------------------------------
\* The invariant

\* A state that stands for a chain and describes what was delivered.
Described(s, chain, blocks) ==
    /\ Consistent(s, chain)
    /\ Closed(s.unstable_blocks, s.latest_stable_block_hash, blocks)

ProcessInv ==
    /\ Described(state, stable, delivered)
    /\ available \subseteq Blocks
    /\ starts \in 0..MaxStarts /\ task \in Tasks

\* Between two steps of the task the state does not change: the request is what
\* it would ask for now, and the answer is one to that.
TaskInv ==
    /\ request = IF task = "await" THEN Asked ELSE {}
    /\ IF task = "insert" THEN answer \in Answers(Asked) ELSE answer = <<>>

FileInv ==
    file.complete =>
        Described(StateFromProto(file.message), file.stable, file.delivered)

SavingInv == saving \in BOOLEAN /\ (saving => Running /\ ~file.complete)

SyncInv == ProcessInv /\ TaskInv /\ FileInv /\ SavingInv

LEMMA NewStateDescribed == Described(NewState, <<Genesis>>, {Genesis})
<1> DEFINE s == NewState
<1>1. Consistent(s, <<Genesis>>)
  BY NewStateConsistent
<1>2. s.unstable_blocks = <<>> /\ s.latest_stable_block_hash = Genesis
  BY DEF NewState, EmptyForest
<1> HIDE DEF s
<1>3. DOMAIN s.unstable_blocks = {} /\ s.unstable_blocks \in Seq(Linked)
  BY <1>2
<1>4. Single(s.unstable_blocks) /\ GetBlocks(s.unstable_blocks) = {}
  BY <1>3 DEF Single, GetBlocks
<1>5. Genesis \in Blocks /\ Prev[Genesis] = NoBlock /\ NoBlock # Genesis
  BY StateAssumption, BlocksAssumption
<1>6. Gathered(s.unstable_blocks, s.latest_stable_block_hash, {Genesis})
  BY <1>2, <1>3, <1>4, <1>5 DEF Gathered, Descends
<1>7. Closed(s.unstable_blocks, s.latest_stable_block_hash, {Genesis})
  BY <1>2, <1>4, <1>5, <1>6 DEF Closed
<1> QED BY <1>1, <1>7 DEF Described, s

LEMMA InitSyncInv == SyncInit => SyncInv
<1> SUFFICES ASSUME SyncInit PROVE SyncInv
  OBVIOUS
<1>1. /\ state = NewState /\ stable = <<Genesis>> /\ delivered = {Genesis}
      /\ available = Blocks /\ starts = 0 /\ task = "none"
      /\ request = {} /\ answer = <<>> /\ saving = FALSE /\ file = NoFile
  BY DEF SyncInit, Init
<1>2. ~file.complete
  BY <1>1 DEF NoFile
<1>3. ProcessInv
  BY <1>1, NewStateDescribed, SyncAssumption DEF ProcessInv, Tasks
<1> QED BY <1>1, <1>2, <1>3 DEF SyncInv, TaskInv, FileInv, SavingInv

\* The answer is inserted: no block of it traps, and what is left describes the
\* delivered blocks and those of the answer.
LEMMA InsertAnswerStands ==
    ASSUME SyncInv, InsertAnswer
    PROVE  /\ Described(state, stable, delivered)'
           /\ StableSince(stable', stable, answer, delivered, Len(answer))
           /\ answer \in Seq(Blocks)
<1>1. /\ Consistent(state, stable) /\ Closed(state.unstable_blocks, Anchor, delivered)
      /\ available \subseteq Blocks
  BY DEF SyncInv, ProcessInv, Described, Anchor
<1>2. answer \in Answers(Asked)
  BY DEF SyncInv, TaskInv, InsertAnswer
<1>3. answer \in Seq(Blocks) /\ AnswerFollows(answer, delivered)
  BY <1>1, <1>2, AnswerIsNew
<1> DEFINE after == InsertAll(answer)
<1>4. /\ ~Traps(after.state) /\ Consistent(after.state, after.stable)
      /\ Closed(after.state.unstable_blocks, after.state.latest_stable_block_hash,
                delivered \cup FirstOf(answer, Len(answer)))
      /\ StableSince(after.stable, stable, answer, delivered, Len(answer))
  BY <1>1, <1>3, AnswerRun
<1> HIDE DEF after
<1>5. /\ state' = after.state /\ stable' = after.stable
      /\ delivered' = delivered \cup ToSet(answer)
  BY DEF InsertAnswer, after
<1>6. ToSet(answer) = FirstOf(answer, Len(answer))
  BY <1>3, LenProperties DEF ToSet, FirstOf
<1> QED BY <1>3, <1>4, <1>5, <1>6 DEF Described

\* Reading back what save writes.
LEMMA SavedIsDescribed ==
    ASSUME NEW s, NEW chain, NEW blocks, Described(s, chain, blocks), NEW m \in StateToProto(s)
    PROVE  Described(StateFromProto(m), chain, blocks)
BY LoadedState DEF Described

LEMMA NextSyncInv == SyncInv /\ [SyncNext]_syncVars => SyncInv'
<1> SUFFICES ASSUME SyncInv, [SyncNext]_syncVars PROVE SyncInv'
  OBVIOUS
<1> USE DEF SyncInv
<1>1. ASSUME UNCHANGED vars
      PROVE  Described(state, stable, delivered)' /\ Asked' = Asked
  BY <1>1 DEF ProcessInv, vars, Asked, Anchor
<1>2. ASSUME UNCHANGED available PROVE \A hashes : Answers(hashes)' = Answers(hashes)
  BY <1>2 DEF Answers
<1>3. ASSUME UNCHANGED <<vars, available, file>>,
             starts' \in 0..MaxStarts, task' \in Tasks, TaskInv', SavingInv'
      PROVE  SyncInv'
  BY <1>1, <1>3 DEF ProcessInv, FileInv
<1>4. CASE Start
  <2>1. starts' \in 0..MaxStarts
    BY <1>4, SyncAssumption DEF Start, ProcessInv
  <2>2. TaskInv' /\ SavingInv' /\ task' \in Tasks
    BY <1>4 DEF Start, TaskInv, SavingInv, Running, Tasks
  <2> QED BY <1>3, <1>4, <2>1, <2>2 DEF Start
<1>5. CASE StartFromFile
  <2>1. starts' \in 0..MaxStarts
    BY <1>5, SyncAssumption DEF StartFromFile, ProcessInv
  <2>2. TaskInv' /\ SavingInv' /\ FileInv' /\ task' \in Tasks
    BY <1>5 DEF StartFromFile, TaskInv, SavingInv, FileInv, Running, Tasks
  <2>3. Described(state, stable, delivered)'
    BY <1>5 DEF StartFromFile, FileInv
  <2> QED BY <1>5, <2>1, <2>2, <2>3 DEF StartFromFile, ProcessInv
<1>6. CASE ConnectStep
  <2>1. TaskInv' /\ SavingInv' /\ task' \in Tasks
    BY <1>6 DEF ConnectStep, Connect, ConnectFails, TaskInv, SavingInv, Running, Tasks
  <2>2. starts' \in 0..MaxStarts /\ UNCHANGED <<vars, available, file>>
    BY <1>6 DEF ConnectStep, Connect, ConnectFails, ProcessInv
  <2> QED BY <1>3, <2>1, <2>2
<1>7. CASE Ask
  <2>1. UNCHANGED vars /\ request' = Asked
    BY <1>7 DEF Ask, Asked
  <2>2. TaskInv' /\ SavingInv' /\ task' \in Tasks
    BY <1>1, <1>7, <2>1 DEF Ask, TaskInv, SavingInv, Running, Tasks
  <2>3. starts' \in 0..MaxStarts /\ UNCHANGED <<vars, available, file>>
    BY <1>7 DEF Ask, ProcessInv
  <2> QED BY <1>3, <2>2, <2>3
<1>8. CASE AdapterFails
  <2>1. TaskInv' /\ SavingInv' /\ task' \in Tasks
    BY <1>8 DEF AdapterFails, TaskInv, SavingInv, Running, Tasks
  <2>2. starts' \in 0..MaxStarts /\ UNCHANGED <<vars, available, file>>
    BY <1>8 DEF AdapterFails, ProcessInv
  <2> QED BY <1>3, <2>1, <2>2
<1>9. ASSUME NEW bs \in Answers(request), AdapterAnswers(bs) PROVE SyncInv'
  <2>1. request = Asked /\ bs \in Answers(Asked)
    BY <1>9 DEF AdapterAnswers, TaskInv
  <2>2. UNCHANGED <<vars, available, file>> /\ starts' \in 0..MaxStarts
    BY <1>9 DEF AdapterAnswers, ProcessInv
  <2>3. answer' = bs /\ answer' \in Answers(Asked)'
    BY <1>1, <1>2, <1>9, <2>1, <2>2 DEF AdapterAnswers
  <2>4. TaskInv' /\ SavingInv' /\ task' \in Tasks
    BY <1>9, <2>3 DEF AdapterAnswers, TaskInv, SavingInv, Running, Tasks
  <2> QED BY <1>3, <2>2, <2>4
<1>10. CASE InsertAnswer
  <2>1. Described(state, stable, delivered)'
    BY <1>10, InsertAnswerStands
  <2>2. request = {} /\ UNCHANGED <<available, starts, request, saving, file>>
        /\ task' = "ask" /\ answer' = <<>>
    BY <1>10 DEF InsertAnswer, TaskInv
  <2>3. ProcessInv'
    BY <2>1, <2>2 DEF ProcessInv, Tasks
  <2>4. FileInv'
    BY <2>2 DEF FileInv
  <2> QED BY <2>2, <2>3, <2>4 DEF TaskInv, SavingInv, Running
<1>11. CASE SaveBegins
  <2>1. UNCHANGED <<vars, available, starts, task, request, answer>>
        /\ file' = NoFile /\ saving' = TRUE /\ Running
    BY <1>11 DEF SaveBegins
  <2>2. ~file'.complete
    BY <2>1 DEF NoFile
  <2>3. Asked' = Asked /\ Answers(Asked)' = Answers(Asked) /\ ProcessInv'
    BY <1>1, <1>2, <2>1 DEF ProcessInv
  <2>4. TaskInv' /\ SavingInv' /\ FileInv'
    BY <2>1, <2>2, <2>3 DEF TaskInv, SavingInv, FileInv, Running
  <2> QED BY <2>3, <2>4
<1>12. ASSUME NEW message \in StateToProto(state), SaveEnds(message) PROVE SyncInv'
  <2>1. UNCHANGED <<vars, available, starts, task, request, answer>>
        /\ file' = Written(message) /\ saving' = FALSE
    BY <1>12 DEF SaveEnds
  <2>2. file'.message = message /\ file'.stable = stable /\ file'.delivered = delivered
    BY <2>1 DEF Written
  <2>3. FileInv'
    BY <2>2, SavedIsDescribed DEF FileInv, ProcessInv
  <2>4. Asked' = Asked /\ Answers(Asked)' = Answers(Asked) /\ ProcessInv'
    BY <1>1, <1>2, <2>1 DEF ProcessInv
  <2> QED BY <2>1, <2>3, <2>4 DEF TaskInv, SavingInv
<1>13. CASE Kill
  <2>1. /\ state' = NewState /\ stable' = <<Genesis>> /\ delivered' = {Genesis}
        /\ task' = "none" /\ request' = {} /\ answer' = <<>> /\ saving' = FALSE
        /\ UNCHANGED <<available, starts, file>>
    BY <1>13 DEF Kill
  <2>2. ProcessInv'
    BY <2>1, NewStateDescribed DEF ProcessInv, Tasks
  <2> QED BY <2>1, <2>2 DEF TaskInv, FileInv, SavingInv
<1>14. CASE UNCHANGED syncVars
  <2>1. UNCHANGED <<vars, available, starts, task, request, answer, saving, file>>
    BY <1>14 DEF syncVars, processVars
  <2>2. Asked' = Asked /\ Answers(Asked)' = Answers(Asked) /\ ProcessInv'
    BY <1>1, <1>2, <2>1 DEF ProcessInv
  <2> QED BY <2>1, <2>2 DEF TaskInv, FileInv, SavingInv, Running
<1> QED BY <1>4, <1>5, <1>6, <1>7, <1>8, <1>9, <1>10, <1>11, <1>12, <1>13, <1>14
        DEF SyncNext, AdapterStep, SaveFinishes

\* Whoever starts, whenever it is killed and whatever it loads, the state of the
\* process and that of the file stand for the lines of their anchors and describe
\* the blocks they are made of.
THEOREM SyncStands == SyncSpec => []SyncInv
BY InitSyncInv, NextSyncInv, PTL DEF SyncSpec

-----------------------------------------------------------------------------
\* The properties

\* The type invariant of the process, its task and the file.
THEOREM SyncTypes == SyncSpec => []SyncTypeOK
<1>1. ASSUME SyncInv PROVE SyncTypeOK
  <2>1. /\ Consistent(state, stable) /\ delivered \in SUBSET Blocks
        /\ available \subseteq Blocks
    BY <1>1 DEF SyncInv, ProcessInv, Described, Closed, Gathered
  <2>2. Asked \subseteq Blocks /\ Asked # {}
    BY <2>1, AskedTyped
  <2>3. answer \in Seq(Blocks)
    <3>1. answer \in Answers(Asked) => answer \in Seq(Blocks)
      BY <2>1, AnswerFacts
    <3>2. <<>> \in Seq(Blocks)
      BY EmptySeq
    <3> QED BY <1>1, <3>1, <3>2 DEF SyncInv, TaskInv
  <2> QED BY <1>1, <2>1, <2>2, <2>3, ConsistentTypes
          DEF SyncTypeOK, SyncInv, ProcessInv, TaskInv, SavingInv
<1> QED BY <1>1, SyncStands, PTL

LEMMA StandsForChain == SyncInv => SInv
BY DEF SyncInv, ProcessInv, Described, Closed, Gathered, SInv

\* The state that a process keeps or loads: its UTXO set is the replay of the
\* stable chain, however many files it went through, its index agrees with it, and
\* no block that is still to come makes its insertion panic, which would end the
\* task and poison the lock.
THEOREM SyncSucceeds ==
    SyncSpec => [](UtxosAreReplay /\ IndexMatchesUtxos /\ NextInsertSucceeds)
<1>1. SyncInv => UtxosAreReplay /\ IndexMatchesUtxos /\ NextInsertSucceeds
  BY StandsForChain, ConsistentReplay, ConsistentIndex, ConsistentInserts
<1> QED BY <1>1, SyncStands, PTL

\* The commands "utxos" and "balance" show what the confirmed chain pays to the
\* address, at heights of the main chain.
THEOREM SyncViews == SyncSpec => [](ViewIsReplay /\ ReportedHeights)
<1>1. SyncInv => ViewIsReplay /\ ReportedHeights
  BY StandsForChain, ConsistentViews, ConsistentHeights
<1> QED BY <1>1, SyncStands, PTL

\* The current chain is what the longest chains of the blocks have in common that
\* the processes were given, the one that saved the file included.
THEOREM SyncChainLongest == SyncSpec => []CurrentChainIsLongest
<1>1. ASSUME SyncInv PROVE CurrentChainIsLongest
  <2>1. InOrderInv
    BY <1>1 DEF SyncInv, ProcessInv, Described, Closed, Gathered, SInv, InOrderInv, Anchor
  <2> QED BY <2>1, OrderIsLongest
<1> QED BY <1>1, SyncStands, PTL

\* A block becomes stable only by the definition at the head of blockforest.rs, with
\* the blocks that came by way of the file among those that count.
THEOREM StabilisesFromFile == SyncSpec => StabilisesAcrossStarts
<1>1. ASSUME SyncInv, InsertAnswer
      PROVE  \A i \in (Len(stable) + 1)..Len(stable') : \E k \in DOMAIN answer :
                DefinitionOfStable(delivered \cup ToSet(SubSeq(answer, 1, k)), stable'[i])
  <2>1. StableSince(stable', stable, answer, delivered, Len(answer)) /\ answer \in Seq(Blocks)
    BY <1>1, InsertAnswerStands
  <2>2. Len(answer) \in Nat /\ DOMAIN answer = 1..Len(answer)
    BY <2>1, LenProperties
  <2>3. ASSUME NEW k \in 1..Len(answer)
        PROVE  k \in DOMAIN answer /\ ToSet(SubSeq(answer, 1, k)) = FirstOf(answer, k)
    <3>1. k \in 0..Len(answer)
      BY <2>2
    <3> QED BY <2>1, <2>2, <3>1, FirstOfPrefix
  <2> QED BY <2>1, <2>3 DEF StableSince
<1>2. SyncInv /\ [SyncNext]_syncVars =>
         [InsertAnswer =>
             \A i \in (Len(stable) + 1)..Len(stable') : \E k \in DOMAIN answer :
                DefinitionOfStable(delivered \cup ToSet(SubSeq(answer, 1, k)),
                                   stable'[i])]_syncVars
  BY <1>1
<1> QED BY <1>2, SyncStands, PTL DEF SyncSpec, StabilisesAcrossStarts
=============================================================================
