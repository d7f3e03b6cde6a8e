------------------------- MODULE BitcoinStateProofs -------------------------
(***************************************************************************)
(* The chain state, proved for every set of blocks and transactions, every *)
(* delta and any order and repetition of deliveries.                       *)
(*                                                                         *)
(* The chain of stable blocks and the shape of the forest need nothing of  *)
(* the network: IInv is the chain part of the type invariant with          *)
(* StableChainLinked and TreesLinked.                                      *)
(*                                                                         *)
(* What the UTXO set holds does, and says that its operations succeed: the *)
(* invariant Consistent says that the state stands for the line of its     *)
(* anchor, and its UTXO set is what replaying the transactions of the line *)
(* leaves.  A replay is described up to any place of a chain, so that one  *)
(* more input, output, transaction or block is one more place.             *)
(*                                                                         *)
(* A view is a replay too: the current chain continues the line of the     *)
(* anchor, the part of the UTXO set that belongs to an address is the      *)
(* replay of the line for that address, and get_utxos goes on from there.  *)
(*                                                                         *)
(* Of deliveries in order, Gathered says that the forest holds each block  *)
(* once, and those above the anchor in attached trees.  The depth of such  *)
(* a tree and the chains read off it are then those that the delivered     *)
(* blocks define.                                                          *)
(***************************************************************************)
EXTENDS ChainProperties, ChainDataProofs

IInv == ChainTypeOK /\ StableChainLinked /\ TreesLinked

\* The forest part of the invariant, as membership in the set of vectors that
\* the lemmas about the forest speak of.
LEMMA LinkedForest ==
    ASSUME NEW trees
    PROVE  /\ trees \in Seq(Tree)
           /\ \A i \in DOMAIN trees : \A n, m \in trees[i] :
                 (m.at # <<>> /\ n.at = Front(m.at)) => Prev[m.block] = n.block
           <=> trees \in Seq(Linked)
<1>1. ASSUME /\ trees \in Seq(Tree)
             /\ \A i \in DOMAIN trees : \A n, m \in trees[i] :
                   (m.at # <<>> /\ n.at = Front(m.at)) => Prev[m.block] = n.block
      PROVE  trees \in Seq(Linked)
  <2>1. Len(trees) \in Nat /\ DOMAIN trees = 1..Len(trees) /\ trees \in [1..Len(trees) -> Tree]
    BY <1>1, LenProperties
  <2>2. \A i \in 1..Len(trees) : trees[i] \in Linked
    BY <1>1, <2>1 DEF Linked
  <2>3. trees \in [1..Len(trees) -> Linked]
    BY <2>1, <2>2
  <2> QED BY <2>1, <2>3, SeqDef
<1>2. ASSUME trees \in Seq(Linked)
      PROVE  /\ trees \in Seq(Tree)
             /\ \A i \in DOMAIN trees : \A n, m \in trees[i] :
                   (m.at # <<>> /\ n.at = Front(m.at)) => Prev[m.block] = n.block
  <2>1. Linked \subseteq Tree
    BY DEF Linked
  <2>2. trees \in Seq(Tree)
    BY <1>2, <2>1, SeqMonotonic
  <2>3. \A i \in DOMAIN trees : trees[i] \in Linked
    BY <1>2, LenProperties
  <2> QED BY <2>2, <2>3 DEF Linked
<1> QED BY <1>1, <1>2

\* What insert_block does to a state.  Its assertion that the block that becomes
\* stable follows the anchor holds whatever it is given.
LEMMA InsertForest ==
    ASSUME NEW s, NEW b \in Blocks,
           DOMAIN s = {"height", "latest_stable_block_hash", "utxos", "unstable_blocks"},
           s.unstable_blocks \in Seq(Linked)
    PROVE  LET after == Insert(s, b)
               anchor == s.latest_stable_block_hash
               popped == Pop(Push(s.unstable_blocks, b), anchor)
           IN  /\ DOMAIN after = DOMAIN s
               /\ after.unstable_blocks = popped.trees
               /\ \/ /\ popped.block = NoBlock
                     /\ after.height = s.height
                     /\ after.latest_stable_block_hash = anchor
                     /\ after.utxos = s.utxos
                  \/ /\ popped.block \in Blocks
                     /\ Prev[popped.block] = anchor
                     /\ after.height = s.height + 1
                     /\ after.latest_stable_block_hash = popped.block
                     /\ after.utxos = InsertTxs(s.utxos, Txs[popped.block], s.height)
<1> DEFINE r == Pushed(s, b)
           popped == Pop(r.unstable_blocks, r.latest_stable_block_hash)
<1>1. /\ DOMAIN r = DOMAIN s
      /\ r.height = s.height
      /\ r.latest_stable_block_hash = s.latest_stable_block_hash
      /\ r.utxos = s.utxos
      /\ r.unstable_blocks = Push(s.unstable_blocks, b)
  BY DEF Pushed
<1> HIDE DEF r
<1>2. r.unstable_blocks \in Seq(Linked)
  BY <1>1, PushLinked
<1>3. /\ popped.trees \in Seq(Linked)
      /\ popped.block \in Blocks \cup {NoBlock}
      /\ popped.block # NoBlock => Prev[popped.block] = r.latest_stable_block_hash
  BY <1>2, PopLinked
<1>4. Insert(s, b) = ProcessStableBlock(r)
  BY DEF Insert, r
<1>5. ProcessStableBlock(r) =
         IF popped.block = NoBlock
         THEN [r EXCEPT !.unstable_blocks = popped.trees]
         ELSE IF Prev[popped.block] # r.latest_stable_block_hash
         THEN [r EXCEPT !.utxos = Panic(@)]
         ELSE [height |-> r.height + 1,
               latest_stable_block_hash |-> popped.block,
               utxos |-> InsertTxs(r.utxos, Txs[popped.block], r.height),
               unstable_blocks |-> popped.trees]
  BY DEF ProcessStableBlock
<1> HIDE DEF popped
<1>6. CASE popped.block = NoBlock
  <2>1. Insert(s, b) = [r EXCEPT !.unstable_blocks = popped.trees]
    BY <1>4, <1>5, <1>6
  <2> QED BY <1>1, <1>6, <2>1 DEF popped
<1>7. CASE popped.block # NoBlock
  <2>1. Insert(s, b) = [height |-> r.height + 1,
                        latest_stable_block_hash |-> popped.block,
                        utxos |-> InsertTxs(r.utxos, Txs[popped.block], r.height),
                        unstable_blocks |-> popped.trees]
    BY <1>3, <1>4, <1>5, <1>7
  <2> QED BY <1>1, <1>3, <1>7, <2>1 DEF popped
<1> QED BY <1>6, <1>7

\* What insert_block does to a state, in two cases: no block becomes stable, or
\* one that follows the anchor does.
LEMMA InsertCases ==
    ASSUME NEW s, NEW b \in Blocks,
           DOMAIN s = {"height", "latest_stable_block_hash", "utxos", "unstable_blocks"},
           s.unstable_blocks \in Seq(Linked)
    PROVE  LET after == Insert(s, b) IN
           /\ DOMAIN after = DOMAIN s
           /\ after.unstable_blocks \in Seq(Linked)
           /\ \/ /\ after.height = s.height
                 /\ after.latest_stable_block_hash = s.latest_stable_block_hash
                 /\ after.utxos = s.utxos
              \/ /\ after.height = s.height + 1
                 /\ after.latest_stable_block_hash \in Blocks
                 /\ Prev[after.latest_stable_block_hash] = s.latest_stable_block_hash
                 /\ after.utxos =
                       InsertTxs(s.utxos, Txs[after.latest_stable_block_hash], s.height)
<1> DEFINE after == Insert(s, b)
           popped == Pop(Push(s.unstable_blocks, b), s.latest_stable_block_hash)
<1>1. popped.trees \in Seq(Linked)
  BY PushLinked, PopLinked
<1>2. /\ DOMAIN after = DOMAIN s
      /\ after.unstable_blocks = popped.trees
      /\ \/ /\ after.height = s.height
            /\ after.latest_stable_block_hash = s.latest_stable_block_hash
            /\ after.utxos = s.utxos
         \/ /\ popped.block \in Blocks
            /\ Prev[popped.block] = s.latest_stable_block_hash
            /\ after.height = s.height + 1
            /\ after.latest_stable_block_hash = popped.block
            /\ after.utxos = InsertTxs(s.utxos, Txs[popped.block], s.height)
  BY InsertForest
<1> HIDE DEF after, popped
<1>3. /\ DOMAIN after = DOMAIN s
      /\ after.unstable_blocks \in Seq(Linked)
      /\ \/ /\ after.height = s.height
            /\ after.latest_stable_block_hash = s.latest_stable_block_hash
            /\ after.utxos = s.utxos
         \/ /\ after.height = s.height + 1
            /\ after.latest_stable_block_hash \in Blocks
            /\ Prev[after.latest_stable_block_hash] = s.latest_stable_block_hash
            /\ after.utxos = InsertTxs(s.utxos, Txs[after.latest_stable_block_hash], s.height)
  BY <1>1, <1>2
<1> QED BY <1>3 DEF after

LEMMA InitInvariant == Init => IInv
<1> SUFFICES ASSUME Init PROVE IInv
  OBVIOUS
<1> USE DEF Init, NewState
<1>1. <<>> \in Seq(Tree) /\ <<Genesis>> \in Seq(Blocks) /\ Len(<<Genesis>>) = 1
  BY EmptySeq, StateAssumption
<1>2. ChainTypeOK
  BY <1>1, StateAssumption DEF ChainTypeOK, EmptyForest
<1>3. StableChainLinked
  BY <1>1 DEF StableChainLinked
<1>4. TreesLinked
  <2>1. DOMAIN <<>> = {}
    OBVIOUS
  <2> QED BY <2>1 DEF TreesLinked, EmptyForest
<1> QED BY <1>2, <1>3, <1>4 DEF IInv

\* A step appends the new anchor to the stable chain, or leaves it alone.
LEMMA InsertStep ==
    ASSUME IInv, NEW b \in Blocks, InsertBlock(b)
    PROVE  /\ IInv'
           /\ \/ stable' = stable
              \/ \E p \in Blocks : Final!Finalise(p)
<1> USE DEF IInv
<1> DEFINE h == state.height
           anchor == state.latest_stable_block_hash
<1>1. /\ h \in Nat \ {0} /\ stable \in Seq(Blocks)
      /\ Len(stable) = h /\ stable[h] = anchor /\ anchor \in Blocks
      /\ DOMAIN state = {"height", "latest_stable_block_hash", "utxos", "unstable_blocks"}
  BY DEF ChainTypeOK, StableChainLinked
<1>2. state.unstable_blocks \in Seq(Linked)
  BY LinkedForest DEF ChainTypeOK, TreesLinked
<1>3. /\ DOMAIN state' = DOMAIN state
      /\ state'.unstable_blocks \in Seq(Linked)
      /\ \/ /\ state'.height = h
            /\ state'.latest_stable_block_hash = anchor
         \/ /\ state'.height = h + 1
            /\ state'.latest_stable_block_hash \in Blocks
            /\ Prev[state'.latest_stable_block_hash] = anchor
  BY <1>1, <1>2, InsertCases DEF InsertBlock
<1>4. /\ stable' = StableAfter(stable, state, state')
      /\ delivered' \in SUBSET Blocks
  BY DEF InsertBlock, ChainTypeOK
<1>5. (state.unstable_blocks \in Seq(Tree) /\ TreesLinked)'
  BY <1>3, LinkedForest DEF TreesLinked
<1>6. CASE /\ state'.height = h
           /\ state'.latest_stable_block_hash = anchor
  <2>1. stable' = stable
    BY <1>4, <1>6 DEF StableAfter
  <2>2. ChainTypeOK'
    BY <1>1, <1>3, <1>4, <1>5, <1>6, <2>1 DEF ChainTypeOK
  <2>3. StableChainLinked'
    BY <1>6, <2>1 DEF StableChainLinked
  <2> QED BY <1>5, <2>1, <2>2, <2>3
<1>7. CASE /\ state'.height = h + 1
           /\ state'.latest_stable_block_hash \in Blocks
           /\ Prev[state'.latest_stable_block_hash] = anchor
  <2> DEFINE p == state'.latest_stable_block_hash
  <2>1. p \in Blocks /\ Prev[p] = stable[h] /\ stable' = Append(stable, p)
    <3>1. h + 1 # h
      BY <1>1
    <3> QED BY <1>1, <1>4, <1>7, <3>1 DEF StableAfter
  <2> HIDE DEF p
  <2>2. /\ stable' \in Seq(Blocks) /\ Len(stable') = h + 1
        /\ \A i \in 1..h : stable'[i] = stable[i]
        /\ stable'[h + 1] = p
    BY <1>1, <2>1, AppendProperties
  <2>3. ChainTypeOK'
    BY <1>1, <1>3, <1>4, <1>5, <1>7, <2>2 DEF ChainTypeOK
  <2>4. StableChainLinked'
    <3>1. /\ stable[1] = Genesis
          /\ \A i \in 1..(h - 1) : Prev[stable[i + 1]] = stable[i]
      BY DEF StableChainLinked
    <3> HIDE DEF h, anchor
    <3>2. ASSUME NEW i \in 1..h
          PROVE  Prev[stable'[i + 1]] = stable'[i]
      <4>1. CASE i = h
        BY <1>1, <2>1, <2>2, <4>1
      <4>2. CASE i # h
        <5>1. i \in 1..(h - 1) /\ i + 1 \in 1..h
          BY <1>1, <4>2
        <5> QED BY <2>2, <3>1, <5>1
      <4> QED BY <4>1, <4>2
    <3>3. 1 \in 1..h /\ state'.height - 1 = h /\ stable'[state'.height] = p
      BY <1>1, <1>7, <2>2
    <3> QED BY <1>7, <2>2, <3>1, <3>2, <3>3 DEF StableChainLinked, p
  <2>5. Final!Finalise(p)
    BY <1>1, <2>1 DEF Final!Finalise
  <2> QED BY <1>5, <2>1, <2>3, <2>4, <2>5
<1> QED BY <1>3, <1>6, <1>7

LEMMA NextInvariant == IInv /\ [Next]_vars => IInv'
<1>1. ASSUME IInv, NEW b \in Blocks, InsertBlock(b)
      PROVE  IInv'
  BY <1>1, InsertStep
<1>2. ASSUME IInv, UNCHANGED vars
      PROVE  IInv'
  BY <1>2 DEF IInv, ChainTypeOK, StableChainLinked, TreesLinked, vars
<1> QED BY <1>1, <1>2 DEF Next

THEOREM Invariance == Spec => []IInv
BY InitInvariant, NextInvariant, PTL DEF Spec

\* The height stays positive, the anchor is a block and the forest is a vector of
\* finite trees, whatever insert_block is given: the chain part of TypeOK.
THEOREM ChainTyped == Spec => []ChainTypeOK
BY Invariance, PTL DEF IInv

\* The height and the hash that the code keeps are the length and the last block
\* of a chain of hashes from genesis, for any blocks, delta and deliveries.
THEOREM StableChain == Spec => []StableChainLinked
BY Invariance, PTL DEF IInv

\* Whatever take_tree, push and pop move, in every tree of the forest a block lies
\* under the block before it.
THEOREM ForestLinked == Spec => []TreesLinked
BY Invariance, PTL DEF IInv

\* The chain state implements the chain of final blocks: insert_block makes at
\* most one block stable, one that follows the last, and takes none back.
THEOREM Finality == Spec => StableChainIsFinal
<1>1. Init => Final!Init
  BY DEF Init, Final!Init
<1>2. IInv /\ [Next]_vars => [Final!Next]_stable
  <2>1. ASSUME IInv, NEW b \in Blocks, InsertBlock(b)
        PROVE  [Final!Next]_stable
    BY <2>1, InsertStep DEF Final!Next
  <2>2. ASSUME UNCHANGED vars
        PROVE  [Final!Next]_stable
    BY <2>2 DEF vars
  <2> QED BY <2>1, <2>2 DEF Next
<1> QED BY <1>1, <1>2, Invariance, PTL DEF Spec, StableChainIsFinal, Final!Spec

-----------------------------------------------------------------------------
\* The chain that a block ends

\* s is the chain from a block without a predecessor to b.
IsLine(s, b) ==
    /\ s \in Seq(Blocks) /\ s # <<>>
    /\ s[Len(s)] = b
    /\ Prev[s[1]] = NoBlock
    /\ \A i \in 1..(Len(s) - 1) : Prev[s[i + 1]] = s[i]

LEMMA LineOfOne ==
    ASSUME NEW b \in Blocks, Prev[b] = NoBlock
    PROVE  /\ IsLine(<<b>>, b)
           /\ \A s : IsLine(s, b) => s = <<b>>
<1>1. IsLine(<<b>>, b)
  <2>1. <<b>> \in Seq(Blocks) /\ Len(<<b>>) = 1 /\ <<b>>[1] = b /\ <<b>> # <<>>
    OBVIOUS
  <2> QED BY <2>1 DEF IsLine
<1>2. ASSUME NEW s, IsLine(s, b) PROVE s = <<b>>
  <2>1. s \in Seq(Blocks) /\ Len(s) \in Nat \ {0} /\ \A i \in 1..Len(s) : s[i] \in Blocks
    BY <1>2, EmptySeq, LenProperties DEF IsLine
  <2>2. Len(s) = 1
    <3>1. SUFFICES ASSUME Len(s) # 1 PROVE FALSE
      OBVIOUS
    <3>2. Len(s) - 1 \in 1..(Len(s) - 1) /\ Len(s) - 1 \in 1..Len(s) /\ (Len(s) - 1) + 1 = Len(s)
      <4> DEFINE n == Len(s)
      <4>1. n \in Nat \ {0} /\ n # 1
        BY <2>1, <3>1
      <4> HIDE DEF n
      <4>2. n - 1 \in 1..(n - 1) /\ n - 1 \in 1..n /\ (n - 1) + 1 = n
        BY <4>1
      <4> QED BY <4>2 DEF n
    <3>3. Prev[b] = s[Len(s) - 1]
      BY <1>2, <3>2 DEF IsLine
    <3> QED BY <2>1, <3>2, <3>3, BlocksAssumption
  <2> QED BY <1>2, <2>1, <2>2 DEF IsLine
<1> QED BY <1>1, <1>2

LEMMA LineOfMore ==
    ASSUME NEW b \in Blocks, Prev[b] # NoBlock
    PROVE  /\ Prev[b] \in Blocks
           /\ \A s : IsLine(s, Prev[b]) => IsLine(Append(s, b), b)
           /\ \A s : IsLine(s, b) =>
                 \E r : IsLine(r, Prev[b]) /\ s = Append(r, b)
<1>1. Prev[b] \in Blocks
  BY BlocksAssumption
<1>2. ASSUME NEW s, IsLine(s, Prev[b]) PROVE IsLine(Append(s, b), b)
  <2> DEFINE t == Append(s, b)
  <2>1. s \in Seq(Blocks) /\ Len(s) \in Nat \ {0}
    BY <1>2, EmptySeq, LenProperties DEF IsLine
  <2>2. /\ t \in Seq(Blocks) /\ Len(t) = Len(s) + 1
        /\ \A i \in 1..Len(s) : t[i] = s[i]
        /\ t[Len(s) + 1] = b
    BY <2>1, AppendProperties
  <2> HIDE DEF t
  <2>3. ASSUME NEW i \in 1..(Len(t) - 1) PROVE Prev[t[i + 1]] = t[i]
    <3>1. CASE i = Len(s)
      BY <1>2, <2>1, <2>2, <3>1 DEF IsLine
    <3>2. CASE i # Len(s)
      <4>1. i \in 1..(Len(s) - 1) /\ i \in 1..Len(s) /\ i + 1 \in 1..Len(s)
        BY <2>1, <2>2, <3>2
      <4> QED BY <1>2, <2>2, <4>1 DEF IsLine
    <3> QED BY <3>1, <3>2
  <2>4. t # <<>> /\ 1 \in 1..Len(s)
    BY <2>1, <2>2
  <2> QED BY <1>2, <2>2, <2>3, <2>4 DEF IsLine, t
<1>3. ASSUME NEW s, IsLine(s, b) PROVE \E r : IsLine(r, Prev[b]) /\ s = Append(r, b)
  <2>1. s \in Seq(Blocks) /\ Len(s) \in Nat \ {0} /\ s # <<>>
    BY <1>3, EmptySeq, LenProperties DEF IsLine
  <2>2. Len(s) # 1
    BY <1>3 DEF IsLine
  <2> DEFINE r == SubSeq(s, 1, Len(s) - 1)
  <2>3. /\ r \in Seq(Blocks) /\ Len(r) = Len(s) - 1
        /\ \A i \in 1..(Len(s) - 1) : r[i] = s[i]
    <3> DEFINE n == Len(s)
    <3>1. n \in Nat \ {0} /\ n - 1 \in 0..n /\ s \in Seq(Blocks) /\ 1 \in 1..(n + 1)
      BY <2>1
    <3>2. /\ r \in Seq(Blocks)
          /\ Len(r) = IF 1 <= n - 1 THEN n - 1 - 1 + 1 ELSE 0
          /\ \A i \in 1..(n - 1 - 1 + 1) : r[i] = s[1 + i - 1]
      BY <2>1, <3>1, SubSeqProperties
    <3> HIDE DEF n, r
    <3>3. n - 1 - 1 + 1 = n - 1 /\ (~(1 <= n - 1) => n - 1 = 0)
      BY <3>1
    <3>4. \A i \in 1..(n - 1) : 1 + i - 1 = i
      BY <3>1
    <3> QED BY <3>2, <3>3, <3>4 DEF n
  <2> HIDE DEF r
  <2>4. IsLine(r, Prev[b])
    <3>1. /\ Len(s) - 1 \in 1..(Len(s) - 1) /\ (Len(s) - 1) + 1 = Len(s) /\ 1 \in 1..(Len(s) - 1)
          /\ \A i \in 1..(Len(r) - 1) :
                i \in 1..(Len(s) - 1) /\ i + 1 \in 1..(Len(s) - 1)
      BY <2>1, <2>2, <2>3
    <3>2. r[Len(r)] = Prev[b]
      BY <1>3, <2>3, <3>1 DEF IsLine
    <3>3. r # <<>> /\ r[1] = s[1]
      BY <2>3, <3>1
    <3>4. \A i \in 1..(Len(r) - 1) : Prev[r[i + 1]] = r[i]
      BY <1>3, <2>3, <3>1 DEF IsLine
    <3> QED BY <1>3, <2>3, <3>2, <3>3, <3>4 DEF IsLine
  <2>5. s = Append(r, b)
    <3>1. /\ Append(r, b) \in Seq(Blocks) /\ Len(Append(r, b)) = Len(s)
          /\ \A i \in 1..(Len(s) - 1) : Append(r, b)[i] = s[i]
          /\ Append(r, b)[Len(s)] = b
      BY <2>1, <2>3, AppendProperties
    <3>2. \A i \in 1..Len(s) : i = Len(s) \/ i \in 1..(Len(s) - 1)
      BY <2>1
    <3>3. s[Len(s)] = b
      BY <1>3 DEF IsLine
    <3>4. \A i \in 1..Len(s) : Append(r, b)[i] = s[i]
      BY <3>1, <3>2, <3>3
    <3> QED BY <2>1, <3>1, <3>4, SeqEqual
  <2> QED BY <2>4, <2>5
<1> QED BY <1>1, <1>2, <1>3

\* There is one such chain for each block, and Line is it.
LEMMA LineExists == \A b \in Blocks : \E s : IsLine(s, b)
<1> DEFINE Bad == {b \in Blocks : ~\E s : IsLine(s, b)}
<1>1. SUFFICES ASSUME Bad # {} PROVE FALSE
  OBVIOUS
<1>2. PICK b \in Bad : Prev[b] \notin Bad
  BY <1>1, HashAssumption
<1> QED BY <1>2, LineOfOne, LineOfMore

LEMMA LineUnique ==
    \A b \in Blocks : \A s, t : IsLine(s, b) /\ IsLine(t, b) => s = t
<1> DEFINE Bad == {b \in Blocks : \E s, t : IsLine(s, b) /\ IsLine(t, b) /\ s # t}
<1>1. SUFFICES ASSUME Bad # {} PROVE FALSE
  OBVIOUS
<1>2. PICK b \in Bad : Prev[b] \notin Bad
  BY <1>1, HashAssumption
<1>3. PICK s, t : IsLine(s, b) /\ IsLine(t, b) /\ s # t
  BY <1>2
<1>4. CASE Prev[b] = NoBlock
  BY <1>3, <1>4, LineOfOne
<1>5. CASE Prev[b] # NoBlock
  <2>1. PICK r : IsLine(r, Prev[b]) /\ s = Append(r, b)
    BY <1>3, <1>5, LineOfMore
  <2>2. PICK q : IsLine(q, Prev[b]) /\ t = Append(q, b)
    BY <1>3, <1>5, LineOfMore
  <2>3. r = q
    BY <1>2, <1>5, <2>1, <2>2, LineOfMore
  <2> QED BY <1>3, <2>1, <2>2, <2>3
<1> QED BY <1>4, <1>5

LEMMA LineDefined ==
    \A b \in Blocks : Line[b] = IF Prev[b] = NoBlock THEN <<b>> ELSE Append(Line[Prev[b]], b)
<1> DEFINE f == [b \in Blocks |-> CHOOSE s : IsLine(s, b)]
           Good(l) == l = [b \in Blocks |->
                              IF Prev[b] = NoBlock THEN <<b>> ELSE Append(l[Prev[b]], b)]
<1>1. \A b \in Blocks : IsLine(f[b], b)
  <2>1. ASSUME NEW b \in Blocks PROVE IsLine(CHOOSE s : IsLine(s, b), b)
    BY LineExists
  <2> QED BY <2>1
<1>2. DOMAIN f = Blocks /\ f = [b \in Blocks |-> f[b]]
  OBVIOUS
<1> HIDE DEF f
<1>3. ASSUME NEW b \in Blocks
      PROVE  f[b] = IF Prev[b] = NoBlock THEN <<b>> ELSE Append(f[Prev[b]], b)
  <2>1. CASE Prev[b] = NoBlock
    BY <1>1, <2>1, LineOfOne
  <2>2. CASE Prev[b] # NoBlock
    BY <1>1, <2>2, LineOfMore, LineUnique
  <2> QED BY <2>1, <2>2
<1>4. Good(f)
  BY <1>2, <1>3
<1>5. Line = CHOOSE l : Good(l)
  BY DEF Line
<1>6. Good(Line)
  <2> HIDE DEF Good
  <2> QED BY <1>4, <1>5
<1> QED BY <1>6

LEMMA LineIsLine == \A b \in Blocks : IsLine(Line[b], b)
<1> DEFINE Bad == {b \in Blocks : ~IsLine(Line[b], b)}
<1>1. SUFFICES ASSUME Bad # {} PROVE FALSE
  OBVIOUS
<1>2. PICK b \in Bad : Prev[b] \notin Bad
  BY <1>1, HashAssumption
<1>3. CASE Prev[b] = NoBlock
  BY <1>2, <1>3, LineDefined, LineOfOne
<1>4. CASE Prev[b] # NoBlock
  <2>1. Prev[b] \in Blocks /\ Line[b] = Append(Line[Prev[b]], b)
    BY <1>4, LineDefined, LineOfMore
  <2>2. IsLine(Line[Prev[b]], Prev[b])
    BY <1>2, <2>1
  <2>3. IsLine(Append(Line[Prev[b]], b), b)
    BY <1>4, <2>2, LineOfMore
  <2>4. ~IsLine(Line[b], b)
    BY <1>2
  <2> QED BY <2>1, <2>3, <2>4
<1> QED BY <1>3, <1>4

-----------------------------------------------------------------------------
\* Replaying a chain

PlacesBefore(chain, p) == {q \in TxPlaces(chain) : Earlier(q, p)}

OutputOf(tx, o) == tx.outputs[o[2] + 1]

\* Of the transactions at the places A, the one at p creates o last.
LastCreates(chain, A, p, o) ==
    /\ p \in A /\ Creates(TxAt(chain, p), o)
    /\ \A q \in A : Creates(TxAt(chain, q), o) => q[1] <= p[1]

UnspentAt(chain, A, o) == \A q \in A : ~Spends(TxAt(chain, q), o)

\* u holds outputs that the transactions at the places A leave unspent, each as
\* it was last created, at the height that H gives its block; and it holds all
\* of those to the addresses in W.
IsReplay(u, chain, A, H, W) ==
    /\ Sound(u)
    /\ \A o \in DOMAIN u.utxos :
          /\ UnspentAt(chain, A, o)
          /\ \E p : /\ LastCreates(chain, A, p, o)
                    /\ u.utxos[o] = [output |-> OutputOf(TxAt(chain, p), o), height |-> H[p[1]]]
    /\ \A o \in OutPoint : \A p \in A :
          /\ Creates(TxAt(chain, p), o) /\ UnspentAt(chain, A, o)
          /\ OutputOf(TxAt(chain, p), o).address \in W
          => o \in DOMAIN u.utxos

\* v is such a set and like u, from which it was made, strict or not.
ReplaysTo(v, u, chain, A, H, W) == IsReplay(v, chain, A, H, W) /\ v.strict = u.strict

AnyAddress == Addresses \cup {NoAddress}

LEMMA PlaceFacts ==
    ASSUME NEW chain \in Seq(Blocks)
    PROVE  /\ \A p \in TxPlaces(chain) :
                 /\ p = <<p[1], p[2]>>
                 /\ p[1] \in 1..Len(chain) /\ chain[p[1]] \in Blocks
                 /\ p[2] \in 1..Len(Txs[chain[p[1]]])
                 /\ IsTx(TxAt(chain, p))
           /\ \A i \in 1..Len(chain) : \A k \in 1..Len(Txs[chain[i]]) :
                 <<i, k>> \in TxPlaces(chain)
           /\ \A i \in 1..Len(chain) : Len(Txs[chain[i]]) \in Nat
<1>1. /\ Len(chain) \in Nat /\ DOMAIN chain = 1..Len(chain)
      /\ \A i \in 1..Len(chain) : chain[i] \in Blocks
  BY LenProperties
<1>2. \A b \in Blocks : /\ Len(Txs[b]) \in Nat /\ DOMAIN Txs[b] = 1..Len(Txs[b])
                        /\ \A k \in 1..Len(Txs[b]) : IsTx(Txs[b][k])
  BY StateAssumption
<1>3. ASSUME NEW p \in TxPlaces(chain)
      PROVE  /\ p = <<p[1], p[2]>>
             /\ p[1] \in 1..Len(chain) /\ chain[p[1]] \in Blocks
             /\ p[2] \in 1..Len(Txs[chain[p[1]]])
             /\ IsTx(TxAt(chain, p))
  <2>1. PICK i \in DOMAIN chain : p \in {i} \X DOMAIN Txs[chain[i]]
    BY DEF TxPlaces
  <2> QED BY <1>1, <1>2, <2>1 DEF TxAt
<1>4. ASSUME NEW i \in 1..Len(chain), NEW k \in 1..Len(Txs[chain[i]])
      PROVE  <<i, k>> \in TxPlaces(chain)
  <2>1. <<i, k>> \in {i} \X DOMAIN Txs[chain[i]]
    BY <1>1, <1>2
  <2> QED BY <1>1, <2>1 DEF TxPlaces
<1> QED BY <1>1, <1>2, <1>3, <1>4

\* What a transaction makes is what it creates.
LEMMA MadeCreates ==
    ASSUME NEW tx, IsTx(tx)
    PROVE  /\ Made(tx) \subseteq OutPoint
           /\ \A o \in OutPoint : o \in Made(tx) <=> Creates(tx, o)
           /\ \A o \in Made(tx) : /\ o = <<tx.txid, o[2]>>
                                  /\ o[2] + 1 \in DOMAIN tx.outputs
                                  /\ o = <<tx.txid, (o[2] + 1) - 1>>
                                  /\ OutputOf(tx, o) \in Output
<1> DEFINE n == Len(tx.outputs)
<1>1. /\ n \in Nat /\ DOMAIN tx.outputs = 1..n /\ n <= MaxVout + 1 /\ tx.txid \in TxIds
      /\ \A k \in 1..n : tx.outputs[k] \in Output
  BY DEF IsTx
<1>2. MaxVout \in Nat
  BY UtxoSetAssumption
<1> HIDE DEF n
<1>3. ASSUME NEW o \in Made(tx)
      PROVE  /\ o \in OutPoint /\ Creates(tx, o) /\ o = <<tx.txid, o[2]>>
             /\ o = <<tx.txid, (o[2] + 1) - 1>>
             /\ o[2] + 1 \in 1..n /\ OutputOf(tx, o) \in Output
  <2>1. PICK v \in 1..n : o = <<tx.txid, v - 1>>
    BY <1>1 DEF Made
  <2>2. v - 1 \in 0..MaxVout /\ (v - 1) + 1 = v /\ (v - 1 + 1) - 1 = v - 1
    BY <1>1, <1>2
  <2>3. o[1] = tx.txid /\ o[2] = v - 1
    BY <2>1
  <2> QED BY <1>1, <2>1, <2>2, <2>3 DEF OutPoint, Creates, OutputOf
<1>4. ASSUME NEW o \in OutPoint, Creates(tx, o) PROVE o \in Made(tx)
  <2>1. o = <<o[1], o[2]>> /\ o[2] \in Nat
    BY <1>2 DEF OutPoint
  <2>2. o[1] = tx.txid /\ o[2] + 1 \in 1..n /\ (o[2] + 1) - 1 = o[2]
    BY <1>1, <1>4, <2>1 DEF Creates
  <2>3. o = <<tx.txid, (o[2] + 1) - 1>>
    BY <2>1, <2>2
  <2> QED BY <1>1, <2>2, <2>3 DEF Made
<1> QED BY <1>1, <1>3, <1>4

\* A transaction of a valid chain fits the set that those before it leave, and
\* leaves the set of those up to it.
LEMMA ReplayTx ==
    ASSUME NEW chain \in Seq(Blocks), IsValid(chain), NEW p \in TxPlaces(chain),
           NEW H \in [Nat -> Nat], NEW W, NEW u,
           IsReplay(u, chain, PlacesBefore(chain, p), H, W),
           u.strict => W = AnyAddress
    PROVE  ReplaysTo(InsertTx(u, TxAt(chain, p), H[p[1]]), u,
                     chain, PlacesBefore(chain, p) \cup {p}, H, W)
<1> DEFINE A == PlacesBefore(chain, p)
           B == A \cup {p}
           tx == TxAt(chain, p)
           T(q) == TxAt(chain, q)
           v == InsertTx(u, tx, H[p[1]])
<1>1. /\ IsTx(tx) /\ \A q \in TxPlaces(chain) : IsTx(T(q))
      /\ \A q \in TxPlaces(chain) : q[1] \in Nat /\ q[2] \in Nat
      /\ tx.inputs \in Seq(OutPoint) /\ H[p[1]] \in Nat
  <2>1. \A n : \A i \in 1..n : n \in Nat => i \in Nat
    OBVIOUS
  <2>2. Len(chain) \in Nat
    BY LenProperties
  <2> QED BY <2>1, <2>2, PlaceFacts DEF IsTx
<1>2. /\ InputsAreValid(chain, p) /\ IdIsValid(chain, p)
      /\ A \subseteq TxPlaces(chain) /\ p \notin A
      /\ \A q \in A : Earlier(q, p) /\ ~Earlier(p, q) /\ q[1] <= p[1]
      /\ \A q \in TxPlaces(chain) : Earlier(q, p) => q \in A
      /\ ~Earlier(p, p)
  <2>1. ASSUME NEW q \in TxPlaces(chain), Earlier(q, p)
        PROVE  ~Earlier(p, q) /\ q[1] <= p[1]
    <3>1. q[1] \in Nat /\ q[2] \in Nat /\ p[1] \in Nat /\ p[2] \in Nat
      BY <1>1
    <3>2. \A i, j, k, l \in Nat : i < k \/ (i = k /\ j < l) =>
             ~(k < i \/ (k = i /\ l < j)) /\ i <= k
      OBVIOUS
    <3> QED BY <2>1, <3>1, <3>2 DEF Earlier
  <2>2. ~Earlier(p, p)
    <3>1. p[1] \in Nat /\ p[2] \in Nat
      BY <1>1
    <3>2. \A i \in Nat : ~(i < i)
      OBVIOUS
    <3> QED BY <3>1, <3>2 DEF Earlier
  <2> QED BY <2>1, <2>2 DEF IsValid, PlacesBefore
<1>3. /\ \A i, j \in DOMAIN tx.inputs : tx.inputs[i] = tx.inputs[j] => i = j
      /\ \A o \in ToSet(tx.inputs) :
            /\ \E q \in TxPlaces(chain) : Creates(T(q), o)
            /\ \A q \in TxPlaces(chain) :
                  /\ Creates(T(q), o) => Earlier(q, p)
                  /\ Spends(T(q), o) => q = p
  BY <1>2 DEF InputsAreValid
<1>4. /\ \A q \in TxPlaces(chain) : q # p /\ T(q).txid = tx.txid =>
                T(q) = tx /\ tx.txid \in DuplicateTxIds
      /\ tx.txid \in DuplicateTxIds =>
            \A k \in DOMAIN tx.outputs : tx.outputs[k].address = NoAddress
  BY <1>2 DEF IdIsValid
<1> HIDE DEF A, tx, T
<1>5. Sound(u) /\ DOMAIN u.utxos \subseteq OutPoint
  BY SoundFacts DEF IsReplay
<1>6. /\ \A o \in DOMAIN u.utxos :
            /\ UnspentAt(chain, A, o)
            /\ \E q : /\ LastCreates(chain, A, q, o)
                      /\ u.utxos[o] = [output |-> OutputOf(T(q), o), height |-> H[q[1]]]
      /\ \A o \in OutPoint : \A q \in A :
            /\ Creates(T(q), o) /\ UnspentAt(chain, A, o)
            /\ OutputOf(T(q), o).address \in W
            => o \in DOMAIN u.utxos
  BY DEF IsReplay, A, T
<1>7. TxFits(u, tx)
  <2>1. u.strict => ToSet(tx.inputs) \subseteq DOMAIN u.utxos
    <3>1. SUFFICES ASSUME u.strict, NEW o \in ToSet(tx.inputs) PROVE o \in DOMAIN u.utxos
      OBVIOUS
    <3>2. PICK q \in TxPlaces(chain) : Creates(T(q), o)
      BY <1>3
    <3>3. q \in A /\ IsTx(T(q))
      BY <1>1, <1>2, <1>3, <3>2
    <3>4. o \in OutPoint
      <4>1. PICK i \in DOMAIN tx.inputs : o = tx.inputs[i]
        BY <3>1 DEF ToSet
      <4> QED BY SMTT(30), <1>1, <4>1
    <3>5. UnspentAt(chain, A, o)
      BY <1>2, <1>3 DEF UnspentAt, T
    <3>6. OutputOf(T(q), o).address \in W
      <4>1. OutputOf(T(q), o) \in Output
        BY <3>2, <3>3, <3>4, MadeCreates
      <4> QED BY <3>1, <4>1 DEF AnyAddress, Output
    <3> QED BY <1>6, <3>2, <3>3, <3>4, <3>5, <3>6
  <2>2. tx.txid \notin DuplicateTxIds => Made(tx) \cap DOMAIN u.utxos = {}
    <3>1. SUFFICES ASSUME NEW o \in Made(tx), o \in DOMAIN u.utxos PROVE tx.txid \in DuplicateTxIds
      OBVIOUS
    <3>2. PICK q \in A : Creates(T(q), o)
      BY <1>6, <3>1 DEF LastCreates, T
    <3>3. q \in TxPlaces(chain) /\ q # p /\ T(q).txid = tx.txid
      BY <1>1, <1>2, <3>2, MadeCreates DEF Creates
    <3> QED BY <1>4, <3>3
  <2> QED BY <1>3, <1>4, <2>1, <2>2 DEF TxFits, MadeFits, Distinct
<1>8. /\ Sound(v) /\ v.strict = u.strict
      /\ DOMAIN v.utxos = (DOMAIN u.utxos \ ToSet(tx.inputs)) \cup Made(tx)
      /\ \A k \in DOMAIN tx.outputs :
            v.utxos[<<tx.txid, k - 1>>] = [output |-> tx.outputs[k], height |-> H[p[1]]]
      /\ \A o \in (DOMAIN u.utxos \ ToSet(tx.inputs)) \ Made(tx) : v.utxos[o] = u.utxos[o]
  BY ZenonT(30), <1>1, <1>5, <1>7, InsertTxSound DEF Applied
<1>9. Made(tx) \subseteq OutPoint
      /\ \A o \in OutPoint : o \in Made(tx) <=> Creates(tx, o)
  BY <1>1, MadeCreates
<1> HIDE DEF v
\* What the transaction makes is neither spent before nor by itself.
<1>10. \A o \in Made(tx) : UnspentAt(chain, B, o)
  <2>1. SUFFICES ASSUME NEW o \in Made(tx), NEW q \in B, Spends(T(q), o) PROVE FALSE
    BY DEF UnspentAt, T
  <2>2. q \in TxPlaces(chain) /\ InputsAreValid(chain, q)
    BY <1>2 DEF IsValid
  <2>3. Earlier(p, q)
    BY <1>9, <2>1, <2>2 DEF InputsAreValid, Spends, T, tx
  <2> QED BY <1>2, <2>3
<1>11. ASSUME NEW o \in DOMAIN v.utxos
       PROVE  /\ UnspentAt(chain, B, o)
              /\ \E q : /\ LastCreates(chain, B, q, o)
                        /\ v.utxos[o] = [output |-> OutputOf(T(q), o), height |-> H[q[1]]]
  <2>1. CASE o \in Made(tx)
    <3>1. v.utxos[o] = [output |-> OutputOf(tx, o), height |-> H[p[1]]]
      <4>1. /\ o = <<tx.txid, (o[2] + 1) - 1>> /\ o[2] + 1 \in DOMAIN tx.outputs
        BY <1>1, <2>1, MadeCreates
      <4> QED BY <1>8, <4>1 DEF OutputOf
    <3>2. LastCreates(chain, B, p, o)
      <4>1. p[1] <= p[1]
        BY SMTT(30), <1>1
      <4> QED BY <1>2, <1>9, <2>1, <4>1 DEF LastCreates, tx
    <3> QED BY <1>10, <2>1, <3>1, <3>2 DEF T, tx
  <2>2. CASE o \notin Made(tx)
    <3>1. /\ o \in DOMAIN u.utxos /\ o \notin ToSet(tx.inputs) /\ v.utxos[o] = u.utxos[o]
          /\ o \in OutPoint
      BY <1>5, <1>8, <2>2
    <3>2. UnspentAt(chain, B, o)
      BY <1>6, <3>1 DEF UnspentAt, Spends, tx
    <3>3. ~Creates(tx, o)
      BY <1>9, <2>2, <3>1
    <3>4. PICK q : /\ LastCreates(chain, A, q, o)
                   /\ u.utxos[o] = [output |-> OutputOf(T(q), o), height |-> H[q[1]]]
      BY <1>6, <3>1
    <3>5. LastCreates(chain, B, q, o)
      BY <3>3, <3>4 DEF LastCreates, tx
    <3> QED BY <3>1, <3>2, <3>4, <3>5
  <2> QED BY <2>1, <2>2
<1>12. ASSUME NEW o \in OutPoint, NEW q \in B, Creates(T(q), o), UnspentAt(chain, B, o),
              OutputOf(T(q), o).address \in W
       PROVE  o \in DOMAIN v.utxos
  <2>1. CASE q = p
    BY <1>8, <1>9, <1>12, <2>1 DEF T, tx
  <2>2. CASE q # p
    <3>1. q \in A /\ UnspentAt(chain, A, o) /\ o \notin ToSet(tx.inputs)
      BY <1>12, <2>2 DEF UnspentAt, Spends, tx
    <3> QED BY <1>6, <1>8, <1>12, <3>1
  <2> QED BY <2>1, <2>2
<1>13. IsReplay(v, chain, B, H, W)
  BY <1>8, <1>11, <1>12 DEF IsReplay, T
<1> QED BY <1>8, <1>13 DEF v, tx, A, ReplaysTo

\* The places of a block, one after the other.
LEMMA PlaceSteps ==
    ASSUME NEW chain \in Seq(Blocks), NEW i \in 1..Len(chain)
    PROVE  LET n == Len(Txs[chain[i]]) IN
           /\ \A k \in 1..n : PlacesBefore(chain, <<i, k>>) \cup {<<i, k>>} =
                                  PlacesBefore(chain, <<i, k + 1>>)
           /\ PlacesBefore(chain, <<i, n + 1>>) = PlacesBefore(chain, <<i + 1, 1>>)
<1> DEFINE n == Len(Txs[chain[i]])
<1>1. /\ Len(chain) \in Nat /\ n \in Nat /\ i \in Nat
      /\ \A k \in 1..n : <<i, k>> \in TxPlaces(chain)
  BY PlaceFacts, LenProperties
<1>2. \A q \in TxPlaces(chain) :
         /\ q = <<q[1], q[2]>> /\ q[1] \in Nat /\ q[2] \in Nat \ {0}
         /\ q[1] = i => q[2] \in 1..n
  <2>1. \A j \in 1..Len(chain) : j \in Nat
    BY <1>1
  <2>2. \A m \in Nat : \A j \in 1..m : j \in Nat \ {0}
    OBVIOUS
  <2> QED BY <2>1, <2>2, PlaceFacts
<1> HIDE DEF n
<1>3. ASSUME NEW k \in 1..n
      PROVE  PlacesBefore(chain, <<i, k>>) \cup {<<i, k>>} = PlacesBefore(chain, <<i, k + 1>>)
  <2>1. k \in Nat
    BY <1>1
  <2>2. ASSUME NEW q \in TxPlaces(chain)
        PROVE  Earlier(q, <<i, k>>) \/ q = <<i, k>> <=> Earlier(q, <<i, k + 1>>)
    <3>1. \A a, b \in Nat : (a < i \/ (a = i /\ b < k)) \/ (a = i /\ b = k)
                               <=> (a < i \/ (a = i /\ b < k + 1))
      BY <1>1, <2>1
    <3>2. q = <<i, k>> <=> q[1] = i /\ q[2] = k
      BY <1>2
    <3> QED BY <1>2, <3>1, <3>2 DEF Earlier
  <2> QED BY <1>1, <2>2 DEF PlacesBefore
<1>4. PlacesBefore(chain, <<i, n + 1>>) = PlacesBefore(chain, <<i + 1, 1>>)
  <2>1. ASSUME NEW q \in TxPlaces(chain)
        PROVE  Earlier(q, <<i, n + 1>>) <=> Earlier(q, <<i + 1, 1>>)
    <3>1. \A a, b \in Nat : b # 0 /\ (a = i => b \in 1..n) =>
             ((a < i \/ (a = i /\ b < n + 1)) <=> (a < i + 1 \/ (a = i + 1 /\ b < 1)))
      BY <1>1
    <3>2. q[1] \in Nat /\ q[2] \in Nat /\ q[2] # 0 /\ (q[1] = i => q[2] \in 1..n)
      BY <1>2
    <3> HIDE DEF n
    <3>3. (q[1] < i \/ (q[1] = i /\ q[2] < n + 1)) <=> (q[1] < i + 1 \/ (q[1] = i + 1 /\ q[2] < 1))
      BY <3>1, <3>2
    <3> QED BY <3>3 DEF Earlier
  <2> QED BY <2>1 DEF PlacesBefore
<1> QED BY <1>3, <1>4 DEF n

\* A block of a valid chain, its transactions in order.
LEMMA ReplayBlock ==
    ASSUME NEW chain \in Seq(Blocks), IsValid(chain), NEW i \in 1..Len(chain),
           NEW H \in [Nat -> Nat], NEW W, NEW u,
           IsReplay(u, chain, PlacesBefore(chain, <<i, 1>>), H, W),
           u.strict => W = AnyAddress
    PROVE  ReplaysTo(InsertTxs(u, Txs[chain[i]], H[i]), u,
                     chain, PlacesBefore(chain, <<i + 1, 1>>), H, W)
<1> DEFINE txs == Txs[chain[i]]
           n == Len(txs)
           Done(w, k) == /\ IsReplay(w, chain, PlacesBefore(chain, <<i, k + 1>>), H, W)
                         /\ w.strict = u.strict
<1>1. TxsOK(txs) /\ i \in Nat /\ H[i] \in Nat /\ n \in Nat
  <2>1. chain[i] \in Blocks /\ i \in Nat
    <3>1. Len(chain) \in Nat /\ chain \in [1..Len(chain) -> Blocks]
      BY LenProperties
    <3> QED BY <3>1
  <2>2. TxsOK(txs) /\ n \in Nat
    BY <2>1, StateAssumption DEF TxsOK
  <2> QED BY <2>1, <2>2
<1>2. u \in UtxoState
  BY DEF IsReplay, Sound
<1>3. PICK h : TxsRun(h, u, txs, H[i])
  BY <1>1, <1>2, InsertTxsRun
<1>4. /\ h[0] = u /\ h[n] = InsertTxs(u, txs, H[i])
      /\ \A k \in 1..n : h[k] = InsertTx(h[k - 1], txs[k], H[i])
  BY <1>3 DEF TxsRun
<1>5. /\ \A k \in 1..n : PlacesBefore(chain, <<i, k>>) \cup {<<i, k>>} =
                            PlacesBefore(chain, <<i, k + 1>>)
      /\ PlacesBefore(chain, <<i, n + 1>>) = PlacesBefore(chain, <<i + 1, 1>>)
      /\ \A k \in 1..n : <<i, k>> \in TxPlaces(chain)
  BY PlaceSteps, PlaceFacts
<1>6. \A k \in 1..n : TxAt(chain, <<i, k>>) = txs[k]
  BY DEF TxAt
<1> HIDE DEF n, txs
<1> DEFINE P == {k \in 0..n : Done(h[k], k)}
<1>7. 0 \in P
  <2>1. 0 + 1 = 1 /\ 0 \in 0..n
    BY <1>1
  <2>2. Done(h[0], 0)
    BY <1>4, <2>1
  <2> HIDE DEF Done
  <2> QED BY <2>1, <2>2
<1>8. ASSUME NEW k \in 1..n, k - 1 \in P PROVE k \in P
  <2>1. (k - 1) + 1 = k /\ k \in 0..n
    BY <1>1
  <2>2. IsReplay(h[k - 1], chain, PlacesBefore(chain, <<i, k>>), H, W) /\ h[k - 1].strict = u.strict
    <3>1. Done(h[k - 1], k - 1)
      <4> HIDE DEF Done
      <4> QED BY <1>8
    <3> QED BY <2>1, <3>1
  <2>4. /\ IsReplay(h[k], chain, PlacesBefore(chain, <<i, k>>) \cup {<<i, k>>}, H, W)
        /\ h[k].strict = h[k - 1].strict
    <3> DEFINE p == <<i, k>>
               w == h[k - 1]
    <3>1. /\ p \in TxPlaces(chain) /\ TxAt(chain, p) = txs[k] /\ p[1] = i
          /\ IsReplay(w, chain, PlacesBefore(chain, p), H, W) /\ w.strict = u.strict
          /\ h[k] = InsertTx(w, txs[k], H[i])
          /\ w.strict => W = AnyAddress
      BY <1>4, <1>5, <1>6, <2>2
    <3> HIDE DEF p, w
    <3>2. ReplaysTo(InsertTx(w, TxAt(chain, p), H[p[1]]), w, chain, PlacesBefore(chain, p) \cup {p}, H, W)
      BY <3>1, ReplayTx
    <3>3. InsertTx(w, TxAt(chain, p), H[p[1]]) = h[k]
      BY <3>1
    <3> QED BY <3>2, <3>3 DEF p, w, ReplaysTo
  <2>5. Done(h[k], k)
    BY <1>5, <2>2, <2>4
  <2> HIDE DEF Done
  <2> QED BY <2>1, <2>5
<1>9. Done(h[n], n)
  <2> HIDE DEF P
  <2>1. \A k \in 0..n : k \in P
    BY <1>1, <1>7, <1>8, Induct
  <2>2. n \in 0..n
    BY <1>1
  <2> HIDE DEF Done
  <2> QED BY <2>1, <2>2 DEF P
<1> QED BY <1>4, <1>5, <1>9 DEF txs, ReplaysTo

\* A chain that goes on differs only at later places.
LEMMA ReplayLonger ==
    ASSUME NEW c \in Seq(Blocks), NEW d \in Seq(Blocks), Len(c) <= Len(d),
           \A i \in 1..Len(c) : c[i] = d[i],
           NEW H \in [Nat -> Nat], NEW J \in [Nat -> Nat],
           \A i \in 1..Len(c) : H[i] = J[i],
           NEW W, NEW u, IsReplay(u, c, TxPlaces(c), H, W)
    PROVE  IsReplay(u, d, PlacesBefore(d, <<Len(c) + 1, 1>>), J, W)
<1> DEFINE A == TxPlaces(c)
           B == PlacesBefore(d, <<Len(c) + 1, 1>>)
           m == Len(c)
<1>1. /\ m \in Nat /\ Len(d) \in Nat /\ DOMAIN c = 1..m
      /\ \A i \in 1..m : i \in 1..Len(d) /\ i \in Nat
  BY LenProperties
<1>2. \A q \in A : TxAt(c, q) = TxAt(d, q) /\ H[q[1]] = J[q[1]]
  BY PlaceFacts DEF TxAt
<1>3. A = B
  <2>1. ASSUME NEW q \in A PROVE q \in B
    <3>1. q = <<q[1], q[2]>> /\ q[1] \in 1..m /\ q[2] \in 1..Len(Txs[d[q[1]]])
      BY PlaceFacts
    <3>2. q \in TxPlaces(d)
      <4>1. <<q[1], q[2]>> \in TxPlaces(d)
        BY <1>1, <3>1, PlaceFacts
      <4> QED BY <3>1, <4>1
    <3>3. q[1] < m + 1
      BY <1>1, <3>1
    <3> QED BY <3>2, <3>3 DEF PlacesBefore, Earlier
  <2>2. ASSUME NEW q \in B PROVE q \in A
    <3>1. /\ q = <<q[1], q[2]>> /\ q[1] \in 1..Len(d) /\ q[2] \in 1..Len(Txs[d[q[1]]])
          /\ Len(Txs[d[q[1]]]) \in Nat
          /\ q[1] < m + 1 \/ (q[1] = m + 1 /\ q[2] < 1)
      BY PlaceFacts DEF PlacesBefore, Earlier
    <3>2. q[1] \in 1..m
      <4> DEFINE i == q[1]
                 k == q[2]
                 n == Len(d)
                 l == Len(Txs[d[q[1]]])
      <4>1. /\ m \in Nat /\ n \in Nat /\ l \in Nat /\ i \in 1..n /\ k \in 1..l
            /\ i < m + 1 \/ (i = m + 1 /\ k < 1)
        BY <1>1, <3>1
      <4> HIDE DEF m, i, k, n, l
      <4>2. i \in 1..m
        BY <4>1
      <4> QED BY <4>2 DEF i
    <3>3. <<q[1], q[2]>> \in TxPlaces(c)
      BY <1>1, <3>1, <3>2, PlaceFacts
    <3> QED BY <3>1, <3>3
  <2> QED BY <2>1, <2>2
<1> HIDE DEF A, B
<1>4. IsReplay(u, c, A, H, W)
  BY DEF A
<1>5. \A o : UnspentAt(c, A, o) <=> UnspentAt(d, B, o)
  BY <1>2, <1>3 DEF UnspentAt
<1>6. \A p, o : LastCreates(c, A, p, o) <=> LastCreates(d, B, p, o)
  BY <1>2, <1>3 DEF LastCreates
<1>7. ASSUME NEW o \in DOMAIN u.utxos
      PROVE  /\ UnspentAt(d, B, o)
             /\ \E p : /\ LastCreates(d, B, p, o)
                       /\ u.utxos[o] = [output |-> OutputOf(TxAt(d, p), o), height |-> J[p[1]]]
  <2>1. PICK p : /\ LastCreates(c, A, p, o)
                 /\ u.utxos[o] = [output |-> OutputOf(TxAt(c, p), o), height |-> H[p[1]]]
    BY <1>4 DEF IsReplay
  <2>2. p \in A
    BY <2>1 DEF LastCreates
  <2> QED BY <1>2, <1>4, <1>5, <1>6, <2>1, <2>2 DEF IsReplay
<1>8. ASSUME NEW o \in OutPoint, NEW p \in B, Creates(TxAt(d, p), o), UnspentAt(d, B, o),
             OutputOf(TxAt(d, p), o).address \in W
      PROVE  o \in DOMAIN u.utxos
  BY <1>2, <1>3, <1>4, <1>5, <1>8 DEF IsReplay
<1>9. IsReplay(u, d, B, J, W)
  BY <1>4, <1>7, <1>8 DEF IsReplay
<1> QED BY <1>9 DEF B

\* Once all its blocks are replayed, a chain is replayed.
LEMMA ReplayWhole ==
    ASSUME NEW chain \in Seq(Blocks)
    PROVE  /\ PlacesBefore(chain, <<Len(chain) + 1, 1>>) = TxPlaces(chain)
           /\ PlacesBefore(chain, <<1, 1>>) = {}
<1>1. Len(chain) \in Nat
  BY LenProperties
<1>2. ASSUME NEW q \in TxPlaces(chain)
      PROVE  Earlier(q, <<Len(chain) + 1, 1>>) /\ ~Earlier(q, <<1, 1>>)
  <2>1. /\ q[1] \in 1..Len(chain) /\ q[2] \in 1..Len(Txs[chain[q[1]]])
        /\ Len(Txs[chain[q[1]]]) \in Nat
    BY PlaceFacts
  <2>2. q[1] < Len(chain) + 1 /\ ~(q[1] < 1) /\ ~(q[2] < 1)
    BY <1>1, <2>1
  <2> QED BY <2>2 DEF Earlier
<1> QED BY <1>2 DEF PlacesBefore

\* What the definitions of ChainProperties say of a chain, by places.
CreatedAt(chain, p, o) ==
    [outpoint |-> o, output |-> OutputOf(TxAt(chain, p), o), height |-> p[1]]

LEMMA CreatedByPlace ==
    ASSUME NEW chain \in Seq(Blocks)
    PROVE  /\ \A p \in TxPlaces(chain) : \A o \in OutPoint :
                 Creates(TxAt(chain, p), o) => CreatedAt(chain, p, o) \in Created(chain)
           /\ \A c \in Created(chain) : \E p \in TxPlaces(chain) :
                 /\ c.outpoint \in OutPoint /\ Creates(TxAt(chain, p), c.outpoint)
                 /\ c = CreatedAt(chain, p, c.outpoint)
<1>1. /\ DOMAIN chain = 1..Len(chain)
      /\ \A i \in DOMAIN chain : /\ chain[i] \in Blocks
                                 /\ DOMAIN Txs[chain[i]] = 1..Len(Txs[chain[i]])
                                 /\ \A k \in DOMAIN Txs[chain[i]] : IsTx(Txs[chain[i]][k])
  BY LenProperties, StateAssumption
<1>2. ASSUME NEW p \in TxPlaces(chain), NEW o \in OutPoint, Creates(TxAt(chain, p), o)
      PROVE  CreatedAt(chain, p, o) \in Created(chain)
  <2> DEFINE i == p[1]
             k == p[2]
             tx == Txs[chain[i]][k]
             v == o[2] + 1
  <2>1. p[1] \in DOMAIN chain /\ p[2] \in DOMAIN Txs[chain[p[1]]] /\ IsTx(tx) /\ tx = TxAt(chain, p)
    BY <1>1, PlaceFacts DEF TxAt
  <2>2. o \in Made(tx) /\ v \in DOMAIN tx.outputs /\ o = <<tx.txid, v - 1>>
    BY <1>2, <2>1, MadeCreates
  <2>3. CreatedAt(chain, p, o) =
           [outpoint |-> <<Txs[chain[i]][k].txid, v - 1>>,
            output |-> Txs[chain[i]][k].outputs[v],
            height |-> i]
    BY <2>1, <2>2 DEF CreatedAt, OutputOf
  <2>4. i \in DOMAIN chain /\ k \in DOMAIN Txs[chain[i]] /\ v \in DOMAIN Txs[chain[i]][k].outputs
    BY <2>1, <2>2
  <2> HIDE DEF i, k, v, tx
  <2> QED BY <2>3, <2>4 DEF Created
<1>3. ASSUME NEW c \in Created(chain)
      PROVE  \E p \in TxPlaces(chain) :
                 /\ c.outpoint \in OutPoint /\ Creates(TxAt(chain, p), c.outpoint)
                 /\ c = CreatedAt(chain, p, c.outpoint)
  <2>1. PICK i \in DOMAIN chain : \E k \in DOMAIN Txs[chain[i]] :
           \E v \in DOMAIN Txs[chain[i]][k].outputs :
              c = [outpoint |-> <<Txs[chain[i]][k].txid, v - 1>>,
                   output |-> Txs[chain[i]][k].outputs[v],
                   height |-> i]
    BY DEF Created
  <2>2. PICK k \in DOMAIN Txs[chain[i]] : \E v \in DOMAIN Txs[chain[i]][k].outputs :
              c = [outpoint |-> <<Txs[chain[i]][k].txid, v - 1>>,
                   output |-> Txs[chain[i]][k].outputs[v],
                   height |-> i]
    BY <2>1
  <2>3. PICK v \in DOMAIN Txs[chain[i]][k].outputs :
              c = [outpoint |-> <<Txs[chain[i]][k].txid, v - 1>>,
                   output |-> Txs[chain[i]][k].outputs[v],
                   height |-> i]
    BY <2>2
  <2> DEFINE tx == Txs[chain[i]][k]
             p == <<i, k>>
             o == <<tx.txid, v - 1>>
  <2>4. p \in TxPlaces(chain) /\ tx = TxAt(chain, p) /\ IsTx(tx) /\ p[1] = i
    BY <1>1, PlaceFacts DEF TxAt
  <2>5. o \in Made(tx)
    BY DEF Made
  <2>6. (v - 1) + 1 = v
    BY <2>4 DEF IsTx
  <2>7. o \in OutPoint /\ Creates(tx, o) /\ OutputOf(tx, o) = tx.outputs[v]
    BY <2>4, <2>5, <2>6, MadeCreates DEF OutputOf
  <2>8. c.outpoint = o /\ c = CreatedAt(chain, p, o)
    BY <2>3, <2>4, <2>7 DEF CreatedAt
  <2> HIDE DEF p, o, tx
  <2> QED BY <2>4, <2>7, <2>8
<1> QED BY <1>2, <1>3

LEMMA SpentByPlace ==
    ASSUME NEW chain \in Seq(Blocks), NEW o
    PROVE  o \notin Spent(chain) <=> UnspentAt(chain, TxPlaces(chain), o)
<1>1. /\ DOMAIN chain = 1..Len(chain)
      /\ \A i \in DOMAIN chain : /\ chain[i] \in Blocks
                                 /\ DOMAIN Txs[chain[i]] = 1..Len(Txs[chain[i]])
  BY LenProperties, StateAssumption
<1>2. ASSUME NEW p \in TxPlaces(chain), Spends(TxAt(chain, p), o) PROVE o \in Spent(chain)
  <2>1. p[1] \in DOMAIN chain /\ p[2] \in DOMAIN Txs[chain[p[1]]]
    BY <1>1, PlaceFacts
  <2> QED BY <1>2, <2>1 DEF Spent, Spends, TxAt
<1>3. ASSUME o \in Spent(chain) PROVE ~UnspentAt(chain, TxPlaces(chain), o)
  <2>1. PICK i \in DOMAIN chain : \E k \in DOMAIN Txs[chain[i]] : o \in ToSet(Txs[chain[i]][k].inputs)
    BY <1>3 DEF Spent
  <2>2. PICK k \in DOMAIN Txs[chain[i]] : o \in ToSet(Txs[chain[i]][k].inputs)
    BY <2>1
  <2>3. <<i, k>> \in TxPlaces(chain) /\ Spends(TxAt(chain, <<i, k>>), o)
    BY <1>1, <2>2, PlaceFacts DEF TxAt, Spends
  <2> QED BY <2>3 DEF UnspentAt
<1> QED BY <1>2, <1>3 DEF UnspentAt

\* Unspent(chain) by places.
LEMMA UnspentByPlace ==
    ASSUME NEW chain \in Seq(Blocks)
    PROVE  /\ \A p : \A o \in OutPoint :
                 LastCreates(chain, TxPlaces(chain), p, o) /\ UnspentAt(chain, TxPlaces(chain), o)
                 => CreatedAt(chain, p, o) \in Unspent(chain)
           /\ \A c \in Unspent(chain) : \E p :
                 /\ c.outpoint \in OutPoint /\ c = CreatedAt(chain, p, c.outpoint)
                 /\ LastCreates(chain, TxPlaces(chain), p, c.outpoint)
                 /\ UnspentAt(chain, TxPlaces(chain), c.outpoint)
<1> DEFINE A == TxPlaces(chain)
<1>1. ASSUME NEW p, NEW o \in OutPoint, LastCreates(chain, A, p, o), UnspentAt(chain, A, o)
      PROVE  CreatedAt(chain, p, o) \in Unspent(chain)
  <2> DEFINE c == CreatedAt(chain, p, o)
  <2>1. c \in Created(chain) /\ c.outpoint = o /\ c.height = p[1] /\ o \notin Spent(chain)
    BY <1>1, CreatedByPlace, SpentByPlace DEF LastCreates, CreatedAt
  <2>2. ASSUME NEW d \in Created(chain), d.outpoint = o PROVE d.height <= p[1]
    <3>1. PICK q \in A : Creates(TxAt(chain, q), d.outpoint) /\ d = CreatedAt(chain, q, d.outpoint)
      BY CreatedByPlace
    <3>2. d.height = q[1]
      BY <3>1 DEF CreatedAt
    <3> QED BY <1>1, <2>2, <3>1, <3>2 DEF LastCreates
  <2> HIDE DEF c
  <2> QED BY <2>1, <2>2 DEF Unspent, c
<1>2. ASSUME NEW c \in Unspent(chain)
      PROVE  \E p : /\ c.outpoint \in OutPoint /\ c = CreatedAt(chain, p, c.outpoint)
                    /\ LastCreates(chain, A, p, c.outpoint)
                    /\ UnspentAt(chain, A, c.outpoint)
  <2>1. /\ c \in Created(chain) /\ c.outpoint \notin Spent(chain)
        /\ \A d \in Created(chain) : d.outpoint = c.outpoint => d.height <= c.height
    BY DEF Unspent
  <2>2. PICK p \in A : /\ c.outpoint \in OutPoint /\ Creates(TxAt(chain, p), c.outpoint)
                       /\ c = CreatedAt(chain, p, c.outpoint)
    BY <2>1, CreatedByPlace
  <2>3. ASSUME NEW q \in A, Creates(TxAt(chain, q), c.outpoint) PROVE q[1] <= p[1]
    <3>1. CreatedAt(chain, q, c.outpoint) \in Created(chain)
      BY <2>2, <2>3, CreatedByPlace
    <3>2. CreatedAt(chain, q, c.outpoint).outpoint = c.outpoint
          /\ CreatedAt(chain, q, c.outpoint).height = q[1] /\ c.height = p[1]
      <4>1. \A r, o : CreatedAt(chain, r, o).outpoint = o /\ CreatedAt(chain, r, o).height = r[1]
        BY DEF CreatedAt
      <4> QED BY <2>2, <4>1
    <3> QED BY <2>1, <3>1, <3>2
  <2>4. LastCreates(chain, A, p, c.outpoint)
    BY <2>2, <2>3 DEF LastCreates
  <2> QED BY <2>1, <2>2, <2>4, SpentByPlace
<1> QED BY <1>1, <1>2

\* The last creation of an outpoint has one height and one output.
LEMMA LastIsOne ==
    ASSUME NEW chain \in Seq(Blocks), IsValid(chain), NEW o, NEW p, NEW q,
           LastCreates(chain, TxPlaces(chain), p, o), LastCreates(chain, TxPlaces(chain), q, o)
    PROVE  p[1] = q[1] /\ OutputOf(TxAt(chain, p), o) = OutputOf(TxAt(chain, q), o)
<1>1. /\ p \in TxPlaces(chain) /\ q \in TxPlaces(chain)
      /\ Creates(TxAt(chain, p), o) /\ Creates(TxAt(chain, q), o)
      /\ p[1] <= q[1] /\ q[1] <= p[1]
  BY DEF LastCreates
<1>2. p[1] \in Nat /\ q[1] \in Nat
  <2>1. p[1] \in 1..Len(chain) /\ q[1] \in 1..Len(chain) /\ Len(chain) \in Nat
    BY <1>1, PlaceFacts, LenProperties
  <2> QED BY <2>1
<1>3. p[1] = q[1]
  BY <1>1, <1>2
<1>4. TxAt(chain, p) = TxAt(chain, q)
  <2>1. IdIsValid(chain, p)
    BY <1>1 DEF IsValid
  <2>2. TxAt(chain, p).txid = TxAt(chain, q).txid
    BY <1>1 DEF Creates
  <2> QED BY <1>1, <2>1, <2>2 DEF IdIsValid
<1> QED BY <1>3, <1>4

\* A replayed set holds what the chain leaves unspent: all of its entries are
\* unspent, and every unspent output to an address in W is an entry.
LEMMA ReplaySet ==
    ASSUME NEW chain \in Seq(Blocks), IsValid(chain), NEW H, NEW W, NEW u,
           IsReplay(u, chain, TxPlaces(chain), H, W)
    PROVE  /\ \A o \in DOMAIN u.utxos : \E c \in Unspent(chain) :
                 /\ c.outpoint = o /\ c.output = u.utxos[o].output
                 /\ u.utxos[o].height = H[c.height]
           /\ \A c \in Unspent(chain) : c.output.address \in W =>
                 /\ c.outpoint \in DOMAIN u.utxos
                 /\ u.utxos[c.outpoint] = [output |-> c.output, height |-> H[c.height]]
<1> DEFINE A == TxPlaces(chain)
<1>1. \A r, o : /\ CreatedAt(chain, r, o).outpoint = o /\ CreatedAt(chain, r, o).height = r[1]
                /\ CreatedAt(chain, r, o).output = OutputOf(TxAt(chain, r), o)
  BY DEF CreatedAt
<1>2. DOMAIN u.utxos \subseteq OutPoint
  BY SoundFacts DEF IsReplay
<1>3. /\ \A o \in DOMAIN u.utxos :
            /\ UnspentAt(chain, A, o)
            /\ \E p : /\ LastCreates(chain, A, p, o)
                      /\ u.utxos[o] = [output |-> OutputOf(TxAt(chain, p), o), height |-> H[p[1]]]
      /\ \A o \in OutPoint : \A p \in A :
            /\ Creates(TxAt(chain, p), o) /\ UnspentAt(chain, A, o)
            /\ OutputOf(TxAt(chain, p), o).address \in W
            => o \in DOMAIN u.utxos
  BY DEF IsReplay
<1>4. ASSUME NEW o \in DOMAIN u.utxos
      PROVE  \E c \in Unspent(chain) : /\ c.outpoint = o /\ c.output = u.utxos[o].output
                                       /\ u.utxos[o].height = H[c.height]
  <2>1. PICK p : /\ LastCreates(chain, A, p, o)
                 /\ u.utxos[o] = [output |-> OutputOf(TxAt(chain, p), o), height |-> H[p[1]]]
    BY <1>3
  <2>2. CreatedAt(chain, p, o) \in Unspent(chain)
    BY <1>2, <1>3, <2>1, UnspentByPlace
  <2> QED BY <1>1, <2>1, <2>2
<1>5. ASSUME NEW c \in Unspent(chain), c.output.address \in W
      PROVE  /\ c.outpoint \in DOMAIN u.utxos
             /\ u.utxos[c.outpoint] = [output |-> c.output, height |-> H[c.height]]
  <2> DEFINE o == c.outpoint
  <2>1. PICK p : /\ o \in OutPoint /\ c = CreatedAt(chain, p, o)
                 /\ LastCreates(chain, A, p, o) /\ UnspentAt(chain, A, o)
    BY UnspentByPlace
  <2>2. /\ c.height = p[1] /\ c.output = OutputOf(TxAt(chain, p), o)
        /\ p \in A /\ Creates(TxAt(chain, p), o)
    BY <1>1, <2>1 DEF LastCreates
  <2>3. o \in DOMAIN u.utxos
    BY <1>3, <1>5, <2>1, <2>2
  <2>4. PICK q : /\ LastCreates(chain, A, q, o)
                 /\ u.utxos[o] = [output |-> OutputOf(TxAt(chain, q), o), height |-> H[q[1]]]
    BY <1>3, <2>3
  <2>5. p[1] = q[1] /\ OutputOf(TxAt(chain, p), o) = OutputOf(TxAt(chain, q), o)
    BY <2>1, <2>4, LastIsOne
  <2> QED BY <2>2, <2>3, <2>4, <2>5
<1> QED BY <1>4, <1>5

-----------------------------------------------------------------------------
\* What the state stands for

\* The height at which the code inserts the block at a position of the chain:
\* insert_block increments the height after it has inserted.
At == [i \in Nat |-> IF i <= 1 THEN 1 ELSE i - 1]

LEMMA AtFacts ==
    /\ At \in [Nat -> Nat]
    /\ At[1] = 1
    /\ \A m \in Nat \ {0} : At[m + 1] = m
BY DEF At

\* A chain state has the fields of struct State and no others.
IsState(s) ==
    s = [height |-> s.height,
         latest_stable_block_hash |-> s.latest_stable_block_hash,
         utxos |-> s.utxos,
         unstable_blocks |-> s.unstable_blocks]

LEMMA InsertIsState ==
    ASSUME NEW s, NEW b,
           DOMAIN s = {"height", "latest_stable_block_hash", "utxos", "unstable_blocks"}
    PROVE  IsState(Insert(s, b))
<1> DEFINE r == Pushed(s, b)
           popped == Pop(r.unstable_blocks, r.latest_stable_block_hash)
           unchanged == [r EXCEPT !.unstable_blocks = popped.trees]
           panicked == [r EXCEPT !.utxos = Panic(@)]
           extended == [height |-> r.height + 1,
                        latest_stable_block_hash |-> popped.block,
                        utxos |-> InsertTxs(r.utxos, Txs[popped.block], r.height),
                        unstable_blocks |-> popped.trees]
<1>1. DOMAIN r = {"height", "latest_stable_block_hash", "utxos", "unstable_blocks"}
  BY DEF Pushed
<1>2. \/ Insert(s, b) = unchanged
      \/ Insert(s, b) = panicked
      \/ Insert(s, b) = extended
  BY DEF Insert, ProcessStableBlock
<1> HIDE DEF r, popped
<1>3. IsState(unchanged)
  BY <1>1 DEF IsState
<1>4. IsState(panicked)
  BY <1>1 DEF IsState
<1>5. IsState(extended)
  BY DEF IsState
<1> QED BY <1>2, <1>3, <1>4, <1>5

\* A chain state and the chain it stands for.
Consistent(s, chain) ==
    /\ IsState(s)
    /\ DOMAIN s = {"height", "latest_stable_block_hash", "utxos", "unstable_blocks"}
    /\ s.height \in Nat \ {0}
    /\ s.latest_stable_block_hash \in Blocks
    /\ s.unstable_blocks \in Seq(Linked)
    /\ chain = Line[s.latest_stable_block_hash]
    /\ Len(chain) = s.height
    /\ s.utxos.strict
    /\ IsReplay(s.utxos, chain, TxPlaces(chain), At, AnyAddress)

LEMMA ValidLine ==
    \A b \in Blocks : /\ Line[b] \in Seq(Blocks) /\ IsValid(Line[b])
                      /\ Len(Line[b]) \in Nat \ {0} /\ Line[b][1] = Genesis
                      /\ Line[b][Len(Line[b])] = b
<1>1. \A s \in Seq(Blocks) : s # <<>> => Len(s) \in Nat \ {0}
  BY EmptySeq, LenProperties
<1> QED BY <1>1, LineIsLine, NetworkAssumption DEF IsLine

\* Inserting any block, in a state that stands for a chain, traps nowhere, and
\* leaves a state that stands for the chain or for one that a block follows.
LEMMA InsertConsistent ==
    ASSUME NEW s, NEW chain, Consistent(s, chain), NEW b \in Blocks
    PROVE  /\ ~Traps(Insert(s, b))
           /\ Consistent(Insert(s, b), StableAfter(chain, s, Insert(s, b)))
<1> DEFINE after == Insert(s, b)
           next == StableAfter(chain, s, after)
           h == s.height
           anchor == s.latest_stable_block_hash
           p == after.latest_stable_block_hash
<1>1. /\ DOMAIN s = {"height", "latest_stable_block_hash", "utxos", "unstable_blocks"}
      /\ h \in Nat \ {0} /\ anchor \in Blocks
      /\ s.unstable_blocks \in Seq(Linked)
      /\ chain = Line[anchor] /\ Len(chain) = h
      /\ s.utxos.strict
      /\ IsReplay(s.utxos, chain, TxPlaces(chain), At, AnyAddress)
  BY DEF Consistent
<1>2. /\ DOMAIN after = DOMAIN s
      /\ after.unstable_blocks \in Seq(Linked)
      /\ \/ after.height = h /\ p = anchor /\ after.utxos = s.utxos
         \/ /\ after.height = h + 1 /\ p \in Blocks /\ Prev[p] = anchor
            /\ after.utxos = InsertTxs(s.utxos, Txs[p], h)
  BY <1>1, InsertCases
<1>7. IsState(after)
  BY <1>1, InsertIsState
<1> HIDE DEF after
<1>3. ASSUME after.height = h, p = anchor, after.utxos = s.utxos
      PROVE  Consistent(after, next)
  <2>1. next = chain
    BY <1>3 DEF StableAfter
  <2> QED BY <1>1, <1>2, <1>3, <2>1, <1>7 DEF Consistent
<1>4. ASSUME after.height = h + 1, p \in Blocks, Prev[p] = anchor,
             after.utxos = InsertTxs(s.utxos, Txs[p], h)
      PROVE  Consistent(after, next)
  <2>1. next = Append(chain, p)
    BY <1>1, <1>4 DEF StableAfter
  <2>2. next = Line[p]
    BY <1>1, <1>4, <2>1, LineDefined, BlocksAssumption
  <2>3. chain \in Seq(Blocks) /\ next \in Seq(Blocks) /\ IsValid(next)
    BY <1>1, <1>4, <2>2, ValidLine
  <2>4. /\ Len(next) = h + 1 /\ next[h + 1] = p
        /\ \A i \in 1..h : next[i] = chain[i]
    BY <1>1, <1>4, <2>1, <2>3, AppendProperties
  <2> HIDE DEF next, p
  <2>5. IsReplay(s.utxos, next, PlacesBefore(next, <<h + 1, 1>>), At, AnyAddress)
    <3>1. /\ Len(chain) <= Len(next)
          /\ \A i \in 1..Len(chain) : chain[i] = next[i]
      BY <1>1, <2>4
    <3>2. IsReplay(s.utxos, next, PlacesBefore(next, <<Len(chain) + 1, 1>>), At, AnyAddress)
      BY <1>1, <2>3, <3>1, ReplayLonger, AtFacts
    <3> QED BY <1>1, <3>2
  <2>6. ReplaysTo(InsertTxs(s.utxos, Txs[next[h + 1]], At[h + 1]), s.utxos,
                  next, PlacesBefore(next, <<h + 1 + 1, 1>>), At, AnyAddress)
    <3> DEFINE i == h + 1
    <3>1. i \in 1..Len(next)
      BY <1>1, <2>4
    <3>2. IsReplay(s.utxos, next, PlacesBefore(next, <<i, 1>>), At, AnyAddress)
      BY <2>5
    <3> HIDE DEF i
    <3>3. ReplaysTo(InsertTxs(s.utxos, Txs[next[i]], At[i]), s.utxos,
                    next, PlacesBefore(next, <<i + 1, 1>>), At, AnyAddress)
      BY <2>3, <3>1, <3>2, ReplayBlock, AtFacts
    <3> QED BY <3>3 DEF i
  <2>7. PlacesBefore(next, <<h + 1 + 1, 1>>) = TxPlaces(next)
    BY <2>3, <2>4, ReplayWhole
  <2>8. IsReplay(after.utxos, next, TxPlaces(next), At, AnyAddress) /\ after.utxos.strict
    <3>1. At[h + 1] = h
      BY <1>1, AtFacts
    <3>2. after.utxos = InsertTxs(s.utxos, Txs[next[h + 1]], At[h + 1])
      BY <1>4, <2>4, <3>1 DEF p
    <3> QED BY <1>1, <2>6, <2>7, <3>2 DEF ReplaysTo
  <2>9. after.height \in Nat \ {0}
    BY <1>1, <1>4
  <2> QED BY <1>1, <1>2, <1>4, <1>7, <2>2, <2>4, <2>8, <2>9 DEF Consistent, p
<1>5. Consistent(after, next)
  BY <1>2, <1>3, <1>4
<1>6. ~Traps(after)
  BY <1>5 DEF Traps, Consistent, IsReplay, Sound
<1> QED BY <1>5, <1>6 DEF after

LEMMA EmptyReplay ==
    ASSUME NEW chain, NEW H, NEW W, NEW strict \in BOOLEAN
    PROVE  IsReplay(NewUtxoSet(strict), chain, {}, H, W)
<1> DEFINE u == NewUtxoSet(strict)
<1>1. u \in UtxoState
  BY NewType
<1>2. DOMAIN u.utxos = {} /\ DOMAIN u.index = {} /\ ~u.panicked
  BY DEF NewUtxoSet
<1> HIDE DEF u
<1>3. Sound(u)
  BY <1>1, <1>2 DEF Sound, IndexMatches
<1> QED BY <1>2, <1>3 DEF IsReplay, u

LEMMA NewStateConsistent == Consistent(NewState, <<Genesis>>)
<1> DEFINE chain == <<Genesis>>
           u == NewUtxoSet(TRUE)
           v == InsertTxs(u, Txs[Genesis], 1)
<1>1. /\ chain \in Seq(Blocks) /\ Len(chain) = 1 /\ chain[1] = Genesis /\ chain = Line[Genesis]
      /\ Genesis \in Blocks
  <2>1. Genesis \in Blocks /\ Prev[Genesis] = NoBlock
    BY StateAssumption
  <2>2. chain = Line[Genesis]
    BY <2>1, LineDefined
  <2>3. chain \in Seq(Blocks) /\ Len(chain) = 1 /\ chain[1] = Genesis
    BY <2>1
  <2> QED BY <2>1, <2>2, <2>3
<1>2. IsValid(chain)
  BY <1>1, ValidLine
<1> HIDE DEF chain
<1>3. IsReplay(u, chain, PlacesBefore(chain, <<1, 1>>), At, AnyAddress) /\ u.strict
  <2>1. PlacesBefore(chain, <<1, 1>>) = {}
    BY <1>1, ReplayWhole
  <2>2. u.strict
    BY DEF NewUtxoSet
  <2> QED BY <2>1, <2>2, EmptyReplay
<1> HIDE DEF u
<1>4. ReplaysTo(InsertTxs(u, Txs[chain[1]], At[1]), u, chain, PlacesBefore(chain, <<1 + 1, 1>>), At, AnyAddress)
  <2> DEFINE i == 1
  <2>1. i \in 1..Len(chain) /\ IsReplay(u, chain, PlacesBefore(chain, <<i, 1>>), At, AnyAddress)
    BY <1>1, <1>3
  <2> HIDE DEF i
  <2>2. ReplaysTo(InsertTxs(u, Txs[chain[i]], At[i]), u, chain, PlacesBefore(chain, <<i + 1, 1>>), At, AnyAddress)
    BY <1>1, <1>2, <1>3, <2>1, ReplayBlock, AtFacts
  <2> QED BY <2>2 DEF i
<1>5. PlacesBefore(chain, <<1 + 1, 1>>) = TxPlaces(chain)
  BY <1>1, ReplayWhole
<1>6. IsReplay(v, chain, TxPlaces(chain), At, AnyAddress) /\ v.strict
  BY <1>1, <1>3, <1>4, <1>5, AtFacts DEF ReplaysTo
<1>7. <<>> \in Seq(Linked)
  BY EmptySeq
<1> HIDE DEF v
<1>8. NewState = [height |-> 1, latest_stable_block_hash |-> Genesis,
                  utxos |-> v, unstable_blocks |-> <<>>]
  BY DEF NewState, EmptyForest, v, u
<1>9. IsState(NewState)
  BY <1>8 DEF IsState
<1> QED BY <1>1, <1>6, <1>7, <1>8, <1>9 DEF Consistent, chain

SInv == Consistent(state, stable) /\ delivered \in SUBSET Blocks

LEMMA InitConsistent == Init => SInv
BY NewStateConsistent, StateAssumption DEF Init, SInv

LEMMA NextConsistent == SInv /\ [Next]_vars => SInv'
<1>1. ASSUME SInv, NEW b \in Blocks, InsertBlock(b) PROVE SInv'
  <2>1. Consistent(Insert(state, b), StableAfter(stable, state, Insert(state, b)))
    BY <1>1, InsertConsistent DEF SInv
  <2> QED BY <1>1, <2>1 DEF SInv, InsertBlock
<1>2. ASSUME SInv, UNCHANGED vars PROVE SInv'
  BY <1>2 DEF SInv, vars
<1> QED BY <1>1, <1>2 DEF Next

\* Whatever blocks come, the chain state stands for the line of its anchor: the
\* stable blocks are that line, and the UTXO set is the replay of its transactions.
THEOREM ConsistentAlways == Spec => []SInv
BY InitConsistent, NextConsistent, PTL DEF Spec

LEMMA LinkedIsTree == Seq(Linked) \subseteq Seq(Tree)
BY SeqMonotonic DEF Linked

LEMMA ConsistentTypes ==
    ASSUME Consistent(state, stable), delivered \in SUBSET Blocks
    PROVE  TypeOK
<1>1. ChainTypeOK
  BY LinkedIsTree, ValidLine DEF Consistent, ChainTypeOK
<1>2. state.utxos \in UtxoState /\ ~state.utxos.panicked /\ state.utxos.strict
  BY DEF Consistent, IsReplay, Sound
<1>3. UtxosTypeOK
  BY <1>2, MapFacts DEF UtxosTypeOK, Entry
<1> QED BY <1>1, <1>3 DEF TypeOK

\* The type invariant, whatever blocks insert_block is given: UTXO set included.
THEOREM StateTypes == Spec => []TypeOK
<1>1. SInv => TypeOK
  BY ConsistentTypes DEF SInv
<1> QED BY <1>1, ConsistentAlways, PTL

LEMMA ConsistentIndex == SInv => IndexMatchesUtxos
BY DEF SInv, Consistent, IsReplay, Sound, IndexMatchesUtxos

\* The index by address and the map of outpoints agree.
THEOREM IndexAgrees == Spec => []IndexMatchesUtxos
BY ConsistentIndex, ConsistentAlways, PTL

LEMMA ConsistentInserts == SInv => NextInsertSucceeds
BY InsertConsistent DEF SInv, NextInsertSucceeds

\* No block that the network can serve makes insert_block() panic, in any state.
THEOREM InsertsSucceed == Spec => []NextInsertSucceeds
BY ConsistentInserts, ConsistentAlways, PTL

\* The outputs of a chain are outputs, and its heights positions of the chain.
LEMMA UnspentFacts ==
    ASSUME NEW chain \in Seq(Blocks), NEW c \in Unspent(chain)
    PROVE  /\ c = [outpoint |-> c.outpoint, output |-> c.output, height |-> c.height]
           /\ c.outpoint \in OutPoint /\ c.output \in Output
           /\ c.output.address \in AnyAddress
           /\ c.height \in 1..Len(chain)
<1>1. PICK p : /\ c.outpoint \in OutPoint /\ c = CreatedAt(chain, p, c.outpoint)
               /\ LastCreates(chain, TxPlaces(chain), p, c.outpoint)
  BY UnspentByPlace
<1>2. p \in TxPlaces(chain) /\ Creates(TxAt(chain, p), c.outpoint)
  BY <1>1 DEF LastCreates
<1>3. p[1] \in 1..Len(chain) /\ IsTx(TxAt(chain, p))
  BY <1>2, PlaceFacts
<1>4. OutputOf(TxAt(chain, p), c.outpoint) \in Output
  BY <1>1, <1>2, <1>3, MadeCreates
<1>5. c = [outpoint |-> c.outpoint, output |-> OutputOf(TxAt(chain, p), c.outpoint), height |-> p[1]]
  BY <1>1 DEF CreatedAt
<1>6. c.output = OutputOf(TxAt(chain, p), c.outpoint) /\ c.height = p[1]
  BY <1>5
<1> QED BY <1>1, <1>3, <1>4, <1>5, <1>6 DEF Output, AnyAddress

LEMMA ConsistentReplay == SInv => UtxosAreReplay
<1>1. ASSUME SInv PROVE UtxosAreReplay
  <2> DEFINE u == state.utxos
             shift(c) == [c EXCEPT !.height = IF @ = 1 THEN 1 ELSE @ - 1]
  <2>1. /\ stable \in Seq(Blocks) /\ IsValid(stable)
        /\ IsReplay(u, stable, TxPlaces(stable), At, AnyAddress)
    BY <1>1, ValidLine DEF SInv, Consistent
  <2> HIDE DEF u
  <2>2. ASSUME NEW c \in Unspent(stable)
        PROVE  shift(c) = [outpoint |-> c.outpoint, output |-> c.output, height |-> At[c.height]]
    <3> DEFINE o == c.outpoint
               out == c.output
               k == c.height
    <3>1. c = [outpoint |-> o, output |-> out, height |-> k] /\ k \in 1..Len(stable)
      BY <2>1, UnspentFacts
    <3>2. k \in Nat \ {0}
      BY <2>1, <3>1, LenProperties
    <3> HIDE DEF o, out, k
    <3>3. At[k] = IF k = 1 THEN 1 ELSE k - 1
      BY <3>2 DEF At
    <3>4. shift(c) = [outpoint |-> o, output |-> out, height |-> IF k = 1 THEN 1 ELSE k - 1]
      BY <3>1
    <3> QED BY <3>3, <3>4 DEF o, out, k
  <2>3. ASSUME NEW e \in IntoSet(u) PROVE e \in {shift(c) : c \in Unspent(stable)}
    <3>1. PICK o \in DOMAIN u.utxos :
             e = [outpoint |-> o, output |-> u.utxos[o].output, height |-> u.utxos[o].height]
      BY DEF IntoSet
    <3>2. PICK c \in Unspent(stable) : /\ c.outpoint = o /\ c.output = u.utxos[o].output
                                       /\ u.utxos[o].height = At[c.height]
      BY <2>1, ReplaySet
    <3>3. e = shift(c)
      BY <2>2, <3>1, <3>2
    <3> QED BY <3>3
  <2>4. ASSUME NEW c \in Unspent(stable) PROVE shift(c) \in IntoSet(u)
    <3>1. c.output.address \in AnyAddress
      BY <2>1, UnspentFacts
    <3>2. /\ c.outpoint \in DOMAIN u.utxos
          /\ u.utxos[c.outpoint] = [output |-> c.output, height |-> At[c.height]]
      BY <2>1, <3>1, ReplaySet
    <3>3. [outpoint |-> c.outpoint, output |-> c.output, height |-> At[c.height]] \in IntoSet(u)
      BY <3>2 DEF IntoSet
    <3> QED BY <2>2, <3>3
  <2>5. IntoSet(u) = {shift(c) : c \in Unspent(stable)}
    BY <2>3, <2>4
  <2> QED BY <2>5 DEF UtxosAreReplay, u
<1> QED BY <1>1

\* The UTXO set is what the transactions of the stable chain leave unspent.
THEOREM UtxosReplay == Spec => []UtxosAreReplay
BY ConsistentReplay, ConsistentAlways, PTL

-----------------------------------------------------------------------------
\* What the forest keeps

\* A block is on its own line, and so is whatever is on the line of the block
\* before it.
LEMMA LineSet ==
    ASSUME NEW b \in Blocks
    PROVE  /\ b \in ToSet(Line[b])
           /\ Prev[b] = NoBlock => ToSet(Line[b]) = {b}
           /\ Prev[b] # NoBlock =>
                 /\ Prev[b] \in Blocks
                 /\ Len(Line[b]) = Len(Line[Prev[b]]) + 1
                 /\ ToSet(Line[b]) = ToSet(Line[Prev[b]]) \cup {b}
<1>1. ASSUME Prev[b] = NoBlock PROVE ToSet(Line[b]) = {b}
  <2>1. Line[b] = <<b>>
    BY <1>1, LineDefined
  <2> QED BY <2>1 DEF ToSet
<1>2. ASSUME Prev[b] # NoBlock
      PROVE  /\ Prev[b] \in Blocks
             /\ Len(Line[b]) = Len(Line[Prev[b]]) + 1
             /\ ToSet(Line[b]) = ToSet(Line[Prev[b]]) \cup {b}
  <2> DEFINE s == Line[Prev[b]]
             t == Append(s, b)
  <2>1. Prev[b] \in Blocks /\ Line[b] = t
    BY <1>2, LineDefined, BlocksAssumption
  <2>2. s \in Seq(Blocks) /\ Len(s) \in Nat
    BY <2>1, ValidLine
  <2> HIDE DEF s
  <2>3. /\ t \in Seq(Blocks) /\ Len(t) = Len(s) + 1
        /\ \A i \in 1..Len(s) : t[i] = s[i]
        /\ t[Len(s) + 1] = b
    BY <2>2, AppendProperties
  <2> HIDE DEF t
  <2>4. DOMAIN t = 1..(Len(s) + 1) /\ DOMAIN s = 1..Len(s)
    BY <2>2, <2>3, LenProperties
  <2>5. ToSet(t) = ToSet(s) \cup {b}
    BY <2>2, <2>3, <2>4 DEF ToSet
  <2> QED BY <2>1, <2>3, <2>5 DEF s
<1> QED BY <1>1, <1>2

\* The place of a block on any line is the length of its own.
LEMMA PlaceOnLine ==
    \A b \in Blocks : \A k \in 1..Len(Line[b]) :
        Line[b][k] \in Blocks /\ Len(Line[Line[b][k]]) = k
<1> DEFINE Good(b) == \A k \in 1..Len(Line[b]) :
                          Line[b][k] \in Blocks /\ Len(Line[Line[b][k]]) = k
           Bad == {b \in Blocks : ~Good(b)}
<1>1. SUFFICES ASSUME Bad # {} PROVE FALSE
  OBVIOUS
<1>2. PICK b \in Bad : Prev[b] \notin Bad
  BY <1>1, HashAssumption
<1>3. /\ Line[b][Len(Line[b])] = b /\ Len(Line[b]) \in Nat \ {0}
  BY <1>2, ValidLine
<1>4. CASE Prev[b] = NoBlock
  <2>1. Line[b] = <<b>>
    BY <1>2, <1>4, LineDefined
  <2>2. Len(Line[b]) = 1 /\ 1..1 = {1}
    BY <2>1
  <2>3. Line[b][1] = b
    BY <1>3, <2>2
  <2>4. Good(b)
    BY <1>2, <2>2, <2>3
  <2> QED BY <1>2, <2>4
<1>5. CASE Prev[b] # NoBlock
  <2> DEFINE s == Line[Prev[b]]
             t == Append(s, b)
  <2>1. Prev[b] \in Blocks /\ Line[b] = t /\ Good(Prev[b])
    BY <1>2, <1>5, LineDefined, BlocksAssumption
  <2>2. s \in Seq(Blocks) /\ Len(s) \in Nat
    BY <2>1, ValidLine
  <2>3. \A k \in 1..Len(s) : s[k] \in Blocks /\ Len(Line[s[k]]) = k
    BY <2>1
  <2> HIDE DEF s
  <2>4. /\ Len(t) = Len(s) + 1
        /\ \A i \in 1..Len(s) : t[i] = s[i]
        /\ t[Len(s) + 1] = b
    BY <1>2, <2>2, AppendProperties
  <2>5. ASSUME NEW k \in 1..Len(t) PROVE t[k] \in Blocks /\ Len(Line[t[k]]) = k
    <3>1. CASE k \in 1..Len(s)
      BY <2>3, <2>4, <3>1
    <3>2. CASE k \notin 1..Len(s)
      <4>1. k = Len(s) + 1
        BY <2>2, <2>4, <3>2
      <4>2. t[k] = b /\ Len(Line[b]) = k
        BY <2>1, <2>4, <4>1
      <4> QED BY <1>2, <4>2
    <3> QED BY <3>1, <3>2
  <2> HIDE DEF t
  <2>6. Good(b)
    BY <2>1, <2>5
  <2> QED BY <1>2, <2>6
<1> QED BY <1>4, <1>5

\* What lies on a line is no longer than it, and two blocks of the same line and
\* after the same block are the same.
LEMMA OnLine ==
    ASSUME NEW d \in Blocks, NEW p \in ToSet(Line[d])
    PROVE  /\ p \in Blocks
           /\ Len(Line[p]) \in 1..Len(Line[d])
           /\ p = Line[d][Len(Line[p])]
<1>1. Line[d] \in Seq(Blocks) /\ DOMAIN Line[d] = 1..Len(Line[d])
  BY ValidLine, LenProperties
<1>2. PICK k \in 1..Len(Line[d]) : p = Line[d][k]
  BY <1>1 DEF ToSet
<1> QED BY <1>2, PlaceOnLine

LEMMA DescendsFurther ==
    ASSUME NEW d \in Blocks, NEW p \in Blocks, NEW a \in Blocks,
           Descends(d, p), Prev[p] = a
    PROVE  Descends(d, a)
<1> DEFINE Bad == {c \in Blocks : p \in ToSet(Line[c]) /\ a \notin ToSet(Line[c])}
<1>1. Prev[p] # NoBlock
  BY BlocksAssumption
<1>2. Bad = {}
  <2>1. SUFFICES ASSUME Bad # {} PROVE FALSE
    OBVIOUS
  <2>2. PICK c \in Bad : Prev[c] \notin Bad
    BY <2>1, HashAssumption
  <2>3. c # p
    BY <1>1, <2>2, LineSet
  <2>4. c \in Blocks /\ p \in ToSet(Line[c]) /\ a \notin ToSet(Line[c])
    BY <2>2
  <2>5. /\ Prev[c] \in Blocks
        /\ p \in ToSet(Line[Prev[c]]) /\ a \notin ToSet(Line[Prev[c]])
    <3>1. Prev[c] # NoBlock
      <4>1. Prev[c] = NoBlock => ToSet(Line[c]) = {c}
        BY <2>4, LineSet
      <4> QED BY <2>3, <2>4, <4>1
    <3>2. Prev[c] \in Blocks /\ ToSet(Line[c]) = ToSet(Line[Prev[c]]) \cup {c}
      BY <2>4, <3>1, LineSet
    <3> QED BY <2>3, <2>4, <3>2
  <2> QED BY <2>2, <2>5
<1>3. p \in ToSet(Line[d]) /\ a \in ToSet(Line[d])
  BY <1>2 DEF Descends
<1>4. Len(Line[p]) <= Len(Line[d]) /\ Len(Line[p]) = Len(Line[a]) + 1
  BY <1>1, <1>3, OnLine, LineSet
<1>5. Len(Line[a]) \in Nat /\ Len(Line[d]) \in Nat
  BY ValidLine
<1>6. d # a
  BY <1>4, <1>5
<1> QED BY <1>3, <1>6 DEF Descends

LEMMA ParentInTree ==
    ASSUME NEW t \in Linked, NEW n \in t, n.at # <<>>
    PROVE  \E m \in t : Prev[n.block] = m.block
<1>1. t \in Tree
  BY DEF Linked
<1>2. n.at \in Position
  BY <1>1, TreeFacts
<1>3. /\ Front(n.at) \in Position
      /\ Len(n.at) \in Nat \ {0} /\ Len(Front(n.at)) = Len(n.at) - 1
  BY <1>2, ParentPosition
<1> DEFINE q == Front(n.at)
           j == Len(n.at) - 1
<1>4. \E m \in t : m.at = q
  <2>1. CASE q = <<>>
    BY <1>1, <2>1, TreeFacts
  <2>2. CASE q # <<>>
    <3>1. /\ Front(q) \in Position /\ Last(q) \in Nat \ {0}
          /\ Append(Front(q), Last(q)) = q
      BY <1>3, <2>2, ParentPosition
    <3>2. Append(q, Last(n.at)) = n.at /\ Last(n.at) \in Nat \ {0}
      BY <1>2, ParentPosition
    <3>3. <<Last(n.at)>> \in Position /\ q \o <<Last(n.at)>> = Append(q, Last(n.at))
      <4>1. <<Last(n.at)>> \in Position
        BY <3>2 DEF Position
      <4>2. q \in Seq(Nat \ {0}) /\ Last(n.at) \in Nat \ {0}
        BY <1>3, <3>2 DEF Position
      <4>3. q \o <<Last(n.at)>> = Append(q, Last(n.at))
        BY <4>2, AppendIsConcat
      <4> QED BY <4>1, <4>3
    <3>4. n.at = Append(Front(q), Last(q)) \o <<Last(n.at)>>
      BY <3>1, <3>2, <3>3
    <3>5. Last(q) \in 1..Last(q)
      BY <3>1
    <3> HIDE DEF q
    <3>6. \E m \in t : m.at = Append(Front(q), Last(q))
      BY ZenonT(30), <1>1, <3>1, <3>3, <3>4, <3>5, EarlierSiblings
    <3> QED BY <3>1, <3>6
  <2> QED BY <2>1, <2>2
<1> QED BY <1>4 DEF Linked

\* The root of a tree is on the line of each of its blocks.
LEMMA RootOnLine ==
    ASSUME NEW t \in Linked, NEW n \in t
    PROVE  n.block \in Blocks /\ Root(t) \in ToSet(Line[n.block])
<1> DEFINE Bad == {b \in BlocksOf(t) : Root(t) \notin ToSet(Line[b])}
<1>1. /\ t \in Tree /\ Root(t) \in Blocks
      /\ \A m \in t : m.block \in Blocks /\ (m.at = <<>> => m.block = Root(t))
  BY TreeFacts, RootProperties DEF Linked
<1>2. BlocksOf(t) \subseteq Blocks
  BY <1>1 DEF BlocksOf
<1>3. Bad = {}
  <2>1. SUFFICES ASSUME Bad # {} PROVE FALSE
    OBVIOUS
  <2>2. PICK b \in Bad : Prev[b] \notin Bad
    BY <1>2, <2>1, HashAssumption
  <2>3. PICK m \in t : m.block = b
    BY <2>2 DEF BlocksOf
  <2>4. m.at # <<>>
    BY <1>1, <2>2, <2>3, LineSet
  <2>5. PICK up \in t : Prev[b] = up.block
    BY <2>3, <2>4, ParentInTree
  <2>6. Prev[b] \in BlocksOf(t) /\ Prev[b] # NoBlock /\ b \in Blocks
    BY <1>2, <2>2, <2>5, <1>1, BlocksAssumption DEF BlocksOf
  <2>7. Root(t) \in ToSet(Line[Prev[b]])
    BY <2>2, <2>6
  <2> QED BY <2>2, <2>6, <2>7, LineSet
<1>4. n.block \in BlocksOf(t)
  BY DEF BlocksOf
<1> QED BY <1>1, <1>3, <1>4

\* A descendant of p in a tree above the anchor that p follows: the tree is p's.
LEMMA AttachedRoot ==
    ASSUME NEW t \in Linked, NEW n \in t, NEW p \in Blocks, NEW a \in Blocks,
           Descends(n.block, p), Prev[p] = a, Attached(t, a)
    PROVE  Root(t) = p
<1> DEFINE d == n.block
           r == Root(t)
<1>1. d \in Blocks /\ r \in ToSet(Line[d]) /\ p \in ToSet(Line[d])
  BY RootOnLine DEF Descends
<1>2. r \in Blocks /\ Prev[r] = a
  BY <1>1, OnLine DEF Attached
<1>3. a # NoBlock
  BY BlocksAssumption
<1>4. Len(Line[r]) = Len(Line[p])
  BY <1>2, <1>3, LineSet
<1> HIDE DEF d, r
<1>5. r = Line[d][Len(Line[r])] /\ p = Line[d][Len(Line[p])]
  BY <1>1, OnLine
<1> QED BY <1>4, <1>5 DEF r

\* insert_block loses a block above the new anchor only to a twin of its tree.
LEMMA InsertKeeps ==
    ASSUME NEW s, NEW b \in Blocks,
           DOMAIN s = {"height", "latest_stable_block_hash", "utxos", "unstable_blocks"},
           s.unstable_blocks \in Seq(Linked), s.latest_stable_block_hash \in Blocks,
           NEW d \in GetBlocks(s.unstable_blocks) \cup {b},
           Descends(d, Insert(s, b).latest_stable_block_hash)
    PROVE  \/ d \in GetBlocks(Insert(s, b).unstable_blocks)
           \/ Twins(s.unstable_blocks, s.latest_stable_block_hash)
<1> DEFINE trees == Push(s.unstable_blocks, b)
           anchor == s.latest_stable_block_hash
           popped == Pop(trees, anchor)
           after == Insert(s, b)
<1>1. /\ trees \in Seq(Linked)
      /\ GetBlocks(trees) = GetBlocks(s.unstable_blocks) \cup {b}
      /\ Twins(trees, anchor) => Twins(s.unstable_blocks, anchor)
  BY PushLinked, PushBlocks
<1>2. /\ after.unstable_blocks = popped.trees
      /\ after.latest_stable_block_hash = IF popped.block = NoBlock THEN anchor ELSE popped.block
      /\ popped.block # NoBlock => popped.block \in Blocks /\ Prev[popped.block] = anchor
  BY BlocksAssumption, InsertForest
<1>3. d \in GetBlocks(trees)
  BY <1>1
<1> HIDE DEF trees, after
<1>4. /\ popped.block = NoBlock => GetBlocks(trees) \subseteq GetBlocks(popped.trees)
      /\ popped.block # NoBlock => \E i \in DOMAIN trees : PopsRoot(trees, anchor, i)
  BY <1>1, PopBlocks
<1>5. CASE popped.block = NoBlock
  BY <1>2, <1>3, <1>4, <1>5 DEF after
<1>6. CASE popped.block # NoBlock
  <2> DEFINE p == popped.block
  <2>1. PICK i \in DOMAIN trees : PopsRoot(trees, anchor, i)
    BY <1>4, <1>6
  <2>2. PICK j \in DOMAIN trees : d \in BlocksOf(trees[j])
    BY <1>3, InForest
  <2>3. PICK n \in trees[j] : n.block = d
    BY <2>2 DEF BlocksOf
  <2>4. trees[j] \in Linked
    BY <1>1, ElementOfSeq, LenProperties
  <2>5. p \in Blocks /\ Prev[p] = anchor /\ Descends(d, p) /\ d # p
    BY <1>2, <1>6 DEF Descends, after
  <2>6. /\ Attached(trees[i], anchor) /\ Root(trees[i]) = p
        /\ \/ d \in GetBlocks(popped.trees)
           \/ j # i /\ Attached(trees[j], anchor)
    BY <2>1, <2>3, <2>5 DEF PopsRoot
  <2> HIDE DEF popped, p
  <2>7. ASSUME j # i, Attached(trees[j], anchor) PROVE Twins(trees, anchor)
    <3>1. Root(trees[j]) = p
      BY <2>3, <2>4, <2>5, <2>7, AttachedRoot
    <3> QED BY <2>6, <2>7, <3>1 DEF Twins
  <2> QED BY <1>1, <1>2, <2>6, <2>7 DEF after
<1> QED BY <1>5, <1>6

\* Whatever comes, and however often, insert_block() loses a block above the
\* anchor only if two trees above the anchor had the same root.
THEOREM LossesAreTwins == Spec => LostOnlyToTwins
<1> DEFINE Kept ==
             \A b \in GetBlocks(state.unstable_blocks) \cup (delivered' \ delivered) :
                 Descends(b, Anchor') =>
                     \/ b \in GetBlocks(state'.unstable_blocks)
                     \/ Twins(state.unstable_blocks, Anchor)
<1>1. SInv /\ [Next]_vars => [Kept]_vars
  <2> SUFFICES ASSUME SInv, [Next]_vars PROVE [Kept]_vars
    OBVIOUS
  <2>1. ASSUME NEW b \in Blocks, InsertBlock(b) PROVE Kept
    <3>1. state' = Insert(state, b) /\ delivered' \ delivered \subseteq {b}
      BY <2>1 DEF InsertBlock
    <3> QED BY <3>1, InsertKeeps DEF SInv, Consistent, Anchor
  <2> QED BY <2>1 DEF Next
<1> QED BY <1>1, ConsistentAlways, PTL DEF Spec, LostOnlyToTwins

\* The forest of blocks that come once: each block is in it at most once.
OnceInv ==
    /\ SInv
    /\ Single(state.unstable_blocks)
    /\ GetBlocks(state.unstable_blocks) \subseteq delivered
    /\ DescendantsKept

LEMMA SingleHasNoTwins ==
    ASSUME NEW trees \in Seq(Linked), Single(trees), NEW anchor
    PROVE  ~Twins(trees, anchor)
<1>1. ASSUME NEW i \in DOMAIN trees, NEW j \in DOMAIN trees, i # j,
             Root(trees[i]) = Root(trees[j])
      PROVE  FALSE
  <2>1. trees[i] \in Linked /\ trees[j] \in Linked
    BY ElementOfSeq, LenProperties
  <2>2. \A t \in Linked : Root(t) \in BlocksOf(t)
    BY TreeFacts, RootProperties DEF Linked, BlocksOf
  <2> QED BY <1>1, <2>1, <2>2 DEF Single
<1> QED BY <1>1 DEF Twins

LEMMA InitOnce == Init => OnceInv
<1>1. ASSUME Init PROVE OnceInv
  <2>1. SInv /\ state.unstable_blocks = <<>> /\ state.latest_stable_block_hash = Genesis /\ delivered = {Genesis}
    BY <1>1, InitConsistent DEF Init, NewState, EmptyForest
  <2>2. DOMAIN state.unstable_blocks = {}
    BY <2>1
  <2>3. Single(state.unstable_blocks) /\ GetBlocks(state.unstable_blocks) = {}
    BY <2>2 DEF Single, GetBlocks
  <2>4. DescendantsKept
    BY <2>1 DEF DescendantsKept, Descends, Anchor
  <2> QED BY <2>1, <2>3, <2>4 DEF OnceInv
<1> QED BY <1>1

LEMMA NextKeepsOnce == OnceInv /\ [NextOnce]_vars => OnceInv'
<1>1. ASSUME OnceInv, NEW b \in Blocks \ delivered, InsertBlock(b) PROVE OnceInv'
  <2> DEFINE s == state
             forest == state.unstable_blocks
             trees == Push(forest, b)
             anchor == state.latest_stable_block_hash
             popped == Pop(trees, anchor)
  <2>1. SInv'
    BY <1>1, NextConsistent DEF Next, OnceInv
  <2>2. /\ DOMAIN s = {"height", "latest_stable_block_hash", "utxos", "unstable_blocks"}
        /\ forest \in Seq(Linked) /\ anchor \in Blocks
    BY <1>1 DEF OnceInv, SInv, Consistent
  <2>3. state' = Insert(s, b) /\ delivered' = delivered \cup {b} /\ delivered \subseteq Blocks
    BY <1>1 DEF InsertBlock, OnceInv, SInv
  <2>4. /\ state'.unstable_blocks = popped.trees
        /\ state'.latest_stable_block_hash = IF popped.block = NoBlock THEN anchor ELSE popped.block
        /\ popped.block # NoBlock => popped.block \in Blocks /\ Prev[popped.block] = anchor
    BY <2>2, <2>3, InsertForest, BlocksAssumption
  <2>5. /\ Single(forest) /\ GetBlocks(forest) \subseteq delivered /\ DescendantsKept
    BY <1>1 DEF OnceInv
  <2>6. /\ trees \in Seq(Linked)
        /\ GetBlocks(trees) = GetBlocks(forest) \cup {b} /\ Single(trees)
    BY <1>1, <2>2, <2>5, PushLinked, PushBlocks
  <2> HIDE DEF trees
  <2>7. Single(popped.trees) /\ GetBlocks(popped.trees) \subseteq GetBlocks(trees)
    BY <2>6, PopBlocks
  <2>8. DescendantsKept'
    <3>1. ASSUME NEW d \in delivered', Descends(d, Anchor')
          PROVE  d \in GetBlocks(state'.unstable_blocks)
      <4>1. Descends(d, anchor)
        BY <2>2, <2>3, <2>4, <3>1, DescendsFurther DEF Anchor
      <4>2. d \in GetBlocks(forest) \cup {b}
        BY <2>3, <2>5, <3>1, <4>1 DEF DescendantsKept, Anchor
      <4>3. ~Twins(forest, anchor)
        BY <2>2, <2>5, SingleHasNoTwins
      <4> QED BY <1>1, <2>2, <2>3, <3>1, <4>2, <4>3, InsertKeeps DEF Anchor
    <3> QED BY <3>1 DEF DescendantsKept, Descends
  <2> QED BY <2>1, <2>3, <2>4, <2>5, <2>6, <2>7, <2>8 DEF OnceInv
<1>2. ASSUME OnceInv, UNCHANGED vars PROVE OnceInv'
  BY <1>2 DEF OnceInv, SInv, DescendantsKept, Descends, Anchor, vars
<1> QED BY <1>1, <1>2 DEF NextOnce

\* Delivered once, in any order: every block above the anchor stays in the forest.
THEOREM KeepsDescendants == SpecOnce => []DescendantsKept
<1>1. OnceInv => DescendantsKept
  BY DEF OnceInv
<1> QED BY <1>1, InitOnce, NextKeepsOnce, PTL DEF SpecOnce

-----------------------------------------------------------------------------
\* Several blocks in one call

\* The states that stand for a chain, with the chain.
ChainState ==
    [state : [height : Nat, latest_stable_block_hash : Blocks, utxos : UtxoState,
              unstable_blocks : Seq(Linked)],
     stable : Seq(Blocks)]

Standing == {r \in ChainState : Consistent(r.state, r.stable)}

InsertNext(r, b) ==
    [state |-> Insert(r.state, b), stable |-> StableAfter(r.stable, r.state, Insert(r.state, b))]

LEMMA ConsistentStanding ==
    ASSUME NEW s, NEW chain, Consistent(s, chain)
    PROVE  [state |-> s, stable |-> chain] \in Standing
<1> DEFINE r == [state |-> s, stable |-> chain]
<1>1. r.state = s /\ r.stable = chain
  OBVIOUS
<1>2. /\ s.height \in Nat /\ s.latest_stable_block_hash \in Blocks
      /\ s.utxos \in UtxoState /\ s.unstable_blocks \in Seq(Linked)
      /\ chain \in Seq(Blocks)
  BY ValidLine DEF Consistent, IsReplay, Sound
<1>3. s = [height |-> s.height, latest_stable_block_hash |-> s.latest_stable_block_hash,
           utxos |-> s.utxos, unstable_blocks |-> s.unstable_blocks]
  BY DEF Consistent, IsState
<1> QED BY <1>1, <1>2, <1>3 DEF Standing, ChainState

\* The states that a call which inserts several blocks goes through.
InsertRun(h, bs) ==
    /\ h \in [0..Len(bs) -> Standing]
    /\ h[0] = [state |-> state, stable |-> stable] /\ h[Len(bs)] = InsertAll(bs)
    /\ \A k \in 1..Len(bs) : h[k] = InsertNext(h[k - 1], bs[k])

LEMMA InsertAllRun ==
    ASSUME Consistent(state, stable), NEW bs \in Seq(Blocks)
    PROVE  \E h : InsertRun(h, bs)
<1> DEFINE n == Len(bs)
           base == [state |-> state, stable |-> stable]
           step(r, b) == IF Traps(r.state) THEN r ELSE InsertNext(r, b)
           g == [k \in 1..n |-> [r \in Standing |-> step(r, bs[k])]]
           Good(f) == f = [s \in SUBSET (1..n) |->
                              IF s = {} THEN base ELSE step(f[s \ {Max(s)}], bs[Max(s)])]
           c == CHOOSE f : Good(f)
<1>1. n \in Nat /\ DOMAIN bs = 1..n /\ \A k \in 1..n : bs[k] \in Blocks
  BY LenProperties, ElementOfSeq
<1>2. base \in Standing
  BY ConsistentStanding
<1>3. InsertAll(bs) = c[1..n]
  BY <1>1 DEF InsertAll, FoldLeft, MapThenFoldSet, InsertNext
<1> HIDE DEF n, base
<1>4. StepsOf(g, n, Standing)
  <2>1. \A k \in 1..n : \A r \in Standing : step(r, bs[k]) \in Standing
    <3>1. ASSUME NEW k \in 1..n, NEW r \in Standing PROVE step(r, bs[k]) \in Standing
      <4>1. Consistent(r.state, r.stable) /\ bs[k] \in Blocks
        BY <1>1 DEF Standing
      <4>2. InsertNext(r, bs[k]) \in Standing
        BY <4>1, InsertConsistent, ConsistentStanding DEF InsertNext
      <4> QED BY <4>2
    <3> QED BY <3>1
  <2> HIDE DEF step
  <2> QED BY <2>1 DEF StepsOf
<1>5. Good(c)
  <2>1. PICK f : IsFoldLeft(f, n, Standing, base, g)
    <3> HIDE DEF g
    <3> QED BY <1>1, <1>2, <1>4, FoldLeftExists
  <2>2. Good(f)
    <3> HIDE DEF step
    <3> QED BY <2>1 DEF IsFoldLeft
  <2> QED BY <2>2
<1> HIDE DEF c
<1>6. /\ c[{}] = base
      /\ \A k \in 1..n : c[1..k] = step(c[1..(k - 1)], bs[k])
  <2>1. \A k \in 1..n : 1..k \in SUBSET (1..n) /\ k \in Nat \ {0}
    BY <1>1
  <2> HIDE DEF step
  <2> QED BY <1>5, <2>1, IntervalSteps
<1>7. \E h : IsRun(h, n, Standing, base, g) /\ h[n] = c[1..n]
  <2>1. FoldsTo(c, n, Standing, base, g)
    <3> HIDE DEF step
    <3> QED BY <1>6 DEF FoldsTo
  <2> HIDE DEF g
  <2> QED BY <1>1, <1>2, <1>4, <2>1, RunOfFold
<1>8. \A k \in 1..n : k - 1 \in 0..n
  BY <1>1
<1>9. ASSUME NEW r \in Standing, NEW k \in 1..n PROVE step(r, bs[k]) = InsertNext(r, bs[k])
  BY DEF Standing, Consistent, IsReplay, Sound, Traps
<1> HIDE DEF step
<1>10. PICK h : /\ h \in [0..n -> Standing] /\ h[0] = base /\ h[n] = c[1..n]
                /\ \A k \in 1..n : h[k] = step(h[k - 1], bs[k])
  BY <1>7, <1>8 DEF IsRun
<1>11. \A k \in 1..n : h[k] = InsertNext(h[k - 1], bs[k])
  BY <1>8, <1>9, <1>10
<1>12. InsertRun(h, bs)
  BY <1>3, <1>10, <1>11 DEF InsertRun, n, base
<1> QED BY <1>12

LEMMA InsertAllConsistent ==
    ASSUME Consistent(state, stable), NEW bs \in Seq(Blocks)
    PROVE  LET after == InsertAll(bs) IN
           ~Traps(after.state) /\ Consistent(after.state, after.stable)
<1>1. PICK h : InsertRun(h, bs)
  BY InsertAllRun
<1>2. InsertAll(bs) \in Standing
  <2>1. Len(bs) \in 0..Len(bs)
    BY LenProperties
  <2> QED BY <1>1, <2>1 DEF InsertRun
<1> QED BY <1>2 DEF Standing, Traps, Consistent, IsReplay, Sound

-----------------------------------------------------------------------------
\* The views: what get_utxos and get_balance answer

\* A block taken off the end of a chain.
LEMMA ChainEnd ==
    ASSUME NEW S, NEW l \in Seq(S), NEW c \in Seq(S), NEW k \in 1..Len(c)
    PROVE  l \o SubSeq(c, 1, k) = Append(l \o SubSeq(c, 1, k - 1), c[k])
<1> DEFINE p == SubSeq(c, 1, k - 1)
<1>1. p \in Seq(S) /\ c[k] \in S
  OBVIOUS
<1>2. SubSeq(c, 1, k) = Append(p, c[k])
  OBVIOUS
<1> HIDE DEF p
<1>3. /\ Append(p, c[k]) = p \o <<c[k]>>
      /\ <<c[k]>> \in Seq(S)
      /\ l \o p \in Seq(S)
  BY <1>1, AppendIsConcat
<1>4. Append(l \o p, c[k]) = (l \o p) \o <<c[k]>>
  BY <1>1, <1>3, AppendIsConcat
<1>5. l \o (p \o <<c[k]>>) = (l \o p) \o <<c[k]>>
  BY SMTT(30), <1>1, <1>3, ConcatAssociative
<1> QED BY <1>2, <1>3, <1>4, <1>5 DEF p

\* A chain above an anchor continues the line of the anchor.
LEMMA ChainContinues ==
    ASSUME NEW a \in Blocks, NEW c, IsChain(c, a)
    PROVE  \A k \in 0..Len(c) :
              Line[a] \o SubSeq(c, 1, k) = Line[IF k = 0 THEN a ELSE c[k]]
<1> DEFINE n == Len(c)
           top(k) == IF k = 0 THEN a ELSE c[k]
           P == {k \in 0..n : Line[a] \o SubSeq(c, 1, k) = Line[top(k)]}
<1>1. c \in Seq(Blocks) /\ n \in Nat /\ Line[a] \in Seq(Blocks)
  BY ValidLine DEF IsChain
<1>2. 0 \in P
  <2>1. SubSeq(c, 1, 0) = <<>>
    BY <1>1
  <2>2. Line[a] \o <<>> = Line[a]
    BY <1>1, ConcatEmptySeq
  <2> QED BY <1>1, <2>1, <2>2
<1>3. ASSUME NEW k \in 1..n, k - 1 \in P PROVE k \in P
  <2>1. Line[a] \o SubSeq(c, 1, k - 1) = Line[top(k - 1)]
    BY <1>3
  <2>2. Line[a] \o SubSeq(c, 1, k) = Append(Line[a] \o SubSeq(c, 1, k - 1), c[k])
    BY <1>1, ChainEnd
  <2>3. c[k] \in Blocks /\ Prev[c[k]] = top(k - 1)
    BY <1>1 DEF IsChain
  <2>4. top(k - 1) \in Blocks
    BY <1>1
  <2>5. Line[c[k]] = Append(Line[top(k - 1)], c[k])
    <3>1. Prev[c[k]] # NoBlock
      BY <2>3, <2>4, BlocksAssumption
    <3> HIDE DEF top
    <3> QED BY <2>3, <3>1, LineDefined
  <2>6. top(k) = c[k] /\ k \in 0..n
    BY <1>1
  <2> HIDE DEF top
  <2> QED BY <2>1, <2>2, <2>5, <2>6
<1>4. \A k \in 0..n : k \in P
  <2> HIDE DEF P
  <2> QED BY <1>1, <1>2, <1>3, Induct
<1> QED BY <1>4

\* The sets of transactions and their heights that get_utxos applies.
BlockEntries(d, low) == [i \in 1..Len(d) |-> [block |-> d[i], height |-> low + i]]

ApplyEntries(u, entries) ==
    FoldLeft(LAMBDA v, e : InsertTxs(v, Txs[e.block], e.height), u, entries)

LEMMA ApplyRun ==
    ASSUME NEW u \in UtxoState, NEW d \in Seq(Blocks), NEW low \in Nat
    PROVE  \E h : /\ h \in [0..Len(d) -> UtxoState]
                  /\ h[0] = u /\ h[Len(d)] = ApplyEntries(u, BlockEntries(d, low))
                  /\ \A k \in 1..Len(d) : h[k] = InsertTxs(h[k - 1], Txs[d[k]], low + k)
<1> DEFINE n == Len(d)
           es == BlockEntries(d, low)
           step(v, k) == InsertTxs(v, Txs[es[k].block], es[k].height)
           g == [k \in 1..n |-> [v \in UtxoState |-> step(v, k)]]
           Good(f) == f = [s \in SUBSET (1..n) |->
                              IF s = {} THEN u ELSE step(f[s \ {Max(s)}], Max(s))]
           c == CHOOSE f : Good(f)
<1>1. n \in Nat /\ DOMAIN es = 1..n
      /\ \A k \in 1..n : d[k] \in Blocks /\ es[k] = [block |-> d[k], height |-> low + k]
  BY LenProperties, ElementOfSeq DEF BlockEntries
<1>2. \A k \in 1..n : es[k].block = d[k] /\ es[k].height = low + k
  BY <1>1
<1>3. ApplyEntries(u, es) = c[1..n]
  BY <1>1 DEF ApplyEntries, FoldLeft, MapThenFoldSet
<1> HIDE DEF n, es
<1>4. StepsOf(g, n, UtxoState)
  <2>1. \A k \in 1..n : \A v \in UtxoState : step(v, k) \in UtxoState
    <3>1. ASSUME NEW k \in 1..n, NEW v \in UtxoState PROVE step(v, k) \in UtxoState
      <4>1. d[k] \in Blocks /\ low + k \in Nat /\ step(v, k) = InsertTxs(v, Txs[d[k]], low + k)
        BY <1>1, <1>2
      <4>2. TxsOK(Txs[d[k]])
        BY <4>1, StateAssumption DEF TxsOK
      <4>3. PICK h : TxsRun(h, v, Txs[d[k]], low + k)
        BY <4>1, <4>2, InsertTxsRun
      <4>4. Len(Txs[d[k]]) \in Nat
        BY <4>1, StateAssumption
      <4> QED BY <4>1, <4>3, <4>4, SMTT(30) DEF TxsRun
    <3> QED BY <3>1
  <2> HIDE DEF step
  <2> QED BY <2>1 DEF StepsOf
<1>5. Good(c)
  <2>1. PICK f : IsFoldLeft(f, n, UtxoState, u, g)
    <3> HIDE DEF g
    <3> QED BY <1>1, <1>4, FoldLeftExists
  <2>2. Good(f)
    <3> HIDE DEF step
    <3> QED BY <2>1 DEF IsFoldLeft
  <2> QED BY <2>2
<1> HIDE DEF c
<1>6. /\ c[{}] = u
      /\ \A k \in 1..n : c[1..k] = step(c[1..(k - 1)], k)
  <2>1. \A k \in 1..n : 1..k \in SUBSET (1..n) /\ k \in Nat \ {0}
    BY <1>1
  <2> HIDE DEF step
  <2> QED BY <1>5, <2>1, IntervalSteps
<1>7. PICK h : IsRun(h, n, UtxoState, u, g) /\ h[n] = c[1..n]
  <2>1. FoldsTo(c, n, UtxoState, u, g)
    <3> HIDE DEF step
    <3> QED BY <1>6 DEF FoldsTo
  <2> HIDE DEF g
  <2> QED BY <1>1, <1>4, <2>1, RunOfFold
<1>8. h \in [0..n -> UtxoState] /\ h[0] = u
  BY <1>7 DEF IsRun
<1>9. \A k \in 1..n : h[k] = InsertTxs(h[k - 1], Txs[d[k]], low + k)
  <2>1. ASSUME NEW k \in 1..n PROVE h[k] = InsertTxs(h[k - 1], Txs[d[k]], low + k)
    <3>1. k - 1 \in 0..n
      BY <1>1
    <3>2. h[k] = g[k][h[k - 1]] /\ h[k - 1] \in UtxoState
      BY <1>7, <1>8, <3>1 DEF IsRun
    <3>3. g[k][h[k - 1]] = step(h[k - 1], k)
      <4> HIDE DEF step
      <4> QED BY <3>2
    <3> QED BY <1>2, <3>2, <3>3
  <2> QED BY <2>1
<1> QED BY <1>3, <1>7, <1>8, <1>9 DEF n, es
HeightsAbove(H, n) == [i \in Nat |-> IF i <= n THEN H[i] ELSE i]

\* Applying the blocks above a chain to a set that is a replay of the chain gives
\* a replay of the longer chain.
LEMMA ReplayAbove ==
    ASSUME NEW chain \in Seq(Blocks), NEW d \in Seq(Blocks), IsValid(chain \o d),
           NEW H \in [Nat -> Nat], NEW W, NEW u,
           IsReplay(u, chain, TxPlaces(chain), H, W), u.strict => W = AnyAddress
    PROVE  LET l == chain \o d IN
           ReplaysTo(ApplyEntries(u, BlockEntries(d, Len(chain))), u,
                     l, TxPlaces(l), HeightsAbove(H, Len(chain)), W)
<1> DEFINE l == chain \o d
           n == Len(chain)
           J == HeightsAbove(H, n)
<1>1. /\ l \in Seq(Blocks) /\ n \in Nat /\ Len(d) \in Nat /\ Len(l) = n + Len(d)
      /\ \A k \in 1..n : l[k] = chain[k]
      /\ \A k \in 1..Len(d) : l[n + k] = d[k]
  <2> DEFINE B == Blocks
  <2>1. chain \in Seq(B) /\ d \in Seq(B)
    OBVIOUS
  <2> HIDE DEF B
  <2>2. /\ chain \o d \in Seq(B)
        /\ Len(chain) \in Nat /\ Len(d) \in Nat
        /\ Len(chain \o d) = Len(chain) + Len(d)
        /\ \A k \in 1..Len(chain) : (chain \o d)[k] = chain[k]
        /\ \A k \in 1..Len(d) : (chain \o d)[Len(chain) + k] = d[k]
    BY <2>1, ConcatParts
  <2> QED BY <2>2 DEF B
<1>2. u \in UtxoState
  BY SoundFacts DEF IsReplay
<1>3. /\ J \in [Nat -> Nat]
      /\ \A i \in 1..n : H[i] = J[i]
      /\ \A k \in 1..Len(d) : J[n + k] = n + k
  <2>1. J = [i \in Nat |-> IF i <= n THEN H[i] ELSE i]
    BY DEF HeightsAbove
  <2> HIDE DEF J, n
  <2>2. J \in [Nat -> Nat]
    BY <2>1
  <2>3. \A i \in 1..n : i \in Nat /\ i <= n
    BY <1>1
  <2>4. \A k \in 1..Len(d) : n + k \in Nat /\ ~(n + k <= n)
    BY <1>1
  <2> QED BY <2>1, <2>2, <2>3, <2>4
<1>4. PICK h : /\ h \in [0..Len(d) -> UtxoState]
               /\ h[0] = u /\ h[Len(d)] = ApplyEntries(u, BlockEntries(d, n))
               /\ \A k \in 1..Len(d) : h[k] = InsertTxs(h[k - 1], Txs[d[k]], n + k)
  BY <1>1, <1>2, ApplyRun, ZenonT(30)
<1> HIDE DEF l, n, J
<1> DEFINE P == {k \in 0..Len(d) :
                    ReplaysTo(h[k], u, l, PlacesBefore(l, <<n + k + 1, 1>>), J, W)}
<1>5. 0 \in P
  <2>1. n + 0 + 1 = n + 1 /\ n <= Len(l)
    BY <1>1
  <2>2. IsReplay(u, l, PlacesBefore(l, <<n + 1, 1>>), J, W)
    BY <1>1, <1>3, <2>1, ReplayLonger DEF n
  <2> QED BY <1>1, <1>4, <2>1, <2>2 DEF ReplaysTo
<1>6. ASSUME NEW k \in 1..Len(d), k - 1 \in P PROVE k \in P
  <2>1. /\ n + (k - 1) + 1 = n + k
        /\ n + k \in 1..Len(l) /\ k \in 0..Len(d)
        /\ (n + k) + 1 = n + k + 1
    BY <1>1
  <2>2. ReplaysTo(h[k - 1], u, l, PlacesBefore(l, <<n + k, 1>>), J, W)
    BY <1>6, <2>1
  <2>3. IsReplay(h[k - 1], l, PlacesBefore(l, <<n + k, 1>>), J, W)
        /\ h[k - 1].strict = u.strict
    BY <2>2 DEF ReplaysTo
  <2>4. IsValid(l)
    BY DEF l
  <2> DEFINE i == n + k
  <2>5. ReplaysTo(InsertTxs(h[k - 1], Txs[l[i]], J[i]), h[k - 1],
                  l, PlacesBefore(l, <<i + 1, 1>>), J, W)
    <3> HIDE DEF i
    <3>1. i \in 1..Len(l)
      BY <2>1 DEF i
    <3>2. IsReplay(h[k - 1], l, PlacesBefore(l, <<i, 1>>), J, W)
      BY <2>3 DEF i
    <3> QED BY <1>1, <1>3, <2>3, <2>4, <3>1, <3>2, ReplayBlock
  <2>6. h[k] = InsertTxs(h[k - 1], Txs[l[i]], J[i])
    BY <1>1, <1>3, <1>4
  <2>7. ReplaysTo(h[k], u, l, PlacesBefore(l, <<n + k + 1, 1>>), J, W)
    BY <2>1, <2>3, <2>5, <2>6 DEF ReplaysTo
  <2> QED BY <2>1, <2>7
<1>7. Len(d) \in P
  <2>1. \A k \in 0..Len(d) : k \in P
    <3> HIDE DEF P
    <3> QED BY <1>1, <1>5, <1>6, Induct
  <2> QED BY <1>1, <2>1
<1>8. PlacesBefore(l, <<n + Len(d) + 1, 1>>) = TxPlaces(l)
  BY <1>1, ReplayWhole
<1> QED BY <1>4, <1>7, <1>8 DEF l, n, J

\* The part of such a set that belongs to an address is what a replay for this
\* address alone leaves.
LEMMA AddressPart ==
    ASSUME NEW chain \in Seq(Blocks), IsValid(chain), NEW H, NEW u,
           IsReplay(u, chain, TxPlaces(chain), H, AnyAddress), NEW a \in Addresses
    PROVE  /\ IsReplay(AddressUtxos(u, a), chain, TxPlaces(chain), H, {a})
           /\ AddressUtxos(u, a).strict = FALSE
<1> DEFINE v == AddressUtxos(u, a)
           A == TxPlaces(chain)
<1>1. Sound(u)
  BY DEF IsReplay
<1>2. /\ Sound(v) /\ v.strict = FALSE
      /\ DOMAIN v.utxos = PaysTo(u, a)
      /\ \A o \in PaysTo(u, a) : v.utxos[o] = u.utxos[o]
  BY <1>1, AddressUtxosSound
<1> HIDE DEF v
<1>3. \A o \in DOMAIN v.utxos : o \in DOMAIN u.utxos /\ v.utxos[o] = u.utxos[o]
  BY <1>2 DEF PaysTo
<1>4. \A o \in DOMAIN v.utxos :
         /\ UnspentAt(chain, A, o)
         /\ \E p : /\ LastCreates(chain, A, p, o)
                   /\ v.utxos[o] = [output |-> OutputOf(TxAt(chain, p), o), height |-> H[p[1]]]
  <2>1. \A o \in DOMAIN u.utxos :
           /\ UnspentAt(chain, A, o)
           /\ \E p : /\ LastCreates(chain, A, p, o)
                     /\ u.utxos[o] = [output |-> OutputOf(TxAt(chain, p), o), height |-> H[p[1]]]
    BY DEF IsReplay
  <2>2. SUFFICES ASSUME NEW o \in DOMAIN v.utxos
        PROVE  /\ UnspentAt(chain, A, o)
               /\ \E p : /\ LastCreates(chain, A, p, o)
                         /\ v.utxos[o] = [output |-> OutputOf(TxAt(chain, p), o), height |-> H[p[1]]]
    OBVIOUS
  <2>3. o \in DOMAIN u.utxos /\ v.utxos[o] = u.utxos[o]
    BY <1>3
  <2> HIDE DEF A
  <2> QED BY <2>1, <2>3
<1>5. ASSUME NEW o \in OutPoint, NEW p \in A,
             Creates(TxAt(chain, p), o), UnspentAt(chain, A, o),
             OutputOf(TxAt(chain, p), o).address \in {a}
      PROVE  o \in DOMAIN v.utxos
  <2>1. a \in AnyAddress
    BY DEF AnyAddress
  <2>2. o \in DOMAIN u.utxos
    BY <1>5, <2>1 DEF IsReplay
  <2>3. PICK q : /\ LastCreates(chain, A, q, o)
                 /\ u.utxos[o] = [output |-> OutputOf(TxAt(chain, q), o), height |-> H[q[1]]]
    BY <2>2 DEF IsReplay
  <2>4. q \in A /\ Creates(TxAt(chain, q), o)
    BY <2>3 DEF LastCreates
  <2>5. TxAt(chain, p).txid = TxAt(chain, q).txid
    BY <1>5, <2>4 DEF Creates
  <2>6. TxAt(chain, p) = TxAt(chain, q)
    BY <2>4, <2>5 DEF IsValid, IdIsValid
  <2>7. u.utxos[o].output.address = a
    BY <1>5, <2>3, <2>6
  <2> QED BY <1>2, <2>2, <2>7 DEF PaysTo
<1> QED BY <1>2, <1>4, <1>5 DEF IsReplay, v
\* An outpoint is unspent once.
LEMMA UnspentOnce ==
    ASSUME NEW chain \in Seq(Blocks), IsValid(chain),
           NEW c \in Unspent(chain), NEW d \in Unspent(chain), c.outpoint = d.outpoint
    PROVE  c = d
<1> DEFINE o == c.outpoint
           A == TxPlaces(chain)
<1>1. PICK p : c = CreatedAt(chain, p, o) /\ LastCreates(chain, A, p, o)
  BY UnspentByPlace
<1>2. PICK q : d = CreatedAt(chain, q, o) /\ LastCreates(chain, A, q, o)
  BY UnspentByPlace
<1>3. p[1] = q[1] /\ OutputOf(TxAt(chain, p), o) = OutputOf(TxAt(chain, q), o)
  BY <1>1, <1>2, LastIsOne
<1> HIDE DEF o
<1> QED BY <1>1, <1>2, <1>3 DEF CreatedAt

\* How many blocks of the current chain a request takes into account, and the
\* chain that ends with the last of them.
NumConfirmed(s, m) == Min({Len(CurrentChain(s)), Len(CurrentChain(s)) + 1 - m})

ConfirmedLine(s, chain, m) == chain \o SubSeq(CurrentChain(s), 1, NumConfirmed(s, m))

LEMMA ConfirmedFacts ==
    ASSUME NEW s, NEW chain, Consistent(s, chain), NEW m \in 0..(Len(CurrentChain(s)) + 1)
    PROVE  LET c == CurrentChain(s)
               k == NumConfirmed(s, m)
               l == ConfirmedLine(s, chain, m)
           IN  /\ IsChain(c, s.latest_stable_block_hash)
               /\ c \in Seq(Blocks) /\ Len(c) \in Nat
               /\ k \in 0..Len(c) /\ Len(c) - k + 1 >= m
               /\ \A i \in 1..Len(c) : Len(c) - i + 1 >= m <=> i <= k
               /\ SubSeq(c, 1, k) \in Seq(Blocks) /\ Len(SubSeq(c, 1, k)) = k
               /\ l \in Seq(Blocks) /\ IsValid(l) /\ Len(l) = Len(chain) + k
               /\ ConfirmedChain(s, m) = BlockEntries(SubSeq(c, 1, k), s.height)
<1> DEFINE c == CurrentChain(s)
           k == NumConfirmed(s, m)
           a == s.latest_stable_block_hash
<1>1. /\ s.unstable_blocks \in Seq(Linked) /\ a \in Blocks
      /\ chain = Line[a] /\ s.height \in Nat \ {0}
  BY DEF Consistent
<1>2. IsChain(c, a)
  BY CurrentChainIsChain, <1>1 DEF CurrentChain
<1>3. c \in Seq(Blocks) /\ Len(c) \in Nat
  BY <1>2 DEF IsChain
<1>4. m \in 0..(Len(c) + 1)
  OBVIOUS
<1>5. k = Min({Len(c), Len(c) + 1 - m})
  BY DEF NumConfirmed
<1>6. ConfirmedChain(s, m) =
         [i \in {i \in 1..Len(c) : Len(c) - i + 1 >= m} |->
             [block |-> c[i], height |-> s.height + i]]
  BY <1>3 DEF ConfirmedChain
<1> HIDE DEF c, k
<1>7. /\ k \in 0..Len(c) /\ Len(c) - k + 1 >= m
      /\ \A i \in 1..Len(c) : Len(c) - i + 1 >= m <=> i <= k
  <2> DEFINE S == {Len(c), Len(c) + 1 - m}
  <2>1. S \in SUBSET Nat /\ S # {}
    BY <1>3, <1>4
  <2>2. Min(S) \in S /\ \A x \in S : Min(S) <= x
    <3> HIDE DEF S
    <3> QED BY <2>1, MinProperties
  <2>3. k \in S /\ k <= Len(c) /\ k <= Len(c) + 1 - m
    BY <1>5, <2>2
  <2> QED BY <1>3, <1>4, <2>1, <2>3
<1>8. /\ SubSeq(c, 1, k) \in Seq(Blocks) /\ Len(SubSeq(c, 1, k)) = k
      /\ \A i \in 1..k : SubSeq(c, 1, k)[i] = c[i]
  BY <1>3, <1>7
<1>9. ConfirmedChain(s, m) = BlockEntries(SubSeq(c, 1, k), s.height)
  <2>1. {i \in 1..Len(c) : Len(c) - i + 1 >= m} = 1..k
    BY <1>3, <1>7
  <2> QED BY <1>6, <1>8, <2>1 DEF BlockEntries
<1> DEFINE l == chain \o SubSeq(c, 1, k)
           b == IF k = 0 THEN a ELSE c[k]
<1>10. l = Line[b] /\ b \in Blocks
  <2>1. b \in Blocks
    BY <1>1, <1>3, <1>7
  <2>2. Line[a] \o SubSeq(c, 1, k) = Line[b]
    <3>1. \A j \in 0..Len(c) : Line[a] \o SubSeq(c, 1, j) = Line[IF j = 0 THEN a ELSE c[j]]
      <4>1. a \in Blocks /\ IsChain(c, a)
        BY <1>1, <1>2
      <4> HIDE DEF a
      <4> QED BY ZenonT(30), <4>1, ChainContinues
    <3> QED BY <1>7, <3>1
  <2> QED BY <1>1, <2>1, <2>2
<1>11. Len(l) = Len(chain) + k
  <2> DEFINE B == Blocks
             d == SubSeq(c, 1, k)
  <2>1. chain \in Seq(B) /\ d \in Seq(B)
    BY <1>1, <1>8, ValidLine
  <2> HIDE DEF B, d
  <2>2. Len(chain \o d) = Len(chain) + Len(d)
    BY <2>1, ConcatParts
  <2> QED BY <1>8, <2>2 DEF d
<1>12. l \in Seq(Blocks) /\ IsValid(l)
  <2> HIDE DEF b
  <2> QED BY <1>10, ValidLine
<1>13. l = ConfirmedLine(s, chain, m)
  BY DEF ConfirmedLine, c, k
<1> HIDE DEF l
<1> QED BY <1>2, <1>3, <1>7, <1>8, <1>9, <1>11, <1>12, <1>13 DEF c, k

\* The unspent outputs of a chain that pay to an address, and how get_utxos
\* shows one.
Mine(chain, a) == {c \in Unspent(chain) : c.output.address = a}

ShownAs(c, H) == [outpoint |-> c.outpoint, output |-> c.output, height |-> H[c.height]]

\* get_utxos shows the unspent outputs of the confirmed chain that pay to the
\* address, and nothing else.
LEMMA ViewOfAddress ==
    ASSUME NEW s, NEW chain, Consistent(s, chain), NEW a \in Addresses,
           NEW m \in 0..(Len(CurrentChain(s)) + 1)
    PROVE  LET mine == Mine(ConfirmedLine(s, chain, m), a)
               H == HeightsAbove(At, s.height)
           IN  /\ GetUtxos(s, a, m) = {ShownAs(c, H) : c \in mine}
               /\ IsFiniteSet(GetUtxos(s, a, m))
<1> DEFINE c == CurrentChain(s)
           k == NumConfirmed(s, m)
           d == SubSeq(c, 1, k)
           l == ConfirmedLine(s, chain, m)
           H == HeightsAbove(At, s.height)
           part == AddressUtxos(s.utxos, a)
           v == AppliedUtxos(s, a, m)
           w == AddressUtxos(v, a)
           shown == GetUtxos(s, a, m)
<1>1. /\ Len(c) \in Nat /\ k \in 0..Len(c) /\ Len(c) - k + 1 >= m
      /\ d \in Seq(Blocks)
      /\ l \in Seq(Blocks) /\ IsValid(l) /\ Len(l) = Len(chain) + k
      /\ ConfirmedChain(s, m) = BlockEntries(d, s.height)
  BY ConfirmedFacts
<1>2. /\ s.height \in Nat \ {0} /\ Len(chain) = s.height
      /\ IsReplay(s.utxos, chain, TxPlaces(chain), At, AnyAddress)
      /\ chain \in Seq(Blocks) /\ IsValid(chain)
  BY ValidLine DEF Consistent
<1>3. l = chain \o d
  BY DEF ConfirmedLine
<1>4. v = ApplyEntries(part, BlockEntries(d, Len(chain)))
  BY <1>1, <1>2 DEF AppliedUtxos, ApplyEntries
<1>5. shown = {u \in IntoSet(w) : (Len(c) + s.height) - u.height + 1 >= m}
  BY DEF GetUtxos, MainChainHeight
<1> HIDE DEF c, k, d, l, v, shown
<1>6. IsReplay(part, chain, TxPlaces(chain), At, {a}) /\ part.strict = FALSE
  BY <1>2, AddressPart
<1> HIDE DEF part
<1>7. IsReplay(v, l, TxPlaces(l), H, {a})
  <2>1. IsValid(chain \o d) /\ At \in [Nat -> Nat] /\ (part.strict => {a} = AnyAddress)
    BY <1>1, <1>3, <1>6, AtFacts
  <2>2. ReplaysTo(ApplyEntries(part, BlockEntries(d, Len(chain))), part,
                  chain \o d, TxPlaces(chain \o d), HeightsAbove(At, Len(chain)), {a})
    BY <1>1, <1>2, <1>6, <2>1, ReplayAbove
  <2> QED BY <1>2, <1>3, <1>4, <2>2 DEF ReplaysTo
<1>8. /\ Sound(v)
      /\ DOMAIN w.utxos = PaysTo(v, a)
      /\ \A o \in PaysTo(v, a) : w.utxos[o] = v.utxos[o]
  <2>1. Sound(v)
    BY <1>7 DEF IsReplay
  <2> QED BY <2>1, AddressUtxosSound
<1> HIDE DEF w
<1>9. /\ \A o \in DOMAIN v.utxos : \E x \in Unspent(l) :
            /\ x.outpoint = o /\ x.output = v.utxos[o].output
            /\ v.utxos[o].height = H[x.height]
      /\ \A x \in Unspent(l) : x.output.address \in {a} =>
            /\ x.outpoint \in DOMAIN v.utxos
            /\ v.utxos[x.outpoint] = [output |-> x.output, height |-> H[x.height]]
  <2> DEFINE W == {a}
  <2>1. IsReplay(v, l, TxPlaces(l), H, W)
    BY <1>7
  <2> HIDE DEF W, H
  <2>2. /\ \A o \in DOMAIN v.utxos : \E x \in Unspent(l) :
              /\ x.outpoint = o /\ x.output = v.utxos[o].output
              /\ v.utxos[o].height = H[x.height]
        /\ \A x \in Unspent(l) : x.output.address \in W =>
              /\ x.outpoint \in DOMAIN v.utxos
              /\ v.utxos[x.outpoint] = [output |-> x.output, height |-> H[x.height]]
    BY <1>1, <2>1, ReplaySet
  <2> QED BY <2>2 DEF W
<1>10. \A x \in Unspent(l) : x.height \in 1..(s.height + k)
  <2> SUFFICES ASSUME NEW x \in Unspent(l) PROVE x.height \in 1..(s.height + k)
    OBVIOUS
  <2>1. x.height \in 1..Len(l)
    BY <1>1, UnspentFacts
  <2> QED BY <1>1, <1>2, <2>1
<1>11. ASSUME NEW x \in Unspent(l)
       PROVE  (Len(c) + s.height) - H[x.height] + 1 >= m
  <2> DEFINE h == x.height
  <2>1. h \in 1..(s.height + k)
    BY <1>10, <1>11
  <2>2. H[h] \in Nat /\ H[h] <= s.height + k
    <3> HIDE DEF h
    <3>1. h \in Nat \ {0}
      BY <1>1, <1>2, <2>1
    <3>2. At[h] \in Nat /\ At[h] <= h
      BY <3>1 DEF At
    <3>3. H[h] = IF h <= s.height THEN At[h] ELSE h
      BY <3>1 DEF HeightsAbove
    <3>4. s.height \in Nat /\ k \in Nat /\ h <= s.height + k
      BY <1>1, <1>2, <2>1 DEF h
    <3> HIDE DEF H
    <3> QED BY <3>1, <3>2, <3>3, <3>4, SMTT(30)
  <2> HIDE DEF h, H
  <2> QED BY <1>1, <1>2, <2>2, SMTT(30) DEF h
<1> HIDE DEF H
<1>12. ASSUME NEW u \in shown PROVE \E x \in Mine(l, a) : u = ShownAs(x, H)
  <2>1. PICK o \in DOMAIN w.utxos :
            u = [outpoint |-> o, output |-> w.utxos[o].output, height |-> w.utxos[o].height]
    BY <1>5, <1>12 DEF IntoSet
  <2>2. o \in DOMAIN v.utxos /\ v.utxos[o].output.address = a /\ w.utxos[o] = v.utxos[o]
    BY <1>8, <2>1 DEF PaysTo
  <2>3. PICK x \in Unspent(l) : /\ x.outpoint = o /\ x.output = v.utxos[o].output
                                /\ v.utxos[o].height = H[x.height]
    BY <1>9, <2>2
  <2>4. x \in Mine(l, a)
    BY <2>2, <2>3 DEF Mine
  <2> QED BY <2>1, <2>2, <2>3, <2>4 DEF ShownAs
<1>13. ASSUME NEW x \in Mine(l, a) PROVE ShownAs(x, H) \in shown
  <2> DEFINE o == x.outpoint
  <2>1. x \in Unspent(l) /\ x.output.address = a
    BY DEF Mine
  <2>2. o \in DOMAIN v.utxos /\ v.utxos[o] = [output |-> x.output, height |-> H[x.height]]
    BY <1>9, <2>1
  <2>3. o \in PaysTo(v, a)
    BY <2>1, <2>2 DEF PaysTo
  <2>4. o \in DOMAIN w.utxos /\ w.utxos[o].output = x.output /\ w.utxos[o].height = H[x.height]
    BY <1>8, <2>2, <2>3
  <2>5. ShownAs(x, H) \in IntoSet(w)
    BY <2>4 DEF IntoSet, ShownAs
  <2>6. ShownAs(x, H).height = H[x.height]
    BY DEF ShownAs
  <2> QED BY <1>5, <1>11, <2>1, <2>5, <2>6
<1>14. IsFiniteSet(shown)
  <2> DEFINE q == IndexOf(v, a)
             O == {q[i] : i \in DOMAIN q}
             f == [o \in O |-> [outpoint |-> o, output |-> w.utxos[o].output,
                                height |-> w.utxos[o].height]]
  <2>1. q \in Seq(OutPoint) /\ ToSet(q) = PaysTo(v, a)
    BY <1>8, IndexOfPays
  <2> HIDE DEF q
  <2>2. IsFiniteSet(O)
    <3>1. IsFiniteSet(DOMAIN q)
      BY <2>1, LenProperties, FS_Interval
    <3> QED BY <3>1, ImageFinite
  <2>3. O = DOMAIN w.utxos
    BY <1>8, <2>1 DEF ToSet
  <2>4. IntoSet(w) = {f[o] : o \in O}
    BY <2>3 DEF IntoSet
  <2>5. IsFiniteSet({f[o] : o \in O})
    <3> HIDE DEF O
    <3> QED BY <2>2, ImageFinite
  <2>6. shown \subseteq IntoSet(w)
    BY <1>5
  <2> QED BY <2>4, <2>5, <2>6, FS_Subset
<1> QED BY <1>12, <1>13, <1>14 DEF l, H, shown
\* A sum of what an operator yields is defined by recursion on subsets, which has
\* one solution.
IsSumFold(h, S, f) ==
    \A T \in SUBSET S :
        LET x == CHOOSE y \in T : TRUE
        IN  h[T] = IF T = {} THEN 0 ELSE f[x] + h[T \ {x}]

LEMMA SumFold ==
    ASSUME NEW S, IsFiniteSet(S), NEW f, \A x \in S : f[x] \in Int
    PROVE  /\ \E h : h = [T \in SUBSET S |-> h[T]] /\ IsSumFold(h, S, f)
           /\ \A h : IsSumFold(h, S, f) => h[S] = SumOf(f, S)
<1> DEFINE first(T) == CHOOSE y \in T : TRUE
<1>1. PICK sum : IsSum(sum, S, f) /\ SumOf(f, S) = sum[S]
  BY SumExists
<1>2. \A T \in SUBSET S : T # {} => first(T) \in T
  OBVIOUS
<1>3. \A T \in SUBSET S : sum[T] = IF T = {} THEN 0 ELSE f[first(T)] + sum[T \ {first(T)}]
  BY <1>1 DEF IsSum
<1> HIDE DEF first
<1>4. \E h : h = [T \in SUBSET S |-> h[T]] /\ IsSumFold(h, S, f)
  <2> DEFINE h == [T \in SUBSET S |-> sum[T]]
  <2>1. \A T \in SUBSET S : h[T] = IF T = {} THEN 0 ELSE f[first(T)] + h[T \ {first(T)}]
    BY <1>3
  <2>2. h = [T \in SUBSET S |-> h[T]]
    OBVIOUS
  <2> HIDE DEF h
  <2>3. IsSumFold(h, S, f)
    BY <2>1 DEF IsSumFold, first
  <2> QED BY <2>2, <2>3
<1>5. ASSUME NEW h, IsSumFold(h, S, f) PROVE h[S] = sum[S]
  <2>1. \A T \in SUBSET S : h[T] = IF T = {} THEN 0 ELSE f[first(T)] + h[T \ {first(T)}]
    BY <1>5 DEF IsSumFold, first
  <2> DEFINE P == {T \in SUBSET S : h[T] = sum[T]}
  <2>2. ASSUME NEW T \in SUBSET S, \A U \in SUBSET T : U # T => U \in P PROVE T \in P
    <3>1. CASE T = {}
      BY <1>3, <2>1, <3>1
    <3>2. CASE T # {}
      <4>1. T \ {first(T)} \in SUBSET T /\ T \ {first(T)} # T
        BY <1>2, <3>2
      <4>2. h[T \ {first(T)}] = sum[T \ {first(T)}]
        BY <2>2, <4>1
      <4> QED BY <1>3, <2>1, <3>2, <4>2
    <3> QED BY <3>1, <3>2
  <2>3. \A T \in SUBSET S : T \in P
    <3> HIDE DEF P
    <3> QED BY <2>2, SubsetInduct
  <2> QED BY <2>3
<1> QED BY <1>1, <1>4, <1>5

\* The two sums of the views, as sums of functions.
LEMMA SumOfOutputs ==
    ASSUME NEW S, IsFiniteSet(S), \A u \in S : u.output.value \in Int
    PROVE  MapThenSumSet(LAMBDA u : u.output.value, S) =
               SumOf([u \in S |-> u.output.value], S)
<1> DEFINE f == [u \in S |-> u.output.value]
           first(T) == CHOOSE y \in T : TRUE
           Good(h) == h = [T \in SUBSET S |->
                             IF T = {} THEN 0
                             ELSE first(T).output.value + h[T \ {first(T)}]]
           c == CHOOSE h : Good(h)
<1>1. MapThenSumSet(LAMBDA u : u.output.value, S) = c[S]
  BY DEF MapThenSumSet, MapThenFoldSet
<1>2. \A T \in SUBSET S : T # {} => first(T) \in S /\ f[first(T)] = first(T).output.value
  <2>1. \A T \in SUBSET S : T # {} => first(T) \in S
    OBVIOUS
  <2> HIDE DEF first
  <2> QED BY <2>1
<1>3. \A u \in S : f[u] \in Int
  OBVIOUS
<1> HIDE DEF f, first
<1>4. PICK h : h = [T \in SUBSET S |-> h[T]] /\ IsSumFold(h, S, f)
  BY <1>3, SumFold
<1>5. Good(h)
  <2>1. \A T \in SUBSET S : h[T] = IF T = {} THEN 0 ELSE f[first(T)] + h[T \ {first(T)}]
    BY <1>4 DEF IsSumFold, first
  <2>2. \A T \in SUBSET S : h[T] = IF T = {} THEN 0
                                   ELSE first(T).output.value + h[T \ {first(T)}]
    BY <1>2, <2>1
  <2> QED BY <1>4, <2>2
<1>6. Good(c)
  <2> HIDE DEF Good
  <2> QED BY <1>5
<1> HIDE DEF c
<1>7. IsSumFold(c, S, f)
  <2>1. \A T \in SUBSET S : c[T] = IF T = {} THEN 0 ELSE first(T).output.value + c[T \ {first(T)}]
    BY <1>6
  <2>2. \A T \in SUBSET S : c[T] = IF T = {} THEN 0 ELSE f[first(T)] + c[T \ {first(T)}]
    BY <1>2, <2>1
  <2> QED BY <2>2 DEF IsSumFold, first
<1>8. c[S] = SumOf(f, S)
  BY <1>3, <1>7, SumFold
<1> QED BY <1>1, <1>8 DEF f
LEMMA SumOfValues ==
    ASSUME NEW S, IsFiniteSet(S), \A u \in S : u.value \in Int
    PROVE  MapThenSumSet(LAMBDA u : u.value, S) = SumOf([u \in S |-> u.value], S)
<1> DEFINE f == [u \in S |-> u.value]
           first(T) == CHOOSE y \in T : TRUE
           Good(h) == h = [T \in SUBSET S |->
                             IF T = {} THEN 0 ELSE first(T).value + h[T \ {first(T)}]]
           c == CHOOSE h : Good(h)
<1>1. MapThenSumSet(LAMBDA u : u.value, S) = c[S]
  BY DEF MapThenSumSet, MapThenFoldSet
<1>2. \A T \in SUBSET S : T # {} => first(T) \in S /\ f[first(T)] = first(T).value
  <2>1. \A T \in SUBSET S : T # {} => first(T) \in S
    OBVIOUS
  <2> HIDE DEF first
  <2> QED BY <2>1
<1>3. \A u \in S : f[u] \in Int
  OBVIOUS
<1> HIDE DEF f, first
<1>4. PICK h : h = [T \in SUBSET S |-> h[T]] /\ IsSumFold(h, S, f)
  BY <1>3, SumFold
<1>5. Good(h)
  <2>1. \A T \in SUBSET S : h[T] = IF T = {} THEN 0 ELSE f[first(T)] + h[T \ {first(T)}]
    BY <1>4 DEF IsSumFold, first
  <2>2. \A T \in SUBSET S : h[T] = IF T = {} THEN 0 ELSE first(T).value + h[T \ {first(T)}]
    BY <1>2, <2>1
  <2> QED BY <1>4, <2>2
<1>6. Good(c)
  <2> HIDE DEF Good
  <2> QED BY <1>5
<1> HIDE DEF c
<1>7. IsSumFold(c, S, f)
  <2>1. \A T \in SUBSET S : c[T] = IF T = {} THEN 0 ELSE first(T).value + c[T \ {first(T)}]
    BY <1>6
  <2>2. \A T \in SUBSET S : c[T] = IF T = {} THEN 0 ELSE f[first(T)] + c[T \ {first(T)}]
    BY <1>2, <2>1
  <2> QED BY <2>2 DEF IsSumFold, first
<1>8. c[S] = SumOf(f, S)
  BY <1>3, <1>7, SumFold
<1> QED BY <1>1, <1>8 DEF f

\* Of a set of outputs that pay to an address, each is shown once.
ShowsEachOnce(shown, mine, H) ==
    /\ IsFiniteSet(shown)
    /\ shown = {ShownAs(c, H) : c \in mine}
    /\ \A c, d \in mine : c.outpoint = d.outpoint => c = d
    /\ \A c \in mine : c.output.value \in Int

LEMMA ShownFacts ==
    ASSUME NEW shown, NEW mine, NEW H, ShowsEachOnce(shown, mine, H)
    PROVE  /\ \A u \in shown : \E c \in mine : u = ShownAs(c, H)
           /\ \A c \in mine : ShownAs(c, H) \in shown
           /\ \A c : /\ ShownAs(c, H).outpoint = c.outpoint
                     /\ ShownAs(c, H).output = c.output
                     /\ ShownAs(c, H).height = H[c.height]
           /\ \A u, v \in shown : u.outpoint = v.outpoint => u = v
           /\ \A u \in shown : u.output.value \in Int
<1>1. \A u \in shown : \E c \in mine : u = ShownAs(c, H)
  BY DEF ShowsEachOnce
<1>2. \A c \in mine : ShownAs(c, H) \in shown
  BY DEF ShowsEachOnce
<1>3. \A c : /\ ShownAs(c, H).outpoint = c.outpoint
             /\ ShownAs(c, H).output = c.output
             /\ ShownAs(c, H).height = H[c.height]
  BY DEF ShownAs
<1>4. ASSUME NEW u \in shown, NEW v \in shown, u.outpoint = v.outpoint PROVE u = v
  <2>1. PICK c \in mine : u = ShownAs(c, H)
    BY <1>1
  <2>2. PICK d \in mine : v = ShownAs(d, H)
    BY <1>1
  <2>3. c = d
    BY <1>3, <1>4, <2>1, <2>2 DEF ShowsEachOnce
  <2> QED BY <2>1, <2>2, <2>3
<1>5. \A u \in shown : u.output.value \in Int
  BY <1>1, <1>3 DEF ShowsEachOnce
<1> QED BY <1>1, <1>2, <1>3, <1>4, <1>5

\* The sum of what is shown is the sum of the outputs.
LEMMA ShownSum ==
    ASSUME NEW shown, NEW mine, NEW H, ShowsEachOnce(shown, mine, H)
    PROVE  /\ MapThenSumSet(LAMBDA u : u.output.value, shown) =
                  MapThenSumSet(LAMBDA c : c.output.value, mine)
           /\ IsFiniteSet(mine) /\ Cardinality(mine) = Cardinality(shown)
<1> DEFINE f == [u \in shown |-> u.output.value]
           g == [c \in mine |-> c.output.value]
           e == [u \in shown |-> CHOOSE c \in mine : u = ShownAs(c, H)]
<1>1. \A u \in shown : e[u] \in mine /\ u = ShownAs(e[u], H)
  <2>1. \A u \in shown : \E c \in mine : u = ShownAs(c, H)
    BY ShownFacts
  <2> QED BY <2>1
<1> HIDE DEF e
<1>2. mine = {e[u] : u \in shown}
  <2>1. ASSUME NEW c \in mine PROVE \E u \in shown : c = e[u]
    <3>1. ShownAs(c, H) \in shown
      BY ShownFacts
    <3> DEFINE d == e[ShownAs(c, H)]
    <3>2. d \in mine /\ ShownAs(c, H) = ShownAs(d, H)
      BY <1>1, <3>1
    <3> HIDE DEF d
    <3>4. c.outpoint = d.outpoint
      <4>1. ShownAs(c, H).outpoint = c.outpoint /\ ShownAs(d, H).outpoint = d.outpoint
        BY ShownFacts
      <4> QED BY <3>2, <4>1
    <3>3. d = c
      BY <3>2, <3>4 DEF ShowsEachOnce
    <3> QED BY <3>1, <3>3 DEF d
  <2> QED BY <1>1, <2>1
<1>3. \A u, v \in shown : e[u] = e[v] => u = v
  BY <1>1
<1>4. \A u \in shown : f[u] = g[e[u]] /\ f[u] \in Int
  <2>1. \A u \in shown : u.output = e[u].output /\ u.output.value \in Int
    BY <1>1, ShownFacts
  <2> QED BY <1>1, <2>1
<1>5. IsFiniteSet(shown)
  BY DEF ShowsEachOnce
<1>6. IsFiniteSet(mine) /\ Cardinality(mine) = Cardinality(shown)
  BY <1>2, <1>3, <1>5, ImageCardinality
<1>7. SumOf(f, shown) = SumOf(g, mine)
  <2> HIDE DEF f, g
  <2>1. Corresponds(e, shown, mine, f, g)
    BY <1>2, <1>3, <1>4 DEF Corresponds
  <2> QED BY <1>4, <1>5, <2>1, SumImage
<1>8. MapThenSumSet(LAMBDA u : u.output.value, shown) = SumOf(f, shown)
  BY <1>5, ShownFacts, SumOfOutputs
<1>9. MapThenSumSet(LAMBDA c : c.output.value, mine) = SumOf(g, mine)
  <2>1. \A c \in mine : c.output.value \in Int
    BY DEF ShowsEachOnce
  <2> QED BY <1>6, <2>1, SumOfOutputs
<1> QED BY <1>6, <1>7, <1>8, <1>9

\* What get_utxos shows satisfies this.
LEMMA ViewShowsOnce ==
    ASSUME NEW s, NEW chain, Consistent(s, chain), NEW a \in Addresses,
           NEW m \in 0..(Len(CurrentChain(s)) + 1)
    PROVE  ShowsEachOnce(GetUtxos(s, a, m), Mine(ConfirmedLine(s, chain, m), a),
                         HeightsAbove(At, s.height))
<1> DEFINE l == ConfirmedLine(s, chain, m)
           mine == Mine(l, a)
           H == HeightsAbove(At, s.height)
           shown == GetUtxos(s, a, m)
<1>1. l \in Seq(Blocks) /\ IsValid(l)
  BY ConfirmedFacts
<1>2. shown = {ShownAs(c, H) : c \in mine} /\ IsFiniteSet(shown)
  BY ViewOfAddress
<1> HIDE DEF l, shown, H
<1>3. mine \subseteq Unspent(l)
  BY DEF Mine
<1>4. \A c, d \in mine : c.outpoint = d.outpoint => c = d
  BY <1>1, <1>3, UnspentOnce
<1>5. \A c \in mine : c.output.value \in Int
  <2>1. \A c \in mine : c.output \in Output
    BY <1>1, <1>3, UnspentFacts
  <2> QED BY <2>1 DEF Output
<1> HIDE DEF mine
<1> QED BY <1>2, <1>4, <1>5 DEF ShowsEachOnce, l, shown, H, mine

LEMMA ConsistentViews == SInv => ViewIsReplay
<1> DEFINE chain == CurrentChain(state)
           up(m) == SubSeq(chain, 1, Min({Len(chain), Len(chain) + 1 - m}))
           own(a, m) == {c \in Unspent(stable \o up(m)) : c.output.address = a}
           H == HeightsAbove(At, state.height)
<1>1. SUFFICES ASSUME SInv, NEW a \in Addresses, NEW m \in AnswerableMinConfirmations
      PROVE  /\ {[o |-> u.outpoint, out |-> u.output] : u \in GetUtxos(state, a, m)} =
                {[o |-> c.outpoint, out |-> c.output] : c \in own(a, m)}
             /\ GetBalance(state, a, m) = MapThenSumSet(LAMBDA c : c.output.value, own(a, m))
  BY DEF ViewIsReplay
<1>2. m \in 0..(Len(CurrentChain(state)) + 1) /\ Consistent(state, stable)
  BY <1>1 DEF AnswerableMinConfirmations, SInv
<1>3. own(a, m) = Mine(ConfirmedLine(state, stable, m), a)
  BY DEF Mine, ConfirmedLine, NumConfirmed
<1> DEFINE mine == own(a, m)
           shown == GetUtxos(state, a, m)
<1>4. ShowsEachOnce(shown, mine, H)
  BY <1>2, <1>3, ViewShowsOnce
<1>5. GetBalance(state, a, m) = MapThenSumSet(LAMBDA u : u.output.value, shown)
  BY DEF GetBalance
<1> HIDE DEF mine, shown, H
<1>6. {[o |-> u.outpoint, out |-> u.output] : u \in shown} =
      {[o |-> c.outpoint, out |-> c.output] : c \in mine}
  <2>1. \A u \in shown : \E c \in mine : u.outpoint = c.outpoint /\ u.output = c.output
    BY <1>4, ShownFacts
  <2>2. \A c \in mine : \E u \in shown : u.outpoint = c.outpoint /\ u.output = c.output
    BY <1>4, ShownFacts
  <2> QED BY <2>1, <2>2
<1>7. GetBalance(state, a, m) = MapThenSumSet(LAMBDA c : c.output.value, mine)
  BY <1>4, <1>5, ShownSum
<1> QED BY <1>6, <1>7 DEF mine, shown

\* For every set of blocks, transactions and addresses, and whatever blocks are
\* inserted in whatever order, get_utxos returns the unspent outputs of the
\* confirmed chain that pay to the address, and get_balance their sum.
THEOREM ViewsAreReplays == Spec => []ViewIsReplay
BY ConsistentAlways, ConsistentViews, PTL
\* The record of a response for an output that is shown, and the main chain.
Responded(u, tip) ==
    [outpoint |-> u.outpoint, value |-> u.output.value, height |-> u.height,
     confirmations |-> tip - u.height + 1]

LEMMA WholeChain ==
    ASSUME NEW s, NEW chain, Consistent(s, chain)
    PROVE  LET l == chain \o CurrentChain(s) IN
           /\ ConfirmedLine(s, chain, 0) = l
           /\ l \in Seq(Blocks)
           /\ Len(l) \in Nat /\ MainChainHeight(s) = Len(l) /\ Len(l) >= 1
           /\ 0 \in 0..(Len(CurrentChain(s)) + 1)
<1> DEFINE c == CurrentChain(s)
           k == NumConfirmed(s, 0)
<1>1. c \in Seq(Blocks) /\ Len(c) \in Nat
  <2>1. IsChain(c, s.latest_stable_block_hash)
    BY CurrentChainIsChain DEF CurrentChain, Consistent
  <2> QED BY <2>1 DEF IsChain
<1>2. 0 \in 0..(Len(c) + 1)
  BY <1>1
<1>3. /\ k \in 0..Len(c) /\ \A i \in 1..Len(c) : Len(c) - i + 1 >= 0 <=> i <= k
      /\ ConfirmedLine(s, chain, 0) \in Seq(Blocks)
      /\ Len(ConfirmedLine(s, chain, 0)) = Len(chain) + k
  BY <1>2, ConfirmedFacts
<1>4. Len(chain) = s.height /\ s.height \in Nat \ {0}
  BY DEF Consistent
<1>5. MainChainHeight(s) = Len(c) + s.height
  BY DEF MainChainHeight
<1>6. ConfirmedLine(s, chain, 0) = chain \o SubSeq(c, 1, k)
  BY DEF ConfirmedLine
<1> HIDE DEF c, k
<1>7. k = Len(c)
  BY <1>1, <1>3
<1>8. SubSeq(c, 1, k) = c
  BY <1>1, <1>7
<1>9. ConfirmedLine(s, chain, 0) = chain \o c
  BY <1>6, <1>8
<1>10. /\ Len(chain \o c) = Len(chain) + Len(c)
       /\ chain \o c \in Seq(Blocks)
  BY <1>3, <1>7, <1>9
<1>11. /\ Len(chain \o c) \in Nat /\ Len(chain \o c) >= 1
       /\ MainChainHeight(s) = Len(chain \o c)
  BY <1>1, <1>4, <1>5, <1>10
<1> QED BY <1>2, <1>9, <1>10, <1>11 DEF c

LEMMA ConsistentHeights == SInv => ReportedHeights
<1> DEFINE l == stable \o CurrentChain(state)
           tip == MainChainHeight(state)
           H == HeightsAbove(At, state.height)
<1>1. SUFFICES ASSUME SInv, NEW a \in Addresses
      PROVE  LET response == UtxosResponse(state, a, 0) IN
             /\ \A u \in response.utxos :
                   \E c \in Unspent(l) :
                      /\ c.outpoint = u.outpoint
                      /\ u.height \in 1..tip /\ u.height \in {c.height - 1, c.height}
                      /\ u.confirmations \in 1..tip
             /\ MapThenSumSet(LAMBDA u : u.value, response.utxos) = GetBalance(state, a, 0)
             /\ response.total_count = Cardinality({c \in Unspent(l) : c.output.address = a})
  BY DEF ReportedHeights
<1>2. Consistent(state, stable)
  BY <1>1 DEF SInv
<1> DEFINE mine == {c \in Unspent(l) : c.output.address = a}
           shown == GetUtxos(state, a, 0)
           told == {Responded(u, tip) : u \in shown}
           response == UtxosResponse(state, a, 0)
<1>3. /\ l \in Seq(Blocks) /\ Len(l) \in Nat \ {0} /\ tip = Len(l)
      /\ ConfirmedLine(state, stable, 0) = l
      /\ 0 \in 0..(Len(CurrentChain(state)) + 1)
  <2> HIDE DEF tip
  <2>1. /\ l \in Seq(Blocks) /\ Len(l) \in Nat /\ Len(l) >= 1
        /\ MainChainHeight(state) = Len(l)
        /\ ConfirmedLine(state, stable, 0) = l
        /\ 0 \in 0..(Len(CurrentChain(state)) + 1)
    BY <1>2, WholeChain
  <2> HIDE DEF l
  <2> QED BY <2>1 DEF tip
<1>4. ShowsEachOnce(shown, mine, H)
  <2>1. ShowsEachOnce(shown, Mine(ConfirmedLine(state, stable, 0), a), H)
    BY <1>2, <1>3, ViewShowsOnce
  <2>2. Mine(ConfirmedLine(state, stable, 0), a) = mine
    BY <1>3 DEF Mine
  <2> QED BY <2>1, <2>2
<1>5. response = [total_count |-> Cardinality(told), utxos |-> told]
  BY DEF UtxosResponse, Responded
<1>6. GetBalance(state, a, 0) = MapThenSumSet(LAMBDA u : u.output.value, shown)
  BY DEF GetBalance
<1>7. \A c \in mine : /\ c \in Unspent(l)
                      /\ H[c.height] \in 1..tip /\ H[c.height] \in {c.height - 1, c.height}
  <2> SUFFICES ASSUME NEW c \in mine
      PROVE  /\ c \in Unspent(l)
             /\ H[c.height] \in 1..tip /\ H[c.height] \in {c.height - 1, c.height}
    OBVIOUS
  <2> DEFINE h == c.height
  <2>1. c \in Unspent(l) /\ h \in 1..Len(l)
    BY <1>3, UnspentFacts
  <2> HIDE DEF h, l, mine, tip
  <2>2. h \in Nat \ {0} /\ h <= tip /\ tip \in Nat
    BY <1>3, <2>1
  <2>3. H[h] = IF h <= state.height THEN (IF h <= 1 THEN 1 ELSE h - 1) ELSE h
    BY <2>2 DEF HeightsAbove, At
  <2>4. H[h] \in 1..tip /\ H[h] \in {h - 1, h}
    <3> HIDE DEF H
    <3>1. state.height \in Nat
      BY <1>2 DEF Consistent
    <3> QED BY <2>2, <2>3, <3>1
  <2> QED BY <2>1, <2>4 DEF h
<1> HIDE DEF mine, shown, H
<1>8. \A u \in shown : /\ Responded(u, tip).outpoint = u.outpoint
                       /\ Responded(u, tip).value = u.output.value
                       /\ Responded(u, tip).height = u.height
                       /\ Responded(u, tip).confirmations = tip - u.height + 1
  BY DEF Responded
<1>9. ASSUME NEW r \in told
      PROVE  \E c \in Unspent(l) :
                /\ c.outpoint = r.outpoint
                /\ r.height \in 1..tip /\ r.height \in {c.height - 1, c.height}
                /\ r.confirmations \in 1..tip
  <2>1. PICK u \in shown : r = Responded(u, tip)
    OBVIOUS
  <2>2. PICK c \in mine : u = ShownAs(c, H)
    BY <1>4, ShownFacts
  <2>3. u.outpoint = c.outpoint /\ u.height = H[c.height]
    BY <2>2, ShownFacts, <1>4
  <2>4. c \in Unspent(l) /\ u.height \in 1..tip /\ u.height \in {c.height - 1, c.height}
    BY <1>7, <2>3
  <2>5. tip - u.height + 1 \in 1..tip
    <3> HIDE DEF tip
    <3>1. tip \in Nat
      BY <1>3
    <3> QED BY <2>4, <3>1
  <2> QED BY <1>8, <2>1, <2>3, <2>4, <2>5
<1>10. /\ MapThenSumSet(LAMBDA u : u.value, told) =
              MapThenSumSet(LAMBDA u : u.output.value, shown)
       /\ Cardinality(told) = Cardinality(shown)
  <2> DEFINE e == [u \in shown |-> Responded(u, tip)]
             f == [u \in shown |-> u.output.value]
             g == [r \in told |-> r.value]
  <2>1. told = {e[u] : u \in shown}
    OBVIOUS
  <2>2. \A u, v \in shown : e[u] = e[v] => u = v
    <3>1. \A u \in shown : e[u].outpoint = u.outpoint
      BY <1>8
    <3> HIDE DEF e
    <3> QED BY <1>4, <3>1, ShownFacts
  <2>3. \A u \in shown : u.output.value \in Int
    BY <1>4, ShownFacts
  <2>4. \A r \in told : r.value \in Int
    BY <1>8, <2>3
  <2>5. \A u \in shown : f[u] = g[e[u]] /\ f[u] \in Int
    BY <1>8, <2>3
  <2>6. IsFiniteSet(shown)
    BY <1>4 DEF ShowsEachOnce
  <2> HIDE DEF told, e
  <2>7. IsFiniteSet(told) /\ Cardinality(told) = Cardinality(shown)
    BY <2>1, <2>2, <2>6, ImageCardinality
  <2>8. SumOf(f, shown) = SumOf(g, told)
    <3> HIDE DEF f, g
    <3>1. Corresponds(e, shown, told, f, g)
      BY <2>1, <2>2, <2>5 DEF Corresponds
    <3> QED BY <2>5, <2>6, <3>1, SumImage
  <2>9. MapThenSumSet(LAMBDA u : u.output.value, shown) = SumOf(f, shown)
    BY <2>3, <2>6, SumOfOutputs
  <2>10. MapThenSumSet(LAMBDA u : u.value, told) = SumOf(g, told)
    BY <2>4, <2>7, SumOfValues
  <2> QED BY <2>7, <2>8, <2>9, <2>10
<1>11. Cardinality(shown) = Cardinality(mine)
  BY <1>4, ShownSum
<1>12. response.utxos = told /\ response.total_count = Cardinality(told)
  <2> HIDE DEF told, response
  <2> QED BY <1>5
<1> HIDE DEF told
<1> QED BY <1>6, <1>9, <1>10, <1>11, <1>12 DEF mine

\* Whatever blocks are inserted in whatever order, the heights and confirmations
\* that get_utxos reports are those of blocks of the main chain, at most one off,
\* and its response adds up to the balance and is as large as it says.
THEOREM HeightsReported == Spec => []ReportedHeights
BY ConsistentAlways, ConsistentHeights, PTL

-----------------------------------------------------------------------------
\* Deliveries in order

\* The forest of blocks that come after the block before them: it holds each at
\* most once, and those above the anchor in trees that are attached to it.
Gathered(trees, a, blocks) ==
    /\ trees \in Seq(Linked) /\ a \in blocks /\ blocks \in SUBSET Blocks
    /\ \A d \in blocks : Prev[d] # NoBlock => Prev[d] \in blocks
    /\ GetBlocks(trees) \subseteq blocks \ {a}
    /\ Single(trees)
    /\ \A d \in blocks : Descends(d, a) =>
          \E i \in DOMAIN trees : Attached(trees[i], a) /\ d \in BlocksOf(trees[i])

\* A delivered block above the anchor is in no tree but an attached one.
LEMMA GatheredPlace ==
    ASSUME NEW trees, NEW a, NEW blocks, Gathered(trees, a, blocks),
           NEW i \in DOMAIN trees, NEW d \in BlocksOf(trees[i]), Descends(d, a)
    PROVE  Attached(trees[i], a)
<1>1. d \in GetBlocks(trees) /\ d \in blocks
  BY InForest DEF Gathered
<1>2. PICK j \in DOMAIN trees : Attached(trees[j], a) /\ d \in BlocksOf(trees[j])
  BY <1>1 DEF Gathered
<1>3. j = i
  BY <1>2 DEF Gathered, Single
<1> QED BY <1>2, <1>3

\* What descends from a block follows it or a descendant of it.
LEMMA DescendsStep ==
    ASSUME NEW d \in Blocks, NEW a \in Blocks
    PROVE  Descends(d, a) <=> Prev[d] # NoBlock /\ (Prev[d] = a \/ Descends(Prev[d], a))
<1>1. CASE Prev[d] = NoBlock
  <2>1. ToSet(Line[d]) = {d}
    BY <1>1, LineSet
  <2> QED BY <1>1, <2>1 DEF Descends
<1>2. CASE Prev[d] # NoBlock
  <2> DEFINE p == Prev[d]
  <2>1. /\ p \in Blocks /\ ToSet(Line[d]) = ToSet(Line[p]) \cup {d}
        /\ Len(Line[d]) = Len(Line[p]) + 1 /\ Len(Line[p]) \in Nat
    BY <1>2, LineSet, ValidLine
  <2>2. p \in ToSet(Line[p])
    BY <2>1, LineSet
  <2>3. d \notin ToSet(Line[p])
    BY <2>1, OnLine
  <2>4. Descends(d, a) <=> a \in ToSet(Line[p])
    BY <2>1, <2>3 DEF Descends
  <2>5. a \in ToSet(Line[p]) <=> p = a \/ Descends(p, a)
    BY <2>2 DEF Descends
  <2> QED BY <1>2, <2>4, <2>5
<1> QED BY <1>1, <1>2

\* push() of a block that follows a delivered one keeps the forest gathered.
LEMMA GatheredPush ==
    ASSUME NEW trees, NEW a, NEW blocks, Gathered(trees, a, blocks),
           NEW b \in Blocks \ blocks, Prev[b] \in blocks
    PROVE  Gathered(Push(trees, b), a, blocks \cup {b})
<1> DEFINE new == Push(trees, b)
<1>1. /\ trees \in Seq(Linked) /\ a \in Blocks /\ blocks \subseteq Blocks /\ a # b
      /\ GetBlocks(trees) \subseteq blocks \ {a}
  BY DEF Gathered
<1>2. b \notin GetBlocks(trees)
  BY <1>1
<1>3. /\ new \in Seq(Linked) /\ GetBlocks(new) = GetBlocks(trees) \cup {b} /\ Single(new)
  BY <1>1, <1>2, PushLinked, PushBlocks DEF Gathered
<1>4. \A i \in DOMAIN trees : Prev[Root(trees[i])] # b
  <2>1. ASSUME NEW i \in DOMAIN trees PROVE Prev[Root(trees[i])] # b
    <3>1. Root(trees[i]) \in BlocksOf(trees[i])
      BY <1>1, ElementOfSeq, LenProperties, TreeFacts, RootProperties DEF Linked, BlocksOf
    <3>2. Root(trees[i]) \in blocks
      BY <1>1, <3>1, InForest
    <3> QED BY <3>2, BlocksAssumption DEF Gathered
  <2> QED BY <2>1
<1>5. \A k \in DOMAIN new :
         \/ k \in DOMAIN trees /\ new[k] = trees[k]
         \/ /\ BlocksOf(new[k]) = {b} /\ Root(new[k]) = b
            /\ Prev[b] \notin GetBlocks(trees)
         \/ /\ k \in DOMAIN trees /\ Prev[b] \in BlocksOf(trees[k])
            /\ BlocksOf(new[k]) = BlocksOf(trees[k]) \cup {b}
            /\ Root(new[k]) = Root(trees[k])
  BY <1>1, <1>2, <1>4, PushInOrder
<1> HIDE DEF new
<1>6. Descends(b, a) => Prev[b] = a \/ Descends(Prev[b], a)
  BY <1>1, DescendsStep
<1>7. ASSUME NEW d \in blocks \cup {b}, Descends(d, a)
      PROVE  \E k \in DOMAIN new : Attached(new[k], a) /\ d \in BlocksOf(new[k])
  <2>1. d \in GetBlocks(new)
    <3>1. d \in blocks => d \in GetBlocks(trees)
      BY <1>7, InForest DEF Gathered
    <3> QED BY <1>3, <3>1
  <2>2. PICK k \in DOMAIN new : d \in BlocksOf(new[k])
    BY <2>1, InForest
  <2>3. CASE k \in DOMAIN trees /\ new[k] = trees[k]
    BY <1>7, <2>2, <2>3, GatheredPlace
  <2>4. CASE /\ BlocksOf(new[k]) = {b} /\ Root(new[k]) = b
             /\ Prev[b] \notin GetBlocks(trees)
    <3>1. d = b
      BY <2>2, <2>4
    <3>2. ~Descends(Prev[b], a)
      BY <2>4, InForest DEF Gathered
    <3>3. Attached(new[k], a)
      BY <1>6, <1>7, <2>4, <3>1, <3>2 DEF Attached
    <3> QED BY <2>2, <3>3
  <2>5. CASE /\ k \in DOMAIN trees /\ Prev[b] \in BlocksOf(trees[k])
             /\ BlocksOf(new[k]) = BlocksOf(trees[k]) \cup {b}
             /\ Root(new[k]) = Root(trees[k])
    <3>1. Attached(trees[k], a)
      <4>1. CASE d = b
        <5>1. Prev[b] # a
          BY <1>1, <2>5, InForest
        <5> QED BY <1>6, <1>7, <2>5, <4>1, <5>1, GatheredPlace
      <4>2. CASE d # b
        BY <1>7, <2>2, <2>5, <4>2, GatheredPlace
      <4> QED BY <4>1, <4>2
    <3> QED BY <2>2, <2>5, <3>1 DEF Attached
  <2> QED BY <1>5, <2>3, <2>4, <2>5
<1> QED BY <1>1, <1>2, <1>3, <1>7 DEF Gathered, new

\* So does pop(), above the new anchor if a block was popped.
LEMMA GatheredPop ==
    ASSUME NEW trees, NEW a, NEW blocks, Gathered(trees, a, blocks)
    PROVE  LET popped == Pop(trees, a) IN
           Gathered(popped.trees, IF popped.block = NoBlock THEN a ELSE popped.block, blocks)
<1> DEFINE popped == Pop(trees, a)
           new == popped.trees
           p == popped.block
<1>1. /\ trees \in Seq(Linked) /\ a \in Blocks /\ a \in blocks /\ blocks \in SUBSET Blocks
      /\ GetBlocks(trees) \subseteq blocks \ {a} /\ Single(trees)
  BY DEF Gathered
<1>2. /\ new \in Seq(Linked) /\ GetBlocks(new) \subseteq GetBlocks(trees) /\ Single(new)
      /\ p = NoBlock => GetBlocks(trees) \subseteq GetBlocks(new)
      /\ p # NoBlock => p \in Blocks /\ Prev[p] = a
      /\ p # NoBlock => \E i \in DOMAIN trees : PopsRoot(trees, a, i)
  BY <1>1, PopLinked, PopBlocks
<1>3. /\ p = NoBlock => \A k \in DOMAIN new : \E i \in DOMAIN trees : new[k] = trees[i]
      /\ p # NoBlock =>
            \A k \in DOMAIN new :
               \/ Attached(new[k], p)
               \/ \E i \in DOMAIN trees : new[k] = trees[i] /\ ~Attached(trees[i], a)
  BY <1>1, PopInOrder
<1>4. CASE p = NoBlock
  <2> HIDE DEF new, p
  <2>1. ASSUME NEW d \in blocks, Descends(d, a)
        PROVE  \E k \in DOMAIN new : Attached(new[k], a) /\ d \in BlocksOf(new[k])
    <3>1. d \in GetBlocks(trees)
      BY <2>1, InForest DEF Gathered
    <3>2. PICK k \in DOMAIN new : d \in BlocksOf(new[k])
      BY <1>2, <1>4, <3>1, InForest
    <3> QED BY <1>3, <1>4, <2>1, <3>2, GatheredPlace
  <2> QED BY <1>1, <1>2, <1>4, <2>1 DEF Gathered, new, p
<1>5. CASE p # NoBlock
  <2>1. PICK i \in DOMAIN trees : PopsRoot(trees, a, i)
    BY <1>2, <1>5
  <2>2. /\ Attached(trees[i], a) /\ Root(trees[i]) = p
        /\ \A x \in trees[i] : x.block # p => x.block \in GetBlocks(new)
    BY <2>1 DEF PopsRoot
  <2> HIDE DEF new, p
  <2>3. p \in Blocks /\ Prev[p] = a /\ Descends(p, a)
    <3>1. a # NoBlock
      BY <1>1, BlocksAssumption
    <3> QED BY <1>1, <1>2, <1>5, <3>1, DescendsStep
  <2>4. p \in BlocksOf(trees[i]) /\ p \in blocks
    <3>1. p \in BlocksOf(trees[i])
      BY <1>1, <2>2, ElementOfSeq, LenProperties, TreeFacts, RootProperties DEF Linked, BlocksOf
    <3> QED BY <1>1, <3>1, InForest
  <2>5. ASSUME NEW k \in DOMAIN new, p \in BlocksOf(new[k]) PROVE FALSE
    <3>1. ~\E j \in DOMAIN trees : new[k] = trees[j] /\ ~Attached(trees[j], a)
      BY <2>3, <2>5, GatheredPlace
    <3>2. Attached(new[k], p)
      BY <1>3, <1>5, <3>1
    <3>3. PICK n \in new[k] : n.block = p
      BY <2>5 DEF BlocksOf
    <3>4. new[k] \in Linked
      BY <1>2, ElementOfSeq, LenProperties
    <3> DEFINE r == Root(new[k])
    <3>5. r \in ToSet(Line[p])
      BY <3>3, <3>4, RootOnLine
    <3>6. r \in Blocks /\ Len(Line[r]) <= Len(Line[p]) /\ Len(Line[p]) \in Nat
      BY <2>3, <3>5, OnLine, ValidLine
    <3>7. Prev[r] = p /\ p # NoBlock
      BY <3>2, <2>3, BlocksAssumption DEF Attached
    <3> HIDE DEF r
    <3> QED BY <3>6, <3>7, LineSet
  <2>6. ASSUME NEW d \in blocks, Descends(d, p)
        PROVE  \E k \in DOMAIN new : Attached(new[k], p) /\ d \in BlocksOf(new[k])
    <3>1. d \in Blocks /\ Descends(d, a) /\ d # p
      BY <1>1, <2>3, <2>6, DescendsFurther DEF Descends
    <3>2. PICK j \in DOMAIN trees : Attached(trees[j], a) /\ d \in BlocksOf(trees[j])
      BY <3>1 DEF Gathered
    <3>3. PICK n \in trees[j] : n.block = d
      BY <3>2 DEF BlocksOf
    <3>4. Root(trees[j]) = p
      BY <1>1, <2>3, <2>6, <3>2, <3>3, AttachedRoot, ElementOfSeq, LenProperties
    <3>5. p \in BlocksOf(trees[j])
      BY <1>1, <3>4, ElementOfSeq, LenProperties, TreeFacts, RootProperties DEF Linked, BlocksOf
    <3>6. j = i
      BY <1>1, <2>4, <3>5 DEF Single
    <3>7. d \in GetBlocks(new)
      BY <2>2, <3>1, <3>3, <3>6
    <3>8. PICK k \in DOMAIN new : d \in BlocksOf(new[k])
      BY <3>7, InForest
    <3>9. ~\E l \in DOMAIN trees : new[k] = trees[l] /\ ~Attached(trees[l], a)
      BY <3>1, <3>8, GatheredPlace
    <3> QED BY <1>3, <1>5, <3>8, <3>9
  <2>7. GetBlocks(new) \subseteq blocks \ {p}
    BY <1>1, <1>2, <2>5, InForest
  <2> QED BY <1>1, <1>2, <1>5, <2>4, <2>6, <2>7 DEF Gathered, new, p
<1> QED BY <1>4, <1>5

-----------------------------------------------------------------------------
\* The current chain of deliveries in order

\* With a block the whole line up to it is delivered.
LEMMA LineInside ==
    ASSUME NEW blocks \in SUBSET Blocks,
           \A d \in blocks : Prev[d] # NoBlock => Prev[d] \in blocks
    PROVE  \A d \in blocks : ToSet(Line[d]) \subseteq blocks
<1> DEFINE Bad == {d \in blocks : ~(ToSet(Line[d]) \subseteq blocks)}
<1>1. SUFFICES ASSUME Bad # {} PROVE FALSE
  OBVIOUS
<1>2. PICK d \in Bad : Prev[d] \notin Bad
  BY <1>1, HashAssumption
<1>3. d \in Blocks
  BY <1>2
<1>4. CASE Prev[d] = NoBlock
  <2>1. ToSet(Line[d]) = {d}
    BY <1>3, <1>4, LineSet
  <2> QED BY <1>2, <2>1
<1>5. CASE Prev[d] # NoBlock
  <2>1. ToSet(Line[d]) = ToSet(Line[Prev[d]]) \cup {d}
    BY <1>3, <1>5, LineSet
  <2> QED BY <1>2, <1>5, <2>1
<1> QED BY <1>4, <1>5

\* In order no descendant is cut off: what descends from a block is connected to it.
LEMMA GatheredConnected ==
    ASSUME NEW trees, NEW a, NEW blocks, Gathered(trees, a, blocks), NEW b
    PROVE  Connected(blocks, b) = {d \in blocks : Descends(d, b)}
<1>1. \A d \in blocks : ToSet(Line[d]) \subseteq blocks
  BY LineInside DEF Gathered
<1> QED BY <1>1 DEF Connected

\* A block of a chain above an anchor: its line continues that of the anchor.
LEMMA ChainLevels ==
    ASSUME NEW a \in Blocks, NEW c, IsChain(c, a), NEW k \in 1..Len(c)
    PROVE  /\ c[k] \in Blocks
           /\ Line[c[k]] = Line[a] \o SubSeq(c, 1, k)
           /\ Level(a) \in Nat /\ Level(c[k]) = Level(a) + k
           /\ Descends(c[k], a)
<1>1. c \in Seq(Blocks) /\ Len(c) \in Nat /\ k \in 0..Len(c) /\ k # 0 /\ k \in Nat
  BY DEF IsChain
<1>2. c[k] \in Blocks /\ Line[c[k]] = Line[a] \o SubSeq(c, 1, k)
  <2>1. Line[a] \o SubSeq(c, 1, k) = Line[IF k = 0 THEN a ELSE c[k]]
    BY <1>1, ChainContinues, ZenonT(30)
  <2> QED BY <1>1, <2>1
<1> DEFINE l == Line[a]
           s == SubSeq(c, 1, k)
<1>3. /\ l \in Seq(Blocks) /\ Len(l) \in Nat \ {0} /\ l[Len(l)] = a
  BY ValidLine
<1>4. s \in Seq(Blocks) /\ Len(s) = k
  BY <1>1
<1> HIDE DEF l, s
<1>5. /\ l \o s \in Seq(Blocks) /\ Len(l \o s) = Len(l) + k
      /\ (l \o s)[Len(l)] = a /\ Len(l) \in DOMAIN (l \o s)
  <2>1. /\ l \o s \in Seq(Blocks) /\ Len(l \o s) = Len(l) + Len(s)
        /\ \A i \in 1..Len(l) : (l \o s)[i] = l[i]
    <3>1. l \in Seq(Blocks) /\ s \in Seq(Blocks)
      BY <1>3, <1>4
    <3> QED BY <3>1, ConcatParts
  <2> DEFINE x == l \o s
  <2>2. DOMAIN x = 1..Len(x)
    BY <2>1, LenProperties
  <2> HIDE DEF x
  <2>3. Len(l) \in 1..Len(x)
    BY <1>1, <1>3, <1>4, <2>1 DEF x
  <2> QED BY <1>3, <1>4, <2>1, <2>2, <2>3 DEF x
<1>6. a \in ToSet(Line[c[k]])
  BY <1>2, <1>5 DEF ToSet, l, s
<1>7. Level(c[k]) = Level(a) + k /\ Level(a) \in Nat
  BY <1>2, <1>3, <1>5 DEF Level, l, s
<1>8. c[k] # a
  BY <1>1, <1>7
<1> QED BY <1>2, <1>6, <1>7, <1>8 DEF Descends

\* What lies on the line of the last block of a chain and above the anchor lies on
\* the chain, at the place its level says.
LEMMA OnChain ==
    ASSUME NEW a \in Blocks, NEW c, IsChain(c, a), Len(c) \in Nat \ {0},
           NEW x, Descends(x, a), x \in ToSet(Line[c[Len(c)]])
    PROVE  /\ Level(x) - Level(a) \in 1..Len(c)
           /\ x = c[Level(x) - Level(a)]
<1> DEFINE n == Len(c)
           e == c[n]
           l == Line[a]
           k == Level(x) - Level(a)
<1>1. n \in 1..n /\ c \in Seq(Blocks)
  BY DEF IsChain
<1>2. /\ e \in Blocks /\ Level(e) = Level(a) + n /\ Level(a) \in Nat
      /\ Line[e] = l \o SubSeq(c, 1, n)
  BY <1>1, ChainLevels
<1>3. SubSeq(c, 1, n) = c
  BY <1>1
<1>4. x \in Blocks /\ Level(x) \in 1..Level(e) /\ x = Line[e][Level(x)]
  BY <1>2, OnLine DEF Level
<1>5. Level(a) <= Level(x) /\ a = Line[x][Level(a)] /\ a # x
  BY <1>4, OnLine DEF Descends, Level
<1>6. Level(a) # Level(x)
  <2>1. Line[x][Level(x)] = x
    BY <1>4, ValidLine DEF Level
  <2> QED BY <1>5, <2>1
<1>7. k \in 1..n /\ Level(x) = Len(l) + k
  <2>1. Level(a) = Len(l)
    BY DEF Level
  <2> QED BY <1>2, <1>4, <1>5, <1>6, <2>1
<1>8. (l \o c)[Len(l) + k] = c[k]
  <2>1. l \in Seq(Blocks)
    BY ValidLine
  <2> HIDE DEF l, k
  <2> QED BY <1>1, <1>7, <2>1, ConcatParts
<1> QED BY <1>2, <1>3, <1>4, <1>7, <1>8

\* A node of an attached tree, and the chain that leads to it.
LEMMA NodeLevels ==
    ASSUME NEW t \in Linked, NEW a \in Blocks, Attached(t, a), NEW n \in t
    PROVE  /\ n.block \in Blocks /\ Descends(n.block, a)
           /\ Len(n.at) \in Nat /\ Level(a) \in Nat
           /\ Level(n.block) = Level(a) + Len(n.at) + 1
           /\ LET c == NodePath(t, n) IN
              IsChain(c, a) /\ Len(c) = Len(n.at) + 1 /\ c[Len(c)] = n.block
<1> DEFINE c == NodePath(t, n)
<1>1. /\ IsChain(c, a) /\ Len(n.at) \in Nat /\ Len(c) = Len(n.at) + 1
      /\ c[Len(c)] = n.block
  BY PathIsChain
<1> HIDE DEF c
<1>2. Len(c) \in 1..Len(c)
  BY <1>1
<1>3. /\ c[Len(c)] \in Blocks /\ Level(a) \in Nat /\ Level(c[Len(c)]) = Level(a) + Len(c)
      /\ Descends(c[Len(c)], a)
  BY <1>1, <1>2, ChainLevels
<1>4. Level(a) + Len(c) = Level(a) + Len(n.at) + 1
  BY <1>1, <1>3
<1> QED BY <1>1, <1>3, <1>4 DEF c

\* The chains of the attached trees, seen from the delivered blocks: all their blocks
\* descend from the anchor, no descendant is higher than all of them, and the
\* highest descendants end chains.
LEMMA GatheredChains ==
    ASSUME NEW trees, NEW a, NEW blocks, Gathered(trees, a, blocks)
    PROVE  LET D == {d \in blocks : Descends(d, a)}
               chains == AttachedChains(trees, a)
           IN  /\ \A c \in chains : \A k \in 1..Len(c) : c[k] \in D
               /\ \A d \in D : \E c \in chains : Level(d) <= Level(a) + Len(c)
               /\ \A d \in Highest(D) : \E c \in chains : c[Len(c)] = d
<1> DEFINE D == {d \in blocks : Descends(d, a)}
           chains == AttachedChains(trees, a)
<1>1. /\ trees \in Seq(Linked) /\ a \in Blocks /\ blocks \in SUBSET Blocks
      /\ GetBlocks(trees) \subseteq blocks
      /\ \A i \in DOMAIN trees : trees[i] \in Linked /\ trees[i] \in Tree
  BY ElementOfSeq, LenProperties DEF Gathered, Linked
<1>2. ASSUME NEW i \in DOMAIN trees, Attached(trees[i], a), NEW n \in trees[i]
      PROVE  /\ n.block \in D
             /\ Len(n.at) \in Nat /\ Level(a) \in Nat
             /\ Level(n.block) = Level(a) + Len(n.at) + 1
             /\ n \in Leaves(trees[i]) =>
                   /\ NodePath(trees[i], n) \in chains
                   /\ Len(NodePath(trees[i], n)) = Len(n.at) + 1
                   /\ NodePath(trees[i], n)[Len(NodePath(trees[i], n))] = n.block
  <2>1. n.block \in blocks
    <3>1. n.block \in BlocksOf(trees[i])
      BY DEF BlocksOf
    <3> QED BY <1>1, <3>1, InForest
  <2>2. n \in Leaves(trees[i]) => NodePath(trees[i], n) \in chains
    BY <1>2 DEF AttachedChains, Blockchains, NodePath
  <2>3. trees[i] \in Linked
    BY <1>1
  <2> HIDE DEF chains
  <2> QED BY <1>1, <1>2, <2>1, <2>2, <2>3, NodeLevels
<1>3. ASSUME NEW c \in chains, NEW k \in 1..Len(c) PROVE c[k] \in D
  <2>1. PICK i \in DOMAIN trees : Attached(trees[i], a) /\ c \in Blockchains(trees[i])
    BY DEF AttachedChains
  <2>2. c[k] \in BlocksOf(trees[i]) /\ IsChain(c, a)
    BY <1>1, <2>1, BlockchainsAreChains
  <2>3. c[k] \in blocks
    BY <1>1, <2>2, InForest
  <2>4. Descends(c[k], a)
    BY <1>1, <2>2, ChainLevels
  <2> QED BY <2>3, <2>4
<1>4. ASSUME NEW d \in D
      PROVE  \E i \in DOMAIN trees : Attached(trees[i], a) /\ \E n \in trees[i] : n.block = d
  BY DEF Gathered, BlocksOf
<1>5. ASSUME NEW d \in D PROVE \E c \in chains : Level(d) <= Level(a) + Len(c)
  <2>1. PICK i \in DOMAIN trees : Attached(trees[i], a) /\ \E n \in trees[i] : n.block = d
    BY <1>4
  <2>2. PICK n \in trees[i] : n.block = d
    BY <2>1
  <2>3. /\ Len(n.at) <= Depth(trees[i]) /\ Depth(trees[i]) \in Nat
        /\ \E m \in Leaves(trees[i]) : Len(m.at) = Depth(trees[i])
    BY <1>1, DeepestLeaf
  <2>4. PICK m \in Leaves(trees[i]) : Len(m.at) = Depth(trees[i])
    BY <2>3
  <2>5. m \in trees[i]
    BY DEF Leaves
  <2> DEFINE c == NodePath(trees[i], m)
  <2>6. c \in chains /\ Len(c) = Depth(trees[i]) + 1
    BY <1>2, <2>1, <2>4, <2>5
  <2>7. /\ Len(n.at) \in Nat /\ Level(a) \in Nat
        /\ Level(d) = Level(a) + Len(n.at) + 1
    BY <1>2, <2>1, <2>2
  <2> HIDE DEF c
  <2>8. Level(d) <= Level(a) + Len(c)
    BY <2>3, <2>6, <2>7
  <2> QED BY <2>6, <2>8
<1>6. ASSUME NEW d \in Highest(D) PROVE \E c \in chains : c[Len(c)] = d
  <2>1. d \in D /\ \A e \in D : Level(e) <= Level(d)
    BY DEF Highest
  <2>2. PICK i \in DOMAIN trees : Attached(trees[i], a) /\ \E n \in trees[i] : n.block = d
    BY <1>4, <2>1
  <2>3. PICK n \in trees[i] : n.block = d
    BY <2>2
  <2>4. n \in Leaves(trees[i])
    <3>1. SUFFICES ASSUME n \notin Leaves(trees[i]) PROVE FALSE
      OBVIOUS
    <3>2. PICK m \in trees[i] : Len(m.at) > Len(n.at)
      BY <1>1, <3>1, DeepestLeaf
    <3>3. /\ Level(m.block) = Level(a) + Len(m.at) + 1 /\ Level(d) = Level(a) + Len(n.at) + 1
          /\ Len(m.at) \in Nat /\ Len(n.at) \in Nat /\ Level(a) \in Nat /\ m.block \in D
      BY <1>2, <2>2, <2>3
    <3>4. Level(m.block) <= Level(d)
      BY <2>1, <3>3
    <3> QED BY <3>2, <3>3, <3>4
  <2> QED BY <1>2, <2>2, <2>3, <2>4
<1> QED BY <1>3, <1>5, <1>6

\* The blocks of a chain lie on the line of its last one.
LEMMA ChainOnLine ==
    ASSUME NEW a \in Blocks, NEW c, IsChain(c, a), NEW k \in 1..Len(c)
    PROVE  c[k] \in ToSet(Line[c[Len(c)]])
<1> DEFINE n == Len(c)
           l == Line[a]
           x == l \o c
<1>1. c \in Seq(Blocks) /\ n \in 1..n /\ n \in Nat
  BY DEF IsChain
<1>2. Line[c[n]] = l \o SubSeq(c, 1, n)
  BY <1>1, ChainLevels
<1>3. SubSeq(c, 1, n) = c
  BY <1>1
<1>4. l \in Seq(Blocks) /\ Len(l) \in Nat
  BY ValidLine
<1>5. x \in Seq(Blocks) /\ Len(x) = Len(l) + n /\ x[Len(l) + k] = c[k]
  <2>1. l \in Seq(Blocks) /\ c \in Seq(Blocks)
    BY <1>1, <1>4
  <2> HIDE DEF l
  <2> QED BY <2>1, ConcatParts
<1> HIDE DEF x, l, n
<1>6. Len(l) + k \in DOMAIN x
  <2>1. DOMAIN x = 1..Len(x)
    BY <1>5, LenProperties
  <2> QED BY <1>1, <1>4, <1>5, <2>1 DEF n
<1>7. c[k] \in ToSet(x)
  BY <1>5, <1>6 DEF ToSet
<1> QED BY <1>2, <1>3, <1>7 DEF x, n

\* The longest chains end in the highest descendants of the anchor.
LEMMA LongestAreHighest ==
    ASSUME NEW trees, NEW a, NEW blocks, Gathered(trees, a, blocks)
    PROVE  LET D == {d \in blocks : Descends(d, a)}
               S == LongestChains(trees, a)
           IN  /\ \A c \in S : /\ IsChain(c, a) /\ Len(c) \in Nat \ {0}
                               /\ c[Len(c)] \in Highest(D)
                               /\ \A k \in 1..Len(c) : c[k] \in D
               /\ \A t \in Highest(D) : \E c \in S : c[Len(c)] = t
<1> DEFINE D == {d \in blocks : Descends(d, a)}
           S == LongestChains(trees, a)
           chains == AttachedChains(trees, a)
<1>1. trees \in Seq(Linked) /\ a \in Blocks
  BY DEF Gathered
<1>2. /\ \A c \in chains : \A k \in 1..Len(c) : c[k] \in D
      /\ \A d \in D : \E c \in chains : Level(d) <= Level(a) + Len(c)
      /\ \A d \in Highest(D) : \E c \in chains : c[Len(c)] = d
  BY GatheredChains
<1>3. S = {c \in chains : \A d \in chains : Len(d) <= Len(c)}
  BY DEF LongestChains
<1> HIDE DEF D, S
<1>4. ASSUME NEW c \in chains
      PROVE  /\ IsChain(c, a) /\ Len(c) \in Nat \ {0} /\ c[Len(c)] \in D
             /\ Level(a) \in Nat /\ Level(c[Len(c)]) = Level(a) + Len(c)
  <2>1. IsChain(c, a) /\ Len(c) \in Nat \ {0}
    BY <1>1, LongestChainsExist
  <2>2. Len(c) \in 1..Len(c)
    BY <2>1
  <2> QED BY <1>1, <1>2, <2>1, <2>2, ChainLevels
<1> HIDE DEF chains
<1>5. ASSUME NEW c \in S PROVE c[Len(c)] \in Highest(D)
  <2>1. c \in chains /\ \A d \in chains : Len(d) <= Len(c)
    BY <1>3
  <2>2. ASSUME NEW d \in D PROVE Level(d) <= Level(c[Len(c)])
    <3>1. PICK e \in chains : Level(d) <= Level(a) + Len(e)
      BY <1>2
    <3>2. /\ Len(e) <= Len(c) /\ Len(e) \in Nat /\ Len(c) \in Nat /\ Level(a) \in Nat
          /\ Level(c[Len(c)]) = Level(a) + Len(c)
      BY <1>4, <2>1
    <3>3. Level(d) \in Nat
      <4>1. d \in Blocks
        BY DEF D, Gathered
      <4> QED BY <4>1, ValidLine DEF Level
    <3> QED BY <3>1, <3>2, <3>3
  <2> QED BY <1>4, <2>1, <2>2 DEF Highest
<1>6. ASSUME NEW t \in Highest(D) PROVE \E c \in S : c[Len(c)] = t
  <2>1. PICK c \in chains : c[Len(c)] = t
    BY <1>2
  <2>2. ASSUME NEW d \in chains PROVE Len(d) <= Len(c)
    <3>1. Level(d[Len(d)]) <= Level(c[Len(c)])
      BY <1>4, <2>1 DEF Highest
    <3>2. /\ Level(d[Len(d)]) = Level(a) + Len(d) /\ Level(c[Len(c)]) = Level(a) + Len(c)
          /\ Level(a) \in Nat /\ Len(c) \in Nat /\ Len(d) \in Nat
      BY <1>4
    <3> QED BY <3>1, <3>2
  <2> QED BY <1>3, <2>1, <2>2
<1>7. \A c \in S : c \in chains
  BY <1>3
<1> QED BY <1>2, <1>4, <1>5, <1>6, <1>7 DEF D, S

\* What get_current_chain reads off the trees is what the longest chains of the
\* delivered blocks have in common.
LEMMA CurrentIsCommon ==
    ASSUME NEW trees, NEW a, NEW blocks, Gathered(trees, a, blocks)
    PROVE  LET p == GetCurrentChain(trees, a)
               common == Uncontested(blocks, a)
           IN  /\ ToSet(p) = common
               /\ Line[a] \o p \in {Line[b] : b \in common \cup {a}}
<1> DEFINE D == {d \in blocks : Descends(d, a)}
           S == LongestChains(trees, a)
           p == GetCurrentChain(trees, a)
           common == Uncontested(blocks, a)
<1>1. trees \in Seq(Linked) /\ a \in Blocks /\ blocks \in SUBSET Blocks
  BY DEF Gathered
<1>2. common = {c \in D : \A t \in Highest(D) : c \in ToSet(Line[t])}
  BY GatheredConnected DEF Uncontested
<1>3. \/ AttachedChains(trees, a) = {} /\ p = <<>>
      \/ S # {} /\ p = LongestCommonPrefix(S)
  BY <1>1, LongestChainsExist
<1>4. /\ \A c \in S : /\ IsChain(c, a) /\ Len(c) \in Nat \ {0}
                      /\ c[Len(c)] \in Highest(D)
                      /\ \A k \in 1..Len(c) : c[k] \in D
      /\ \A t \in Highest(D) : \E c \in S : c[Len(c)] = t
  BY LongestAreHighest
<1>5. Line[a] \in Seq(Blocks)
  BY <1>1, ValidLine
<1>6. CASE AttachedChains(trees, a) = {} /\ p = <<>>
  <2>1. D = {}
    BY <1>6, GatheredChains
  <2>2. common = {} /\ ToSet(<<>>) = {}
    BY <1>2, <2>1 DEF ToSet
  <2>3. Line[a] \o <<>> = Line[a]
    BY <1>5, ConcatEmptySeq
  <2> HIDE DEF p, common, D
  <2> QED BY <1>6, <2>2, <2>3 DEF p, common
<1>7. CASE S # {} /\ p = LongestCommonPrefix(S)
  <2> HIDE DEF S, p, common, D
  <2>1. S \in SUBSET Seq(Blocks)
    BY <1>4 DEF IsChain
  <2>2. /\ \A s \in S : p = SubSeq(s, 1, Len(p)) /\ Len(p) \in 0..Len(s)
        /\ \A s \in S : \A l \in 0..Len(s) :
              (\A u \in S : IsPrefix(SubSeq(s, 1, l), u)) => l <= Len(p)
    BY <1>7, <2>1, LongestCommon
  <2>3. PICK s \in S : TRUE
    BY <1>7
  <2>4. \A u \in S : \A k \in 1..Len(p) : k \in 1..Len(u) /\ p[k] = u[k]
    <3>1. ASSUME NEW u \in S, NEW k \in 1..Len(p)
          PROVE  k \in 1..Len(u) /\ p[k] = u[k]
      <4>1. p = SubSeq(u, 1, Len(p)) /\ Len(p) \in 0..Len(u) /\ u \in Seq(Blocks)
        BY <2>1, <2>2
      <4>2. SubSeq(u, 1, Len(p))[k] = u[k]
        BY <4>1
      <4> QED BY <4>1, <4>2
    <3> QED BY <3>1
  <2>5. p \in Seq(Blocks) /\ Len(p) \in Nat /\ DOMAIN p = 1..Len(p)
    <3>1. p = SubSeq(s, 1, Len(p)) /\ Len(p) \in 0..Len(s) /\ s \in Seq(Blocks)
      BY <2>1, <2>2, <2>3
    <3>2. SubSeq(s, 1, Len(p)) \in Seq(Blocks)
      BY <3>1
    <3> QED BY <3>1, <3>2, LenProperties
  <2>6. ASSUME NEW k \in 1..Len(p) PROVE p[k] \in common
    <3>1. p[k] \in D
      BY <1>4, <2>3, <2>4
    <3>2. ASSUME NEW t \in Highest(D) PROVE p[k] \in ToSet(Line[t])
      <4>1. PICK c \in S : c[Len(c)] = t
        BY <1>4
      <4>2. IsChain(c, a) /\ k \in 1..Len(c) /\ p[k] = c[k]
        BY <1>4, <2>4
      <4> QED BY <1>1, <4>1, <4>2, ChainOnLine
    <3> QED BY <1>2, <3>1, <3>2
  <2>7. ASSUME NEW x \in common PROVE x \in ToSet(p)
    <3> DEFINE k == Level(x) - Level(a)
    <3>1. x \in D /\ \A t \in Highest(D) : x \in ToSet(Line[t])
      BY <1>2
    <3>2. Descends(x, a)
      BY <3>1 DEF D
    <3>3. \A u \in S : k \in 1..Len(u) /\ x = u[k]
      <4>1. ASSUME NEW u \in S PROVE k \in 1..Len(u) /\ x = u[k]
        <5>1. IsChain(u, a) /\ Len(u) \in Nat \ {0} /\ x \in ToSet(Line[u[Len(u)]])
          BY <1>4, <3>1
        <5> QED BY <1>1, <3>2, <5>1, OnChain
      <4> QED BY <4>1
    <3> HIDE DEF k
    <3>4. ASSUME NEW u \in S
          PROVE  /\ SubSeq(u, 1, k) \in Seq(Blocks) /\ Len(SubSeq(u, 1, k)) = k
                 /\ k \in Nat /\ k <= Len(u) /\ Line[x] = Line[a] \o SubSeq(u, 1, k)
      <4>1. u \in Seq(Blocks) /\ k \in 1..Len(u) /\ x = u[k] /\ IsChain(u, a)
        BY <1>4, <2>1, <3>3
      <4>2. SubSeq(u, 1, k) \in Seq(Blocks) /\ Len(SubSeq(u, 1, k)) = k /\ k \in Nat /\ k <= Len(u)
        BY <4>1
      <4> QED BY <1>1, <4>1, <4>2, ChainLevels
    <3>5. ASSUME NEW u \in S PROVE IsPrefix(SubSeq(s, 1, k), u)
      <4> DEFINE v == SubSeq(s, 1, k)
                 w == SubSeq(u, 1, k)
      <4>1. /\ v \in Seq(Blocks) /\ w \in Seq(Blocks) /\ Len(v) = k /\ k \in Nat /\ k <= Len(u)
            /\ Line[a] \o v = Line[a] \o w
        BY <2>3, <3>4
      <4> HIDE DEF v, w
      <4>2. v = w
        BY <1>5, <4>1, ConcatSimplifications
      <4>3. SubSeq(v, 1, k) = v
        BY <4>1
      <4> QED BY <4>1, <4>2, <4>3 DEF IsPrefix, v, w
    <3>6. k \in 0..Len(s)
      BY <2>3, <3>3
    <3>7. k <= Len(p)
      BY <2>2, <2>3, <3>5, <3>6
    <3>8. k \in 1..Len(p)
      BY <2>3, <2>5, <3>3, <3>7
    <3> QED BY <2>3, <2>4, <2>5, <3>3, <3>8 DEF ToSet
  <2>8. ToSet(p) = common
    BY <2>5, <2>6, <2>7 DEF ToSet
  <2>9. Line[a] \o p \in {Line[b] : b \in common \cup {a}}
    <3>1. CASE Len(p) = 0
      <4>1. p = <<>>
        BY <2>5, <3>1, EmptySeq
      <4> QED BY <1>5, <4>1, ConcatEmptySeq
    <3>2. CASE Len(p) # 0
      <4>1. Len(p) \in 1..Len(p)
        BY <2>5, <3>2
      <4>2. Len(p) \in 1..Len(s) /\ p[Len(p)] = s[Len(p)] /\ IsChain(s, a) /\ p = SubSeq(s, 1, Len(p))
        BY <1>4, <2>2, <2>3, <2>4, <4>1
      <4>3. Line[s[Len(p)]] = Line[a] \o SubSeq(s, 1, Len(p))
        BY <1>1, <4>2, ChainLevels
      <4> QED BY <2>6, <4>1, <4>2, <4>3
    <3> QED BY <3>1, <3>2
  <2> QED BY <2>8, <2>9 DEF p, common
<1> QED BY <1>3, <1>6, <1>7

\* The depth of an attached tree is the depth of its root among the delivered blocks.
LEMMA DepthOfRoot ==
    ASSUME NEW trees, NEW a, NEW blocks, Gathered(trees, a, blocks),
           NEW i \in DOMAIN trees, Attached(trees[i], a)
    PROVE  DepthOf(blocks, Root(trees[i])) = Depth(trees[i])
<1> DEFINE t == trees[i]
           r == Root(t)
           near == {r} \cup Connected(blocks, r)
           L == {Level(d) - Level(r) : d \in near}
<1>1. /\ a \in Blocks /\ blocks \in SUBSET Blocks /\ Single(trees)
      /\ GetBlocks(trees) \subseteq blocks
      /\ \A j \in DOMAIN trees :
            trees[j] \in Linked /\ trees[j] \in Tree /\ Root(trees[j]) \in BlocksOf(trees[j])
      /\ \A d \in blocks : Descends(d, a) =>
            \E j \in DOMAIN trees : Attached(trees[j], a) /\ d \in BlocksOf(trees[j])
  <2>1. \A j \in DOMAIN trees :
           trees[j] \in Linked /\ trees[j] \in Tree /\ Root(trees[j]) \in BlocksOf(trees[j])
    BY ElementOfSeq, LenProperties, TreeFacts, RootProperties DEF Gathered, Linked, BlocksOf
  <2> QED BY <2>1 DEF Gathered
<1>2. near = {r} \cup {d \in blocks : Descends(d, r)}
  BY GatheredConnected
<1>3. DepthOf(blocks, r) = Max(L)
  BY DEF DepthOf
<1>4. r \in blocks /\ r \in Blocks /\ Prev[r] = a
  <2>1. r \in GetBlocks(trees)
    BY <1>1, InForest
  <2> QED BY <1>1, <2>1 DEF Attached
<1>5. Level(r) = Level(a) + 1 /\ Level(a) \in Nat
  <2>1. a # NoBlock
    BY <1>1, BlocksAssumption
  <2> QED BY <1>1, <1>4, <2>1, LineSet, ValidLine DEF Level
<1>6. /\ Depth(t) \in Nat
      /\ \A m \in t : Len(m.at) \in Nat /\ Len(m.at) <= Depth(t)
      /\ \E n \in Leaves(t) : Len(n.at) = Depth(t)
  BY <1>1, DeepestLeaf
<1>7. \A n \in t : Level(n.block) = Level(a) + Len(n.at) + 1 /\ n.block \in Blocks
  BY <1>1, NodeLevels
<1> HIDE DEF L, near, r, t
<1>8. \A n \in t : Level(n.block) - Level(r) = Len(n.at)
  BY <1>5, <1>6, <1>7
<1>9. ASSUME NEW d \in near PROVE Level(d) - Level(r) \in 0..Depth(t)
  <2>1. CASE d = r
    BY <1>5, <1>6, <2>1
  <2>2. CASE d \in blocks /\ Descends(d, r)
    <3>1. d \in Blocks /\ Descends(d, a)
      BY <1>1, <1>4, <2>2, DescendsFurther
    <3>2. PICK j \in DOMAIN trees : Attached(trees[j], a) /\ d \in BlocksOf(trees[j])
      BY <1>1, <2>2, <3>1
    <3>3. PICK n \in trees[j] : n.block = d
      BY <3>2 DEF BlocksOf
    <3>4. Root(trees[j]) = r
      BY <1>1, <1>4, <2>2, <3>2, <3>3, AttachedRoot
    <3>5. j = i
      BY <1>1, <3>4 DEF Single, r, t
    <3>6. n \in t
      BY <3>3, <3>5 DEF t
    <3> QED BY <1>6, <1>8, <3>3, <3>6
  <2> QED BY <1>2, <2>1, <2>2
<1>10. \E d \in near : Level(d) - Level(r) = Depth(t)
  <2>1. PICK n \in Leaves(t) : Len(n.at) = Depth(t)
    BY <1>6
  <2>2. n \in t
    BY DEF Leaves
  <2>3. n.block \in near
    <3>1. n.block \in blocks
      <4>1. n.block \in BlocksOf(t)
        BY <2>2 DEF BlocksOf
      <4> QED BY <1>1, <4>1, InForest DEF t
    <3>2. r \in ToSet(Line[n.block])
      BY <1>1, <2>2, RootOnLine DEF r, t
    <3> QED BY <1>2, <3>1, <3>2 DEF Descends
  <2> QED BY <1>8, <2>1, <2>2, <2>3
<1>11. L \in SUBSET (0..Depth(t)) /\ Depth(t) \in L
  BY <1>9, <1>10 DEF L
<1>12. Max(L) \in L /\ \A x \in L : x <= Max(L)
  <2>1. IsFiniteSet(L)
    <3>1. IsFiniteSet(0..Depth(t))
      BY <1>6, FS_Interval
    <3> QED BY <1>11, <3>1, FS_Subset
  <2>2. L \in SUBSET Nat /\ L # {}
    BY <1>6, <1>11
  <2> QED BY <2>1, <2>2, MaxProperties
<1>13. Max(L) = Depth(t)
  <2>1. Max(L) \in 0..Depth(t) /\ Depth(t) <= Max(L)
    BY <1>11, <1>12
  <2> QED BY <1>6, <2>1
<1> QED BY <1>3, <1>13 DEF r, t

\* What pop() returns is stable by the definition in terms of delivered blocks.
LEMMA PoppedByDefinition ==
    ASSUME NEW trees, NEW a, NEW blocks, Gathered(trees, a, blocks),
           Pop(trees, a).block # NoBlock
    PROVE  DefinitionOfStable(blocks, Pop(trees, a).block)
<1> DEFINE p == Pop(trees, a).block
<1>1. trees \in Seq(Linked) /\ a \in Blocks /\ blocks \in SUBSET Blocks
  BY DEF Gathered
<1>2. PICK i \in DOMAIN trees : Root(trees[i]) = p /\ StandsOut(trees, a, i)
  BY <1>1, PopInOrder
<1> HIDE DEF p
<1>3. /\ Attached(trees[i], a) /\ Depth(trees[i]) >= Delta
      /\ \A j \in DOMAIN trees :
            j # i /\ Attached(trees[j], a) => Depth(trees[i]) - Depth(trees[j]) >= Delta
  BY <1>2 DEF StandsOut
<1>4. DepthOf(blocks, p) = Depth(trees[i])
  BY <1>2, <1>3, DepthOfRoot
<1>5. Prev[p] = a /\ p \in Blocks
  BY <1>1, <1>2, <1>3, RootProperties, ElementOfSeq, LenProperties DEF Attached, Linked
<1>6. Level(p) = Level(a) + 1 /\ Level(a) \in Nat
  <2>1. a # NoBlock
    BY <1>1, BlocksAssumption
  <2> QED BY <1>1, <1>5, <2>1, LineSet, ValidLine DEF Level
<1>7. ASSUME NEW c \in Connected(blocks, a), Level(c) = Level(p), c # p
      PROVE  DepthOf(blocks, p) - DepthOf(blocks, c) >= Delta
  <2>1. c \in blocks /\ Descends(c, a)
    BY GatheredConnected
  <2>2. PICK j \in DOMAIN trees : Attached(trees[j], a) /\ c \in BlocksOf(trees[j])
    BY <2>1 DEF Gathered
  <2>3. PICK n \in trees[j] : n.block = c
    BY <2>2 DEF BlocksOf
  <2>4. trees[j] \in Linked /\ trees[j] \in Tree
    BY <1>1, ElementOfSeq, LenProperties DEF Linked
  <2>5. Level(c) = Level(a) + Len(n.at) + 1 /\ Len(n.at) \in Nat
    BY <1>1, <2>2, <2>3, <2>4, NodeLevels
  <2>6. Len(n.at) = 0
    BY <1>6, <1>7, <2>5
  <2>7. n.at = <<>>
    <3>1. n.at \in Seq(Nat \ {0})
      BY <2>4, TreeFacts DEF Position
    <3> QED BY <2>6, <3>1, EmptySeq
  <2>8. c = Root(trees[j])
    BY <2>3, <2>4, <2>7, TreeFacts, RootProperties
  <2>9. j # i /\ DepthOf(blocks, c) = Depth(trees[j])
    BY <1>2, <1>7, <2>2, <2>8, DepthOfRoot
  <2> QED BY <1>3, <1>4, <2>2, <2>9
<1> QED BY <1>3, <1>4, <1>5, <1>7 DEF DefinitionOfStable, p

\* The forest of blocks that come once, each after the block before it.
InOrderInv == SInv /\ Gathered(state.unstable_blocks, Anchor, delivered)

LEMMA InitInOrder == Init => InOrderInv
<1>1. ASSUME Init PROVE InOrderInv
  <2>1. /\ SInv /\ state.unstable_blocks = <<>> /\ Anchor = Genesis /\ delivered = {Genesis}
    BY <1>1, InitConsistent DEF Init, NewState, EmptyForest, Anchor
  <2>2. DOMAIN state.unstable_blocks = {} /\ state.unstable_blocks \in Seq(Linked)
    BY <2>1
  <2>3. Single(state.unstable_blocks) /\ GetBlocks(state.unstable_blocks) = {}
    BY <2>2 DEF Single, GetBlocks
  <2> QED BY <2>1, <2>2, <2>3, StateAssumption DEF InOrderInv, Gathered, Descends
<1> QED BY <1>1

\* What insert_block does to the gathered forest.
LEMMA InsertGathered ==
    ASSUME NEW s, NEW chain, Consistent(s, chain),
           NEW blocks, Gathered(s.unstable_blocks, s.latest_stable_block_hash, blocks),
           NEW b \in Blocks \ blocks, Prev[b] \in blocks
    PROVE  LET after == Insert(s, b)
               trees == Push(s.unstable_blocks, b)
               anchor == s.latest_stable_block_hash
               popped == Pop(trees, anchor)
           IN  /\ Gathered(trees, anchor, blocks \cup {b})
               /\ after.unstable_blocks = popped.trees
               /\ after.latest_stable_block_hash =
                     IF popped.block = NoBlock THEN anchor ELSE popped.block
               /\ Gathered(after.unstable_blocks, after.latest_stable_block_hash, blocks \cup {b})
               /\ StableAfter(chain, s, after) =
                     IF popped.block = NoBlock THEN chain ELSE Append(chain, popped.block)
<1> DEFINE after == Insert(s, b)
           trees == Push(s.unstable_blocks, b)
           anchor == s.latest_stable_block_hash
           popped == Pop(trees, anchor)
           p == popped.block
<1>1. /\ DOMAIN s = {"height", "latest_stable_block_hash", "utxos", "unstable_blocks"}
      /\ s.unstable_blocks \in Seq(Linked) /\ s.height \in Nat
  BY DEF Consistent
<1>2. /\ after.unstable_blocks = popped.trees
      /\ \/ /\ p = NoBlock
            /\ after.height = s.height
            /\ after.latest_stable_block_hash = anchor
         \/ /\ p # NoBlock
            /\ after.height = s.height + 1
            /\ after.latest_stable_block_hash = p
  BY <1>1, InsertForest, BlocksAssumption
<1>3. Gathered(trees, anchor, blocks \cup {b})
  BY GatheredPush
<1> HIDE DEF trees, after
<1>4. Gathered(popped.trees, IF p = NoBlock THEN anchor ELSE p, blocks \cup {b})
  BY <1>3, GatheredPop
<1> HIDE DEF popped, p
<1>5. after.latest_stable_block_hash = IF p = NoBlock THEN anchor ELSE p
  BY <1>2
<1>6. StableAfter(chain, s, after) = IF p = NoBlock THEN chain ELSE Append(chain, p)
  BY <1>1, <1>2 DEF StableAfter
<1> QED BY <1>2, <1>3, <1>4, <1>5, <1>6 DEF after, trees, popped, p

LEMMA InsertInOrder ==
    ASSUME InOrderInv, NEW b \in Blocks \ delivered, Prev[b] \in delivered, InsertBlock(b)
    PROVE  LET trees == Push(state.unstable_blocks, b)
               p == Pop(trees, Anchor).block
           IN  /\ InOrderInv'
               /\ Gathered(trees, Anchor, delivered')
               /\ stable' = IF p = NoBlock THEN stable ELSE Append(stable, p)
<1>1. SInv'
  BY NextConsistent DEF Next, InOrderInv
<1>2. Consistent(state, stable) /\ Gathered(state.unstable_blocks, Anchor, delivered)
  BY DEF InOrderInv, SInv
<1>3. /\ state' = Insert(state, b) /\ delivered' = delivered \cup {b}
      /\ stable' = StableAfter(stable, state, Insert(state, b))
  BY DEF InsertBlock
<1> QED BY <1>1, <1>2, <1>3, InsertGathered DEF InOrderInv, Anchor

LEMMA NextKeepsOrder == InOrderInv /\ [NextInOrder]_vars => InOrderInv'
<1>1. ASSUME InOrderInv, NEW b \in Blocks \ delivered, Prev[b] \in delivered, InsertBlock(b)
      PROVE  InOrderInv'
  BY <1>1, InsertInOrder
<1>2. ASSUME InOrderInv, UNCHANGED vars PROVE InOrderInv'
  BY <1>2 DEF InOrderInv, SInv, Gathered, Anchor, vars
<1> QED BY <1>1, <1>2 DEF NextInOrder

LEMMA OrderIsLongest == InOrderInv => CurrentChainIsLongest
<1>1. ASSUME InOrderInv PROVE CurrentChainIsLongest
  <2>1. stable = Line[Anchor] /\ Gathered(state.unstable_blocks, Anchor, delivered)
    BY <1>1 DEF InOrderInv, SInv, Consistent, Anchor
  <2>2. CurrentChain(state) = GetCurrentChain(state.unstable_blocks, Anchor)
    BY DEF CurrentChain, Anchor
  <2> QED BY <2>1, <2>2, CurrentIsCommon DEF CurrentChainIsLongest
<1> QED BY <1>1

\* Delivered in order, the current chain is always what the longest chains of
\* delivered blocks above the anchor have in common.
THEOREM CurrentChainLongest == SpecInOrder => []CurrentChainIsLongest
BY InitInOrder, NextKeepsOrder, OrderIsLongest, PTL DEF SpecInOrder

\* Delivered in order, a block becomes stable only if the delivered blocks make it
\* so by the definition at the head of blockforest.rs.
THEOREM StableByDefinition == SpecInOrder => StabilisesByDefinition
<1>1. ASSUME InOrderInv, NEW b \in Blocks \ delivered, Prev[b] \in delivered, InsertBlock(b),
             stable' # stable
      PROVE  DefinitionOfStable(delivered', Last(stable'))
  <2> DEFINE trees == Push(state.unstable_blocks, b)
             p == Pop(trees, Anchor).block
  <2>1. /\ Gathered(trees, Anchor, delivered')
        /\ stable' = IF p = NoBlock THEN stable ELSE Append(stable, p)
    BY <1>1, InsertInOrder
  <2>2. p # NoBlock /\ stable' = Append(stable, p)
    BY <1>1, <2>1
  <2>3. DefinitionOfStable(delivered', p)
    BY <2>1, <2>2, PoppedByDefinition
  <2>4. Last(stable') = p
    <3>1. stable \in Seq(Blocks)
      BY <1>1, ValidLine DEF InOrderInv, SInv, Consistent
    <3>2. p \in Blocks
      BY <2>1, <2>2, PopLinked DEF Gathered
    <3> HIDE DEF p
    <3> QED BY <2>2, <3>1, <3>2, AppendProperties DEF Last
  <2> QED BY <2>3, <2>4
<1>2. InOrderInv /\ [NextInOrder]_vars
         => [stable' # stable => DefinitionOfStable(delivered', Last(stable'))]_vars
  BY <1>1 DEF NextInOrder
<1> QED BY <1>2, InitInOrder, NextKeepsOrder, PTL DEF SpecInOrder, StabilisesByDefinition
=============================================================================
