----------------------------- MODULE StateFile -----------------------------
(***************************************************************************)
(* to_proto and from_proto of canister/src/block.rs, blockforest.rs,       *)
(* utxoset.rs and store.rs: the chain state as a tree of messages and      *)
(* back.  A message holds what it takes to build the state again: headers  *)
(* and transactions for blocks, trees within trees for the forest, and the *)
(* UTXOs without their index, which inserting them builds anew.            *)
(*                                                                         *)
(* Messages nest as trees do, and each conversion maps the vectors of      *)
(* children in order: a message of a tree is, like the tree itself, the    *)
(* set of its nodes at their positions.                                    *)
(***************************************************************************)
EXTENDS BitcoinState

\* Blocks are identified by what a message holds of them.
ASSUME FileAssumption ==
    \A b, c \in Blocks : Prev[b] = Prev[c] /\ Txs[b] = Txs[c] => b = c

BlockToProto(b) == [prev_blockhash |-> Prev[b], txdata |-> Txs[b]]

BlockFromProto(m) ==
    CHOOSE b \in Blocks : Prev[b] = m.prev_blockhash /\ Txs[b] = m.txdata

TreeToProto(t) == {[at |-> n.at, root |-> BlockToProto(n.block)] : n \in t}

\* Mutant: a node keeps its first child only.
TrunkFromProto(m) ==
    LET trunk == {x \in m : \A i \in DOMAIN x.at : x.at[i] = 1}
    IN  {[at |-> x.at, block |-> BlockFromProto(x.root)] : x \in trunk}

TreeFromProto(m) == {[at |-> x.at, block |-> BlockFromProto(x.root)] : x \in m}

ForestToProto(trees) == [i \in DOMAIN trees |-> TreeToProto(trees[i])]

\* Mutant: the forest starts over from its first tree.
FirstTreeFromProto(m) == IF m = <<>> THEN <<>> ELSE <<TreeFromProto(m[1])>>

ForestFromProto(m) == [i \in DOMAIN m |-> TreeFromProto(m[i])]

\* The UTXOs in the order of the hash map, which may be any.
UtxosToProto(u) ==
    {[strict |-> u.strict, utxos |-> order] : order \in SetToSeqs(IntoSet(u))}

\* Mutant: the map is filled, the index is not.
UtxosUnindexed(m) ==
    FoldLeft(LAMBDA u, x : [u EXCEPT !.utxos = Bind(@, x.outpoint,
                                [output |-> x.output, height |-> x.height])],
             NewUtxoSet(m.strict), m.utxos)

\* Mutant: what the real chain does not let anybody spend, the reward of the genesis
\* block, is left out by its height.
UtxosSinceGenesis(m) ==
    FoldLeft(LAMBDA u, x : IF x.height = 1 THEN u
                           ELSE InsertOutpoint(u, x.outpoint, x.output, x.height),
             NewUtxoSet(m.strict), m.utxos)

UtxosFromProto(m) ==
    FoldLeft(LAMBDA u, x : InsertOutpoint(u, x.outpoint, x.output, x.height),
             NewUtxoSet(m.strict), m.utxos)

StateToProto(s) ==
    {[height |-> s.height,
      latest_stable_block_hash |-> s.latest_stable_block_hash,
      utxos |-> utxos,
      unstable_blocks |-> ForestToProto(s.unstable_blocks)] :
        utxos \in UtxosToProto(s.utxos)}

StateFromProto(m) ==
    [height |-> m.height,
     latest_stable_block_hash |-> m.latest_stable_block_hash,
     utxos |-> UtxosFromProto(m.utxos),
     unstable_blocks |-> ForestFromProto(m.unstable_blocks)]
=============================================================================
