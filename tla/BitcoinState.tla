---------------------------- MODULE BitcoinState ----------------------------
(***************************************************************************)
(* The chain state of canister/src/store.rs: stable blocks, of which only  *)
(* the height, the last hash (the anchor) and the UTXO set are kept, and a *)
(* forest of blocks that are not stable yet.  insert_block is the only     *)
(* operation that changes the state.  Its callers hand it whatever the     *)
(* Bitcoin adapter returns, so any block may come at any time and again;   *)
(* the disciplines of delivery under which more can be promised are        *)
(* specifications of their own below.                                      *)
(***************************************************************************)
EXTENDS BlockForest, UtxoSet

CONSTANTS
    Genesis,    \* the genesis block
    Txs         \* Txs[b]: the transactions of block b, in order

ASSUME StateAssumption ==
    /\ Genesis \in Blocks
    /\ Prev[Genesis] = NoBlock
    /\ DOMAIN Txs = Blocks
    /\ \A b \in Blocks :
          /\ Len(Txs[b]) \in Nat /\ DOMAIN Txs[b] = 1..Len(Txs[b])
          /\ \A i \in DOMAIN Txs[b] : IsTx(Txs[b][i])

VARIABLES
    state,      \* struct State
    stable,     \* history: the blocks made stable so far, genesis first
    delivered   \* history: the blocks inserted so far, and genesis

vars == <<state, stable, delivered>>

-----------------------------------------------------------------------------
\* Operations of struct State

NewState ==
    [height |-> 1,
     latest_stable_block_hash |-> Genesis,
     utxos |-> InsertTxs(NewUtxoSet(TRUE), Txs[Genesis], 1),
     unstable_blocks |-> EmptyForest]

CurrentChain(s) == GetCurrentChain(s.unstable_blocks, s.latest_stable_block_hash)

MainChainHeight(s) == Len(CurrentChain(s)) + s.height

\* Mutant: the anchor is not moved.
ProcessForgettingAnchor(s) ==
    LET popped == Pop(s.unstable_blocks, s.latest_stable_block_hash)
    IN  IF popped.block = NoBlock
        THEN [s EXCEPT !.unstable_blocks = popped.trees]
        ELSE [s EXCEPT !.height = @ + 1,
                       !.utxos = InsertTxs(@, Txs[popped.block], s.height),
                       !.unstable_blocks = popped.trees]

\* The second half of insert_block(), "Process a stable block, if any".  The
\* assertion that the popped block follows the anchor panics like the UTXO set
\* does.  The transactions are inserted at the height before it is incremented.
ProcessStableBlock(s) ==
    LET popped == Pop(s.unstable_blocks, s.latest_stable_block_hash)
    IN  IF popped.block = NoBlock
        THEN [s EXCEPT !.unstable_blocks = popped.trees]
        ELSE IF Prev[popped.block] # s.latest_stable_block_hash
        THEN [s EXCEPT !.utxos = Panic(@)]
        ELSE [height |-> s.height + 1,
              latest_stable_block_hash |-> popped.block,
              utxos |-> InsertTxs(s.utxos, Txs[popped.block], s.height),
              unstable_blocks |-> popped.trees]

Pushed(s, b) == [s EXCEPT !.unstable_blocks = Push(@, b)]

\* Mutant: blocks are processed twice per call.
InsertProcessingTwice(s, b) == ProcessStableBlock(ProcessStableBlock(Pushed(s, b)))

\* insert_block()
Insert(s, b) == ProcessStableBlock(Pushed(s, b))

Traps(s) == s.utxos.panicked

\* Mutants: one confirmation too many is asked for; heights are one too high.
ConfirmedChainShort(s, min_confirmations) ==
    LET chain == CurrentChain(s)
        confirmed == {i \in DOMAIN chain : Len(chain) - i >= min_confirmations}
    IN  [i \in confirmed |-> [block |-> chain[i], height |-> s.height + i]]

ConfirmedChainHigh(s, min_confirmations) ==
    LET chain == CurrentChain(s)
        confirmed == {i \in DOMAIN chain : Len(chain) - i + 1 >= min_confirmations}
    IN  [i \in confirmed |-> [block |-> chain[i], height |-> s.height + i + 1]]

\* The blocks of the current chain that get_utxos applies, with their heights:
\* the loop stops at the first one with too few confirmations.
ConfirmedChain(s, min_confirmations) ==
    LET chain == CurrentChain(s)
        confirmed == {i \in DOMAIN chain : Len(chain) - i + 1 >= min_confirmations}
    IN  [i \in confirmed |-> [block |-> chain[i], height |-> s.height + i]]

\* The UTXO set of an address with these blocks applied to it.
AppliedUtxos(s, address, min_confirmations) ==
    FoldLeft(LAMBDA u, e : InsertTxs(u, Txs[e.block], e.height),
             AddressUtxos(s.utxos, address),
             ConfirmedChain(s, min_confirmations))

GetUtxos(s, address, min_confirmations) ==
    LET tip == MainChainHeight(s)
        applied == AppliedUtxos(s, address, min_confirmations)
    IN  {u \in IntoSet(AddressUtxos(applied, address)) :
            tip - u.height + 1 >= min_confirmations}

GetBalance(s, address, min_confirmations) ==
    MapThenSumSet(LAMBDA u : u.output.value, GetUtxos(s, address, min_confirmations))

\* get_utxos() of the canister, for a well-formed address.
UtxosResponse(s, address, min_confirmations) ==
    LET utxos == {[outpoint |-> u.outpoint,
                   value |-> u.output.value,
                   height |-> u.height,
                   confirmations |-> MainChainHeight(s) - u.height + 1] :
                      u \in GetUtxos(s, address, min_confirmations)}
    IN  [total_count |-> Cardinality(utxos), utxos |-> utxos]

-----------------------------------------------------------------------------
Init ==
    /\ state = NewState
    /\ stable = <<Genesis>>
    /\ delivered = {Genesis}

StableAfter(chain, before, after) ==
    IF after.height = before.height
    THEN chain
    ELSE Append(chain, after.latest_stable_block_hash)

\* Several blocks, one after the other, up to the first that panics.
InsertAll(blocks) ==
    FoldLeft(
        LAMBDA r, b :
            LET after == Insert(r.state, b) IN
            IF Traps(r.state) THEN r
            ELSE [state |-> after, stable |-> StableAfter(r.stable, r.state, after)],
        [state |-> state, stable |-> stable], blocks)

\* A call of insert_block that panics leaves no trace in the canister.
InsertBlock(b) ==
    LET after == Insert(state, b)
    IN  /\ ~Traps(after)
        /\ state' = after
        /\ stable' = StableAfter(stable, state, after)
        /\ delivered' = delivered \cup {b}

Next == \E b \in Blocks : InsertBlock(b)

Spec == Init /\ [][Next]_vars

\* Every block once, in any order: nothing the adapter sent is sent again.
NextOnce == \E b \in Blocks \ delivered : InsertBlock(b)

SpecOnce == Init /\ [][NextOnce]_vars

\* Every block once, and after the block before it, as a Bitcoin node
\* downloads them.
NextInOrder ==
    \E b \in Blocks \ delivered : Prev[b] \in delivered /\ InsertBlock(b)

SpecInOrder == Init /\ [][NextInOrder]_vars

-----------------------------------------------------------------------------
\* Types.  ChainTypeOK is the part that does not look into the UTXO set.

ChainTypeOK ==
    /\ DOMAIN state = {"height", "latest_stable_block_hash", "utxos", "unstable_blocks"}
    /\ state.height \in Nat \ {0}
    /\ state.latest_stable_block_hash \in Blocks
    /\ state.unstable_blocks \in Seq(Tree)
    /\ stable \in Seq(Blocks)
    /\ delivered \in SUBSET Blocks

UtxosTypeOK ==
    LET u == state.utxos IN
    /\ DOMAIN u.utxos \subseteq OutPoint
    /\ \A o \in DOMAIN u.utxos : u.utxos[o] \in [output : Output, height : Nat]
    /\ DOMAIN u.index \subseteq Addresses
    /\ \A a \in DOMAIN u.index : u.index[a] \in Seq(OutPoint)
    /\ u.strict = TRUE /\ u.panicked = FALSE

\* The type invariant of the chain state: whatever blocks insert_block is given,
\* the height stays positive, the forest stays a vector of finite trees and the
\* UTXO set maps outpoints to outputs.
TypeOK == ChainTypeOK /\ UtxosTypeOK

\* The stable blocks are one chain from genesis: each follows the one before,
\* and height and latest_stable_block_hash are its length and its last block.
\* The code keeps only these two, so a wrong step could never be noticed later.
StableChainLinked ==
    /\ Len(stable) = state.height
    /\ stable[1] = Genesis
    /\ stable[state.height] = state.latest_stable_block_hash
    /\ \A i \in 1..(state.height - 1) : Prev[stable[i + 1]] = stable[i]

\* In every tree of the forest a block lies under the block before it, wherever
\* take_tree and push have moved subtrees, so that the chains read off the trees
\* are chains of hashes.
TreesLinked ==
    \A i \in DOMAIN state.unstable_blocks :
        \A n, m \in state.unstable_blocks[i] :
            (m.at # <<>> /\ n.at = Front(m.at)) => Prev[m.block] = n.block

\* The stable chain implements the chain of final blocks.
Final == INSTANCE FinalChain WITH chain <- stable

\* insert_block never takes back a stable block and never makes two blocks
\* stable at once, whatever forks compete above the anchor.
StableChainIsFinal == Final!Spec
=============================================================================
