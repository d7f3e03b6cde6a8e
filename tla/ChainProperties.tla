-------------------------- MODULE ChainProperties --------------------------
(***************************************************************************)
(* What the chain state promises, stated against definitions that look at  *)
(* the delivered blocks and at the transactions of a chain as sets, and    *)
(* know neither trees nor an order of insertion.                           *)
(***************************************************************************)
EXTENDS BitcoinState

\* The chain that a block ends, from genesis on.
Line[b \in Blocks] ==
    IF Prev[b] = NoBlock THEN <<b>> ELSE Append(Line[Prev[b]], b)

Level(b) == Len(Line[b])

Descends(b, a) == b # a /\ a \in ToSet(Line[b])

-----------------------------------------------------------------------------
\* The transactions of a chain

Created(chain) ==
    UNION {UNION {{[outpoint |-> <<Txs[chain[i]][k].txid, v - 1>>,
                    output |-> Txs[chain[i]][k].outputs[v],
                    height |-> i] :
                       v \in DOMAIN Txs[chain[i]][k].outputs} :
                           k \in DOMAIN Txs[chain[i]]} :
                               i \in DOMAIN chain}

Spent(chain) ==
    UNION {UNION {ToSet(Txs[chain[i]][k].inputs) : k \in DOMAIN Txs[chain[i]]} :
              i \in DOMAIN chain}

\* Height is the true height, genesis at 1.  Of an outpoint that a duplicated
\* transaction creates twice, the last one counts.
Unspent(chain) ==
    {c \in Created(chain) :
        /\ c.outpoint \notin Spent(chain)
        /\ \A d \in Created(chain) : d.outpoint = c.outpoint => d.height <= c.height}

-----------------------------------------------------------------------------
\* Assumptions about the network

\* A header cannot hold the hash of a block that is built on it, however far up.
ASSUME HashAssumption ==
    \A S \in SUBSET Blocks : S # {} => \E b \in S : Prev[b] \notin S

\* The places of a chain at which there is a transaction, and their order.
TxPlaces(chain) == UNION {{i} \X DOMAIN Txs[chain[i]] : i \in DOMAIN chain}

TxAt(chain, p) == Txs[chain[p[1]]][p[2]]

Earlier(p, q) == p[1] < q[1] \/ (p[1] = q[1] /\ p[2] < q[2])

Creates(tx, outpoint) == outpoint[1] = tx.txid /\ outpoint[2] + 1 \in DOMAIN tx.outputs

Spends(tx, outpoint) == outpoint \in ToSet(tx.inputs)

\* An input is named once in its transaction, was created before, by nothing
\* later, and is spent by nothing else.
InputsAreValid(chain, p) ==
    LET tx == TxAt(chain, p) IN
    /\ \A n, m \in DOMAIN tx.inputs : tx.inputs[n] = tx.inputs[m] => n = m
    /\ \A o \in ToSet(tx.inputs) :
          /\ \E q \in TxPlaces(chain) : Creates(TxAt(chain, q), o)
          /\ \A q \in TxPlaces(chain) :
                /\ Creates(TxAt(chain, q), o) => Earlier(q, p)
                /\ Spends(TxAt(chain, q), o) => q = p

\* Only the two duplicated transactions occur twice, and they pay to a bare
\* public key, which is not an address.
IdIsValid(chain, p) ==
    LET tx == TxAt(chain, p) IN
    /\ \A q \in TxPlaces(chain) :
          q # p /\ TxAt(chain, q).txid = tx.txid =>
              TxAt(chain, q) = tx /\ tx.txid \in DuplicateTxIds
    /\ tx.txid \in DuplicateTxIds =>
          \A v \in DOMAIN tx.outputs : tx.outputs[v].address = NoAddress

IsValid(chain) ==
    \A p \in TxPlaces(chain) : InputsAreValid(chain, p) /\ IdIsValid(chain, p)

\* What the network guarantees of a block that a Bitcoin node passes on: the chain
\* it ends starts at genesis, and its transactions are valid there.
ASSUME NetworkAssumption ==
    \A b \in Blocks : Line[b][1] = Genesis /\ IsValid(Line[b])

-----------------------------------------------------------------------------
\* The delivered blocks above the anchor

\* Descendants of a block all of whose predecessors down to it are there too.
Connected(blocks, a) ==
    {b \in blocks :
        /\ Descends(b, a)
        /\ \A c \in ToSet(Line[b]) : Descends(c, a) => c \in blocks}

Anchor == state.latest_stable_block_hash

\* The depth of a block by the comment that heads blockforest.rs.
DepthOf(blocks, b) ==
    Max({Level(d) - Level(b) : d \in {b} \cup Connected(blocks, b)})

Highest(blocks) == {t \in blocks : \A d \in blocks : Level(d) <= Level(t)}

\* The blocks that all the longest chains above the anchor have in common.
Uncontested(blocks, a) ==
    {c \in Connected(blocks, a) :
        \A t \in Highest(Connected(blocks, a)) : c \in ToSet(Line[t])}

DefinitionOfStable(blocks, b) ==
    /\ DepthOf(blocks, b) >= Delta
    /\ \A c \in Connected(blocks, Prev[b]) :
          Level(c) = Level(b) /\ c # b =>
              DepthOf(blocks, b) - DepthOf(blocks, c) >= Delta

-----------------------------------------------------------------------------
\* The properties

\* The UTXO set of the stable blocks is what their transactions leave unspent,
\* whatever order the blocks came in and whichever forks were dropped on the
\* way.  (insert_block inserts the block at position i > 1 at height i - 1.)
UtxosAreReplay ==
    IntoSet(state.utxos) =
        {[c EXCEPT !.height = IF @ = 1 THEN 1 ELSE @ - 1] : c \in Unspent(stable)}

\* The index by address and the map of outpoints, which the code updates side
\* by side, agree: get_utxos relies on it with expect("outpoint must exist").
IndexMatchesUtxos == IndexMatches(state.utxos)

\* Inserting any block next, in any state, panics nowhere: no outpoint of a
\* block that becomes stable is missing, doubly inserted or not indexed.
NextInsertSucceeds == \A b \in Blocks : ~Traps(Insert(state, b))

\* The requests that the current chain can satisfy in full.
AnswerableMinConfirmations == 0..(Len(CurrentChain(state)) + 1)

\* get_utxos, which replays the confirmed unstable blocks over the part of the
\* UTXO set that belongs to one address, returns exactly the outputs of the
\* confirmed chain that pay to the address and that the chain has not spent, and
\* get_balance their sum.
ViewIsReplay ==
    LET chain == CurrentChain(state) IN
    \A a \in Addresses : \A m \in AnswerableMinConfirmations :
        LET confirmed == SubSeq(chain, 1, Min({Len(chain), Len(chain) + 1 - m}))
            mine == {c \in Unspent(stable \o confirmed) : c.output.address = a}
        IN  /\ {[o |-> u.outpoint, out |-> u.output] : u \in GetUtxos(state, a, m)} =
               {[o |-> c.outpoint, out |-> c.output] : c \in mine}
            /\ GetBalance(state, a, m) = MapThenSumSet(LAMBDA c : c.output.value, mine)

\* The heights that get_utxos reports are heights of blocks of the main chain, at
\* most one below the height of the block that holds the output, and so are the
\* confirmations: main_chain_height - height + 1 neither underflows nor reaches
\* zero.  The values of a response add up to the balance.
ReportedHeights ==
    LET chain == stable \o CurrentChain(state)
        tip == MainChainHeight(state)
    IN
    \A a \in Addresses :
        LET response == UtxosResponse(state, a, 0) IN
        /\ \A u \in response.utxos :
              \E c \in Unspent(chain) :
                 /\ c.outpoint = u.outpoint
                 /\ u.height \in 1..tip /\ u.height \in {c.height - 1, c.height}
                 /\ u.confirmations \in 1..tip
        /\ MapThenSumSet(LAMBDA u : u.value, response.utxos) = GetBalance(state, a, 0)
        /\ response.total_count = Cardinality({c \in Unspent(chain) : c.output.address = a})

\* The current chain is made of the blocks that all the longest chains of
\* delivered blocks above the anchor have in common, however the blocks are
\* spread over the trees of the forest.
CurrentChainIsLongest ==
    LET common == Uncontested(delivered, Anchor) IN
    /\ ToSet(CurrentChain(state)) = common
    /\ stable \o CurrentChain(state) \in {Line[b] : b \in common \cup {Anchor}}

\* Of blocks that are delivered once, none that can still become stable is lost:
\* moving trees around in the forest and dropping those that compete keeps every
\* delivered block that descends from the anchor, in whatever order they come.
DescendantsKept ==
    \A b \in delivered :
        Descends(b, Anchor) => b \in GetBlocks(state.unstable_blocks)

\* Of blocks that are delivered again, a step loses one that descends from the
\* anchor, or fails to take it in, only if two trees above the anchor before the
\* step have the same root: pop() then drops the shallower as a competitor.
LostOnlyToTwins ==
    [][\A b \in GetBlocks(state.unstable_blocks) \cup (delivered' \ delivered) :
          Descends(b, Anchor') =>
              \/ b \in GetBlocks(state'.unstable_blocks)
              \/ Twins(state.unstable_blocks, Anchor)]_vars

\* A block becomes stable only if the delivered blocks make it so by the
\* definition at the head of blockforest.rs: it is delta deep, and delta deeper
\* than every delivered competitor.
StabilisesByDefinition ==
    [][stable' # stable => DefinitionOfStable(delivered', Last(stable'))]_vars

\* The README of the canister: get_utxos limits "the returned UTXOs to those with at
\* least the provided number of confirmations".  The block at position i of the
\* main chain has main_chain_height - i + 1 confirmations.
MinConfirmationsRespected ==
    \A a \in Addresses : \A m \in 0..MainChainHeight(state) :
        \A u \in GetUtxos(state, a, m) :
            \E c \in Unspent(stable \o CurrentChain(state)) :
                /\ c.outpoint = u.outpoint
                /\ MainChainHeight(state) - c.height + 1 >= m

\* The comment of get_current_chain: the current chain is the longest chain with an
\* uncontested tip, "As in, there exists no other block at the same height as
\* the tip".
TipIsUncontested ==
    LET chain == CurrentChain(state) IN
    chain # <<>> =>
        \A b \in Connected(delivered, Anchor) :
            Level(b) = Level(Last(chain)) => b = Last(chain)
=============================================================================
