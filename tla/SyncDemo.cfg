CONSTANTS
    NoBlock = NoBlock
    NoAddress = NoAddress
    g = g
    a1 = a1
    a2 = a2
    a3 = a3
    a4 = a4
    a5 = a5
    b1 = b1
    b2 = b2
    c2 = c2
    c3 = c3
    d2 = d2
    d3 = d3
    alice = alice
    bob = bob
    Genesis = g
    Addresses = {alice, bob}
    DuplicateTxIds = {"dup"}
    MaxVout = 1
    TxIds <- MCTxIds
    Prev <- MCPrev
    Txs <- MCTxs
    Blocks = {g, a1, a2, b1, b2, d2, d3}
    Delta = 2
    MaxResponse = 2
    MaxStarts = 2
SPECIFICATION SyncSpec
CHECK_DEADLOCK FALSE
INVARIANTS
    SyncTypeOK
    CurrentChainIsLongest
    IndexMatchesUtxos
    NextInsertSucceeds
PROPERTIES
    StabilisesAcrossStarts
    BlocksReachState
