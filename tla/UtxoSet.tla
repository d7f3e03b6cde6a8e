------------------------------ MODULE UtxoSet ------------------------------
(***************************************************************************)
(* The UTXO set of canister/src/utxoset.rs: a map from outpoints to        *)
(* outputs with the height they were created at, and an index from         *)
(* addresses to vectors of outpoints.  A panic is recorded in the set; the *)
(* caller that finds it there discards the set, as the canister's runtime  *)
(* rolls back the message that panicked.                                   *)
(***************************************************************************)
EXTENDS Integers, Sequences, SequencesExt

CONSTANTS
    Addresses,      \* the addresses an output script can be parsed into
    NoAddress,      \* Address::from_script returns None
    TxIds,          \* transaction ids
    DuplicateTxIds, \* DUPLICATE_TX_IDS
    MaxVout         \* outputs of a transaction are numbered 0..MaxVout

ASSUME UtxoSetAssumption ==
    /\ NoAddress \notin Addresses
    /\ DuplicateTxIds \subseteq TxIds
    /\ MaxVout \in Nat

OutPoint == TxIds \X (0..MaxVout)

Output == [address : Addresses \cup {NoAddress}, value : Nat]

\* A coinbase transaction spends nothing.
IsTx(tx) ==
    /\ tx.txid \in TxIds
    /\ tx.inputs \in Seq(OutPoint)
    /\ tx.outputs \in Seq(Output) /\ Len(tx.outputs) <= MaxVout + 1

-----------------------------------------------------------------------------
Bind(f, k, v) == [x \in DOMAIN f \cup {k} |-> IF x = k THEN v ELSE f[x]]

Without(f, k) == Restrict(f, DOMAIN f \ {k})

NewUtxoSet(strict) ==
    [utxos |-> <<>>, index |-> <<>>, strict |-> strict, panicked |-> FALSE]

IndexOf(u, address) ==
    IF address \in DOMAIN u.index THEN u.index[address] ELSE <<>>

Panic(u) == [u EXCEPT !.panicked = TRUE]

\* The outpoint joins the map, and the index if its address is known.
Add(u, outpoint, output, height) ==
    [u EXCEPT
        !.index = IF output.address = NoAddress THEN @
                  ELSE Bind(@, output.address,
                            Append(IndexOf(u, output.address), outpoint)),
        !.utxos = Bind(@, outpoint, [output |-> output, height |-> height])]

\* Mutants: a duplicated transaction is ignored; or it panics.
InsertOutpointOnce(u, outpoint, output, height) ==
    IF outpoint \in DOMAIN u.utxos THEN u ELSE Add(u, outpoint, output, height)

InsertOutpointStrictly(u, outpoint, output, height) ==
    IF outpoint \in DOMAIN u.utxos THEN Panic(u) ELSE Add(u, outpoint, output, height)

\* An outpoint is inserted twice only for the two duplicated transactions,
\* whose second occurrence overwrites the first.
InsertOutpoint(u, outpoint, output, height) ==
    IF outpoint \in DOMAIN u.utxos /\ outpoint[1] \notin DuplicateTxIds
    THEN Panic(u)
    ELSE Add(u, outpoint, output, height)

\* Mutant: the index keeps the outpoint.
RemoveSpentIndexed(u, outpoint) ==
    IF outpoint \notin DOMAIN u.utxos
    THEN IF u.strict THEN Panic(u) ELSE u
    ELSE [u EXCEPT !.utxos = Without(@, outpoint)]

\* The body of the loop of remove_spent_txs, for one input.
RemoveSpent(u, outpoint) ==
    IF outpoint \notin DOMAIN u.utxos
    THEN IF u.strict THEN Panic(u) ELSE u
    ELSE LET address == u.utxos[outpoint].output.address
             indexed == IndexOf(u, address)
             rest == RemoveFirst(indexed, outpoint)
         IN  [u EXCEPT
                !.utxos = Without(@, outpoint),
                !.index = IF address = NoAddress THEN @
                          ELSE IF rest = <<>> THEN Without(@, address)
                          ELSE Bind(@, address, rest),
                !.panicked = \/ @
                             \/ /\ address # NoAddress
                                /\ \/ indexed = <<>>
                                   \/ u.strict /\ rest = indexed]

RemoveSpentTxs(u, tx) == FoldLeft(RemoveSpent, u, tx.inputs)

InsertUnspentTxs(u, tx, height) ==
    FoldLeftDomain(
        LAMBDA v, i : InsertOutpoint(v, <<tx.txid, i - 1>>, tx.outputs[i], height),
        u, tx.outputs)

InsertTx(u, tx, height) == InsertUnspentTxs(RemoveSpentTxs(u, tx), tx, height)

InsertTxs(u, txs, height) ==
    FoldLeft(LAMBDA v, tx : InsertTx(v, tx, height), u, txs)

\* get_utxos(): the part of the set that belongs to an address, not strict.
AddressUtxos(u, address) ==
    FoldLeft(
        LAMBDA v, outpoint :
            IF outpoint \notin DOMAIN u.utxos THEN Panic(v)
            ELSE InsertOutpoint(v, outpoint, u.utxos[outpoint].output,
                                u.utxos[outpoint].height),
        NewUtxoSet(FALSE), IndexOf(u, address))

IntoSet(u) ==
    {[outpoint |-> o, output |-> u.utxos[o].output, height |-> u.utxos[o].height] :
        o \in DOMAIN u.utxos}

-----------------------------------------------------------------------------
\* The representation invariant of a UTXO set: its index holds exactly the
\* outpoints of the map that pay to a known address, each once, under that
\* address, and no empty vector.
IndexMatches(u) ==
    /\ \A a \in DOMAIN u.index :
          /\ u.index[a] # <<>>
          /\ \A i, j \in DOMAIN u.index[a] :
                u.index[a][i] = u.index[a][j] => i = j
          /\ \A i \in DOMAIN u.index[a] :
                /\ u.index[a][i] \in DOMAIN u.utxos
                /\ u.utxos[u.index[a][i]].output.address = a
    /\ \A o \in DOMAIN u.utxos :
          LET a == u.utxos[o].output.address
          IN  a # NoAddress => a \in DOMAIN u.index /\ o \in ToSet(u.index[a])
=============================================================================
