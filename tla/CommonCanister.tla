--------------------------- MODULE CommonCanister ---------------------------
(***************************************************************************)
(* The canister of examples/common/src/main.rs, which lends Motoko         *)
(* canisters the cryptography they lack.  Its methods are queries: what    *)
(* they answer depends on their arguments alone.  A key is an abstract     *)
(* value; WIF text and key bytes determine each other.                     *)
(***************************************************************************)
EXTENDS TransactionBuilding

CONSTANTS
    Keys,           \* private keys
    Addresses,      \* P2PKH addresses
    P2pkhAddress,   \* get_p2pkh_address: the hash of a key's public key
    Pays            \* Pays[o]: the address outpoint o pays to

ASSUME CommonAssumption ==
    /\ P2pkhAddress \in [Keys -> Addresses]
    /\ \A k, l \in Keys : P2pkhAddress[k] = P2pkhAddress[l] => k = l
    /\ Pays \in [OutPoints -> Addresses]

\* The outputs of an address.
OutputsOf(address) == {o \in OutPoints : Pays[o] = address}

\* The position of every input among the UTXOs that were offered, which are
\* distinct: build_transaction returns them beside the transaction.
UsedIndices(utxos, tx) ==
    [j \in DOMAIN tx.inputs |-> CHOOSE i \in DOMAIN utxos : utxos[i] = tx.inputs[j]]

\* sign_transaction: every input carries a signature by the key and its public
\* key, made out for the outputs of the source address.
SignTransaction(tx, key, source) ==
    [inputs |-> tx.inputs, source |-> source, signer |-> key]

\* The script of outpoint o accepts such an input if it is one of the source's
\* outputs and the public key hashes to its address.
Accepts(o, signed) == Pays[o] = signed.source /\ Pays[o] = P2pkhAddress[signed.signer]
=============================================================================
