---------------------------- MODULE MotokoAccount ----------------------------
(***************************************************************************)
(* The account canister of examples/motoko/src/Account.mo.  Its public     *)
(* functions are cut at their awaits, between which the messages of other  *)
(* calls run; an await may throw, which ends the call and keeps what its   *)
(* earlier messages have changed.                                          *)
(*                                                                         *)
(* Unlike the Rust wallet, send() awaits the transaction it builds: the    *)
(* UTXOs are filtered in one message and set aside in a later one.  The    *)
(* key is likewise tested in one message and stored in a later one.        *)
(*                                                                         *)
(* A message of the canister that only passes a result on is part of the   *)
(* action that obtains the result.  The Bitcoin canister is external: it   *)
(* answers with any set of the outputs of the address it is asked about.   *)
(***************************************************************************)
EXTENDS CommonCanister

CONSTANTS
    Calls,      \* bound: calls under way at the same time
    Amounts,    \* the amounts users ask to send
    Fees,       \* the fees, 10_000 satoshis
    NoKey       \* the empty PRIVATE_KEY_WIF

ASSUME AccountAssumption ==
    /\ Amounts \subseteq Words
    /\ Fees \in Words
    /\ NoKey \notin Keys

VARIABLES
    PRIVATE_KEY_WIF,    \* the key the account signs with
    private_key,        \* the key generated last
    spent_outpoints,
    op,                 \* op[c]: the function that call c executes
    step,               \* step[c]: what it waits for
    amount,             \* amount[c]: its argument
    key,                \* key[c]: the key whose address it works for
    filtered,           \* filtered[c]: the UTXOs it may spend
    generated,          \* history: what raw_rand has returned
    raced,              \* history: two calls generated the first key at once
    seen,               \* history: seen[c], transactions built when c filtered
    built               \* history: transactions built, as they will be signed

accountVars == <<PRIVATE_KEY_WIF, private_key, spent_outpoints>>
callVars == <<op, step, amount, key, filtered, seen>>
vars == <<accountVars, callVars, generated, raced, built>>

\* balance(), get_utxos() and btc_address() are one "address": they change no
\* state once they have the address.
Ops == {"none", "send", "address", "generate"}
Steps == {"idle", "random", "key", "address", "utxos", "build", "sign", "send"}

Init ==
    /\ PRIVATE_KEY_WIF = NoKey
    /\ private_key = NoKey
    /\ spent_outpoints = {}
    /\ op = [c \in Calls |-> "none"]
    /\ step = [c \in Calls |-> "idle"]
    /\ amount = [c \in Calls |-> 0]
    /\ key = [c \in Calls |-> NoKey]
    /\ filtered = [c \in Calls |-> {}]
    /\ seen = [c \in Calls |-> 0]
    /\ generated = {}
    /\ raced = FALSE
    /\ built = <<>>

\* The end of a call, by return or throw: its locals are gone.
End(c) ==
    /\ op' = [op EXCEPT ![c] = "none"]
    /\ step' = [step EXCEPT ![c] = "idle"]
    /\ amount' = [amount EXCEPT ![c] = 0]
    /\ key' = [key EXCEPT ![c] = NoKey]
    /\ filtered' = [filtered EXCEPT ![c] = {}]
    /\ seen' = [seen EXCEPT ![c] = 0]

\* Call c is on its way to store the first key.
StoresKey(c) == step[c] = "key" \/ (step[c] = "random" /\ op[c] # "generate")

-----------------------------------------------------------------------------
\* generate_private_key(), called from outside: it replaces private_key only.
GeneratePrivateKey(c) ==
    /\ step[c] = "idle"
    /\ op' = [op EXCEPT ![c] = "generate"]
    /\ step' = [step EXCEPT ![c] = "random"]
    /\ UNCHANGED <<accountVars, amount, key, filtered, seen, generated, raced, built>>

Called(c, what, satoshis) ==
    /\ step[c] = "idle"
    /\ op' = [op EXCEPT ![c] = what]
    /\ amount' = [amount EXCEPT ![c] = satoshis]
    /\ UNCHANGED <<accountVars, filtered, seen, generated, built>>

\* Mutant: a key is generated whether there is one or not.
AlwaysFirstUse(c, what, satoshis) ==
    /\ step' = [step EXCEPT ![c] = "random"]
    /\ raced' = (raced \/ \E d \in Calls : StoresKey(d))
    /\ UNCHANGED key
    /\ Called(c, what, satoshis)

\* btc_address() finds no key: it asks for randomness.
FirstUse(c, what, satoshis) ==
    /\ PRIVATE_KEY_WIF = NoKey
    /\ step' = [step EXCEPT ![c] = "random"]
    /\ raced' = (raced \/ \E d \in Calls : StoresKey(d))
    /\ UNCHANGED key
    /\ Called(c, what, satoshis)

\* btc_address() asks the common canister for the address of the key there is.
LaterUse(c, what, satoshis) ==
    /\ PRIVATE_KEY_WIF # NoKey
    /\ step' = [step EXCEPT ![c] = "address"]
    /\ key' = [key EXCEPT ![c] = PRIVATE_KEY_WIF]
    /\ UNCHANGED raced
    /\ Called(c, what, satoshis)

\* A call of one of the functions that need the address.
Call(c, what, satoshis) == FirstUse(c, what, satoshis) \/ LaterUse(c, what, satoshis)

\* raw_rand answers: 32 bytes that never occur twice.
GenerateReturns(c, k) ==
    /\ step[c] = "random"
    /\ k \notin generated
    /\ private_key' = k
    /\ generated' = generated \cup {k}
    /\ UNCHANGED <<PRIVATE_KEY_WIF, spent_outpoints, raced, built>>
    /\ IF op[c] = "generate"
       THEN End(c)
       ELSE /\ step' = [step EXCEPT ![c] = "key"]
            /\ key' = [key EXCEPT ![c] = k]
            /\ UNCHANGED <<op, amount, filtered, seen>>

\* btc_address() stores the key and asks for its address.
StoreKey(c) ==
    /\ step[c] = "key"
    /\ PRIVATE_KEY_WIF' = key[c]
    /\ step' = [step EXCEPT ![c] = "address"]
    /\ UNCHANGED <<private_key, spent_outpoints, op, amount, key, filtered, seen,
                   generated, raced, built>>

\* The address arrives: send() asks for its UTXOs.
AddressReturns(c) ==
    /\ step[c] = "address"
    /\ UNCHANGED <<accountVars, generated, raced, built>>
    /\ IF op[c] = "address"
       THEN End(c)
       ELSE /\ step' = [step EXCEPT ![c] = "utxos"]
            /\ UNCHANGED <<op, amount, key, filtered, seen>>

\* Mutant: what was set aside is offered again.
FilteredNot(utxos) == utxos

\* Array.filter with is_spent_outpoint(), which holds of what is not spent.
Filtered(utxos) == utxos \ spent_outpoints

\* The UTXOs arrive: those that are left are offered to the common canister.
GetUtxosReturns(c) ==
    /\ step[c] = "utxos"
    /\ UNCHANGED <<accountVars, generated, raced, built>>
    /\ \E utxos \in SUBSET OutputsOf(P2pkhAddress[key[c]]) :
          IF Filtered(utxos) = {}
          THEN End(c)
          ELSE /\ filtered' = [filtered EXCEPT ![c] = Filtered(utxos)]
               /\ seen' = [seen EXCEPT ![c] = Len(built)]
               /\ step' = [step EXCEPT ![c] = "build"]
               /\ UNCHANGED <<op, amount, key>>

\* The outpoints set aside: those at the indices that were used.
RecordedOutPoints(utxos, tx) ==
    LET used == UsedIndices(utxos, tx) IN {utxos[used[j]] : j \in DOMAIN used}

\* The transaction arrives: its inputs are set aside, and it goes to be signed
\* with the key that is stored now.
BuildReturns(c) ==
    \E utxos \in SetToSeqs(filtered[c]) :
        LET tx == BuildTransaction(utxos, amount[c], Fees)
            source == P2pkhAddress[key[c]]
        IN
        /\ step[c] = "build"
        /\ CanBuild(utxos, amount[c], Fees)
        /\ spent_outpoints' = spent_outpoints \cup RecordedOutPoints(utxos, tx)
        /\ built' = Append(built, [signed |-> SignTransaction(tx, PRIVATE_KEY_WIF, source),
                                   seen |-> seen[c]])
        /\ step' = [step EXCEPT ![c] = "sign"]
        /\ filtered' = [filtered EXCEPT ![c] = {}]
        /\ seen' = [seen EXCEPT ![c] = 0]
        /\ UNCHANGED <<PRIVATE_KEY_WIF, private_key, op, amount, key, generated, raced>>

\* Mutant: the call asks for UTXOs again until they cover the amount.
BuildAsksAgain(c) ==
    /\ step[c] = "build"
    /\ \E utxos \in SetToSeqs(filtered[c]) : ~CanBuild(utxos, amount[c], Fees)
    /\ step' = [step EXCEPT ![c] = "utxos"]
    /\ UNCHANGED <<accountVars, op, amount, key, filtered, seen, generated, raced, built>>

\* The UTXOs do not cover the amount, and send() returns the error.
BuildFails(c) ==
    /\ step[c] = "build"
    /\ \E utxos \in SetToSeqs(filtered[c]) : ~CanBuild(utxos, amount[c], Fees)
    /\ End(c)
    /\ UNCHANGED <<accountVars, generated, raced, built>>

\* The signed transaction arrives and is handed to the Bitcoin canister.
SignReturns(c) ==
    /\ step[c] = "sign"
    /\ step' = [step EXCEPT ![c] = "send"]
    /\ UNCHANGED <<accountVars, op, amount, key, filtered, seen, generated, raced, built>>

\* The result of send_transaction is send()'s own.
SendReturns(c) ==
    /\ step[c] = "send"
    /\ End(c)
    /\ UNCHANGED <<accountVars, generated, raced, built>>

\* The awaited call returns an error or is rejected: send() returns or throws.
AwaitFails(c) ==
    /\ step[c] \notin {"idle", "key"}
    /\ End(c)
    /\ UNCHANGED <<accountVars, generated, raced, built>>

-----------------------------------------------------------------------------
Start(c) ==
    \/ GeneratePrivateKey(c)
    \/ Call(c, "address", 0)
    \/ \E satoshis \in Amounts : Call(c, "send", satoshis)

Continue(c) ==
    \/ \E k \in Keys : GenerateReturns(c, k)
    \/ StoreKey(c)
    \/ AddressReturns(c)
    \/ GetUtxosReturns(c)
    \/ BuildReturns(c) \/ BuildFails(c)
    \/ SignReturns(c)
    \/ SendReturns(c)
    \/ AwaitFails(c)

Next == \E c \in Calls : Start(c) \/ Continue(c)

\* The Internet Computer answers every call, with a reject if need be, and
\* executes the continuation of a call that has been answered.
Fairness == \A c \in Calls : WF_vars(Continue(c))

Spec == Init /\ [][Next]_vars /\ Fairness

-----------------------------------------------------------------------------
\* The type invariant.  A call has UTXOs only while its transaction is built,
\* and a key only from the answer of raw_rand or the stored key on.
TypeOK ==
    /\ PRIVATE_KEY_WIF \in generated \cup {NoKey}
    /\ private_key \in generated \cup {NoKey}
    /\ spent_outpoints \subseteq OutPoints
    /\ generated \subseteq Keys
    /\ raced \in BOOLEAN
    /\ op \in [Calls -> Ops]
    /\ step \in [Calls -> Steps]
    /\ amount \in [Calls -> Words]
    /\ key \in [Calls -> generated \cup {NoKey}]
    /\ filtered \in [Calls -> SUBSET OutPoints]
    /\ seen \in [Calls -> 0..Len(built)]
    /\ \A c \in Calls :
          /\ step[c] # "build" => filtered[c] = {}
          /\ key[c] = NoKey <=> step[c] \in {"idle", "random"}
          /\ step[c] = "idle" <=> op[c] = "none"

Inputs(i) == ToSet(built[i].signed.inputs)

\* "Stores outpoints the have been spent": two transactions spend the same
\* outpoint only if the calls raced between filter and record.  The later one
\* filtered its UTXOs before the earlier one had set its inputs aside.
DoubleSpendsOverlap ==
    \A i, j \in DOMAIN built :
        i < j /\ Inputs(i) \cap Inputs(j) # {} => i > built[j].seen

\* If a single call generated the first key, the key a transaction is signed with
\* unlocks every one of its inputs, although the address was computed and the
\* key read in different messages, and whatever generate_private_key() did.
InputsUnlocked ==
    ~raced => \A i \in DOMAIN built :
                 \A o \in Inputs(i) : Accepts(o, built[i].signed)

\* Every call ends, and no call keeps another one waiting.
CallsEnd == \A c \in Calls : step[c] # "idle" ~> step[c] = "idle"
=============================================================================
