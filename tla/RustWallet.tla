----------------------------- MODULE RustWallet -----------------------------
(***************************************************************************)
(* The wallet canister of examples/rust/src/main.rs.  send() is cut at its *)
(* two awaits, between which other calls of send() run: the first waits    *)
(* for the UTXOs, the second for the Bitcoin canister to take the          *)
(* transaction.  Between them there is no await: the answer is filtered,   *)
(* the transaction built and its inputs recorded in one message, which     *)
(* leaves no trace if it traps.                                            *)
(*                                                                         *)
(* The Bitcoin canister is external here.  What it answers is the set of   *)
(* outputs that are unspent on the chain it sees, which lags behind the    *)
(* transactions the wallet has sent and goes back and forth with           *)
(* reorganisations: any set of the wallet's outputs, in any order (it is   *)
(* collected from a hash set).                                             *)
(***************************************************************************)
EXTENDS TransactionBuilding

CONSTANTS
    Calls,      \* bound: calls of send() under way at the same time
    Amounts,    \* the amounts users ask to send
    Fees        \* the fees, 10_000 satoshis

ASSUME WalletAssumption ==
    /\ Amounts \subseteq Words
    /\ Fees \in Words

Held(outpoints) == MapThenSumSet(LAMBDA o : Value[o], outpoints)

\* There are fewer satoshis than words.
ASSUME SupplyAssumption == Held(OutPoints) < WordSize

VARIABLES
    spent,      \* SPENT_TXOS
    step,       \* step[c]: what call c of send() waits for
    amount,     \* amount[c]: its argument
    answer,     \* answer[c]: the UTXOs it was given
    issued      \* history: the transactions built, in order

vars == <<spent, step, amount, answer, issued>>

Steps == {"idle", "await_utxos", "resume", "await_send"}

Init ==
    /\ spent = {}
    /\ step = [c \in Calls |-> "idle"]
    /\ amount = [c \in Calls |-> 0]
    /\ answer = [c \in Calls |-> {}]
    /\ issued = <<>>

-----------------------------------------------------------------------------
\* send() up to its first await.  A smaller amount or a malformed destination
\* traps and changes nothing.
Send(c, satoshis) ==
    /\ step[c] = "idle"
    /\ satoshis > Fees
    /\ step' = [step EXCEPT ![c] = "await_utxos"]
    /\ amount' = [amount EXCEPT ![c] = satoshis]
    /\ UNCHANGED <<spent, answer, issued>>

\* External: the Bitcoin canister executes get_utxos.
GetUtxos(c, utxos) ==
    /\ step[c] = "await_utxos"
    /\ step' = [step EXCEPT ![c] = "resume"]
    /\ answer' = [answer EXCEPT ![c] = utxos]
    /\ UNCHANGED <<spent, amount, issued>>

\* The end of a call, by return or trap: its locals are gone.
End(c) ==
    /\ step' = [step EXCEPT ![c] = "idle"]
    /\ amount' = [amount EXCEPT ![c] = 0]
    /\ answer' = [answer EXCEPT ![c] = {}]

\* The call is rejected or returns an error: send() traps.
GetUtxosFails(c) ==
    /\ step[c] = "await_utxos"
    /\ End(c)
    /\ UNCHANGED <<spent, issued>>

\* Mutant: the answer is not filtered.
UnspentUnfiltered(c) == answer[c]

Unspent(c) == answer[c] \ spent

\* Mutant: everything that was offered is recorded.
RecordedAnswer(c, tx) == spent \cup answer[c]

Recorded(c, tx) == spent \cup ToSet(tx.inputs)

\* Mutant: the UTXOs are kept over the second await, for another attempt.
BuildKeepingAnswer(c) ==
    \E utxos \in SetToSeqs(Unspent(c)) :
        LET tx == BuildTransaction(utxos, amount[c], Fees) IN
        /\ step[c] = "resume"
        /\ CanBuild(utxos, amount[c], Fees)
        /\ spent' = Recorded(c, tx)
        /\ issued' = Append(issued, tx)
        /\ step' = [step EXCEPT ![c] = "await_send"]
        /\ UNCHANGED <<amount, answer>>

\* send() from its first await to its second: remove what is spent, build the
\* transaction, record its inputs, sign it and hand it to the Bitcoin canister.
BuildAndRecord(c) ==
    \E utxos \in SetToSeqs(Unspent(c)) :
        LET tx == BuildTransaction(utxos, amount[c], Fees) IN
        /\ step[c] = "resume"
        /\ CanBuild(utxos, amount[c], Fees)
        /\ spent' = Recorded(c, tx)
        /\ issued' = Append(issued, tx)
        /\ step' = [step EXCEPT ![c] = "await_send"]
        /\ answer' = [answer EXCEPT ![c] = {}]
        /\ UNCHANGED amount

\* Mutant: the call waits for funds.
BuildWaits(c) ==
    /\ step[c] = "resume"
    /\ \E utxos \in SetToSeqs(Unspent(c)) : ~CanBuild(utxos, amount[c], Fees)
    /\ UNCHANGED vars

\* No transaction can be built: send() traps.
BuildFails(c) ==
    /\ step[c] = "resume"
    /\ \E utxos \in SetToSeqs(Unspent(c)) : ~CanBuild(utxos, amount[c], Fees)
    /\ End(c)
    /\ UNCHANGED <<spent, issued>>

\* The Bitcoin canister has taken the transaction or refused it: the result is
\* not looked at.
SendReturns(c) ==
    /\ step[c] = "await_send"
    /\ End(c)
    /\ UNCHANGED <<spent, issued>>

-----------------------------------------------------------------------------
Answer(c) == GetUtxosFails(c) \/ \E utxos \in SUBSET OutPoints : GetUtxos(c, utxos)

Resume(c) == BuildAndRecord(c) \/ BuildFails(c)

Next ==
    \E c \in Calls :
        \/ \E satoshis \in Amounts : Send(c, satoshis)
        \/ Answer(c)
        \/ Resume(c)
        \/ SendReturns(c)

\* The Internet Computer answers every call, with a reject if need be, and
\* executes the continuation of a call that has been answered.
Fairness ==
    \A c \in Calls :
        WF_vars(Answer(c)) /\ WF_vars(Resume(c)) /\ WF_vars(SendReturns(c))

Spec == Init /\ [][Next]_vars /\ Fairness

-----------------------------------------------------------------------------
CallsTypeOK ==
    /\ spent \subseteq OutPoints
    /\ step \in [Calls -> Steps]
    /\ amount \in [Calls -> Words]
    /\ answer \in [Calls -> SUBSET OutPoints]

\* The type invariant of the wallet; a call holds UTXOs only between the answer
\* it waited for and the message that uses it.
TypeOK ==
    /\ CallsTypeOK
    /\ issued \in Seq(Transaction)
    /\ \A c \in Calls : answer[c] # {} => step[c] = "resume"

\* The wallet implements a wallet that spends every outpoint once.
Wallet == INSTANCE SpendOnce
    WITH transactions <- [i \in DOMAIN issued |-> ToSet(issued[i].inputs)]

\* "A cache of spent outpoints. Needed to avoid double spending": however many
\* calls of send() hold the same answer of the Bitcoin canister, and however late
\* it is, no two of their transactions spend the same outpoint.
SpendsOnce == Wallet!Spec

\* SPENT_TXOS holds exactly the inputs of the transactions that were built: a
\* call that traps sets nothing aside, and nothing is ever released.
SpentAreIssued ==
    spent = UNION {ToSet(issued[i].inputs) : i \in DOMAIN issued}

FeeOf(tx) == Held(ToSet(tx.inputs)) - tx.amount - tx.change

\* If the outputs a call may use cover amount and fees, its transaction leaves
\* the fees to the miners, and less than the dust threshold on top of them:
\* neither the order of the outputs nor arithmetic on words changes that.
FeesPaidIfCovered ==
    [][\A c \in Calls :
        /\ step[c] = "resume" /\ step'[c] = "await_send"
        /\ Held(Unspent(c)) >= amount[c] + Fees
        => FeeOf(Last(issued')) \in Fees..(Fees + DustThreshold - 1)]_vars

\* "Fees are hard-coded to 10k satoshis": every transaction the wallet builds
\* leaves at least the fees between its inputs and its outputs.
FeesArePaid == \A i \in DOMAIN issued : FeeOf(issued[i]) >= Fees

\* Every call of send() ends, whatever the other calls have taken away from it.
SendsEnd == \A c \in Calls : step[c] # "idle" ~> step[c] = "idle"
=============================================================================
