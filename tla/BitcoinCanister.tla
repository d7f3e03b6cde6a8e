-------------------------- MODULE BitcoinCanister --------------------------
(***************************************************************************)
(* The Bitcoin canister (canister/src/main.rs), the adapter shim that      *)
(* drives it (canister/src/adapter-shim.rs) and, as far as the shim sees   *)
(* it, the Bitcoin adapter.                                                *)
(*                                                                         *)
(* The shim is a loop: query the canister for a request, pass it to the    *)
(* adapter, submit the answer to the canister as an update call and wait   *)
(* for it; then fetch one outgoing transaction, if there is one, and pass  *)
(* it to the adapter.  Every await is a point where the others may act.    *)
(* An update call that was submitted is executed, atomically, whether or   *)
(* not the shim still waits for it: a shim that dies (every await is       *)
(* followed by unwrap, and an update call times out after five minutes)    *)
(* and is started again may meet the call of its predecessor.              *)
(***************************************************************************)
EXTENDS BitcoinAdapter

CONSTANTS
    Transactions,   \* the well-formed transactions users submit
    NoTransaction,  \* the shim holds no transaction
    MaxCrashes      \* bound: how often the shim dies

ASSUME CanisterAssumption ==
    /\ NoTransaction \notin Transactions
    /\ MaxCrashes \in Nat

VARIABLES
    outgoing,   \* OUTGOING_TRANSACTIONS, the queue of the canister
    shim,       \* what the shim does next
    request,    \* the block hashes of the shim's get_successors request
    hand,       \* the transaction the shim has fetched
    calls,      \* update calls submitted and not executed; live if awaited
    crashes,    \* number of deaths of the shim so far
    accepted,   \* history: transactions accepted by send_transaction, in order
    forwarded,  \* history: transactions the adapter took, in order
    lost        \* history: transactions fetched and not taken

shimVars == <<shim, request, hand>>
txVars == <<outgoing, accepted, forwarded, lost>>
systemVars == <<vars, txVars, shimVars, available, calls, crashes>>

Steps == {"query", "adapter", "await_response", "outgoing", "await_tx", "send", "down"}

SystemInit ==
    /\ Init
    /\ outgoing = <<>> /\ accepted = <<>> /\ forwarded = <<>> /\ lost = {}
    /\ available = {Genesis}
    /\ shim = "query" /\ request = {} /\ hand = NoTransaction
    /\ calls = <<>>
    /\ crashes = 0

-----------------------------------------------------------------------------
\* Users and the Bitcoin network

\* send_transaction(); a malformed transaction is refused and changes nothing.
SendTransaction(tx) ==
    /\ tx \notin ToSet(accepted)
    /\ outgoing' = Append(outgoing, tx)
    /\ accepted' = Append(accepted, tx)
    /\ UNCHANGED <<vars, shimVars, forwarded, lost, available, calls, crashes>>

\* External: the adapter learns of a block.
BlockArrives(b) ==
    /\ Learns(b)
    /\ UNCHANGED <<vars, txVars, shimVars, calls, crashes>>

-----------------------------------------------------------------------------
\* The first half of the loop: blocks

\* Mutant: the anchor is not in the request.
QueryRequestWithoutAnchor ==
    /\ shim = "query"
    /\ request' = GetBlocks(state.unstable_blocks)
    /\ shim' = "adapter"
    /\ UNCHANGED <<vars, txVars, hand, available, calls, crashes>>

\* get_successors_request()
QueryRequest ==
    /\ shim = "query"
    /\ request' = GetBlocks(state.unstable_blocks) \cup {Anchor}
    /\ shim' = "adapter"
    /\ UNCHANGED <<vars, txVars, hand, available, calls, crashes>>

\* The adapter answers and the shim submits the answer to the canister.
AdapterAnswers(blocks) ==
    /\ shim = "adapter"
    /\ calls' = Append(calls, [method |-> "get_successors_response",
                               blocks |-> blocks, live |-> TRUE])
    /\ request' = {}
    /\ shim' = "await_response"
    /\ UNCHANGED <<vars, txVars, hand, available, crashes>>

\* Mutant: the loop starts over.
AdapterFailsContinue ==
    /\ shim = "adapter"
    /\ request' = {}
    /\ shim' = "query"
    /\ UNCHANGED <<vars, txVars, hand, available, calls, crashes>>

\* The error is printed, and the loop goes on with the outgoing transactions.
AdapterFails ==
    /\ shim = "adapter"
    /\ request' = {}
    /\ shim' = "outgoing"
    /\ UNCHANGED <<vars, txVars, hand, available, calls, crashes>>

\* get_successors_response().  A panic reaches a waiting shim as an error, which
\* it unwraps.
ExecuteResponse(i) ==
    LET after == InsertAll(calls[i].blocks) IN
    /\ calls[i].method = "get_successors_response"
    /\ IF Traps(after.state)
       THEN UNCHANGED vars
       ELSE /\ state' = after.state /\ stable' = after.stable
            /\ delivered' = delivered \cup ToSet(calls[i].blocks)
    /\ shim' = IF ~calls[i].live THEN shim
               ELSE IF Traps(after.state) THEN "down" ELSE "outgoing"
    /\ calls' = RemoveAt(calls, i)
    /\ UNCHANGED <<txVars, request, hand, available, crashes>>

-----------------------------------------------------------------------------
\* The second half of the loop: transactions

\* has_outgoing_transaction(): without one the loop starts over, else the shim
\* submits a call of get_outgoing_transaction.
QueryOutgoing ==
    /\ shim = "outgoing"
    /\ IF outgoing = <<>>
       THEN shim' = "query" /\ UNCHANGED calls
       ELSE /\ shim' = "await_tx"
            /\ calls' = Append(calls, [method |-> "get_outgoing_transaction",
                                       blocks |-> <<>>, live |-> TRUE])
    /\ UNCHANGED <<vars, txVars, request, hand, available, crashes>>

\* Mutant: the queue is a stack.
PopBack(queue) ==
    IF queue = <<>> THEN [tx |-> NoTransaction, rest |-> <<>>]
    ELSE [tx |-> Last(queue), rest |-> Front(queue)]

PopFront(queue) ==
    IF queue = <<>> THEN [tx |-> NoTransaction, rest |-> <<>>]
    ELSE [tx |-> Head(queue), rest |-> Tail(queue)]

\* Mutant: the shim counts on the answer of has_outgoing_transaction.
AfterFetchSend(tx) == "send"

AfterFetch(tx) == IF tx = NoTransaction THEN "query" ELSE "send"

\* get_outgoing_transaction().  Nobody receives the transaction of a call whose
\* shim has died.
ExecuteOutgoing(i) ==
    LET popped == PopFront(outgoing) IN
    /\ calls[i].method = "get_outgoing_transaction"
    /\ outgoing' = popped.rest
    /\ IF calls[i].live
       THEN /\ hand' = popped.tx
            /\ shim' = AfterFetch(popped.tx)
            /\ UNCHANGED lost
       ELSE /\ lost' = lost \cup ({popped.tx} \ {NoTransaction})
            /\ UNCHANGED <<hand, shim>>
    /\ calls' = RemoveAt(calls, i)
    /\ UNCHANGED <<vars, request, accepted, forwarded, available, crashes>>

\* The adapter takes the transaction, or returns an error that is only printed.
SendToAdapter ==
    /\ shim = "send"
    /\ \/ forwarded' = Append(forwarded, hand) /\ UNCHANGED lost
       \/ lost' = lost \cup {hand} /\ UNCHANGED forwarded
    /\ hand' = NoTransaction
    /\ shim' = "query"
    /\ UNCHANGED <<vars, outgoing, accepted, request, available, calls, crashes>>

-----------------------------------------------------------------------------
\* Failures of the shim

Crash ==
    /\ shim # "down" /\ crashes < MaxCrashes
    /\ crashes' = crashes + 1
    /\ shim' = "down"
    /\ request' = {}
    /\ hand' = NoTransaction
    /\ lost' = lost \cup ({hand} \ {NoTransaction})
    /\ calls' = [i \in DOMAIN calls |-> [calls[i] EXCEPT !.live = FALSE]]
    /\ UNCHANGED <<vars, outgoing, accepted, forwarded, available>>

Restart ==
    /\ shim = "down"
    /\ shim' = "query"
    /\ UNCHANGED <<vars, txVars, request, hand, available, calls, crashes>>

\* An update call that nobody waits for may expire before it is executed.
Expire(i) ==
    /\ ~calls[i].live
    /\ calls' = RemoveAt(calls, i)
    /\ UNCHANGED <<vars, txVars, shimVars, available, crashes>>

-----------------------------------------------------------------------------
ExecuteCall == \E i \in DOMAIN calls : ExecuteResponse(i) \/ ExecuteOutgoing(i)

ServeBlocks == \E bs \in Answers(request) : bs # <<>> /\ AdapterAnswers(bs)

AdapterStep == AdapterFails \/ \E bs \in Answers(request) : AdapterAnswers(bs)

SystemNext ==
    \/ \E tx \in Transactions : SendTransaction(tx)
    \/ \E b \in Blocks : BlockArrives(b)
    \/ QueryRequest
    \/ AdapterStep
    \/ ExecuteCall
    \/ QueryOutgoing
    \/ SendToAdapter
    \/ Crash
    \/ Restart
    \/ \E i \in DOMAIN calls : Expire(i)

\* The shim runs, a dead shim is started again, an adapter that is asked again
\* and again and has blocks to serve does not answer with none of them for ever,
\* and the replica executes every call that is waited for.  The last conjunct
\* says what WF_systemVars(ExecuteCall) would, an awaited call being executable
\* until it is executed or its shim dies, and spares TLC from evaluating ENABLED
\* of the insertion of blocks.
Fairness ==
    /\ WF_systemVars(QueryRequest)
    /\ WF_systemVars(AdapterStep)
    /\ SF_systemVars(ServeBlocks)
    /\ WF_systemVars(QueryOutgoing)
    /\ WF_systemVars(SendToAdapter)
    /\ WF_systemVars(Restart)
    /\ []<>(\A i \in DOMAIN calls : ~calls[i].live)

SystemSpec == SystemInit /\ [][SystemNext]_systemVars /\ Fairness

-----------------------------------------------------------------------------
\* Properties

Call == [method : {"get_successors_response", "get_outgoing_transaction"},
         blocks : Seq(Blocks),
         live : BOOLEAN]

QueueTypeOK ==
    /\ outgoing \in Seq(Transactions) /\ accepted \in Seq(Transactions)
    /\ forwarded \in Seq(Transactions) /\ lost \subseteq Transactions
    /\ hand \in Transactions \cup {NoTransaction}
    /\ shim \in Steps
    /\ available \subseteq Blocks
    /\ calls \in Seq(Call)

\* The type invariant of the canister, the shim and the calls between them.
SystemTypeOK == TypeOK /\ QueueTypeOK /\ request \subseteq Blocks

\* Where an accepted transaction is.
Places(tx) ==
    {place \in {"queue", "shim", "adapter", "lost"} :
        \/ place = "queue" /\ tx \in ToSet(outgoing)
        \/ place = "shim" /\ tx = hand
        \/ place = "adapter" /\ tx \in ToSet(forwarded)
        \/ place = "lost" /\ tx \in lost}

InHand == IF hand = NoTransaction THEN <<>> ELSE <<hand>>

AcceptedAt(tx) == CHOOSE i \in DOMAIN accepted : accepted[i] = tx

\* An accepted transaction is in one place: in the queue, with the shim, taken
\* by the adapter or lost; and the adapter receives the transactions, each once,
\* in the order in which the canister accepted them, before any still queued,
\* even if a call of a shim that has died pops the queue in between.
TransactionsInOrderOnce ==
    /\ \A tx \in ToSet(accepted) : Cardinality(Places(tx)) = 1
    /\ LET line == forwarded \o InHand \o outgoing
       IN  \A i, j \in DOMAIN line : i < j => AcceptedAt(line[i]) < AcceptedAt(line[j])

\* A block that the adapter has and that can still be part of the chain reaches
\* the canister: the request names what its answer must connect to.
BlocksReachCanister ==
    \A b \in Blocks :
        b \in available ~> b \in delivered \/ ~Descends(b, Anchor)

\* No accepted transaction stays in the queue: the shim fetches one per round,
\* and goes on with the next round whatever the adapter answers.
TransactionsLeaveCanister ==
    \A tx \in Transactions :
        tx \in ToSet(accepted) ~> tx \in ToSet(forwarded) \cup lost
=============================================================================
