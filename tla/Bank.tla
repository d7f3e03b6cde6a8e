-------------------------------- MODULE Bank --------------------------------
(***************************************************************************)
(* The bank of examples/motoko/bank/main.mo, which mints a cash canister   *)
(* for every 10_000 satoshis that an account signed by the factory holds,  *)
(* composed with the factory and its accounts.  The calls of               *)
(* notifyBitcoinContainerDeposit() and of mint_cash() are cut at their     *)
(* awaits; get_difference() reads what was minted before it awaits the     *)
(* balance, mint_cash() counts after the awaits that make the cash.        *)
(*                                                                         *)
(* The Bitcoin canister is external: a balance is any of a set, and may    *)
(* fall as well as rise.  Signatures of cash are the number of the bank's  *)
(* key; they travel to the cash canister by themselves, where nothing      *)
(* reads them.                                                             *)
(***************************************************************************)
EXTENDS AccountFactory

CONSTANTS
    Calls,                      \* bound: calls of the bank under way at a time
    Balances,                   \* balances of an account, in satoshis
    satoshisPerMintedToken,     \* 10000
    MaxReserveKeys,             \* bound: keys the bank generates
    MaxCash                     \* bound: cash canisters created

ASSUME BankAssumption ==
    /\ Balances \subseteq Nat
    /\ satoshisPerMintedToken \in Nat \ {0}
    /\ MaxReserveKeys \in Nat
    /\ MaxCash \in Nat

VARIABLES
    reserveKey,     \* private_key, private_key_wif and private_key_decimal
    tokensMinted,
    minted,         \* btcContainerHashMap
    cash,           \* the cash canisters: owner, and signature or 0
    step,           \* step[d]: what call d waits for
    caller,         \* caller[d]: who notifies, until compared with the owner
    container,      \* container[d]: the account
    claimed,        \* claimed[d]: accountIdSignedMessage, until verified
    known,          \* known[d]: cash_minted
    left,           \* left[d]: tokens the loop has yet to mint
    newCash,        \* newCash[d]: the cash canister just created
    certified,      \* certified[d]: its signature
    covered,        \* history: covered[d], the tokens d found covered
    peak,           \* history: peak[p], most tokens p was found to cover
    direct,         \* history: accounts mint_cash() was called for from outside
    overlapped      \* history: accounts on which two deposits overlapped

reserveVars == <<reserveKey, tokensMinted, minted, cash>>
checkVars == <<caller, container, claimed>>
mintVars == <<known, left, newCash, certified>>
historyVars == <<covered, peak, direct, overlapped>>
bankVars == <<reserveVars, step, checkVars, mintVars, historyVars>>
vars == <<factoryVars, accountVars, publicVars, bankVars>>

Steps == {"idle", "signature", "verify", "owner", "difference", "balance",
          "cash", "certify", "count"}

BankInit ==
    /\ reserveKey = 0
    /\ tokensMinted = 0
    /\ minted = <<>>
    /\ cash = <<>>
    /\ step = [d \in Calls |-> "idle"]
    /\ caller = [d \in Calls |-> NoOwner]
    /\ container = [d \in Calls |-> NoAccount]
    /\ claimed = [d \in Calls |-> NoSignature]
    /\ known = [d \in Calls |-> 0]
    /\ left = [d \in Calls |-> 0]
    /\ newCash = [d \in Calls |-> 0]
    /\ certified = [d \in Calls |-> 0]
    /\ covered = [d \in Calls |-> 0]
    /\ peak = [p \in Accounts |-> 0]
    /\ direct = {}
    /\ overlapped = {}

\* cash_minted_for_container()
MintedFor(p) == IF p \in DOMAIN minted THEN minted[p] ELSE 0

\* The end of call d, by return or throw: its locals are gone.
End(d) ==
    /\ step' = [step EXCEPT ![d] = "idle"]
    /\ caller' = [caller EXCEPT ![d] = NoOwner]
    /\ container' = [container EXCEPT ![d] = NoAccount]
    /\ claimed' = [claimed EXCEPT ![d] = NoSignature]
    /\ known' = [known EXCEPT ![d] = 0]
    /\ left' = [left EXCEPT ![d] = 0]
    /\ newCash' = [newCash EXCEPT ![d] = 0]
    /\ certified' = [certified EXCEPT ![d] = 0]
    /\ covered' = [covered EXCEPT ![d] = 0]

GoTo(d, next) == step' = [step EXCEPT ![d] = next]

-----------------------------------------------------------------------------
\* generate_private_key(): the message that stores the new key.
GenerateReserveKey ==
    /\ reserveKey < MaxReserveKeys
    /\ reserveKey' = reserveKey + 1
    /\ UNCHANGED <<tokensMinted, minted, cash, step, checkVars, mintVars, historyVars>>

\* notifyBitcoinContainerDeposit() up to its first await: an account for which
\* the bank has minted before is not checked again.
Notify(d, u, p) ==
    /\ step[d] = "idle"
    /\ owner[p] # NoOwner
    /\ GoTo(d, IF p \in DOMAIN minted THEN "owner" ELSE "signature")
    /\ caller' = [caller EXCEPT ![d] = u]
    /\ container' = [container EXCEPT ![d] = p]
    /\ UNCHANGED <<reserveVars, claimed, mintVars, historyVars>>

\* get_parent_signed_accountId(): without a signature the deposit fails.
SignatureReturns(d) ==
    /\ step[d] = "signature"
    /\ UNCHANGED <<reserveVars, peak, direct, overlapped>>
    /\ IF signature[container[d]] = NoSignature
       THEN End(d)
       ELSE /\ claimed' = [claimed EXCEPT ![d] = signature[container[d]]]
            /\ GoTo(d, "verify")
            /\ UNCHANGED <<caller, container, mintVars, covered>>

\* verify_message() of the factory, with the key it has by then.
VerifyReturns(d) ==
    /\ step[d] = "verify"
    /\ UNCHANGED <<reserveVars, peak, direct, overlapped>>
    /\ IF ~Verified(container[d], claimed[d])
       THEN End(d)
       ELSE /\ claimed' = [claimed EXCEPT ![d] = NoSignature]
            /\ GoTo(d, "owner")
            /\ UNCHANGED <<caller, container, mintVars, covered>>

\* get_owner()
OwnerReturns(d) ==
    /\ step[d] = "owner"
    /\ UNCHANGED <<reserveVars, peak, direct, overlapped>>
    /\ IF owner[container[d]] # caller[d]
       THEN End(d)
       ELSE /\ caller' = [caller EXCEPT ![d] = NoOwner]
            /\ GoTo(d, "difference")
            /\ UNCHANGED <<container, claimed, mintVars, covered>>

\* Another call has read what was minted for p, or is minting for p.
Disturbed(d, p) ==
    \E e \in Calls \ {d} :
        container[e] = p /\ step[e] \in {"balance", "cash", "certify", "count"}

\* get_difference() up to its await: it reads what was minted.
ReadMinted(d) ==
    LET p == container[d] IN
    /\ step[d] = "difference"
    /\ known' = [known EXCEPT ![d] = MintedFor(p)]
    /\ overlapped' = IF Disturbed(d, p) THEN overlapped \cup {p} ELSE overlapped
    /\ GoTo(d, "balance")
    /\ UNCHANGED <<reserveVars, checkVars, left, newCash, certified, covered, peak, direct>>

\* Mutant: the tokens minted before are not subtracted.
DifferenceOfBalance(d, satoshis) == satoshis \div satoshisPerMintedToken

\* Mutant: a token for the rest of the balance, too.
DifferenceRoundedUp(d, satoshis) ==
    (satoshis + satoshisPerMintedToken - 1) \div satoshisPerMintedToken - known[d]

\* A Nat: a negative difference traps.
Difference(d, satoshis) == satoshis \div satoshisPerMintedToken - known[d]

\* The balance arrives; the loop starts unless nothing is to be minted.
BalanceReturns(d, satoshis) ==
    LET p == container[d]
        tokens == satoshis \div satoshisPerMintedToken
    IN
    /\ step[d] = "balance"
    /\ UNCHANGED <<reserveVars, direct, overlapped>>
    /\ peak' = [peak EXCEPT ![p] = IF tokens > @ THEN tokens ELSE @]
    /\ IF Difference(d, satoshis) <= 0
       THEN End(d)
       ELSE /\ left' = [left EXCEPT ![d] = Difference(d, satoshis)]
            /\ covered' = [covered EXCEPT ![d] = tokens]
            /\ GoTo(d, "cash")
            /\ UNCHANGED <<checkVars, known, newCash, certified>>

-----------------------------------------------------------------------------
\* mint_cash() called from outside.
MintCash(d, p) ==
    /\ step[d] = "idle"
    /\ GoTo(d, "cash")
    /\ container' = [container EXCEPT ![d] = p]
    /\ left' = [left EXCEPT ![d] = 1]
    /\ direct' = direct \cup {p}
    /\ UNCHANGED <<reserveVars, caller, claimed, known, newCash, certified,
                   covered, peak, overlapped>>

\* The cash canister is created: it belongs to the account.
CashCreated(d) ==
    /\ step[d] = "cash"
    /\ Len(cash) < MaxCash
    /\ cash' = Append(cash, [owner |-> container[d], by |-> 0])
    /\ newCash' = [newCash EXCEPT ![d] = Len(cash) + 1]
    /\ GoTo(d, "certify")
    /\ UNCHANGED <<reserveKey, tokensMinted, minted, checkVars, known, left, certified,
                   historyVars>>

\* create_signed_accountId(): the random number is there; it traps without a key.
CashSigned(d) ==
    /\ step[d] = "certify"
    /\ reserveKey # 0
    /\ certified' = [certified EXCEPT ![d] = reserveKey]
    /\ GoTo(d, "count")
    /\ UNCHANGED <<reserveVars, checkVars, known, left, newCash, historyVars>>

\* Mutant: the count that get_difference() has read is increased.
CountedFromKnown(d) ==
    LET p == container[d]
    IN  [q \in DOMAIN minted \cup {p} |-> IF q = p THEN known[d] + 1 ELSE minted[q]]

\* btcContainerHashMap.put(), with the count as it is now.
Counted(d) ==
    LET p == container[d]
    IN  [q \in DOMAIN minted \cup {p} |-> IF q = p THEN MintedFor(p) + 1 ELSE minted[q]]

\* Mutant: one more round.
LoopsOnceMore(d) == left[d] >= 0

\* The loop goes on as long as tokens are left.
Loops(d) == left[d] > 1

\* mint_cash() after its awaits: the signature is sent, the token counted.
CashMinted(d) ==
    /\ step[d] = "count"
    /\ cash' = [cash EXCEPT ![newCash[d]].by = certified[d]]
    /\ tokensMinted' = tokensMinted + 1
    /\ minted' = Counted(d)
    /\ UNCHANGED <<reserveKey, peak, direct, overlapped>>
    /\ IF Loops(d)
       THEN /\ left' = [left EXCEPT ![d] = @ - 1]
            /\ newCash' = [newCash EXCEPT ![d] = 0]
            /\ certified' = [certified EXCEPT ![d] = 0]
            /\ GoTo(d, "cash")
            /\ UNCHANGED <<checkVars, known, covered>>
       ELSE End(d)

\* The awaited call is rejected, or get_difference() traps for want of a
\* balance: what was minted so far stays.
Throws(d) ==
    /\ step[d] \notin {"idle", "difference", "count"}
    /\ End(d)
    /\ UNCHANGED <<reserveVars, peak, direct, overlapped>>

-----------------------------------------------------------------------------
Starts(d) ==
    \/ \E u \in Customers, p \in Accounts : Notify(d, u, p)
    \/ \E p \in Accounts : MintCash(d, p)

Continues(d) ==
    \/ SignatureReturns(d) \/ VerifyReturns(d) \/ OwnerReturns(d) \/ ReadMinted(d)
    \/ \E satoshis \in Balances : BalanceReturns(d, satoshis)
    \/ CashCreated(d) \/ CashSigned(d) \/ CashMinted(d)
    \/ Throws(d)

BankNext ==
    \/ GenerateReserveKey
    \/ \E d \in Calls : Starts(d) \/ Continues(d)

Init == FactoryInit /\ BankInit

Next ==
    \/ FactoryNext /\ UNCHANGED bankVars
    \/ BankNext /\ UNCHANGED <<factoryVars, accountVars, publicVars>>

Spec == Init /\ [][Next]_vars

-----------------------------------------------------------------------------
\* The type invariant of factory, accounts and bank.
TypeOK ==
    /\ FactoryTypeOK
    /\ reserveKey \in 0..MaxReserveKeys
    /\ tokensMinted \in Nat
    /\ DOMAIN minted \subseteq Accounts
    /\ \A p \in DOMAIN minted : minted[p] \in Nat \ {0}
    /\ cash \in Seq([owner : Accounts, by : 0..MaxReserveKeys])
    /\ step \in [Calls -> Steps]
    /\ caller \in [Calls -> Customers \cup {NoOwner}]
    /\ container \in [Calls -> Accounts \cup {NoAccount}]
    /\ claimed \in [Calls -> Signatures \cup {NoSignature}]
    /\ known \in [Calls -> Nat]
    /\ left \in [Calls -> Nat]
    /\ newCash \in [Calls -> 0..Len(cash)]
    /\ certified \in [Calls -> 0..MaxReserveKeys]
    /\ covered \in [Calls -> Nat]
    /\ peak \in [Accounts -> Nat]
    /\ direct \subseteq Accounts
    /\ overlapped \subseteq Accounts
    /\ \A d \in Calls :
          /\ step[d] = "idle" <=> container[d] = NoAccount
          /\ step[d] \in {"certify", "count"} => newCash[d] # 0
          /\ step[d] = "count" => certified[d] # 0

CashOf(p) == {i \in DOMAIN cash : cash[i].owner = p /\ cash[i].by # 0}

\* Every count is the number of cash canisters that were signed, in all and for
\* each account, however the calls that mint them interleave and wherever they
\* throw: a token is signed and counted in one message, from counts read in it.
CountsAgree ==
    /\ tokensMinted = Cardinality({i \in DOMAIN cash : cash[i].by # 0})
    /\ \A p \in Accounts : MintedFor(p) = Cardinality(CashOf(p))

\* Neither did two deposits of p overlap nor did anyone call mint_cash() for it.
OneAtATime(p) == p \notin direct \cup overlapped

\* One token for every 10_000 satoshis: if an account's deposits are notified one
\* at a time, the tokens minted for it never exceed what it was found to hold,
\* whatever withdrawals, throws and repeated notifications there are.
BackedByDeposits ==
    \A p \in Accounts : OneAtATime(p) => MintedFor(p) <= peak[p]

\* A deposit whose mints have thrown is made up for by the next: as long as the
\* loop runs, what is minted and what is left are together what the balance covers.
DepositOnCourse ==
    \A d \in Calls :
        /\ step[d] \in {"cash", "certify", "count"}
        /\ OneAtATime(container[d])
        => MintedFor(container[d]) + left[d] = covered[d]

\* What the check of the signature is worth.  Unless mint_cash() is called directly,
\* the bank mints for p only if a key of the factory has signed for p; and if nobody
\* but createAccount() asked for that, only after p was made its own controller.
\* So it is whatever signatures of other accounts and other keys anybody sets, copies,
\* replaces or clears, at whichever await of the bank or the factory.
MintedForSigned ==
    \A p \in DOMAIN minted \ direct :
        /\ \E s \in published : s.of = p
        /\ p \in selfControlled \cup signedOutside
=============================================================================
