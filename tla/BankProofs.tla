----------------------------- MODULE BankProofs -----------------------------
(***************************************************************************)
(* What the bank mints is covered, and minted for accounts that a key of   *)
(* the factory has signed for: proved for any number of accounts, calls,   *)
(* keys and balances.  The invariant follows a deposit through its         *)
(* messages.  A signature of the factory that an account or a call holds   *)
(* was published, so that what is verified was signed.  As long as         *)
(* deposits of an account do not overlap, the count that a deposit has     *)
(* read is still the count when the balance arrives, and from then on      *)
(* minted and left tokens make up what the balance covers.                 *)
(***************************************************************************)
EXTENDS Bank, FiniteSetTheorems, SequenceTheorems, TLAPS

Minting(d) == step[d] \in {"cash", "certify", "count"}

\* Call d has read what was minted for p, or is minting for p.
Works(d, p) == container[d] = p /\ (step[d] = "balance" \/ Minting(d))

Alone ==
    \A p \in Accounts : OneAtATime(p) =>
        \A d, e \in Calls : Works(d, p) /\ Works(e, p) => d = e

\* The count that d has read is current; from then on there is a token to mint, and
\* no more than were covered once.
OnCourse(d) ==
    /\ step[d] = "balance" /\ OneAtATime(container[d])
       => known[d] = MintedFor(container[d])
    /\ Minting(d) => left[d] # 0
    /\ Minting(d) /\ OneAtATime(container[d])
       => /\ MintedFor(container[d]) + left[d] = covered[d]
          /\ covered[d] <= peak[container[d]]

\* A key of the factory has signed for p.
SignedFor(p) == \E s \in published : s.of = p

\* Nobody but the factory makes its signatures.
Genuine(s) == s.by # 0 => s \in published

\* createAccount() signs what the factory no longer controls, what else is signed is
\* signed for others, and no account holds a forged signature.
SignsOthers ==
    /\ \A c \in Creators : creation[c] = "signed" => signedBy[c] # 0
    /\ \A c \in Creators : creation[c] \in {"sign", "signed"} => creating[c] \in selfControlled
    /\ \A s \in published : s.of \in selfControlled \cup signedOutside
    /\ \A p \in Accounts : Genuine(signature[p])

\* A deposit goes past the check of the signature only if there is one.
Checked ==
    \A d \in Calls :
        /\ Genuine(claimed[d])
        /\ step[d] \notin {"idle", "signature", "verify"} =>
              container[d] \in direct \/ SignedFor(container[d])

IInv ==
    /\ TypeOK
    /\ SignsOthers
    /\ Checked
    /\ MintedForSigned
    /\ Alone
    /\ \A d \in Calls : OnCourse(d)
    /\ BackedByDeposits

-----------------------------------------------------------------------------
\* The initial state.
LEMMA InitInvariant == Init => IInv
<1> SUFFICES ASSUME FactoryInit, BankInit PROVE IInv
  BY DEF Init
<1>1. FactoryTypeOK
  BY FactoryAssumption DEF FactoryInit, FactoryTypeOK, CreationSteps
<1>2. \A d \in Calls : step[d] = "idle" /\ container[d] = NoAccount
  BY DEF BankInit
<1>3. Len(cash) = 0 /\ DOMAIN minted = {} /\ \A p \in Accounts : MintedFor(p) = 0
  BY DEF BankInit, MintedFor
<1>4. TypeOK
  <2>1. cash \in Seq([owner : Accounts, by : 0..MaxReserveKeys])
    BY DEF BankInit
  <2>2. /\ reserveKey \in 0..MaxReserveKeys /\ tokensMinted \in Nat
        /\ step \in [Calls -> Steps]
        /\ caller \in [Calls -> Customers \cup {NoOwner}]
        /\ container \in [Calls -> Accounts \cup {NoAccount}]
        /\ claimed \in [Calls -> Signatures \cup {NoSignature}]
        /\ known \in [Calls -> Nat] /\ left \in [Calls -> Nat]
        /\ covered \in [Calls -> Nat] /\ peak \in [Accounts -> Nat]
        /\ certified \in [Calls -> 0..MaxReserveKeys]
        /\ newCash \in [Calls -> 0..Len(cash)]
        /\ direct \subseteq Accounts /\ overlapped \subseteq Accounts
    BY <1>3, BankAssumption, FactoryAssumption DEF BankInit, Steps
  <2> QED BY <1>1, <1>2, <1>3, <2>1, <2>2 DEF TypeOK
<1>5. SignsOthers /\ MintedForSigned /\ \A d \in Calls : Genuine(claimed[d])
  BY <1>3 DEF FactoryInit, BankInit, NoSignature, SignsOthers, Genuine, MintedForSigned
<1>6. BackedByDeposits
  BY <1>3 DEF BankInit, BackedByDeposits
<1> QED BY <1>2, <1>4, <1>5, <1>6
  DEF IInv, Checked, Alone, OnCourse, Works, Minting

-----------------------------------------------------------------------------
\* Factory and accounts.

\* What anybody may have is no forgery.
LEMMA ObtainableIsGenuine ==
    ASSUME FactoryTypeOK, NEW s \in Obtainable
    PROVE  s \in Signatures \cup {NoSignature} /\ Genuine(s)
<1>1. CASE s \in published
  BY <1>1 DEF FactoryTypeOK, Signatures, Genuine
<1>2. CASE s \in [of : Accounts, by : {0}]
  BY <1>2, FactoryAssumption DEF Signatures, Genuine
<1>3. CASE s = NoSignature
  BY <1>3 DEF NoSignature, Genuine
<1> QED BY <1>1, <1>2, <1>3 DEF Obtainable

LEMMA FactoryTypes ==
    ASSUME FactoryTypeOK, SignsOthers, FactoryNext
    PROVE  FactoryTypeOK'
<1> USE DEF publicVars
<1>1. CASE GenerateFactoryKey
  BY <1>1, FactoryAssumption DEF GenerateFactoryKey, FactoryTypeOK, accountVars
<1>2. ASSUME NEW c \in Creators, NEW u \in Customers, CreateAccount(c, u)
      PROVE  FactoryTypeOK'
  BY <1>2 DEF CreateAccount, FactoryTypeOK, CreationSteps, accountVars
<1>3. ASSUME NEW c \in Creators, NEW p \in Accounts, AccountCreated(c, p)
      PROVE  FactoryTypeOK'
  <2>1. owner' \in [Accounts -> Customers \cup {NoOwner}]
    BY <1>3 DEF AccountCreated, FactoryTypeOK
  <2> QED BY <1>3, <2>1, FactoryAssumption DEF AccountCreated, FactoryTypeOK, CreationSteps
<1>4. ASSUME NEW c \in Creators, SettingsUpdated(c) PROVE FactoryTypeOK'
  BY <1>4 DEF SettingsUpdated, FactoryTypeOK, CreationSteps
<1>5. ASSUME NEW c \in Creators, SignMessage(c) PROVE FactoryTypeOK'
  BY <1>5 DEF SignMessage, FactoryTypeOK, CreationSteps, accountVars
<1>6. ASSUME NEW c \in Creators, CreateReturns(c) PROVE FactoryTypeOK'
  <2>1. creating[c] \in Accounts /\ signedBy[c] \in 1..MaxKeys
    BY <1>6 DEF CreateReturns, FactoryTypeOK, SignsOthers
  <2>2. published' \subseteq [of : Accounts, by : 1..MaxKeys]
    BY <1>6, <2>1 DEF CreateReturns, FactoryTypeOK
  <2> QED BY <1>6, <2>2, FactoryAssumption
    DEF CreateReturns, CreationEnds, FactoryTypeOK, CreationSteps, accountVars
<1>7. ASSUME NEW c \in Creators, CreateThrows(c) PROVE FactoryTypeOK'
  BY <1>7, FactoryAssumption
  DEF CreateThrows, CreationEnds, FactoryTypeOK, CreationSteps, accountVars
<1>8. ASSUME NEW p \in Accounts, SignOutside(p) PROVE FactoryTypeOK'
  <2>1. published' \subseteq [of : Accounts, by : 1..MaxKeys]
    BY <1>8 DEF SignOutside, FactoryTypeOK
  <2> QED BY <1>8, <2>1 DEF SignOutside, FactoryTypeOK, factoryVars, accountVars
<1>9. ASSUME NEW p \in Accounts, NEW s \in Obtainable, SetSignature(p, s)
      PROVE  FactoryTypeOK'
  <2>1. s \in Signatures \cup {NoSignature}
    BY ObtainableIsGenuine
  <2> QED BY <1>9, <2>1 DEF SetSignature, FactoryTypeOK, factoryVars
<1>10. ASSUME NEW p \in Accounts, NEW u \in Customers,
              InstallAccount(p, u) \/ TransferCanister(p, u)
       PROVE  FactoryTypeOK'
  BY <1>10 DEF InstallAccount, TransferCanister, FactoryTypeOK, factoryVars
<1> QED BY <1>1, <1>2, <1>3, <1>4, <1>5, <1>6, <1>7, <1>8, <1>9, <1>10
  DEF FactoryNext, CreateContinues

\* createAccount() goes on signing only what the factory does not control, and
\* nothing that was done is undone.
LEMMA FactorySigns ==
    ASSUME FactoryTypeOK, SignsOthers, FactoryNext
    PROVE  /\ SignsOthers'
           /\ selfControlled \subseteq selfControlled'
           /\ signedOutside \subseteq signedOutside'
           /\ published \subseteq published'
<1> DEFINE Goal == /\ SignsOthers'
                   /\ selfControlled \subseteq selfControlled'
                   /\ signedOutside \subseteq signedOutside'
                   /\ published \subseteq published'
<1> USE DEF FactoryTypeOK, SignsOthers, Genuine, publicVars
<1>1. CASE GenerateFactoryKey
  BY <1>1 DEF GenerateFactoryKey, accountVars
<1>2. ASSUME NEW c \in Creators, NEW u \in Customers, CreateAccount(c, u) PROVE Goal
  BY <1>2 DEF CreateAccount, accountVars
<1>3. ASSUME NEW c \in Creators, NEW p \in Accounts, AccountCreated(c, p) PROVE Goal
  BY <1>3 DEF AccountCreated
<1>4. ASSUME NEW c \in Creators, SettingsUpdated(c) PROVE Goal
  BY <1>4 DEF SettingsUpdated
<1>5. ASSUME NEW c \in Creators, SignMessage(c) PROVE Goal
  BY <1>5 DEF SignMessage, accountVars
<1>6. ASSUME NEW c \in Creators, CreateReturns(c) PROVE Goal
  BY <1>6 DEF CreateReturns, CreationEnds, accountVars
<1>7. ASSUME NEW c \in Creators, CreateThrows(c) PROVE Goal
  BY <1>7 DEF CreateThrows, CreationEnds, accountVars
<1>8. ASSUME NEW p \in Accounts, SignOutside(p) PROVE Goal
  BY <1>8 DEF SignOutside, factoryVars, accountVars
<1>9. ASSUME NEW p \in Accounts, NEW s \in Obtainable, SetSignature(p, s) PROVE Goal
  BY <1>9, ObtainableIsGenuine DEF SetSignature, factoryVars
<1>10. ASSUME NEW p \in Accounts, NEW u \in Customers,
              InstallAccount(p, u) \/ TransferCanister(p, u)
       PROVE  Goal
  BY <1>10 DEF InstallAccount, TransferCanister, factoryVars
<1> QED BY <1>1, <1>2, <1>3, <1>4, <1>5, <1>6, <1>7, <1>8, <1>9, <1>10
  DEF FactoryNext, CreateContinues

\* A step of the factory or an account leaves the bank alone.
LEMMA FactoryStep ==
    ASSUME IInv, FactoryNext, UNCHANGED bankVars
    PROVE  IInv'
<1>1. FactoryTypeOK' /\ SignsOthers'
  BY FactoryTypes, FactorySigns DEF IInv, TypeOK
<1>2. /\ selfControlled \subseteq selfControlled'
      /\ signedOutside \subseteq signedOutside'
      /\ published \subseteq published'
  BY FactorySigns DEF IInv, TypeOK
<1> USE DEF bankVars, reserveVars, checkVars, mintVars, historyVars
<1>3. TypeOK'
  BY <1>1 DEF IInv, TypeOK
<1>4. Checked'
  BY <1>2 DEF IInv, Checked, Genuine, SignedFor
<1>5. MintedForSigned'
  BY <1>2 DEF IInv, MintedForSigned
<1>6. \A p : MintedFor(p)' = MintedFor(p) /\ OneAtATime(p)' = OneAtATime(p)
  BY DEF MintedFor, OneAtATime
<1>7. Alone' /\ (\A d \in Calls : OnCourse(d)') /\ BackedByDeposits'
  BY <1>6 DEF IInv, Alone, OnCourse, BackedByDeposits, Works, Minting
<1> QED BY <1>1, <1>3, <1>4, <1>5, <1>7 DEF IInv

-----------------------------------------------------------------------------
\* The types of the bank's variables.

LEMMA BankTypes ==
    ASSUME TypeOK, BankNext, UNCHANGED <<factoryVars, accountVars, publicVars>>
    PROVE  TypeOK'
<1>1. FactoryTypeOK'
  BY DEF TypeOK, FactoryTypeOK, factoryVars, accountVars, publicVars
<1>2. Len(cash) \in Nat /\ DOMAIN cash = 1..Len(cash)
  BY LenProperties DEF TypeOK
<1>3. 0 \in Nat /\ 0 \in 0..MaxKeys /\ 0 \in 0..MaxReserveKeys /\ 0 \in 0..Len(cash)
  BY <1>2, FactoryAssumption, BankAssumption
<1> USE DEF reserveVars, checkVars, mintVars, historyVars, accountVars, factoryVars, Steps
<1>4. CASE GenerateReserveKey
  BY <1>1, <1>4, BankAssumption DEF GenerateReserveKey, TypeOK
<1>5. ASSUME NEW d \in Calls, End(d), UNCHANGED <<reserveVars, direct, overlapped>>,
             peak' \in [Accounts -> Nat]
      PROVE  TypeOK'
  BY <1>1, <1>3, <1>5 DEF End, TypeOK
<1>6. ASSUME NEW d \in Calls, NEW u \in Customers, NEW p \in Accounts, Notify(d, u, p)
      PROVE  TypeOK'
  BY <1>1, <1>6, FactoryAssumption DEF Notify, GoTo, TypeOK
<1>7. ASSUME NEW d \in Calls, SignatureReturns(d) PROVE TypeOK'
  <2>1. signature[container[d]] \in Signatures \cup {NoSignature}
    BY <1>7 DEF SignatureReturns, TypeOK, FactoryTypeOK
  <2> QED BY <1>1, <1>5, <1>7, <2>1 DEF SignatureReturns, GoTo, TypeOK
<1>8. ASSUME NEW d \in Calls, VerifyReturns(d) PROVE TypeOK'
  BY ZenonT(30), <1>1, <1>3, <1>5, <1>8 DEF VerifyReturns, GoTo, TypeOK
<1>9. ASSUME NEW d \in Calls, OwnerReturns(d) PROVE TypeOK'
  BY <1>1, <1>5, <1>9 DEF OwnerReturns, GoTo, TypeOK
<1>10. ASSUME NEW d \in Calls, ReadMinted(d) PROVE TypeOK'
  <2>1. container[d] \in Accounts /\ MintedFor(container[d]) \in Nat
    BY <1>10 DEF ReadMinted, MintedFor, TypeOK
  <2> QED BY <1>1, <1>10, <2>1 DEF ReadMinted, GoTo, TypeOK
<1>11. ASSUME NEW d \in Calls, NEW satoshis \in Balances, BalanceReturns(d, satoshis)
       PROVE  TypeOK'
  <2> DEFINE tokens == satoshis \div satoshisPerMintedToken
  <2>1. tokens \in Nat
    BY BankAssumption
  <2>2. container[d] \in Accounts /\ known[d] \in Nat
    BY <1>11 DEF BalanceReturns, TypeOK
  <2>3. Difference(d, satoshis) = tokens - known[d]
    BY DEF Difference
  <2>4. /\ UNCHANGED <<reserveVars, direct, overlapped>>
        /\ peak' = [peak EXCEPT ![container[d]] = IF tokens > @ THEN tokens ELSE @]
        /\ IF Difference(d, satoshis) <= 0
           THEN End(d)
           ELSE /\ left' = [left EXCEPT ![d] = Difference(d, satoshis)]
                /\ covered' = [covered EXCEPT ![d] = tokens]
                /\ GoTo(d, "cash")
                /\ UNCHANGED <<checkVars, known, newCash, certified>>
        /\ step[d] = "balance"
    BY <1>11 DEF BalanceReturns
  <2> HIDE DEF tokens
  <2>5. peak' \in [Accounts -> Nat]
    BY <2>1, <2>2, <2>4 DEF TypeOK
  <2>6. CASE Difference(d, satoshis) <= 0
    BY <1>5, <2>4, <2>5, <2>6
  <2>7. CASE ~(Difference(d, satoshis) <= 0)
    <3>1. Difference(d, satoshis) \in Nat
      BY <2>1, <2>2, <2>3, <2>7
    <3>2. left' \in [Calls -> Nat] /\ covered' \in [Calls -> Nat]
      BY ZenonT(30), <2>1, <2>4, <2>7, <3>1 DEF TypeOK
    <3>3. /\ step' = [step EXCEPT ![d] = "cash"]
          /\ UNCHANGED <<checkVars, known, newCash, certified>>
      BY <2>4, <2>7 DEF GoTo
    <3> QED BY <1>1, <2>4, <2>5, <3>2, <3>3 DEF TypeOK
  <2> QED BY <2>6, <2>7
<1>12. ASSUME NEW d \in Calls, NEW p \in Accounts, MintCash(d, p) PROVE TypeOK'
  BY <1>1, <1>12, FactoryAssumption DEF MintCash, GoTo, TypeOK
<1>13. ASSUME NEW d \in Calls, CashCreated(d) PROVE TypeOK'
  <2> DEFINE c == [owner |-> container[d], by |-> 0]
  <2>1. c \in [owner : Accounts, by : 0..MaxReserveKeys]
    BY <1>3, <1>13 DEF CashCreated, TypeOK
  <2>2. cash' = Append(cash, c)
    BY <1>13 DEF CashCreated
  <2> HIDE DEF c
  <2>3. /\ cash' \in Seq([owner : Accounts, by : 0..MaxReserveKeys])
        /\ Len(cash') = Len(cash) + 1
    BY <2>1, <2>2, AppendProperties DEF TypeOK
  <2>4. newCash' \in [Calls -> 0..Len(cash')] /\ newCash'[d] # 0
    BY SMTT(30), <1>2, <1>13, <2>3 DEF CashCreated, TypeOK
  <2> QED BY <1>1, <1>13, <2>3, <2>4 DEF CashCreated, GoTo, TypeOK
<1>14. ASSUME NEW d \in Calls, CashSigned(d) PROVE TypeOK'
  BY <1>1, <1>14 DEF CashSigned, GoTo, TypeOK
<1>15. ASSUME NEW d \in Calls, CashMinted(d) PROVE TypeOK'
  <2>1. /\ container[d] \in Accounts /\ newCash[d] \in 1..Len(cash)
        /\ certified[d] \in 0..MaxReserveKeys /\ left[d] \in Nat
    BY SMTT(30), <1>2, <1>15 DEF CashMinted, TypeOK
  <2>2. /\ cash' \in Seq([owner : Accounts, by : 0..MaxReserveKeys])
        /\ Len(cash') = Len(cash)
    <3> DEFINE c == [cash[newCash[d]] EXCEPT !.by = certified[d]]
    <3>1. cash' = [cash EXCEPT ![newCash[d]] = c]
      BY <1>15 DEF CashMinted
    <3>2. c \in [owner : Accounts, by : 0..MaxReserveKeys]
      <4>1. cash[newCash[d]] \in [owner : Accounts, by : 0..MaxReserveKeys]
        BY <2>1, ElementOfSeq DEF TypeOK
      <4> QED BY <2>1, <4>1
    <3> HIDE DEF c
    <3> QED BY <2>1, <3>1, <3>2, ExceptSeq DEF TypeOK
  <2>3. /\ tokensMinted' \in Nat
        /\ DOMAIN minted' \subseteq Accounts
        /\ \A p \in DOMAIN minted' : minted'[p] \in Nat \ {0}
    <3>1. MintedFor(container[d]) \in Nat
      BY <2>1 DEF MintedFor, TypeOK
    <3>2. tokensMinted' = tokensMinted + 1 /\ minted' = Counted(d)
      BY <1>15 DEF CashMinted
    <3>3. DOMAIN minted' = DOMAIN minted \cup {container[d]}
      BY <3>2 DEF Counted
    <3>4. \A p \in DOMAIN minted' :
             minted'[p] = IF p = container[d] THEN MintedFor(container[d]) + 1 ELSE minted[p]
      BY <3>2 DEF Counted
    <3>5. \A p \in DOMAIN minted' : minted'[p] \in Nat \ {0}
      BY <3>1, <3>3, <3>4 DEF TypeOK
    <3> QED BY <2>1, <3>2, <3>3, <3>5 DEF TypeOK
  <2>4. CASE /\ left' = [left EXCEPT ![d] = @ - 1] /\ left[d] > 1
             /\ newCash' = [newCash EXCEPT ![d] = 0]
             /\ certified' = [certified EXCEPT ![d] = 0]
             /\ GoTo(d, "cash")
             /\ UNCHANGED <<checkVars, known, covered>>
    <3>1. left' \in [Calls -> Nat] /\ newCash' \in [Calls -> 0..Len(cash')]
      <4>1. left[d] - 1 \in Nat
        BY <2>1, <2>4
      <4> QED BY <1>2, <2>2, <2>4, <4>1 DEF TypeOK
    <3> QED BY <1>1, <1>3, <1>15, <2>2, <2>3, <2>4, <3>1 DEF CashMinted, GoTo, TypeOK
  <2>5. CASE End(d)
    <3>1. newCash' \in [Calls -> 0..Len(cash')]
      BY <1>3, <2>2, <2>5 DEF End, TypeOK
    <3> QED BY <1>1, <1>3, <1>15, <2>2, <2>3, <2>5, <3>1 DEF CashMinted, End, TypeOK
  <2> QED BY <1>15, <2>4, <2>5 DEF CashMinted, Loops
<1>16. ASSUME NEW d \in Calls, Throws(d) PROVE TypeOK'
  BY <1>5, <1>16 DEF Throws, TypeOK
<1> QED BY <1>4, <1>6, <1>7, <1>8, <1>9, <1>10, <1>11, <1>12, <1>13, <1>14, <1>15, <1>16
  DEF BankNext, Starts, Continues

-----------------------------------------------------------------------------
\* What a step of call d must see to for the invariant to survive it: it leaves
\* the other calls alone, takes nothing back, counts only where it mints, and
\* stays on course itself.
Proper(d) ==
    /\ \A e \in Calls \ {d} :
          UNCHANGED <<step[e], container[e], claimed[e], known[e], left[e], covered[e]>>
    /\ direct \subseteq direct' /\ overlapped \subseteq overlapped'
    /\ \A p \in Accounts : peak[p] <= peak'[p]
    /\ \/ UNCHANGED minted
       \/ /\ Minting(d)
          /\ DOMAIN minted' = DOMAIN minted \cup {container[d]}
          /\ \A p \in DOMAIN minted : p # container[d] => minted'[p] = minted[p]
          /\ \A p \in Accounts :
                p = container[d] /\ OneAtATime(p)' => MintedFor(p)' <= peak'[p]
    /\ Genuine(claimed[d])'
    /\ step'[d] \notin {"idle", "signature", "verify"} =>
          container'[d] \in direct' \/ SignedFor(container'[d])
    /\ \A p \in Accounts :
          Works(d, p)' /\ OneAtATime(p)' => \A e \in Calls \ {d} : ~Works(e, p)
    /\ OnCourse(d)'

LEMMA ProperSuffices ==
    ASSUME IInv, TypeOK', UNCHANGED <<accountVars, publicVars>>, SignsOthers',
           NEW d \in Calls, Proper(d)
    PROVE  IInv'
<1>1. \A p : OneAtATime(p)' => OneAtATime(p)
  BY DEF Proper, OneAtATime
<1>2. \A e \in Calls \ {d} :
         /\ UNCHANGED <<step[e], container[e], claimed[e], known[e], left[e], covered[e]>>
         /\ Minting(e)' = Minting(e)
         /\ \A p : Works(e, p)' = Works(e, p)
  BY DEF Proper, Minting, Works
<1>3. \A p \in Accounts :
         MintedFor(p)' = MintedFor(p) \/ (Minting(d) /\ p = container[d])
  BY DEF Proper, MintedFor
<1>4. Checked'
  <2>1. \A p : SignedFor(p)' = SignedFor(p)
    BY DEF SignedFor, publicVars
  <2>2. \A e \in Calls \ {d} : Genuine(claimed[e])' = Genuine(claimed[e])
    BY <1>2 DEF Genuine, publicVars
  <2>3. direct \subseteq direct'
    BY DEF Proper
  <2> QED BY <1>2, <2>1, <2>2, <2>3 DEF IInv, Checked, Proper
<1>5. MintedForSigned'
  <2> SUFFICES ASSUME NEW p \in DOMAIN minted', p \notin direct'
               PROVE  SignedFor(p) /\ p \in selfControlled \cup signedOutside
    BY DEF MintedForSigned, SignedFor, accountVars, publicVars
  <2>1. p \notin direct
    BY DEF Proper
  <2>2. CASE p \in DOMAIN minted
    BY <2>1, <2>2 DEF IInv, MintedForSigned, SignedFor
  <2>3. CASE p \notin DOMAIN minted
    <3>1. Minting(d) /\ p = container[d]
      BY <2>3 DEF Proper
    <3>2. p \in Accounts
      BY <3>1 DEF IInv, TypeOK, Minting
    <3>3. SignedFor(p)
      BY <2>1, <3>1 DEF IInv, Checked, Minting
    <3> QED BY <3>3 DEF IInv, SignsOthers, SignedFor
  <2> QED BY <2>2, <2>3
<1>6. Alone'
  <2> SUFFICES ASSUME NEW p \in Accounts, OneAtATime(p)', NEW e \in Calls, NEW f \in Calls,
                      Works(e, p)', Works(f, p)'
               PROVE  e = f
    BY DEF Alone
  <2>1. CASE e # d /\ f # d
    BY <1>1, <1>2, <2>1 DEF IInv, Alone
  <2>2. CASE e = d \/ f = d
    BY <1>2, <2>2 DEF Proper
  <2> QED BY <2>1, <2>2
<1>7. ASSUME NEW e \in Calls PROVE OnCourse(e)'
  <2>1. CASE e = d
    BY <2>1 DEF Proper
  <2>2. CASE e # d
    <3> DEFINE p == container[e]
    <3>1. container'[e] = p /\ p \in Accounts \cup {NoAccount}
      BY <1>2, <2>2 DEF IInv, TypeOK
    <3>2. CASE ~(step[e] = "balance" \/ Minting(e))
      BY <1>2, <2>2, <3>2 DEF OnCourse
    <3>3. CASE step[e] = "balance" \/ Minting(e)
      <4>1. p \in Accounts
        BY <3>1, <3>3 DEF IInv, TypeOK, Minting
      <4>2. OneAtATime(p)' => MintedFor(p)' = MintedFor(p)
        <5> SUFFICES ASSUME OneAtATime(p)', MintedFor(p)' # MintedFor(p) PROVE FALSE
          OBVIOUS
        <5>1. Works(d, p) /\ Works(e, p) /\ OneAtATime(p)
          BY <1>1, <1>3, <3>1, <3>3, <4>1 DEF Works
        <5> QED BY <2>2, <4>1, <5>1 DEF IInv, Alone
      <4>3. OneAtATime(p)' => MintedFor(container[e])' = MintedFor(p)
        BY <3>1, <4>2
      <4>4. peak[p] <= peak'[p] /\ peak[p] \in Nat /\ peak'[p] \in Nat /\ covered[e] \in Nat
        BY <4>1 DEF Proper, IInv, TypeOK
      <4>5. OnCourse(e)
        BY DEF IInv
      <4>6. OneAtATime(container[e])' => OneAtATime(p)' /\ OneAtATime(p)
        BY <1>1, <3>1
      <4> QED BY <1>2, <2>2, <3>1, <4>3, <4>4, <4>5, <4>6 DEF OnCourse
    <3> QED BY <3>2, <3>3
  <2> QED BY <2>1, <2>2
<1>8. BackedByDeposits'
  <2> SUFFICES ASSUME NEW p \in Accounts, OneAtATime(p)' PROVE MintedFor(p)' <= peak'[p]
    BY DEF BackedByDeposits
  <2>1. CASE MintedFor(p)' = MintedFor(p)
    <3>1. MintedFor(p) \in Nat /\ peak[p] \in Nat /\ peak'[p] \in Nat /\ peak[p] <= peak'[p]
      BY DEF IInv, TypeOK, MintedFor, Proper
    <3>2. MintedFor(p) <= peak[p]
      BY <1>1 DEF IInv, BackedByDeposits
    <3> QED BY <2>1, <3>1, <3>2
  <2>2. CASE MintedFor(p)' # MintedFor(p)
    <3>1. p = container[d]
      BY <1>3, <2>2
    <3>2. ~UNCHANGED minted
      BY <2>2 DEF MintedFor
    <3> QED BY <3>1, <3>2 DEF Proper
  <2> QED BY <2>1, <2>2
<1> QED BY <1>4, <1>5, <1>6, <1>7, <1>8 DEF IInv

-----------------------------------------------------------------------------
\* Every step of a call is proper.

\* A step that gets a call further on its way to the balance, or ends it.
LEMMA ProperUnlessWorking ==
    ASSUME IInv, NEW d \in Calls,
           \A e \in Calls \ {d} :
              UNCHANGED <<step[e], container[e], claimed[e], known[e], left[e], covered[e]>>,
           direct \subseteq direct', UNCHANGED <<minted, overlapped>>,
           \A p \in Accounts : peak[p] <= peak'[p],
           step'[d] \in {"idle", "signature", "verify", "owner", "difference"},
           Genuine(claimed[d])',
           step'[d] \notin {"idle", "signature", "verify"} =>
              container'[d] \in direct' \/ SignedFor(container'[d])
    PROVE  Proper(d)
BY DEF Proper, Works, OnCourse, Minting

LEMMA EndIsProper ==
    ASSUME IInv, NEW d \in Calls, End(d), UNCHANGED <<minted, direct, overlapped>>,
           \A p \in Accounts : peak[p] <= peak'[p]
    PROVE  Proper(d)
<1>1. /\ \A e \in Calls \ {d} :
            UNCHANGED <<step[e], container[e], claimed[e], known[e], left[e], covered[e]>>
      /\ step'[d] = "idle" /\ claimed'[d] = NoSignature
  BY DEF End, IInv, TypeOK
<1>2. Genuine(claimed[d])'
  BY <1>1 DEF Genuine, NoSignature
<1> QED BY <1>1, <1>2, ProperUnlessWorking

\* A step within the loop that counts nothing.
LEMMA ProperInLoop ==
    ASSUME IInv, NEW d \in Calls, Minting(d), Minting(d)',
           \E next \in Steps : step' = [step EXCEPT ![d] = next],
           UNCHANGED <<minted, direct, overlapped, peak, container, claimed, known, left,
                       covered, publicVars>>
    PROVE  Proper(d)
<1>1. \A e \in Calls \ {d} : step'[e] = step[e]
  BY DEF IInv, TypeOK
<1>2. \A p \in Accounts : peak[p] <= peak'[p]
  BY DEF IInv, TypeOK
<1>3. \A p : MintedFor(p)' = MintedFor(p) /\ OneAtATime(p)' = OneAtATime(p)
  BY DEF MintedFor, OneAtATime
<1>4. OnCourse(d)'
  BY <1>3 DEF IInv, OnCourse, Minting
<1>5. \A p \in Accounts : Works(d, p)' /\ OneAtATime(p)' => \A e \in Calls \ {d} : ~Works(e, p)
  BY <1>3 DEF IInv, Alone, Works
<1>6. Genuine(claimed[d])' /\ (container[d] \in direct \/ SignedFor(container[d]))
  BY DEF IInv, Checked, Minting, Genuine, publicVars
<1> QED BY <1>1, <1>2, <1>4, <1>5, <1>6 DEF Proper

LEMMA BeforeTheBalance ==
    ASSUME IInv, UNCHANGED publicVars, NEW d \in Calls,
           \/ \E u \in Customers, p \in Accounts : Notify(d, u, p)
           \/ SignatureReturns(d) \/ VerifyReturns(d) \/ OwnerReturns(d) \/ Throws(d)
    PROVE  Proper(d)
<1>1. /\ \A p \in Accounts : peak[p] <= peak[p]
      /\ Genuine(claimed[d]) /\ \A s : Genuine(s)' = Genuine(s)
  BY DEF IInv, TypeOK, Checked, Genuine, publicVars
<1> USE DEF reserveVars, checkVars, mintVars, historyVars
<1>2. ASSUME NEW u \in Customers, NEW p \in Accounts, Notify(d, u, p) PROVE Proper(d)
  <2>1. /\ \A e \in Calls \ {d} : UNCHANGED <<step[e], container[e]>>
        /\ container'[d] = p
        /\ \/ step'[d] = "owner" /\ p \in DOMAIN minted
           \/ step'[d] = "signature"
        /\ UNCHANGED <<minted, direct, overlapped, peak, claimed, known, left, covered>>
    BY <1>2 DEF Notify, GoTo, IInv, TypeOK
  <2>2. p \in DOMAIN minted => p \in direct \/ SignedFor(p)
    BY DEF IInv, MintedForSigned, SignedFor
  <2> QED BY <1>1, <2>1, <2>2, ProperUnlessWorking
<1>3. CASE SignatureReturns(d)
  <2>1. CASE signature[container[d]] = NoSignature
    BY <1>1, <1>3, <2>1, EndIsProper DEF SignatureReturns
  <2>2. CASE signature[container[d]] # NoSignature
    <3>1. /\ \A e \in Calls \ {d} : UNCHANGED <<step[e], claimed[e]>>
          /\ step'[d] = "verify" /\ claimed'[d] = signature[container[d]]
          /\ UNCHANGED <<container, minted, direct, overlapped, peak, known, left, covered>>
      BY <1>3, <2>2 DEF SignatureReturns, GoTo, IInv, TypeOK
    <3>2. Genuine(signature[container[d]])
      <4>1. container[d] \in Accounts
        BY <1>3 DEF SignatureReturns, IInv, TypeOK
      <4> QED BY <4>1 DEF IInv, SignsOthers
    <3>3. Genuine(claimed[d])'
      BY <3>1, <3>2 DEF Genuine, publicVars
    <3> QED BY <1>1, <3>1, <3>3, ProperUnlessWorking
  <2> QED BY <2>1, <2>2
<1>4. CASE VerifyReturns(d)
  <2>1. CASE ~Verified(container[d], claimed[d])
    BY <1>1, <1>4, <2>1, EndIsProper DEF VerifyReturns
  <2>2. CASE Verified(container[d], claimed[d])
    <3>1. /\ \A e \in Calls \ {d} : UNCHANGED <<step[e], claimed[e]>>
          /\ step'[d] = "owner" /\ claimed'[d] = NoSignature
          /\ UNCHANGED <<container, minted, direct, overlapped, peak, known, left, covered>>
      BY <1>4, <2>2 DEF VerifyReturns, GoTo, IInv, TypeOK
    <3>2. SignedFor(container[d])
      BY <1>1, <2>2 DEF Verified, Genuine, SignedFor
    <3>3. Genuine(claimed[d])'
      BY <3>1 DEF Genuine, NoSignature
    <3> QED BY <1>1, <3>1, <3>2, <3>3, ProperUnlessWorking
  <2> QED BY <2>1, <2>2
<1>5. CASE OwnerReturns(d)
  <2>1. CASE owner[container[d]] # caller[d]
    BY <1>1, <1>5, <2>1, EndIsProper DEF OwnerReturns
  <2>2. CASE owner[container[d]] = caller[d]
    <3>1. /\ \A e \in Calls \ {d} : UNCHANGED step[e]
          /\ step'[d] = "difference" /\ step[d] = "owner"
          /\ UNCHANGED <<container, claimed, minted, direct, overlapped, peak, known, left,
                         covered>>
      BY <1>5, <2>2 DEF OwnerReturns, GoTo, IInv, TypeOK
    <3>2. container[d] \in direct \/ SignedFor(container[d])
      BY <3>1 DEF IInv, Checked
    <3>3. Genuine(claimed[d])'
      BY <1>1, <3>1 DEF Genuine, publicVars
    <3> QED BY <1>1, <3>1, <3>2, <3>3, ProperUnlessWorking
  <2> QED BY <2>1, <2>2
<1>6. CASE Throws(d)
  BY <1>1, <1>6, EndIsProper DEF Throws
<1> QED BY <1>2, <1>3, <1>4, <1>5, <1>6

\* The count is read while nobody else works for the account, or else the account
\* is one on which deposits overlap.
LEMMA ReadMintedIsProper ==
    ASSUME IInv, UNCHANGED publicVars, NEW d \in Calls, ReadMinted(d)
    PROVE  Proper(d)
<1> DEFINE p == container[d]
<1>1. /\ step[d] = "difference" /\ p \in Accounts
      /\ known'[d] = MintedFor(p) /\ step'[d] = "balance"
      /\ \A e \in Calls \ {d} : UNCHANGED <<step[e], known[e]>>
      /\ UNCHANGED <<container, claimed, minted, left, covered, peak, direct>>
      /\ overlapped' = IF Disturbed(d, p) THEN overlapped \cup {p} ELSE overlapped
  BY DEF ReadMinted, GoTo, IInv, TypeOK, reserveVars, checkVars
<1>2. \A q \in Accounts : peak[q] <= peak'[q]
  BY <1>1 DEF IInv, TypeOK
<1>3. MintedFor(p)' = MintedFor(p) /\ container'[d] = p
  BY <1>1 DEF MintedFor
<1>4. OnCourse(d)'
  BY <1>1, <1>3 DEF OnCourse, Minting
<1>5. ASSUME NEW q \in Accounts, Works(d, q)', OneAtATime(q)', NEW e \in Calls \ {d}
      PROVE  ~Works(e, q)
  <2>1. q = p
    BY <1>3, <1>5 DEF Works
  <2>2. ~Disturbed(d, p)
    BY <1>1, <1>5, <2>1 DEF OneAtATime
  <2> QED BY <2>1, <2>2 DEF Disturbed, Works, Minting
<1>6. Genuine(claimed[d])' /\ (p \in direct \/ SignedFor(p))
  BY <1>1 DEF IInv, Checked, Genuine, publicVars
<1> QED BY <1>1, <1>2, <1>3, <1>4, <1>5, <1>6 DEF Proper

\* The balance covers more than was minted: the loop sets out to make up for it.
LEMMA BalanceIsProper ==
    ASSUME IInv, UNCHANGED publicVars, NEW d \in Calls, NEW satoshis \in Balances,
           BalanceReturns(d, satoshis)
    PROVE  Proper(d)
<1>p. PICK p \in Accounts : p = container[d]
  BY DEF BalanceReturns, IInv, TypeOK
<1> DEFINE tokens == satoshis \div satoshisPerMintedToken
<1>1. tokens \in Nat
  BY BankAssumption
<1>2. /\ step[d] = "balance" /\ UNCHANGED <<minted, direct, overlapped>>
      /\ peak' = [peak EXCEPT ![p] = IF tokens > @ THEN tokens ELSE @]
      /\ IF tokens - known[d] <= 0
         THEN End(d)
         ELSE /\ left' = [left EXCEPT ![d] = tokens - known[d]]
              /\ covered' = [covered EXCEPT ![d] = tokens]
              /\ step' = [step EXCEPT ![d] = "cash"]
              /\ UNCHANGED <<container, claimed, known>>
  BY <1>p DEF BalanceReturns, Difference, GoTo, reserveVars, checkVars
<1> HIDE DEF tokens
<1>3. /\ \A q \in Accounts : peak[q] <= peak'[q]
      /\ p \in Accounts /\ tokens <= peak'[p]
      /\ known[d] \in Nat
  <2>1. p \in Accounts /\ peak \in [Accounts -> Nat] /\ known[d] \in Nat
    BY <1>2 DEF IInv, TypeOK
  <2>2. \A q \in Accounts : peak'[q] = IF q = p /\ tokens > peak[p] THEN tokens ELSE peak[q]
    BY <1>2, <2>1
  <2> QED BY <1>1, <2>1, <2>2
<1>4. CASE tokens - known[d] <= 0
  BY <1>2, <1>3, <1>4, EndIsProper
<1>5. CASE ~(tokens - known[d] <= 0)
  <2>1. /\ left'[d] = tokens - known[d] /\ covered'[d] = tokens /\ step'[d] = "cash"
        /\ container'[d] = p
        /\ \A e \in Calls \ {d} : UNCHANGED <<step[e], left[e], covered[e]>>
        /\ UNCHANGED <<container, claimed, known>>
    BY <1>p, <1>2, <1>5 DEF IInv, TypeOK
  <2>2. MintedFor(p)' = MintedFor(p) /\ (OneAtATime(p)' = OneAtATime(p))
    BY <1>2 DEF MintedFor, OneAtATime
  <2>3. OneAtATime(p) => known[d] = MintedFor(p)
    BY <1>p, <1>2 DEF IInv, OnCourse
  <2>4. OnCourse(d)'
    <3>1. left'[d] # 0 /\ (OneAtATime(p) => MintedFor(p) + left'[d] = covered'[d])
      BY <1>1, <1>3, <1>5, <2>1, <2>3
    <3>2. MintedFor(container[d])' = MintedFor(p) /\ OneAtATime(container[d])' = OneAtATime(p)
      BY <2>1, <2>2
    <3> QED BY <1>3, <2>1, <3>1, <3>2 DEF OnCourse, Minting
  <2>5. \A q \in Accounts : Works(d, q)' /\ OneAtATime(q)' => \A e \in Calls \ {d} : ~Works(e, q)
    BY <1>p, <1>2, <2>1 DEF IInv, Alone, Works, OneAtATime
  <2>6. Genuine(claimed[d])' /\ (p \in direct \/ SignedFor(p))
    BY <1>p, <1>2, <2>1 DEF IInv, Checked, Genuine, publicVars
  <2> QED BY <1>2, <1>3, <2>1, <2>4, <2>5, <2>6 DEF Proper
<1> QED BY <1>4, <1>5

\* A token is counted, and there is one less to mint.
LEMMA CashMintedIsProper ==
    ASSUME IInv, UNCHANGED publicVars, NEW d \in Calls, CashMinted(d)
    PROVE  Proper(d)
<1>p. PICK p \in Accounts : p = container[d]
  BY DEF CashMinted, IInv, TypeOK
<1>1. /\ step[d] = "count" /\ minted' = Counted(d)
      /\ UNCHANGED <<peak, direct, overlapped>>
      /\ IF left[d] > 1
         THEN /\ left' = [left EXCEPT ![d] = @ - 1]
              /\ step' = [step EXCEPT ![d] = "cash"]
              /\ UNCHANGED <<container, claimed, known, covered>>
         ELSE End(d)
  BY DEF CashMinted, Loops, GoTo, checkVars
<1>2. /\ p \in Accounts /\ left[d] \in Nat /\ covered[d] \in Nat /\ left[d] # 0
      /\ MintedFor(p) \in Nat /\ peak[p] \in Nat
  BY <1>p, <1>1 DEF IInv, TypeOK, OnCourse, Minting, MintedFor
<1>3. /\ DOMAIN minted' = DOMAIN minted \cup {p}
      /\ \A q \in DOMAIN minted : q # p => minted'[q] = minted[q]
      /\ minted'[p] = MintedFor(p) + 1
  BY <1>p, <1>1 DEF Counted
<1>4. MintedFor(p)' = MintedFor(p) + 1
  BY <1>3 DEF MintedFor
<1>5. OneAtATime(p) => MintedFor(p) + left[d] = covered[d] /\ covered[d] <= peak[p]
  BY <1>p, <1>1 DEF IInv, OnCourse, Minting
<1>6. \A q : OneAtATime(q)' = OneAtATime(q)
  BY <1>p, <1>1 DEF OneAtATime
<1>7. \A q \in Accounts : q = p /\ OneAtATime(q)' => MintedFor(q)' <= peak'[q]
  BY <1>1, <1>2, <1>4, <1>5, <1>6
<1>8. \A q \in Accounts : peak[q] <= peak'[q]
  BY <1>p, <1>1 DEF IInv, TypeOK
<1>9. Minting(d) /\ (p \in direct \/ SignedFor(p)) /\ Genuine(claimed[d])
  BY <1>p, <1>1 DEF IInv, Checked, Minting
<1>10. CASE left[d] > 1
  <2>1. /\ left'[d] = left[d] - 1 /\ step'[d] = "cash" /\ container'[d] = p
        /\ \A e \in Calls \ {d} : UNCHANGED <<step[e], left[e]>>
        /\ UNCHANGED <<container, claimed, known, covered>>
    BY <1>p, <1>1, <1>10 DEF IInv, TypeOK
  <2>2. OnCourse(d)'
    <3>1. left'[d] # 0 /\ (OneAtATime(p) => MintedFor(p)' + left'[d] = covered[d])
      BY <1>2, <1>4, <1>5, <1>10, <2>1
    <3>2. MintedFor(container[d])' = MintedFor(p)' /\ OneAtATime(container[d])' = OneAtATime(p)
      BY <1>6, <2>1
    <3> QED BY <1>1, <1>5, <2>1, <3>1, <3>2 DEF OnCourse, Minting
  <2>3. \A q \in Accounts : Works(d, q)' /\ OneAtATime(q)' => \A e \in Calls \ {d} : ~Works(e, q)
    BY <1>p, <1>6, <1>9, <2>1 DEF IInv, Alone, Works
  <2>4. Genuine(claimed[d])'
    BY <1>9, <2>1 DEF Genuine, publicVars
  <2> QED BY <1>p, <1>1, <1>3, <1>7, <1>8, <1>9, <2>1, <2>2, <2>3, <2>4 DEF Proper
<1>11. CASE ~(left[d] > 1)
  <2>1. /\ \A e \in Calls \ {d} :
              UNCHANGED <<step[e], container[e], claimed[e], known[e], left[e], covered[e]>>
        /\ step'[d] = "idle" /\ claimed'[d] = NoSignature
    BY <1>1, <1>11 DEF End, IInv, TypeOK
  <2>2. OnCourse(d)' /\ Genuine(claimed[d])' /\ \A q : ~Works(d, q)'
    BY <2>1 DEF OnCourse, Works, Minting, Genuine, NoSignature
  <2> QED BY <1>p, <1>1, <1>3, <1>7, <1>8, <1>9, <2>1, <2>2 DEF Proper
<1> QED BY <1>10, <1>11

\* A direct call: the account is no longer one whose deposits come one at a time.
LEMMA MintCashIsProper ==
    ASSUME IInv, UNCHANGED publicVars, NEW d \in Calls, NEW p \in Accounts, MintCash(d, p)
    PROVE  Proper(d)
<1>1. /\ step'[d] = "cash" /\ container'[d] = p /\ left'[d] = 1
      /\ \A e \in Calls \ {d} : UNCHANGED <<step[e], container[e], left[e]>>
      /\ UNCHANGED <<minted, claimed, known, covered, peak, overlapped>>
      /\ direct' = direct \cup {p}
  BY DEF MintCash, GoTo, IInv, TypeOK, reserveVars
<1>2. \A q \in Accounts : peak[q] <= peak'[q]
  BY <1>1 DEF IInv, TypeOK
<1>3. ~OneAtATime(p)' /\ ~OneAtATime(container[d])'
  BY <1>1 DEF OneAtATime
<1>4. Genuine(claimed[d])'
  BY <1>1 DEF IInv, Checked, Genuine, publicVars
<1> QED BY <1>1, <1>2, <1>3, <1>4 DEF Proper, OnCourse, Works, Minting

LEMMA CashIsProper ==
    ASSUME IInv, UNCHANGED publicVars, NEW d \in Calls, CashCreated(d) \/ CashSigned(d)
    PROVE  Proper(d)
<1>1. \E next \in {"certify", "count"} : step' = [step EXCEPT ![d] = next]
  BY DEF CashCreated, CashSigned, GoTo
<1>2. Minting(d) /\ Minting(d)'
  BY <1>1 DEF CashCreated, CashSigned, Minting, IInv, TypeOK
<1>3. UNCHANGED <<minted, direct, overlapped, peak, container, claimed, known, left, covered>>
  BY DEF CashCreated, CashSigned, reserveVars, checkVars, historyVars
<1> QED BY <1>1, <1>2, <1>3, ProperInLoop DEF Steps

-----------------------------------------------------------------------------
\* A step of the bank.
LEMMA BankStep ==
    ASSUME IInv, BankNext, UNCHANGED <<factoryVars, accountVars, publicVars>>
    PROVE  IInv'
<1>1. TypeOK'
  BY BankTypes DEF IInv
<1>2. SignsOthers'
  BY DEF IInv, SignsOthers, Genuine, factoryVars, accountVars, publicVars
<1>3. CASE GenerateReserveKey
  <2>1. UNCHANGED <<minted, step, checkVars, mintVars, historyVars>>
    BY <1>3 DEF GenerateReserveKey
  <2> USE <2>1 DEF checkVars, mintVars, historyVars, accountVars, publicVars
  <2>2. \A p : MintedFor(p)' = MintedFor(p) /\ OneAtATime(p)' = OneAtATime(p)
    BY DEF MintedFor, OneAtATime
  <2>3. Checked' /\ MintedForSigned'
    BY DEF IInv, Checked, Genuine, SignedFor, MintedForSigned
  <2>4. Alone' /\ (\A d \in Calls : OnCourse(d)') /\ BackedByDeposits'
    BY <2>2 DEF IInv, Alone, OnCourse, BackedByDeposits, Works, Minting
  <2> QED BY <1>1, <1>2, <2>3, <2>4 DEF IInv
<1>4. ASSUME NEW d \in Calls, Starts(d) \/ Continues(d) PROVE Proper(d)
  BY <1>4, BeforeTheBalance, ReadMintedIsProper, BalanceIsProper, MintCashIsProper,
     CashIsProper, CashMintedIsProper
  DEF Starts, Continues
<1> QED BY <1>1, <1>2, <1>3, <1>4, ProperSuffices DEF BankNext

\* Every step.
LEMMA NextInvariant == IInv /\ [Next]_vars => IInv'
<1> SUFFICES ASSUME IInv, [Next]_vars PROVE IInv'
  OBVIOUS
<1>1. CASE FactoryNext /\ UNCHANGED bankVars
  BY <1>1, FactoryStep
<1>2. CASE BankNext /\ UNCHANGED <<factoryVars, accountVars, publicVars>>
  BY <1>2, BankStep
<1>3. CASE UNCHANGED vars
  <2> USE <1>3 DEF vars, factoryVars, accountVars, publicVars, bankVars, reserveVars,
                   checkVars, mintVars, historyVars
  <2>1. TypeOK'
    BY DEF IInv, TypeOK, FactoryTypeOK
  <2>2. SignsOthers' /\ Checked' /\ MintedForSigned'
    BY DEF IInv, SignsOthers, Checked, Genuine, SignedFor, MintedForSigned
  <2>3. \A p : MintedFor(p)' = MintedFor(p) /\ OneAtATime(p)' = OneAtATime(p)
    BY DEF MintedFor, OneAtATime
  <2>4. Alone' /\ (\A d \in Calls : OnCourse(d)') /\ BackedByDeposits'
    BY <2>3 DEF IInv, Alone, OnCourse, BackedByDeposits, Works, Minting
  <2> QED BY <2>1, <2>2, <2>4 DEF IInv
<1> QED BY <1>1, <1>2, <1>3 DEF Next

-----------------------------------------------------------------------------
\* The invariant that the theorems below are read off.
THEOREM BankInvariance == Spec => []IInv
BY InitInvariant, NextInvariant, PTL DEF Spec

\* Types: a call that works holds the account it works for, the cash canister it
\* has created, and its signature, at the steps that use them.
THEOREM BankTyped == Spec => []TypeOK
<1>1. IInv => TypeOK
  BY DEF IInv
<1> QED BY <1>1, BankInvariance, PTL

\* The bank never mints more for an account than the account was found to hold,
\* unless deposits overlap or mint_cash() is called from outside.
THEOREM TokensBacked == Spec => []BackedByDeposits
<1>1. IInv => BackedByDeposits
  BY DEF IInv
<1> QED BY <1>1, BankInvariance, PTL

\* What a deposit has minted and has yet to mint is what the balance covers.
THEOREM DepositsOnCourse == Spec => []DepositOnCourse
<1>1. IInv => DepositOnCourse
  BY DEF IInv, OnCourse, Minting, DepositOnCourse
<1> QED BY <1>1, BankInvariance, PTL

\* Unless mint_cash() is called directly, the tokens of an account go back to a
\* signature for it by a key of the factory, which createAccount() makes only when the
\* factory has given up control, and anybody else may ask for at any time.  No
\* signature of another account or of another key, whenever it is set, is enough.
THEOREM MintsForSigned == Spec => []MintedForSigned
<1>1. IInv => MintedForSigned
  BY DEF IInv
<1> QED BY <1>1, BankInvariance, PTL

-----------------------------------------------------------------------------
\* The counts.  The canister that a call has created is its own, and is not signed
\* until the call counts it.

Fresh ==
    /\ \A d \in Calls : newCash[d] # 0 =>
          /\ step[d] \in {"certify", "count"}
          /\ cash[newCash[d]] = [owner |-> container[d], by |-> 0]
    /\ \A d, e \in Calls : newCash[d] # 0 /\ newCash[d] = newCash[e] => d = e

CInv == TypeOK /\ Fresh /\ CountsAgree

Signed == {i \in DOMAIN cash : cash[i].by # 0}

LEMMA InitCounts == Init => CInv
<1> SUFFICES ASSUME Init PROVE CInv
  OBVIOUS
<1>1. TypeOK
  BY InitInvariant DEF IInv
<1>2. cash = <<>> /\ tokensMinted = 0 /\ \A p \in Accounts : MintedFor(p) = 0
  BY DEF Init, BankInit, MintedFor
<1>3. Signed = {} /\ \A p \in Accounts : CashOf(p) = {}
  BY <1>2 DEF Signed, CashOf
<1>4. CountsAgree
  BY <1>2, <1>3, FS_EmptySet DEF CountsAgree, Signed
<1>5. Fresh
  BY DEF Init, BankInit, Fresh
<1> QED BY <1>1, <1>4, <1>5 DEF CInv

\* What a call has created exists.
LEMMA Created ==
    ASSUME TypeOK, NEW d \in Calls, newCash[d] # 0
    PROVE  newCash[d] \in DOMAIN cash
<1>1. Len(cash) \in Nat /\ DOMAIN cash = 1..Len(cash)
  BY LenProperties DEF TypeOK
<1>2. newCash[d] \in 0..Len(cash)
  BY DEF TypeOK
<1> QED BY <1>1, <1>2

\* A step that does not touch the cash: at most it forgets a canister.
LEMMA CountsUntouched ==
    ASSUME CInv, TypeOK', UNCHANGED <<cash, tokensMinted, minted>>,
           \A d \in Calls : newCash'[d] # 0 =>
              /\ newCash'[d] = newCash[d] /\ UNCHANGED container[d]
              /\ step[d] \in {"certify", "count"} => step'[d] \in {"certify", "count"}
    PROVE  CInv'
<1>1. Fresh'
  BY DEF CInv, Fresh
<1>2. CountsAgree'
  BY DEF CInv, CountsAgree, CashOf, MintedFor
<1> QED BY <1>1, <1>2 DEF CInv

LEMMA CashCreatedCounts ==
    ASSUME CInv, TypeOK', NEW d \in Calls, CashCreated(d)
    PROVE  CInv'
<1>n. PICK n \in Nat : n = Len(cash) + 1
  BY LenProperties DEF CInv, TypeOK
<1>p. PICK p \in Accounts : p = container[d]
  BY DEF CashCreated, CInv, TypeOK
<1> DEFINE c == [owner |-> p, by |-> 0]
<1>1. /\ cash' = Append(cash, c) /\ newCash' = [newCash EXCEPT ![d] = n]
      /\ step' = [step EXCEPT ![d] = "certify"]
      /\ UNCHANGED <<tokensMinted, minted, container>>
  BY <1>n, <1>p DEF CashCreated, GoTo, checkVars
<1>2. c.by = 0 /\ c \in [owner : Accounts, by : 0..MaxReserveKeys]
  BY BankAssumption
<1> HIDE DEF c
<1>3. /\ DOMAIN cash = 1..Len(cash) /\ DOMAIN cash' = DOMAIN cash \cup {n} /\ n \notin DOMAIN cash
      /\ \A i \in DOMAIN cash : cash'[i] = cash[i]
      /\ cash'[n] = c
  <2>1. /\ cash' \in Seq([owner : Accounts, by : 0..MaxReserveKeys])
        /\ Len(cash') = Len(cash) + 1
        /\ \A i \in 1..Len(cash) : cash'[i] = cash[i]
        /\ cash'[Len(cash) + 1] = c
    BY <1>1, <1>2, AppendProperties DEF CInv, TypeOK
  <2>2. DOMAIN cash = 1..Len(cash) /\ DOMAIN cash' = 1..Len(cash') /\ Len(cash) \in Nat
    BY <2>1, LenProperties DEF CInv, TypeOK
  <2> QED BY <1>n, <2>1, <2>2
<1>4. Signed' = Signed /\ \A q \in Accounts : CashOf(q)' = CashOf(q)
  BY <1>2, <1>3 DEF Signed, CashOf
<1>5. CountsAgree'
  BY <1>1, <1>4 DEF CInv, CountsAgree, Signed, MintedFor
<1>6. Fresh'
  <2>1. \A e \in Calls : newCash[e] # 0 => newCash[e] \in DOMAIN cash
    BY Created DEF CInv
  <2>2. /\ newCash'[d] = n /\ step'[d] = "certify" /\ container'[d] = p
        /\ \A e \in Calls \ {d} : newCash'[e] = newCash[e] /\ step'[e] = step[e]
    BY <1>1, <1>p DEF CInv, TypeOK
  <2>3. cash'[newCash'[d]] = [owner |-> container'[d], by |-> 0]
    BY <1>3, <2>2 DEF c
  <2>4. \A e \in Calls \ {d} : newCash'[e] # 0 =>
           /\ step'[e] \in {"certify", "count"}
           /\ cash'[newCash'[e]] = [owner |-> container'[e], by |-> 0]
    BY <1>1, <1>3, <2>1, <2>2 DEF CInv, Fresh
  <2>5. \A e, f \in Calls : newCash'[e] # 0 /\ newCash'[e] = newCash'[f] => e = f
    BY <1>3, <2>1, <2>2 DEF CInv, Fresh
  <2> QED BY <2>2, <2>3, <2>4, <2>5 DEF Fresh
<1> QED BY <1>5, <1>6 DEF CInv

LEMMA CashMintedCounts ==
    ASSUME CInv, TypeOK', NEW d \in Calls, CashMinted(d)
    PROVE  CInv'
<1>1. PICK n \in DOMAIN cash : n = newCash[d]
  <2>1. step[d] = "count"
    BY DEF CashMinted
  <2>2. newCash[d] \in 0..Len(cash) /\ newCash[d] # 0
    BY <2>1 DEF CInv, TypeOK
  <2>3. Len(cash) \in Nat /\ DOMAIN cash = 1..Len(cash)
    <3>1. cash \in Seq([owner : Accounts, by : 0..MaxReserveKeys])
      BY DEF CInv, TypeOK
    <3> QED BY <3>1, LenProperties
  <2> QED BY <2>2, <2>3
<1>2. PICK p \in Accounts : p = container[d]
  BY DEF CashMinted, CInv, TypeOK
<1>3. /\ step[d] = "count" /\ certified[d] # 0
      /\ cash' = [cash EXCEPT ![n].by = certified[d]]
      /\ tokensMinted' = tokensMinted + 1 /\ minted' = Counted(d)
  BY <1>1 DEF CashMinted, CInv, TypeOK
<1>4. cash[n] = [owner |-> p, by |-> 0] /\ n # 0
  <2>1. n # 0
    BY <1>1, <1>3 DEF CInv, TypeOK
  <2> QED BY <1>1, <1>2, <2>1 DEF CInv, Fresh
<1>5. /\ DOMAIN cash' = DOMAIN cash
      /\ \A i \in DOMAIN cash : i # n => cash'[i] = cash[i]
      /\ cash'[n] = [owner |-> p, by |-> certified[d]]
  BY <1>3, <1>4
<1>6. /\ newCash'[d] = 0
      /\ \A e \in Calls \ {d} :
            UNCHANGED <<newCash[e], step[e], container[e]>> /\ newCash[e] # n
  <2>1. \A e \in Calls \ {d} : newCash[e] # n
    BY <1>1, <1>4 DEF CInv, Fresh
  <2>2. CASE Loops(d)
    BY <2>1, <2>2 DEF CashMinted, GoTo, checkVars, CInv, TypeOK
  <2>3. CASE ~Loops(d)
    BY <2>1, <2>3 DEF CashMinted, End, CInv, TypeOK
  <2> QED BY <2>2, <2>3
<1>7. Fresh'
  <2>1. \A e \in Calls \ {d} : newCash[e] # 0 => newCash[e] \in DOMAIN cash
    BY Created DEF CInv
  <2> QED BY <1>5, <1>6, <2>1 DEF CInv, Fresh
<1>8. IsFiniteSet(Signed) /\ IsFiniteSet(CashOf(p))
  <2>1. IsFiniteSet(DOMAIN cash)
    <3>1. DOMAIN cash = 1..Len(cash) /\ Len(cash) \in Nat
      BY LenProperties DEF CInv, TypeOK
    <3>2. IsFiniteSet(1..Len(cash))
      BY <3>1, FS_Interval
    <3> QED BY <3>1, <3>2
  <2>2. Signed \subseteq DOMAIN cash /\ CashOf(p) \subseteq DOMAIN cash
    BY DEF Signed, CashOf
  <2> QED BY <2>1, <2>2, FS_Subset
<1>9. /\ Signed' = Signed \cup {n} /\ n \notin Signed
      /\ CashOf(p)' = CashOf(p) \cup {n} /\ n \notin CashOf(p)
      /\ \A q \in Accounts \ {p} : CashOf(q)' = CashOf(q)
  BY <1>3, <1>4, <1>5 DEF Signed, CashOf
<1>10. /\ Cardinality(Signed') = Cardinality(Signed) + 1
       /\ Cardinality(CashOf(p)') = Cardinality(CashOf(p)) + 1
  BY <1>8, <1>9, FS_AddElement
<1>11. MintedFor(p)' = MintedFor(p) + 1 /\ \A q \in Accounts \ {p} : MintedFor(q)' = MintedFor(q)
  BY <1>2, <1>3 DEF Counted, MintedFor
<1>12. CountsAgree'
  <2>1. tokensMinted' = Cardinality(Signed')
    BY <1>3, <1>10 DEF CInv, CountsAgree, Signed
  <2>2. \A q \in Accounts : MintedFor(q)' = Cardinality(CashOf(q)')
    BY <1>9, <1>10, <1>11 DEF CInv, CountsAgree
  <2> QED BY <2>1, <2>2 DEF CountsAgree, Signed
<1> QED BY <1>7, <1>12 DEF CInv

LEMMA NextCounts == IInv /\ CInv /\ [Next]_vars => CInv'
<1> SUFFICES ASSUME IInv, CInv, [Next]_vars PROVE CInv'
  OBVIOUS
<1>1. TypeOK'
  BY NextInvariant DEF IInv
<1> USE DEF factoryVars, accountVars, publicVars, bankVars, reserveVars, checkVars,
            mintVars, historyVars
<1>2. CASE (FactoryNext /\ UNCHANGED bankVars) \/ UNCHANGED vars \/ GenerateReserveKey
  BY <1>1, <1>2, CountsUntouched DEF GenerateReserveKey, vars
<1>3. ASSUME NEW d \in Calls, End(d), UNCHANGED reserveVars PROVE CInv'
  BY <1>1, <1>3, CountsUntouched DEF End, CInv, TypeOK
<1>4. ASSUME NEW d \in Calls, Starts(d) PROVE CInv'
  <2>1. newCash[d] = 0
    BY <1>4 DEF Starts, Notify, MintCash, CInv, Fresh
  <2>2. /\ UNCHANGED <<cash, tokensMinted, minted, newCash>>
        /\ \A e \in Calls \ {d} : UNCHANGED <<step[e], container[e]>>
    BY <1>4 DEF Starts, Notify, MintCash, GoTo, CInv, TypeOK
  <2> QED BY <1>1, <2>1, <2>2, CountsUntouched
<1>5. ASSUME NEW d \in Calls, Continues(d), ~CashCreated(d), ~CashMinted(d), ~End(d)
      PROVE  CInv'
  <2>1. /\ UNCHANGED <<cash, tokensMinted, minted, newCash, container>>
        /\ \E next \in Steps : GoTo(d, next)
        /\ step'[d] = "count" \/ newCash[d] = 0
    BY <1>5 DEF Continues, SignatureReturns, VerifyReturns, OwnerReturns, ReadMinted,
                BalanceReturns, CashSigned, Throws, GoTo, Steps, CInv, Fresh, TypeOK
  <2>2. \A e \in Calls \ {d} : UNCHANGED step[e]
    BY <2>1 DEF GoTo, CInv, TypeOK
  <2> QED BY <1>1, <2>1, <2>2, CountsUntouched
<1>6. ASSUME NEW d \in Calls, Continues(d), ~CashMinted(d), End(d) PROVE UNCHANGED reserveVars
  BY <1>6 DEF Continues, SignatureReturns, VerifyReturns, OwnerReturns, ReadMinted,
              BalanceReturns, CashCreated, CashSigned, Throws, End, GoTo, CInv, TypeOK
<1>7. ASSUME NEW d \in Calls, Continues(d) PROVE CInv'
  BY <1>1, <1>3, <1>5, <1>6, <1>7, CashCreatedCounts, CashMintedCounts
<1> QED BY <1>2, <1>4, <1>7 DEF Next, BankNext

\* However calls interleave and wherever they throw, the counts are the numbers of
\* signed cash canisters, in all and for each account.
THEOREM CountsTrue == Spec => []CountsAgree
<1>1. Init => IInv /\ CInv
  BY InitInvariant, InitCounts
<1>2. (IInv /\ CInv) /\ [Next]_vars => (IInv /\ CInv)'
  BY NextInvariant, NextCounts
<1>3. CInv => CountsAgree
  BY DEF CInv
<1> QED BY <1>1, <1>2, <1>3, PTL DEF Spec
=============================================================================
