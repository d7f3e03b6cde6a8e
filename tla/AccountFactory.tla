--------------------------- MODULE AccountFactory ---------------------------
(***************************************************************************)
(* The account factory of examples/motoko/src/BTConICP.mo and what the     *)
(* account canisters it creates hold for it.  createAccount() is cut at    *)
(* its awaits: the new canister (the random numbers awaited before it can  *)
(* only make the call throw, which they do as part of it), its             *)
(* controllers, and its signature.  The signature then travels to the      *)
(* account in a message that nobody waits for: it may arrive late, or      *)
(* never.                                                                  *)
(*                                                                         *)
(* Keys are numbered in the order in which they are generated; 0 is the    *)
(* private_key_decimal of a factory that has none, and stands for any key  *)
(* that is not the factory's when it signs.  A signature is the account it *)
(* names and the key that made it.                                         *)
(*                                                                         *)
(* sign_message() and an account's set_parent_signed_accountId() look at   *)
(* no caller, and generate_private_key() returns the key: anybody may have *)
(* any account signed at any time, and any account hold any signature that *)
(* there is.  So a signature that was made is simply there, for anybody to *)
(* set; the message by which createAccount() sets its own is one such      *)
(* call.  Left out is parent_principal, which nothing reads.               *)
(***************************************************************************)
EXTENDS Integers, FiniteSets, Sequences, SequencesExt

CONSTANTS
    Accounts,       \* the principals of canisters yet to be created
    Customers,      \* the principals of users
    Creators,       \* bound: calls of createAccount() under way at a time
    MaxKeys,        \* bound: keys the factory generates
    NoAccount,      \* no canister yet
    NoOwner         \* the canister does not exist

ASSUME FactoryAssumption ==
    /\ MaxKeys \in Nat
    /\ NoAccount \notin Accounts
    /\ NoOwner \notin Customers

VARIABLES
    factoryKey,     \* private_key, private_key_wif and private_key_decimal
    creation,       \* creation[c]: what call c of createAccount() waits for
    customer,       \* customer[c]: its caller
    creating,       \* creating[c]: the canister it has created
    signedBy,       \* signedBy[c]: the signature it has obtained
    owner,          \* owner[p]: owner of account p
    selfControlled, \* the accounts that are their own only controller
    signature,      \* signature[p]: parent_signed_accountId
    published,      \* signatures of the factory, sent to an account or handed out
    signedOutside   \* history: accounts signed for others than createAccount()

factoryVars == <<factoryKey, creation, customer, creating, signedBy>>
publicVars == <<published, signedOutside>>
accountVars == <<owner, selfControlled, signature>>

CreationSteps == {"idle", "install", "settings", "sign", "signed"}

Signatures == [of : Accounts, by : 0..MaxKeys]

\* The parent_signed_accountId null.
NoSignature == [of |-> NoAccount, by |-> 0]

FactoryInit ==
    /\ factoryKey = 0
    /\ creation = [c \in Creators |-> "idle"]
    /\ customer = [c \in Creators |-> NoOwner]
    /\ creating = [c \in Creators |-> NoAccount]
    /\ signedBy = [c \in Creators |-> 0]
    /\ owner = [p \in Accounts |-> NoOwner]
    /\ selfControlled = {}
    /\ signature = [p \in Accounts |-> NoSignature]
    /\ published = {}
    /\ signedOutside = {}

-----------------------------------------------------------------------------
\* generate_private_key(): the message that stores the new key.
GenerateFactoryKey ==
    /\ factoryKey < MaxKeys
    /\ factoryKey' = factoryKey + 1
    /\ UNCHANGED <<creation, customer, creating, signedBy, accountVars, publicVars>>

\* Mutant: whoever made the signature.
VerifiedByAnyKey(p, s) == factoryKey # 0 /\ s.of = p

\* verify_message(), which traps without a key.
Verified(p, s) == factoryKey # 0 /\ s = [of |-> p, by |-> factoryKey]

\* createAccount() up to its first await.  Bound: there is a principal left.
CreateAccount(c, u) ==
    /\ creation[c] = "idle"
    /\ \E p \in Accounts : owner[p] = NoOwner
    /\ creation' = [creation EXCEPT ![c] = "install"]
    /\ customer' = [customer EXCEPT ![c] = u]
    /\ UNCHANGED <<factoryKey, creating, signedBy, accountVars, publicVars>>

\* The account canister is created, owned by the caller, controlled by the factory.
AccountCreated(c, p) ==
    /\ creation[c] = "install"
    /\ owner[p] = NoOwner
    /\ owner' = [owner EXCEPT ![p] = customer[c]]
    /\ creating' = [creating EXCEPT ![c] = p]
    /\ creation' = [creation EXCEPT ![c] = "settings"]
    /\ UNCHANGED <<factoryKey, customer, signedBy, selfControlled, signature, publicVars>>

\* Mutant: update_settings() is called but not awaited, and gets lost.
SettingsNotAwaited(c) ==
    /\ creation[c] = "settings"
    /\ creation' = [creation EXCEPT ![c] = "sign"]
    /\ UNCHANGED <<factoryKey, customer, creating, signedBy, accountVars, publicVars>>

\* update_settings(): the account is its own only controller.
SettingsUpdated(c) ==
    /\ creation[c] = "settings"
    /\ selfControlled' = selfControlled \cup {creating[c]}
    /\ creation' = [creation EXCEPT ![c] = "sign"]
    /\ UNCHANGED <<factoryKey, customer, creating, signedBy, owner, signature, publicVars>>

\* sign_message() for createAccount(); it traps without a key.
SignMessage(c) ==
    /\ creation[c] = "sign"
    /\ factoryKey # 0
    /\ signedBy' = [signedBy EXCEPT ![c] = factoryKey]
    /\ creation' = [creation EXCEPT ![c] = "signed"]
    /\ UNCHANGED <<factoryKey, customer, creating, accountVars, publicVars>>

\* sign_message() for anybody else, or a signature by somebody to whom
\* generate_private_key() has returned the key.
SignOutside(p) ==
    /\ factoryKey # 0
    /\ published' = published \cup {[of |-> p, by |-> factoryKey]}
    /\ signedOutside' = signedOutside \cup {p}
    /\ UNCHANGED <<factoryVars, accountVars>>

\* The locals of a call that ends.
CreationEnds(c) ==
    /\ creation' = [creation EXCEPT ![c] = "idle"]
    /\ customer' = [customer EXCEPT ![c] = NoOwner]
    /\ creating' = [creating EXCEPT ![c] = NoAccount]
    /\ signedBy' = [signedBy EXCEPT ![c] = 0]
    /\ UNCHANGED factoryKey

\* The last message of createAccount(): the signature is sent, the account
\* handed to the customer.
CreateReturns(c) ==
    /\ creation[c] = "signed"
    /\ published' = published \cup {[of |-> creating[c], by |-> signedBy[c]]}
    /\ CreationEnds(c)
    /\ UNCHANGED <<accountVars, signedOutside>>

\* An await throws: what the call has done so far stays.
CreateThrows(c) ==
    /\ creation[c] \in {"install", "settings", "sign"}
    /\ CreationEnds(c)
    /\ UNCHANGED <<accountVars, publicVars>>

-----------------------------------------------------------------------------
\* What anybody may have: signatures of the factory, those made with another key,
\* and none.
Obtainable == published \cup [of : Accounts, by : {0}] \cup {NoSignature}

\* set_parent_signed_accountId(), called by createAccount() or by anybody: whatever
\* the account holds is replaced, be it by the signature of another account, by one
\* of a replaced key, by one that is not the factory's, or by none.
SetSignature(p, s) ==
    /\ owner[p] # NoOwner
    /\ s \in Obtainable
    /\ signature' = [signature EXCEPT ![p] = s]
    /\ UNCHANGED <<owner, selfControlled, publicVars, factoryVars>>

\* Somebody installs a canister that the factory does not know of.
InstallAccount(p, u) ==
    /\ owner[p] = NoOwner
    /\ owner' = [owner EXCEPT ![p] = u]
    /\ UNCHANGED <<selfControlled, signature, publicVars, factoryVars>>

\* transfer_canister(), called by the owner.
TransferCanister(p, u) ==
    /\ owner[p] \in Customers
    /\ owner' = [owner EXCEPT ![p] = u]
    /\ UNCHANGED <<selfControlled, signature, publicVars, factoryVars>>

-----------------------------------------------------------------------------
CreateContinues(c) ==
    \/ \E p \in Accounts : AccountCreated(c, p)
    \/ SettingsUpdated(c)
    \/ SignMessage(c)
    \/ CreateReturns(c)
    \/ CreateThrows(c)

FactoryNext ==
    \/ GenerateFactoryKey
    \/ \E c \in Creators :
          CreateContinues(c) \/ \E u \in Customers : CreateAccount(c, u)
    \/ \E p \in Accounts : SignOutside(p) \/ \E s \in Obtainable : SetSignature(p, s)
    \/ \E p \in Accounts, u \in Customers : InstallAccount(p, u) \/ TransferCanister(p, u)

-----------------------------------------------------------------------------
FactoryTypeOK ==
    /\ factoryKey \in 0..MaxKeys
    /\ creation \in [Creators -> CreationSteps]
    /\ customer \in [Creators -> Customers \cup {NoOwner}]
    /\ creating \in [Creators -> Accounts \cup {NoAccount}]
    /\ signedBy \in [Creators -> 0..MaxKeys]
    /\ owner \in [Accounts -> Customers \cup {NoOwner}]
    /\ selfControlled \subseteq Accounts
    /\ signature \in [Accounts -> Signatures \cup {NoSignature}]
    /\ published \subseteq [of : Accounts, by : 1..MaxKeys]
    /\ signedOutside \subseteq Accounts
    /\ \A c \in Creators :
          creation[c] \in {"settings", "sign", "signed"} <=> creating[c] # NoAccount
=============================================================================
