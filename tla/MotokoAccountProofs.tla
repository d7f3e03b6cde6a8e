------------------------ MODULE MotokoAccountProofs ------------------------
(***************************************************************************)
(* Double spends only by calls that race, and a usable key unless calls    *)
(* race: proved for any number of outputs, keys and concurrent calls.      *)
(* Neither is inductive.  For the first, the invariant remembers what a    *)
(* call knew when it filtered its UTXOs: none of them was an input of the  *)
(* transactions built until then.  For the second it says how the stored   *)
(* key and the keys of the calls go together as long as no two calls have  *)
(* generated the first key at once.                                        *)
(***************************************************************************)
EXTENDS MotokoAccount, DataLemmas

\* build_transaction spends outputs it was offered and no others, whatever the
\* amount, and however its arithmetic wraps around: the first so many of them.
LEMMA InputsOffered ==
    ASSUME NEW offered \in SUBSET OutPoints, NEW utxos \in SetToSeqs(offered),
           NEW satoshis, NEW fees
    PROVE  LET inputs == BuildTransaction(utxos, satoshis, fees).inputs IN
           /\ inputs \in Seq(OutPoints)
           /\ ToSet(inputs) \subseteq offered
           /\ \A j \in DOMAIN inputs : j \in DOMAIN utxos /\ inputs[j] = utxos[j]
<1> DEFINE chosen == {k \in DOMAIN utxos :
                        \A j \in 1..(k - 1) :
                           Total(SubSeq(utxos, 1, j)) < Wrapped(satoshis + fees)}
           inputs == SubSeq(utxos, 1, Cardinality(chosen))
<1>1. IsFiniteSet(offered) /\ chosen \in SUBSET DOMAIN utxos
  BY BuildingAssumption, FS_Subset
<1>2. BuildTransaction(utxos, satoshis, fees).inputs = inputs
  BY DEF BuildTransaction, Selected
<1> HIDE DEF chosen
<1>3. /\ inputs \in Seq(offered) /\ ToSet(inputs) \subseteq offered
      /\ \A j \in DOMAIN inputs : j \in DOMAIN utxos /\ inputs[j] = utxos[j]
  BY <1>1, FirstOfOrder
<1>4. Seq(offered) \subseteq Seq(OutPoints)
  BY SeqMonotonic
<1> HIDE DEF inputs
<1> QED BY <1>2, <1>3, <1>4

Built == [signed : [inputs : Seq(OutPoints), source : Addresses,
                    signer : Keys \cup {NoKey}],
          seen : Nat]

\* What was built was set aside, in particular before a call that has seen it
\* filtered its UTXOs.
SetAside == \A i \in DOMAIN built : Inputs(i) \subseteq spent_outpoints

OffersOwn ==
    \A c \in Calls :
        step[c] = "build" => filtered[c] \subseteq OutputsOf(P2pkhAddress[key[c]])

OffersUnseen ==
    \A c \in Calls : step[c] = "build" =>
        \A i \in DOMAIN built : i <= seen[c] => Inputs(i) \cap filtered[c] = {}

HasKey(c) == step[c] \in {"address", "utxos", "build", "sign", "send"}

\* Before the key is stored at most one call is on its way to store one, and no
\* call works for an address; from then on every call works for that of the key.
OneKey ==
    ~raced =>
        /\ \A c, d \in Calls : StoresKey(c) /\ StoresKey(d) => c = d
        /\ \A c \in Calls : StoresKey(c) => PRIVATE_KEY_WIF = NoKey
        /\ \A c \in Calls : HasKey(c) => key[c] = PRIVATE_KEY_WIF

IInv ==
    /\ TypeOK
    /\ built \in Seq(Built)
    /\ SetAside
    /\ OffersOwn
    /\ OffersUnseen
    /\ OneKey
    /\ DoubleSpendsOverlap
    /\ InputsUnlocked

-----------------------------------------------------------------------------
\* The initial state.
LEMMA InitInvariant == Init => IInv
<1> SUFFICES ASSUME Init PROVE IInv
  OBVIOUS
<1>1. built = <<>> /\ DOMAIN built = {} /\ Len(built) = 0
  BY DEF Init
<1>2. TypeOK
  <2>1. 0 \in Words
    BY BuildingAssumption DEF Words
  <2>2. seen \in [Calls -> 0..Len(built)]
    BY <1>1 DEF Init
  <2>3. /\ op \in [Calls -> Ops] /\ step \in [Calls -> Steps]
        /\ amount \in [Calls -> Words]
        /\ key \in [Calls -> generated \cup {NoKey}]
        /\ filtered \in [Calls -> SUBSET OutPoints]
    BY <2>1 DEF Init, Ops, Steps
  <2>4. \A c \in Calls :
           /\ filtered[c] = {} /\ key[c] = NoKey
           /\ step[c] = "idle" /\ op[c] = "none"
    BY DEF Init
  <2> QED BY <2>2, <2>3, <2>4 DEF Init, TypeOK
<1>3. built \in Seq(Built)
  BY <1>1
<1> QED BY <1>1, <1>2, <1>3
  DEF IInv, Init, SetAside, OffersOwn, OffersUnseen, OneKey, StoresKey, HasKey,
      DoubleSpendsOverlap, InputsUnlocked

\* What building a transaction does: its inputs were offered and are set aside.
LEMMA BuildStep ==
    ASSUME IInv, NEW c \in Calls, BuildReturns(c)
    PROVE  \E b \in Built :
              /\ built' = Append(built, b)
              /\ ToSet(b.signed.inputs) \subseteq filtered[c]
              /\ spent_outpoints' = spent_outpoints \cup ToSet(b.signed.inputs)
              /\ b.signed.source = P2pkhAddress[key[c]]
              /\ b.signed.signer = PRIVATE_KEY_WIF
              /\ b.seen = seen[c]
<1>1. PICK utxos \in SetToSeqs(filtered[c]) :
         LET tx == BuildTransaction(utxos, amount[c], Fees)
             source == P2pkhAddress[key[c]]
         IN
         /\ spent_outpoints' = spent_outpoints \cup RecordedOutPoints(utxos, tx)
         /\ built' = Append(built, [signed |-> SignTransaction(tx, PRIVATE_KEY_WIF, source),
                                    seen |-> seen[c]])
  BY DEF BuildReturns
<1> DEFINE tx == BuildTransaction(utxos, amount[c], Fees)
           b == [signed |-> SignTransaction(tx, PRIVATE_KEY_WIF, P2pkhAddress[key[c]]),
                 seen |-> seen[c]]
<1>2. filtered[c] \subseteq OutPoints
  BY DEF IInv, TypeOK
<1>3. /\ tx.inputs \in Seq(OutPoints)
      /\ ToSet(tx.inputs) \subseteq filtered[c]
      /\ \A j \in DOMAIN tx.inputs : j \in DOMAIN utxos /\ tx.inputs[j] = utxos[j]
  BY <1>2, InputsOffered
<1> HIDE DEF tx
<1>4. RecordedOutPoints(utxos, tx) = ToSet(tx.inputs)
  <2> DEFINE used == UsedIndices(utxos, tx)
  <2>1. DOMAIN used = DOMAIN tx.inputs
    BY DEF UsedIndices
  <2>2. ASSUME NEW j \in DOMAIN tx.inputs
        PROVE  utxos[used[j]] = tx.inputs[j]
    <3>1. \E i \in DOMAIN utxos : utxos[i] = tx.inputs[j]
      BY <1>3, <2>2
    <3>2. used[j] = CHOOSE i \in DOMAIN utxos : utxos[i] = tx.inputs[j]
      BY <2>2 DEF UsedIndices
    <3> HIDE DEF used
    <3> QED BY <3>1, <3>2
  <2>3. RecordedOutPoints(utxos, tx) = {utxos[used[j]] : j \in DOMAIN used}
    BY DEF RecordedOutPoints
  <2> HIDE DEF used
  <2> QED BY <2>1, <2>2, <2>3 DEF ToSet
<1>5. b.signed.inputs = tx.inputs
  BY DEF SignTransaction
<1>6. b \in Built
  <2>1. key[c] \in Keys
    BY DEF IInv, TypeOK, BuildReturns
  <2>2. P2pkhAddress[key[c]] \in Addresses
    BY <2>1, CommonAssumption
  <2>3. PRIVATE_KEY_WIF \in Keys \cup {NoKey} /\ seen[c] \in Nat
    <3>1. built \in Seq(Built)
      BY DEF IInv
    <3>2. Len(built) \in Nat
      BY <3>1, LenProperties
    <3> QED BY <3>2 DEF IInv, TypeOK
  <2> QED BY <1>3, <2>2, <2>3 DEF Built, SignTransaction
<1>7. /\ b.signed.source = P2pkhAddress[key[c]]
      /\ b.signed.signer = PRIVATE_KEY_WIF
      /\ b.seen = seen[c]
  BY DEF SignTransaction
<1>8. built' = Append(built, b)
  BY <1>1 DEF tx
<1>9. spent_outpoints' = spent_outpoints \cup ToSet(b.signed.inputs)
  BY <1>1, <1>4, <1>5 DEF tx
<1> HIDE DEF b
<1> QED BY <1>3, <1>5, <1>6, <1>7, <1>8, <1>9

-----------------------------------------------------------------------------
\* The types, and what a step other than the building of a transaction does.

\* A call offers UTXOs after such a step only if it did before, or if it has just
\* filtered them.
Offers(c) ==
    \/ step[c] = "build" /\ UNCHANGED <<filtered[c], seen[c], key[c]>>
    \/ /\ filtered'[c] \cap spent_outpoints = {}
       /\ filtered'[c] \subseteq OutputsOf(P2pkhAddress[key'[c]])

LEMMA OtherSteps ==
    ASSUME IInv, [Next]_vars, \A c \in Calls : ~BuildReturns(c)
    PROVE  /\ TypeOK'
           /\ built' = built /\ spent_outpoints' = spent_outpoints
           /\ \A c \in Calls : step'[c] = "build" => Offers(c)
<1> DEFINE Goal == /\ TypeOK'
                   /\ built' = built /\ spent_outpoints' = spent_outpoints
                   /\ \A c \in Calls : step'[c] = "build" => Offers(c)
<1>1. 0 \in Words /\ Len(built) \in Nat /\ 0 \in 0..Len(built)
  <2>1. Len(built) \in Nat
    BY LenProperties DEF IInv
  <2> QED BY <2>1, BuildingAssumption DEF Words
<1>2. TypeOK
  BY DEF IInv
<1>3. CASE UNCHANGED vars
  BY <1>2, <1>3 DEF vars, accountVars, callVars, TypeOK, Offers
<1>4. ASSUME NEW c \in Calls, GeneratePrivateKey(c) PROVE Goal
  BY <1>2, <1>4 DEF GeneratePrivateKey, TypeOK, Offers, accountVars, Ops, Steps
<1>5. ASSUME NEW c \in Calls, NEW what \in {"address", "send"},
             NEW satoshis \in Words, Call(c, what, satoshis)
      PROVE  Goal
  <2>1. /\ step[c] = "idle" /\ key[c] = NoKey
        /\ op' = [op EXCEPT ![c] = what]
        /\ amount' = [amount EXCEPT ![c] = satoshis]
        /\ UNCHANGED <<accountVars, filtered, seen, generated, built>>
        /\ raced' \in BOOLEAN
    BY <1>2, <1>5 DEF Call, FirstUse, LaterUse, Called, TypeOK
  <2>2. \/ step' = [step EXCEPT ![c] = "random"] /\ UNCHANGED key
        \/ /\ PRIVATE_KEY_WIF # NoKey
           /\ step' = [step EXCEPT ![c] = "address"]
           /\ key' = [key EXCEPT ![c] = PRIVATE_KEY_WIF]
    BY <1>5 DEF Call, FirstUse, LaterUse
  <2>3. /\ op' \in [Calls -> Ops] /\ amount' \in [Calls -> Words]
        /\ step' \in [Calls -> Steps]
        /\ key' \in [Calls -> generated \cup {NoKey}]
    BY <1>2, <2>1, <2>2 DEF TypeOK, Ops, Steps
  <2>4. ASSUME NEW d \in Calls
        PROVE  /\ step'[d] # "build" => filtered'[d] = {}
               /\ key'[d] = NoKey <=> step'[d] \in {"idle", "random"}
               /\ step'[d] = "idle" <=> op'[d] = "none"
               /\ step'[d] = "build" => step[d] = "build" /\ key'[d] = key[d]
    BY <1>2, <2>1, <2>2 DEF TypeOK
  <2>5. TypeOK'
    BY <1>2, <2>1, <2>3, <2>4 DEF TypeOK, accountVars
  <2> QED BY <2>1, <2>4, <2>5 DEF Offers, accountVars
<1>6. ASSUME NEW c \in Calls, End(c), UNCHANGED <<accountVars, generated, raced, built>>
      PROVE  Goal
  BY <1>1, <1>2, <1>6 DEF End, TypeOK, Offers, accountVars, Ops, Steps
<1>7. ASSUME NEW c \in Calls, NEW k \in Keys, GenerateReturns(c, k) PROVE Goal
  <2>1. /\ step[c] = "random" /\ op[c] # "none" /\ k # NoKey
        /\ private_key' = k /\ generated' = generated \cup {k}
        /\ UNCHANGED <<PRIVATE_KEY_WIF, spent_outpoints, raced, built>>
    BY <1>2, <1>7, AccountAssumption DEF GenerateReturns, TypeOK
  <2>2. \/ End(c)
        \/ /\ step' = [step EXCEPT ![c] = "key"]
           /\ key' = [key EXCEPT ![c] = k]
           /\ UNCHANGED <<op, amount, filtered, seen>>
    BY <1>7 DEF GenerateReturns
  <2>3. /\ op' \in [Calls -> Ops] /\ amount' \in [Calls -> Words]
        /\ step' \in [Calls -> Steps]
        /\ key' \in [Calls -> generated' \cup {NoKey}]
        /\ filtered' \in [Calls -> SUBSET OutPoints]
        /\ seen' \in [Calls -> 0..Len(built)]
    <3>1. key' \in [Calls -> generated' \cup {NoKey}]
      <4>1. key \in [Calls -> generated' \cup {NoKey}]
        BY <1>2, <2>1 DEF TypeOK
      <4>2. \/ key' = [key EXCEPT ![c] = NoKey]
            \/ key' = [key EXCEPT ![c] = k]
        BY <2>2 DEF End
      <4> QED BY <2>1, <4>1, <4>2
    <3>2. CASE End(c)
      BY <1>1, <1>2, <3>1, <3>2 DEF TypeOK, End, Ops, Steps
    <3>3. CASE /\ step' = [step EXCEPT ![c] = "key"]
               /\ UNCHANGED <<op, amount, filtered, seen>>
      BY <1>2, <3>1, <3>3 DEF TypeOK, Steps
    <3> QED BY <2>2, <3>2, <3>3
  <2>4. ASSUME NEW d \in Calls
        PROVE  /\ step'[d] # "build" => filtered'[d] = {}
               /\ key'[d] = NoKey <=> step'[d] \in {"idle", "random"}
               /\ step'[d] = "idle" <=> op'[d] = "none"
               /\ step'[d] = "build" =>
                    step[d] = "build" /\ UNCHANGED <<filtered[d], seen[d], key[d]>>
    BY <1>2, <2>1, <2>2 DEF TypeOK, End
  <2>5. TypeOK'
    BY <1>2, <2>1, <2>3, <2>4 DEF TypeOK
  <2> QED BY <2>1, <2>4, <2>5 DEF Offers
<1>8. ASSUME NEW c \in Calls, StoreKey(c) PROVE Goal
  BY <1>2, <1>8 DEF StoreKey, TypeOK, Offers, Steps
<1>9. ASSUME NEW c \in Calls, AddressReturns(c) PROVE Goal
  BY <1>2, <1>6, <1>9 DEF AddressReturns, TypeOK, Offers, accountVars, Steps
<1>10. ASSUME NEW c \in Calls, GetUtxosReturns(c) PROVE Goal
  <2>1. UNCHANGED <<accountVars, generated, raced, built>> /\ step[c] = "utxos"
    BY <1>10 DEF GetUtxosReturns
  <2>2. PICK utxos \in SUBSET OutputsOf(P2pkhAddress[key[c]]) :
           IF Filtered(utxos) = {}
           THEN End(c)
           ELSE /\ filtered' = [filtered EXCEPT ![c] = Filtered(utxos)]
                /\ seen' = [seen EXCEPT ![c] = Len(built)]
                /\ step' = [step EXCEPT ![c] = "build"]
                /\ UNCHANGED <<op, amount, key>>
    BY <1>10 DEF GetUtxosReturns
  <2>3. CASE End(c)
    BY <1>6, <2>1, <2>3
  <2> DEFINE left == Filtered(utxos)
  <2>4. /\ left \subseteq OutPoints /\ left \cap spent_outpoints = {}
        /\ left \subseteq OutputsOf(P2pkhAddress[key[c]])
    BY DEF Filtered, OutputsOf
  <2> HIDE DEF left
  <2>5. CASE /\ filtered' = [filtered EXCEPT ![c] = left]
             /\ seen' = [seen EXCEPT ![c] = Len(built)]
             /\ step' = [step EXCEPT ![c] = "build"]
             /\ UNCHANGED <<op, amount, key>>
    <3>1. /\ filtered' \in [Calls -> SUBSET OutPoints]
          /\ seen' \in [Calls -> 0..Len(built)]
          /\ step' \in [Calls -> Steps]
      BY <1>1, <1>2, <2>4, <2>5 DEF TypeOK, Steps
    <3>2. ASSUME NEW d \in Calls
          PROVE  /\ step'[d] # "build" => filtered'[d] = {}
                 /\ key'[d] = NoKey <=> step'[d] \in {"idle", "random"}
                 /\ step'[d] = "idle" <=> op'[d] = "none"
                 /\ step'[d] = "build" => Offers(d)
      BY <1>2, <2>1, <2>4, <2>5 DEF TypeOK, Offers
    <3>3. TypeOK'
      BY <1>2, <2>1, <2>5, <3>1, <3>2 DEF TypeOK, accountVars
    <3> QED BY <2>1, <3>2, <3>3 DEF accountVars
  <2> QED BY <2>2, <2>3, <2>5 DEF left
<1>11. ASSUME NEW c \in Calls, SignReturns(c) PROVE Goal
  BY <1>2, <1>11 DEF SignReturns, TypeOK, Offers, accountVars, Steps
<1>12. ASSUME NEW c \in Calls, BuildFails(c) \/ SendReturns(c) \/ AwaitFails(c) PROVE Goal
  BY <1>6, <1>12 DEF BuildFails, SendReturns, AwaitFails
<1>13. ASSUME NEW c \in Calls, Start(c) PROVE Goal
  BY <1>1, <1>4, <1>5, <1>13, AccountAssumption DEF Start
<1>14. ASSUME NEW c \in Calls, Continue(c) PROVE Goal
  BY <1>7, <1>8, <1>9, <1>10, <1>11, <1>12, <1>14 DEF Continue
<1> QED BY <1>3, <1>13, <1>14 DEF Next

\* How the keys go together survives every step.
LEMMA OneKeyKept ==
    ASSUME IInv, [Next]_vars
    PROVE  OneKey' /\ (raced => raced')
<1> USE DEF StoresKey, HasKey
<1> DEFINE Goal == OneKey' /\ (raced => raced')
<1>1. TypeOK /\ OneKey
  BY DEF IInv
<1>2. ASSUME UNCHANGED <<PRIVATE_KEY_WIF, raced>>,
             \A d \in Calls :
                /\ StoresKey(d)' => StoresKey(d)
                /\ HasKey(d)' => \/ HasKey(d) /\ UNCHANGED key[d]
                                 \/ key'[d] = PRIVATE_KEY_WIF
      PROVE  Goal
  BY <1>1, <1>2 DEF OneKey
<1>3. CASE UNCHANGED vars
  BY <1>1, <1>3 DEF vars, accountVars, callVars, OneKey
<1>4. ASSUME NEW c \in Calls, GeneratePrivateKey(c) PROVE Goal
  BY <1>1, <1>2, <1>4 DEF GeneratePrivateKey, TypeOK, accountVars
<1>5. ASSUME NEW c \in Calls, NEW what \in {"address", "send"}, NEW satoshis,
             Call(c, what, satoshis)
      PROVE  Goal
  <2>1. CASE FirstUse(c, what, satoshis)
    BY <1>1, <2>1 DEF FirstUse, Called, TypeOK, OneKey, accountVars
  <2>2. CASE LaterUse(c, what, satoshis)
    BY <1>1, <1>2, <2>2 DEF LaterUse, Called, TypeOK, accountVars
  <2> QED BY <1>5, <2>1, <2>2 DEF Call
<1>6. ASSUME NEW c \in Calls, End(c), UNCHANGED <<accountVars, generated, raced, built>>
      PROVE  Goal
  BY <1>1, <1>2, <1>6 DEF End, TypeOK, accountVars
<1>7. ASSUME NEW c \in Calls, NEW k \in Keys, GenerateReturns(c, k) PROVE Goal
  BY <1>1, <1>2, <1>7 DEF GenerateReturns, End, TypeOK
<1>8. ASSUME NEW c \in Calls, StoreKey(c) PROVE Goal
  <2>1. /\ step[c] = "key" /\ PRIVATE_KEY_WIF' = key[c]
        /\ step' = [step EXCEPT ![c] = "address"]
        /\ UNCHANGED <<op, key, raced>>
    BY <1>8 DEF StoreKey
  <2>2. SUFFICES ASSUME ~raced PROVE OneKey'
    BY <2>1 DEF OneKey
  <2>3. ASSUME NEW d \in Calls PROVE ~HasKey(d) /\ (StoresKey(d) => d = c)
    BY <1>1, <2>1, <2>2 DEF OneKey, TypeOK
  <2> QED BY <1>1, <2>1, <2>3 DEF OneKey, TypeOK
<1>9. ASSUME NEW c \in Calls, AddressReturns(c) PROVE Goal
  BY <1>1, <1>2, <1>6, <1>9 DEF AddressReturns, TypeOK, accountVars
<1>10. ASSUME NEW c \in Calls, GetUtxosReturns(c) PROVE Goal
  BY <1>1, <1>2, <1>6, <1>10 DEF GetUtxosReturns, TypeOK, accountVars
<1>11. ASSUME NEW c \in Calls, BuildReturns(c) PROVE Goal
  BY <1>1, <1>2, <1>11 DEF BuildReturns, TypeOK
<1>12. ASSUME NEW c \in Calls, SignReturns(c) PROVE Goal
  BY <1>1, <1>2, <1>12 DEF SignReturns, TypeOK, accountVars
<1>13. ASSUME NEW c \in Calls, BuildFails(c) \/ SendReturns(c) \/ AwaitFails(c) PROVE Goal
  BY <1>6, <1>13 DEF BuildFails, SendReturns, AwaitFails
<1>14. ASSUME NEW c \in Calls, Start(c) PROVE Goal
  BY <1>4, <1>5, <1>14 DEF Start
<1>15. ASSUME NEW c \in Calls, Continue(c) PROVE Goal
  BY <1>7, <1>8, <1>9, <1>10, <1>11, <1>12, <1>13, <1>15 DEF Continue
<1> QED BY <1>3, <1>14, <1>15 DEF Next

-----------------------------------------------------------------------------
\* The transaction that is built is one more, and the others stay.
LEMMA Appended ==
    ASSUME built \in Seq(Built), NEW b \in Built, built' = Append(built, b)
    PROVE  /\ built' \in Seq(Built)
           /\ Len(built) \in Nat /\ Len(built') = Len(built) + 1
           /\ DOMAIN built = 1..Len(built) /\ DOMAIN built' = 1..(Len(built) + 1)
           /\ \A i \in DOMAIN built : built'[i] = built[i]
           /\ built'[Len(built) + 1] = b
<1>1. Len(built) \in Nat /\ DOMAIN built = 1..Len(built)
  BY LenProperties
<1>2. /\ built' \in Seq(Built)
      /\ Len(built') = Len(built) + 1
      /\ \A i \in 1..Len(built) : built'[i] = built[i]
      /\ built'[Len(built) + 1] = b
  BY AppendProperties
<1>3. DOMAIN built' = 1..Len(built')
  BY <1>2, LenProperties
<1> QED BY <1>1, <1>2, <1>3

\* A transaction is built.
LEMMA BuildInvariant ==
    ASSUME IInv, NEW c \in Calls, BuildReturns(c)
    PROVE  IInv'
<1>n. PICK n \in Nat : n = Len(built) + 1
  BY LenProperties DEF IInv
<1>1. PICK b \in Built :
         /\ built' = Append(built, b)
         /\ ToSet(b.signed.inputs) \subseteq filtered[c]
         /\ spent_outpoints' = spent_outpoints \cup ToSet(b.signed.inputs)
         /\ b.signed.source = P2pkhAddress[key[c]]
         /\ b.signed.signer = PRIVATE_KEY_WIF
         /\ b.seen = seen[c]
  BY BuildStep
<1>2. /\ step[c] = "build"
      /\ step' = [step EXCEPT ![c] = "sign"]
      /\ filtered' = [filtered EXCEPT ![c] = {}]
      /\ seen' = [seen EXCEPT ![c] = 0]
      /\ UNCHANGED <<PRIVATE_KEY_WIF, private_key, op, amount, key, generated, raced>>
  BY DEF BuildReturns
<1>3. /\ built' \in Seq(Built)
      /\ Len(built) \in Nat /\ Len(built') = n
      /\ DOMAIN built = 1..Len(built) /\ DOMAIN built' = DOMAIN built \cup {n}
      /\ \A i \in DOMAIN built : i < n /\ built'[i] = built[i]
      /\ built'[n] = b
  BY <1>1, <1>n, Appended DEF IInv
<1>4. /\ \A i \in DOMAIN built : Inputs(i)' = Inputs(i)
      /\ Inputs(n)' = ToSet(b.signed.inputs)
  BY <1>3 DEF Inputs
<1>5. /\ step' \in [Calls -> Steps]
      /\ \A d \in Calls : d # c =>
            /\ step'[d] = step[d] /\ filtered'[d] = filtered[d]
            /\ seen'[d] = seen[d] /\ key'[d] = key[d]
      /\ step'[c] = "sign" /\ filtered'[c] = {} /\ seen'[c] = 0
  BY <1>2 DEF IInv, TypeOK, Steps
<1>6. TypeOK'
  <2>1. filtered[c] \subseteq OutPoints /\ spent_outpoints' \subseteq OutPoints
    BY <1>1 DEF IInv, TypeOK
  <2>2. seen' \in [Calls -> 0..Len(built')]
    <3>1. \A d \in Calls : seen'[d] \in 0..Len(built')
      BY <1>3, <1>5, <1>n DEF IInv, TypeOK
    <3> QED BY <1>2, <3>1 DEF IInv, TypeOK
  <2>3. filtered' \in [Calls -> SUBSET OutPoints]
    BY <1>2 DEF IInv, TypeOK
  <2>4. ASSUME NEW d \in Calls
        PROVE  /\ step'[d] # "build" => filtered'[d] = {}
               /\ key'[d] = NoKey <=> step'[d] \in {"idle", "random"}
               /\ step'[d] = "idle" <=> op'[d] = "none"
    BY <1>2, <1>5 DEF IInv, TypeOK
  <2> QED BY <1>2, <1>5, <2>1, <2>2, <2>3, <2>4 DEF IInv, TypeOK
<1>7. SetAside'
  BY <1>1, <1>3, <1>4 DEF IInv, SetAside
<1>8. OffersOwn'
  BY <1>5 DEF IInv, OffersOwn
<1>9. OffersUnseen'
  <2> SUFFICES ASSUME NEW d \in Calls, step'[d] = "build",
                      NEW i \in DOMAIN built', i <= seen'[d]
               PROVE  Inputs(i)' \cap filtered'[d] = {}
    BY DEF OffersUnseen
  <2>1. d # c /\ step[d] = "build" /\ seen'[d] = seen[d] /\ filtered'[d] = filtered[d]
    BY <1>5
  <2>2. i # n
    BY <1>n, <1>3, <2>1 DEF IInv, TypeOK
  <2> QED BY <1>3, <1>4, <2>1, <2>2 DEF IInv, OffersUnseen
<1>10. OneKey'
  BY OneKeyKept DEF Next, Continue
<1>11. DoubleSpendsOverlap'
  <2> SUFFICES ASSUME NEW i \in DOMAIN built', NEW j \in DOMAIN built', i < j,
                      Inputs(i)' \cap Inputs(j)' # {}
               PROVE  i > built'[j].seen
    BY DEF DoubleSpendsOverlap
  <2>1. i \in DOMAIN built
    BY <1>n, <1>3
  <2>2. CASE j \in DOMAIN built
    BY <1>3, <1>4, <2>1, <2>2 DEF IInv, DoubleSpendsOverlap
  <2>3. CASE j = n
    <3>1. Inputs(i) \cap filtered[c] # {}
      BY <1>1, <1>4, <2>1, <2>3
    <3>2. ~(i <= seen[c])
      BY <1>2, <2>1, <3>1 DEF IInv, OffersUnseen
    <3>3. seen[c] \in Nat /\ i \in Nat
      BY <1>3, <2>1 DEF IInv, TypeOK
    <3> QED BY <1>1, <1>3, <2>3, <3>2, <3>3
  <2> QED BY <1>3, <2>2, <2>3
<1>12. InputsUnlocked'
  <2> SUFFICES ASSUME ~raced, NEW i \in DOMAIN built', NEW o \in Inputs(i)'
               PROVE  Accepts(o, built'[i].signed)
    BY <1>2 DEF InputsUnlocked, Accepts
  <2>1. CASE i \in DOMAIN built
    BY <1>3, <1>4, <2>1 DEF IInv, InputsUnlocked
  <2>2. CASE i = n
    <3>1. Pays[o] = P2pkhAddress[key[c]]
      BY <1>1, <1>2, <1>4, <2>2 DEF IInv, OffersOwn, OutputsOf
    <3>2. key[c] = PRIVATE_KEY_WIF
      BY <1>2 DEF IInv, OneKey, HasKey
    <3> QED BY <1>1, <1>3, <2>2, <3>1, <3>2 DEF Accepts
  <2> QED BY <1>3, <2>1, <2>2
<1> QED BY <1>3, <1>6, <1>7, <1>8, <1>9, <1>10, <1>11, <1>12 DEF IInv

\* Every step.
LEMMA NextInvariant == IInv /\ [Next]_vars => IInv'
<1> SUFFICES ASSUME IInv, [Next]_vars PROVE IInv'
  OBVIOUS
<1>1. CASE \E c \in Calls : BuildReturns(c)
  BY <1>1, BuildInvariant
<1>2. CASE \A c \in Calls : ~BuildReturns(c)
  <2>1. /\ TypeOK' /\ OneKey' /\ (raced => raced')
        /\ built' = built /\ spent_outpoints' = spent_outpoints
        /\ \A c \in Calls : step'[c] = "build" => Offers(c)
    BY <1>2, OtherSteps, OneKeyKept
  <2>2. \A i : Inputs(i)' = Inputs(i)
    BY <2>1 DEF Inputs
  <2>3. SetAside'
    BY <2>1, <2>2 DEF IInv, SetAside
  <2>4. OffersOwn'
    BY <2>1 DEF IInv, OffersOwn, Offers
  <2>5. OffersUnseen'
    BY <2>1, <2>2 DEF IInv, OffersUnseen, Offers, SetAside
  <2>6. DoubleSpendsOverlap'
    BY <2>1, <2>2 DEF IInv, DoubleSpendsOverlap
  <2>7. InputsUnlocked'
    BY <2>1, <2>2 DEF IInv, InputsUnlocked, Accepts
  <2> QED BY <2>1, <2>3, <2>4, <2>5, <2>6, <2>7 DEF IInv
<1> QED BY <1>1, <1>2

-----------------------------------------------------------------------------
\* The invariant that the theorems below are read off.
THEOREM AccountInvariance == Spec => []IInv
BY InitInvariant, NextInvariant, PTL DEF Spec

\* Types, of which the canister's declarations say only half: a call holds UTXOs
\* only while its transaction is built, and works for a key that was generated.
THEOREM AccountTypes == Spec => []TypeOK
<1>1. IInv => TypeOK
  BY DEF IInv
<1> QED BY <1>1, AccountInvariance, PTL

\* send() spends an outpoint twice only if two of its calls were both between
\* filtering their UTXOs and setting their inputs aside.
THEOREM DoubleSpendsOnlyOverlapping == Spec => []DoubleSpendsOverlap
<1>1. IInv => DoubleSpendsOverlap
  BY DEF IInv
<1> QED BY <1>1, AccountInvariance, PTL

\* A transaction can be signed as long as one call alone generated the first key,
\* whatever happens between the messages of the call.
THEOREM InputsUnlockedUnlessRaced == Spec => []InputsUnlocked
<1>1. IInv => InputsUnlocked
  BY DEF IInv
<1> QED BY <1>1, AccountInvariance, PTL
=============================================================================
