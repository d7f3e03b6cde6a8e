-------------------------- MODULE RustWalletProofs --------------------------
(***************************************************************************)
(* No double spending, proved for any number of outputs and of concurrent  *)
(* calls, any amounts, fees, dust threshold and word size.  That no two    *)
(* transactions share an input does not say why the next one shares none   *)
(* either; with SpentAreIssued it does: what a transaction spends was not  *)
(* in SPENT_TXOS, and what all the earlier ones spend is.                  *)
(***************************************************************************)
EXTENDS RustWallet, DataLemmas

IInv == TypeOK /\ SpentAreIssued

-----------------------------------------------------------------------------
\* build_transaction

LEMMA HeldIsSum ==
    ASSUME NEW S \in SUBSET OutPoints
    PROVE  /\ Held(S) = SumOf(Value, S)
           /\ IsFiniteSet(S)
           /\ \A o \in S : Value[o] \in Nat
<1>1. IsFiniteSet(S)
  BY BuildingAssumption, FS_Subset
<1>2. WordSize \in Nat /\ Value \in [OutPoints -> Words]
  BY BuildingAssumption
<1> QED BY <1>1, <1>2 DEF Held, SumOf, Words

LEMMA WrappedType == \A n \in Int : Wrapped(n) \in Words
<1>1. WordSize \in Nat \ {0}
  BY BuildingAssumption
<1> QED BY <1>1 DEF Wrapped, Words

LEMMA WrappedWord == \A n \in Words : Wrapped(n) = n
<1>1. WordSize \in Nat \ {0}
  BY BuildingAssumption
<1> QED BY <1>1 DEF Wrapped, Words

\* The sums that the loop goes through.
TotalRun(h, utxos) ==
    /\ h \in [0..Len(utxos) -> Words]
    /\ h[0] = 0
    /\ \A k \in 1..Len(utxos) : h[k] = Wrapped(h[k - 1] + Value[utxos[k]])
    /\ h[Len(utxos)] = Total(utxos)

LEMMA TotalRuns ==
    ASSUME NEW utxos \in Seq(OutPoints)
    PROVE  \E h : TotalRun(h, utxos)
<1> DEFINE n == Len(utxos)
           g == [k \in 1..n |-> [v \in Words |-> Wrapped(v + Value[utxos[k]])]]
           Good(f) == f = [s \in SUBSET (1..n) |->
                              IF s = {} THEN 0 ELSE Wrapped(f[s \ {Max(s)}] + Value[utxos[Max(s)]])]
           c == CHOOSE f : Good(f)
<1>1. n \in Nat /\ DOMAIN utxos = 1..n /\ \A k \in 1..n : utxos[k] \in OutPoints
  BY LenProperties
<1>2. Total(utxos) = c[1..n]
  BY <1>1 DEF Total, FoldLeft, MapThenFoldSet
<1> HIDE DEF n
<1>3. StepsOf(g, n, Words) /\ 0 \in Words
  <2>1. \A v \in Words : \A o \in OutPoints : v + Value[o] \in Int
    BY BuildingAssumption DEF Words
  <2>2. \A v \in Words : \A k \in 1..n : Wrapped(v + Value[utxos[k]]) \in Words
    BY <1>1, <2>1, WrappedType
  <2>3. 0 \in Words
    BY BuildingAssumption DEF Words
  <2> HIDE DEF Words, Wrapped
  <2> QED BY <2>2, <2>3 DEF StepsOf
<1>4. Good(c)
  <2>1. PICK f : IsFoldLeft(f, n, Words, 0, g)
    <3> HIDE DEF g
    <3> QED BY <1>1, <1>3, FoldLeftExists
  <2>2. Good(f)
    BY <2>1 DEF IsFoldLeft
  <2> QED BY <2>2
<1> HIDE DEF c
<1>5. /\ c[{}] = 0
      /\ \A k \in 1..n : c[1..k] = Wrapped(c[1..(k - 1)] + Value[utxos[k]])
  <2>1. \A k \in 1..n : 1..k \in SUBSET (1..n) /\ k \in Nat \ {0}
    BY <1>1
  <2> QED BY <1>4, <2>1, IntervalSteps
<1>6. \E h : IsRun(h, n, Words, 0, g) /\ h[n] = c[1..n]
  <2>1. FoldsTo(c, n, Words, 0, g)
    BY <1>5 DEF FoldsTo
  <2> HIDE DEF g
  <2> QED BY <1>1, <1>3, <2>1, RunOfFold
<1>7. \A k \in 1..n : k - 1 \in 0..n
  BY <1>1
<1>8. PICK h : /\ h \in [0..n -> Words] /\ h[0] = 0 /\ h[n] = c[1..n]
               /\ \A k \in 1..n : h[k] = Wrapped(h[k - 1] + Value[utxos[k]])
  BY <1>6, <1>7 DEF IsRun
<1> QED BY <1>2, <1>8 DEF TotalRun, n

\* A sum of words is a word, whatever it is a sum of.
LEMMA TotalType ==
    ASSUME NEW utxos \in Seq(OutPoints)
    PROVE  Total(utxos) \in Words
<1>1. PICK h : TotalRun(h, utxos)
  BY TotalRuns
<1>2. Len(utxos) \in 0..Len(utxos)
  BY LenProperties
<1> QED BY <1>1, <1>2 DEF TotalRun

\* Without repetitions, it is what the outputs hold: the supply fits into a word.
LEMMA TotalIsHeld ==
    ASSUME NEW utxos \in Seq(OutPoints),
           \A i, j \in DOMAIN utxos : utxos[i] = utxos[j] => i = j
    PROVE  Total(utxos) = SumOf(Value, ToSet(utxos))
<1> DEFINE n == Len(utxos)
           first(k) == FirstOf(utxos, k)
<1>1. n \in Nat /\ DOMAIN utxos = 1..n /\ \A k \in 1..n : utxos[k] \in OutPoints
  BY LenProperties
<1>2. PICK h : TotalRun(h, utxos)
  BY TotalRuns
<1>3. /\ h[0] = 0 /\ h[n] = Total(utxos)
      /\ \A k \in 1..n : h[k] = Wrapped(h[k - 1] + Value[utxos[k]])
  BY <1>2 DEF TotalRun
<1> HIDE DEF n
<1>4. \A k \in 1..n : Value[utxos[k]] \in Int
  BY <1>1, BuildingAssumption DEF Words
<1>5. \A k \in 1..n : SumOf(Value, first(k)) = Value[utxos[k]] + SumOf(Value, first(k - 1))
  <2>1. \A i, j \in 1..n : utxos[i] = utxos[j] => i = j
    BY <1>1
  <2>2. ASSUME NEW k \in 1..n
        PROVE  SumOf(Value, first(k)) = Value[utxos[k]] + SumOf(Value, first(k - 1))
    <3>1. /\ k \in Nat \ {0}
          /\ \A i, j \in 1..k : utxos[i] = utxos[j] => i = j
          /\ \A i \in 1..k : Value[utxos[i]] \in Int
      <4>1. \A i \in 1..k : i \in 1..n
        BY <1>1
      <4> QED BY <1>1, <1>4, <2>1, <4>1
    <3> QED BY <3>1, SumAlong
  <2> QED BY <2>2
<1>6. \A k \in 0..n : SumOf(Value, first(k)) \in Words
  <2>1. ASSUME NEW k \in 0..n PROVE SumOf(Value, first(k)) \in Words
    <3>1. first(k) \in SUBSET OutPoints
      BY <1>1 DEF FirstOf
    <3> HIDE DEF first
    <3>2. /\ SumOf(Value, first(k)) \in Nat /\ SumOf(Value, OutPoints) \in Nat
          /\ SumOf(Value, first(k)) <= SumOf(Value, OutPoints)
      BY <3>1, HeldIsSum, SumGrows
    <3>3. SumOf(Value, OutPoints) < WordSize /\ WordSize \in Nat
      BY SupplyAssumption, HeldIsSum, BuildingAssumption
    <3> QED BY <3>2, <3>3 DEF Words
  <2> QED BY <2>1
<1>7. SumOf(Value, first(0)) = 0
  <2>1. first(0) = {} /\ {} \in SUBSET OutPoints
    BY DEF FirstOf
  <2>2. IsFiniteSet({}) /\ \A x \in {} : Value[x] \in Int
    BY FS_EmptySet
  <2>3. SumOf(Value, {}) = 0
    BY <2>2, SumStep
  <2> QED BY <2>1, <2>3
<1> DEFINE P == {k \in 0..n : h[k] = SumOf(Value, first(k))}
<1>8. 0 \in P
  BY <1>1, <1>3, <1>7
<1>9. ASSUME NEW k \in 1..n, k - 1 \in P PROVE k \in P
  <2>1. h[k - 1] = SumOf(Value, first(k - 1)) /\ k \in 0..n /\ k - 1 \in 0..n
    BY <1>1, <1>9
  <2>2. h[k] = Wrapped(h[k - 1] + Value[utxos[k]])
    BY <1>3
  <2> HIDE DEF first
  <2>3. h[k - 1] + Value[utxos[k]] = SumOf(Value, first(k))
    <3>1. SumOf(Value, first(k - 1)) \in Int
      BY <1>6, <2>1, BuildingAssumption DEF Words
    <3> QED BY <1>4, <1>5, <2>1, <3>1
  <2> QED BY <1>6, <2>1, <2>2, <2>3, WrappedWord
<1>10. \A k \in 0..n : k \in P
  <2> HIDE DEF P
  <2> QED BY <1>1, <1>8, <1>9, Induct
<1>11. n \in 0..n /\ first(n) = ToSet(utxos)
  BY <1>1 DEF ToSet, FirstOf
<1> HIDE DEF first
<1> QED BY <1>3, <1>10, <1>11

\* build_transaction spends outputs it was offered and no others, whatever the
\* amount, and however its arithmetic wraps around: the first so many of them.
LEMMA InputsOffered ==
    ASSUME NEW offered \in SUBSET OutPoints, NEW utxos \in SetToSeqs(offered),
           NEW satoshis, NEW fees
    PROVE  LET inputs == BuildTransaction(utxos, satoshis, fees).inputs IN
           /\ inputs \in Seq(OutPoints)
           /\ ToSet(inputs) \subseteq offered
           /\ \A j \in DOMAIN inputs : j \in DOMAIN utxos /\ inputs[j] = utxos[j]
<1> DEFINE chosen == {k \in DOMAIN utxos :
                        \A j \in 1..(k - 1) :
                           Total(SubSeq(utxos, 1, j)) < Wrapped(satoshis + fees)}
           inputs == SubSeq(utxos, 1, Cardinality(chosen))
<1>1. IsFiniteSet(offered) /\ chosen \in SUBSET DOMAIN utxos
  BY BuildingAssumption, FS_Subset
<1>2. BuildTransaction(utxos, satoshis, fees).inputs = inputs
  BY DEF BuildTransaction, Selected
<1> HIDE DEF chosen
<1>3. /\ inputs \in Seq(offered) /\ ToSet(inputs) \subseteq offered
      /\ \A j \in DOMAIN inputs : j \in DOMAIN utxos /\ inputs[j] = utxos[j]
  BY <1>1, FirstOfOrder
<1>4. Seq(offered) \subseteq Seq(OutPoints)
  BY SeqMonotonic
<1> HIDE DEF inputs
<1> QED BY <1>2, <1>3, <1>4

\* build_transaction builds a transaction.
LEMMA BuildType ==
    ASSUME NEW offered \in SUBSET OutPoints, NEW utxos \in SetToSeqs(offered),
           NEW satoshis \in Words, NEW fees \in Words
    PROVE  BuildTransaction(utxos, satoshis, fees) \in Transaction
<1> DEFINE inputs == Selected(utxos, satoshis, fees)
           remaining == Wrapped(Total(inputs) - satoshis - fees)
<1>1. inputs \in Seq(OutPoints)
  BY InputsOffered DEF BuildTransaction
<1>2. Total(inputs) \in Words /\ 0 \in Words /\ Words \subseteq Int
  BY <1>1, TotalType, BuildingAssumption DEF Words
<1>3. Total(inputs) - satoshis - fees \in Int
  <2>1. Total(inputs) \in Int /\ satoshis \in Int /\ fees \in Int
    BY <1>2
  <2> HIDE DEF inputs
  <2> QED BY <2>1
<1>4. remaining \in Words
  BY <1>3, WrappedType
<1>5. BuildTransaction(utxos, satoshis, fees) =
        [inputs |-> inputs, amount |-> satoshis,
         change |-> IF remaining >= DustThreshold THEN remaining ELSE 0]
  BY DEF BuildTransaction
<1> HIDE DEF inputs, remaining
<1> QED BY <1>1, <1>2, <1>4, <1>5 DEF Transaction

-----------------------------------------------------------------------------
\* What the message that builds a transaction does to the history and to the
\* outpoints set aside.
LEMMA BuildStep ==
    ASSUME IInv, NEW c \in Calls, BuildAndRecord(c)
    PROVE  \E tx \in Transaction :
              /\ issued' = Append(issued, tx)
              /\ ToSet(tx.inputs) \subseteq OutPoints \ spent
              /\ spent' = spent \cup ToSet(tx.inputs)
<1>1. PICK utxos \in SetToSeqs(Unspent(c)) :
         LET tx == BuildTransaction(utxos, amount[c], Fees) IN
         /\ spent' = Recorded(c, tx)
         /\ issued' = Append(issued, tx)
  BY DEF BuildAndRecord
<1>2. Unspent(c) \subseteq OutPoints /\ Unspent(c) \cap spent = {}
  BY DEF IInv, TypeOK, CallsTypeOK, Unspent
<1> DEFINE tx == BuildTransaction(utxos, amount[c], Fees)
<1>3. tx \in Transaction /\ ToSet(tx.inputs) \subseteq Unspent(c)
  <2>1. amount[c] \in Words /\ Fees \in Words
    BY WalletAssumption DEF IInv, TypeOK, CallsTypeOK
  <2> QED BY <1>1, <1>2, <2>1, InputsOffered, BuildType
<1>4. spent' = spent \cup ToSet(tx.inputs) /\ issued' = Append(issued, tx)
  BY <1>1 DEF Recorded
<1> HIDE DEF tx
<1> QED BY <1>2, <1>3, <1>4

\* The sequence that grows by a transaction.
LEMMA Grown ==
    ASSUME issued \in Seq(Transaction), NEW tx \in Transaction, issued' = Append(issued, tx)
    PROVE  /\ Len(issued) \in Nat /\ DOMAIN issued = 1..Len(issued)
           /\ DOMAIN issued' = 1..(Len(issued) + 1)
           /\ \A i \in DOMAIN issued : issued'[i] = issued[i]
           /\ issued'[Len(issued) + 1] = tx
           /\ issued' \in Seq(Transaction)
BY AppendProperties, LenProperties

\* The union of a set of sets and one more.
LEMMA UnionWithOne ==
    ASSUME NEW A, NEW x
    PROVE  UNION (A \cup {x}) = (UNION A) \cup x
<1>1. \A y : y \in UNION (A \cup {x}) <=> y \in (UNION A) \cup x
  OBVIOUS
<1> QED BY <1>1

\* The initial state.
LEMMA InitInvariant == Init => IInv
<1> SUFFICES ASSUME Init PROVE IInv
  OBVIOUS
<1>1. CallsTypeOK
  <2>1. 0 \in Words
    BY BuildingAssumption DEF Words
  <2> QED BY <2>1 DEF Init, CallsTypeOK, Steps
<1>2. issued = <<>> /\ DOMAIN issued = {}
  BY DEF Init
<1>3. TypeOK
  BY <1>1, <1>2 DEF TypeOK, Init
<1>4. SpentAreIssued
  BY <1>2 DEF Init, SpentAreIssued
<1> QED BY <1>3, <1>4 DEF IInv

\* Only the message that builds a transaction changes what was issued.
LEMMA OtherSteps ==
    ASSUME IInv, [Next]_vars, \A c \in Calls : ~BuildAndRecord(c)
    PROVE  TypeOK' /\ spent' = spent /\ issued' = issued
<1>1. 0 \in Words
  BY BuildingAssumption DEF Words
<1> USE DEF IInv, TypeOK, CallsTypeOK, Steps
<1>2. CASE UNCHANGED vars
  BY <1>2 DEF vars
<1>3. ASSUME NEW c \in Calls, NEW satoshis \in Amounts, Send(c, satoshis)
      PROVE  TypeOK' /\ spent' = spent /\ issued' = issued
  BY <1>3, WalletAssumption DEF Send
<1>4. ASSUME NEW c \in Calls, NEW utxos \in SUBSET OutPoints, GetUtxos(c, utxos)
      PROVE  TypeOK' /\ spent' = spent /\ issued' = issued
  BY <1>4 DEF GetUtxos
<1>5. ASSUME NEW c \in Calls, GetUtxosFails(c)
      PROVE  TypeOK' /\ spent' = spent /\ issued' = issued
  BY <1>1, <1>5 DEF GetUtxosFails, End
<1>6. ASSUME NEW c \in Calls, BuildFails(c)
      PROVE  TypeOK' /\ spent' = spent /\ issued' = issued
  BY <1>1, <1>6 DEF BuildFails, End
<1>7. ASSUME NEW c \in Calls, SendReturns(c)
      PROVE  TypeOK' /\ spent' = spent /\ issued' = issued
  BY <1>1, <1>7 DEF SendReturns, End
<1> QED BY <1>2, <1>3, <1>4, <1>5, <1>6, <1>7 DEF Next, Answer, Resume

\* The step that builds a transaction keeps the invariant.
LEMMA BuildInvariant ==
    ASSUME IInv, NEW c \in Calls, BuildAndRecord(c)
    PROVE  IInv'
<1>1. PICK tx \in Transaction :
         /\ issued' = Append(issued, tx)
         /\ ToSet(tx.inputs) \subseteq OutPoints \ spent
         /\ spent' = spent \cup ToSet(tx.inputs)
  BY BuildStep
<1>2. /\ Len(issued) \in Nat /\ DOMAIN issued = 1..Len(issued)
      /\ DOMAIN issued' = 1..(Len(issued) + 1)
      /\ \A i \in DOMAIN issued : issued'[i] = issued[i]
      /\ issued'[Len(issued) + 1] = tx
      /\ issued' \in Seq(Transaction)
  BY <1>1, Grown DEF IInv, TypeOK
<1>3. CallsTypeOK'
  BY <1>1 DEF IInv, TypeOK, CallsTypeOK, BuildAndRecord, Steps
<1>4. DOMAIN issued' = DOMAIN issued \cup {Len(issued) + 1}
  BY <1>2
<1>5. TypeOK'
  <2>1. \A d \in Calls : answer'[d] # {} => step'[d] = "resume"
    BY DEF IInv, TypeOK, CallsTypeOK, BuildAndRecord
  <2> QED BY <1>2, <1>3, <2>1 DEF TypeOK
<1>6. SpentAreIssued'
  <2>1. UNION {ToSet(issued'[i].inputs) : i \in DOMAIN issued'} =
          (UNION {ToSet(issued[i].inputs) : i \in DOMAIN issued}) \cup ToSet(tx.inputs)
    <3>1. \A i \in DOMAIN issued' :
             ToSet(issued'[i].inputs) =
               IF i \in DOMAIN issued THEN ToSet(issued[i].inputs) ELSE ToSet(tx.inputs)
      BY <1>2, <1>4
    <3>2. Len(issued) + 1 \notin DOMAIN issued
      BY <1>2
    <3> HIDE DEF ToSet
    <3>3. {ToSet(issued'[i].inputs) : i \in DOMAIN issued'} =
            {ToSet(issued[i].inputs) : i \in DOMAIN issued} \cup {ToSet(tx.inputs)}
      BY <1>4, <3>1, <3>2
    <3> QED BY <3>3, UnionWithOne
  <2> QED BY <1>1, <2>1 DEF IInv, SpentAreIssued
<1> QED BY <1>5, <1>6 DEF IInv

\* Every step of the wallet keeps the invariant.
LEMMA NextInvariant == IInv /\ [Next]_vars => IInv'
<1> SUFFICES ASSUME IInv, [Next]_vars PROVE IInv'
  OBVIOUS
<1>1. CASE \E c \in Calls : BuildAndRecord(c)
  BY <1>1, BuildInvariant
<1>2. CASE \A c \in Calls : ~BuildAndRecord(c)
  <2>1. TypeOK' /\ spent' = spent /\ issued' = issued
    BY <1>2, OtherSteps
  <2> QED BY <2>1 DEF IInv, SpentAreIssued
<1> QED BY <1>1, <1>2

\* The invariant holds in every reachable state, under any scheduling.
THEOREM WalletInvariance == Spec => []IInv
<1> QED BY InitInvariant, NextInvariant, PTL DEF Spec

\* Types: what the wallet issues are transactions of words, however its arithmetic
\* wraps around, and a call holds UTXOs only until the message that uses them.
THEOREM WalletTypes == Spec => []TypeOK
<1>1. IInv => TypeOK
  BY DEF IInv
<1> QED BY <1>1, WalletInvariance, PTL

\* SPENT_TXOS is exactly what the transactions built so far spend.
THEOREM SetAsideIsSpent == Spec => []SpentAreIssued
<1>1. IInv => SpentAreIssued
  BY DEF IInv
<1> QED BY <1>1, WalletInvariance, PTL

\* Every step issues a transaction that shares no input with an earlier one, or
\* none at all.
LEMMA StepRefines ==
    IInv /\ [Next]_vars => [Wallet!Next]_[i \in DOMAIN issued |-> ToSet(issued[i].inputs)]
<1> DEFINE txs == [i \in DOMAIN issued |-> ToSet(issued[i].inputs)]
<1> SUFFICES ASSUME IInv, [Next]_vars PROVE Wallet!Next \/ txs' = txs
  BY DEF Wallet!Next
<1>1. CASE \A c \in Calls : ~BuildAndRecord(c)
  <2>1. issued' = issued
    BY <1>1, OtherSteps
  <2> QED BY <2>1
<1>2. ASSUME NEW c \in Calls, BuildAndRecord(c)
      PROVE  Wallet!Next
  <2>1. PICK tx \in Transaction :
           /\ issued' = Append(issued, tx)
           /\ ToSet(tx.inputs) \subseteq OutPoints \ spent
    BY <1>2, BuildStep
  <2>2. /\ Len(issued) \in Nat /\ DOMAIN issued = 1..Len(issued)
        /\ DOMAIN issued' = 1..(Len(issued) + 1)
        /\ \A i \in DOMAIN issued : issued'[i] = issued[i]
        /\ issued'[Len(issued) + 1] = tx
    BY <2>1, Grown DEF IInv, TypeOK
  <2>3. \A i \in DOMAIN txs : txs[i] \cap ToSet(tx.inputs) = {}
    <3>1. \A i \in DOMAIN issued : ToSet(issued[i].inputs) \subseteq spent
      BY DEF IInv, SpentAreIssued
    <3> QED BY <2>1, <3>1
  <2>4. txs' = Append(txs, ToSet(tx.inputs))
    <3>1. txs' = [i \in 1..(Len(issued) + 1) |-> ToSet(issued'[i].inputs)]
      BY <2>2
    <3>2. txs = [i \in 1..Len(issued) |-> ToSet(issued[i].inputs)]
      BY <2>2
    <3>3. Len(txs) = Len(issued)
      BY <2>2, <3>2
    <3>4. \A i \in 1..(Len(issued) + 1) :
             ToSet(issued'[i].inputs) =
               IF i <= Len(issued) THEN txs[i] ELSE ToSet(tx.inputs)
      BY <2>2, <3>2
    <3> QED BY <2>2, <3>1, <3>2, <3>3, <3>4
  <2>5. Wallet!Issue(ToSet(tx.inputs))
    BY <2>3, <2>4 DEF Wallet!Issue
  <2> QED BY <2>1, <2>5 DEF Wallet!Next
<1> QED BY <1>1, <1>2

\* The wallet never issues two transactions that spend the same outpoint.
THEOREM NoDoubleSpend == Spec => SpendsOnce
<1>1. Init => Wallet!Init
  BY DEF Init, Wallet!Init
<1> QED BY <1>1, WalletInvariance, StepRefines, PTL DEF SpendsOnce, Wallet!Spec, Spec

-----------------------------------------------------------------------------
\* The sum of the first so many outputs of an order of a set.
LEMMA PrefixTotal ==
    ASSUME NEW offered \in SUBSET OutPoints, NEW utxos \in SetToSeqs(offered),
           NEW j \in 0..Len(utxos)
    PROVE  /\ utxos \in Seq(OutPoints) /\ Len(utxos) \in Nat
           /\ Total(SubSeq(utxos, 1, j)) = SumOf(Value, FirstOf(utxos, j))
           /\ ToSet(SubSeq(utxos, 1, j)) = FirstOf(utxos, j)
           /\ FirstOf(utxos, j) \in SUBSET offered
           /\ j = Len(utxos) => FirstOf(utxos, j) = offered
<1> DEFINE s == SubSeq(utxos, 1, j)
           n == Len(utxos)
<1>1. IsFiniteSet(offered) /\ Cardinality(offered) \in Nat
  BY BuildingAssumption, FS_Subset, FS_CardinalityType
<1>2. /\ utxos \in [1..Cardinality(offered) -> offered]
      /\ \A x \in offered : \E i \in 1..Cardinality(offered) : utxos[i] = x
      /\ \A i, k \in 1..Cardinality(offered) : utxos[i] = utxos[k] => i = k
  <2> DEFINE c == Cardinality(offered)
             D == 1..c
  <2>1. /\ utxos \in [D -> offered]
        /\ \A i, k \in D : utxos[i] = utxos[k] => i = k
    BY DEF SetToSeqs
  <2>2. IsFiniteSet(D) /\ Cardinality(D) = c
    <3>1. c \in Nat
      BY <1>1
    <3> HIDE DEF c
    <3>2. IsFiniteSet(D) /\ Cardinality(D) = IF 1 > c THEN 0 ELSE c - 1 + 1
      BY <3>1, FS_Interval
    <3> QED BY <3>1, <3>2
  <2>3. utxos \in Injection(D, offered)
    BY <2>1 DEF Injection, IsInjective
  <2>4. utxos \in Surjection(D, offered)
    BY <1>1, <2>2, <2>3, FS_Injection
  <2> QED BY <2>1, <2>4 DEF Surjection
<1>3. /\ utxos \in Seq(offered) /\ n = Cardinality(offered) /\ n \in Nat
  BY <1>1, <1>2, SeqDef, LenProperties
<1>4. utxos \in Seq(OutPoints)
  BY <1>3, SeqMonotonic
<1> HIDE DEF n
<1>5. j \in 0..n /\ \A i \in 1..j : i \in 1..n /\ utxos[i] \in offered
  BY <1>2, <1>3 DEF n
<1>6. /\ s \in Seq(OutPoints) /\ Len(s) = j /\ DOMAIN s = 1..j
      /\ \A i \in 1..j : s[i] = utxos[i]
  BY <1>3, <1>4, <1>5 DEF n
<1> HIDE DEF s
<1>7. ToSet(s) = FirstOf(utxos, j)
  BY <1>6 DEF ToSet, FirstOf
<1>8. \A i, k \in DOMAIN s : s[i] = s[k] => i = k
  BY <1>2, <1>3, <1>5, <1>6
<1>9. Total(s) = SumOf(Value, FirstOf(utxos, j))
  BY <1>6, <1>7, <1>8, TotalIsHeld
<1>10. FirstOf(utxos, j) \in SUBSET offered
  BY <1>5 DEF FirstOf
<1>11. j = n => FirstOf(utxos, j) = offered
  BY <1>2, <1>3, <1>10 DEF FirstOf
<1> QED BY <1>3, <1>4, <1>7, <1>9, <1>10, <1>11 DEF s, n

\* Covered amounts and fees are selected, and nothing wraps around.
LEMMA CoveredIsSelected ==
    ASSUME NEW offered \in SUBSET OutPoints, NEW utxos \in SetToSeqs(offered),
           NEW satoshis \in Words, Held(offered) >= satoshis + Fees
    PROVE  LET inputs == Selected(utxos, satoshis, Fees) IN
           /\ ToSet(inputs) \in SUBSET OutPoints
           /\ Total(inputs) = Held(ToSet(inputs))
           /\ Total(inputs) \in Words
           /\ Total(inputs) >= satoshis + Fees
<1> DEFINE need == satoshis + Fees
           n == Len(utxos)
           S(j) == SumOf(Value, FirstOf(utxos, j))
           wanted == {k \in DOMAIN utxos :
                        \A j \in 1..(k - 1) : Total(SubSeq(utxos, 1, j)) < Wrapped(need)}
           m == Cardinality(wanted)
           inputs == SubSeq(utxos, 1, m)
<1>1. utxos \in Seq(OutPoints) /\ n \in Nat /\ DOMAIN utxos = 1..n
  <2>1. 0 \in 0..Cardinality(offered)
    BY BuildingAssumption, FS_Subset, FS_CardinalityType
  <2>2. IsFiniteSet(offered) /\ {} \in SUBSET DOMAIN utxos
    BY BuildingAssumption, FS_Subset
  <2>3. utxos \in Seq(offered)
    BY <2>2, FirstOfOrder
  <2> QED BY <2>3, SeqMonotonic, LenProperties
<1>2. \A j \in 0..n : /\ Total(SubSeq(utxos, 1, j)) = S(j)
                      /\ ToSet(SubSeq(utxos, 1, j)) = FirstOf(utxos, j)
                      /\ FirstOf(utxos, j) \in SUBSET offered
                      /\ j = n => FirstOf(utxos, j) = offered
  BY PrefixTotal
<1> HIDE DEF n
<1>3. /\ need \in Nat /\ need <= Held(offered) /\ satoshis \in Nat /\ Fees \in Nat
  <2>1. satoshis \in Nat /\ Fees \in Nat
    BY WalletAssumption, BuildingAssumption DEF Words
  <2> QED BY <2>1, HeldIsSum, SumGrows
<1> HIDE DEF need
<1>4. \A T \in SUBSET OutPoints : SumOf(Value, T) \in Words
  <2>1. ASSUME NEW T \in SUBSET OutPoints PROVE SumOf(Value, T) \in Words
    <3>1. /\ SumOf(Value, T) \in Nat /\ SumOf(Value, OutPoints) \in Nat
          /\ SumOf(Value, T) <= SumOf(Value, OutPoints)
      BY HeldIsSum, SumGrows
    <3>2. SumOf(Value, OutPoints) < WordSize /\ WordSize \in Nat
      BY SupplyAssumption, HeldIsSum, BuildingAssumption
    <3> QED BY <3>1, <3>2 DEF Words
  <2> QED BY <2>1
<1>5. Wrapped(need) = need
  <2>1. Held(offered) = SumOf(Value, offered) /\ Held(offered) \in Words
    BY <1>4, HeldIsSum
  <2>2. need \in Words
    BY <1>3, <2>1, BuildingAssumption DEF Words
  <2> QED BY <2>2, WrappedWord
<1>6. \A i, j \in 0..n : i <= j => S(i) <= S(j)
  <2>1. ASSUME NEW i \in 0..n, NEW j \in 0..n, i <= j PROVE S(i) <= S(j)
    <3>1. FirstOf(utxos, i) \in SUBSET FirstOf(utxos, j)
      BY <1>1, <2>1 DEF FirstOf
    <3>2. FirstOf(utxos, j) \in SUBSET OutPoints
      BY <1>2
    <3>3. /\ IsFiniteSet(FirstOf(utxos, j))
          /\ \A x \in FirstOf(utxos, j) : Value[x] \in Nat
      BY <3>2, HeldIsSum
    <3> QED BY <3>1, <3>3, SumGrows
  <2> QED BY <2>1
<1>7. \A j \in 0..n : S(j) \in Nat
  <2>1. \A j \in 0..n : FirstOf(utxos, j) \in SUBSET OutPoints
    BY <1>2
  <2>2. Words \subseteq Nat
    BY BuildingAssumption DEF Words
  <2> QED BY <1>4, <2>1, <2>2
<1>8. S(n) >= need
  <2>1. n \in 0..n
    BY <1>1
  <2>2. S(n) = Held(offered)
    BY <1>2, <2>1, HeldIsSum
  <2>3. Held(offered) \in Nat
    BY <1>7, <2>1, <2>2
  <2> QED BY <1>3, <2>2, <2>3
<1> HIDE DEF S
<1>9. wanted = {k \in 1..n : \A j \in 1..(k - 1) : S(j) < need}
  <2>1. \A k \in 1..n : \A j \in 1..(k - 1) : j \in 0..n
    BY <1>1
  <2>2. \A k \in 1..n : \A j \in 1..(k - 1) :
           Total(SubSeq(utxos, 1, j)) < Wrapped(need) <=> S(j) < need
    BY <1>2, <1>5, <2>1
  <2> QED BY <1>1, <2>2
<1>10. m \in 0..n /\ wanted = 1..m
  <2>1. wanted \in SUBSET (1..n)
    BY <1>9
  <2>2. \A k \in wanted : \A i \in 1..k : i \in wanted
    <3>1. ASSUME NEW k \in wanted, NEW i \in 1..k PROVE i \in wanted
      <4>1. k \in 1..n /\ i \in 1..n /\ \A j \in 1..(i - 1) : j \in 1..(k - 1)
        BY <1>1, <1>9
      <4> QED BY <1>9, <4>1
    <3> QED BY <3>1
  <2> HIDE DEF wanted
  <2> QED BY <1>1, <2>1, <2>2, FirstPlaces
<1>11. Selected(utxos, satoshis, Fees) = inputs
  BY DEF Selected, need
<1> HIDE DEF wanted, m
<1>12. S(m) >= need
  <2>1. CASE m = n
    BY <1>8, <2>1
  <2>2. CASE m # n
    <3>1. m + 1 \in 1..n /\ m + 1 \notin wanted /\ m + 1 - 1 = m
      BY <1>1, <1>10, <2>2
    <3>2. PICK j \in 1..m : ~(S(j) < need)
      <4>1. PICK k : k = m + 1 /\ k \in 1..n /\ k \notin wanted
        BY <3>1
      <4>2. PICK j \in 1..(k - 1) : ~(S(j) < need)
        BY <1>9, <4>1
      <4>3. j \in 1..m
        BY <1>10, <4>1, <4>2
      <4> QED BY <4>2, <4>3
    <3>3. j \in 0..n /\ m \in 0..n /\ j <= m
      BY <1>1, <1>10
    <3>4. S(j) <= S(m) /\ S(j) \in Nat /\ S(m) \in Nat
      BY <1>6, <1>7, <3>3
    <3> QED BY <1>3, <3>2, <3>4
  <2> QED BY <2>1, <2>2
<1>13. /\ Total(inputs) = S(m) /\ ToSet(inputs) = FirstOf(utxos, m)
       /\ FirstOf(utxos, m) \in SUBSET OutPoints
  BY <1>2, <1>10
<1>14. S(m) = Held(ToSet(inputs)) /\ S(m) \in Words
  BY <1>4, <1>13, HeldIsSum DEF S
<1> HIDE DEF inputs
<1> QED BY <1>11, <1>12, <1>13, <1>14 DEF need

\* A transaction that the outputs cover pays the fees, and less than dust more.
LEMMA CoveredFees ==
    ASSUME NEW offered \in SUBSET OutPoints, NEW utxos \in SetToSeqs(offered),
           NEW satoshis \in Words, Held(offered) >= satoshis + Fees
    PROVE  FeeOf(BuildTransaction(utxos, satoshis, Fees)) \in Fees..(Fees + DustThreshold - 1)
<1> DEFINE inputs == Selected(utxos, satoshis, Fees)
           tx == BuildTransaction(utxos, satoshis, Fees)
           total == Total(inputs)
           remaining == Wrapped(total - satoshis - Fees)
<1>1. /\ total = Held(ToSet(inputs)) /\ total \in Words /\ total >= satoshis + Fees
  BY CoveredIsSelected
<1>2. /\ tx.inputs = inputs /\ tx.amount = satoshis
      /\ tx.change = IF remaining >= DustThreshold THEN remaining ELSE 0
  BY DEF BuildTransaction
<1>3. FeeOf(tx) = total - satoshis - tx.change
  BY <1>1, <1>2 DEF FeeOf
<1> HIDE DEF inputs, tx, total
<1>4. /\ total \in 0..(WordSize - 1) /\ satoshis \in 0..(WordSize - 1) /\ Fees \in 0..(WordSize - 1)
      /\ WordSize \in Nat \ {0} /\ DustThreshold \in Nat \ {0}
  BY <1>1, WalletAssumption, BuildingAssumption DEF Words
<1>5. total - satoshis - Fees \in Words
  BY <1>1, <1>4 DEF Words
<1>6. remaining = total - satoshis - Fees
  BY <1>5, WrappedWord
<1> HIDE DEF remaining
<1>7. FeeOf(tx) \in Fees..(Fees + DustThreshold - 1)
  BY <1>1, <1>2, <1>3, <1>4, <1>6
<1> QED BY <1>7 DEF tx

\* If the outputs a call may use cover amount and fees, its transaction pays the
\* fees and less than the dust threshold on top of them: for any order of the
\* outputs, any fees and threshold, and any word size that the supply fits into.
THEOREM CoveredFeesPaid == Spec => FeesPaidIfCovered
<1> DEFINE Paid(c) ==
             /\ step[c] = "resume" /\ step'[c] = "await_send"
             /\ Held(Unspent(c)) >= amount[c] + Fees
             => FeeOf(Last(issued')) \in Fees..(Fees + DustThreshold - 1)
<1>1. IInv /\ [Next]_vars => [\A c \in Calls : Paid(c)]_vars
  <2> SUFFICES ASSUME IInv, Next, NEW c \in Calls, step[c] = "resume",
                      step'[c] = "await_send", Held(Unspent(c)) >= amount[c] + Fees
               PROVE  FeeOf(Last(issued')) \in Fees..(Fees + DustThreshold - 1)
    OBVIOUS
  <2>1. BuildAndRecord(c)
    BY DEF Next, Send, Answer, GetUtxos, GetUtxosFails, Resume, BuildAndRecord, BuildFails,
           SendReturns, End, IInv, TypeOK, CallsTypeOK
  <2>2. PICK utxos \in SetToSeqs(Unspent(c)) :
           issued' = Append(issued, BuildTransaction(utxos, amount[c], Fees))
    BY <2>1 DEF BuildAndRecord
  <2> DEFINE tx == BuildTransaction(utxos, amount[c], Fees)
  <2>3. Unspent(c) \in SUBSET OutPoints /\ amount[c] \in Words /\ Fees \in Words
    BY WalletAssumption DEF IInv, TypeOK, CallsTypeOK, Unspent
  <2>4. tx \in Transaction /\ FeeOf(tx) \in Fees..(Fees + DustThreshold - 1)
    BY <2>3, BuildType, CoveredFees
  <2> HIDE DEF tx
  <2>5. Last(issued') = tx
    <3>1. issued' = Append(issued, tx) /\ issued \in Seq(Transaction)
      BY <2>2 DEF tx, IInv, TypeOK
    <3> QED BY <2>4, <3>1, AppendProperties DEF Last
  <2> QED BY <2>4, <2>5
<1> QED BY <1>1, WalletInvariance, PTL DEF Spec, FeesPaidIfCovered
=============================================================================
