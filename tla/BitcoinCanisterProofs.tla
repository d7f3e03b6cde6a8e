----------------------- MODULE BitcoinCanisterProofs -----------------------
(***************************************************************************)
(* The queue of outgoing transactions, proved for every set of             *)
(* transactions and blocks and any number of deaths of the shim: nothing   *)
(* is duplicated or overtaken between send_transaction() and the adapter.  *)
(*                                                                         *)
(* Order is stated without positions: x precedes y if y was accepted       *)
(* later.  Two facts about the shim carry the invariant.  It holds a       *)
(* transaction exactly while it is about to send it, and at most one call  *)
(* is awaited, the one that the shim's step says: so an awaited call never *)
(* overwrites a transaction in hand, and an abandoned one never reaches it.*)
(*                                                                         *)
(* The chain state inside the canister keeps what BitcoinStateProofs shows *)
(* of it alone: a response inserts its blocks one after the other.         *)
(***************************************************************************)
EXTENDS BitcoinCanister, BitcoinStateProofs

\* x stands before y in s.
Precedes(s, x, y) == \E i, j \in DOMAIN s : i < j /\ s[i] = x /\ s[j] = y

\* The elements of s stand in acc in the order they have in s.
InOrder(acc, s) == \A i, j \in DOMAIN s : i < j => Precedes(acc, s[i], s[j])

\* Every element of S stands in acc before every element of T.
AllBefore(acc, S, T) == \A x \in S, y \in T : Precedes(acc, x, y)

Held == {hand} \ {NoTransaction}

Ordered ==
    /\ InOrder(accepted, forwarded)
    /\ InOrder(accepted, outgoing)
    /\ AllBefore(accepted, ToSet(forwarded), Held)
    /\ AllBefore(accepted, ToSet(forwarded), ToSet(outgoing))
    /\ AllBefore(accepted, Held, ToSet(outgoing))

Accounted ==
    /\ ToSet(accepted) = ToSet(outgoing) \cup ToSet(forwarded) \cup Held \cup lost
    /\ lost \cap (ToSet(outgoing) \cup ToSet(forwarded) \cup Held) = {}

Awaited ==
    /\ hand # NoTransaction <=> shim = "send"
    /\ \A i \in DOMAIN calls :
          calls[i].live => shim = IF calls[i].method = "get_outgoing_transaction"
                                  THEN "await_tx" ELSE "await_response"
    /\ \A i, j \in DOMAIN calls : calls[i].live /\ calls[j].live => i = j

QueueInv == QueueTypeOK /\ Distinct(accepted) /\ Ordered /\ Accounted /\ Awaited

-----------------------------------------------------------------------------
\* Sequences: what Append, Tail, RemoveAt and one more element do.

LEMMA Appended ==
    ASSUME NEW S, NEW s \in Seq(S), NEW x \in S
    PROVE  /\ Append(s, x) \in Seq(S)
           /\ DOMAIN s = 1..Len(s) /\ Len(s) \in Nat
           /\ DOMAIN Append(s, x) = 1..(Len(s) + 1)
           /\ \A i \in 1..Len(s) : Append(s, x)[i] = s[i]
           /\ Append(s, x)[Len(s) + 1] = x
           /\ ToSet(Append(s, x)) = ToSet(s) \cup {x}
<1>1. /\ Append(s, x) \in Seq(S) /\ DOMAIN s = 1..Len(s) /\ Len(s) \in Nat
      /\ DOMAIN Append(s, x) = 1..(Len(s) + 1)
      /\ \A i \in 1..Len(s) : Append(s, x)[i] = s[i]
      /\ Append(s, x)[Len(s) + 1] = x
  OBVIOUS
<1>2. ToSet(Append(s, x)) = ToSet(s) \cup {x}
  <2>1. \A y \in ToSet(Append(s, x)) : y \in ToSet(s) \cup {x}
    <3> TAKE y \in ToSet(Append(s, x))
    <3>1. PICK i \in 1..(Len(s) + 1) : y = Append(s, x)[i]
      BY <1>1 DEF ToSet
    <3>2. CASE i = Len(s) + 1
      BY <1>1, <3>1, <3>2
    <3>3. CASE i \in 1..Len(s)
      BY <1>1, <3>1, <3>3 DEF ToSet
    <3> QED BY <1>1, <3>1, <3>2, <3>3
  <2>2. \A y \in ToSet(s) : y \in ToSet(Append(s, x))
    <3> TAKE y \in ToSet(s)
    <3>1. PICK i \in 1..Len(s) : y = s[i]
      BY <1>1 DEF ToSet
    <3>2. i \in 1..(Len(s) + 1) /\ Append(s, x)[i] = y
      BY <1>1, <3>1
    <3> QED BY <1>1, <3>2 DEF ToSet
  <2>3. x \in ToSet(Append(s, x))
    BY <1>1 DEF ToSet
  <2> QED BY <2>1, <2>2, <2>3
<1> QED BY <1>1, <1>2

LEMMA HeadAndTail ==
    ASSUME NEW S, NEW s \in Seq(S), s # <<>>
    PROVE  /\ Tail(s) \in Seq(S) /\ Head(s) \in S
           /\ DOMAIN s = 1..Len(s) /\ Len(s) \in Nat \ {0}
           /\ DOMAIN Tail(s) = 1..(Len(s) - 1)
           /\ \A i \in 1..(Len(s) - 1) : Tail(s)[i] = s[i + 1]
           /\ Head(s) = s[1]
           /\ ToSet(s) = {Head(s)} \cup ToSet(Tail(s))
<1>1. /\ Tail(s) \in Seq(S) /\ Head(s) \in S
      /\ DOMAIN s = 1..Len(s) /\ Len(s) \in Nat \ {0}
      /\ DOMAIN Tail(s) = 1..(Len(s) - 1)
      /\ \A i \in 1..(Len(s) - 1) : Tail(s)[i] = s[i + 1]
      /\ Head(s) = s[1]
  BY HeadTailProperties, LenProperties, EmptySeq
<1>2. \A y \in ToSet(s) : y \in {Head(s)} \cup ToSet(Tail(s))
  <2> TAKE y \in ToSet(s)
  <2>1. PICK i \in 1..Len(s) : y = s[i]
    BY <1>1 DEF ToSet
  <2>2. CASE i = 1
    BY <1>1, <2>1, <2>2
  <2>3. CASE i # 1
    <3>1. i - 1 \in 1..(Len(s) - 1) /\ Tail(s)[i - 1] = s[i]
      BY <1>1, <2>3
    <3> QED BY <1>1, <2>1, <3>1 DEF ToSet
  <2> QED BY <2>2, <2>3
<1>3. \A y \in ToSet(Tail(s)) : y \in ToSet(s)
  <2> TAKE y \in ToSet(Tail(s))
  <2>1. PICK i \in 1..(Len(s) - 1) : y = Tail(s)[i]
    BY <1>1 DEF ToSet
  <2>2. i + 1 \in 1..Len(s) /\ y = s[i + 1]
    BY <1>1, <2>1
  <2> QED BY <1>1, <2>2 DEF ToSet
<1>4. Head(s) \in ToSet(s)
  BY <1>1 DEF ToSet
<1> QED BY <1>1, <1>2, <1>3, <1>4

\* The place in s of what RemoveAt(s, k) has at place i.
From(k, i) == IF i < k THEN i ELSE i + 1

LEMMA Removed ==
    ASSUME NEW S, NEW s \in Seq(S), NEW k \in DOMAIN s
    PROVE  /\ RemoveAt(s, k) \in Seq(S)
           /\ \A i \in DOMAIN RemoveAt(s, k) :
                 /\ i \in Nat
                 /\ From(k, i) \in DOMAIN s \ {k}
                 /\ RemoveAt(s, k)[i] = s[From(k, i)]
<1> DEFINE a == SubSeq(s, 1, k - 1)
           b == SubSeq(s, k + 1, Len(s))
<1>1. Len(s) \in Nat /\ DOMAIN s = 1..Len(s) /\ k \in 1..Len(s) /\ s \in [1..Len(s) -> S]
  BY LenProperties
<1>2. a \in Seq(S) /\ Len(a) = k - 1 /\ \A i \in 1..(k - 1) : a[i] = s[i]
  <2>1. \A i \in 1..(k - 1) : s[i] \in S
    BY <1>1
  <2> HIDE DEF a
  <2> QED BY <1>1, <2>1, SubSeqProperties DEF a
<1>3. b \in Seq(S) /\ Len(b) = Len(s) - k /\ \A i \in 1..(Len(s) - k) : b[i] = s[k + i]
  <2>1. \A i \in (k + 1)..Len(s) : s[i] \in S
    BY <1>1
  <2>2. /\ b \in Seq(S)
        /\ Len(b) = IF k + 1 <= Len(s) THEN Len(s) - (k + 1) + 1 ELSE 0
        /\ \A i \in 1..(Len(s) - (k + 1) + 1) : b[i] = s[(k + 1) + i - 1]
    BY <1>1, <2>1, SubSeqProperties
  <2> HIDE DEF b
  <2>3. Len(b) = Len(s) - k
    BY <1>1, <2>2
  <2>4. ASSUME NEW i \in 1..(Len(s) - k)
        PROVE  b[i] = s[k + i]
    <3>1. i \in 1..(Len(s) - (k + 1) + 1) /\ (k + 1) + i - 1 = k + i
      BY <1>1
    <3>2. b[i] = s[(k + 1) + i - 1]
      BY <2>2, <3>1
    <3> QED BY <3>1, <3>2
  <2> QED BY <2>2, <2>3, <2>4
<1> HIDE DEF a, b
<1>4. /\ a \o b \in Seq(S)
      /\ Len(a \o b) = Len(a) + Len(b)
      /\ \A i \in 1..(Len(a) + Len(b)) : (a \o b)[i] = IF i <= Len(a) THEN a[i] ELSE b[i - Len(a)]
      /\ DOMAIN (a \o b) = 1..Len(a \o b)
  BY <1>2, <1>3, ConcatProperties, LenProperties
<1>5. RemoveAt(s, k) = a \o b
  BY DEF RemoveAt, a, b
<1>6. ASSUME NEW i \in DOMAIN (a \o b)
      PROVE  /\ i \in Nat
             /\ From(k, i) \in DOMAIN s \ {k}
             /\ (a \o b)[i] = s[From(k, i)]
  <2>1. i \in 1..(Len(s) - 1)
    BY <1>1, <1>2, <1>3, <1>4
  <2>2. CASE i < k
    BY <1>1, <1>2, <1>3, <1>4, <2>1, <2>2 DEF From
  <2>3. CASE i >= k
    <3>1. (a \o b)[i] = b[i - (k - 1)] /\ i - (k - 1) \in 1..(Len(s) - k)
      BY SMTT(30), <1>1, <1>2, <1>3, <1>4, <2>1, <2>3
    <3>2. b[i - (k - 1)] = s[k + (i - (k - 1))] /\ k + (i - (k - 1)) = i + 1
      BY <1>1, <1>3, <3>1
    <3> QED BY SMTT(30), <1>1, <2>1, <2>3, <3>1, <3>2 DEF From
  <2> QED BY <1>1, <2>1, <2>2, <2>3
<1> QED BY <1>4, <1>5, <1>6

LEMMA FromApart ==
    ASSUME NEW k \in Nat, NEW i \in Nat, NEW j \in Nat, From(k, i) = From(k, j)
    PROVE  i = j
BY DEF From

-----------------------------------------------------------------------------
\* What the order of acceptance keeps when one more transaction is accepted.

LEMMA OneMoreAccepted ==
    ASSUME NEW S, NEW acc \in Seq(S), Distinct(acc), NEW tx \in S, tx \notin ToSet(acc)
    PROVE  /\ Distinct(Append(acc, tx))
           /\ \A x, y : Precedes(acc, x, y) => Precedes(Append(acc, tx), x, y)
           /\ \A x \in ToSet(acc) : Precedes(Append(acc, tx), x, tx)
<1> DEFINE new == Append(acc, tx)
           n == Len(acc)
<1>1. /\ DOMAIN acc = 1..n /\ n \in Nat
      /\ DOMAIN new = 1..(n + 1)
      /\ \A i \in 1..n : new[i] = acc[i]
      /\ new[n + 1] = tx
  BY Appended
<1> HIDE DEF new, n
<1>2. \A i \in 1..n : new[i] # tx
  BY <1>1 DEF ToSet
<1>3. Distinct(new)
  <2>1. \A i, j \in 1..(n + 1) : new[i] = new[j] => i = j
    <3> TAKE i, j \in 1..(n + 1)
    <3>1. CASE i \in 1..n /\ j \in 1..n
      BY <1>1, <3>1 DEF Distinct
    <3>2. CASE i = n + 1 \/ j = n + 1
      BY <1>1, <1>2, <3>2
    <3> QED BY <1>1, <3>1, <3>2
  <2> QED BY <1>1, <2>1 DEF Distinct
<1>4. ASSUME NEW x, NEW y, Precedes(acc, x, y)
      PROVE  Precedes(new, x, y)
  <2>1. PICK i, j \in 1..n : i < j /\ acc[i] = x /\ acc[j] = y
    BY <1>1, <1>4 DEF Precedes
  <2>2. i \in DOMAIN new /\ j \in DOMAIN new /\ new[i] = x /\ new[j] = y
    BY <1>1, <2>1
  <2> QED BY <2>1, <2>2 DEF Precedes
<1>5. ASSUME NEW x \in ToSet(acc)
      PROVE  Precedes(new, x, tx)
  <2>1. PICK i \in 1..n : acc[i] = x
    BY <1>1, <1>5 DEF ToSet
  <2>2. i \in DOMAIN new /\ n + 1 \in DOMAIN new /\ i < n + 1 /\ new[i] = x /\ new[n + 1] = tx
    BY <1>1, <2>1
  <2> QED BY <2>2 DEF Precedes
<1> QED BY <1>3, <1>4, <1>5 DEF new

\* Among distinct transactions, the one accepted earlier is not the other one,
\* and its position is smaller.
LEMMA PrecedesMeans ==
    ASSUME NEW acc, DOMAIN acc \subseteq Nat, Distinct(acc), NEW x, NEW y, Precedes(acc, x, y)
    PROVE  /\ x # y
           /\ (CHOOSE i \in DOMAIN acc : acc[i] = x) < (CHOOSE i \in DOMAIN acc : acc[i] = y)
<1>1. PICK i, j \in DOMAIN acc : i < j /\ acc[i] = x /\ acc[j] = y
  BY DEF Precedes
<1>2. i \in Nat /\ j \in Nat
  BY <1>1
<1>3. (CHOOSE k \in DOMAIN acc : acc[k] = x) = i
  BY <1>1 DEF Distinct
<1>4. (CHOOSE k \in DOMAIN acc : acc[k] = y) = j
  BY <1>1 DEF Distinct
<1>5. x # y
  BY <1>1, <1>2 DEF Distinct
<1> QED BY <1>1, <1>3, <1>4, <1>5

\* Sequences in order stay in order if something precedes whatever did before,
\* or when one more is appended that all of them precede.
LEMMA InOrderKept ==
    ASSUME NEW acc, NEW new, NEW s,
           \A x, y : Precedes(acc, x, y) => Precedes(new, x, y),
           InOrder(acc, s)
    PROVE  InOrder(new, s)
BY DEF InOrder

LEMMA InOrderAppend ==
    ASSUME NEW acc, NEW S, NEW s \in Seq(S), NEW x \in S,
           InOrder(acc, s), AllBefore(acc, ToSet(s), {x})
    PROVE  InOrder(acc, Append(s, x))
<1> DEFINE new == Append(s, x)
<1>1. /\ DOMAIN s = 1..Len(s) /\ Len(s) \in Nat
      /\ DOMAIN new = 1..(Len(s) + 1)
      /\ \A i \in 1..Len(s) : new[i] = s[i]
      /\ new[Len(s) + 1] = x
  BY Appended
<1> HIDE DEF new
<1>2. ASSUME NEW i \in DOMAIN new, NEW j \in DOMAIN new, i < j
      PROVE  Precedes(acc, new[i], new[j])
  <2>1. i \in 1..Len(s) /\ new[i] = s[i] /\ s[i] \in ToSet(s)
    BY <1>1, <1>2 DEF ToSet
  <2>2. CASE j \in 1..Len(s)
    BY <1>1, <1>2, <2>1, <2>2 DEF InOrder
  <2>3. CASE j = Len(s) + 1
    BY <1>1, <2>1, <2>3 DEF AllBefore
  <2> QED BY <1>1, <2>2, <2>3
<1> QED BY <1>2 DEF InOrder, new

LEMMA InOrderTail ==
    ASSUME NEW acc, NEW S, NEW s \in Seq(S), s # <<>>, InOrder(acc, s)
    PROVE  InOrder(acc, Tail(s)) /\ AllBefore(acc, {Head(s)}, ToSet(Tail(s)))
<1> DEFINE rest == Tail(s)
<1>1. /\ DOMAIN s = 1..Len(s) /\ Len(s) \in Nat \ {0}
      /\ DOMAIN rest = 1..(Len(s) - 1)
      /\ \A i \in 1..(Len(s) - 1) : rest[i] = s[i + 1]
      /\ Head(s) = s[1]
  BY HeadAndTail
<1> HIDE DEF rest
<1>2. ASSUME NEW i \in DOMAIN rest, NEW j \in DOMAIN rest, i < j
      PROVE  Precedes(acc, rest[i], rest[j])
  <2>1. i + 1 \in DOMAIN s /\ j + 1 \in DOMAIN s /\ i + 1 < j + 1
    BY <1>1, <1>2
  <2>2. rest[i] = s[i + 1] /\ rest[j] = s[j + 1]
    BY <1>1
  <2> QED BY <2>1, <2>2 DEF InOrder
<1>3. ASSUME NEW y \in ToSet(rest)
      PROVE  Precedes(acc, Head(s), y)
  <2>1. PICK j \in DOMAIN rest : y = rest[j]
    BY <1>3 DEF ToSet
  <2>2. 1 \in DOMAIN s /\ j + 1 \in DOMAIN s /\ 1 < j + 1 /\ y = s[j + 1]
    BY <1>1, <2>1
  <2> QED BY <1>1, <2>2 DEF InOrder
<1> QED BY <1>2, <1>3 DEF InOrder, AllBefore, rest

-----------------------------------------------------------------------------
\* The calls of the shim

\* The calls that are left when call i goes, and where they were.
LEMMA CallRemoved ==
    ASSUME NEW i \in DOMAIN calls, calls \in Seq(Call)
    PROVE  /\ RemoveAt(calls, i) \in Seq(Call)
           /\ \A k \in DOMAIN RemoveAt(calls, i) :
                 /\ From(i, k) \in DOMAIN calls \ {i}
                 /\ RemoveAt(calls, i)[k] = calls[From(i, k)]
           /\ \A k, l \in DOMAIN RemoveAt(calls, i) : From(i, k) = From(i, l) => k = l
<1>1. i \in Nat
  BY LenProperties
<1> QED BY <1>1, Removed, FromApart

\* If no call is awaited and c is submitted, c is the only one that may be.
LEMMA NoneAwaited ==
    ASSUME calls \in Seq(Call),
           \A i \in DOMAIN calls : ~calls[i].live,
           NEW c \in Call
    PROVE  /\ Append(calls, c) \in Seq(Call)
           /\ \A i \in DOMAIN Append(calls, c) :
                 Append(calls, c)[i].live => Append(calls, c)[i] = c
           /\ \A i, j \in DOMAIN Append(calls, c) :
                 Append(calls, c)[i].live /\ Append(calls, c)[j].live => i = j
<1> DEFINE new == Append(calls, c)
           n == Len(calls)
<1>1. /\ new \in Seq(Call) /\ DOMAIN calls = 1..n /\ n \in Nat
      /\ DOMAIN new = 1..(n + 1)
      /\ \A i \in 1..n : new[i] = calls[i]
      /\ new[n + 1] = c
  BY Appended
<1> HIDE DEF new, n
<1>2. \A i \in DOMAIN new : new[i].live => i = n + 1
  BY <1>1
<1> QED BY <1>1, <1>2 DEF new

-----------------------------------------------------------------------------
\* The steps of the queue, one lemma each.

LEMMA InitQueueInv == SystemInit => QueueInv
<1> SUFFICES ASSUME SystemInit PROVE QueueInv
  OBVIOUS
<1>1. /\ outgoing = <<>> /\ accepted = <<>> /\ forwarded = <<>> /\ lost = {}
      /\ available = {Genesis} /\ shim = "query" /\ hand = NoTransaction /\ calls = <<>>
  BY DEF SystemInit
<1>2. QueueTypeOK
  BY <1>1, StateAssumption DEF QueueTypeOK, Steps
<1>3. ToSet(accepted) = {} /\ ToSet(outgoing) = {} /\ ToSet(forwarded) = {} /\ Held = {}
  BY <1>1 DEF ToSet, Held
<1>4. Distinct(accepted) /\ Ordered
  BY <1>1, <1>3 DEF Distinct, Ordered, InOrder, AllBefore
<1>5. Accounted
  BY <1>1, <1>3 DEF Accounted
<1>6. Awaited
  BY <1>1 DEF Awaited
<1> QED BY <1>2, <1>4, <1>5, <1>6 DEF QueueInv

LEMMA SendTransactionKeeps ==
    ASSUME QueueInv, NEW tx \in Transactions, SendTransaction(tx)
    PROVE  QueueInv'
<1>1. /\ tx \notin ToSet(accepted)
      /\ outgoing' = Append(outgoing, tx) /\ accepted' = Append(accepted, tx)
      /\ UNCHANGED <<forwarded, lost, available, calls, shim, hand>>
  BY DEF SendTransaction, shimVars
<1>2. /\ outgoing \in Seq(Transactions) /\ accepted \in Seq(Transactions)
      /\ Distinct(accepted) /\ Ordered /\ Accounted /\ Awaited
  BY DEF QueueInv, QueueTypeOK
<1>3. /\ Distinct(accepted')
      /\ \A x, y : Precedes(accepted, x, y) => Precedes(accepted', x, y)
      /\ \A x \in ToSet(accepted) : Precedes(accepted', x, tx)
  BY <1>1, <1>2, OneMoreAccepted
<1>4. /\ ToSet(accepted') = ToSet(accepted) \cup {tx}
      /\ ToSet(outgoing') = ToSet(outgoing) \cup {tx}
  BY <1>1, <1>2, Appended
<1>5. QueueTypeOK'
  BY <1>1, Appended DEF QueueInv, QueueTypeOK
<1>6. Held' = Held /\ ToSet(forwarded') = ToSet(forwarded)
  BY <1>1 DEF Held
<1>7. ToSet(outgoing) \cup ToSet(forwarded) \cup Held \cup lost = ToSet(accepted)
  BY <1>2 DEF Accounted
<1>8. Ordered'
  <2>1. InOrder(accepted', forwarded')
    BY <1>1, <1>2, <1>3, InOrderKept DEF Ordered
  <2>2. InOrder(accepted', outgoing) /\ AllBefore(accepted', ToSet(outgoing), {tx})
    BY <1>2, <1>3, <1>7, InOrderKept DEF Ordered, AllBefore
  <2>3. InOrder(accepted', outgoing')
    BY <1>1, <1>2, <2>2, InOrderAppend
  <2>4. AllBefore(accepted', ToSet(forwarded'), Held')
    BY <1>2, <1>3, <1>6 DEF Ordered, AllBefore
  <2>5. AllBefore(accepted', ToSet(forwarded'), ToSet(outgoing'))
    BY <1>2, <1>3, <1>4, <1>6, <1>7 DEF Ordered, AllBefore
  <2>6. AllBefore(accepted', Held', ToSet(outgoing'))
    BY <1>2, <1>3, <1>4, <1>6, <1>7 DEF Ordered, AllBefore
  <2> QED BY <2>1, <2>3, <2>4, <2>5, <2>6 DEF Ordered
<1>9. Accounted'
  BY <1>1, <1>2, <1>4, <1>6 DEF Accounted
<1>10. Awaited'
  BY <1>1, <1>2 DEF Awaited
<1> QED BY <1>3, <1>5, <1>8, <1>9, <1>10 DEF QueueInv

\* Most steps of shim and replica leave the transactions where they are.
LEMMA TransactionsStay ==
    ASSUME QueueInv, UNCHANGED <<txVars, hand>>
    PROVE  Distinct(accepted)' /\ Ordered' /\ Accounted'
<1>1. UNCHANGED <<outgoing, accepted, forwarded, lost, hand>>
  BY DEF txVars
<1>2. Distinct(accepted) /\ Ordered /\ Accounted
  BY DEF QueueInv
<1>3. Distinct(accepted)'
  BY <1>1, <1>2 DEF Distinct
<1>4. Ordered'
  BY <1>1, <1>2 DEF Ordered, InOrder, AllBefore, Precedes, Held
<1>5. Accounted'
  BY <1>1, <1>2 DEF Accounted, Held
<1> QED BY <1>3, <1>4, <1>5

\* A step of the shim, or of the adapter, that submits no call: none is awaited.
LEMMA ShimStepKeeps ==
    ASSUME QueueInv, UNCHANGED <<txVars, hand, available, calls>>,
           shim \notin {"send", "await_tx", "await_response"},
           shim' \in Steps \ {"send"}
    PROVE  QueueInv'
<1>1. UNCHANGED <<outgoing, accepted, forwarded, lost>>
  BY DEF txVars
<1>2. QueueTypeOK'
  BY <1>1 DEF QueueInv, QueueTypeOK
<1>3. Awaited /\ \A i \in DOMAIN calls : ~calls[i].live
  BY DEF QueueInv, Awaited
<1>4. Awaited'
  BY <1>3 DEF Awaited
<1> QED BY <1>2, <1>4, TransactionsStay DEF QueueInv

\* A step that submits a call and waits for it.
LEMMA SubmitKeeps ==
    ASSUME QueueInv, NEW c \in Call, UNCHANGED <<txVars, hand, available>>,
           shim \notin {"send", "await_tx", "await_response"},
           calls' = Append(calls, c),
           shim' = IF c.method = "get_outgoing_transaction"
                   THEN "await_tx" ELSE "await_response"
    PROVE  QueueInv'
<1>1. UNCHANGED <<outgoing, accepted, forwarded, lost>>
  BY DEF txVars
<1>2. Awaited /\ calls \in Seq(Call) /\ \A i \in DOMAIN calls : ~calls[i].live
  BY DEF QueueInv, Awaited, QueueTypeOK
<1>3. /\ calls' \in Seq(Call)
      /\ \A i \in DOMAIN calls' : calls'[i].live => calls'[i] = c
      /\ \A i, j \in DOMAIN calls' : calls'[i].live /\ calls'[j].live => i = j
  BY <1>2, NoneAwaited
<1>4. QueueTypeOK'
  BY <1>1, <1>3 DEF QueueInv, QueueTypeOK, Steps
<1>5. Awaited'
  <2>1. hand' # NoTransaction <=> shim' = "send"
    BY <1>2 DEF Awaited
  <2> QED BY <1>3, <2>1 DEF Awaited
<1> QED BY <1>4, <1>5, TransactionsStay DEF QueueInv

\* Without the call that was awaited no other is.
LEMMA OthersNotAwaited ==
    ASSUME QueueInv, NEW i \in DOMAIN calls, calls' = RemoveAt(calls, i)
    PROVE  /\ calls' \in Seq(Call)
           /\ calls[i].live => \A k \in DOMAIN calls' : ~calls'[k].live
           /\ ~calls[i].live =>
                 /\ \A k \in DOMAIN calls' :
                       calls'[k].live => shim = IF calls'[k].method = "get_outgoing_transaction"
                                                THEN "await_tx" ELSE "await_response"
                 /\ \A k, l \in DOMAIN calls' : calls'[k].live /\ calls'[l].live => k = l
<1>1. calls \in Seq(Call) /\ Awaited
  BY DEF QueueInv, QueueTypeOK
<1>2. /\ calls' \in Seq(Call)
      /\ \A k \in DOMAIN calls' :
            /\ From(i, k) \in DOMAIN calls \ {i}
            /\ calls'[k] = calls[From(i, k)]
      /\ \A k, l \in DOMAIN calls' : From(i, k) = From(i, l) => k = l
  BY <1>1, CallRemoved
<1>3. ASSUME calls[i].live, NEW k \in DOMAIN calls'
      PROVE  ~calls'[k].live
  BY <1>1, <1>2, <1>3 DEF Awaited
<1>4. \A k \in DOMAIN calls' :
        calls'[k].live => shim = IF calls'[k].method = "get_outgoing_transaction"
                                 THEN "await_tx" ELSE "await_response"
  BY <1>1, <1>2 DEF Awaited
<1>5. \A k, l \in DOMAIN calls' : calls'[k].live /\ calls'[l].live => k = l
  BY <1>1, <1>2 DEF Awaited
<1> QED BY <1>2, <1>3, <1>4, <1>5

\* A call that goes, executed or not, and leaves the transactions alone.
LEMMA CallGoesKeeps ==
    ASSUME QueueInv, NEW i \in DOMAIN calls, calls' = RemoveAt(calls, i),
           UNCHANGED <<txVars, hand, available>>,
           IF calls[i].live
           THEN calls[i].method = "get_successors_response" /\ shim' \in {"down", "outgoing"}
           ELSE UNCHANGED shim
    PROVE  QueueInv'
<1>1. UNCHANGED <<outgoing, accepted, forwarded, lost>>
  BY DEF txVars
<1>2. QueueTypeOK'
  BY <1>1, OthersNotAwaited DEF QueueInv, QueueTypeOK, Steps
<1>3. CASE calls[i].live
  <2>1. shim = "await_response" /\ hand = NoTransaction
    BY <1>3 DEF QueueInv, Awaited
  <2>2. Awaited'
    BY <1>3, <2>1, OthersNotAwaited DEF Awaited
  <2> QED BY <1>2, <2>2, TransactionsStay DEF QueueInv
<1>4. CASE ~calls[i].live
  <2>1. Awaited'
    BY <1>4, OthersNotAwaited DEF QueueInv, Awaited
  <2> QED BY <1>2, <2>1, TransactionsStay DEF QueueInv
<1> QED BY <1>3, <1>4

\* Nothing is ordered before itself.
LEMMA Apart ==
    ASSUME QueueInv, NEW x, NEW y, Precedes(accepted, x, y)
    PROVE  x # y
<1>1. DOMAIN accepted \subseteq Nat /\ Distinct(accepted)
  BY LenProperties DEF QueueInv, QueueTypeOK
<1> QED BY <1>1, PrecedesMeans

\* get_outgoing_transaction() with a transaction in the queue, which the shim
\* takes, or which is lost with the shim that asked for it.
LEMMA PopKeeps ==
    ASSUME QueueInv, outgoing # <<>>,
           outgoing' = Tail(outgoing), UNCHANGED <<accepted, forwarded>>,
           \/ Held = {} /\ hand' = Head(outgoing) /\ UNCHANGED lost
           \/ UNCHANGED hand /\ lost' = lost \cup {Head(outgoing)}
    PROVE  /\ Distinct(accepted)' /\ Ordered' /\ Accounted'
           /\ outgoing' \in Seq(Transactions) /\ Head(outgoing) \in Transactions
<1> DEFINE tx == Head(outgoing)
           rest == Tail(outgoing)
<1>1. /\ outgoing \in Seq(Transactions) /\ Distinct(accepted) /\ Ordered /\ Accounted
  BY DEF QueueInv, QueueTypeOK
<1>2. /\ rest \in Seq(Transactions) /\ tx \in Transactions
      /\ ToSet(outgoing) = {tx} \cup ToSet(rest)
  BY <1>1, HeadAndTail
<1>3. InOrder(accepted, rest) /\ AllBefore(accepted, {tx}, ToSet(rest))
  BY <1>1, InOrderTail DEF Ordered
<1>4. tx \notin ToSet(rest) /\ tx \notin ToSet(forwarded) /\ tx \notin Held
  BY <1>1, <1>2, <1>3, Apart DEF Ordered, AllBefore
<1>5. /\ InOrder(accepted, forwarded)
      /\ AllBefore(accepted, ToSet(forwarded), Held)
      /\ AllBefore(accepted, ToSet(forwarded), {tx})
      /\ AllBefore(accepted, ToSet(forwarded), ToSet(rest))
      /\ AllBefore(accepted, Held, ToSet(rest))
  BY <1>1, <1>2 DEF Ordered, AllBefore
<1>6. /\ ToSet(accepted) = {tx} \cup ToSet(rest) \cup ToSet(forwarded) \cup Held \cup lost
      /\ lost \cap ({tx} \cup ToSet(rest) \cup ToSet(forwarded) \cup Held) = {}
  BY <1>1, <1>2 DEF Accounted
<1>7. outgoing' = rest /\ accepted' = accepted /\ forwarded' = forwarded
  OBVIOUS
<1> HIDE DEF tx, rest
<1>8. Distinct(accepted)'
  BY <1>1, <1>7 DEF Distinct
<1>9. CASE Held = {} /\ hand' = tx /\ UNCHANGED lost
  <2>1. Held' = {tx}
    BY <1>2, <1>9, CanisterAssumption DEF Held
  <2>2. AllBefore(accepted, ToSet(forwarded), {tx}) /\ AllBefore(accepted, {tx}, ToSet(rest))
    BY <1>3, <1>5
  <2>3. Ordered'
    BY <1>3, <1>5, <1>7, <2>1, <2>2 DEF Ordered
  <2>4. Accounted'
    BY <1>6, <1>7, <1>9, <2>1 DEF Accounted
  <2> QED BY <1>2, <1>7, <1>8, <2>3, <2>4 DEF tx
<1>10. CASE UNCHANGED hand /\ lost' = lost \cup {tx}
  <2>1. Held' = Held
    BY <1>10 DEF Held
  <2>2. Ordered'
    BY <1>3, <1>5, <1>7, <2>1 DEF Ordered
  <2>3. Accounted'
    BY <1>4, <1>6, <1>7, <1>10, <2>1 DEF Accounted
  <2> QED BY <1>2, <1>7, <1>8, <2>2, <2>3 DEF tx
<1> QED BY <1>9, <1>10 DEF tx

LEMMA ExecuteOutgoingKeeps ==
    ASSUME QueueInv, NEW i \in DOMAIN calls, ExecuteOutgoing(i)
    PROVE  QueueInv'
<1>1. /\ calls[i].method = "get_outgoing_transaction"
      /\ outgoing' = PopFront(outgoing).rest
      /\ calls' = RemoveAt(calls, i)
      /\ UNCHANGED <<accepted, forwarded, available>>
  BY DEF ExecuteOutgoing
<1>2. /\ calls[i].live => /\ hand' = PopFront(outgoing).tx
                          /\ shim' = AfterFetch(PopFront(outgoing).tx)
                          /\ UNCHANGED lost
      /\ ~calls[i].live => /\ lost' = lost \cup ({PopFront(outgoing).tx} \ {NoTransaction})
                           /\ UNCHANGED <<hand, shim>>
  BY DEF ExecuteOutgoing
<1>3. calls[i].live => shim = "await_tx" /\ hand = NoTransaction /\ Held = {}
  BY <1>1 DEF QueueInv, Awaited, Held
<1>4. CASE outgoing = <<>>
  <2>1. PopFront(outgoing) = [tx |-> NoTransaction, rest |-> <<>>]
    BY <1>4 DEF PopFront
  <2>2. UNCHANGED <<outgoing, accepted, forwarded, lost, hand>>
    <3>1. PopFront(outgoing).tx = NoTransaction /\ PopFront(outgoing).rest = <<>>
      BY <2>1
    <3>2. UNCHANGED <<outgoing, accepted, forwarded>>
      BY <1>1, <1>4, <3>1
    <3>3. CASE calls[i].live
      BY <1>2, <1>3, <3>1, <3>2, <3>3
    <3>4. CASE ~calls[i].live
      BY <1>2, <3>1, <3>2, <3>4
    <3> QED BY <3>3, <3>4
  <2>3. Distinct(accepted)' /\ Ordered' /\ Accounted'
    BY <2>2, TransactionsStay DEF txVars
  <2>4. calls[i].live => shim' = "query"
    BY <1>2, <2>1 DEF AfterFetch
  <2>5. QueueTypeOK'
    BY <1>1, <1>2, <2>2, <2>4, OthersNotAwaited DEF QueueInv, QueueTypeOK, Steps
  <2>6. Awaited'
    BY <1>1, <1>2, <1>3, <2>2, <2>4, OthersNotAwaited DEF QueueInv, Awaited
  <2> QED BY <2>3, <2>5, <2>6 DEF QueueInv
<1>5. CASE outgoing # <<>>
  <2>1. PopFront(outgoing) = [tx |-> Head(outgoing), rest |-> Tail(outgoing)]
    BY <1>5 DEF PopFront
  <2>2. Head(outgoing) \in Transactions /\ Head(outgoing) # NoTransaction
    BY <1>5, HeadAndTail, CanisterAssumption DEF QueueInv, QueueTypeOK
  <2>3. \/ Held = {} /\ hand' = Head(outgoing) /\ UNCHANGED lost
        \/ UNCHANGED hand /\ lost' = lost \cup {Head(outgoing)}
    BY <1>2, <1>3, <2>1, <2>2
  <2>4. Distinct(accepted)' /\ Ordered' /\ Accounted' /\ outgoing' \in Seq(Transactions)
    BY <1>1, <1>5, <2>1, <2>3, PopKeeps
  <2>5. calls[i].live => shim' = "send" /\ hand' = Head(outgoing)
    BY <1>2, <2>1, <2>2 DEF AfterFetch
  <2>6. QueueTypeOK'
    BY <1>1, <1>2, <2>2, <2>3, <2>4, <2>5, OthersNotAwaited DEF QueueInv, QueueTypeOK, Steps
  <2>7. Awaited'
    BY <1>1, <1>2, <2>2, <2>5, OthersNotAwaited DEF QueueInv, Awaited
  <2> QED BY <2>4, <2>6, <2>7 DEF QueueInv
<1> QED BY <1>4, <1>5

LEMMA SendToAdapterKeeps ==
    ASSUME QueueInv, SendToAdapter
    PROVE  QueueInv'
<1>1. /\ shim = "send" /\ hand' = NoTransaction /\ shim' = "query"
      /\ UNCHANGED <<outgoing, accepted, available, calls>>
      /\ \/ forwarded' = Append(forwarded, hand) /\ UNCHANGED lost
         \/ lost' = lost \cup {hand} /\ UNCHANGED forwarded
  BY DEF SendToAdapter
<1>2. /\ forwarded \in Seq(Transactions) /\ hand \in Transactions /\ Held = {hand}
      /\ Distinct(accepted) /\ Ordered /\ Accounted
  BY <1>1 DEF QueueInv, QueueTypeOK, Awaited, Held
<1>3. Held' = {}
  BY <1>1 DEF Held
<1>4. QueueTypeOK'
  <2>1. Append(forwarded, hand) \in Seq(Transactions)
    BY <1>2, Appended
  <2>2. forwarded' \in Seq(Transactions) /\ lost' \subseteq Transactions
    BY <1>1, <1>2, <2>1 DEF QueueInv, QueueTypeOK
  <2> QED BY <1>1, <2>2 DEF QueueInv, QueueTypeOK, Steps
<1>5. Distinct(accepted)'
  BY <1>1, <1>2 DEF Distinct
<1>6. Awaited'
  BY <1>1 DEF QueueInv, Awaited
<1>7. hand \notin ToSet(outgoing) /\ hand \notin ToSet(forwarded)
  BY <1>2, Apart DEF Ordered, AllBefore
<1>8. CASE forwarded' = Append(forwarded, hand) /\ UNCHANGED lost
  <2>1. InOrder(accepted, forwarded') /\ ToSet(forwarded') = ToSet(forwarded) \cup {hand}
    BY <1>2, <1>8, InOrderAppend, Appended DEF Ordered
  <2>2. AllBefore(accepted, ToSet(forwarded'), ToSet(outgoing))
    BY <1>2, <2>1 DEF Ordered, AllBefore
  <2>3. Ordered'
    BY <1>1, <1>2, <1>3, <2>1, <2>2 DEF Ordered, AllBefore, InOrder, Precedes
  <2>4. Accounted'
    BY <1>1, <1>2, <1>3, <1>8, <2>1 DEF Accounted
  <2> QED BY <1>4, <1>5, <1>6, <2>3, <2>4 DEF QueueInv
<1>9. CASE lost' = lost \cup {hand} /\ UNCHANGED forwarded
  <2>1. Ordered'
    BY <1>1, <1>2, <1>3, <1>9 DEF Ordered, AllBefore, InOrder, Precedes
  <2>2. Accounted'
    BY <1>1, <1>2, <1>3, <1>7, <1>9 DEF Accounted
  <2> QED BY <1>4, <1>5, <1>6, <2>1, <2>2 DEF QueueInv
<1> QED BY <1>1, <1>8, <1>9

LEMMA CrashKeeps ==
    ASSUME QueueInv, Crash
    PROVE  QueueInv'
<1>1. /\ shim' = "down" /\ hand' = NoTransaction
      /\ lost' = lost \cup Held
      /\ calls' = [i \in DOMAIN calls |-> [calls[i] EXCEPT !.live = FALSE]]
      /\ UNCHANGED <<outgoing, accepted, forwarded, available>>
  BY DEF Crash, Held
<1>2. /\ Distinct(accepted) /\ Ordered /\ Accounted /\ calls \in Seq(Call)
  BY DEF QueueInv, QueueTypeOK
<1>3. Held' = {} /\ Held \subseteq Transactions
  BY <1>1 DEF Held, QueueInv, QueueTypeOK
<1>4. calls' \in Seq(Call) /\ \A i \in DOMAIN calls' : ~calls'[i].live
  <2>1. DOMAIN calls = 1..Len(calls) /\ Len(calls) \in Nat /\ \A i \in 1..Len(calls) : calls[i] \in Call
    BY <1>2, LenProperties
  <2>2. \A i \in 1..Len(calls) :
           [calls[i] EXCEPT !.live = FALSE] \in Call /\ ~[calls[i] EXCEPT !.live = FALSE].live
    BY <2>1 DEF Call
  <2>3. calls' \in [1..Len(calls) -> Call]
    BY <1>1, <2>1, <2>2
  <2>4. calls' \in Seq(Call)
    BY <2>1, <2>3, SeqDef
  <2> QED BY <1>1, <2>1, <2>2, <2>4
<1>5. QueueTypeOK'
  BY <1>1, <1>3, <1>4 DEF QueueInv, QueueTypeOK, Steps
<1>6. Distinct(accepted)'
  BY <1>1, <1>2 DEF Distinct
<1>7. Ordered'
  BY <1>1, <1>2, <1>3 DEF Ordered, AllBefore, InOrder, Precedes
<1>8. Held \cap (ToSet(outgoing) \cup ToSet(forwarded)) = {}
  BY <1>2, Apart DEF Ordered, AllBefore
<1>9. Accounted'
  BY <1>1, <1>2, <1>3, <1>8 DEF Accounted
<1>10. Awaited'
  BY <1>1, <1>4 DEF Awaited
<1> QED BY <1>5, <1>6, <1>7, <1>9, <1>10 DEF QueueInv

-----------------------------------------------------------------------------
LEMMA AnswersTyped ==
    ASSUME available \subseteq Blocks, NEW bs \in Answers(request)
    PROVE  bs \in Seq(Blocks)
<1>1. bs \in BoundedSeq(available \ request, MaxResponse)
  BY DEF Answers
<1>2. PICK m \in 0..MaxResponse : bs \in [1..m -> available \ request]
  BY <1>1 DEF BoundedSeq, SeqOf
<1>3. m \in Nat /\ bs \in [1..m -> Blocks]
  BY <1>2, AdapterAssumption
<1> QED BY <1>3, SeqDef

LEMMA NextQueueInv == QueueInv /\ [SystemNext]_systemVars => QueueInv'
<1> SUFFICES ASSUME QueueInv, [SystemNext]_systemVars PROVE QueueInv'
  OBVIOUS
<1>1. CASE \E tx \in Transactions : SendTransaction(tx)
  BY <1>1, SendTransactionKeeps
<1>2. CASE \E b \in Blocks : BlockArrives(b)
  <2>1. PICK b \in Blocks : BlockArrives(b)
    BY <1>2
  <2>2. /\ UNCHANGED <<txVars, hand, shim, calls>>
        /\ available' = available \cup {b}
    BY <2>1 DEF BlockArrives, Learns, shimVars
  <2>3. QueueTypeOK'
    BY <2>2 DEF QueueInv, QueueTypeOK, txVars
  <2>4. Awaited'
    BY <2>2 DEF QueueInv, Awaited
  <2> QED BY <2>2, <2>3, <2>4, TransactionsStay DEF QueueInv
<1>3. CASE QueryRequest
  BY <1>3, ShimStepKeeps DEF QueryRequest, Steps
<1>4. CASE AdapterStep
  <2>1. CASE AdapterFails
    BY <2>1, ShimStepKeeps DEF AdapterFails, Steps
  <2>2. CASE \E bs \in Answers(request) : AdapterAnswers(bs)
    <3>1. PICK bs \in Answers(request) : AdapterAnswers(bs)
      BY <2>2
    <3> DEFINE c == [method |-> "get_successors_response", blocks |-> bs, live |-> TRUE]
    <3>2. c \in Call
      BY AnswersTyped DEF Call, QueueInv, QueueTypeOK
    <3>3. /\ calls' = Append(calls, c) /\ shim = "adapter" /\ shim' = "await_response"
          /\ UNCHANGED <<txVars, hand, available>>
      BY <3>1 DEF AdapterAnswers
    <3>4. c.method = "get_successors_response"
      OBVIOUS
    <3> HIDE DEF c
    <3> QED BY <3>2, <3>3, <3>4, SubmitKeeps
  <2> QED BY <1>4, <2>1, <2>2 DEF AdapterStep
<1>5. CASE ExecuteCall
  <2>1. PICK i \in DOMAIN calls : ExecuteResponse(i) \/ ExecuteOutgoing(i)
    BY <1>5 DEF ExecuteCall
  <2>2. CASE ExecuteResponse(i)
    <3>1. /\ calls[i].method = "get_successors_response"
          /\ calls' = RemoveAt(calls, i)
          /\ UNCHANGED <<txVars, hand, available>>
          /\ shim' = IF ~calls[i].live THEN shim
                     ELSE IF Traps(InsertAll(calls[i].blocks).state) THEN "down" ELSE "outgoing"
      BY <2>2 DEF ExecuteResponse
    <3> QED BY <3>1, CallGoesKeeps
  <2>3. CASE ExecuteOutgoing(i)
    BY <2>3, ExecuteOutgoingKeeps
  <2> QED BY <2>1, <2>2, <2>3
<1>6. CASE QueryOutgoing
  <2>1. shim = "outgoing" /\ UNCHANGED <<txVars, hand, available>>
    BY <1>6 DEF QueryOutgoing
  <2>2. CASE outgoing = <<>>
    BY <1>6, <2>1, <2>2, ShimStepKeeps DEF QueryOutgoing, Steps
  <2>3. CASE outgoing # <<>>
    <3> DEFINE c == [method |-> "get_outgoing_transaction", blocks |-> <<>>, live |-> TRUE]
    <3>1. <<>> \in Seq(Blocks)
      BY EmptySeq
    <3>2. c \in Call /\ c.method = "get_outgoing_transaction"
      BY <3>1 DEF Call
    <3>3. calls' = Append(calls, c) /\ shim' = "await_tx"
      BY <1>6, <2>3 DEF QueryOutgoing
    <3> HIDE DEF c
    <3> QED BY <2>1, <3>2, <3>3, SubmitKeeps
  <2> QED BY <2>2, <2>3
<1>7. CASE SendToAdapter
  BY <1>7, SendToAdapterKeeps
<1>8. CASE Crash
  BY <1>8, CrashKeeps
<1>9. CASE Restart
  BY <1>9, ShimStepKeeps DEF Restart, Steps
<1>10. CASE \E i \in DOMAIN calls : Expire(i)
  <2>1. PICK i \in DOMAIN calls : Expire(i)
    BY <1>10
  <2>2. /\ ~calls[i].live /\ calls' = RemoveAt(calls, i)
        /\ UNCHANGED <<txVars, hand, available, shim>>
    BY <2>1 DEF Expire, shimVars
  <2> QED BY <2>2, CallGoesKeeps
<1>11. CASE UNCHANGED systemVars
  <2>1. UNCHANGED <<txVars, hand, available, shim, calls>>
    BY <1>11 DEF systemVars, shimVars
  <2>2. QueueTypeOK' /\ Awaited'
    BY <2>1 DEF QueueInv, QueueTypeOK, Awaited, txVars
  <2> QED BY <2>1, <2>2, TransactionsStay DEF QueueInv
<1> QED BY <1>1, <1>2, <1>3, <1>4, <1>5, <1>6, <1>7, <1>8, <1>9, <1>10, <1>11 DEF SystemNext

\* The inductive invariant holds in every behaviour of canister, shim and adapter.
THEOREM QueueInvariance == SystemSpec => []QueueInv
<1>1. SystemInit => QueueInv
  BY InitQueueInv
<1>2. QueueInv /\ [SystemNext]_systemVars => QueueInv'
  BY NextQueueInv
<1> QED BY <1>1, <1>2, PTL DEF SystemSpec

-----------------------------------------------------------------------------
\* What the invariant says of the line of transactions.

LEMMA InOrderConcat ==
    ASSUME NEW acc, NEW S, NEW s \in Seq(S), NEW t \in Seq(S),
           InOrder(acc, s), InOrder(acc, t), AllBefore(acc, ToSet(s), ToSet(t))
    PROVE  /\ s \o t \in Seq(S)
           /\ InOrder(acc, s \o t)
           /\ ToSet(s \o t) \subseteq ToSet(s) \cup ToSet(t)
<1> DEFINE st == s \o t
<1>1. /\ DOMAIN s = 1..Len(s) /\ Len(s) \in Nat
      /\ DOMAIN t = 1..Len(t) /\ Len(t) \in Nat
      /\ st \in Seq(S) /\ DOMAIN st = 1..(Len(s) + Len(t))
      /\ \A i \in 1..(Len(s) + Len(t)) : st[i] = IF i <= Len(s) THEN s[i] ELSE t[i - Len(s)]
  BY ConcatProperties, LenProperties
<1> HIDE DEF st
<1>2. ASSUME NEW i \in DOMAIN st, i <= Len(s)
      PROVE  i \in DOMAIN s /\ st[i] = s[i] /\ s[i] \in ToSet(s)
  BY <1>1, <1>2 DEF ToSet
<1>3. ASSUME NEW i \in DOMAIN st, ~(i <= Len(s))
      PROVE  i - Len(s) \in DOMAIN t /\ st[i] = t[i - Len(s)] /\ t[i - Len(s)] \in ToSet(t)
  BY <1>1, <1>3 DEF ToSet
<1>4. ASSUME NEW i \in DOMAIN st, NEW j \in DOMAIN st, i < j
      PROVE  Precedes(acc, st[i], st[j])
  <2>1. CASE j <= Len(s)
    <3>1. i <= Len(s)
      BY <1>1, <1>4, <2>1
    <3> QED BY <1>2, <1>4, <2>1, <3>1 DEF InOrder
  <2>2. CASE i <= Len(s) /\ ~(j <= Len(s))
    BY <1>2, <1>3, <2>2 DEF AllBefore
  <2>3. CASE ~(i <= Len(s))
    <3>1. ~(j <= Len(s)) /\ i - Len(s) < j - Len(s)
      BY <1>1, <1>4, <2>3
    <3> QED BY <1>3, <2>3, <3>1 DEF InOrder
  <2> QED BY <2>1, <2>2, <2>3
<1>5. ASSUME NEW x \in ToSet(st)
      PROVE  x \in ToSet(s) \cup ToSet(t)
  <2>1. PICK i \in DOMAIN st : x = st[i]
    BY <1>5 DEF ToSet
  <2> QED BY <1>2, <1>3, <2>1
<1> QED BY <1>1, <1>4, <1>5 DEF InOrder, st

LEMMA InvariantSuffices == QueueInv => TransactionsInOrderOnce
<1> SUFFICES ASSUME QueueInv PROVE TransactionsInOrderOnce
  OBVIOUS
<1>1. /\ QueueTypeOK /\ Ordered /\ Accounted
  BY DEF QueueInv
<1>2. ASSUME NEW tx \in ToSet(accepted)
      PROVE  Cardinality(Places(tx)) = 1
  <2>1. tx \in Transactions
    <3>1. PICK i \in DOMAIN accepted : tx = accepted[i]
      BY <1>2 DEF ToSet
    <3> QED BY <1>1, <3>1, LenProperties DEF QueueTypeOK
  <2>2. tx = hand <=> tx \in Held
    BY <2>1, CanisterAssumption DEF Held
  <2>3. /\ ~(tx \in ToSet(forwarded) /\ tx \in Held)
        /\ ~(tx \in ToSet(forwarded) /\ tx \in ToSet(outgoing))
        /\ ~(tx \in Held /\ tx \in ToSet(outgoing))
    BY <1>1, Apart DEF Ordered, AllBefore
  <2>4. \/ tx \in ToSet(outgoing) /\ Places(tx) = {"queue"}
        \/ tx \in Held /\ Places(tx) = {"shim"}
        \/ tx \in ToSet(forwarded) /\ Places(tx) = {"adapter"}
        \/ tx \in lost /\ Places(tx) = {"lost"}
    BY <1>1, <1>2, <2>2, <2>3 DEF Accounted, Places
  <2> QED BY <2>4, FS_Singleton
<1> DEFINE line == forwarded \o InHand \o outgoing
<1>3. InOrder(accepted, line) /\ line \in Seq(Transactions)
  <2>1. InHand \in Seq(Transactions) /\ ToSet(InHand) = Held /\ InOrder(accepted, InHand)
    <3>1. CASE hand = NoTransaction
      BY <3>1, EmptySeq DEF InHand, Held, InOrder, ToSet
    <3>2. CASE hand # NoTransaction
      <4>1. hand \in Transactions /\ InHand = <<hand>> /\ Held = {hand}
        BY <1>1, <3>2 DEF QueueTypeOK, InHand, Held
      <4>2. <<hand>> \in Seq(Transactions) /\ DOMAIN <<hand>> = {1} /\ <<hand>>[1] = hand
        BY <4>1
      <4> QED BY <4>1, <4>2 DEF InOrder, ToSet
    <3> QED BY <3>1, <3>2
  <2>2. /\ forwarded \o InHand \in Seq(Transactions)
        /\ InOrder(accepted, forwarded \o InHand)
        /\ ToSet(forwarded \o InHand) \subseteq ToSet(forwarded) \cup Held
    BY <1>1, <2>1, InOrderConcat DEF Ordered, QueueTypeOK
  <2>3. AllBefore(accepted, ToSet(forwarded \o InHand), ToSet(outgoing))
    BY <1>1, <2>2 DEF Ordered, AllBefore
  <2> QED BY <1>1, <2>2, <2>3, InOrderConcat DEF Ordered, QueueTypeOK
<1>4. ASSUME NEW i \in DOMAIN line, NEW j \in DOMAIN line, i < j
      PROVE  AcceptedAt(line[i]) < AcceptedAt(line[j])
  <2>1. Precedes(accepted, line[i], line[j])
    BY <1>3, <1>4 DEF InOrder
  <2>2. DOMAIN accepted \subseteq Nat /\ Distinct(accepted)
    BY <1>1, LenProperties DEF QueueInv, QueueTypeOK
  <2> HIDE DEF line
  <2> QED BY <2>1, <2>2, PrecedesMeans DEF AcceptedAt
<1> QED BY <1>2, <1>4 DEF TransactionsInOrderOnce

\* For any transactions, blocks and deaths of the shim, an accepted transaction
\* is in one place, and the adapter receives them once, in the order in which
\* the canister accepted them.
THEOREM TransactionsOrdered == SystemSpec => []TransactionsInOrderOnce
BY QueueInvariance, InvariantSuffices, PTL

-----------------------------------------------------------------------------
\* The chain state between canister, shim and adapter

SystemInv == QueueInv /\ SInv /\ request \subseteq Blocks

LEMMA InitSystemInv == SystemInit => SystemInv
<1> SUFFICES ASSUME SystemInit PROVE SystemInv
  OBVIOUS
<1>1. Init /\ request = {}
  BY DEF SystemInit
<1> QED BY <1>1, InitQueueInv, InitConsistent DEF SystemInv

\* The hashes of a request are blocks.
LEMMA RequestTyped ==
    ASSUME SInv
    PROVE  GetBlocks(state.unstable_blocks) \cup {Anchor} \subseteq Blocks
<1>1. state.unstable_blocks \in Seq(Linked) /\ Anchor \in Blocks
  BY DEF SInv, Consistent, Anchor
<1>2. \A t \in Linked : \A n \in t : n.block \in Blocks
  BY DEF Linked, Tree, Node
<1>3. \A i \in DOMAIN state.unstable_blocks : state.unstable_blocks[i] \in Linked
  BY <1>1, ElementOfSeq, LenProperties
<1> QED BY <1>1, <1>2, <1>3 DEF GetBlocks

\* get_successors_response() leaves a state that stands for a chain, however
\* many blocks come in one call, and whoever submitted it.
LEMMA ExecuteResponseStands ==
    ASSUME SystemInv, NEW i \in DOMAIN calls, ExecuteResponse(i)
    PROVE  SInv'
<1> DEFINE bs == calls[i].blocks
           after == InsertAll(bs)
<1>1. calls \in Seq(Call) /\ Consistent(state, stable) /\ delivered \in SUBSET Blocks
  BY DEF SystemInv, QueueInv, QueueTypeOK, SInv
<1>2. bs \in Seq(Blocks)
  <2>1. calls[i] \in Call
    BY <1>1, ElementOfSeq, LenProperties
  <2> QED BY <2>1 DEF Call
<1>3. ToSet(bs) \subseteq Blocks
  BY <1>2, LenProperties, ElementOfSeq DEF ToSet
<1>4. ~Traps(after.state) /\ Consistent(after.state, after.stable)
  BY <1>1, <1>2, InsertAllConsistent
<1> HIDE DEF after, bs
<1>5. state' = after.state /\ stable' = after.stable /\ delivered' = delivered \cup ToSet(bs)
  BY <1>4 DEF ExecuteResponse, after, bs
<1> QED BY <1>1, <1>3, <1>4, <1>5 DEF SInv

LEMMA NextSystemInv == SystemInv /\ [SystemNext]_systemVars => SystemInv'
<1> SUFFICES ASSUME SystemInv, [SystemNext]_systemVars PROVE SystemInv'
  OBVIOUS
<1>1. QueueInv'
  BY NextQueueInv DEF SystemInv
<1>2. ASSUME UNCHANGED vars PROVE SInv'
  BY <1>2 DEF SystemInv, SInv, vars
<1>3. ASSUME NEW i \in DOMAIN calls, ExecuteResponse(i) PROVE SInv' /\ request' \subseteq Blocks
  <2>1. request' = request
    BY <1>3 DEF ExecuteResponse
  <2> QED BY <1>3, <2>1, ExecuteResponseStands DEF SystemInv
<1>4. CASE QueryRequest
  BY <1>1, <1>2, <1>4, RequestTyped DEF QueryRequest, SystemInv
<1>5. CASE \E i \in DOMAIN calls : ExecuteResponse(i)
  BY <1>1, <1>3, <1>5 DEF SystemInv
<1>6. ASSUME UNCHANGED vars, request' \in {request, {}} PROVE SystemInv'
  BY <1>1, <1>2, <1>6 DEF SystemInv
<1>7. CASE \E tx \in Transactions : SendTransaction(tx)
  BY <1>6, <1>7 DEF SendTransaction, shimVars
<1>8. CASE \E b \in Blocks : BlockArrives(b)
  BY <1>6, <1>8 DEF BlockArrives, shimVars
<1>9. CASE AdapterStep
  BY <1>6, <1>9 DEF AdapterStep, AdapterFails, AdapterAnswers
<1>10. CASE \E i \in DOMAIN calls : ExecuteOutgoing(i)
  BY <1>6, <1>10 DEF ExecuteOutgoing
<1>11. CASE QueryOutgoing
  BY <1>6, <1>11 DEF QueryOutgoing
<1>12. CASE SendToAdapter
  BY <1>6, <1>12 DEF SendToAdapter
<1>13. CASE Crash
  BY <1>6, <1>13 DEF Crash
<1>14. CASE Restart
  BY <1>6, <1>14 DEF Restart
<1>15. CASE \E i \in DOMAIN calls : Expire(i)
  BY <1>6, <1>15 DEF Expire, shimVars
<1>16. CASE UNCHANGED systemVars
  BY <1>6, <1>16 DEF systemVars, shimVars
<1> QED BY <1>4, <1>5, <1>7, <1>8, <1>9, <1>10, <1>11, <1>12, <1>13, <1>14, <1>15, <1>16
        DEF SystemNext, ExecuteCall

\* However the shim dies and whatever calls it leaves behind, the state of the
\* canister stands for the line of its anchor between any two messages.
THEOREM SystemStands == SystemSpec => []SystemInv
BY InitSystemInv, NextSystemInv, PTL DEF SystemSpec

\* The type invariant of the canister, the shim and the calls between them.
THEOREM SystemTypes == SystemSpec => []SystemTypeOK
<1>1. SystemInv => SystemTypeOK
  BY ConsistentTypes DEF SystemInv, SInv, QueueInv, SystemTypeOK
<1> QED BY <1>1, SystemStands, PTL

\* The canister's UTXO set is the replay of its stable chain, its index agrees,
\* and no block that is still to come can make it panic.
THEOREM CanisterStands ==
    SystemSpec => [](UtxosAreReplay /\ IndexMatchesUtxos /\ NextInsertSucceeds)
<1>1. SystemInv => UtxosAreReplay /\ IndexMatchesUtxos /\ NextInsertSucceeds
  BY ConsistentReplay, ConsistentIndex, ConsistentInserts DEF SystemInv
<1> QED BY <1>1, SystemStands, PTL

\* The canister's get_utxos and get_balance show what the confirmed chain pays to
\* the address, at heights of the main chain.
THEOREM CanisterViews == SystemSpec => [](ViewIsReplay /\ ReportedHeights)
<1>1. SystemInv => ViewIsReplay /\ ReportedHeights
  BY ConsistentViews, ConsistentHeights DEF SystemInv
<1> QED BY <1>1, SystemStands, PTL
=============================================================================
