------------------------ MODULE TransactionBuilding ------------------------
(***************************************************************************)
(* build_transaction of examples/common/src/lib.rs, which the example      *)
(* wallets share.  Amounts are words: the canisters are release builds,    *)
(* in which u64 arithmetic wraps around.  A UTXO is its outpoint; Value    *)
(* gives what it holds.                                                    *)
(***************************************************************************)
EXTENDS Integers, FiniteSets, Sequences, SequencesExt

CONSTANTS
    OutPoints,      \* the outputs that pay to the wallet's address
    Value,          \* Value[o]: the satoshis of outpoint o
    WordSize,       \* 2^64
    DustThreshold   \* DUST_THRESHOLD

Words == 0..(WordSize - 1)

ASSUME BuildingAssumption ==
    /\ WordSize \in Nat \ {0}
    /\ IsFiniteSet(OutPoints)
    /\ Value \in [OutPoints -> Words]
    /\ DustThreshold \in Words \ {0}

Wrapped(n) == n % WordSize

\* The outputs of a transaction are the amount and, if it is not 0, the change.
Transaction == [inputs : Seq(OutPoints), amount : Words, change : Words]

-----------------------------------------------------------------------------
Total(utxos) == FoldLeft(LAMBDA sum, o : Wrapped(sum + Value[o]), 0, utxos)

\* Mutant: the loop stops without regard to the fees.
SelectedForAmount(utxos, amount, fees) ==
    LET wanted(k) == \A j \in 1..(k - 1) : Total(SubSeq(utxos, 1, j)) < amount
    IN  SubSeq(utxos, 1, Cardinality({k \in DOMAIN utxos : wanted(k)}))

\* The loop takes the first UTXOs, one more as long as the sum is too small.
Selected(utxos, amount, fees) ==
    LET wanted(k) == \A j \in 1..(k - 1) :
                        Total(SubSeq(utxos, 1, j)) < Wrapped(amount + fees)
    IN  SubSeq(utxos, 1, Cardinality({k \in DOMAIN utxos : wanted(k)}))

\* "Insufficient balance" is returned if not.  The fees are not looked at.
CanBuild(utxos, amount, fees) == Total(Selected(utxos, amount, fees)) >= amount

\* build_transaction(), when it returns Ok.
BuildTransaction(utxos, amount, fees) ==
    LET inputs == Selected(utxos, amount, fees)
        remaining == Wrapped(Total(inputs) - amount - fees)
    IN  [inputs |-> inputs, amount |-> amount,
         change |-> IF remaining >= DustThreshold THEN remaining ELSE 0]
=============================================================================
